--------------------------- MODULE ManagerProofs ---------------------------
(***************************************************************************)
(* The management plane: commits carry exactly what was reviewed, an       *)
(* administrator is always left, tokens live and die with their keys, and  *)
(* the sessions of the VPN gateway have their addresses to themselves; for *)
(* every number of administrators, jobs, keys, threads and addresses.      *)
(***************************************************************************)
EXTENDS CommitPipeline, AdminAccounts, SigningKeys, ProtectGateway,
        SequenceTheorems, FiniteSetTheorems, TLAPS

(***************************************************************************)
(* CommitPipeline: what a commit promotes.                                 *)
(***************************************************************************)

Files == [candidate : Config, running : Config]
Reviews == [read : Files, projected : Config, effective : Config]
Jobs == [pc : {"review", "validate", "recheck", "barrier", "final", "apply", "wait", "audit"},
         scope : Scopes, read : Files, prepared : Reviews \cup {<<>>}, generation : Config \cup {<<>>}]
Entries == [version : Nat, xml : Config]

PipelineTypes ==
  /\ candidate \in Config /\ running \in Config /\ mirror \in Values
  /\ entries \in Seq(Entries) /\ Len(entries) >= 1 /\ nextVersion \in Nat

(* What has been checked of the configuration that a request carries: the  *)
(* review changed the mirrored section only; since validation, and since   *)
(* the barrier, nothing else was validated or fenced; what configd was     *)
(* asked to apply is still the running configuration.                      *)
Carries(j) ==
  /\ j.pc \in {"validate", "recheck", "barrier", "final"} =>
       j.prepared \in Reviews /\ j.prepared.projected["sys"] = j.prepared.read.candidate["sys"]
  /\ j.pc \in {"recheck", "barrier", "final"} => valid = j.prepared.effective
  /\ j.pc = "final" => fence = j.prepared.effective
  /\ j.pc = "wait" => j.generation = running

(* One commit at a time.                                                   *)
JobsInv ==
  /\ job \in [Users -> Jobs \cup {Idle}]
  /\ \A u, v \in Users : job[u].pc # "idle" /\ job[v].pc # "idle" => u = v
  /\ \A u \in Users : Carries(job[u])

CommitInv == PipelineTypes /\ JobsInv /\ RecordsAgree

-----------------------------------------------------------------------------
(* A step of the one request that is under way.                            *)
LEMMA OneJob ==
  ASSUME JobsInv, NEW u \in Users, job[u].pc # "idle" \/ ~Busy,
         NEW j \in Jobs \cup {Idle}, job' = [job EXCEPT ![u] = j], Carries(j)'
  PROVE  JobsInv'
<1>1. job' \in [Users -> Jobs \cup {Idle}]
  BY DEF JobsInv
<1>2. \A v \in Users : v # u => job[v].pc = "idle" /\ job'[v] = job[v]
  BY DEF JobsInv, Busy
<1>3. job'[u] = j
  BY DEF JobsInv
<1>4. \A v \in Users : v # u => job'[v].pc = "idle"
  BY <1>2
<1>5. \A v \in Users : Carries(job[v])'
  BY <1>3, <1>4 DEF Carries
<1>. QED BY <1>1, <1>4, <1>5 DEF JobsInv

LEMMA NoJob == ASSUME JobsInv, job' = [u \in Users |-> Idle] PROVE JobsInv'
BY DEF JobsInv, Carries, Idle

LEMMA SameJobs == ASSUME JobsInv, UNCHANGED <<job, valid, fence, running>> PROVE JobsInv'
BY DEF JobsInv, Carries

LEMMA SameRecords == ASSUME RecordsAgree, UNCHANGED <<running, nextVersion, entries, published, acked, torn>> PROVE RecordsAgree'
BY DEF RecordsAgree

(* CommitHistory.record: a new entry in front, the oldest perhaps dropped. *)
LEMMA Recorded ==
  ASSUME PipelineTypes, RecordsAgree, NEW xml \in Config, Record(xml)
  PROVE  /\ entries' \in Seq(Entries) /\ Len(entries') >= 1 /\ nextVersion' \in Nat
         /\ \A i \in 1 .. Len(entries') - 1 : entries'[i].version > entries'[i + 1].version
         /\ entries'[1].version < nextVersion' /\ entries'[1].xml = xml
<1>. DEFINE new == [version |-> nextVersion, xml |-> xml]
            all == <<new>> \o entries
            n == IF Len(all) > HistoryMax THEN HistoryMax ELSE Len(all)
<1>1. new \in Entries /\ new.version = nextVersion /\ new.xml = xml /\ <<new>> \in Seq(Entries) /\ Len(<<new>>) = 1 /\ <<new>>[1] = new
  BY DEF PipelineTypes, Entries
<1>2. entries \in Seq(Entries) /\ Len(entries) \in Nat /\ Len(entries) >= 1 /\ nextVersion \in Nat
  BY LenProperties DEF PipelineTypes
<1>3. entries' = SubSeq(all, 1, n) /\ nextVersion' = nextVersion + 1
  BY DEF Record
<1>4. /\ all \in Seq(Entries) /\ Len(all) = 1 + Len(entries)
      /\ \A i \in 1 .. 1 + Len(entries) : all[i] = IF i <= 1 THEN <<new>>[i] ELSE entries[i - 1]
  <2>. HIDE DEF new
  <2>. QED BY <1>1, <1>2, ConcatProperties
<1>5. n \in 1 .. Len(all) /\ n \in Nat
  <2>. HIDE DEF all
  <2>. QED BY <1>2, <1>4, PipelineAssumption
<1>. HIDE DEF n, all, new
<1>6. /\ entries' \in Seq(Entries) /\ Len(entries') = n /\ \A i \in 1 .. n : entries'[i] = all[i]
  <2>1. /\ SubSeq(all, 1, n) \in Seq(Entries) /\ Len(SubSeq(all, 1, n)) = IF 1 <= n THEN n - 1 + 1 ELSE 0
        /\ \A i \in 1 .. n - 1 + 1 : SubSeq(all, 1, n)[i] = all[1 + i - 1]
    BY <1>4, <1>5, SubSeqProperties
  <2>. QED BY <1>3, <1>5, <2>1
<1>7. all[1] = new /\ \A i \in 1 .. Len(entries) : all[i + 1] = entries[i]
  BY <1>1, <1>2, <1>4
<1>8. \A i \in 1 .. Len(entries) : entries[i].version \in Nat
  <2>1. \A i \in 1 .. Len(entries) : entries[i] \in Entries
    BY <1>2, ElementOfSeq
  <2>. QED BY <2>1 DEF Entries
<1>9. ASSUME NEW i \in 1 .. n - 1 PROVE entries'[i].version > entries'[i + 1].version
  <2>1. entries'[i] = all[i] /\ entries'[i + 1] = all[i + 1] /\ i \in 1 .. Len(entries) /\ all[i + 1] = entries[i]
    BY <1>2, <1>4, <1>5, <1>6, <1>7
  <2>2. CASE i = 1
    <3>1. entries[1].version < nextVersion
      BY DEF RecordsAgree
    <3>. QED BY <1>1, <1>2, <1>7, <1>8, <2>1, <2>2, <3>1
  <2>3. CASE i # 1
    <3>1. i - 1 \in 1 .. Len(entries) - 1 /\ all[i] = entries[i - 1]
      BY <1>2, <1>7, <2>1, <2>3
    <3>2. entries[i - 1].version > entries[(i - 1) + 1].version
      BY <3>1 DEF RecordsAgree
    <3>3. (i - 1) + 1 = i
      BY <2>1
    <3>. QED BY <2>1, <3>1, <3>2, <3>3
  <2>. QED BY <2>2, <2>3
<1>. QED BY <1>1, <1>2, <1>3, <1>5, <1>6, <1>7, <1>9

LEMMA PruneKeeps == ASSUME CommitInv, Prune PROVE CommitInv'
<1>1. PICK keep \in 1 .. Len(entries) - 1 : entries' = SubSeq(entries, 1, keep)
  BY DEF Prune
<1>2. entries \in Seq(Entries) /\ Len(entries) \in Nat
  BY LenProperties DEF CommitInv, PipelineTypes
<1>3. entries' \in Seq(Entries) /\ Len(entries') = keep /\ \A i \in 1 .. keep : entries'[i] = entries[i]
  <2>1. /\ SubSeq(entries, 1, keep) \in Seq(Entries) /\ Len(SubSeq(entries, 1, keep)) = IF 1 <= keep THEN keep - 1 + 1 ELSE 0
        /\ \A i \in 1 .. keep - 1 + 1 : SubSeq(entries, 1, keep)[i] = entries[1 + i - 1]
    BY <1>2, SubSeqProperties
  <2>. QED BY <1>1, <1>2, <2>1
<1>4. UNCHANGED <<running, nextVersion, published, candidate, mirror, job, valid, fence, acked, torn>>
  BY DEF Prune, history
<1>5. PipelineTypes'
  BY <1>3, <1>4 DEF CommitInv, PipelineTypes
<1>6. RecordsAgree'
  <2>1. entries'[1] = entries[1]
    BY <1>3
  <2>2. \A i \in 1 .. Len(entries') - 1 : entries'[i].version > entries'[i + 1].version
    BY <1>2, <1>3 DEF CommitInv, RecordsAgree
  <2>. QED BY <1>4, <2>1, <2>2 DEF CommitInv, RecordsAgree
<1>. QED BY <1>4, <1>5, <1>6, SameJobs DEF CommitInv

(* Steps that leave requests and records alone.                            *)
LEMMA EditKeeps ==
  ASSUME CommitInv, UNCHANGED <<job, running, nextVersion, entries, published, valid, fence, acked, torn>>,
         candidate' \in Config, mirror' \in Values
  PROVE  CommitInv'
<1>1. PipelineTypes'
  BY DEF CommitInv, PipelineTypes
<1>. QED BY <1>1, SameJobs, SameRecords DEF CommitInv

(* Steps of one request that promote nothing.                              *)
LEMMA JobKeeps ==
  ASSUME CommitInv, UNCHANGED <<candidate, mirror, running, nextVersion, entries, torn>>,
         JobsInv', published' \in acked' \cup {<<>>}
  PROVE  CommitInv'
<1>1. PipelineTypes'
  BY DEF CommitInv, PipelineTypes
<1>2. RecordsAgree'
  BY DEF CommitInv, RecordsAgree
<1>. QED BY <1>1, <1>2 DEF CommitInv

LEMMA AbortKeeps == ASSUME CommitInv, NEW u \in Users, job[u].pc # "idle", Abort(u) PROVE CommitInv'
<1>1. Carries(Idle)'
  BY DEF Carries, Idle
<1>2. JobsInv'
  BY <1>1, OneJob DEF Abort, CommitInv
<1>. QED BY <1>2, JobKeeps DEF Abort, files, history, CommitInv, RecordsAgree

LEMMA CommitBeginKeeps == ASSUME CommitInv, NEW u \in Users, NEW scope \in Scopes, Begin(u, scope) PROVE CommitInv'
<1>. DEFINE new == [pc |-> "review", scope |-> scope, read |-> Read, prepared |-> <<>>, generation |-> <<>>]
<1>1. job' = [job EXCEPT ![u] = new] /\ ~Busy
  BY DEF Begin
<1>2. Read \in Files
  BY DEF Read, Files, CommitInv, PipelineTypes
<1>a. new \in Jobs /\ new.pc = "review"
  BY <1>2 DEF Jobs
<1>. HIDE DEF new
<1>3. PICK j \in Jobs : j = new
  BY <1>a
<1>4. Carries(j)'
  BY <1>a, <1>3 DEF Carries
<1>5. JobsInv'
  BY <1>1, <1>3, <1>4, OneJob DEF CommitInv
<1>. QED BY <1>5, JobKeeps DEF Begin, files, history, CommitInv, RecordsAgree

LEMMA IsJob == ASSUME JobsInv, NEW u \in Users, job[u].pc # "idle" PROVE job[u] \in Jobs
BY DEF JobsInv, Idle

LEMMA ReviewIs ==
  ASSUME CommitInv, NEW u \in Users, job[u] \in Jobs
  PROVE  Review(u) \in Reviews /\ Review(u).projected["sys"] = Review(u).read.candidate["sys"]
<1>1. job[u].read \in Files /\ job[u].scope \in Scopes /\ mirror \in Values
  BY DEF Jobs, CommitInv, PipelineTypes
<1>. DEFINE r == job[u].read
            p == [r.candidate EXCEPT !["net"] = mirror]
            e == [s \in Sections |-> IF job[u].scope \in {"all", s} THEN p[s] ELSE r.running[s]]
<1>2. r.candidate \in Config /\ r.running \in Config
  BY <1>1 DEF Files
<1>3. p \in Config /\ p["sys"] = r.candidate["sys"]
  BY <1>1, <1>2 DEF Config, Sections
<1>4. e \in Config
  <2>. HIDE DEF p, r
  <2>. QED BY <1>2, <1>3 DEF Config
<1>5. Review(u) = [read |-> r, projected |-> p, effective |-> e]
  BY DEF Review, Project, Effective
<1>. HIDE DEF e, p, r
<1>6. r \in Files
  BY <1>1 DEF r
<1>. QED BY <1>3, <1>4, <1>5, <1>6 DEF Reviews

LEMMA ReviewedKeeps == ASSUME CommitInv, NEW u \in Users, Reviewed(u) PROVE CommitInv'
<1>. DEFINE new == [job[u] EXCEPT !.pc = "validate", !.prepared = Review(u)]
<1>1. job[u].pc = "review" /\ job' = [job EXCEPT ![u] = new]
  BY DEF Reviewed, CommitInv, JobsInv
<1>2. job[u] \in Jobs
  BY <1>1, IsJob DEF CommitInv
<1>3. Review(u) \in Reviews /\ Review(u).projected["sys"] = Review(u).read.candidate["sys"]
  BY <1>2, ReviewIs
<1>a. new \in Jobs /\ new.pc = "validate" /\ new.prepared = Review(u)
  BY <1>2, <1>3 DEF Jobs
<1>. HIDE DEF new
<1>4. PICK j \in Jobs : j = new
  BY <1>a
<1>5. Carries(j)'
  BY <1>a, <1>3, <1>4 DEF Carries
<1>6. JobsInv'
  BY <1>1, <1>4, <1>5, OneJob DEF CommitInv
<1>. QED BY <1>6, JobKeeps DEF Reviewed, files, history, CommitInv, RecordsAgree

LEMMA ReadingKeeps == ASSUME CommitInv, NEW u \in Users, Validated(u) \/ Fenced(u) PROVE CommitInv'
<1>. DEFINE pc == IF job[u].pc = "validate" THEN "recheck" ELSE "final"
            new == [job[u] EXCEPT !.pc = pc, !.read = Read]
<1>1. job[u].pc \in {"validate", "barrier"} /\ job' = [job EXCEPT ![u] = new]
  BY DEF Validated, Fenced, GoReading, CommitInv, JobsInv
<1>2. job[u] \in Jobs
  BY <1>1, IsJob DEF CommitInv
<1>3. Read \in Files
  BY DEF Read, Files, CommitInv, PipelineTypes
<1>a. new \in Jobs /\ new.pc = pc /\ new.prepared = job[u].prepared
  BY <1>2, <1>3 DEF Jobs
<1>. HIDE DEF new
<1>4. PICK j \in Jobs : j = new
  BY <1>a
<1>5. Carries(job[u])
  BY DEF CommitInv, JobsInv
<1>6. Carries(j)'
  <2>1. CASE Validated(u)
    BY <1>a, <1>4, <1>5, <2>1 DEF Carries, Validated
  <2>2. CASE Fenced(u)
    BY <1>a, <1>4, <1>5, <2>2 DEF Carries, Fenced
  <2>. QED BY <2>1, <2>2
<1>7. JobsInv'
  BY <1>1, <1>4, <1>6, OneJob DEF CommitInv
<1>. QED BY <1>7, JobKeeps DEF Validated, Fenced, files, CommitInv, RecordsAgree

LEMMA GoIs ==
  ASSUME JobsInv, NEW u \in Users, job[u].pc # "idle",
         NEW pc \in {"review", "validate", "recheck", "barrier", "final", "apply", "wait", "audit"}, Go(u, pc)
  PROVE  \E j \in Jobs : job' = [job EXCEPT ![u] = j] /\ j = [job[u] EXCEPT !.pc = pc] /\ j.pc = pc /\ j.prepared = job[u].prepared
<1>. DEFINE j == [job[u] EXCEPT !.pc = pc]
<1>1. job[u] \in Jobs
  BY IsJob
<1>2. j \in Jobs /\ j.pc = pc /\ j.prepared = job[u].prepared
  BY <1>1 DEF Jobs
<1>3. job' = [job EXCEPT ![u] = j]
  BY DEF Go, JobsInv
<1>. QED BY <1>2, <1>3

LEMMA RecheckedKeeps == ASSUME CommitInv, NEW u \in Users, Rechecked(u) PROVE CommitInv'
<1>1. job[u].pc = "recheck" /\ Go(u, "barrier")
  BY DEF Rechecked
<1>2. PICK j \in Jobs : job' = [job EXCEPT ![u] = j] /\ j.pc = "barrier" /\ j.prepared = job[u].prepared
  BY <1>1, GoIs DEF CommitInv
<1>3. Carries(job[u])
  BY DEF CommitInv, JobsInv
<1>4. Carries(j)'
  BY <1>1, <1>2, <1>3 DEF Carries, Rechecked, history
<1>5. JobsInv'
  BY <1>1, <1>2, <1>4, OneJob DEF CommitInv
<1>. QED BY <1>5, JobKeeps DEF Rechecked, files, history, CommitInv, RecordsAgree

LEMMA AskKeeps == ASSUME CommitInv, NEW u \in Users, Ask(u) PROVE CommitInv'
<1>. DEFINE new == [job[u] EXCEPT !.pc = "wait", !.generation = running]
<1>1. job[u].pc = "apply" /\ job' = [job EXCEPT ![u] = new] /\ running' = running
  BY DEF Ask, files, CommitInv, JobsInv
<1>2. job[u] \in Jobs
  BY <1>1, IsJob DEF CommitInv
<1>a. new \in Jobs /\ new.pc = "wait" /\ new.generation = running
  BY <1>2 DEF Jobs, CommitInv, PipelineTypes
<1>. HIDE DEF new
<1>3. PICK j \in Jobs : j = new
  BY <1>a
<1>4. Carries(j)'
  BY <1>a, <1>1, <1>3 DEF Carries
<1>5. JobsInv'
  BY <1>1, <1>3, <1>4, OneJob DEF CommitInv
<1>. QED BY <1>5, JobKeeps DEF Ask, files, history, CommitInv, RecordsAgree

LEMMA AnswerKeeps == ASSUME CommitInv, NEW u \in Users, Applied(u) \/ NotApplied(u) PROVE CommitInv'
<1>1. job[u].pc = "wait" /\ Go(u, "audit")
  BY DEF Applied, NotApplied
<1>2. PICK j \in Jobs : job' = [job EXCEPT ![u] = j] /\ j.pc = "audit"
  BY <1>1, GoIs DEF CommitInv
<1>3. Carries(j)'
  BY <1>2 DEF Carries
<1>4. JobsInv'
  BY <1>1, <1>2, <1>3, OneJob DEF CommitInv
<1>5. job[u].generation = running
  BY <1>1 DEF CommitInv, JobsInv, Carries
<1>6. published' \in acked' \cup {<<>>}
  BY <1>5 DEF Applied, NotApplied, files, history, CommitInv, RecordsAgree
<1>. QED BY <1>4, <1>6, JobKeeps DEF Applied, NotApplied, files, history

(* The running configuration becomes what was validated and fenced, and    *)
(* the candidate keeps what was not mirrored.                              *)
LEMMA Promotes ==
  ASSUME CommitInv, NEW u \in Users, Promote(u) \/ PromoteCrash(u)
  PROVE  /\ CommitInv' /\ candidate'["sys"] = candidate["sys"]
         /\ running' = valid /\ running' = fence
<1>1. job[u].pc = "final" /\ running' = job[u].prepared.effective /\ UNCHANGED <<mirror, published, acked, valid, fence>>
  BY DEF Promote, PromoteCrash, MayPromote
<1>2. /\ job[u].prepared \in Reviews /\ job[u].prepared.projected["sys"] = job[u].prepared.read.candidate["sys"]
      /\ valid = job[u].prepared.effective /\ fence = job[u].prepared.effective
  BY <1>1 DEF CommitInv, JobsInv, Carries
<1>3. running' \in Config
  BY <1>1, <1>2 DEF Reviews
<1>4. candidate' \in Config /\ candidate'["sys"] = candidate["sys"]
  BY <1>1, <1>2 DEF Promote, PromoteCrash, Reviews, CommitInv, PipelineTypes
<1>5. JobsInv'
  <2>1. CASE Promote(u)
    <3>1. PICK j \in Jobs : job' = [job EXCEPT ![u] = j] /\ j.pc = "apply"
      BY <1>1, <2>1, GoIs DEF CommitInv, Promote
    <3>2. Carries(j)'
      BY <3>1 DEF Carries
    <3>. QED BY <1>1, <3>1, <3>2, OneJob DEF CommitInv
  <2>2. CASE PromoteCrash(u)
    BY <2>2, NoJob DEF PromoteCrash, CommitInv
  <2>. QED BY <2>1, <2>2
<1>6. CASE Record(running') /\ torn' = FALSE
  <2>1. PICK xml \in Config : xml = running'
    BY <1>3
  <2>2. Record(xml)
    BY <1>6, <2>1
  <2>3. /\ entries' \in Seq(Entries) /\ Len(entries') >= 1 /\ nextVersion' \in Nat
        /\ \A i \in 1 .. Len(entries') - 1 : entries'[i].version > entries'[i + 1].version
        /\ entries'[1].version < nextVersion' /\ entries'[1].xml = xml
    BY <2>2, Recorded DEF CommitInv
  <2>4. RecordsAgree'
    BY <1>1, <2>1, <2>3 DEF CommitInv, RecordsAgree
  <2>5. PipelineTypes'
    BY <1>1, <1>3, <1>4, <2>3 DEF CommitInv, PipelineTypes
  <2>. QED BY <1>1, <1>2, <1>4, <1>5, <2>4, <2>5 DEF CommitInv
<1>7. CASE torn' = TRUE /\ UNCHANGED <<nextVersion, entries>>
  <2>1. RecordsAgree'
    BY <1>1, <1>7 DEF CommitInv, RecordsAgree
  <2>2. PipelineTypes'
    BY <1>1, <1>3, <1>4, <1>7 DEF CommitInv, PipelineTypes
  <2>. QED BY <1>1, <1>2, <1>4, <1>5, <2>1, <2>2 DEF CommitInv
<1>8. \/ Record(running') /\ torn' = FALSE
      \/ torn' = TRUE /\ UNCHANGED <<nextVersion, entries>>
  BY DEF Promote, PromoteCrash
<1>. QED BY <1>6, <1>7, <1>8

(* The steps that promote nothing, and the others.                         *)
LEMMA CommitNextInv ==
  ASSUME CommitInv, [CommitNext]_commitVars
  PROVE  /\ CommitInv'
         /\ \/ UNCHANGED <<running, nextVersion>>
            \/ \E u \in Users : Promote(u) \/ PromoteCrash(u)
<1>1. ASSUME NEW u \in Users, NEW s \in Sections, NEW v \in Values, Edit(u, s, v)
      PROVE  CommitInv' /\ UNCHANGED <<running, nextVersion>>
  <2>1. candidate' \in Config
    BY <1>1 DEF Edit, CommitInv, PipelineTypes, Config
  <2>. QED BY <1>1, <2>1, EditKeeps DEF Edit, files, history, CommitInv, PipelineTypes
<1>2. ASSUME NEW u \in Users, Revert(u) \/ Rollback(u) \/ Lock(u) \/ Unlock(u)
      PROVE  CommitInv' /\ UNCHANGED <<running, nextVersion>>
  <2>1. candidate' \in Config
    <3>1. \A i \in DOMAIN entries : entries[i] \in Entries
      BY ElementOfSeq, LenProperties DEF CommitInv, PipelineTypes
    <3>2. \A i \in DOMAIN entries : entries[i].xml \in Config
      BY <3>1 DEF Entries
    <3>. QED BY <1>2, <3>2 DEF Revert, Rollback, Lock, Unlock, CommitInv, PipelineTypes
  <2>. QED BY <1>2, <2>1, EditKeeps DEF Revert, Rollback, Lock, Unlock, files, history, CommitInv, PipelineTypes
<1>3. ASSUME NEW v \in Values, EditMirror(v) PROVE CommitInv' /\ UNCHANGED <<running, nextVersion>>
  BY <1>3, EditKeeps DEF EditMirror, files, history, CommitInv, PipelineTypes
<1>4. CASE OverrideLock \/ Time
  BY <1>4, EditKeeps DEF OverrideLock, Time, files, history, CommitInv, PipelineTypes
<1>5. CASE Prune
  BY <1>5, PruneKeeps DEF Prune
<1>6. CASE Crash
  <2>1. JobsInv'
    BY <1>6, NoJob DEF Crash, CommitInv
  <2>. QED BY <1>6, <2>1, JobKeeps DEF Crash, files, history, CommitInv, RecordsAgree
<1>7. ASSUME NEW u \in Users, NotReviewed(u) \/ Refused(u) \/ End(u) PROVE CommitInv' /\ UNCHANGED <<running, nextVersion>>
  <2>1. job[u].pc # "idle" /\ Abort(u)
    BY <1>7 DEF NotReviewed, Refused, End
  <2>. QED BY <2>1, AbortKeeps DEF Abort, files
<1>8. ASSUME NEW u \in Users, NEW scope \in Scopes, Begin(u, scope) PROVE CommitInv' /\ UNCHANGED <<running, nextVersion>>
  BY <1>8, CommitBeginKeeps DEF Begin, files
<1>9. ASSUME NEW u \in Users, Reviewed(u) \/ Validated(u) \/ Fenced(u) \/ Rechecked(u) \/ Ask(u) \/ Applied(u) \/ NotApplied(u)
      PROVE  CommitInv' /\ UNCHANGED <<running, nextVersion>>
  <2>1. CommitInv'
    BY <1>9, ReviewedKeeps, ReadingKeeps, RecheckedKeeps, AskKeeps, AnswerKeeps
  <2>. QED BY <1>9, <2>1 DEF Reviewed, Validated, Fenced, Rechecked, Ask, Applied, NotApplied, files
<1>10. CASE UNCHANGED commitVars
  BY <1>10, EditKeeps DEF commitVars, CommitInv, PipelineTypes
<1>. QED BY <1>1, <1>2, <1>3, <1>4, <1>5, <1>6, <1>7, <1>8, <1>9, <1>10, Promotes DEF CommitNext, OverrideLock, Time, Prune, Crash, files, commitVars

LEMMA CommitInitInv == ASSUME CommitInit PROVE CommitInv
<1>1. FirstConfig \in Config
  BY PipelineAssumption DEF FirstConfig, Config
<1>2. entries = <<[version |-> 1, xml |-> FirstConfig]>> /\ [version |-> 1, xml |-> FirstConfig] \in Entries
  BY <1>1 DEF CommitInit, Entries
<1>3. entries \in Seq(Entries) /\ Len(entries) = 1 /\ entries[1] = [version |-> 1, xml |-> FirstConfig]
  BY <1>2
<1>4. PipelineTypes
  BY <1>1, <1>3, PipelineAssumption DEF CommitInit, PipelineTypes
<1>5. JobsInv
  BY DEF CommitInit, JobsInv, Carries, Idle
<1>6. RecordsAgree
  BY <1>3 DEF CommitInit, RecordsAgree
<1>. QED BY <1>4, <1>5, <1>6 DEF CommitInv

(* config_commit: the running configuration only ever becomes what was     *)
(* validated and fenced last, no edit is lost, and history, running file   *)
(* and publication agree, for any users, configurations and crashes.       *)
THEOREM ExactCommits == CommitSpec => CommitIsExact
<1>1. CommitInit => CommitInv
  BY CommitInitInv
<1>2. CommitInv /\ [CommitNext]_commitVars => CommitInv'
  BY CommitNextInv
<1>3. CommitInv /\ [CommitNext]_commitVars =>
        [/\ running' # running => running' = valid /\ running' = fence
         /\ nextVersion' # nextVersion => candidate'["sys"] = candidate["sys"]
         /\ RecordsAgree']_commitVars
  BY CommitNextInv, Promotes DEF CommitInv
<1>. QED BY <1>1, <1>2, <1>3, PTL DEF CommitSpec, CommitIsExact

-----------------------------------------------------------------------------
(***************************************************************************)
(* AdminAccounts: the last administrator.                                  *)
(***************************************************************************)

Requests == [op : {"idle", "delete", "demote", "promote", "force"}, target : Account \cup {"none"}, seen : SUBSET Account]

(* A request that takes an administrator away saw another one.             *)
Checked(q) ==
  q # NoRequest =>
    /\ q.target \in Account
    /\ q.op \in {"delete", "demote"} /\ q.target \in q.seen => ~(Cardinality(q.seen) <= 1)
AccountsInv ==
  /\ accounts \in [Account -> {"admin", "operator", "none"}]
  /\ handler \in [Handler -> Requests]
  /\ \A h \in Handler : Checked(handler[h])

LEMMA AccountsInitInv == ASSUME AccountsInit PROVE AccountsInv
<1>1. NoRequest \in Requests
  BY DEF NoRequest, Requests
<1>2. \A h \in Handler : handler[h] = NoRequest
  BY DEF AccountsInit
<1>. QED BY <1>1, <1>2 DEF AccountsInit, AccountsInv, Checked

LEMMA AccountBeginKeeps ==
  ASSUME AccountsInv, NEW h \in Handler, NEW s, NEW a \in Account,
         NEW op \in {"delete", "demote", "promote", "force"}, BeginChange(h, s, a, op)
  PROVE  AccountsInv'
<1>. DEFINE q == [op |-> op, target |-> a, seen |-> Admins]
<1>1. accounts' = accounts /\ handler' = [handler EXCEPT ![h] = q]
      /\ (op \in {"delete", "demote"} /\ a \in Admins => ~(Cardinality(Admins) <= 1))
  BY DEF BeginChange, BeginUnless
<1>2. Admins \subseteq Account
  BY DEF Admins
<1>3. q \in Requests
  BY <1>2 DEF Requests
<1>5. Checked(q)
  BY <1>1 DEF Checked
<1>. HIDE DEF q
<1>6. handler' \in [Handler -> Requests]
  BY <1>1, <1>3 DEF AccountsInv
<1>7. \A g \in Handler : handler'[g] = q \/ handler'[g] = handler[g]
  BY <1>1 DEF AccountsInv
<1>. QED BY <1>1, <1>5, <1>6, <1>7 DEF AccountsInv

LEMMA WriteChangeKeeps == ASSUME AccountsInv, NEW h \in Handler, WriteChange(h) PROVE AccountsInv'
<1>1. handler' = [handler EXCEPT ![h] = NoRequest] /\ handler[h] # NoRequest
  BY DEF WriteChange
<1>2. accounts' \in [Account -> {"admin", "operator", "none"}]
  <2>1. \/ accounts' = accounts
        \/ \E r \in {"none", "operator", "admin"} : accounts' = [accounts EXCEPT ![handler[h].target] = r]
    BY DEF WriteChange
  <2>. QED BY <2>1, <1>1 DEF AccountsInv, Checked
<1>3. NoRequest \in Requests
  BY DEF NoRequest, Requests
<1>4. handler' \in [Handler -> Requests]
  BY <1>1, <1>3 DEF AccountsInv
<1>5. \A g \in Handler : handler'[g] = NoRequest \/ handler'[g] = handler[g]
  BY <1>1 DEF AccountsInv
<1>. QED BY <1>2, <1>4, <1>5 DEF AccountsInv, Checked

LEMMA AccountsNextInv == ASSUME AccountsInv, [AccountsNext]_accountVars PROVE AccountsInv'
<1>1. ASSUME NEW a \in Account, Login(a) PROVE AccountsInv'
  BY <1>1 DEF Login, AccountsInv
<1>2. ASSUME NEW s \in sessions, Expires(s) \/ ChangePassword(s) PROVE AccountsInv'
  BY <1>2 DEF Expires, ChangePassword, AccountsInv
<1>3. ASSUME NEW s \in sessions, NEW a \in Account, NEW role \in {"admin", "operator"}, NEW must \in BOOLEAN,
             CreateUser(s, a, role, must)
      PROVE  AccountsInv'
  BY <1>3 DEF CreateUser, AccountsInv
<1>4. CASE UNCHANGED accountVars
  BY <1>4 DEF accountVars, AccountsInv
<1>. QED BY <1>1, <1>2, <1>3, <1>4, AccountBeginKeeps, WriteChangeKeeps DEF AccountsNext

(* A request that leaves no administrator takes away the only one, which   *)
(* is not what it saw.                                                     *)
LEMMA LastOne ==
  ASSUME AccountsInv, NEW h \in Handler, WriteChange(h), Admins # {}, Admins' = {}
  PROVE  handler[h] # NoRequest /\ handler'[h] = NoRequest /\ handler[h].seen # Admins
<1>. DEFINE q == handler[h]
<1>1. q # NoRequest /\ handler'[h] = NoRequest /\ Checked(q) /\ q \in Requests
  BY DEF WriteChange, AccountsInv
<1>2. PICK a \in Account : accounts[a] = "admin"
  BY DEF Admins
<1>3. \A b \in Account : accounts'[b] # "admin"
  BY DEF Admins
<1>4. q.op \notin {"force", "promote", "idle"}
  <2>1. accounts' # accounts
    BY <1>2, <1>3
  <2>2. q.op # "force"
    BY <2>1 DEF WriteChange
  <2>3. q.op \in {"delete", "demote"} \/ accounts' = [accounts EXCEPT ![q.target] = "admin"]
    BY <2>1, <2>2, <1>1 DEF WriteChange, Requests
  <2>4. accounts' # [accounts EXCEPT ![q.target] = "admin"]
    BY <1>1, <1>3 DEF AccountsInv, Checked
  <2>. QED BY <2>2, <2>3, <2>4
<1>5. q.op \in {"delete", "demote"} /\ q.target \in Account
  BY <1>1, <1>4 DEF Requests, Checked
<1>6. \A b \in Account : b # q.target => accounts'[b] = accounts[b]
  BY DEF WriteChange, AccountsInv
<1>7. Admins = {q.target}
  BY <1>2, <1>3, <1>6 DEF Admins
<1>8. Cardinality(Admins) = 1
  BY <1>7, FS_Singleton
<1>9. q.seen # Admins
  BY <1>1, <1>5, <1>7, <1>8 DEF Checked
<1>. QED BY <1>1, <1>9

(* update_user, delete_user: no request takes the last administrator away  *)
(* on its own, for any accounts, sessions and requests in progress.        *)
THEOREM SomeAdmin == AccountsSpec => LastAdminStays
<1>1. AccountsInv /\ [AccountsNext]_accountVars =>
        [Admins # {} /\ Admins' = {} =>
           \E h \in Handler : handler[h] # NoRequest /\ handler'[h] = NoRequest /\ handler[h].seen # Admins]_accountVars
  <2>. SUFFICES ASSUME AccountsInv, AccountsNext, Admins # {}, Admins' = {}
                PROVE  \E h \in Handler : handler[h] # NoRequest /\ handler'[h] = NoRequest /\ handler[h].seen # Admins
    OBVIOUS
  <2>1. PICK a \in Account : accounts[a] = "admin"
    BY DEF Admins
  <2>2. accounts'[a] # "admin"
    BY DEF Admins
  <2>3. ~(\E b \in Account : Login(b))
    BY <2>1, <2>2 DEF Login
  <2>4. ~(\E s \in sessions : Expires(s) \/ ChangePassword(s))
    BY <2>1, <2>2 DEF Expires, ChangePassword
  <2>5. ~(\E s \in sessions, b \in Account, role \in {"admin", "operator"}, must \in BOOLEAN : CreateUser(s, b, role, must))
    BY <2>1, <2>2 DEF CreateUser, AccountsInv
  <2>6. ~(\E h \in Handler, s \in sessions, b \in Account, op \in {"delete", "demote", "promote", "force"} : BeginChange(h, s, b, op))
    BY <2>1, <2>2 DEF BeginChange, BeginUnless
  <2>7. PICK h \in Handler : WriteChange(h)
    BY <2>3, <2>4, <2>5, <2>6 DEF AccountsNext
  <2>. QED BY <2>7, LastOne
<1>2. AccountsInit => AccountsInv
  BY AccountsInitInv
<1>3. AccountsInv /\ [AccountsNext]_accountVars => AccountsInv'
  BY AccountsNextInv
<1>. QED BY <1>1, <1>2, <1>3, PTL DEF AccountsSpec, LastAdminStays

-----------------------------------------------------------------------------
(***************************************************************************)
(* SigningKeys: tokens live and die with their keys, for every token life  *)
(* and margin, and any number of keys, tokens and rotations in progress.   *)
(***************************************************************************)

(* ------------------------- the inductive invariant ---------------------- *)

KeysOf(rg) == {rg.current} \cup {k.key : k \in rg.retired}

Retired == [key : Nat, until : Nat]
Rings == [current : Nat, retired : SUBSET Retired]
Rotations == [read : Rings, ring : Rings, begun : Nat, drops : SUBSET Nat]

KeyTypes ==
  /\ ring \in Rings /\ rotating \in SUBSET Rotations
  /\ minted \in Nat /\ now \in Nat /\ raced \in BOOLEAN
  /\ revoked \in SUBSET Nat /\ tokens \in SUBSET [key : Nat, issued : Nat]

\* Every key was minted; the next one is new.
Minted ==
  /\ \A key \in KeysOf(ring) \cup revoked : key <= minted
  /\ \A r \in rotating : /\ r.ring.current <= minted
                         /\ \A key \in KeysOf(r.read) \cup r.drops : key <= minted

\* The key of a rotation in progress is known to nothing else.
Fresh ==
  \A q \in rotating :
    /\ q.ring.current \notin KeysOf(ring) \cup revoked
    /\ \A r \in rotating : /\ q.ring.current \notin KeysOf(r.read) \cup r.drops
                           /\ r # q => r.ring.current # q.ring.current

\* What a rotation makes of the ring it read: it retires no key that it did
\* not read or that it drops, and either drops all or keeps all in time.
Derived(r) ==
  /\ \A k \in r.ring.retired : k.key \in KeysOf(r.read) \ r.drops
  /\ \/ KeysOf(r.read) \subseteq r.drops
     \/ /\ [key |-> r.read.current, until |-> r.begun + TokenLife + Overlap] \in r.ring.retired
        /\ \A k \in r.read.retired : k.until > r.begun => k \in r.ring.retired

\* Rotations are done within the margin, tokens are not from the future.
Timely ==
  /\ \A r \in rotating : r.begun <= now /\ now < r.begun + Overlap
  /\ \A t \in tokens : t.issued <= now

\* Dropped keys are off the ring.
Dead == ~raced => \A key \in revoked : key \notin KeysOf(ring)

\* A token's key is on the ring for as long as the token lives.
OnRing(t, rg) ==
  t.key = rg.current \/ \E k \in rg.retired : k.key = t.key /\ k.until >= t.issued + TokenLife
Covered == ~raced => \A t \in tokens : Alive(t) /\ t.key \notin revoked => OnRing(t, ring)

KeysInv ==
  /\ KeyTypes /\ Minted /\ Fresh /\ (\A r \in rotating : Derived(r)) /\ Timely /\ Dead /\ Covered

(* -------------------------------- proofs -------------------------------- *)

\* The invariant gives both properties.
LEMMA KeysInvImplies == KeysInv => TokensFollowKeys
<1> SUFFICES ASSUME KeysInv PROVE TokensFollowKeys
  OBVIOUS
<1>1. SessionsSurvive
  <2> SUFFICES ASSUME ~raced, NEW t \in tokens, Alive(t), t.key \notin revoked PROVE Verifies(t.key)
    BY DEF SessionsSurvive
  <2>1. OnRing(t, ring)
    BY DEF KeysInv, Covered
  <2>2. CASE t.key = ring.current
    BY <2>2 DEF Verifies
  <2>3. CASE \E k \in ring.retired : k.key = t.key /\ k.until >= t.issued + TokenLife
    <3>1. PICK k \in ring.retired : k.key = t.key /\ k.until >= t.issued + TokenLife
      BY <2>3
    <3>2. k.until \in Nat /\ now \in Nat /\ t.issued \in Nat /\ TokenLife \in Nat
      BY OverlapAssumption DEF KeysInv, KeyTypes, Rings, Retired
    <3>3. k.until > now
      BY <3>1, <3>2 DEF Alive
    <3> QED
      BY <3>1, <3>3 DEF Verifies
  <2> QED
    BY <2>1, <2>2, <2>3 DEF OnRing
<1>2. RevokedIsDead
  BY DEF KeysInv, Dead, RevokedIsDead, Verifies, KeysOf
<1> QED
  BY <1>1, <1>2 DEF TokensFollowKeys

LEMMA KeysInitInv == KeysInit => KeysInv
<1> SUFFICES ASSUME KeysInit PROVE KeysInv
  OBVIOUS
<1>1. KeyTypes
  BY DEF KeysInit, KeyTypes, Rings, Retired
<1>2. KeysOf(ring) = {1}
  BY DEF KeysInit, KeysOf
<1> QED
  BY <1>1, <1>2 DEF KeysInit, KeysInv, Minted, Fresh, Timely, Dead, Covered

\* rotate: the ring is as before, and the new rotation fits in.
LEMMA RotateInv ==
  ASSUME KeysInv, NEW compromised \in BOOLEAN, Rotate(compromised)
  PROVE  KeysInv'
<1> DEFINE n == [read |-> ring, ring |-> Rotated(Overlap, compromised), begun |-> now,
                 drops |-> IF compromised THEN KeysOf(ring) ELSE {}]
<1>1. /\ minted' = minted + 1 /\ rotating' = rotating \cup {n}
      /\ UNCHANGED <<ring, revoked, tokens, now, raced>>
  BY DEF Rotate, RotateWith, KeysOf
<1>2. TokenLife \in Nat /\ Overlap \in Nat /\ Overlap > 0 /\ minted \in Nat /\ now \in Nat
  BY OverlapAssumption DEF KeysInv, KeyTypes
<1>3. n.ring.current = minted + 1 /\ n.read = ring /\ n.begun = now /\ n.drops \subseteq KeysOf(ring)
  BY DEF Rotated
<1>4. KeyTypes'
  <2>1. ring \in Rings
    BY DEF KeysInv, KeyTypes
  <2>2. KeysOf(ring) \in SUBSET Nat
    BY <2>1 DEF KeysOf, Rings, Retired
  <2>3. Rotated(Overlap, compromised) \in Rings
    <3>1. [key |-> ring.current, until |-> now + TokenLife + Overlap] \in Retired
      BY <1>2, <2>1 DEF Rings, Retired
    <3> QED
      BY <1>2, <2>1, <3>1 DEF Rotated, Rings
  <2>4. n \in Rotations
    BY <1>2, <2>1, <2>2, <2>3 DEF Rotations
  <2> HIDE DEF n
  <2>5. rotating' \in SUBSET Rotations
    BY <1>1, <2>4 DEF KeysInv, KeyTypes
  <2> QED
    BY <1>1, <1>2, <2>5 DEF KeysInv, KeyTypes
<1>5. \A key \in KeysOf(ring) \cup revoked : key \in Nat /\ key <= minted
  <2>1. KeysOf(ring) \cup revoked \subseteq Nat
    BY DEF KeysInv, KeyTypes, KeysOf, Rings, Retired
  <2> QED
    BY <2>1 DEF KeysInv, Minted
<1>6. \A r \in rotating : /\ r.ring.current \in Nat /\ r.ring.current <= minted
                          /\ \A key \in KeysOf(r.read) \cup r.drops : key \in Nat /\ key <= minted
  <2>1. \A r \in rotating : r.ring.current \in Nat /\ KeysOf(r.read) \cup r.drops \subseteq Nat
    BY DEF KeysInv, KeyTypes, KeysOf, Rings, Retired, Rotations
  <2> QED
    BY <2>1 DEF KeysInv, Minted
<1>7. KeysOf(ring)' = KeysOf(ring)
  BY <1>1 DEF KeysOf
<1> HIDE DEF n
<1>8. Minted'
  <2>1. \A key \in KeysOf(ring)' \cup revoked' : key <= minted'
    BY <1>1, <1>2, <1>5, <1>7
  <2>2. ASSUME NEW r \in rotating
        PROVE  r.ring.current <= minted' /\ \A key \in KeysOf(r.read) \cup r.drops : key <= minted'
    BY <1>1, <1>2, <1>6
  <2>3. n.ring.current <= minted' /\ \A key \in KeysOf(n.read) \cup n.drops : key <= minted'
    BY <1>1, <1>2, <1>3, <1>5
  <2> QED
    BY <1>1, <2>1, <2>2, <2>3 DEF Minted, KeysOf
<1>9. Fresh'
  <2>1. ASSUME NEW q \in rotating'
        PROVE  q.ring.current \notin KeysOf(ring) \cup revoked
    BY <1>1, <1>2, <1>3, <1>5 DEF KeysInv, Fresh
  <2>2. ASSUME NEW q \in rotating', NEW r \in rotating'
        PROVE  q.ring.current \notin KeysOf(r.read) \cup r.drops
    <3>1. CASE q \in rotating /\ r \in rotating
      BY <3>1 DEF KeysInv, Fresh
    <3>2. CASE r = n
      BY <3>2, <2>1, <1>3
    <3>3. CASE q = n /\ r \in rotating
      BY <3>3, <1>2, <1>3, <1>6
    <3> QED
      BY <1>1, <3>1, <3>2, <3>3
  <2>3. ASSUME NEW q \in rotating', NEW r \in rotating', r # q
        PROVE  r.ring.current # q.ring.current
    BY <2>3, <1>1, <1>2, <1>3, <1>6 DEF KeysInv, Fresh
  <2> QED
    BY <1>1, <2>1, <2>2, <2>3 DEF Fresh, KeysOf
<1>10. Derived(n)
  <2>1. CASE compromised
    BY <2>1 DEF n, Derived, Rotated
  <2>2. CASE ~compromised
    <3>1. n.drops = {} /\ n.read = ring /\ n.begun = now
      BY <2>2 DEF n
    <3>2. n.ring.retired = {k \in ring.retired : k.until > now} \cup
                           {[key |-> ring.current, until |-> now + TokenLife + Overlap]}
      BY <2>2 DEF n, Rotated
    <3> QED
      BY <3>1, <3>2 DEF Derived, KeysOf
  <2> QED
    BY <2>1, <2>2
<1>11. (\A r \in rotating : Derived(r))'
  BY <1>1, <1>10 DEF KeysInv, Derived, KeysOf
<1>12. Timely'
  BY <1>1, <1>2, <1>3 DEF KeysInv, Timely
<1>13. Dead' /\ Covered'
  BY <1>1 DEF KeysInv, Dead, Covered, KeysOf, OnRing, Alive
<1> QED
  BY <1>4, <1>8, <1>9, <1>11, <1>12, <1>13 DEF KeysInv

\* save: the ring that the rotation derived takes the place of the one it read.
LEMMA SaveInv ==
  ASSUME KeysInv, NEW r \in rotating, SaveRing(r)
  PROVE  KeysInv'
<1>1. /\ rotating' = rotating \ {r} /\ ring' = r.ring /\ revoked' = revoked \cup r.drops
      /\ raced' = (raced \/ ring # r.read) /\ UNCHANGED <<minted, tokens, now>>
  BY DEF SaveRing
<1>2. r \in Rotations /\ Derived(r)
  BY DEF KeysInv, KeyTypes
<1>3. KeysOf(r.ring) \subseteq {r.ring.current} \cup (KeysOf(r.read) \ r.drops)
  BY <1>2 DEF Derived, KeysOf
<1>4. KeysOf(ring)' = KeysOf(r.ring)
  BY <1>1 DEF KeysOf
<1>5. KeyTypes'
  BY <1>1, <1>2 DEF KeysInv, KeyTypes, Rotations
<1>6. Minted'
  <2>1. \A key \in KeysOf(r.ring) \cup revoked' : key <= minted
    BY <1>1, <1>3 DEF KeysInv, Minted
  <2> QED
    BY <1>1, <1>4, <2>1 DEF KeysInv, Minted, KeysOf
<1>7. Fresh'
  <2>1. ASSUME NEW q \in rotating' PROVE q.ring.current \notin KeysOf(ring)' \cup revoked'
    BY <1>1, <1>3, <1>4 DEF KeysInv, Fresh
  <2> QED
    BY <1>1, <2>1 DEF KeysInv, Fresh, KeysOf
<1>8. (\A q \in rotating : Derived(q))'
  BY <1>1 DEF KeysInv, Derived, KeysOf
<1>9. Timely'
  BY <1>1 DEF KeysInv, Timely
<1>10. Dead'
  <2> SUFFICES ASSUME ~raced', NEW key \in revoked' PROVE key \notin KeysOf(r.ring)
    BY <1>4 DEF Dead
  <2>1. ~raced /\ ring = r.read
    BY <1>1, <1>5 DEF KeysInv, KeyTypes
  <2>2. r.ring.current \notin revoked \cup r.drops
    BY DEF KeysInv, Fresh
  <2> QED
    BY <1>1, <1>3, <2>1, <2>2 DEF KeysInv, Dead
<1>11. Covered'
  <2> SUFFICES ASSUME ~raced', NEW t \in tokens, Alive(t), t.key \notin revoked', t.key # r.ring.current
               PROVE  \E k \in r.ring.retired : k.key = t.key /\ k.until >= t.issued + TokenLife
    BY <1>1 DEF Covered, Alive, OnRing
  <2>1. ~raced /\ ring = r.read
    BY <1>1, <1>5 DEF KeysInv, KeyTypes
  <2>2. t.key \notin revoked /\ t.key \notin r.drops
    BY <1>1
  <2>3. OnRing(t, r.read)
    BY <2>1, <2>2 DEF KeysInv, Covered
  <2>4. t.key \in KeysOf(r.read)
    BY <2>3 DEF OnRing, KeysOf
  <2>5. /\ [key |-> r.read.current, until |-> r.begun + TokenLife + Overlap] \in r.ring.retired
        /\ \A k \in r.read.retired : k.until > r.begun => k \in r.ring.retired
    BY <1>2, <2>2, <2>4 DEF Derived
  <2>6. /\ r.begun \in Nat /\ now \in Nat /\ t.issued \in Nat /\ TokenLife \in Nat /\ Overlap \in Nat
        /\ r.begun <= now /\ now < r.begun + Overlap /\ t.issued <= now
    BY <1>2, OverlapAssumption DEF KeysInv, KeyTypes, Timely, Rotations
  <2>7. CASE t.key = r.read.current
    <3>1. r.begun + TokenLife + Overlap >= t.issued + TokenLife
      BY <2>6
    <3> QED
      BY <2>5, <2>7, <3>1
  <2>8. CASE \E k \in r.read.retired : k.key = t.key /\ k.until >= t.issued + TokenLife
    <3>1. PICK k \in r.read.retired : k.key = t.key /\ k.until >= t.issued + TokenLife
      BY <2>8
    <3>2. k.until \in Nat
      BY <1>2 DEF Rotations, Rings, Retired
    <3>3. k.until > r.begun
      BY <2>6, <3>1, <3>2 DEF Alive
    <3> QED
      BY <2>5, <3>1, <3>3
  <2> QED
    BY <2>3, <2>7, <2>8 DEF OnRing
<1> QED
  BY <1>5, <1>6, <1>7, <1>8, <1>9, <1>10, <1>11 DEF KeysInv

\* create_token: the current key signs.
LEMMA SignInv ==
  ASSUME KeysInv, Sign
  PROVE  KeysInv'
<1>1. /\ tokens' = tokens \cup {[key |-> ring.current, issued |-> now]}
      /\ UNCHANGED <<ring, rotating, minted, revoked, now, raced>>
  BY DEF Sign
<1>2. KeyTypes'
  BY <1>1 DEF KeysInv, KeyTypes, Rings
<1>3. Minted' /\ Fresh' /\ (\A r \in rotating : Derived(r))' /\ Dead'
  BY <1>1 DEF KeysInv, Minted, Fresh, Derived, Dead, KeysOf
<1>4. Timely'
  BY <1>1 DEF KeysInv, KeyTypes, Timely
<1>5. Covered'
  BY <1>1 DEF KeysInv, Covered, Alive, OnRing
<1> QED
  BY <1>2, <1>3, <1>4, <1>5 DEF KeysInv

\* Time passes: tokens only expire.
LEMMA TimeInv ==
  ASSUME KeysInv, KeysTime
  PROVE  KeysInv'
<1>1. /\ now' = now + 1 /\ tokens' \subseteq tokens
      /\ UNCHANGED <<ring, rotating, minted, revoked, raced>>
      /\ \A r \in rotating : now + 1 < r.begun + Overlap
  BY DEF KeysTime
<1>2. now \in Nat /\ TokenLife \in Nat /\ Overlap \in Nat
  BY OverlapAssumption DEF KeysInv, KeyTypes
<1>3. KeyTypes'
  BY <1>1, <1>2 DEF KeysInv, KeyTypes
<1>4. Minted' /\ Fresh' /\ (\A r \in rotating : Derived(r))' /\ Dead'
  BY <1>1 DEF KeysInv, Minted, Fresh, Derived, Dead, KeysOf
<1>5. Timely'
  BY <1>1, <1>2 DEF KeysInv, KeyTypes, Rotations, Timely
<1>6. Covered'
  <2>1. \A t \in tokens' : t \in tokens /\ (Alive(t)' => Alive(t))
    BY <1>1, <1>2 DEF KeysInv, KeyTypes, Alive
  <2> QED
    BY <1>1, <2>1 DEF KeysInv, Covered, OnRing
<1> QED
  BY <1>3, <1>4, <1>5, <1>6 DEF KeysInv

LEMMA KeysNextInv == KeysInv /\ [KeysNext]_keyVars => KeysInv'
<1> SUFFICES ASSUME KeysInv, [KeysNext]_keyVars PROVE KeysInv'
  OBVIOUS
<1>1. CASE \E compromised \in BOOLEAN : Rotate(compromised)
  BY <1>1, RotateInv
<1>2. CASE \E r \in rotating : SaveRing(r)
  BY <1>2, SaveInv
<1>3. CASE Sign
  BY <1>3, SignInv
<1>4. CASE KeysTime
  BY <1>4, TimeInv
<1>5. CASE UNCHANGED keyVars
  BY <1>5 DEF keyVars, KeysInv, KeyTypes, Minted, Fresh, Derived, Timely, Dead, Covered, KeysOf,
     OnRing, Alive
<1> QED
  BY <1>1, <1>2, <1>3, <1>4, <1>5 DEF KeysNext

\* ffn_jwt_keys.rotate and the manager's use of the ring: for every token
\* life and margin, a rotation that did not overlap another logs nobody out
\* and lets no dropped key verify again.
THEOREM KeysFollowed == KeysSpec => []TokensFollowKeys
<1>1. KeysInit => KeysInv
  BY KeysInitInv
<1>2. KeysInv /\ [KeysNext]_keyVars => KeysInv'
  BY KeysNextInv
<1>3. KeysInv => TokensFollowKeys
  BY KeysInvImplies
<1> QED
  BY <1>1, <1>2, <1>3, PTL DEF KeysSpec

-----------------------------------------------------------------------------
(***************************************************************************)
(* ProtectGateway: addresses and tunnels of sessions.                      *)
(***************************************************************************)

ProtectThread == HttpThread \cup {TickThread}
Sessions == [peer : Peer \cup {"none"}, ip : PoolIp, listed : BOOLEAN, cookie : BOOLEAN, ended : BOOLEAN,
             tunnel : {"none", "carried", "gone"}, reopened : BOOLEAN]
Doings == [pc : {"idle", "end", "free", "allocate", "publish", "register", "pump", "verdict", "respawn"},
           s : Nat, todo : SUBSET Nat, then : {"idle", "allocate", "respawn", "esp", "ssl"}, peer : Peer \cup {"none"}]
(* The sessions that a thread refers to exist.                             *)
Refers(d, n) ==
  /\ d.todo \subseteq 1 .. n
  /\ d.pc \in {"free", "publish", "register", "pump", "verdict"} => d.s \in 1 .. n
  /\ d.pc \in {"end", "free"} => d.then \in {"idle", "allocate", "respawn"}
ProtectTypes ==
  /\ sess \in Seq(Sessions) /\ used \subseteq PoolIp /\ alive \in BOOLEAN /\ gwState \in {"up", "error"}
  /\ doing \in [ProtectThread -> Doings] /\ \A p \in ProtectThread : Refers(doing[p], Len(sess))

(* Unless an end was written over: who frees an address has the session to *)
(* itself, and it is still listed.                                         *)
Spoiled == \E s \in 1 .. Len(sess) : sess[s].reopened
Holding ==
  ~Spoiled =>
    /\ \A s \in 1 .. Len(sess) : ~sess[s].ended => sess[s].listed
    /\ \A p \in ProtectThread : doing[p].pc = "free" => sess[doing[p].s].listed /\ sess[doing[p].s].ended
    /\ \A p, q \in ProtectThread : doing[p].pc = "free" /\ doing[q].pc = "free" /\ p # q => doing[p].s # doing[q].s
    /\ \A s \in 1 .. Len(sess) : sess[s].listed => sess[s].ip \in used
    /\ \A s, t \in 1 .. Len(sess) : sess[s].listed /\ sess[t].listed /\ s # t => sess[s].ip # sess[t].ip

(* A session whose worker is gone, and nobody has noticed: the tick has it *)
(* on its list before it starts another worker.                            *)
Lost(s) == sess[s].listed /\ sess[s].tunnel = "gone" /\ ~sess[s].ended /\ ~sess[s].reopened
Ticking(d) == /\ d.pc = "respawn" => d.todo = {} /\ gwState = "error"
              /\ d.then = "respawn" => gwState = "error"
Losing ==
  /\ gwState = "error" => ~alive /\ \A s \in 1 .. Len(sess) : Lost(s) => s \in doing[TickThread].todo
  /\ gwState = "up" /\ alive => \A s \in 1 .. Len(sess) : ~Lost(s)
  /\ ~alive => \A s \in 1 .. Len(sess) : sess[s].tunnel # "carried"
  /\ Ticking(doing[TickThread])

ProtectInv == ProtectTypes /\ Holding /\ Losing
-----------------------------------------------------------------------------
LEMMA Numbered ==
  ASSUME sess \in Seq(Sessions)
  PROVE  Len(sess) \in Nat /\ DOMAIN sess = 1 .. Len(sess) /\ \A s \in 1 .. Len(sess) : sess[s] \in Sessions
BY LenProperties, ElementOfSeq

(* One session changes.                                                    *)
LEMMA OneSession ==
  ASSUME sess \in Seq(Sessions), NEW s \in 1 .. Len(sess), NEW x \in Sessions, sess' = [sess EXCEPT ![s] = x]
  PROVE  /\ sess' \in Seq(Sessions) /\ Len(sess') = Len(sess) /\ sess'[s] = x
         /\ \A t \in 1 .. Len(sess) : t # s => sess'[t] = sess[t]
BY ExceptSeq

(* One thread goes on.                                                     *)
LEMMA OneThread ==
  ASSUME doing \in [ProtectThread -> Doings], NEW p \in ProtectThread, NEW d \in Doings, doing' = [doing EXCEPT ![p] = d]
  PROVE  doing' \in [ProtectThread -> Doings] /\ doing'[p] = d /\ \A q \in ProtectThread : q # p => doing'[q] = doing[q]
OBVIOUS

LEMMA TypesKept ==
  ASSUME ProtectTypes, sess' \in Seq(Sessions), Len(sess') >= Len(sess), used' \subseteq PoolIp,
         alive' \in BOOLEAN, gwState' \in {"up", "error"},
         NEW p \in ProtectThread, NEW d \in Doings, doing' = [doing EXCEPT ![p] = d], Refers(d, Len(sess'))
  PROVE  ProtectTypes'
<1>1. doing' \in [ProtectThread -> Doings] /\ doing'[p] = d /\ \A q \in ProtectThread : q # p => doing'[q] = doing[q]
  BY OneThread DEF ProtectTypes
<1>2. Len(sess) \in Nat /\ Len(sess') \in Nat
  BY LenProperties DEF ProtectTypes
<1>3. 1 .. Len(sess) \subseteq 1 .. Len(sess')
  BY <1>2
<1>4. \A q \in ProtectThread : Refers(doing[q], Len(sess))
  BY DEF ProtectTypes
<1>5. \A q \in ProtectThread : Refers(doing'[q], Len(sess'))
  BY <1>1, <1>3, <1>4 DEF Refers
<1>. QED BY <1>1, <1>5 DEF ProtectTypes

(* Steps that neither begin to free an address nor touch what counts.      *)
LEMMA HoldingKept ==
  ASSUME ProtectTypes, Holding, used' = used, Len(sess') = Len(sess),
         \A s \in 1 .. Len(sess) : /\ sess'[s].ip = sess[s].ip /\ sess'[s].listed = sess[s].listed
                                   /\ sess'[s].ended = sess[s].ended /\ sess'[s].reopened = sess[s].reopened,
         \A p \in ProtectThread : doing'[p].pc = "free" => doing[p].pc = "free" /\ doing'[p].s = doing[p].s
  PROVE  Holding'
<1>. SUFFICES ASSUME ~Spoiled' PROVE Holding'
  BY DEF Holding
<1>1. ~Spoiled
  BY DEF Spoiled
<1>2. \A p \in ProtectThread : doing[p].pc = "free" => doing[p].s \in 1 .. Len(sess)
  BY DEF ProtectTypes, Refers
<1>3. \A p \in ProtectThread : doing'[p].pc = "free" => sess'[doing'[p].s].listed /\ sess'[doing'[p].s].ended
  BY <1>1, <1>2 DEF Holding
<1>4. \A p, q \in ProtectThread : doing'[p].pc = "free" /\ doing'[q].pc = "free" /\ p # q => doing'[p].s # doing'[q].s
  BY <1>1 DEF Holding
<1>. QED BY <1>1, <1>3, <1>4 DEF Holding

LEMMA LosingKept ==
  ASSUME Losing, UNCHANGED <<alive, gwState>>,
         \A s \in 1 .. Len(sess') : Lost(s)' => s \in 1 .. Len(sess) /\ Lost(s) /\ (s \in doing[TickThread].todo => s \in doing'[TickThread].todo),
         ~alive => \A s \in 1 .. Len(sess') : sess'[s].tunnel = "carried" => s \in 1 .. Len(sess) /\ sess[s].tunnel = "carried",
         Ticking(doing[TickThread])'
  PROVE  Losing'
<1>1. gwState' = "error" => ~alive' /\ \A s \in 1 .. Len(sess') : Lost(s)' => s \in doing'[TickThread].todo
  BY DEF Losing
<1>2. gwState' = "up" /\ alive' => \A s \in 1 .. Len(sess') : ~Lost(s)'
  BY DEF Losing
<1>3. ~alive' => \A s \in 1 .. Len(sess') : sess'[s].tunnel # "carried"
  BY DEF Losing
<1>. QED BY <1>1, <1>2, <1>3 DEF Losing

LEMMA Resting == AtRest \in Doings /\ AtRest.pc = "idle" /\ AtRest.todo = {} /\ AtRest.then = "idle" /\ AtRest.s = 0 /\ \A n : Refers(AtRest, n)
<1>1. AtRest \in Doings /\ AtRest.pc = "idle" /\ AtRest.todo = {} /\ AtRest.then = "idle" /\ AtRest.s = 0
  BY DEF AtRest, Doings
<1>. QED BY <1>1 DEF Refers

(* A thread goes on and that is all.                                       *)
LEMMA ThreadKeeps ==
  ASSUME ProtectInv, UNCHANGED <<sess, used, workerVars>>,
         NEW p \in ProtectThread, NEW d \in Doings, doing' = [doing EXCEPT ![p] = d], Refers(d, Len(sess)), d.pc # "free",
         p = TickThread => doing[p].todo \subseteq d.todo /\ Ticking(d)
  PROVE  ProtectInv'
<1>1. doing'[p] = d /\ \A q \in ProtectThread : q # p => doing'[q] = doing[q]
  BY OneThread DEF ProtectInv, ProtectTypes
<1>2. Len(sess) \in Nat
  BY Numbered DEF ProtectInv, ProtectTypes
<1>3. ProtectTypes'
  BY <1>2, TypesKept DEF ProtectInv, workerVars, ProtectTypes
<1>4. Holding'
  BY <1>1, HoldingKept DEF ProtectInv
<1>5. doing'[TickThread] = doing[TickThread] \/ p = TickThread
  BY <1>1 DEF ProtectThread
<1>6. Ticking(doing[TickThread])'
  BY <1>1, <1>5 DEF ProtectInv, Losing, workerVars, Ticking
<1>7. Losing'
  BY <1>1, <1>5, <1>6, LosingKept DEF ProtectInv, workerVars, Lost
<1>. QED BY <1>3, <1>4, <1>7 DEF ProtectInv

(* Rest, Goto and EndAll: what a thread's step looks like.                 *)
LEMMA RestIs == ASSUME ProtectTypes, NEW p \in ProtectThread, Rest(p) PROVE doing' = [doing EXCEPT ![p] = AtRest]
BY DEF Rest

LEMMA GotoIs ==
  ASSUME ProtectTypes, NEW p \in ProtectThread,
         NEW pc \in {"idle", "end", "free", "allocate", "publish", "register", "pump", "verdict", "respawn"}, Goto(p, pc)
  PROVE  \E d \in Doings : /\ doing' = [doing EXCEPT ![p] = d] /\ d.pc = pc
                           /\ d.todo = doing[p].todo /\ d.s = doing[p].s /\ d.then = doing[p].then
<1>. DEFINE d == [doing[p] EXCEPT !.pc = pc]
<1>1. doing[p] \in Doings
  BY DEF ProtectTypes
<1>2. d \in Doings /\ d.pc = pc /\ d.todo = doing[p].todo /\ d.s = doing[p].s /\ d.then = doing[p].then
  BY <1>1 DEF Doings
<1>3. doing' = [doing EXCEPT ![p] = d]
  BY DEF Goto, ProtectTypes
<1>. HIDE DEF d
<1>. QED BY <1>2, <1>3

LEMMA EndAllIs ==
  ASSUME ProtectTypes, NEW p \in ProtectThread, NEW todo \in SUBSET (1 .. Len(sess)),
         NEW then \in {"idle", "allocate", "respawn"}, EndAll(p, todo, then)
  PROVE  \E d \in Doings : /\ doing' = [doing EXCEPT ![p] = d] /\ d.pc = "end"
                           /\ d.todo = todo /\ d.then = then /\ Refers(d, Len(sess))
<1>. DEFINE d == [doing[p] EXCEPT !.pc = "end", !.s = 0, !.todo = todo, !.then = then]
<1>1. doing[p] \in Doings
  BY DEF ProtectTypes
<1>2. todo \subseteq Nat
  BY Numbered DEF ProtectTypes
<1>3. d \in Doings /\ d.pc = "end" /\ d.todo = todo /\ d.then = then
  BY <1>1, <1>2 DEF Doings
<1>4. doing' = [doing EXCEPT ![p] = d]
  BY DEF EndAll, ProtectTypes
<1>. HIDE DEF d
<1>. QED BY <1>3, <1>4 DEF Refers

LEMMA EndNoneKeeps == ASSUME ProtectInv, NEW p \in ProtectThread, EndNone(p) PROVE ProtectInv'
<1>0. ProtectTypes /\ doing[p] \in Doings /\ Refers(doing[p], Len(sess)) /\ doing[p].pc = "end" /\ doing[p].todo = {}
  BY DEF ProtectInv, ProtectTypes, EndNone
<1>1. CASE doing[p].then = "idle"
  <2>1. doing' = [doing EXCEPT ![p] = AtRest]
    BY <1>1 DEF EndNone, Rest
  <2>2. Ticking(AtRest)
    BY Resting DEF Ticking
  <2>. QED BY <1>0, <2>1, <2>2, Resting, ThreadKeeps DEF EndNone
<1>2. CASE doing[p].then # "idle"
  <2>1. doing[p].then \in {"allocate", "respawn"} /\ Goto(p, doing[p].then)
    BY <1>0, <1>2 DEF EndNone, Refers
  <2>2. PICK d \in Doings : /\ doing' = [doing EXCEPT ![p] = d] /\ d.pc = doing[p].then
                            /\ d.todo = doing[p].todo /\ d.s = doing[p].s /\ d.then = doing[p].then
    BY <1>0, <2>1, GotoIs
  <2>3. Refers(d, Len(sess)) /\ d.pc # "free"
    BY <1>0, <2>1, <2>2 DEF Refers
  <2>4. p = TickThread => Ticking(d)
    BY <1>0, <2>2 DEF ProtectInv, Losing, Ticking
  <2>. QED BY <2>2, <2>3, <2>4, ThreadKeeps DEF EndNone
<1>. QED BY <1>1, <1>2

(* Requests that only read.                                                *)
LEMMA RequestKeeps ==
  ASSUME ProtectInv, NEW h \in HttpThread,
         \/ \E peer \in Peer : LoginStart(h, peer)
         \/ LoginRefused(h)
         \/ \E s \in DOMAIN sess : Logout(h, s) \/ \E mode \in {"esp", "ssl"} : AskTunnel(h, s, mode)
         \/ PumpOver(h)
  PROVE  ProtectInv'
<1>0. /\ ProtectTypes /\ h \in ProtectThread /\ h # TickThread /\ doing[h] \in Doings /\ Refers(doing[h], Len(sess))
      /\ DOMAIN sess = 1 .. Len(sess) /\ Len(sess) \in Nat
  BY ProtectAssumption, Numbered DEF ProtectInv, ProtectTypes, ProtectThread
<1>1. ASSUME NEW peer \in Peer, LoginStart(h, peer) PROVE ProtectInv'
  <2>. DEFINE todo == {s \in Listed : sess[s].peer = peer}
              d == [doing[h] EXCEPT !.pc = "end", !.todo = todo, !.then = "allocate", !.peer = peer]
  <2>1. todo \subseteq 1 .. Len(sess) /\ todo \subseteq Nat
    BY <1>0 DEF Listed
  <2>2. d \in Doings /\ d.pc = "end" /\ d.todo = todo /\ d.then = "allocate"
    BY <1>0, <2>1 DEF Doings
  <2>3. doing' = [doing EXCEPT ![h] = d]
    BY <1>1 DEF LoginStart, ProtectInv, ProtectTypes
  <2>. HIDE DEF d, todo
  <2>4. Refers(d, Len(sess))
    BY <2>1, <2>2 DEF Refers
  <2>. QED BY <1>0, <1>1, <2>2, <2>3, <2>4, ThreadKeeps DEF LoginStart
<1>2. CASE LoginRefused(h)
  BY <1>0, <1>2, Resting, ThreadKeeps DEF LoginRefused, Rest
<1>3. ASSUME NEW s \in DOMAIN sess, EndAll(h, {s}, "idle"), UNCHANGED <<sess, used, workerVars>> PROVE ProtectInv'
  <2>1. PICK d \in Doings : /\ doing' = [doing EXCEPT ![h] = d] /\ d.pc = "end" /\ Refers(d, Len(sess))
    BY <1>0, <1>3, EndAllIs
  <2>. QED BY <1>0, <1>3, <2>1, ThreadKeeps
<1>4. ASSUME NEW s \in DOMAIN sess, NEW mode \in {"esp", "ssl"}, AskTunnel(h, s, mode) PROVE ProtectInv'
  <2>. DEFINE d == [doing[h] EXCEPT !.pc = "register", !.s = s, !.then = mode]
  <2>0. doing[h] = AtRest
    BY <1>4 DEF AskTunnel
  <2>1. doing[h].todo = {} /\ s \in Nat
    <3>1. s \in Nat
      BY <1>0, <1>4
    <3>. QED BY <2>0, <3>1, Resting
  <2>2. d \in Doings /\ d.pc = "register" /\ d.s = s /\ d.todo = {}
    BY <1>0, <2>1 DEF Doings
  <2>3. doing' = [doing EXCEPT ![h] = d]
    BY <1>4 DEF AskTunnel, ProtectInv, ProtectTypes
  <2>. HIDE DEF d
  <2>4. Refers(d, Len(sess))
    BY <1>0, <2>2 DEF Refers
  <2>. QED BY <1>0, <1>4, <2>2, <2>3, <2>4, ThreadKeeps DEF AskTunnel
<1>5. CASE PumpOver(h)
  <2>1. doing[h].pc = "pump" /\ doing[h].s \in DOMAIN sess
    BY <1>0, <1>5 DEF PumpOver, Refers
  <2>2. CASE Rest(h)
    BY <1>0, <1>5, <2>2, Resting, ThreadKeeps DEF PumpOver, Rest
  <2>3. CASE Goto(h, "verdict")
    <3>1. PICK d \in Doings : /\ doing' = [doing EXCEPT ![h] = d] /\ d.pc = "verdict" /\ d.todo = doing[h].todo /\ d.s = doing[h].s
      BY <1>0, <2>3, GotoIs
    <3>2. Refers(d, Len(sess))
      BY <1>0, <2>1, <3>1 DEF Refers
    <3>. QED BY <1>0, <1>5, <3>1, <3>2, ThreadKeeps DEF PumpOver
  <2>. QED BY <1>3, <1>5, <2>1, <2>2, <2>3 DEF PumpOver
<1>. QED BY <1>1, <1>2, <1>3, <1>4, <1>5 DEF Logout

(* Requests that change one session and neither list nor end it.           *)
LEMMA TunnelKeeps ==
  ASSUME ProtectInv, NEW h \in HttpThread, NEW s \in 1 .. Len(sess), NEW x \in Sessions, UNCHANGED <<used, workerVars>>,
         sess' = [sess EXCEPT ![s] = x], NEW d \in Doings, doing' = [doing EXCEPT ![h] = d], Refers(d, Len(sess)), d.pc # "free",
         x.ip = sess[s].ip, x.listed = sess[s].listed, x.ended = sess[s].ended, x.reopened = sess[s].reopened,
         x.tunnel = sess[s].tunnel \/ alive, x.tunnel # "gone" \/ x.tunnel = sess[s].tunnel
  PROVE  ProtectInv'
<1>0. h \in ProtectThread /\ h # TickThread /\ TickThread \in ProtectThread
  BY ProtectAssumption DEF ProtectThread
<1>1. doing'[h] = d /\ \A q \in ProtectThread : q # h => doing'[q] = doing[q]
  BY <1>0, OneThread DEF ProtectInv, ProtectTypes
<1>2. /\ sess' \in Seq(Sessions) /\ Len(sess') = Len(sess) /\ sess'[s] = x
      /\ \A t \in 1 .. Len(sess) : t # s => sess'[t] = sess[t]
  BY OneSession DEF ProtectInv, ProtectTypes
<1>3. Len(sess) \in Nat
  BY Numbered DEF ProtectInv, ProtectTypes
<1>4. ProtectTypes'
  BY <1>0, <1>2, <1>3, TypesKept DEF ProtectInv, workerVars, ProtectTypes
<1>5. Holding'
  BY <1>1, <1>2, HoldingKept DEF ProtectInv
<1>6. \A t \in 1 .. Len(sess') : Lost(t)' => t \in 1 .. Len(sess) /\ Lost(t)
  BY <1>2 DEF Lost
<1>7. doing'[TickThread] = doing[TickThread]
  BY <1>0, <1>1
<1>8. ~alive => \A t \in 1 .. Len(sess') : sess'[t].tunnel = "carried" => t \in 1 .. Len(sess) /\ sess[t].tunnel = "carried"
  BY <1>2
<1>9. Ticking(doing[TickThread])'
  BY <1>7 DEF ProtectInv, Losing, Ticking, workerVars
<1>10. Losing'
  BY <1>6, <1>7, <1>8, <1>9, LosingKept DEF ProtectInv, workerVars
<1>. QED BY <1>4, <1>5, <1>10 DEF ProtectInv

LEMMA RegisterKeeps ==
  ASSUME ProtectInv, NEW h \in HttpThread, LoginPublish(h) \/ Register(h) \/ RegisterFails(h) PROVE ProtectInv'
<1>0. /\ ProtectTypes /\ h \in ProtectThread /\ doing[h] \in Doings /\ Refers(doing[h], Len(sess)) /\ Len(sess) \in Nat
      /\ sess \in Seq(Sessions) /\ h # TickThread
  BY Numbered, ProtectAssumption DEF ProtectInv, ProtectTypes, ProtectThread
<1>1. doing[h].s \in 1 .. Len(sess) /\ doing[h].s \in Nat
  BY <1>0 DEF LoginPublish, Register, RegisterFails, Refers
<1>2. PICK s \in 1 .. Len(sess) : s = doing[h].s
  BY <1>1
<1>3. sess[s] \in Sessions
  BY <1>0, Numbered
<1>4. CASE LoginPublish(h)
  <2>. DEFINE x == [sess[s] EXCEPT !.cookie = TRUE]
  <2>1. sess' = [sess EXCEPT ![s] = x]
    BY <1>0, <1>2, <1>4 DEF LoginPublish
  <2>2. x \in Sessions /\ x.ip = sess[s].ip /\ x.listed = sess[s].listed /\ x.ended = sess[s].ended /\ x.reopened = sess[s].reopened /\ x.tunnel = sess[s].tunnel
    BY <1>3 DEF Sessions
  <2>. HIDE DEF x
  <2>. QED BY <1>4, <2>1, <2>2, Resting, TunnelKeeps DEF LoginPublish, Rest
<1>5. CASE Register(h)
  <2>. DEFINE x == [sess[s] EXCEPT !.tunnel = "carried"]
              d == IF doing[h].then = "esp" THEN AtRest ELSE [AtRest EXCEPT !.pc = "pump", !.s = doing[h].s]
  <2>1. sess' = [sess EXCEPT ![s] = x] /\ alive /\ doing' = [doing EXCEPT ![h] = d]
    BY <1>0, <1>2, <1>5 DEF Register
  <2>2. x \in Sessions /\ x.ip = sess[s].ip /\ x.listed = sess[s].listed /\ x.ended = sess[s].ended /\ x.reopened = sess[s].reopened /\ x.tunnel = "carried"
    BY <1>3 DEF Sessions
  <2>3. d \in Doings /\ Refers(d, Len(sess)) /\ d.pc # "free"
    <3>1. CASE doing[h].then = "esp"
      BY <3>1, Resting
    <3>2. CASE doing[h].then # "esp"
      <4>. DEFINE e == [AtRest EXCEPT !.pc = "pump", !.s = doing[h].s]
      <4>1. e \in Doings /\ e.pc = "pump" /\ e.s = doing[h].s /\ e.todo = {}
        BY <1>1, Resting DEF Doings
      <4>2. d = e
        BY <3>2
      <4>. HIDE DEF e, d
      <4>. QED BY <1>1, <4>1, <4>2 DEF Refers
    <3>. QED BY <3>1, <3>2
  <2>4. UNCHANGED <<used, workerVars>>
    BY <1>5 DEF Register
  <2>. HIDE DEF x, d
  <2>. QED BY <2>1, <2>2, <2>3, <2>4, TunnelKeeps
<1>6. CASE RegisterFails(h) /\ alive
  <2>. DEFINE x == [sess[s] EXCEPT !.tunnel = "none"]
  <2>1. sess' = [sess EXCEPT ![s] = x]
    BY <1>0, <1>2, <1>6 DEF RegisterFails
  <2>2. x \in Sessions /\ x.ip = sess[s].ip /\ x.listed = sess[s].listed /\ x.ended = sess[s].ended /\ x.reopened = sess[s].reopened /\ x.tunnel = "none"
    BY <1>3 DEF Sessions
  <2>. HIDE DEF x
  <2>. QED BY <1>6, <2>1, <2>2, Resting, TunnelKeeps DEF RegisterFails, Rest
<1>7. CASE RegisterFails(h) /\ ~alive
  <2>1. doing' = [doing EXCEPT ![h] = AtRest]
    BY <1>7 DEF RegisterFails, Rest
  <2>2. UNCHANGED <<sess, used, workerVars>>
    BY <1>7 DEF RegisterFails
  <2>. QED BY <1>0, <2>1, <2>2, Resting, ThreadKeeps
<1>. QED BY <1>4, <1>5, <1>6, <1>7

LEMMA VerdictKeeps == ASSUME ProtectInv, NEW h \in HttpThread, PumpVerdict(h) PROVE ProtectInv'
<1>0. /\ ProtectTypes /\ h \in ProtectThread /\ doing[h] \in Doings /\ Refers(doing[h], Len(sess)) /\ Len(sess) \in Nat
      /\ sess \in Seq(Sessions) /\ h # TickThread /\ TickThread \in ProtectThread
  BY Numbered, ProtectAssumption DEF ProtectInv, ProtectTypes, ProtectThread
<1>1. doing[h].s \in 1 .. Len(sess)
  BY <1>0 DEF PumpVerdict, Refers
<1>2. PICK s \in 1 .. Len(sess) : s = doing[h].s
  BY <1>1
<1>3. sess[s] \in Sessions
  BY <1>0, Numbered
<1>. DEFINE x == [sess[s] EXCEPT !.ended = FALSE, !.reopened = sess[s].reopened \/ sess[s].ended]
<1>4. sess' = [sess EXCEPT ![s] = x] /\ UNCHANGED <<used, workerVars>> /\ doing' = [doing EXCEPT ![h] = AtRest]
  BY <1>0, <1>2 DEF PumpVerdict, Rest
<1>5. /\ x \in Sessions /\ x.ip = sess[s].ip /\ x.listed = sess[s].listed /\ x.tunnel = sess[s].tunnel
      /\ x.ended = FALSE /\ x.reopened = (sess[s].reopened \/ sess[s].ended)
  BY <1>3 DEF Sessions
<1>. HIDE DEF x
<1>6. /\ sess' \in Seq(Sessions) /\ Len(sess') = Len(sess) /\ sess'[s] = x
      /\ \A t \in 1 .. Len(sess) : t # s => sess'[t] = sess[t]
  BY <1>0, <1>4, <1>5, OneSession
<1>7. doing'[h] = AtRest /\ \A q \in ProtectThread : q # h => doing'[q] = doing[q]
  BY <1>0, <1>4, Resting, OneThread DEF ProtectTypes
<1>8. ProtectTypes'
  BY <1>0, <1>4, <1>6, Resting, TypesKept DEF workerVars, ProtectTypes
<1>9. Holding'
  <2>1. CASE sess[s].ended \/ sess[s].reopened
    <3>1. sess'[s].reopened
      BY <1>5, <1>6, <2>1
    <3>2. Spoiled'
      BY <1>6, <3>1 DEF Spoiled
    <3>. QED BY <3>2 DEF Holding
  <2>2. CASE ~sess[s].ended /\ ~sess[s].reopened
    <3>1. x.ended = sess[s].ended /\ x.reopened = sess[s].reopened
      BY <1>3, <1>5, <2>2 DEF Sessions
    <3>. QED BY <1>0, <1>4, <1>5, <1>6, <1>7, <3>1, Resting, HoldingKept DEF ProtectInv
  <2>. QED BY <2>1, <2>2
<1>10. Losing'
  <2>1. \A t \in 1 .. Len(sess') : Lost(t)' => t \in 1 .. Len(sess) /\ Lost(t)
    BY <1>5, <1>6 DEF Lost
  <2>2. doing'[TickThread] = doing[TickThread]
    BY <1>0, <1>7
  <2>3. ~alive => \A t \in 1 .. Len(sess') : sess'[t].tunnel = "carried" => t \in 1 .. Len(sess) /\ sess[t].tunnel = "carried"
    BY <1>5, <1>6
  <2>4. Ticking(doing[TickThread])'
    BY <1>4, <2>2 DEF ProtectInv, Losing, Ticking, workerVars
  <2>. QED BY <1>4, <2>1, <2>2, <2>3, <2>4, LosingKept DEF ProtectInv, workerVars
<1>. QED BY <1>8, <1>9, <1>10 DEF ProtectInv

LEMMA AllocateKeeps == ASSUME ProtectInv, NEW h \in HttpThread, LoginAllocate(h) PROVE ProtectInv'
<1>0. /\ ProtectTypes /\ h \in ProtectThread /\ doing[h] \in Doings /\ Len(sess) \in Nat
      /\ sess \in Seq(Sessions) /\ h # TickThread /\ TickThread \in ProtectThread
  BY Numbered, ProtectAssumption DEF ProtectInv, ProtectTypes, ProtectThread
<1>1. PICK ip \in PoolIp \ used :
       /\ used' = used \cup {ip}
       /\ sess' = Append(sess, [peer |-> doing[h].peer, ip |-> ip, listed |-> TRUE, cookie |-> FALSE,
                                ended |-> FALSE, tunnel |-> "none", reopened |-> FALSE])
       /\ doing' = [doing EXCEPT ![h] = [AtRest EXCEPT !.pc = "publish", !.s = Len(sess) + 1]]
  BY DEF LoginAllocate
<1>. DEFINE x == [peer |-> doing[h].peer, ip |-> ip, listed |-> TRUE, cookie |-> FALSE,
                  ended |-> FALSE, tunnel |-> "none", reopened |-> FALSE]
            d == [AtRest EXCEPT !.pc = "publish", !.s = Len(sess) + 1]
            n == Len(sess) + 1
<1>2. x \in Sessions /\ x.ip = ip /\ x.listed = TRUE /\ x.ended = FALSE /\ x.tunnel = "none" /\ x.reopened = FALSE
  BY <1>0 DEF Sessions, Doings
<1>3. d \in Doings /\ d.pc = "publish" /\ d.s = n /\ d.todo = {}
  <2>1. AtRest \in Doings /\ AtRest.todo = {} /\ n \in Nat
    BY <1>0, Resting
  <2>. HIDE DEF n
  <2>2. AtRest.todo = {} /\ d = [AtRest EXCEPT !.pc = "publish", !.s = n]
    BY <2>1 DEF n
  <2>. HIDE DEF d
  <2>. QED BY <2>1, <2>2 DEF Doings
<1>4. sess' = Append(sess, x) /\ doing' = [doing EXCEPT ![h] = d] /\ UNCHANGED workerVars
  BY <1>1 DEF LoginAllocate
<1>. HIDE DEF x, d
<1>5. /\ sess' \in Seq(Sessions) /\ Len(sess') = n /\ sess'[n] = x
      /\ \A t \in 1 .. Len(sess) : sess'[t] = sess[t]
  BY <1>0, <1>2, <1>4, AppendProperties
<1>6. doing'[h] = d /\ \A q \in ProtectThread : q # h => doing'[q] = doing[q]
  BY <1>0, <1>3, <1>4, OneThread DEF ProtectTypes
<1>7. Refers(d, Len(sess'))
  BY <1>0, <1>3, <1>5 DEF Refers
<1>8. ProtectTypes'
  <2>1. used' \subseteq PoolIp /\ Len(sess') >= Len(sess)
    BY <1>0, <1>1, <1>5 DEF ProtectTypes
  <2>. QED BY <1>0, <1>3, <1>4, <1>5, <1>7, <2>1, TypesKept DEF workerVars, ProtectTypes
<1>9. \A t \in 1 .. Len(sess') : t \in 1 .. Len(sess) \/ t = n
  BY <1>0, <1>5
<1>10. Holding'
  <2>. SUFFICES ASSUME ~Spoiled' PROVE Holding'
    BY DEF Holding
  <2>0. 1 .. Len(sess) \subseteq 1 .. Len(sess')
    BY <1>0, <1>5
  <2>1. ~Spoiled
    BY <1>5, <2>0 DEF Spoiled
  <2>2. \A p \in ProtectThread : doing'[p].pc = "free" => doing'[p] = doing[p] /\ doing[p].s \in 1 .. Len(sess)
    BY <1>0, <1>3, <1>6 DEF ProtectTypes, Refers
  <2>3. \A p \in ProtectThread : doing'[p].pc = "free" => sess'[doing'[p].s].listed /\ sess'[doing'[p].s].ended
    BY <1>5, <2>1, <2>2 DEF ProtectInv, Holding
  <2>4. \A p, q \in ProtectThread : doing'[p].pc = "free" /\ doing'[q].pc = "free" /\ p # q => doing'[p].s # doing'[q].s
    BY <2>1, <2>2 DEF ProtectInv, Holding
  <2>5. \A t \in 1 .. Len(sess') : ~sess'[t].ended => sess'[t].listed
    BY <1>2, <1>5, <1>9, <2>1 DEF ProtectInv, Holding
  <2>6. \A t \in 1 .. Len(sess') : sess'[t].listed => sess'[t].ip \in used'
    BY <1>1, <1>2, <1>5, <1>9, <2>1 DEF ProtectInv, Holding
  <2>7. \A t \in 1 .. Len(sess) : sess'[t].listed => sess'[t].ip # ip
    BY <1>1, <1>5, <2>1 DEF ProtectInv, Holding
  <2>8. \A s, t \in 1 .. Len(sess') : sess'[s].listed /\ sess'[t].listed /\ s # t => sess'[s].ip # sess'[t].ip
    BY <1>2, <1>5, <1>9, <2>1, <2>7 DEF ProtectInv, Holding
  <2>. QED BY <2>3, <2>4, <2>5, <2>6, <2>8 DEF Holding
<1>11. Losing'
  <2>1. \A t \in 1 .. Len(sess') : Lost(t)' => t \in 1 .. Len(sess) /\ Lost(t)
    BY <1>2, <1>5, <1>9 DEF Lost
  <2>2. doing'[TickThread] = doing[TickThread]
    BY <1>0, <1>6
  <2>3. ~alive => \A t \in 1 .. Len(sess') : sess'[t].tunnel = "carried" => t \in 1 .. Len(sess) /\ sess[t].tunnel = "carried"
    BY <1>2, <1>5, <1>9
  <2>4. Ticking(doing[TickThread])'
    BY <1>4, <2>2 DEF ProtectInv, Losing, Ticking, workerVars
  <2>. QED BY <1>4, <2>1, <2>2, <2>3, <2>4, LosingKept DEF ProtectInv, workerVars
<1>. QED BY <1>8, <1>10, <1>11 DEF ProtectInv

(* end_session marks a session, and only who found it unmarked frees it.   *)
LEMMA MarkKeeps == ASSUME ProtectInv, NEW p \in ProtectThread, EndMark(p) PROVE ProtectInv'
<1>0. /\ ProtectTypes /\ doing[p] \in Doings /\ Refers(doing[p], Len(sess)) /\ Len(sess) \in Nat
      /\ sess \in Seq(Sessions) /\ TickThread \in ProtectThread
  BY Numbered DEF ProtectInv, ProtectTypes, ProtectThread
<1>1. PICK s \in doing[p].todo : MarkOver(p, s, sess[s].ended)
  BY DEF EndMark
<1>2. s \in 1 .. Len(sess) /\ doing[p].pc = "end" /\ s \in Nat
  BY <1>0, <1>1 DEF Refers, MarkOver
<1>3. sess[s] \in Sessions
  BY <1>0, <1>2, Numbered
<1>. DEFINE x == [sess[s] EXCEPT !.ended = TRUE]
            d == IF sess[s].ended THEN [doing[p] EXCEPT !.todo = doing[p].todo \ {s}]
                 ELSE [doing[p] EXCEPT !.todo = doing[p].todo \ {s}, !.s = s, !.pc = "free"]
<1>4. sess' = [sess EXCEPT ![s] = x] /\ doing' = [doing EXCEPT ![p] = d] /\ UNCHANGED <<used, workerVars>>
  BY <1>0, <1>1, <1>2 DEF MarkOver, ProtectTypes
<1>5. /\ x \in Sessions /\ x.ip = sess[s].ip /\ x.listed = sess[s].listed /\ x.tunnel = sess[s].tunnel
      /\ x.ended = TRUE /\ x.reopened = sess[s].reopened
  BY <1>3 DEF Sessions
<1>6. /\ d \in Doings /\ d.todo = doing[p].todo \ {s} /\ d.then = doing[p].then
      /\ sess[s].ended => d.pc = "end"
      /\ ~sess[s].ended => d.pc = "free" /\ d.s = s
  <2>1. CASE sess[s].ended
    BY <1>0, <1>2, <2>1 DEF Doings
  <2>2. CASE ~sess[s].ended
    BY <1>0, <1>2, <2>2 DEF Doings
  <2>. QED BY <2>1, <2>2
<1>. HIDE DEF x, d
<1>7. /\ sess' \in Seq(Sessions) /\ Len(sess') = Len(sess) /\ sess'[s] = x
      /\ \A t \in 1 .. Len(sess) : t # s => sess'[t] = sess[t]
  BY <1>0, <1>2, <1>4, <1>5, OneSession
<1>8. doing'[p] = d /\ \A q \in ProtectThread : q # p => doing'[q] = doing[q]
  BY <1>0, <1>4, <1>6, OneThread DEF ProtectTypes
<1>9. Refers(d, Len(sess'))
  BY <1>0, <1>2, <1>6, <1>7 DEF Refers
<1>10. ProtectTypes'
  BY <1>0, <1>4, <1>6, <1>7, <1>9, TypesKept DEF workerVars, ProtectTypes
<1>11. Holding'
  <2>1. CASE sess[s].ended
    <3>1. x.ended = sess[s].ended
      BY <1>3, <1>5, <2>1 DEF Sessions
    <3>. QED BY <1>0, <1>4, <1>5, <1>6, <1>7, <1>8, <2>1, <3>1, HoldingKept DEF ProtectInv
  <2>2. CASE ~sess[s].ended
    <3>. SUFFICES ASSUME ~Spoiled' PROVE Holding'
      BY DEF Holding
    <3>1. ~Spoiled
      BY <1>5, <1>7 DEF Spoiled
    <3>2. sess[s].listed
      BY <1>2, <2>2, <3>1 DEF ProtectInv, Holding
    <3>3. \A q \in ProtectThread : q # p /\ doing'[q].pc = "free" =>
            /\ doing'[q] = doing[q] /\ doing[q].s \in 1 .. Len(sess) /\ doing[q].s # s
            /\ sess[doing[q].s].listed /\ sess[doing[q].s].ended
      BY <1>0, <1>8, <2>2, <3>1 DEF ProtectTypes, Refers, ProtectInv, Holding
    <3>4. \A q \in ProtectThread : doing'[q].pc = "free" => sess'[doing'[q].s].listed /\ sess'[doing'[q].s].ended
      BY <1>5, <1>6, <1>7, <1>8, <2>2, <3>2, <3>3
    <3>5. \A q, r \in ProtectThread : doing'[q].pc = "free" /\ doing'[r].pc = "free" /\ q # r => doing'[q].s # doing'[r].s
      <4>1. \A q, r \in ProtectThread \ {p} : doing'[q].pc = "free" /\ doing'[r].pc = "free" /\ q # r => doing'[q].s # doing'[r].s
        BY <3>1, <3>3 DEF ProtectInv, Holding
      <4>2. \A q \in ProtectThread \ {p} : doing'[q].pc = "free" => doing'[q].s # doing'[p].s
        BY <1>6, <1>8, <2>2, <3>3
      <4>. QED BY <4>1, <4>2
    <3>6. \A t \in 1 .. Len(sess') : ~sess'[t].ended => sess'[t].listed
      BY <1>5, <1>7, <3>1 DEF ProtectInv, Holding
    <3>7. \A t \in 1 .. Len(sess') : sess'[t].listed = sess[t].listed /\ sess'[t].ip = sess[t].ip
      BY <1>5, <1>7
    <3>8. \A t \in 1 .. Len(sess') : sess'[t].listed => sess'[t].ip \in used'
      BY <1>4, <1>7, <3>1, <3>7 DEF ProtectInv, Holding
    <3>9. \A t, u \in 1 .. Len(sess') : sess'[t].listed /\ sess'[u].listed /\ t # u => sess'[t].ip # sess'[u].ip
      BY <1>7, <3>1, <3>7 DEF ProtectInv, Holding
    <3>. QED BY <3>4, <3>5, <3>6, <3>8, <3>9 DEF Holding
  <2>. QED BY <2>1, <2>2
<1>12. Losing'
  <2>1. doing'[TickThread] = doing[TickThread] \/ (p = TickThread /\ doing'[TickThread] = d)
    BY <1>0, <1>8
  <2>2. \A t \in 1 .. Len(sess') : Lost(t)' => t \in 1 .. Len(sess) /\ t # s /\ Lost(t)
    BY <1>5, <1>7 DEF Lost
  <2>3. \A t \in 1 .. Len(sess') : Lost(t)' => (t \in doing[TickThread].todo => t \in doing'[TickThread].todo)
    BY <1>6, <2>1, <2>2
  <2>4. ~alive => \A t \in 1 .. Len(sess') : sess'[t].tunnel = "carried" => t \in 1 .. Len(sess) /\ sess[t].tunnel = "carried"
    BY <1>5, <1>7
  <2>5. Ticking(doing[TickThread])'
    BY <1>4, <1>6, <2>1 DEF ProtectInv, Losing, Ticking, workerVars
  <2>. QED BY <1>4, <2>2, <2>3, <2>4, <2>5, LosingKept DEF ProtectInv, workerVars
<1>. QED BY <1>10, <1>11, <1>12 DEF ProtectInv

LEMMA FreeKeeps == ASSUME ProtectInv, NEW p \in ProtectThread, EndFree(p) PROVE ProtectInv'
<1>0. /\ ProtectTypes /\ doing[p] \in Doings /\ Refers(doing[p], Len(sess)) /\ Len(sess) \in Nat
      /\ sess \in Seq(Sessions) /\ TickThread \in ProtectThread /\ doing[p].pc = "free"
  BY Numbered DEF ProtectInv, ProtectTypes, ProtectThread, EndFree
<1>1. doing[p].s \in 1 .. Len(sess)
  BY <1>0 DEF Refers
<1>2. PICK s \in 1 .. Len(sess) : s = doing[p].s
  BY <1>1
<1>3. sess[s] \in Sessions
  BY <1>0, Numbered
<1>. DEFINE x == [sess[s] EXCEPT !.cookie = FALSE, !.listed = FALSE, !.tunnel = "none"]
            d == [doing[p] EXCEPT !.pc = "end", !.s = 0]
<1>4. /\ sess' = [sess EXCEPT ![s] = x] /\ doing' = [doing EXCEPT ![p] = d]
      /\ used' = used \ {sess[s].ip} /\ UNCHANGED workerVars
  BY <1>0, <1>2 DEF EndFree, ProtectTypes
<1>5. /\ x \in Sessions /\ x.ip = sess[s].ip /\ x.listed = FALSE /\ x.tunnel = "none"
      /\ x.ended = sess[s].ended /\ x.reopened = sess[s].reopened
  BY <1>3 DEF Sessions
<1>6. d \in Doings /\ d.todo = doing[p].todo /\ d.then = doing[p].then /\ d.pc = "end"
  BY <1>0 DEF Doings
<1>. HIDE DEF x, d
<1>7. /\ sess' \in Seq(Sessions) /\ Len(sess') = Len(sess) /\ sess'[s] = x
      /\ \A t \in 1 .. Len(sess) : t # s => sess'[t] = sess[t]
  BY <1>0, <1>4, <1>5, OneSession
<1>8. doing'[p] = d /\ \A q \in ProtectThread : q # p => doing'[q] = doing[q]
  BY <1>0, <1>4, <1>6, OneThread DEF ProtectTypes
<1>9. d.then \in {"idle", "allocate", "respawn"}
  BY <1>0, <1>6 DEF Refers
<1>10. ProtectTypes'
  <2>1. Refers(d, Len(sess'))
    BY <1>0, <1>6, <1>7, <1>9 DEF Refers
  <2>2. used' \subseteq PoolIp
    BY <1>4 DEF ProtectInv, ProtectTypes
  <2>. QED BY <1>0, <1>4, <1>6, <1>7, <2>1, <2>2, TypesKept DEF workerVars, ProtectTypes
<1>11. Holding'
  <2>. SUFFICES ASSUME ~Spoiled' PROVE Holding'
    BY DEF Holding
  <2>1. ~Spoiled
    BY <1>5, <1>7 DEF Spoiled
  <2>2. sess[s].listed /\ sess[s].ended
    BY <1>0, <1>2, <2>1 DEF ProtectInv, Holding
  <2>3. \A q \in ProtectThread : doing'[q].pc = "free" =>
          q # p /\ doing'[q] = doing[q] /\ doing[q].s \in 1 .. Len(sess) /\ doing[q].s # s
    BY <1>0, <1>2, <1>6, <1>8, <2>1 DEF ProtectTypes, Refers, ProtectInv, Holding
  <2>4. \A q \in ProtectThread : doing'[q].pc = "free" => sess'[doing'[q].s].listed /\ sess'[doing'[q].s].ended
    BY <1>7, <2>1, <2>3 DEF ProtectInv, Holding
  <2>5. \A q, r \in ProtectThread : doing'[q].pc = "free" /\ doing'[r].pc = "free" /\ q # r => doing'[q].s # doing'[r].s
    BY <2>1, <2>3 DEF ProtectInv, Holding
  <2>6. \A t \in 1 .. Len(sess') : ~sess'[t].ended => sess'[t].listed
    BY <1>5, <1>7, <2>1, <2>2 DEF ProtectInv, Holding
  <2>7. \A t \in 1 .. Len(sess') : sess'[t].listed => t \in 1 .. Len(sess) /\ t # s /\ sess[t].listed /\ sess'[t].ip = sess[t].ip
    BY <1>5, <1>7
  <2>8. \A t \in 1 .. Len(sess') : sess'[t].listed => sess'[t].ip \in used'
    BY <1>4, <2>1, <2>2, <2>7 DEF ProtectInv, Holding
  <2>9. \A t, u \in 1 .. Len(sess') : sess'[t].listed /\ sess'[u].listed /\ t # u => sess'[t].ip # sess'[u].ip
    BY <2>1, <2>7 DEF ProtectInv, Holding
  <2>. QED BY <2>4, <2>5, <2>6, <2>8, <2>9 DEF Holding
<1>12. Losing'
  <2>1. doing'[TickThread] = doing[TickThread] \/ (p = TickThread /\ doing'[TickThread] = d)
    BY <1>0, <1>8
  <2>2. \A t \in 1 .. Len(sess') : Lost(t)' => t \in 1 .. Len(sess) /\ Lost(t)
    BY <1>5, <1>7 DEF Lost
  <2>3. \A t \in 1 .. Len(sess') : Lost(t)' => (t \in doing[TickThread].todo => t \in doing'[TickThread].todo)
    BY <1>6, <2>1, <2>2
  <2>4. ~alive => \A t \in 1 .. Len(sess') : sess'[t].tunnel = "carried" => t \in 1 .. Len(sess) /\ sess[t].tunnel = "carried"
    BY <1>5, <1>7
  <2>5. Ticking(doing[TickThread])'
    BY <1>4, <1>6, <2>1 DEF ProtectInv, Losing, Ticking, workerVars
  <2>. QED BY <1>4, <2>2, <2>3, <2>4, <2>5, LosingKept DEF ProtectInv, workerVars
<1>. QED BY <1>10, <1>11, <1>12 DEF ProtectInv

(* The tick finds the worker gone: every listed session is on its list.    *)
LEMMA TickKeeps ==
  ASSUME ProtectInv, TickDead \/ TickError \/ Respawn \/ \E s \in Listed : TickExpire(s) PROVE ProtectInv'
<1>0. /\ ProtectTypes /\ TickThread \in ProtectThread /\ doing[TickThread] \in Doings /\ Len(sess) \in Nat
      /\ DOMAIN sess = 1 .. Len(sess) /\ Refers(doing[TickThread], Len(sess))
  BY Numbered DEF ProtectInv, ProtectTypes, ProtectThread
<1>1. Listed \subseteq 1 .. Len(sess)
  BY <1>0 DEF Listed
<1>2. CASE TickDead
  <2>1. EndAll(TickThread, Listed, "respawn") /\ gwState' = "error" /\ ~alive /\ UNCHANGED <<sess, used, alive, crashes>>
    BY <1>2 DEF TickDead
  <2>2. PICK d \in Doings : /\ doing' = [doing EXCEPT ![TickThread] = d] /\ d.pc = "end"
                            /\ d.todo = Listed /\ d.then = "respawn" /\ Refers(d, Len(sess))
    BY <1>0, <1>1, <2>1, EndAllIs
  <2>3. doing'[TickThread] = d /\ \A q \in ProtectThread : q # TickThread => doing'[q] = doing[q]
    BY <1>0, <2>2, OneThread DEF ProtectTypes
  <2>4. ProtectTypes'
    BY <1>0, <2>1, <2>2, TypesKept DEF ProtectTypes
  <2>5. Holding'
    BY <2>1, <2>2, <2>3, HoldingKept DEF ProtectInv
  <2>6. \A s \in 1 .. Len(sess') : Lost(s)' => s \in doing'[TickThread].todo
    BY <1>0, <2>1, <2>2, <2>3 DEF Lost, Listed
  <2>7. \A s \in 1 .. Len(sess') : sess'[s].tunnel # "carried"
    BY <2>1 DEF ProtectInv, Losing
  <2>8. Ticking(doing[TickThread])'
    BY <2>1, <2>2, <2>3 DEF Ticking
  <2>9. Losing'
    BY <2>1, <2>6, <2>7, <2>8 DEF Losing
  <2>. QED BY <2>4, <2>5, <2>9 DEF ProtectInv
<1>3. CASE TickError
  <2>1. doing[TickThread] = AtRest /\ gwState = "error" /\ Goto(TickThread, "respawn") /\ UNCHANGED <<sess, used, workerVars>>
    BY <1>3 DEF TickError
  <2>2. PICK d \in Doings : /\ doing' = [doing EXCEPT ![TickThread] = d] /\ d.pc = "respawn"
                            /\ d.todo = doing[TickThread].todo /\ d.then = doing[TickThread].then
    BY <1>0, <2>1, GotoIs
  <2>3. d.todo = {} /\ d.then = "idle" /\ doing[TickThread].todo = {}
    BY <2>1, <2>2, Resting
  <2>4. Refers(d, Len(sess)) /\ Ticking(d)
    BY <2>1, <2>2, <2>3 DEF Refers, Ticking
  <2>. QED BY <1>0, <2>1, <2>2, <2>3, <2>4, ThreadKeeps
<1>4. CASE Respawn
  <2>1. doing[TickThread].pc = "respawn" /\ doing' = [doing EXCEPT ![TickThread] = AtRest] /\ UNCHANGED <<sess, used>>
    BY <1>4 DEF Respawn, Rest
  <2>2. \A s \in 1 .. Len(sess) : ~Lost(s)
    BY <2>1 DEF ProtectInv, Losing, Ticking
  <2>3. doing'[TickThread] = AtRest /\ \A q \in ProtectThread : q # TickThread => doing'[q] = doing[q]
    BY <1>0, <2>1, Resting, OneThread DEF ProtectTypes
  <2>4. (alive' = TRUE /\ gwState' = "up") \/ UNCHANGED <<alive, gwState>>
    BY <1>4 DEF Respawn
  <2>5. ProtectTypes'
    <3>1. alive' \in BOOLEAN /\ gwState' \in {"up", "error"}
      BY <2>4 DEF ProtectInv, ProtectTypes
    <3>. QED BY <1>0, <2>1, <3>1, Resting, TypesKept DEF ProtectTypes
  <2>6. Holding'
    BY <2>1, <2>3, Resting, HoldingKept DEF ProtectInv
  <2>7. \A s \in 1 .. Len(sess') : ~Lost(s)'
    BY <2>1, <2>2 DEF Lost
  <2>8. Ticking(doing[TickThread])'
    BY <2>3, Resting DEF Ticking
  <2>9. gwState = "error" /\ ~alive
    BY <2>1 DEF ProtectInv, Losing, Ticking
  <2>10. ~alive' => \A s \in 1 .. Len(sess') : sess'[s].tunnel # "carried"
    BY <2>1, <2>9 DEF ProtectInv, Losing
  <2>11. gwState' = "error" => ~alive'
    BY <2>4, <2>9
  <2>12. Losing'
    BY <2>7, <2>8, <2>10, <2>11 DEF Losing
  <2>. QED BY <2>5, <2>6, <2>12 DEF ProtectInv
<1>5. ASSUME NEW s \in Listed, TickExpire(s) PROVE ProtectInv'
  <2>1. doing[TickThread] = AtRest /\ EndAll(TickThread, {s}, "idle") /\ UNCHANGED <<sess, used, workerVars>>
    BY <1>5 DEF TickExpire
  <2>2. PICK d \in Doings : /\ doing' = [doing EXCEPT ![TickThread] = d] /\ d.pc = "end"
                            /\ d.then = "idle" /\ Refers(d, Len(sess))
    BY <1>0, <1>1, <2>1, EndAllIs
  <2>3. doing[TickThread].todo = {} /\ Ticking(d)
    BY <2>1, <2>2, Resting DEF Ticking
  <2>. QED BY <1>0, <2>1, <2>2, <2>3, ThreadKeeps
<1>. QED BY <1>2, <1>3, <1>4, <1>5

(* The worker exits with every tunnel it carried.                          *)
LEMMA ExitKeeps == ASSUME ProtectInv, WorkerExits PROVE ProtectInv'
<1>0. /\ ProtectTypes /\ sess \in Seq(Sessions) /\ Len(sess) \in Nat /\ DOMAIN sess = 1 .. Len(sess)
      /\ \A s \in 1 .. Len(sess) : sess[s] \in Sessions
  BY Numbered DEF ProtectInv, ProtectTypes
<1>1. /\ alive /\ alive' = FALSE /\ UNCHANGED <<used, gwState, doing>>
      /\ sess' = [s \in 1 .. Len(sess) |-> [sess[s] EXCEPT !.tunnel = IF sess[s].tunnel = "carried" THEN "gone" ELSE sess[s].tunnel]]
  BY <1>0 DEF WorkerExits
<1>2. \A s \in 1 .. Len(sess) :
        /\ sess'[s] \in Sessions /\ sess'[s].ip = sess[s].ip /\ sess'[s].listed = sess[s].listed
        /\ sess'[s].ended = sess[s].ended /\ sess'[s].reopened = sess[s].reopened /\ sess'[s].tunnel # "carried"
  <2>. TAKE s \in 1 .. Len(sess)
  <2>1. sess[s] \in Sessions
    BY <1>0
  <2>2. sess'[s] = [sess[s] EXCEPT !.tunnel = IF sess[s].tunnel = "carried" THEN "gone" ELSE sess[s].tunnel]
    BY <1>1
  <2>3. CASE sess[s].tunnel = "carried"
    BY <2>1, <2>2, <2>3 DEF Sessions
  <2>4. CASE sess[s].tunnel # "carried"
    BY <2>1, <2>2, <2>4 DEF Sessions
  <2>. QED BY <2>3, <2>4
<1>3. sess' \in Seq(Sessions) /\ Len(sess') = Len(sess)
  <2>1. sess' \in [1 .. Len(sess) -> Sessions]
    BY <1>1, <1>2
  <2>. QED BY <1>0, <2>1, SeqDef, LenProperties
<1>4. ProtectTypes'
  BY <1>0, <1>1, <1>3 DEF ProtectTypes
<1>5. Holding'
  BY <1>1, <1>2, <1>3, HoldingKept DEF ProtectInv
<1>6. gwState' # "error"
  BY <1>1 DEF ProtectInv, Losing
<1>7. Ticking(doing[TickThread])'
  BY <1>1 DEF ProtectInv, Losing, Ticking
<1>8. Losing'
  BY <1>1, <1>2, <1>3, <1>6, <1>7 DEF Losing
<1>. QED BY <1>4, <1>5, <1>8 DEF ProtectInv

LEMMA ProtectNextInv == ProtectInv /\ [ProtectNext]_protectVars => ProtectInv'
<1>. SUFFICES ASSUME ProtectInv, [ProtectNext]_protectVars PROVE ProtectInv'
  OBVIOUS
<1>0. TickThread \in ProtectThread /\ HttpThread \subseteq ProtectThread
  BY DEF ProtectThread
<1>1. ASSUME NEW p \in ProtectThread, EndSteps(p) PROVE ProtectInv'
  BY <1>1, EndNoneKeeps, MarkKeeps, FreeKeeps DEF EndSteps
<1>2. CASE Recovery
  BY <1>0, <1>1, <1>2, TickKeeps DEF Recovery
<1>3. CASE \E s \in Listed : TickExpire(s)
  BY <1>3, TickKeeps
<1>4. CASE WorkerExits
  BY <1>4, ExitKeeps
<1>5. ASSUME NEW h \in HttpThread, Request(h) PROVE ProtectInv'
  BY <1>5, RequestKeeps, RegisterKeeps, AllocateKeeps DEF Request
<1>6. ASSUME NEW h \in HttpThread, Proceed(h) PROVE ProtectInv'
  BY <1>0, <1>1, <1>6, RegisterKeeps, VerdictKeeps DEF Proceed
<1>7. CASE UNCHANGED protectVars
  <2>1. UNCHANGED <<sess, used, alive, gwState, doing>>
    BY <1>7 DEF protectVars
  <2>2. ProtectTypes' /\ Holding'
    BY <2>1 DEF ProtectInv, ProtectTypes, Holding, Spoiled
  <2>3. Losing'
    BY <2>1 DEF ProtectInv, Losing, Lost, Ticking
  <2>. QED BY <2>2, <2>3 DEF ProtectInv
<1>. QED BY <1>2, <1>3, <1>4, <1>5, <1>6, <1>7 DEF ProtectNext

LEMMA ProtectInitInv == ProtectInit => ProtectInv
<1>. SUFFICES ASSUME ProtectInit PROVE ProtectInv
  OBVIOUS
<1>1. sess \in Seq(Sessions) /\ Len(sess) = 0
  BY EmptySeq DEF ProtectInit
<1>2. \A p \in ProtectThread : doing[p] = AtRest
  BY DEF ProtectInit, ProtectThread
<1>3. doing \in [ProtectThread -> Doings]
  BY Resting DEF ProtectInit, ProtectThread
<1>4. ProtectTypes
  BY <1>1, <1>2, <1>3, Resting DEF ProtectTypes, ProtectInit
<1>5. 1 .. Len(sess) = {}
  BY <1>1
<1>6. Holding
  BY <1>2, <1>5, Resting DEF Holding
<1>7. Losing
  BY <1>2, <1>5, Resting DEF Losing, Ticking, ProtectInit, ProtectThread
<1>. QED BY <1>4, <1>6, <1>7 DEF ProtectInv

(* end_session, new_session and the tick: the address of a listed session  *)
(* is its own, and once a worker is up again no session is listed with a   *)
(* tunnel in the one before, for any threads, peers, addresses and exits.  *)
THEOREM SessionsSound == ProtectSpec => []SessionsAreSound
<1>1. ProtectInv => SessionsAreSound
  <2>. SUFFICES ASSUME ProtectInv PROVE SessionsAreSound
    OBVIOUS
  <2>1. DOMAIN sess = 1 .. Len(sess)
    BY Numbered DEF ProtectInv, ProtectTypes
  <2>2. OneHolder
    BY <2>1 DEF ProtectInv, Holding, Spoiled, OneHolder, Listed
  <2>3. WorkerRestartDrops
    BY <2>1 DEF ProtectInv, Losing, Lost, WorkerRestartDrops, Listed
  <2>. QED BY <2>2, <2>3 DEF SessionsAreSound
<1>. QED BY <1>1, ProtectInitInv, ProtectNextInv, PTL DEF ProtectSpec
=============================================================================
