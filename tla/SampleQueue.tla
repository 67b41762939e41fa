----------------------------- MODULE SampleQueue -----------------------------
(***************************************************************************)
(* Files sent for analysis (opt/cloud_det.py): the queue in SQLite, the    *)
(* drainers that claim batches of it (the daemon's thread, and an operator *)
(* who runs one by hand in another process), reports and verdicts.         *)
(*                                                                         *)
(* The engine that analyses is external: any verdict, or an error.  Threat *)
(* feeds record verdicts on their own.  Signatures and indicators that a   *)
(* report carries are left out.                                            *)
(***************************************************************************)
EXTENDS Naturals, FiniteSets

CONSTANTS
  Sample, Drainer,
  BatchSize,            \* limit of process_pending
  MaxSubmits, MaxDeaths   \* bounds

ASSUME QueueAssumption == "none" \notin Sample

VARIABLES row,        \* cloud_queue: status of each sample
          verdict,    \* the samples table
          report,     \* cloud_reports: verdict, or "none" or stale
          work,       \* per drainer: the samples it claimed, the one in hand, its step
          left,       \* samples whose drainer died on them
          submits, deaths
queueVars == <<row, verdict, report, work, left, submits, deaths>>

Definitive == {"malware", "benign"}
Loafing == [claimed |-> {}, in |-> "none", step |-> "idle", found |-> "none"]
Between(c) == [claimed |-> c, in |-> "none", step |-> "next", found |-> "none"]

QueueInit ==
  /\ row = [s \in Sample |-> "none"] /\ verdict = [s \in Sample |-> "unknown"] /\ report = [s \in Sample |-> "none"]
  /\ work = [d \in Drainer |-> Loafing] /\ left = {} /\ submits = 0 /\ deaths = 0

\* _submit_locked, with _cached_verdict.
CachedVerdict(s) == verdict[s] \in Definitive \/ report[s] \in Definitive
Queueable(s) == ~CachedVerdict(s) /\ row[s] \notin {"pending", "analyzing"}
SubmitSample(s) ==
  /\ submits < MaxSubmits /\ submits' = submits + 1
  /\ row' = IF Queueable(s) THEN [row EXCEPT ![s] = "pending"] ELSE row
  /\ UNCHANGED <<verdict, report, work, left, deaths>>

Pending == {s \in Sample : row[s] = "pending"}
Chosen(among) == {c \in SUBSET among : c # {} /\ Cardinality(c) <= BatchSize}

\* process_pending: the claim is one write transaction.
Claim(d) ==
  /\ work[d] = Loafing
  /\ \E c \in Chosen(Pending) :
       /\ row' = [s \in Sample |-> IF s \in c THEN "analyzing" ELSE row[s]]
       /\ work' = [work EXCEPT ![d] = Between(c)]
  /\ UNCHANGED <<verdict, report, left, submits, deaths>>

\* The batch, one sample after the other.
TakeUp(d) ==
  /\ work[d].step = "next"
  /\ IF work[d].claimed = {} THEN work' = [work EXCEPT ![d] = Loafing]
     ELSE \E s \in work[d].claimed, found \in Definitive \cup {"unknown", "error"} :
            work' = [work EXCEPT ![d] = [claimed |-> @.claimed \ {s}, in |-> s, found |-> found,
                                         step |-> IF found = "error" THEN "error" ELSE "apply"]]
  /\ UNCHANGED <<row, verdict, report, left, submits, deaths>>
\* _apply_report: report and sample verdict reach the disk in one commit.
ApplyReport(d) ==
  LET s == work[d].in IN
  /\ work[d].step = "apply" /\ work' = [work EXCEPT ![d].step = "done"]
  /\ report' = [report EXCEPT ![s] = work[d].found]
  /\ verdict' = IF work[d].found \in Definitive THEN [verdict EXCEPT ![s] = work[d].found] ELSE verdict
  /\ UNCHANGED <<row, left, submits, deaths>>
\* _set_status, or the except branch: the loop goes on with the next sample.
SettleStop(d) ==
  /\ work[d].step = "done" /\ row' = [row EXCEPT ![work[d].in] = work[d].step]
  /\ work' = [work EXCEPT ![d] = Between(work[d].claimed)]
  /\ UNCHANGED <<verdict, report, left, submits, deaths>>
Settle(d) ==
  /\ work[d].step \in {"done", "error"} /\ row' = [row EXCEPT ![work[d].in] = work[d].step]
  /\ work' = [work EXCEPT ![d] = Between(work[d].claimed)]
  /\ UNCHANGED <<verdict, report, left, submits, deaths>>

\* The process dies; nothing ever takes its rows back to pending.
DrainerDies(d) ==
  /\ work[d] # Loafing /\ deaths < MaxDeaths /\ deaths' = deaths + 1
  /\ left' = left \cup {s \in work[d].claimed \cup {work[d].in} : s \in Sample} /\ work' = [work EXCEPT ![d] = Loafing]
  /\ UNCHANGED <<row, verdict, report, submits>>

\* record_sample by a feed; a report outlives its cache_ttl.
Feed(s) == verdict[s] = "unknown" /\ verdict' = [verdict EXCEPT ![s] = "malware"] /\ UNCHANGED <<row, report, work, left, submits, deaths>>
ReportAges(s) ==
  /\ report[s] \in Definitive /\ report' = [report EXCEPT ![s] = "stale"]
  /\ UNCHANGED <<row, verdict, work, left, submits, deaths>>

Drain(d) == Claim(d) \/ TakeUp(d) \/ ApplyReport(d) \/ Settle(d)
QueueNext == (\E s \in Sample : SubmitSample(s) \/ Feed(s) \/ ReportAges(s)) \/ \E d \in Drainer : Drain(d) \/ DrainerDies(d)
QueueSpec == QueueInit /\ [][QueueNext]_queueVars

(* ------------------------------ properties ------------------------------ *)

\* "cannot claim the same rows and detonate the same sample twice": no sample
\* is in the hands of two drainers, whatever is submitted again meanwhile.
DetonatedOnce ==
  \A d, e \in Drainer : d # e =>
    (work[d].claimed \cup {work[d].in}) \cap (work[e].claimed \cup {work[e].in}) \subseteq {"none"}

\* "each is one failed row, and the loop must keep serving the rest": what is
\* queued ends in a verdict or an error, unless the drainer that held it died.
SubmissionsEnd == \A s \in Sample : row[s] \in {"pending", "analyzing"} ~> row[s] \in {"done", "error"} \/ s \in left

\* Every queued sample is analysed, by one drainer at a time.
AnalysedOnce == []DetonatedOnce /\ SubmissionsEnd
=============================================================================
