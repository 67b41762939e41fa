--------------------------- MODULE PlaneRpcProofs ---------------------------
(* The safety properties of PlaneRpc, for every chain, resource, request   *)
(* ID, payload and number of attempts.  IInv of PlaneRpc is the inductive  *)
(* invariant: one lemma per action shows that the action keeps it, and the *)
(* theorems read the properties off it.  The last part shows from it that  *)
(* the chain implements PlaneOutcome.                                      *)
EXTENDS PlaneRpc, TLAPS

(* What a request gives: its fields, and the node that owns its resource.  *)
LEMMA RequestFields ==
    ASSUME NEW r \in Requests
    PROVE  /\ r.kind \in Kinds /\ r.id \in Ids /\ r.pay \in Payloads
           /\ r.pay.res \in Resources /\ Owner[r.pay.res] \in Nodes
           /\ r.obs \in Nat /\ r.pay.boot \in Nat
  BY PlaneAssumption DEF Requests, Nodes

(* Updating one entry of a function of nodes, pointwise.                   *)
LEMMA Pointwise ==
    ASSUME NEW A, NEW B, NEW f \in [Nodes -> [A -> B]], NEW n \in Nodes,
           NEW a \in A, NEW v \in B, NEW g, g = [f EXCEPT ![n][a] = v]
    PROVE  /\ g \in [Nodes -> [A -> B]]
           /\ g[n][a] = v
           /\ \A m \in Nodes, b \in A : <<m, b>> # <<n, a>> => g[m][b] = f[m][b]
  OBVIOUS

(* A step that only moves coroutine c of node n, and maybe answers: the    *)
(* journal, the controllers and the other coroutines are what they were.   *)
LEMMA QuietStep ==
    ASSUME IInv, NEW n \in Nodes, NEW c \in Calls,
           TypeOK',
           \A m \in Nodes, d \in Calls : <<m, d>> # <<n, c>> =>
               at'[m][d] = at[m][d] /\ reply'[m][d] = reply[m][d],
           UNCHANGED <<call, journal, seen, rev, ran>>,
           LocatedAt(n, c)',
           at'[n][c] \in Holding => LockFree(n) \/ at[n][c] \in Holding,
           at'[n][c] \notin {"applying", "effected"},
           reply'[n][c] # NoReply /\ call[c].kind = "apply" =>
               reply'[n][c].state # "observed" /\ reply'[n][c].prior = "none",
           Honest(reply[n][c], c)'
    PROVE  IInv'
<1>1. Exclusive'
  BY DEF IInv, Exclusive, LockFree
<1>2. Located'
  <2> SUFFICES ASSUME NEW m \in Nodes, NEW d \in Calls, <<m, d>> # <<n, c>>
               PROVE  LocatedAt(m, d)'
    BY DEF Located
  <2>1. at'[m][d] = at[m][d] /\ reply'[m][d] = reply[m][d]
    OBVIOUS
  <2>2. LocatedAt(m, d)
    BY DEF IInv, Located
  <2>3. QED
    BY <2>1, <2>2 DEF LocatedAt, Row, Res, Unknown
<1>3. Answered'
  BY DEF IInv, Answered
<1>4. /\ Owned' /\ AtMostOnce' /\ IntentDurable' /\ OneUnknown'
      /\ NoOvertaking'
  BY DEF IInv, Owned, AtMostOnce, IntentDurable, OneUnknown, NoOvertaking,
         Unknown
<1>5. RelayTruth'
  <2>1. \A m \in Nodes, i \in Ids : RowTruth(m, i)'
    BY DEF IInv, RelayTruth, RowTruth, OwnerRow
  <2>2. ASSUME NEW m \in Nodes, NEW d \in Calls, <<m, d>> # <<n, c>>
        PROVE  Honest(reply[m][d], d)'
    <3>1. reply'[m][d] = reply[m][d]
      BY <2>2
    <3>2. Honest(reply[m][d], d)
      BY DEF IInv, RelayTruth
    <3>3. QED
      BY <3>1, <3>2 DEF Honest, OwnerRow, Res
  <2>3. QED
    BY <2>1, <2>2 DEF RelayTruth
<1>6. ReconciledIsOver'
  BY DEF IInv, ReconciledIsOver
<1>7. QED
  BY <1>1, <1>2, <1>3, <1>4, <1>5, <1>6 DEF IInv

(* A coroutine that only answers, and ends.                                *)
LEMMA FinishStep ==
    ASSUME IInv, NEW n \in Nodes, NEW c \in Calls, NEW r \in Replies,
           at[n][c] # "none",
           Finish(n, c, r),
           UNCHANGED <<call, journal, seen, rev, boot, flags, ran>>,
           call[c].kind = "apply" => r.state # "observed" /\ r.prior = "none",
           Honest(r, c)
    PROVE  IInv'
<1>1. at \in [Nodes -> [Calls -> Stages]] /\ reply \in [Nodes -> [Calls -> Replies]]
  BY DEF IInv, TypeOK
<1>2. /\ at' \in [Nodes -> [Calls -> Stages]] /\ at'[n][c] = "done"
      /\ \A m \in Nodes, d \in Calls : <<m, d>> # <<n, c>> => at'[m][d] = at[m][d]
  BY <1>1, Pointwise DEF Finish, Go, Stages
<1>3. /\ reply' \in [Nodes -> [Calls -> Replies]] /\ reply'[n][c] = r
      /\ \A m \in Nodes, d \in Calls :
           <<m, d>> # <<n, c>> => reply'[m][d] = reply[m][d]
  BY <1>1, Pointwise DEF Finish
<1>4. TypeOK'
  BY <1>2, <1>3 DEF IInv, TypeOK
<1>5. LocatedAt(n, c)'
  BY <1>2 DEF IInv, Located, LocatedAt, Holding, Res
<1>6. Honest(reply[n][c], c)'
  BY <1>3 DEF Honest, Res, OwnerRow
<1>7. QED
  BY <1>2, <1>3, <1>4, <1>5, <1>6, QuietStep DEF Holding

(* dispatch: a relay that answers from its own row repeats what it already *)
(* recorded, which RelayTruth says is the owner's outcome.                 *)
LEMMA RelayAnswerStep ==
    ASSUME IInv, NEW n \in Nodes, NEW c \in Calls, RelayAnswer(n, c)
    PROVE  IInv'
<1>1. call[c] \in Requests
  BY DEF RelayAnswer, IInv, Located, LocatedAt
<1>2. PICK s \in {"rejected"} \cup Settled :
        /\ Finish(n, c, Answer(s))
        /\ s \in Settled => Row(n, c).st = s /\ Row(n, c).pay = call[c].pay
  BY DEF RelayAnswer, Settled
<1>3. Honest(Answer(s), c)
  <2>1. RowTruth(n, call[c].id)
    BY <1>1, RequestFields DEF IInv, RelayTruth
  <2>2. QED
    BY <1>2, <2>1 DEF Honest, RowTruth, Answer, Row, Settled, OwnerRow, Res
<1>4. Answer(s) \in Replies
  BY DEF Answer, Replies, RowState, Settled
<1>5. QED
  BY <1>2, <1>3, <1>4, FinishStep DEF RelayAnswer, Answer, Settled

(* A coroutine that moves and says nothing.                                *)
LEMMA MoveStep ==
    ASSUME IInv, NEW n \in Nodes, NEW c \in Calls, NEW s \in Stages,
           Go(n, c, s),
           UNCHANGED <<call, reply, journal, seen, rev, boot, flags, ran>>,
           s \in Holding => LockFree(n) \/ at[n][c] \in Holding,
           s \notin {"applying", "effected"},
           LocatedAt(n, c)'
    PROVE  IInv'
<1>1. at \in [Nodes -> [Calls -> Stages]]
  BY DEF IInv, TypeOK
<1>2. /\ at' \in [Nodes -> [Calls -> Stages]] /\ at'[n][c] = s
      /\ \A m \in Nodes, d \in Calls : <<m, d>> # <<n, c>> => at'[m][d] = at[m][d]
  BY <1>1, Pointwise DEF Go
<1>3. TypeOK'
  BY <1>2 DEF IInv, TypeOK
<1>4. Honest(reply[n][c], c)'
  <2>1. Honest(reply[n][c], c)
    BY DEF IInv, RelayTruth
  <2>2. QED
    BY <2>1 DEF Honest, Res, OwnerRow
<1>5. reply'[n][c] # NoReply /\ call[c].kind = "apply" =>
        reply'[n][c].state # "observed" /\ reply'[n][c].prior = "none"
  BY DEF IInv, Answered
<1>6. QED
  BY <1>2, <1>3, <1>4, <1>5, QuietStep

(* The value of at after Go, for the hypothesis of MoveStep.               *)
LEMMA GoAt ==
    ASSUME IInv, NEW n \in Nodes, NEW c \in Calls, NEW s, Go(n, c, s)
    PROVE  at'[n][c] = s
  BY DEF Go, IInv, TypeOK

(* A broken connection only ends the attempt.                              *)
LEMMA LoseStep ==
    ASSUME IInv, NEW n \in Nodes, NEW c \in Calls, Lose(n, c)
    PROVE  IInv'
<1>1. LocatedAt(n, c)'
  BY GoAt DEF Lose, IInv, Located, LocatedAt, Holding, Res
<1>2. QED
  BY <1>1, MoveStep DEF Lose, Stages, Holding

(* An answer that settles nothing is honest.                               *)
LEMMA PlainAnswer ==
    ASSUME NEW s \in {"unknown", "rejected"}, NEW c \in Calls
    PROVE  /\ Answer(s) \in Replies /\ Honest(Answer(s), c)
           /\ Answer(s).state # "observed" /\ Answer(s).prior = "none"
  BY DEF Answer, Replies, RowState, Settled, Honest

(* PEER_WAIT: the answer unknown settles nothing and leaves the row alone. *)
LEMMA RelayTimeoutStep ==
    ASSUME IInv, NEW n \in Nodes, NEW c \in Calls, RelayTimeout(n, c)
    PROVE  IInv'
  BY PlainAnswer, FinishStep DEF RelayTimeout

(* A failed status or validate command is answered before anything is      *)
(* journaled.                                                              *)
LEMMA LeafRejectStep ==
    ASSUME IInv, NEW n \in Nodes, NEW c \in Calls, LeafReject(n, c)
    PROVE  IInv'
  BY PlainAnswer, FinishStep DEF LeafReject

(* A failed controller leaves its row unknown.                             *)
LEMMA LeafUnknownStep ==
    ASSUME IInv, NEW n \in Nodes, NEW c \in Calls, LeafUnknown(n, c)
    PROVE  IInv'
  BY PlainAnswer, FinishStep DEF LeafUnknown

(* What a call that reached node n says about it.                          *)
LEMMA Reached ==
    ASSUME IInv, NEW n \in Nodes, NEW c \in Calls, at[n][c] # "none"
    PROVE  /\ call[c] \in Requests
           /\ call[c].id \in Ids /\ call[c].pay \in Payloads
           /\ Res(c) \in Resources /\ Owner[Res(c)] \in Nodes
           /\ n <= Owner[Res(c)]
           /\ Row(n, c) \in Rows
<1>1. call[c] \in Requests /\ n <= Owner[Res(c)]
  BY DEF IInv, Located, LocatedAt
<1>2. QED
  BY <1>1, RequestFields DEF Res, Row, IInv, TypeOK

(* Plane.local: the answer to a known ID is the node's own row.            *)
LEMMA LeafKnownStep ==
    ASSUME IInv, NEW n \in Nodes, NEW c \in Calls, LeafKnown(n, c)
    PROVE  IInv'
<1>1. Row(n, c) \in Rows /\ Row(n, c).st \in RowState \ {"none"}
  BY Reached DEF LeafKnown, Rows
<1>2. PICK s \in RowState \ {"none"} :
        /\ Finish(n, c, Answer(s))
        /\ s # "rejected" => Row(n, c).st = s /\ Row(n, c).pay = call[c].pay
  BY <1>1 DEF LeafKnown, RowState
<1>3. Honest(Answer(s), c)
  BY <1>2 DEF Honest, Answer, Settled, OwnerRow, Row, Res, LeafKnown, IsLocal
<1>4. Answer(s) \in Replies
  BY DEF Answer, Replies, RowState, Settled
<1>5. QED
  BY <1>2, <1>3, <1>4, FinishStep DEF LeafKnown, Answer, RowState, Settled

(* Plane.local: a call takes the lock, and its resource has no unknown row *)
(* if it goes straight to validation.                                      *)
LEMMA LeafAdmitStep ==
    ASSUME IInv, NEW n \in Nodes, NEW c \in Calls, LeafAdmit(n, c)
    PROVE  IInv'
<1>1. PICK s \in {"validating", "superseding"} :
        /\ Go(n, c, s)
        /\ s = "validating" => Unknown(n, Res(c)) = {}
  BY DEF LeafAdmit
<1>2. Unknown(n, Res(c))' = Unknown(n, Res(c))
  BY DEF LeafAdmit, Unknown, Res
<1>3. LocatedAt(n, c)'
  BY <1>1, <1>2, GoAt DEF LeafAdmit, IsLocal, IInv, Located, LocatedAt, Holding, Res
<1>4. QED
  BY <1>1, <1>3, MoveStep DEF LeafAdmit, Stages, Holding

(* result: the stored state goes out as the prior state of the answer.     *)
LEMMA LeafResultStep ==
    ASSUME IInv, NEW n \in Nodes, NEW c \in Calls, LeafResult(n, c)
    PROVE  IInv'
<1>1. CASE Row(n, c).st # "none" /\ Row(n, c).pay.res = Res(c)
  <2>1. PICK s \in RowState : s = Row(n, c).st
    BY Reached DEF LeafResult, Rows
  <2> DEFINE r == [state |-> "observed", prior |-> s]
  <2>2. Finish(n, c, r) /\ call[c].kind = "result"
    BY <1>1, <2>1 DEF LeafResult
  <2>3. Honest(r, c)
    BY <1>1, <2>1, <2>2 DEF Honest, Settled, OwnerRow, Row, Res, LeafResult, IsLocal
  <2>4. r \in Replies
    BY DEF Replies
  <2> HIDE DEF r
  <2>5. QED
    BY <2>2, <2>3, <2>4, FinishStep DEF LeafResult
<1>2. CASE ~(Row(n, c).st # "none" /\ Row(n, c).pay.res = Res(c))
  BY <1>2, PlainAnswer, FinishStep DEF LeafResult
<1>3. QED
  BY <1>1, <1>2

(* resolve: the attempt takes the lock with an unknown row of its resource.*)
LEMMA LeafResolveStep ==
    ASSUME IInv, NEW n \in Nodes, NEW c \in Calls, LeafResolve(n, c)
    PROVE  IInv'
<1>1. CASE Row(n, c).st = "unknown" /\ Row(n, c).pay.res = Res(c)
  <2>1. LocatedAt(n, c)'
    BY <1>1, GoAt DEF LeafResolve, IsLocal, IInv, Located, LocatedAt, Holding, Res, Row
  <2>2. QED
    BY <1>1, <2>1, MoveStep DEF LeafResolve, Stages, Holding
<1>2. CASE ~(Row(n, c).st = "unknown" /\ Row(n, c).pay.res = Res(c))
  BY <1>2, PlainAnswer, FinishStep DEF LeafResolve
<1>3. QED
  BY <1>1, <1>2

(* RelayTruth only reads requests, answers and journals.                   *)
LEMMA TruthSame ==
    ASSUME RelayTruth, UNCHANGED <<call, reply, journal>>
    PROVE  RelayTruth'
  BY DEF RelayTruth, RowTruth, Honest, OwnerRow, Res

(* The status command reads a revision that no execution so far exceeds.   *)
LEMMA LeafObserveStep ==
    ASSUME IInv, NEW n \in Nodes, NEW c \in Calls, LeafObserve(n, c)
    PROVE  IInv'
<1>1. PICK s \in {"observed", "judging"} :
        /\ Go(n, c, s)
        /\ s = "observed" <=> at[n][c] = "observing"
  BY DEF LeafObserve
<1>2. /\ Res(c) \in Resources /\ Owner[Res(c)] = n /\ rev[Res(c)] \in Nat
      /\ boot \in Nat
  BY Reached DEF LeafObserve, IInv, Located, LocatedAt, Holding, TypeOK
<1>3. /\ at' \in [Nodes -> [Calls -> Stages]] /\ at'[n][c] = s
      /\ \A m \in Nodes, d \in Calls : <<m, d>> # <<n, c>> => at'[m][d] = at[m][d]
  <2>1. at \in [Nodes -> [Calls -> Stages]]
    BY DEF IInv, TypeOK
  <2>2. QED
    BY <1>1, <2>1, Pointwise DEF Go, Stages, Holding
<1>4. TypeOK'
  BY <1>2, <1>3 DEF LeafObserve, IInv, TypeOK, Views
<1>5. /\ seen'[c].rev = rev[Res(c)]
      /\ \A d \in Calls : d # c => seen'[d] = seen[d]
  BY <1>2 DEF LeafObserve, IInv, TypeOK, Views
<1>6. Exclusive'
  BY <1>1, <1>3 DEF LeafObserve, IInv, Exclusive, Holding
<1>7. Located'
  <2> SUFFICES ASSUME NEW m \in Nodes, NEW d \in Calls
               PROVE  LocatedAt(m, d)'
    BY DEF Located
  <2>1. LocatedAt(m, d) /\ LocatedAt(n, c)
    BY DEF IInv, Located
  <2>2. CASE <<m, d>> = <<n, c>>
    <3>1. \A e \in ran[n] : e.pay.res = Res(c) => e.rev <= rev[Res(c)]
      BY DEF IInv, Owned
    <3>2. QED
      BY <1>1, <1>3, <1>5, <2>1, <2>2, <3>1
      DEF LeafObserve, LocatedAt, Row, Res, Unknown, Holding
  <2>3. CASE <<m, d>> # <<n, c>>
    <3>1. at'[m][d] = at[m][d]
      BY <1>3, <2>3
    <3>2. at[m][d] \in Holding => seen'[d] = seen[d]
      BY <1>2, <1>5, <2>1, <2>3 DEF LocatedAt
    <3>3. QED
      BY <2>1, <3>1, <3>2 DEF LeafObserve, LocatedAt, Row, Res, Unknown, Holding
  <2>4. QED
    BY <2>2, <2>3
<1>8. ReconciledIsOver'
  BY <1>1, <1>3 DEF LeafObserve, IInv, ReconciledIsOver
<1>9. /\ Answered' /\ Owned' /\ AtMostOnce' /\ IntentDurable' /\ OneUnknown'
      /\ NoOvertaking'
  BY DEF LeafObserve, IInv, Answered, Owned, AtMostOnce, IntentDurable,
         OneUnknown, NoOvertaking, Unknown
<1>10. RelayTruth'
  BY TruthSame DEF LeafObserve, IInv
<1>11. QED
  BY <1>4, <1>6, <1>7, <1>8, <1>9, <1>10 DEF IInv

-----------------------------------------------------------------------------
(* The environment.                                                        *)

(* A crash ends coroutines; what they relied on is asked of nobody then, and*)
(* the rows that they left unknown still block their resources.            *)
LEMMA CrashStep ==
    ASSUME IInv, NEW n \in Nodes, Crash(n)
    PROVE  IInv'
<1>1. /\ at' \in [Nodes -> [Calls -> Stages]]
      /\ \A m \in Nodes, d \in Calls : at'[m][d] \in {at[m][d], "gone"}
      /\ \A m \in Nodes, d \in Calls : at[m][d] = "none" => at'[m][d] = "none"
  BY DEF Crash, IInv, TypeOK, Stages
<1>2. TypeOK'
  BY <1>1 DEF Crash, IInv, TypeOK
<1>3. Exclusive'
  BY <1>1 DEF IInv, Exclusive, Holding
<1>4. Located'
  <2> SUFFICES ASSUME NEW m \in Nodes, NEW d \in Calls
               PROVE  LocatedAt(m, d)'
    BY DEF Located
  <2>1. LocatedAt(m, d)
    BY DEF IInv, Located
  <2>2. CASE at'[m][d] = at[m][d]
    BY <2>1, <2>2 DEF Crash, LocatedAt, Row, Res, Unknown
  <2>3. CASE at'[m][d] = "gone" /\ at[m][d] # "none"
    BY <2>1, <2>3 DEF Crash, LocatedAt, Row, Res, Unknown, Holding
  <2>4. QED
    BY <1>1, <2>2, <2>3
<1>5. ReconciledIsOver'
  BY <1>1 DEF Crash, IInv, ReconciledIsOver
<1>6. /\ Answered' /\ Owned' /\ AtMostOnce' /\ IntentDurable' /\ OneUnknown'
      /\ NoOvertaking'
  BY DEF Crash, IInv, Answered, Owned, AtMostOnce, IntentDurable,
         OneUnknown, NoOvertaking, Unknown
<1>7. RelayTruth'
  BY TruthSame DEF Crash, IInv
<1>8. QED
  BY <1>2, <1>3, <1>4, <1>5, <1>6, <1>7 DEF IInv

(* Everything in IInv but Owned and the types ignores the revisions, and   *)
(* Owned only needs them not to shrink.                                    *)
LEMMA DirectWriteStep ==
    ASSUME IInv, NEW r \in Resources, DirectWrite(r)
    PROVE  IInv'
<1>1. /\ rev' \in [Resources -> Nat]
      /\ \A q \in Resources : rev[q] \in Nat /\ rev'[q] >= rev[q]
  BY DEF DirectWrite, IInv, TypeOK
<1>2. TypeOK'
  BY <1>1 DEF DirectWrite, IInv, TypeOK
<1>3. Owned'
  <2>1. \A m \in Nodes : \A e \in ran[m] : e.rev \in Nat /\ e.pay.res \in Resources
    BY PlaneAssumption DEF IInv, TypeOK
  <2>2. QED
    BY <1>1, <2>1 DEF DirectWrite, IInv, Owned
<1>4. /\ Exclusive' /\ Answered' /\ AtMostOnce' /\ IntentDurable'
      /\ OneUnknown' /\ NoOvertaking' /\ ReconciledIsOver'
  BY DEF DirectWrite, IInv, Exclusive, Answered, AtMostOnce, IntentDurable,
         OneUnknown, NoOvertaking, ReconciledIsOver, Unknown
<1>5. Located'
  BY DEF DirectWrite, IInv, Located, LocatedAt, Row, Res, Unknown
<1>6. RelayTruth'
  BY TruthSame DEF DirectWrite, IInv
<1>7. QED
  BY <1>2, <1>3, <1>4, <1>5, <1>6 DEF IInv

(* No part of the invariant but the types reads boots and flags.           *)
LEMMA RebootStep ==
    ASSUME IInv, NEW s \in BOOLEAN, Reboot(s)
    PROVE  IInv'
<1>1. TypeOK'
  BY DEF Reboot, IInv, TypeOK
<1>2. /\ Exclusive' /\ Answered' /\ AtMostOnce' /\ IntentDurable' /\ Owned'
      /\ OneUnknown' /\ NoOvertaking' /\ ReconciledIsOver'
  BY DEF Reboot, IInv, Exclusive, Answered, AtMostOnce, IntentDurable, Owned,
         OneUnknown, NoOvertaking, ReconciledIsOver, Unknown
<1>3. Located'
  BY DEF Reboot, IInv, Located, LocatedAt, Row, Res, Unknown
<1>4. RelayTruth'
  BY TruthSame DEF Reboot, IInv
<1>5. QED
  BY <1>1, <1>2, <1>3, <1>4 DEF IInv

(* A new call: nothing refers to its slot yet.                             *)
LEMMA IssueStep ==
    ASSUME IInv, NEW n \in Nodes, NEW c \in Calls, NEW r \in Requests,
           Issue(c, r, n)
    PROVE  IInv'
<1>1. /\ at' \in [Nodes -> [Calls -> Stages]] /\ at'[n][c] = "queued"
      /\ \A m \in Nodes, d \in Calls : <<m, d>> # <<n, c>> => at'[m][d] = at[m][d]
  <2>1. at \in [Nodes -> [Calls -> Stages]]
    BY DEF IInv, TypeOK
  <2>2. QED
    BY <2>1, Pointwise DEF Issue, Go, Stages
<1>2. /\ call' \in [Calls -> Requests \cup {NoRequest}] /\ call'[c] = r
      /\ \A d \in Calls : d # c => call'[d] = call[d]
  BY DEF Issue, IInv, TypeOK
<1>3. NoRequest \notin Requests
  BY DEF NoRequest, Requests, Kinds
<1>4. \A m \in Nodes : at[m][c] = "none" /\ reply[m][c] = NoReply
  BY <1>3 DEF Issue, IInv, Located, LocatedAt
<1>5. TypeOK'
  BY <1>1, <1>2 DEF Issue, IInv, TypeOK
<1>6. Exclusive'
  BY <1>1, <1>4 DEF IInv, Exclusive, Holding
<1>7. Located'
  <2> SUFFICES ASSUME NEW m \in Nodes, NEW d \in Calls
               PROVE  LocatedAt(m, d)'
    BY DEF Located
  <2>1. LocatedAt(m, d)
    BY DEF IInv, Located
  <2>2. CASE d # c
    <3>1. at'[m][d] = at[m][d] /\ call'[d] = call[d]
      BY <1>1, <1>2, <2>2
    <3>2. QED
      BY <2>1, <3>1 DEF Issue, LocatedAt, Row, Res, Unknown
  <2>3. CASE d = c /\ m # n
    <3>1. at'[m][d] = "none" /\ reply'[m][d] = NoReply
      BY <1>1, <1>4, <2>3 DEF Issue
    <3>2. QED
      BY <3>1 DEF LocatedAt, Holding
  <2>4. CASE d = c /\ m = n
    BY <1>1, <1>2, <1>4, <2>4 DEF Issue, LocatedAt, Res, Holding
  <2>5. QED
    BY <2>2, <2>3, <2>4
<1>8. Answered'
  BY <1>2, <1>4 DEF Issue, IInv, Answered
<1>9. /\ AtMostOnce' /\ IntentDurable' /\ Owned' /\ OneUnknown' /\ NoOvertaking'
  BY DEF Issue, IInv, AtMostOnce, IntentDurable, Owned, OneUnknown,
         NoOvertaking, Unknown
<1>10. ReconciledIsOver'
  <2>1. \A m \in Nodes, d \in Calls : at'[m][d] \in {"applying", "effected"} =>
          at[m][d] \in {"applying", "effected"} /\ call'[d] = call[d]
    BY <1>1, <1>2, <1>4
  <2>2. QED
    BY <2>1 DEF Issue, IInv, ReconciledIsOver
<1>11. RelayTruth'
  <2>1. \A m \in Nodes, i \in Ids : RowTruth(m, i)'
    BY DEF Issue, IInv, RelayTruth, RowTruth, OwnerRow
  <2>2. ASSUME NEW m \in Nodes, NEW d \in Calls
        PROVE  Honest(reply[m][d], d)'
    <3>1. CASE d = c
      BY <1>4, <3>1 DEF Issue, Honest, NoReply, Settled
    <3>2. CASE d # c
      <4>1. call'[d] = call[d] /\ Honest(reply[m][d], d)
        BY <1>2, <3>2 DEF IInv, RelayTruth
      <4>2. QED
        BY <4>1 DEF Issue, Honest, OwnerRow, Res
    <3>3. QED
      BY <3>1, <3>2
  <2>3. QED
    BY <2>1, <2>2 DEF RelayTruth
<1>12. QED
  BY <1>5, <1>6, <1>7, <1>8, <1>9, <1>10, <1>11 DEF IInv

-----------------------------------------------------------------------------
(* The owner settles rows of its own that were unknown.                    *)
LEMMA SettleStep ==
    ASSUME IInv, NEW n \in Nodes, NEW c \in Calls,
           at[n][c] \in Holding,
           TypeOK',
           \A m \in Nodes, d \in Calls : <<m, d>> # <<n, c>> =>
               at'[m][d] = at[m][d] /\ reply'[m][d] = reply[m][d],
           UNCHANGED <<call, seen, rev, ran>>,
           \A m \in Nodes, i \in Ids :
             \/ journal'[m][i] = journal[m][i]
             \/ /\ m = n
                /\ Owner[journal[m][i].pay.res] = n
                /\ journal[m][i].st = "unknown"
                /\ journal'[m][i].st \in Settled
                /\ journal'[m][i].pay = journal[m][i].pay
                /\ \A e \in ran[n] : e.id = i /\ journal'[m][i].st = "reconciled"
                                      => e.rev <= journal'[m][i].obs,
           LocatedAt(n, c)',
           at'[n][c] \notin {"applying", "effected"},
           reply'[n][c] # NoReply /\ call[c].kind = "apply" =>
               reply'[n][c].state # "observed" /\ reply'[n][c].prior = "none",
           Honest(reply[n][c], c)'
    PROVE  IInv'
<1>1. Exclusive'
  BY DEF IInv, Exclusive
<1>2. ASSUME NEW m \in Nodes, NEW i \in Ids
      PROVE  /\ journal[m][i].st # "unknown" => journal'[m][i] = journal[m][i]
             /\ journal'[m][i].st = "unknown" => journal'[m][i] = journal[m][i]
             /\ journal'[m][i].pay = journal[m][i].pay
             /\ m # n => journal'[m][i] = journal[m][i]
             /\ journal'[m][i] # journal[m][i] => journal'[m][i].st \in Settled
  BY <1>2 DEF Settled
<1>3. Located'
  <2> SUFFICES ASSUME NEW m \in Nodes, NEW d \in Calls, <<m, d>> # <<n, c>>
               PROVE  LocatedAt(m, d)'
    BY DEF Located
  <2>1. at'[m][d] = at[m][d] /\ reply'[m][d] = reply[m][d]
    OBVIOUS
  <2>2. LocatedAt(m, d)
    BY DEF IInv, Located
  <2>3. CASE m = n
    <3>1. at[m][d] \notin Holding
      BY <2>3 DEF IInv, Exclusive
    <3>2. at[m][d] # "none" => call[d].id \in Ids
      BY Reached
    <3>3. at[m][d] = "relayed" /\ call[d].kind = "apply"
            => Row(m, d)'.st # "none" /\ Row(m, d)'.pay = call[d].pay
      BY <1>2, <2>2, <3>2 DEF LocatedAt, Row, Settled
    <3>4. QED
      BY <2>1, <2>2, <3>1, <3>3 DEF LocatedAt, Holding, Row, Res
  <2>4. CASE m # n
    <3>1. \A i \in Ids : journal'[m][i] = journal[m][i]
      BY <1>2, <2>4
    <3>2. at[m][d] # "none" => call[d].id \in Ids
      BY Reached
    <3>3. /\ at[m][d] # "none" => Row(m, d)' = Row(m, d)
          /\ Unknown(m, Res(d))' = Unknown(m, Res(d)) /\ Res(d)' = Res(d)
      BY <3>1, <3>2 DEF Row, Unknown, Res
    <3>4. QED
      BY <2>1, <2>2, <3>3 DEF LocatedAt, Holding
  <2>5. QED
    BY <2>3, <2>4
<1>4. Answered'
  BY DEF IInv, Answered
<1>5. Owned' /\ AtMostOnce'
  <2>1. \A m \in Nodes, i \in Ids : journal[m][i].st # "rejected" => journal'[m][i].st # "rejected"
    BY <1>2 DEF Settled
  <2>2. QED
    BY <1>2, <2>1 DEF IInv, Owned, AtMostOnce
<1>6. IntentDurable' /\ NoOvertaking'
  <2>1. \A m \in Nodes : \A e \in ran[m] : e.id \in Ids
    BY DEF IInv, TypeOK
  <2>2. \A m \in Nodes, i \in Ids :
          /\ journal[m][i].st \in Settled => journal'[m][i].st \in Settled
          /\ journal[m][i].st \in {"unknown"} \cup Settled =>
               journal'[m][i].st \in {"unknown"} \cup Settled
    BY <1>2 DEF Settled
  <2>3. QED
    BY <1>2, <2>1, <2>2 DEF IInv, IntentDurable, NoOvertaking
<1>7. OneUnknown'
  <2>1. \A m \in Nodes, r \in Resources : Unknown(m, r)' \subseteq Unknown(m, r)
    BY <1>2 DEF Unknown
  <2>2. QED
    BY <2>1, PlaneAssumption DEF IInv, OneUnknown
<1>8. RelayTruth'
  <2>1. \A r \in Resources : Owner[r] \in Nodes
    BY PlaneAssumption
  <2>2. \A m \in Nodes, i \in Ids :
          /\ journal[m][i].pay.res \in Resources
          /\ journal[m][i].st \in RowState
    BY PlaneAssumption DEF IInv, TypeOK, Rows
  <2>3. ASSUME NEW m \in Nodes, NEW i \in Ids
        PROVE  RowTruth(m, i)'
    <3>1. RowTruth(m, i)
      BY DEF IInv, RelayTruth
    <3>2. CASE journal'[m][i] = journal[m][i]
      <4>1. journal[m][i].st \in Settled =>
              OwnerRow(journal[m][i].pay.res, i)' = OwnerRow(journal[m][i].pay.res, i)
        BY <1>2, <2>1, <2>2, <3>1 DEF RowTruth, OwnerRow, Settled
      <4>2. QED
        BY <3>1, <3>2, <4>1 DEF RowTruth, OwnerRow
    <3>3. CASE journal'[m][i] # journal[m][i]
      BY <1>2, <3>3 DEF RowTruth, OwnerRow
    <3>4. QED
      BY <3>2, <3>3
  <2>4. ASSUME NEW m \in Nodes, NEW d \in Calls, <<m, d>> # <<n, c>>
        PROVE  Honest(reply[m][d], d)'
    <3>1. reply'[m][d] = reply[m][d] /\ Honest(reply[m][d], d)
      BY <2>4 DEF IInv, RelayTruth
    <3>2. CASE reply[m][d] = NoReply
      BY <3>1, <3>2 DEF NoReply, Honest, Settled
    <3>3. CASE reply[m][d] # NoReply
      <4>1. call[d] \in Requests
        BY <3>3 DEF IInv, Located, LocatedAt
      <4>2. OwnerRow(Res(d), call[d].id).st \in Settled =>
              OwnerRow(Res(d), call[d].id)' = OwnerRow(Res(d), call[d].id)
        BY <4>1, <1>2, RequestFields DEF OwnerRow, Res, Settled
      <4>3. QED
        BY <3>1, <4>2 DEF Honest, Res
    <3>4. QED
      BY <3>2, <3>3
  <2>5. QED
    BY <2>3, <2>4 DEF RelayTruth
<1>9. ReconciledIsOver'
  <2> SUFFICES ASSUME NEW m \in Nodes, NEW i \in Ids,
                      journal'[m][i].st = "reconciled",
                      Owner[journal'[m][i].pay.res] = m
               PROVE  /\ \A d \in Calls : at'[m][d] \in {"applying", "effected"}
                                            => call[d].id # i
                      /\ \A e \in ran[m] : e.id = i => e.rev <= journal'[m][i].obs
    BY DEF ReconciledIsOver
  <2>1. CASE journal'[m][i] = journal[m][i]
    BY <2>1 DEF IInv, ReconciledIsOver
  <2>2. CASE journal'[m][i] # journal[m][i]
    <3>1. m = n
      BY <1>2, <2>2
    <3>2. \A d \in Calls : at'[m][d] \notin {"applying", "effected"}
      BY <3>1 DEF IInv, Exclusive, Holding
    <3>3. QED
      BY <2>2, <3>1, <3>2
  <2>3. QED
    BY <2>1, <2>2
<1>10. QED
  BY <1>1, <1>3, <1>4, <1>5, <1>6, <1>7, <1>8, <1>9 DEF IInv

(* What Finish changes, pointwise.                                         *)
LEMMA FinishPoint ==
    ASSUME TypeOK, NEW n \in Nodes, NEW c \in Calls, NEW r \in Replies,
           Finish(n, c, r)
    PROVE  /\ at' \in [Nodes -> [Calls -> Stages]] /\ at'[n][c] = "done"
           /\ reply' \in [Nodes -> [Calls -> Replies]] /\ reply'[n][c] = r
           /\ \A m \in Nodes, d \in Calls : <<m, d>> # <<n, c>> =>
                at'[m][d] = at[m][d] /\ reply'[m][d] = reply[m][d]
<1>1. at \in [Nodes -> [Calls -> Stages]] /\ reply \in [Nodes -> [Calls -> Replies]]
  BY DEF TypeOK
<1>2. /\ at' \in [Nodes -> [Calls -> Stages]] /\ at'[n][c] = "done"
      /\ \A m \in Nodes, d \in Calls : <<m, d>> # <<n, c>> => at'[m][d] = at[m][d]
  BY <1>1, Pointwise DEF Finish, Go, Stages
<1>3. /\ reply' \in [Nodes -> [Calls -> Replies]] /\ reply'[n][c] = r
      /\ \A m \in Nodes, d \in Calls :
           <<m, d>> # <<n, c>> => reply'[m][d] = reply[m][d]
  BY <1>1, Pointwise DEF Finish
<1>4. QED
  BY <1>2, <1>3

(* What Record changes, pointwise.                                         *)
LEMMA RecordPoint ==
    ASSUME TypeOK, NEW n \in Nodes, NEW i \in Ids, NEW s \in RowState,
           NEW o \in Nat, Record(n, i, s, o)
    PROVE  /\ journal' \in [Nodes -> [Ids -> Rows]]
           /\ journal'[n][i] = [st |-> s, pay |-> journal[n][i].pay, obs |-> o]
           /\ \A m \in Nodes, j \in Ids :
                <<m, j>> # <<n, i>> => journal'[m][j] = journal[m][j]
<1>1. journal \in [Nodes -> [Ids -> Rows]]
  BY DEF TypeOK
<1>2. PICK v \in Rows : v = [st |-> s, pay |-> journal[n][i].pay, obs |-> o]
  BY <1>1 DEF Rows
<1>3. journal' = [journal EXCEPT ![n][i] = v]
  BY <1>2 DEF Record
<1>4. QED
  BY <1>1, <1>2, <1>3, Pointwise

(* What Insert changes, pointwise.                                         *)
LEMMA InsertPoint ==
    ASSUME TypeOK, NEW n \in Nodes, NEW c \in Calls, call[c] \in Requests,
           Insert(n, c)
    PROVE  /\ journal' \in [Nodes -> [Ids -> Rows]]
           /\ journal'[n][call[c].id] = [st |-> "unknown", pay |-> call[c].pay,
                                        obs |-> 0]
           /\ \A m \in Nodes, j \in Ids :
                <<m, j>> # <<n, call[c].id>> => journal'[m][j] = journal[m][j]
<1>1. journal \in [Nodes -> [Ids -> Rows]]
  BY DEF TypeOK
<1>2. PICK v \in Rows : v = [st |-> "unknown", pay |-> call[c].pay, obs |-> 0]
  BY RequestFields DEF Rows, RowState
<1>3. PICK i \in Ids : i = call[c].id
  BY RequestFields
<1>4. journal' = [journal EXCEPT ![n][i] = v]
  BY <1>2, <1>3 DEF Insert
<1>5. QED
  BY <1>1, <1>2, <1>3, <1>4, Pointwise

(* The controller's result settles the one unknown row of its resource.    *)
LEMMA LeafAppliedStep ==
    ASSUME IInv, NEW n \in Nodes, NEW c \in Calls, LeafApplied(n, c)
    PROVE  IInv'
<1>1. /\ call[c] \in Requests /\ call[c].id \in Ids
      /\ Owner[Res(c)] = n /\ Row(n, c).st = "unknown"
      /\ Row(n, c).pay = call[c].pay /\ call[c].kind = "apply"
  BY Reached DEF LeafApplied, IInv, Located, LocatedAt, Holding
<1>2. /\ Answer("applied") \in Replies /\ "applied" \in RowState /\ TypeOK
      /\ 0 \in Nat
  BY DEF Answer, Replies, RowState, Settled, IInv
<1>3. /\ at' \in [Nodes -> [Calls -> Stages]] /\ at'[n][c] = "done"
      /\ reply' \in [Nodes -> [Calls -> Replies]] /\ reply'[n][c] = Answer("applied")
      /\ \A m \in Nodes, d \in Calls : <<m, d>> # <<n, c>> =>
           at'[m][d] = at[m][d] /\ reply'[m][d] = reply[m][d]
  BY <1>2, FinishPoint DEF LeafApplied
<1>4. PICK i \in Ids : i = call[c].id
  BY <1>1
<1>5. /\ journal' \in [Nodes -> [Ids -> Rows]]
      /\ journal'[n][i] = [st |-> "applied", pay |-> journal[n][i].pay, obs |-> 0]
      /\ \A m \in Nodes, j \in Ids :
           <<m, j>> # <<n, i>> => journal'[m][j] = journal[m][j]
  BY <1>2, <1>4, RecordPoint DEF LeafApplied
<1>6. TypeOK'
  BY <1>2, <1>3, <1>5 DEF LeafApplied, TypeOK
<1>7. LocatedAt(n, c)'
  BY <1>1, <1>3 DEF LeafApplied, LocatedAt, Holding, Res, IInv, Located
<1>8. Honest(reply[n][c], c)'
  BY <1>1, <1>3, <1>4, <1>5 DEF LeafApplied, Honest, Answer, Settled, OwnerRow, Res, Row
<1>9. \A m \in Nodes, j \in Ids :
        \/ journal'[m][j] = journal[m][j]
        \/ /\ m = n
           /\ Owner[journal[m][j].pay.res] = n
           /\ journal[m][j].st = "unknown"
           /\ journal'[m][j].st = "applied"
           /\ journal'[m][j].pay = journal[m][j].pay
  BY <1>1, <1>4, <1>5 DEF Row, Res
<1>10. at[n][c] \in Holding /\ UNCHANGED <<call, seen, rev, ran>>
  BY DEF LeafApplied, Holding
<1>11. QED
  BY <1>3, <1>6, <1>7, <1>8, <1>9, <1>10, SettleStep DEF Answer, Settled

(* resolve settles a row against a revision that is at least that of its   *)
(* execution, and no coroutine is applying it because resolve has the lock.*)
LEMMA LeafReconcileStep ==
    ASSUME IInv, NEW n \in Nodes, NEW c \in Calls, LeafReconcile(n, c)
    PROVE  IInv'
<1>1. CASE seen[c].rev # call[c].obs
  BY <1>1, PlainAnswer, FinishStep DEF LeafReconcile
<1>2. CASE seen[c].rev = call[c].obs
  <2>1. /\ call[c] \in Requests /\ call[c].id \in Ids
        /\ Owner[Res(c)] = n /\ Row(n, c).st = "unknown"
        /\ Row(n, c).pay.res = Res(c) /\ call[c].kind = "resolve"
        /\ \A e \in ran[n] : e.pay.res = Res(c) => e.rev <= seen[c].rev
    BY Reached DEF LeafReconcile, IInv, Located, LocatedAt, Holding
  <2>2. PICK o \in Nat : o = seen[c].rev
    BY DEF IInv, TypeOK, Views
  <2>3. /\ Answer("reconciled") \in Replies /\ "reconciled" \in RowState /\ TypeOK
    BY DEF Answer, Replies, RowState, Settled, IInv
  <2>4. /\ at' \in [Nodes -> [Calls -> Stages]] /\ at'[n][c] = "done"
        /\ reply' \in [Nodes -> [Calls -> Replies]]
        /\ reply'[n][c] = Answer("reconciled")
        /\ \A m \in Nodes, d \in Calls : <<m, d>> # <<n, c>> =>
             at'[m][d] = at[m][d] /\ reply'[m][d] = reply[m][d]
    BY <1>2, <2>3, FinishPoint DEF LeafReconcile
  <2>5. PICK i \in Ids : i = call[c].id
    BY <2>1
  <2>6. /\ journal' \in [Nodes -> [Ids -> Rows]]
        /\ journal'[n][i] = [st |-> "reconciled", pay |-> journal[n][i].pay, obs |-> o]
        /\ \A m \in Nodes, j \in Ids :
             <<m, j>> # <<n, i>> => journal'[m][j] = journal[m][j]
    BY <1>2, <2>2, <2>3, <2>5, RecordPoint DEF LeafReconcile
  <2>7. TypeOK'
    BY <2>3, <2>4, <2>6 DEF LeafReconcile, TypeOK
  <2>8. LocatedAt(n, c)'
    BY <2>1, <2>4 DEF LeafReconcile, LocatedAt, Holding, Res, IInv, Located
  <2>9. Honest(reply[n][c], c)'
    BY <2>1, <2>4, <2>5, <2>6
    DEF LeafReconcile, Honest, Answer, Settled, OwnerRow, Res, Row
  <2>10. \A e \in ran[n] : e.id = i => e.rev <= o
    BY <2>1, <2>2, <2>5 DEF IInv, IntentDurable, Row
  <2>11. \A m \in Nodes, j \in Ids :
        \/ journal'[m][j] = journal[m][j]
        \/ /\ m = n
           /\ Owner[journal[m][j].pay.res] = n
           /\ journal[m][j].st = "unknown"
           /\ journal'[m][j].st \in Settled
           /\ journal'[m][j].pay = journal[m][j].pay
           /\ \A e \in ran[n] : e.id = j /\ journal'[m][j].st = "reconciled"
                                 => e.rev <= journal'[m][j].obs
    BY <2>1, <2>5, <2>6, <2>10 DEF Row, Settled
  <2>12. at[n][c] \in Holding /\ UNCHANGED <<call, seen, rev, ran>>
    BY DEF LeafReconcile, Holding
  <2>13. QED
    BY <2>1, <2>4, <2>7, <2>8, <2>9, <2>11, <2>12, SettleStep
<1>3. QED
  BY <1>1, <1>2

(* supersede settles every unknown row that a sanctioned reboot ended.     *)
LEMMA SupersedeStep ==
    ASSUME IInv, NEW n \in Nodes, NEW c \in Calls, Supersede(n, c)
    PROVE  IInv'
<1> DEFINE open == Unknown(n, Res(c))
           past == {i \in open : Superseded(n, i, seen[c])}
<1>1. /\ call[c] \in Requests /\ Owner[Res(c)] = n /\ call[c].kind = "apply"
      /\ n <= Owner[Res(c)]
      /\ \A e \in ran[n] : e.pay.res = Res(c) => e.rev <= seen[c].rev
      /\ TypeOK /\ seen[c].rev \in Nat
  BY Reached DEF Supersede, IInv, Located, LocatedAt, Holding, TypeOK, Views
<1>2. /\ journal' \in [Nodes -> [Ids -> Rows]]
      /\ \A i \in past : journal'[n][i] = [st |-> "reconciled",
                              pay |-> journal[n][i].pay, obs |-> seen[c].rev]
      /\ \A i \in Ids \ past : journal'[n][i] = journal[n][i]
      /\ \A m \in Nodes \ {n} : journal'[m] = journal[m]
  <2>1. journal \in [Nodes -> [Ids -> Rows]]
    BY <1>1 DEF TypeOK
  <2>2. past \subseteq Ids
    BY DEF Unknown
  <2>3. \A i \in past : [st |-> "reconciled", pay |-> journal[n][i].pay,
                         obs |-> seen[c].rev] \in Rows
    BY <1>1, <2>1, <2>2 DEF Rows, RowState, Settled
  <2>4. journal' = [journal EXCEPT ![n] =
                      [i \in Ids |->
                         IF i \in past
                         THEN [st |-> "reconciled", pay |-> journal[n][i].pay,
                               obs |-> seen[c].rev]
                         ELSE journal[n][i]]]
    BY DEF Supersede
  <2> HIDE DEF past
  <2>5. QED
    BY <2>1, <2>2, <2>3, <2>4
<1>3. \A i \in past : i \in Ids /\ journal[n][i].st = "unknown"
                      /\ journal[n][i].pay.res = Res(c)
  BY DEF Unknown
<1>4. \A m \in Nodes, j \in Ids :
        \/ journal'[m][j] = journal[m][j]
        \/ /\ m = n
           /\ Owner[journal[m][j].pay.res] = n
           /\ journal[m][j].st = "unknown"
           /\ journal'[m][j].st \in Settled
           /\ journal'[m][j].pay = journal[m][j].pay
           /\ \A e \in ran[n] : e.id = j /\ journal'[m][j].st = "reconciled"
                                 => e.rev <= journal'[m][j].obs
  <2> HIDE DEF past
  <2>1. \A e \in ran[n] : e.id \in past => e.rev <= seen[c].rev
    BY <1>1, <1>3 DEF IInv, IntentDurable
  <2> SUFFICES ASSUME NEW m \in Nodes, NEW j \in Ids,
                      journal'[m][j] # journal[m][j]
               PROVE  /\ m = n
                      /\ Owner[journal[m][j].pay.res] = n
                      /\ journal[m][j].st = "unknown"
                      /\ journal'[m][j].st \in Settled
                      /\ journal'[m][j].pay = journal[m][j].pay
                      /\ \A e \in ran[n] :
                           e.id = j /\ journal'[m][j].st = "reconciled"
                             => e.rev <= journal'[m][j].obs
    OBVIOUS
  <2>2. m = n /\ j \in past
    BY <1>2
  <2>3. journal'[m][j] = [st |-> "reconciled", pay |-> journal[n][j].pay,
                          obs |-> seen[c].rev]
    BY <1>2, <2>2
  <2>4. QED
    BY <1>1, <1>3, <2>1, <2>2, <2>3 DEF Settled
<1>5. at[n][c] = "judging" /\ UNCHANGED <<call, seen, rev, boot, flags, ran>>
  BY DEF Supersede
<1>6. CASE open = past
  <2>1. Go(n, c, "validating") /\ reply' = reply
    BY <1>6 DEF Supersede
  <2>2. /\ at' \in [Nodes -> [Calls -> Stages]] /\ at'[n][c] = "validating"
        /\ \A m \in Nodes, d \in Calls : <<m, d>> # <<n, c>> => at'[m][d] = at[m][d]
    <3>1. at \in [Nodes -> [Calls -> Stages]]
      BY <1>1 DEF TypeOK
    <3>2. QED
      BY <2>1, <3>1, Pointwise DEF Go, Stages, Holding
  <2>3. TypeOK'
    BY <1>1, <1>2, <1>5, <2>1, <2>2 DEF TypeOK
  <2>4. Unknown(n, Res(c))' = {}
    <3>1. \A i \in Ids : journal[n][i].st = "unknown" /\ journal[n][i].pay.res = Res(c)
            => i \in past
      BY <1>6 DEF Unknown
    <3> HIDE DEF past
    <3>2. ASSUME NEW i \in Ids, journal'[n][i].st = "unknown"
          PROVE  journal'[n][i].pay.res # Res(c)
      <4>1. ASSUME i \in past PROVE FALSE
        <5>1. journal'[n][i] = [st |-> "reconciled", pay |-> journal[n][i].pay,
                                obs |-> seen[c].rev]
          BY <1>2, <4>1
        <5>2. journal'[n][i].st = "reconciled"
          BY <5>1
        <5>3. QED
          BY <3>2, <5>2
      <4>2. journal'[n][i] = journal[n][i]
        BY <1>2, <4>1
      <4>3. QED
        BY <3>1, <3>2, <4>1, <4>2
    <3>3. QED
      BY <1>5, <3>2 DEF Unknown, Res
  <2>5. LocatedAt(n, c)'
    BY <1>1, <1>5, <2>1, <2>2, <2>4 DEF LocatedAt, Holding, Res
  <2>6. Honest(reply[n][c], c)'
    <3>1. Honest(reply[n][c], c)
      BY DEF IInv, RelayTruth
    <3>2. OwnerRow(Res(c), call[c].id).st \in Settled =>
            OwnerRow(Res(c), call[c].id)' = OwnerRow(Res(c), call[c].id)
      BY <1>1, <1>4, <1>5, RequestFields DEF OwnerRow, Res, Settled
    <3>3. QED
      BY <1>5, <2>1, <3>1, <3>2 DEF Honest, Res
  <2>7. reply'[n][c] # NoReply /\ call[c].kind = "apply" =>
          reply'[n][c].state # "observed" /\ reply'[n][c].prior = "none"
    BY <2>1 DEF IInv, Answered
  <2> HIDE DEF past, open
  <2>8. QED
    BY <1>4, <1>5, <2>1, <2>2, <2>3, <2>5, <2>6, <2>7, SettleStep DEF Holding
<1>7. CASE open # past
  <2>1. Finish(n, c, Answer("rejected"))
    BY <1>7 DEF Supersede
  <2>2. /\ at' \in [Nodes -> [Calls -> Stages]] /\ at'[n][c] = "done"
        /\ reply' \in [Nodes -> [Calls -> Replies]]
        /\ reply'[n][c] = Answer("rejected")
        /\ \A m \in Nodes, d \in Calls : <<m, d>> # <<n, c>> =>
             at'[m][d] = at[m][d] /\ reply'[m][d] = reply[m][d]
    BY <1>1, <2>1, PlainAnswer, FinishPoint
  <2>3. TypeOK'
    BY <1>1, <1>2, <1>5, <2>2 DEF TypeOK
  <2>4. LocatedAt(n, c)'
    BY <1>1, <1>5, <2>2 DEF LocatedAt, Holding, Res
  <2>5. Honest(reply[n][c], c)'
    BY <2>2 DEF Honest, Answer, Settled
  <2> HIDE DEF past, open
  <2>6. QED
    BY <1>4, <1>5, <2>2, <2>3, <2>4, <2>5, SettleStep DEF Holding, Answer
<1>8. QED
  BY <1>6, <1>7

-----------------------------------------------------------------------------
(* A new row, in state unknown, of a node's journal disturbs nothing that  *)
(* is settled and nothing that ran.                                        *)
LEMMA NewRow ==
    ASSUME IInv, NEW n \in Nodes,
           \A m \in Nodes, j \in Ids :
             \/ journal'[m][j] = journal[m][j]
             \/ m = n /\ journal[m][j].st = "none" /\ journal'[m][j].st = "unknown",
           UNCHANGED <<call, reply, rev, ran>>
    PROVE  /\ Answered' /\ Owned' /\ AtMostOnce' /\ IntentDurable'
           /\ NoOvertaking' /\ RelayTruth'
<1>1. \A m \in Nodes, j \in Ids :
        /\ journal[m][j].st # "none" => journal'[m][j] = journal[m][j]
        /\ journal'[m][j].st \notin {"none", "unknown"} => journal'[m][j] = journal[m][j]
  OBVIOUS
<1>2. \A m \in Nodes : \A e \in ran[m] : e.id \in Ids
  BY DEF IInv, TypeOK
<1>3. Answered' /\ AtMostOnce'
  BY DEF IInv, Answered, AtMostOnce
<1>4. Owned'
  BY <1>1 DEF IInv, Owned
<1>5. IntentDurable' /\ NoOvertaking'
  BY <1>1, <1>2 DEF IInv, IntentDurable, NoOvertaking, Settled
<1>6. RelayTruth'
  <2>1. \A r \in Resources : Owner[r] \in Nodes
    BY PlaneAssumption
  <2>2. \A m \in Nodes, i \in Ids : journal[m][i].pay.res \in Resources
    BY PlaneAssumption DEF IInv, TypeOK, Rows
  <2>3. ASSUME NEW m \in Nodes, NEW i \in Ids
        PROVE  RowTruth(m, i)'
    <3>1. RowTruth(m, i)
      BY DEF IInv, RelayTruth
    <3>2. CASE journal'[m][i].st \in Settled
      <4>1. journal'[m][i] = journal[m][i]
        BY <1>1, <3>2 DEF Settled
      <4>2. OwnerRow(journal[m][i].pay.res, i)' = OwnerRow(journal[m][i].pay.res, i)
        BY <1>1, <2>1, <2>2, <3>1, <3>2, <4>1 DEF RowTruth, OwnerRow, Settled
      <4>3. QED
        BY <3>1, <4>1, <4>2 DEF RowTruth, OwnerRow
    <3>3. CASE journal'[m][i].st \notin Settled
      BY <3>3 DEF RowTruth
    <3>4. QED
      BY <3>2, <3>3
  <2>4. ASSUME NEW m \in Nodes, NEW d \in Calls
        PROVE  Honest(reply[m][d], d)'
    <3>1. Honest(reply[m][d], d)
      BY DEF IInv, RelayTruth
    <3>2. CASE reply[m][d] = NoReply
      BY <3>1, <3>2 DEF NoReply, Honest, Settled
    <3>3. CASE reply[m][d] # NoReply
      <4>1. call[d] \in Requests
        BY <3>3 DEF IInv, Located, LocatedAt
      <4>2. OwnerRow(Res(d), call[d].id).st \in Settled =>
              OwnerRow(Res(d), call[d].id)' = OwnerRow(Res(d), call[d].id)
        BY <4>1, <1>1, RequestFields DEF OwnerRow, Res, Settled
      <4>3. QED
        BY <3>1, <4>2 DEF Honest, Res
    <3>4. QED
      BY <3>2, <3>3
  <2>5. QED
    BY <2>3, <2>4 DEF RelayTruth
<1>7. QED
  BY <1>3, <1>4, <1>5, <1>6

(* The intent becomes durable: the only unknown row of its resource.       *)
LEMMA LeafJournalStep ==
    ASSUME IInv, NEW n \in Nodes, NEW c \in Calls, LeafJournal(n, c)
    PROVE  IInv'
<1>1. CASE Row(n, c).st # "none"
  <2>1. LocatedAt(n, c)'
    BY <1>1, GoAt DEF LeafJournal, IInv, Located, LocatedAt, Holding, Res
  <2>2. QED
    BY <1>1, <2>1, MoveStep DEF LeafJournal, Stages, Holding
<1>2. CASE Row(n, c).st = "none"
  <2>1. /\ call[c] \in Requests /\ call[c].id \in Ids
        /\ Res(c) \in Resources
        /\ Owner[Res(c)] = n /\ call[c].kind = "apply" /\ n <= Owner[Res(c)]
        /\ Unknown(n, Res(c)) = {} /\ TypeOK
    BY Reached DEF LeafJournal, IInv, Located, LocatedAt, Holding
  <2>2. PICK i \in Ids : i = call[c].id
    BY <2>1
  <2>3. /\ journal' \in [Nodes -> [Ids -> Rows]]
        /\ journal'[n][i] = [st |-> "unknown", pay |-> call[c].pay, obs |-> 0]
        /\ \A m \in Nodes, j \in Ids :
             <<m, j>> # <<n, i>> => journal'[m][j] = journal[m][j]
    BY <1>2, <2>1, <2>2, InsertPoint DEF LeafJournal
  <2>4. /\ at' \in [Nodes -> [Calls -> Stages]] /\ at'[n][c] = "applying"
        /\ \A m \in Nodes, d \in Calls : <<m, d>> # <<n, c>> => at'[m][d] = at[m][d]
    <3>1. at \in [Nodes -> [Calls -> Stages]]
      BY <2>1 DEF TypeOK
    <3>2. QED
      BY <1>2, <3>1, Pointwise DEF LeafJournal, Go, Stages, Holding
  <2>5. TypeOK'
    BY <2>1, <2>3, <2>4 DEF LeafJournal, TypeOK
  <2>6. journal[n][i].st = "none"
    BY <1>2, <2>2 DEF Row
  <2>7. /\ Answered' /\ Owned' /\ AtMostOnce' /\ IntentDurable'
        /\ NoOvertaking' /\ RelayTruth'
    BY <2>3, <2>6, NewRow DEF LeafJournal
  <2>8. Exclusive'
    BY <2>4 DEF LeafJournal, IInv, Exclusive, Holding
  <2>9. Located'
    <3> SUFFICES ASSUME NEW m \in Nodes, NEW d \in Calls
                 PROVE  LocatedAt(m, d)'
      BY DEF Located
    <3>1. LocatedAt(m, d)
      BY DEF IInv, Located
    <3>2. UNCHANGED <<call, reply, ran>>
      BY DEF LeafJournal
    <3>3. CASE <<m, d>> = <<n, c>>
      <4>1. Row(n, c)' = [st |-> "unknown", pay |-> call[c].pay, obs |-> 0]
        BY <2>2, <2>3, <3>2 DEF Row
      <4>2. \A e \in ran[n] : e.id # call[c].id
        BY <2>2, <2>6 DEF IInv, IntentDurable, Settled
      <4>3. QED
        BY <2>1, <2>4, <3>1, <3>2, <3>3, <4>1, <4>2 DEF LocatedAt, Holding, Res
    <3>4. CASE <<m, d>> # <<n, c>> /\ m = n
      <4>1. at'[m][d] = at[m][d] /\ at[m][d] \notin Holding
        BY <2>4, <3>4 DEF LeafJournal, IInv, Exclusive, Holding
      <4>2. at[m][d] = "relayed" /\ call[d].kind = "apply" => Row(m, d)' = Row(m, d)
        <5>1. at[m][d] = "relayed" => call[d].id \in Ids
          BY Reached
        <5>2. QED
          BY <2>3, <2>6, <3>1, <3>2, <3>4, <5>1 DEF LocatedAt, Row
      <4>3. QED
        BY <3>1, <3>2, <4>1, <4>2 DEF LocatedAt, Holding, Res
    <3>5. CASE m # n
      <4>1. at'[m][d] = at[m][d] /\ \A j \in Ids : journal'[m][j] = journal[m][j]
        BY <2>3, <2>4, <3>5
      <4>2. /\ at[m][d] # "none" => Row(m, d)' = Row(m, d)
            /\ Unknown(m, Res(d))' = Unknown(m, Res(d)) /\ Res(d)' = Res(d)
        BY <3>2, <4>1, Reached DEF Row, Unknown, Res
      <4>3. seen' = seen
        BY DEF LeafJournal
      <4>4. QED
        BY <3>1, <3>2, <4>1, <4>2, <4>3 DEF LocatedAt, Holding
    <3>6. QED
      BY <3>3, <3>4, <3>5
  <2>10. OneUnknown'
    <3> SUFFICES ASSUME NEW r \in Resources,
                        NEW j \in Unknown(Owner[r], r)', NEW k \in Unknown(Owner[r], r)'
                 PROVE  j = k
      BY DEF OneUnknown
    <3>1. Owner[r] \in Nodes /\ j \in Ids /\ k \in Ids
      BY PlaneAssumption DEF Unknown
    <3>2. CASE r = Res(c)
      <4>1. \A l \in Ids : l # i => l \notin Unknown(Owner[r], r)'
        BY <2>1, <2>3, <3>2 DEF Unknown
      <4>2. QED
        BY <3>1, <4>1
    <3>3. CASE r # Res(c)
      <4>1. \A l \in Ids : l \in Unknown(Owner[r], r)' => l \in Unknown(Owner[r], r)
        BY <2>3, <3>1, <3>3 DEF Unknown, Res
      <4>2. QED
        BY <3>1, <4>1 DEF IInv, OneUnknown
    <3>4. QED
      BY <3>2, <3>3
  <2>11. ReconciledIsOver'
    <3> SUFFICES ASSUME NEW m \in Nodes, NEW j \in Ids,
                        journal'[m][j].st = "reconciled",
                        Owner[journal'[m][j].pay.res] = m
                 PROVE  /\ \A d \in Calls : at'[m][d] \in {"applying", "effected"}
                                              => call[d].id # j
                        /\ \A e \in ran[m] : e.id = j => e.rev <= journal'[m][j].obs
      BY DEF LeafJournal, ReconciledIsOver
    <3>1. <<m, j>> # <<n, i>> /\ journal'[m][j] = journal[m][j]
      BY <2>3
    <3>2. QED
      BY <2>2, <2>4, <3>1 DEF IInv, ReconciledIsOver
  <2>12. QED
    BY <2>5, <2>7, <2>8, <2>9, <2>10, <2>11 DEF IInv
<1>3. QED
  BY <1>1, <1>2

(* The controller takes effect: the only step that extends the history.    *)
LEMMA EffectStep ==
    ASSUME IInv, NEW n \in Nodes, NEW c \in Calls, Effect(n, c)
    PROVE  IInv'
<1>1. /\ call[c] \in Requests /\ call[c].id \in Ids /\ call[c].pay \in Payloads
      /\ Res(c) \in Resources /\ n <= Owner[Res(c)]
      /\ Owner[Res(c)] = n /\ call[c].kind = "apply"
      /\ Row(n, c).st = "unknown" /\ Row(n, c).pay = call[c].pay
      /\ \A e \in ran[n] : e.id # call[c].id
      /\ TypeOK /\ rev[Res(c)] \in Nat
  <2>1. at[n][c] = "applying" /\ TypeOK /\ LocatedAt(n, c)
    BY DEF Effect, IInv, Located
  <2>2. /\ call[c] \in Requests /\ call[c].id \in Ids /\ call[c].pay \in Payloads
        /\ Res(c) \in Resources /\ n <= Owner[Res(c)]
    BY <2>1, Reached
  <2>3. rev[Res(c)] \in Nat
    BY <2>1, <2>2 DEF TypeOK
  <2>4. QED
    BY <2>1, <2>2, <2>3 DEF LocatedAt, Holding
<1>2. PICK x : x = [id |-> call[c].id, pay |-> call[c].pay, rev |-> rev[Res(c)] + 1]
  OBVIOUS
<1>3. /\ x \in [id : Ids, pay : Payloads, rev : Nat]
      /\ x.id = call[c].id /\ x.pay = call[c].pay /\ x.rev = rev[Res(c)] + 1
      /\ x.pay.res = Res(c)
  BY <1>1, <1>2 DEF Res
<1>4. /\ ran' \in [Nodes -> SUBSET [id : Ids, pay : Payloads, rev : Nat]]
      /\ ran'[n] = ran[n] \cup {x}
      /\ \A m \in Nodes : m # n => ran'[m] = ran[m]
  BY <1>1, <1>2, <1>3 DEF Effect, TypeOK
<1>5. /\ rev' \in [Resources -> Nat] /\ rev'[Res(c)] = rev[Res(c)] + 1
      /\ \A r \in Resources : rev[r] \in Nat /\ rev'[r] >= rev[r]
  BY <1>1 DEF Effect, TypeOK
<1>6. /\ at' \in [Nodes -> [Calls -> Stages]] /\ at'[n][c] = "effected"
      /\ \A m \in Nodes, d \in Calls : <<m, d>> # <<n, c>> => at'[m][d] = at[m][d]
  <2>1. at \in [Nodes -> [Calls -> Stages]]
    BY <1>1 DEF TypeOK
  <2>2. QED
    BY <2>1, Pointwise DEF Effect, Go, Stages, Holding
<1>7. UNCHANGED <<call, reply, journal, seen, boot, flags>> /\ at[n][c] = "applying"
  BY DEF Effect
<1>8. \A m \in Nodes : \A e \in ran[m] :
        e.id \in Ids /\ e.pay.res \in Resources /\ e.rev \in Nat
  BY <1>1, PlaneAssumption DEF TypeOK
<1>9. TypeOK'
  BY <1>1, <1>4, <1>5, <1>6, <1>7 DEF TypeOK
<1>10. Exclusive'
  BY <1>6, <1>7 DEF IInv, Exclusive, Holding
<1>11. Located'
  <2> SUFFICES ASSUME NEW m \in Nodes, NEW d \in Calls
               PROVE  LocatedAt(m, d)'
    BY DEF Located
  <2>1. LocatedAt(m, d)
    BY DEF IInv, Located
  <2>2. CASE <<m, d>> = <<n, c>>
    BY <1>1, <1>3, <1>4, <1>6, <1>7, <2>1, <2>2 DEF LocatedAt, Holding, Res, Row
  <2>3. CASE <<m, d>> # <<n, c>> /\ m = n
    <3>1. at'[m][d] = at[m][d] /\ at[m][d] \notin Holding
      BY <1>6, <1>7, <2>3 DEF IInv, Exclusive, Holding
    <3>2. QED
      BY <1>7, <2>1, <3>1 DEF LocatedAt, Holding, Res, Row
  <2>4. CASE m # n
    <3>1. at'[m][d] = at[m][d] /\ ran'[m] = ran[m]
      BY <1>4, <1>6, <2>4
    <3>2. QED
      BY <1>7, <2>1, <3>1 DEF LocatedAt, Holding, Res, Row, Unknown
  <2>5. QED
    BY <2>2, <2>3, <2>4
<1>12. Answered' /\ RelayTruth' /\ OneUnknown'
  BY <1>7, TruthSame DEF IInv, Answered, OneUnknown, Unknown
<1>13. Owned'
  <2>1. \A m \in Nodes : \A e \in ran[m] :
          Owner[e.pay.res] = m /\ e.rev <= rev'[e.pay.res]
    BY <1>5, <1>8 DEF IInv, Owned
  <2>2. x.rev <= rev'[x.pay.res]
    BY <1>1, <1>3, <1>5
  <2>3. QED
    BY <1>1, <1>3, <1>4, <1>7, <2>1, <2>2 DEF IInv, Owned
<1>14. AtMostOnce'
  BY <1>1, <1>3, <1>4 DEF IInv, AtMostOnce
<1>15. IntentDurable'
  BY <1>1, <1>3, <1>4, <1>7 DEF IInv, IntentDurable, Row, Settled
<1>16. NoOvertaking'
  <2>1. ASSUME NEW e \in ran[n], e.pay.res = Res(c)
        PROVE  journal[n][e.id].st \in Settled
    <3>1. /\ journal[n][e.id].pay = e.pay
          /\ journal[n][e.id].st \in {"unknown"} \cup Settled
      BY DEF IInv, IntentDurable
    <3>2. journal[n][e.id].st = "unknown" => e.id \in Unknown(n, Res(c))
      BY <1>8, <2>1, <3>1 DEF Unknown
    <3>3. call[c].id \in Unknown(n, Res(c))
      BY <1>1 DEF Unknown, Row, Res
    <3>4. e.id # call[c].id
      BY <1>1
    <3>5. QED
      BY <1>1, <3>1, <3>2, <3>3, <3>4 DEF IInv, OneUnknown
  <2>2. \A e \in ran[n] : e.pay.res = Res(c) => e.rev < x.rev
    BY <1>1, <1>3, <1>8 DEF IInv, Owned
  <2>3. ASSUME NEW e \in ran'[n], NEW f \in ran'[n],
               e.pay.res = f.pay.res, e.rev < f.rev
        PROVE  journal[n][e.id].st \in Settled
    <3>1. CASE e \in ran[n] /\ f \in ran[n]
      BY <2>3, <3>1 DEF IInv, NoOvertaking
    <3>2. CASE e \in ran[n] /\ f = x
      BY <1>3, <2>1, <2>3, <3>2
    <3>3. e # x
      <4>1. ASSUME e = x PROVE FALSE
        <5>1. f # x
          BY <1>1, <1>3, <2>3, <4>1
        <5>2. f \in ran[n] /\ f.pay.res = Res(c) /\ f.rev \in Nat
          BY <1>3, <1>4, <1>8, <2>3, <4>1, <5>1
        <5>3. QED
          BY <1>1, <1>3, <2>2, <2>3, <4>1, <5>2
      <4>2. QED
        BY <4>1
    <3>4. QED
      BY <1>4, <3>1, <3>2, <3>3
  <2>4. \A m \in Nodes \ {n} : \A e, f \in ran'[m] :
          e.pay.res = f.pay.res /\ e.rev < f.rev => journal[m][e.id].st \in Settled
    BY <1>4 DEF IInv, NoOvertaking
  <2>5. QED
    BY <1>7, <2>3, <2>4 DEF NoOvertaking
<1>17. ReconciledIsOver'
  <2> SUFFICES ASSUME NEW m \in Nodes, NEW j \in Ids,
                      journal[m][j].st = "reconciled",
                      Owner[journal[m][j].pay.res] = m
               PROVE  /\ \A d \in Calls : at'[m][d] \in {"applying", "effected"}
                                            => call[d].id # j
                      /\ \A e \in ran'[m] : e.id = j => e.rev <= journal[m][j].obs
    BY <1>7 DEF ReconciledIsOver
  <2>1. /\ \A d \in Calls : at[m][d] \in {"applying", "effected"} => call[d].id # j
        /\ \A e \in ran[m] : e.id = j => e.rev <= journal[m][j].obs
    BY DEF IInv, ReconciledIsOver
  <2>2. m = n => j # call[c].id
    BY <1>1 DEF Row
  <2>3. QED
    BY <1>3, <1>4, <1>6, <1>7, <2>1, <2>2
<1>18. QED
  BY <1>9, <1>10, <1>11, <1>12, <1>13, <1>14, <1>15, <1>16, <1>17 DEF IInv

(* A relay journals the intent of an apply and passes the call on.         *)
LEMMA RelayForwardStep ==
    ASSUME IInv, NEW n \in Nodes, NEW c \in Calls, RelayForward(n, c)
    PROVE  IInv'
<1>1. /\ call[c] \in Requests /\ call[c].id \in Ids
      /\ Res(c) \in Resources /\ Owner[Res(c)] \in Nodes
      /\ n < Owner[Res(c)] /\ n <= Owner[Res(c)] /\ TypeOK
  BY Reached DEF RelayForward, IsRelay, IInv
<1>2. n + 1 \in Nodes /\ n + 1 <= Owner[Res(c)] /\ n + 1 # n /\ n # Owner[Res(c)]
  BY <1>1, PlaneAssumption DEF Nodes
<1>3. PICK i \in Ids : i = call[c].id
  BY <1>1
<1>4. /\ journal' \in [Nodes -> [Ids -> Rows]]
      /\ \A m \in Nodes, j \in Ids :
           \/ journal'[m][j] = journal[m][j]
           \/ /\ m = n /\ j = i
              /\ journal[m][j].st = "none" /\ journal'[m][j].st = "unknown"
              /\ journal'[m][j].pay = call[c].pay
      /\ call[c].kind = "apply" =>
           journal'[n][i].st # "none" /\ journal'[n][i].pay = call[c].pay
  <2>1. CASE UNCHANGED journal
    BY <1>1, <1>3, <2>1 DEF RelayForward, TypeOK, Row, Insert
  <2>2. CASE Row(n, c).st = "none" /\ Insert(n, c)
    <3>1. /\ journal' \in [Nodes -> [Ids -> Rows]]
          /\ journal'[n][i] = [st |-> "unknown", pay |-> call[c].pay, obs |-> 0]
          /\ \A m \in Nodes, j \in Ids :
               <<m, j>> # <<n, i>> => journal'[m][j] = journal[m][j]
      BY <1>1, <1>3, <2>2, InsertPoint
    <3>2. journal[n][i].st = "none"
      BY <1>3, <2>2 DEF Row
    <3>3. QED
      BY <3>1, <3>2
  <2>3. QED
    BY <2>1, <2>2 DEF RelayForward
<1>5. /\ at' \in [Nodes -> [Calls -> Stages]]
      /\ at'[n][c] = "relayed" /\ at'[n + 1][c] = "queued"
      /\ \A m \in Nodes, d \in Calls :
           <<m, d>> \notin {<<n, c>>, <<n + 1, c>>} => at'[m][d] = at[m][d]
  <2>1. at' = [at EXCEPT ![n][c] = "relayed", ![n + 1][c] = "queued"]
    BY DEF RelayForward
  <2>2. PICK a : a = [at EXCEPT ![n][c] = "relayed"]
    OBVIOUS
  <2>3. at' = [a EXCEPT ![n + 1][c] = "queued"]
    BY <2>1, <2>2
  <2>4. at \in [Nodes -> [Calls -> Stages]]
    BY <1>1 DEF TypeOK
  <2>5. /\ a \in [Nodes -> [Calls -> Stages]] /\ a[n][c] = "relayed"
        /\ \A m \in Nodes, d \in Calls : <<m, d>> # <<n, c>> => a[m][d] = at[m][d]
    BY <2>2, <2>4, Pointwise DEF Stages
  <2>6. /\ at' \in [Nodes -> [Calls -> Stages]] /\ at'[n + 1][c] = "queued"
        /\ \A m \in Nodes, d \in Calls : <<m, d>> # <<n + 1, c>> => at'[m][d] = a[m][d]
    BY <1>2, <2>3, <2>5, Pointwise DEF Stages
  <2>7. QED
    BY <1>2, <2>5, <2>6
<1>6. UNCHANGED <<call, reply, seen, rev, boot, flags, ran>>
  BY DEF RelayForward
<1>7. TypeOK'
  BY <1>1, <1>4, <1>5, <1>6 DEF TypeOK
<1>8. Exclusive'
  BY <1>5 DEF IInv, Exclusive, Holding
<1>9. /\ Answered' /\ Owned' /\ AtMostOnce' /\ IntentDurable'
      /\ NoOvertaking' /\ RelayTruth'
  BY <1>4, <1>6, NewRow
<1>10. \A m \in Nodes, r \in Resources : Owner[r] = m => Unknown(m, r)' = Unknown(m, r)
  BY <1>1, <1>2, <1>4 DEF Unknown, Res
<1>11. Located'
  <2> SUFFICES ASSUME NEW m \in Nodes, NEW d \in Calls
               PROVE  LocatedAt(m, d)'
    BY DEF Located
  <2>1. LocatedAt(m, d)
    BY DEF IInv, Located
  <2>2. CASE <<m, d>> = <<n, c>>
    <3>1. at'[m][d] = "relayed" /\ m = n /\ d = c
      BY <1>5, <2>2
    <3>2. call'[c] = call[c] /\ Res(c)' = Res(c)
      BY <1>6 DEF Res
    <3>3. Row(n, c)' = journal'[n][i]
      BY <1>3, <3>2 DEF Row
    <3>4. QED
      BY <1>1, <1>2, <1>4, <3>1, <3>2, <3>3 DEF LocatedAt, Holding
  <2>3. CASE <<m, d>> = <<n + 1, c>>
    BY <1>1, <1>2, <1>5, <1>6, <2>1, <2>3 DEF LocatedAt, Holding, Res
  <2>4. CASE <<m, d>> \notin {<<n, c>>, <<n + 1, c>>}
    <3>1. at'[m][d] = at[m][d]
      BY <1>5, <2>4
    <3>2. at[m][d] # "none" => call[d].id \in Ids /\ Res(d) \in Resources
      BY Reached
    <3>3. at[m][d] # "none" /\ Row(m, d).st # "none" => Row(m, d)' = Row(m, d)
      BY <1>4, <1>6, <3>2 DEF Row
    <3>4. at[m][d] = "validating" => Unknown(m, Res(d))' = Unknown(m, Res(d))
      <4>1. at[m][d] = "validating" => Owner[Res(d)] = m
        BY <2>1 DEF LocatedAt, Holding
      <4>2. Unknown(m, Res(d))' = {j \in Ids : /\ journal'[m][j].st = "unknown"
                                                /\ journal'[m][j].pay.res = Res(d)}
        BY <1>6 DEF Unknown, Res
      <4>3. at[m][d] = "validating" => \A j \in Ids :
              journal'[m][j].st = "unknown" /\ journal'[m][j].pay.res = Res(d)
                <=> journal[m][j].st = "unknown" /\ journal[m][j].pay.res = Res(d)
        BY <1>1, <1>2, <1>4, <4>1 DEF Res
      <4>4. QED
        BY <4>2, <4>3 DEF Unknown
    <3>5. Res(d)' = Res(d)
      BY <1>6 DEF Res
    <3>6. QED
      BY <1>6, <2>1, <3>1, <3>3, <3>4, <3>5 DEF LocatedAt, Holding
  <2>5. QED
    BY <2>2, <2>3, <2>4
<1>12. OneUnknown'
  BY <1>10, PlaneAssumption DEF IInv, OneUnknown
<1>13. ReconciledIsOver'
  <2>1. \A m \in Nodes, j \in Ids :
          journal'[m][j].st = "reconciled" => journal'[m][j] = journal[m][j]
    BY <1>4
  <2>2. \A m \in Nodes, d \in Calls : at'[m][d] \in {"applying", "effected"}
          => at'[m][d] = at[m][d]
    BY <1>5
  <2>3. QED
    BY <1>6, <2>1, <2>2 DEF IInv, ReconciledIsOver
<1>14. QED
  BY <1>7, <1>8, <1>9, <1>11, <1>12, <1>13 DEF IInv

(* A relay's row is never the row of a resource that the node owns, so a   *)
(* late answer cannot touch what the owner has settled.                    *)
LEMMA RelayReturnStep ==
    ASSUME IInv, NEW n \in Nodes, NEW c \in Calls, RelayReturn(n, c)
    PROVE  IInv'
<1>1. /\ call[c] \in Requests /\ call[c].id \in Ids /\ call[c].pay \in Payloads
      /\ Res(c) \in Resources /\ Owner[Res(c)] \in Nodes
      /\ n <= Owner[Res(c)] /\ n # Owner[Res(c)] /\ TypeOK
      /\ call[c].kind = "apply" =>
           Row(n, c).st # "none" /\ Row(n, c).pay = call[c].pay
  <2>1. at[n][c] = "relayed" /\ TypeOK /\ LocatedAt(n, c)
    BY DEF RelayReturn, IInv, Located
  <2>2. QED
    BY <2>1, Reached DEF LocatedAt
<1>2. n + 1 \in Nodes
  BY <1>1, PlaneAssumption DEF Nodes
<1>3. PICK r \in Replies : r = reply[n + 1][c]
  BY <1>1, <1>2 DEF TypeOK
<1>4. /\ Finish(n, c, r) /\ Honest(r, c) /\ r.state # "none"
      /\ call[c].kind = "apply" => r.state # "observed" /\ r.prior = "none"
  BY <1>2, <1>3 DEF RelayReturn, IInv, RelayTruth, Answered, NoReply
<1>5. CASE call[c].kind # "apply"
  BY <1>3, <1>4, <1>5, FinishStep DEF RelayReturn
<1>6. CASE call[c].kind = "apply"
  <2>1. PICK i \in Ids : i = call[c].id
    BY <1>1
  <2>2. PICK s \in RowState \ {"none"} : s = r.state
    BY <1>4, <1>6 DEF Replies, RowState
  <2>3. /\ journal' \in [Nodes -> [Ids -> Rows]]
        /\ journal'[n][i] = [st |-> s, pay |-> journal[n][i].pay, obs |-> 0]
        /\ \A m \in Nodes, j \in Ids :
             <<m, j>> # <<n, i>> => journal'[m][j] = journal[m][j]
    BY <1>1, <1>3, <1>6, <2>1, <2>2, RecordPoint DEF RelayReturn
  <2>4. /\ at' \in [Nodes -> [Calls -> Stages]] /\ at'[n][c] = "done"
        /\ reply' \in [Nodes -> [Calls -> Replies]] /\ reply'[n][c] = r
        /\ \A m \in Nodes, d \in Calls : <<m, d>> # <<n, c>> =>
             at'[m][d] = at[m][d] /\ reply'[m][d] = reply[m][d]
    BY <1>1, <1>4, FinishPoint
  <2>5. UNCHANGED <<call, seen, rev, boot, flags, ran>>
    BY DEF RelayReturn
  <2>6. TypeOK'
    BY <1>1, <2>3, <2>4, <2>5 DEF TypeOK
  <2>7. journal[n][i].pay = call[c].pay /\ journal[n][i].st # "none"
    BY <1>1, <1>6, <2>1 DEF Row
  <2>8. Owner[journal[n][i].pay.res] # n
    BY <1>1, <2>7 DEF Res
  <2>9. ASSUME NEW m \in Nodes, NEW j \in Ids
        PROVE  /\ journal'[m][j].pay = journal[m][j].pay
               /\ Owner[journal[m][j].pay.res] = m => journal'[m][j] = journal[m][j]
               /\ journal'[m][j].st = "none" <=> journal[m][j].st = "none"
    BY <2>2, <2>3, <2>7, <2>8
  <2>10. \A m \in Nodes, q \in Resources : Owner[q] = m => Unknown(m, q)' = Unknown(m, q)
    BY <2>9 DEF Unknown
  <2>11. \A m \in Nodes : \A e \in ran[m] :
           e.id \in Ids /\ journal'[m][e.id] = journal[m][e.id]
    <3>1. \A m \in Nodes : \A e \in ran[m] :
            /\ e.id \in Ids /\ Owner[e.pay.res] = m
            /\ journal[m][e.id].pay = e.pay
      BY <1>1 DEF IInv, TypeOK, Owned, IntentDurable
    <3>2. QED
      BY <2>9, <3>1
  <2>12. Exclusive'
    BY <2>4 DEF IInv, Exclusive, Holding
  <2>13. Located'
    <3> SUFFICES ASSUME NEW m \in Nodes, NEW d \in Calls
                 PROVE  LocatedAt(m, d)'
      BY DEF Located
    <3>1. LocatedAt(m, d)
      BY DEF IInv, Located
    <3>2. CASE <<m, d>> = <<n, c>>
      BY <1>1, <2>4, <2>5, <3>1, <3>2 DEF LocatedAt, Holding, Res
    <3>3. CASE <<m, d>> # <<n, c>>
      <4>1. at'[m][d] = at[m][d] /\ reply'[m][d] = reply[m][d]
        BY <2>4, <3>3
      <4>2. call'[d] = call[d] /\ Res(d)' = Res(d) /\ seen' = seen /\ ran' = ran
        BY <2>5 DEF Res
      <4>3. at[m][d] # "none" => call[d].id \in Ids /\ Res(d) \in Resources
        BY Reached
      <4>4. at[m][d] # "none" =>
              /\ Row(m, d)'.pay = Row(m, d).pay
              /\ Row(m, d)'.st = "none" <=> Row(m, d).st = "none"
              /\ Owner[Row(m, d).pay.res] = m => Row(m, d)' = Row(m, d)
        BY <2>9, <4>2, <4>3 DEF Row
      <4>5. at[m][d] = "validating" => Unknown(m, Res(d))' = Unknown(m, Res(d))
        <5>1. at[m][d] = "validating" => Owner[Res(d)] = m
          BY <3>1 DEF LocatedAt, Holding
        <5>2. Unknown(m, Res(d))' = {j \in Ids : /\ journal'[m][j].st = "unknown"
                                                  /\ journal'[m][j].pay.res = Res(d)}
          BY <4>2 DEF Unknown
        <5>3. at[m][d] = "validating" => \A j \in Ids :
                journal'[m][j].st = "unknown" /\ journal'[m][j].pay.res = Res(d)
                  <=> journal[m][j].st = "unknown" /\ journal[m][j].pay.res = Res(d)
          BY <2>9, <5>1
        <5>4. QED
          BY <5>2, <5>3 DEF Unknown
      <4>6. at[m][d] \in Holding => Owner[Res(d)] = m
        BY <3>1 DEF LocatedAt
      <4>7. at[m][d] \in {"observing", "observed", "applying", "effected"}
              => Row(m, d)' = Row(m, d)
        BY <3>1, <4>4, <4>6 DEF LocatedAt, Holding, Res
      <4>8. QED
        BY <3>1, <4>1, <4>2, <4>4, <4>5, <4>7 DEF LocatedAt, Holding
    <3>4. QED
      BY <3>2, <3>3
  <2>14. Answered'
    BY <1>4, <2>4, <2>5 DEF IInv, Answered
  <2>15. Owned' /\ AtMostOnce'
    BY <2>5, <2>9 DEF IInv, Owned, AtMostOnce
  <2>16. IntentDurable' /\ NoOvertaking'
    BY <2>5, <2>11 DEF IInv, IntentDurable, NoOvertaking
  <2>17. OneUnknown'
    BY <2>10, PlaneAssumption DEF IInv, OneUnknown
  <2>18. RelayTruth'
    <3>1. \A q \in Resources : Owner[q] \in Nodes
      BY PlaneAssumption
    <3>2. \A m \in Nodes, j \in Ids : journal[m][j].pay.res \in Resources
      BY <1>1, PlaneAssumption DEF TypeOK, Rows
    <3>3. ASSUME NEW q \in Resources, NEW j \in Ids, OwnerRow(q, j).pay.res = q
          PROVE  OwnerRow(q, j)' = OwnerRow(q, j)
      BY <2>9, <3>1, <3>3 DEF OwnerRow
    <3>4. ASSUME NEW m \in Nodes, NEW j \in Ids
          PROVE  RowTruth(m, j)'
      <4>1. CASE <<m, j>> # <<n, i>>
        <5>1. journal'[m][j] = journal[m][j] /\ RowTruth(m, j)
          BY <2>3, <4>1 DEF IInv, RelayTruth
        <5>2. journal[m][j].st \in Settled =>
                OwnerRow(journal[m][j].pay.res, j)' = OwnerRow(journal[m][j].pay.res, j)
          BY <3>2, <3>3, <5>1 DEF RowTruth
        <5>3. QED
          BY <5>1, <5>2 DEF RowTruth, OwnerRow
      <4>2. CASE <<m, j>> = <<n, i>>
        <5>1. PICK q \in Resources : q = Res(c)
          BY <1>1
        <5>2. /\ journal'[m][j].st = s /\ journal'[m][j].pay = call[c].pay
              /\ journal'[m][j].pay.res = q
          BY <2>3, <2>7, <4>2, <5>1 DEF Res
        <5>3. s \in Settled => /\ OwnerRow(q, i).st = s
                               /\ OwnerRow(q, i).pay = call[c].pay
                               /\ OwnerRow(q, i).pay.res = q
          BY <1>4, <1>6, <2>1, <2>2, <5>1 DEF Honest
        <5>4. s \in Settled => OwnerRow(q, i)' = OwnerRow(q, i)
          BY <3>3, <5>3
        <5>5. OwnerRow(journal[m][j].pay.res, j)' = OwnerRow(q, i)'
          BY <4>2, <5>2 DEF OwnerRow
        <5>6. QED
          BY <5>2, <5>3, <5>4, <5>5 DEF RowTruth
      <4>3. QED
        BY <4>1, <4>2
    <3>5. ASSUME NEW m \in Nodes, NEW d \in Calls
          PROVE  Honest(reply[m][d], d)'
      <4>1. Honest(reply'[m][d], d)
        BY <1>4, <2>4, <3>5 DEF IInv, RelayTruth
      <4>2. call'[d] = call[d] /\ Res(d)' = Res(d)
        BY <2>5 DEF Res
      <4>3. CASE reply'[m][d] = NoReply
        BY <4>3 DEF NoReply, Honest, Settled
      <4>4. CASE reply'[m][d] # NoReply
        <5>1. call[d] \in Requests
          BY <1>1, <2>4, <4>4 DEF IInv, Located, LocatedAt
        <5>2. call[d].id \in Ids /\ Res(d) \in Resources
          BY <5>1, RequestFields DEF Res
        <5>3. OwnerRow(Res(d), call[d].id).pay.res = Res(d) =>
                OwnerRow(Res(d), call[d].id)' = OwnerRow(Res(d), call[d].id)
          <6>1. OwnerRow(Res(d), call[d].id)' = journal'[Owner[Res(d)]][call[d].id]
            BY <4>2 DEF OwnerRow
          <6>2. QED
            BY <2>9, <3>1, <5>2, <6>1 DEF OwnerRow
        <5>4. QED
          BY <4>1, <4>2, <5>3 DEF Honest
      <4>5. QED
        BY <4>3, <4>4
    <3>6. QED
      BY <3>4, <3>5 DEF RelayTruth
  <2>19. ReconciledIsOver'
    <3>1. \A m \in Nodes, d \in Calls : at'[m][d] \in {"applying", "effected"}
            => at'[m][d] = at[m][d]
      BY <2>4
    <3>2. QED
      BY <2>5, <2>9, <3>1 DEF IInv, ReconciledIsOver
  <2>20. QED
    BY <2>6, <2>12, <2>13, <2>14, <2>15, <2>16, <2>17, <2>18, <2>19 DEF IInv
<1>7. QED
  BY <1>5, <1>6

-----------------------------------------------------------------------------
(* Nothing has been asked, journaled or run initially.                     *)
LEMMA InitInv == Init => IInv
<1> SUFFICES ASSUME Init PROVE IInv
  OBVIOUS
<1>1. NoRow \in Rows /\ NoRow.st = "none"
  <2>1. (CHOOSE p \in Payloads : TRUE) \in Payloads
    BY PlaneAssumption
  <2>2. QED
    BY <2>1 DEF NoRow, Rows, RowState
<1>2. \A n \in Nodes, i \in Ids : journal[n][i].st = "none"
  BY <1>1 DEF Init
<1>3. /\ \A n \in Nodes, c \in Calls : at[n][c] = "none" /\ reply[n][c] = NoReply
      /\ \A n \in Nodes : ran[n] = {}
  BY DEF Init
<1>4. TypeOK
  BY <1>1 DEF Init, TypeOK, Stages, Replies, NoReply, RowState, Views
<1>5. Exclusive /\ Located
  BY <1>3 DEF Exclusive, Located, LocatedAt, Holding
<1>6. Answered /\ Owned /\ AtMostOnce /\ IntentDurable /\ NoOvertaking
  BY <1>2, <1>3 DEF Answered, Owned, AtMostOnce, IntentDurable, NoOvertaking
<1>7. OneUnknown
  BY <1>2, PlaneAssumption DEF OneUnknown, Unknown
<1>8. RelayTruth
  BY <1>2, <1>3 DEF RelayTruth, RowTruth, Honest, NoReply, Settled
<1>9. ReconciledIsOver
  BY <1>2 DEF ReconciledIsOver
<1>10. QED
  BY <1>4, <1>5, <1>6, <1>7, <1>8, <1>9 DEF IInv

(* A step that changes no variable keeps the invariant.                    *)
LEMMA StutterInv == IInv /\ UNCHANGED vars => IInv'
<1> SUFFICES ASSUME IInv, UNCHANGED vars PROVE IInv'
  OBVIOUS
<1>1. TypeOK'
  BY DEF vars, IInv, TypeOK
<1>2. /\ Exclusive' /\ Answered' /\ AtMostOnce' /\ IntentDurable' /\ Owned'
      /\ OneUnknown' /\ NoOvertaking' /\ ReconciledIsOver'
  BY DEF vars, IInv, Exclusive, Answered, AtMostOnce, IntentDurable, Owned,
         OneUnknown, NoOvertaking, ReconciledIsOver, Unknown
<1>3. Located'
  BY DEF vars, IInv, Located, LocatedAt, Row, Res, Unknown
<1>4. RelayTruth'
  BY TruthSame DEF vars, IInv
<1>5. QED
  BY <1>1, <1>2, <1>3, <1>4 DEF IInv

(* Every step keeps the invariant, action by action.                       *)
LEMMA NextInv == IInv /\ [Next]_vars => IInv'
<1> SUFFICES ASSUME IInv, Next PROVE IInv'
  BY StutterInv
<1>1. ASSUME NEW n \in Nodes, NEW c \in Calls, RelayStep(n, c) PROVE IInv'
  BY <1>1, RelayAnswerStep, RelayForwardStep, RelayReturnStep, RelayTimeoutStep
  DEF RelayStep
<1>2. ASSUME NEW n \in Nodes, NEW c \in Calls, LeafStep(n, c) PROVE IInv'
  BY <1>2, LeafKnownStep, LeafAdmitStep, SupersedeStep, LeafRejectStep,
     LeafJournalStep, EffectStep, LeafAppliedStep, LeafUnknownStep,
     LeafResultStep, LeafResolveStep, LeafObserveStep, LeafReconcileStep
  DEF LeafStep
<1>3. ASSUME NEW n \in Nodes, NEW c \in Calls, NEW k \in Kinds, NEW i \in Ids,
             NEW p \in Payloads, NEW o \in 0..MaxRev,
             Issue(c, [kind |-> k, id |-> i, pay |-> p, obs |-> o], n)
      PROVE  IInv'
  <2>1. [kind |-> k, id |-> i, pay |-> p, obs |-> o] \in Requests
    BY PlaneAssumption DEF Requests
  <2>2. QED
    BY <1>3, <2>1, IssueStep
<1>4. ASSUME Environment PROVE IInv'
  BY <1>3, <1>4, LoseStep, CrashStep, DirectWriteStep, RebootStep DEF Environment
<1>5. QED
  BY <1>1, <1>2, <1>4 DEF Next

(* Settled rows of owners change in no step: a node writes a row of its    *)
(* own only while it is unknown or new, and a relay's late answer goes to  *)
(* a row of another node's resource.                                       *)
LEMMA SettledStep ==
    ASSUME IInv, Next, NEW r \in Resources, NEW i \in Ids,
           OwnerRow(r, i).pay.res = r, OwnerRow(r, i).st \in Settled
    PROVE  OwnerRow(r, i)' = OwnerRow(r, i)
<1> DEFINE o == Owner[r]
<1>1. o \in Nodes /\ journal[o][i] \in Rows /\ TypeOK
  BY PlaneAssumption DEF IInv, TypeOK
<1>2. ASSUME NEW n \in Nodes, NEW c \in Calls, RelayStep(n, c)
      PROVE  journal'[o][i] = journal[o][i]
  <2>1. CASE RelayAnswer(n, c) \/ RelayTimeout(n, c)
    BY <2>1 DEF RelayAnswer, RelayTimeout
  <2>2. CASE RelayForward(n, c)
    BY <1>1, <2>2, Reached, InsertPoint DEF RelayForward, Row, Settled, OwnerRow
  <2>3. CASE RelayReturn(n, c)
    <3>1. CASE call[c].kind # "apply"
      BY <2>3, <3>1 DEF RelayReturn
    <3>2. CASE call[c].kind = "apply"
      <4>1. /\ n # Owner[Res(c)] /\ Row(n, c).pay = call[c].pay
            /\ Record(n, call[c].id, reply[n + 1][c].state, 0)
            /\ call[c].id \in Ids
        BY <2>3, <3>2, Reached DEF RelayReturn, IInv, Located, LocatedAt
      <4>2. <<n, call[c].id>> # <<o, i>>
        BY <4>1 DEF Row, Res, OwnerRow
      <4>3. QED
        BY <1>1, <4>1, <4>2 DEF Record, TypeOK
    <3>3. QED
      BY <3>1, <3>2
  <2>4. QED
    BY <1>2, <2>1, <2>2, <2>3 DEF RelayStep
<1>3. ASSUME NEW n \in Nodes, NEW c \in Calls, LeafStep(n, c)
      PROVE  journal'[o][i] = journal[o][i]
  <2>1. CASE LeafApplied(n, c)
    <3>1. Row(n, c).st = "unknown" /\ call[c].id \in Ids
      BY <2>1, Reached DEF LeafApplied, IInv, Located, LocatedAt
    <3>2. <<n, call[c].id>> # <<o, i>>
      BY <3>1 DEF Row, OwnerRow, Settled
    <3>3. QED
      BY <1>1, <2>1, <3>1, <3>2 DEF LeafApplied, Record, TypeOK
  <2>2. CASE LeafReconcile(n, c)
    <3>1. Row(n, c).st = "unknown" /\ call[c].id \in Ids
      BY <2>2, Reached DEF LeafReconcile, IInv, Located, LocatedAt
    <3>2. <<n, call[c].id>> # <<o, i>>
      BY <3>1 DEF Row, OwnerRow, Settled
    <3>3. QED
      BY <1>1, <2>2, <3>1, <3>2 DEF LeafReconcile, Record, TypeOK
  <2>3. CASE Supersede(n, c)
    BY <1>1, <2>3 DEF Supersede, Unknown, OwnerRow, Settled, TypeOK
  <2>4. CASE LeafJournal(n, c)
    BY <1>1, <2>4, Reached, InsertPoint DEF LeafJournal, Row, Settled, OwnerRow
  <2>5. CASE UNCHANGED journal
    BY <2>5
  <2>6. QED
    BY <1>3, <2>1, <2>2, <2>3, <2>4, <2>5
    DEF LeafStep, LeafKnown, LeafAdmit, LeafReject, Effect, LeafUnknown,
        LeafResult, LeafResolve, LeafObserve
<1>4. CASE Environment
  BY <1>4 DEF Environment, Issue, Lose, Crash, DirectWrite, Reboot, OwnerRow
<1>5. QED
  BY <1>2, <1>3, <1>4 DEF Next, OwnerRow

(* The invariant holds in every reachable state, for chains of any allowed *)
(* length, any resources, IDs, payloads and number of delivery attempts.   *)
THEOREM Invariance == Spec => []IInv
  BY InitInv, NextInv, PTL DEF Spec

(* The journal prevents blind replay: no retry, crash or lost answer makes *)
(* a node's controllers execute a request ID twice.                        *)
THEOREM NoReplay == Spec => []AtMostOnce
  BY Invariance, PTL DEF IInv

(* Every execution has a durable row, and none overtakes an execution of   *)
(* its resource whose outcome is not settled.                              *)
THEOREM SerialWrites == Spec => [](IntentDurable /\ OneUnknown /\ NoOvertaking)
  BY Invariance, PTL DEF IInv

(* A settled outcome told or stored anywhere in the chain is the owner's.  *)
THEOREM RelaysTellTruth == Spec => []RelayTruth
  BY Invariance, PTL DEF IInv

(* Reconciliation is final for the write: no effect of it comes later.     *)
THEOREM NoLateEffect == Spec => []ReconciledIsOver
  BY Invariance, PTL DEF IInv

(* What a node has settled for a resource of its own it never changes.     *)
THEOREM OutcomesAreFinal == Spec => SettledIsFinal
<1> DEFINE Final == \A r \in Resources, i \in Ids :
                      /\ OwnerRow(r, i).pay.res = r
                      /\ OwnerRow(r, i).st \in Settled
                      => OwnerRow(r, i)' = OwnerRow(r, i)
<1>1. IInv /\ [Next]_vars => [Final]_vars
  BY SettledStep
<1>2. QED
  BY <1>1, Invariance, PTL DEF Spec, SettledIsFinal

-----------------------------------------------------------------------------
(***************************************************************************)
(* The refinement of PlaneOutcome.                                         *)
(***************************************************************************)

(* What the refinement mapping reads off a state.                          *)
Outcomes == [r \in Resources |-> [i \in Ids |-> OutcomeOf(r, i)]]
Effected == [r \in Resources |-> [i \in Ids |-> DoneOf(r, i)]]
Told == [Outcome!Next]_<<Outcomes, Effected>>

(* A step that changes no outcome and no history is a stutter.             *)
LEMMA SilentStep ==
    ASSUME \A r \in Resources, i \in Ids : OutcomeOf(r, i)' = OutcomeOf(r, i),
           UNCHANGED ran
    PROVE  Told
<1>1. Effected' = Effected
  BY DEF Effected, DoneOf
<1>2. Outcomes' = Outcomes
  BY DEF Outcomes
<1>3. QED
  BY <1>1, <1>2 DEF Told

(* So is one that leaves journals and history alone.                       *)
LEMMA UntouchedStep ==
    ASSUME UNCHANGED <<journal, ran>>
    PROVE  Told
<1>1. \A r \in Resources, i \in Ids : OutcomeOf(r, i)' = OutcomeOf(r, i)
  BY DEF OutcomeOf, OwnerRow
<1>2. QED
  BY <1>1, SilentStep

(* A step that changes one outcome, and no history, is a step of the       *)
(* promise if it opens a write where none is open or ends an open one.     *)
LEMMA OutcomeStep ==
    ASSUME NEW r \in Resources, NEW i \in Ids, UNCHANGED ran,
           \A q \in Resources, j \in Ids :
               <<q, j>> # <<r, i>> => OutcomeOf(q, j)' = OutcomeOf(q, j),
           \/ /\ OutcomeOf(r, i) = "none" /\ OutcomeOf(r, i)' = "open"
              /\ \A j \in Ids : OutcomeOf(r, j) # "open"
           \/ /\ OutcomeOf(r, i) = "open" /\ OutcomeOf(r, i)' = "applied"
              /\ DoneOf(r, i) # {}
           \/ /\ OutcomeOf(r, i) = "open" /\ OutcomeOf(r, i)' = "reconciled"
    PROVE  Told
<1>1. Effected' = Effected
  BY DEF Effected, DoneOf
<1>2. ASSUME NEW s, OutcomeOf(r, i)' = s
      PROVE  Outcomes' = [Outcomes EXCEPT ![r] = [@ EXCEPT ![i] = s]]
  BY <1>2 DEF Outcomes
<1>3. /\ Outcomes[r] = [j \in Ids |-> OutcomeOf(r, j)]
      /\ \A j \in Ids : Outcomes[r][j] = OutcomeOf(r, j)
      /\ Effected[r][i] = DoneOf(r, i)
  BY DEF Outcomes, Effected
<1>4. CASE OutcomeOf(r, i) = "none" /\ OutcomeOf(r, i)' = "open" /\ \A j \in Ids : OutcomeOf(r, j) # "open"
  <2>1. Outcome!Accept(r, i)
    BY <1>1, <1>2, <1>3, <1>4 DEF Outcome!Accept, Outcome!Set, Outcomes, Effected
  <2>2. QED
    BY <2>1 DEF Told, Outcome!Next
<1>5. CASE OutcomeOf(r, i) = "open" /\ OutcomeOf(r, i)' = "applied" /\ DoneOf(r, i) # {}
  <2>1. Outcome!Apply(r, i)
    BY <1>1, <1>2, <1>3, <1>5 DEF Outcome!Apply, Outcome!Set, Outcomes, Effected
  <2>2. QED
    BY <2>1 DEF Told, Outcome!Next
<1>6. CASE OutcomeOf(r, i) = "open" /\ OutcomeOf(r, i)' = "reconciled"
  <2>1. Outcome!Reconcile(r, i)
    BY <1>1, <1>2, <1>3, <1>6 DEF Outcome!Reconcile, Outcome!Set, Outcomes, Effected
  <2>2. QED
    BY <2>1 DEF Told, Outcome!Next
<1>7. QED
  BY <1>4, <1>5, <1>6

(* LeafJournal: the owner accepts a write of a resource with none open.    *)
LEMMA AcceptTold ==
    ASSUME IInv, NEW n \in Nodes, NEW c \in Calls, LeafJournal(n, c)
    PROVE  Told
<1>1. CASE Row(n, c).st # "none"
  BY <1>1, UntouchedStep DEF LeafJournal
<1>2. CASE Row(n, c).st = "none"
  <2>1. /\ Res(c) \in Resources /\ Owner[Res(c)] = n /\ Unknown(n, Res(c)) = {}
        /\ call[c] \in Requests /\ call[c].id \in Ids /\ TypeOK
    BY Reached DEF LeafJournal, IInv, Located, LocatedAt, Holding
  <2>2. PICK i \in Ids : i = call[c].id
    BY <2>1
  <2>3. /\ journal'[n][i] = [st |-> "unknown", pay |-> call[c].pay, obs |-> 0]
        /\ \A m \in Nodes, j \in Ids :
             <<m, j>> # <<n, i>> => journal'[m][j] = journal[m][j]
    BY <1>2, <2>1, <2>2, InsertPoint DEF LeafJournal
  <2>4. PICK r \in Resources : r = Res(c)
    BY <2>1
  <2>5. /\ OutcomeOf(r, i) = "none" /\ OutcomeOf(r, i)' = "open"
        /\ \A j \in Ids : OutcomeOf(r, j) # "open"
    <3>1. OutcomeOf(r, i) = "none"
      BY <1>2, <2>1, <2>2, <2>4 DEF OutcomeOf, OwnerRow, Row
    <3>2. OutcomeOf(r, i)' = "open"
      BY <2>1, <2>3, <2>4 DEF OutcomeOf, OwnerRow, Res
    <3>3. \A j \in Ids : OutcomeOf(r, j) # "open"
      BY <2>1, <2>4 DEF OutcomeOf, OwnerRow, Unknown, TypeOK, Rows, RowState, Settled
    <3>4. QED
      BY <3>1, <3>2, <3>3
  <2>6. ASSUME NEW q \in Resources, NEW j \in Ids, <<q, j>> # <<r, i>>
        PROVE  OutcomeOf(q, j)' = OutcomeOf(q, j)
    <3>1. Owner[q] \in Nodes
      BY PlaneAssumption
    <3>2. QED
      BY <1>2, <2>1, <2>2, <2>3, <2>4, <2>6, <3>1 DEF OutcomeOf, OwnerRow, Row, Res
  <2>7. QED
    BY <2>5, <2>6, OutcomeStep DEF LeafJournal
<1>3. QED
  BY <1>1, <1>2

(* A row of a resource that its node does not own tells no outcome, so     *)
(* what a relay writes there changes none.                                 *)
LEMMA RelayTold ==
    ASSUME IInv, NEW n \in Nodes, NEW i \in Ids, UNCHANGED ran,
           \A m \in Nodes, j \in Ids :
               <<m, j>> # <<n, i>> => journal'[m][j] = journal[m][j],
           Owner[journal[n][i].pay.res] # n \/ journal[n][i].st = "none",
           Owner[journal'[n][i].pay.res] # n
    PROVE  Told
<1>1. ASSUME NEW r \in Resources, NEW j \in Ids
      PROVE  OutcomeOf(r, j)' = OutcomeOf(r, j)
  <2>1. Owner[r] \in Nodes
    BY PlaneAssumption
  <2>2. QED
    BY <2>1 DEF OutcomeOf, OwnerRow
<1>2. QED
  BY <1>1, SilentStep

(* A relay writes its own row and passes the request on.                   *)
LEMMA ForwardTold ==
    ASSUME IInv, NEW n \in Nodes, NEW c \in Calls, RelayForward(n, c)
    PROVE  Told
<1>1. CASE UNCHANGED journal
  BY <1>1, UntouchedStep DEF RelayForward
<1>2. CASE Row(n, c).st = "none" /\ Insert(n, c)
  <2>1. /\ call[c] \in Requests /\ call[c].id \in Ids /\ TypeOK
        /\ Owner[call[c].pay.res] # n
    <3>1. call[c] \in Requests /\ call[c].id \in Ids /\ Owner[Res(c)] \in Nodes /\ n < Owner[Res(c)]
      BY Reached DEF RelayForward, IsRelay
    <3>2. QED
      BY <3>1, PlaneAssumption DEF IInv, Nodes, Res
  <2>2. PICK i \in Ids : i = call[c].id
    BY <2>1
  <2>3. /\ journal'[n][i] = [st |-> "unknown", pay |-> call[c].pay, obs |-> 0]
        /\ \A m \in Nodes, j \in Ids :
             <<m, j>> # <<n, i>> => journal'[m][j] = journal[m][j]
    BY <1>2, <2>1, <2>2, InsertPoint
  <2>4. journal[n][i].st = "none" /\ Owner[journal'[n][i].pay.res] # n
    BY <1>2, <2>1, <2>2, <2>3 DEF Row
  <2>5. QED
    BY <2>3, <2>4, RelayTold DEF RelayForward
<1>3. QED
  BY <1>1, <1>2 DEF RelayForward

(* What comes back to a relay is about its own row, never the owner's.     *)
LEMMA ReturnTold ==
    ASSUME IInv, NEW n \in Nodes, NEW c \in Calls, RelayReturn(n, c)
    PROVE  Told
<1>1. CASE call[c].kind # "apply"
  BY <1>1, UntouchedStep DEF RelayReturn
<1>2. CASE call[c].kind = "apply"
  <2>1. /\ n # Owner[Res(c)] /\ Row(n, c).pay = call[c].pay
        /\ call[c].id \in Ids
        /\ Record(n, call[c].id, reply[n + 1][c].state, 0)
    BY <1>2, Reached DEF RelayReturn, IInv, Located, LocatedAt
  <2>2. PICK i \in Ids : i = call[c].id
    BY <2>1
  <2>3. /\ journal'[n][i].pay = journal[n][i].pay
        /\ \A m \in Nodes, j \in Ids :
             <<m, j>> # <<n, i>> => journal'[m][j] = journal[m][j]
    BY <2>1, <2>2 DEF Record, IInv, TypeOK
  <2>4. QED
    BY <2>1, <2>2, <2>3, RelayTold DEF RelayReturn, Row, Res
<1>3. QED
  BY <1>1, <1>2

(* Effect: the controller runs once, while the write is open.              *)
LEMMA EffectTold ==
    ASSUME IInv, NEW n \in Nodes, NEW c \in Calls, Effect(n, c)
    PROVE  Told
<1>1. /\ Res(c) \in Resources /\ Owner[Res(c)] = n /\ Row(n, c).st = "unknown"
      /\ Row(n, c).pay = call[c].pay
      /\ \A e \in ran[n] : e.id # call[c].id
      /\ call[c].id \in Ids /\ call[c].pay \in Payloads
  BY Reached DEF Effect, IInv, Located, LocatedAt, Holding
<1>2. PICK i \in Ids, r \in Resources : i = call[c].id /\ r = Res(c)
  BY <1>1
<1> DEFINE e == [id |-> i, pay |-> call[c].pay, rev |-> rev[r] + 1]
<1>3. e \in [id : Ids, pay : Payloads, rev : 1..MaxRev]
  <2>1. rev[r] \in Nat /\ rev[r] < MaxRev
    BY <1>2 DEF Effect, IInv, TypeOK
  <2>2. QED
    BY <1>1, <2>1, PlaneAssumption
<1>4. /\ ran'[n] = ran[n] \cup {e}
      /\ \A m \in Nodes : m # n => ran'[m] = ran[m]
  BY <1>1, <1>2 DEF Effect, IInv, TypeOK
<1>5. e.id = i /\ e.pay.res = r
  BY <1>2 DEF Res
<1> HIDE DEF e
<1>6. DoneOf(r, i) = {} /\ DoneOf(r, i)' = {e}
  BY <1>1, <1>2, <1>4, <1>5 DEF DoneOf
<1>7. ASSUME NEW q \in Resources, NEW j \in Ids, <<q, j>> # <<r, i>>
      PROVE  DoneOf(q, j)' = DoneOf(q, j)
  <2>1. Owner[q] \in Nodes
    BY PlaneAssumption
  <2>2. QED
    BY <1>4, <1>5, <1>7, <2>1 DEF DoneOf
<1>8. Effected' = [Effected EXCEPT ![r] = [@ EXCEPT ![i] = {e}]]
  BY <1>6, <1>7 DEF Effected
<1>9. Outcomes' = Outcomes
  BY DEF Effect, Outcomes, OutcomeOf, OwnerRow
<1>10. Outcomes[r][i] = "open" /\ Effected[r][i] = {}
  BY <1>1, <1>2, <1>6 DEF Outcomes, Effected, OutcomeOf, OwnerRow, Row, Res
<1>11. Outcome!Run(r, i, e)
  BY <1>8, <1>9, <1>10 DEF Outcome!Run, Outcomes, Effected
<1>12. QED
  BY <1>3, <1>11 DEF Told, Outcome!Next

(* LeafApplied and LeafReconcile: an open write of the owner is settled.   *)
LEMMA AppliedTold ==
    ASSUME IInv, NEW n \in Nodes, NEW c \in Calls, LeafApplied(n, c)
    PROVE  Told
<1>1. /\ Res(c) \in Resources /\ Owner[Res(c)] = n /\ Row(n, c).st = "unknown"
      /\ Row(n, c).pay = call[c].pay
      /\ \E e \in ran[n] : e.id = call[c].id
      /\ call[c].id \in Ids /\ TypeOK
  BY Reached DEF LeafApplied, IInv, Located, LocatedAt, Holding
<1>2. PICK i \in Ids, r \in Resources : i = call[c].id /\ r = Res(c)
  BY <1>1
<1>3. /\ journal'[n][i] = [st |-> "applied", pay |-> journal[n][i].pay, obs |-> 0]
      /\ \A m \in Nodes, j \in Ids :
           <<m, j>> # <<n, i>> => journal'[m][j] = journal[m][j]
  <2>1. "applied" \in RowState /\ 0 \in Nat
    BY DEF RowState, Settled
  <2>2. QED
    BY <1>1, <1>2, <2>1, RecordPoint DEF LeafApplied
<1>4. DoneOf(r, i) # {}
  BY <1>1, <1>2 DEF DoneOf, IInv, IntentDurable, Row, Res
<1>5. OutcomeOf(r, i) = "open" /\ OutcomeOf(r, i)' = "applied"
  <2>1. journal[n][i].st = "unknown" /\ journal[n][i].pay.res = r /\ Owner[r] = n
    BY <1>1, <1>2 DEF Row, Res
  <2>2. journal'[n][i].st = "applied" /\ journal'[n][i].pay.res = r
    BY <1>3, <2>1
  <2>3. QED
    BY <2>1, <2>2 DEF OutcomeOf, OwnerRow
<1>6. ASSUME NEW q \in Resources, NEW j \in Ids, <<q, j>> # <<r, i>>
      PROVE  OutcomeOf(q, j)' = OutcomeOf(q, j)
  <2>1. Owner[q] \in Nodes
    BY PlaneAssumption
  <2>2. QED
    BY <1>1, <1>2, <1>3, <1>6, <2>1 DEF OutcomeOf, OwnerRow, Row, Res
<1>7. QED
  BY <1>4, <1>5, <1>6, OutcomeStep DEF LeafApplied

(* A resolve settles a write that was not settled, as reconciled.          *)
LEMMA ReconcileTold ==
    ASSUME IInv, NEW n \in Nodes, NEW c \in Calls, LeafReconcile(n, c)
    PROVE  Told
<1>1. CASE seen[c].rev # call[c].obs
  BY <1>1, UntouchedStep DEF LeafReconcile
<1>2. CASE seen[c].rev = call[c].obs
  <2>1. /\ Res(c) \in Resources /\ Owner[Res(c)] = n /\ Row(n, c).st = "unknown"
        /\ Row(n, c).pay.res = Res(c)
        /\ call[c].id \in Ids /\ TypeOK /\ seen[c].rev \in Nat
    BY Reached DEF LeafReconcile, IInv, Located, LocatedAt, Holding, TypeOK, Views
  <2>2. PICK i \in Ids, r \in Resources : i = call[c].id /\ r = Res(c)
    BY <2>1
  <2>3. /\ journal'[n][i] = [st |-> "reconciled", pay |-> journal[n][i].pay,
                             obs |-> seen[c].rev]
        /\ \A m \in Nodes, j \in Ids :
             <<m, j>> # <<n, i>> => journal'[m][j] = journal[m][j]
    <3>1. "reconciled" \in RowState
      BY DEF RowState, Settled
    <3>2. QED
      BY <1>2, <2>1, <2>2, <3>1, RecordPoint DEF LeafReconcile
  <2>4. OutcomeOf(r, i) = "open" /\ OutcomeOf(r, i)' = "reconciled"
    BY <2>1, <2>2, <2>3 DEF OutcomeOf, OwnerRow, Row
  <2>5. ASSUME NEW q \in Resources, NEW j \in Ids, <<q, j>> # <<r, i>>
        PROVE  OutcomeOf(q, j)' = OutcomeOf(q, j)
    <3>1. Owner[q] \in Nodes
      BY PlaneAssumption
    <3>2. QED
      BY <2>1, <2>2, <2>3, <2>5, <3>1 DEF OutcomeOf, OwnerRow, Row
  <2>6. QED
    BY <2>4, <2>5, OutcomeStep DEF LeafReconcile
<1>3. QED
  BY <1>1, <1>2

(* Supersede: OneUnknown says that at most one open write is passed.       *)
LEMMA SupersedeTold ==
    ASSUME IInv, NEW n \in Nodes, NEW c \in Calls, Supersede(n, c)
    PROVE  Told
<1> DEFINE past == {i \in Unknown(n, Res(c)) : Superseded(n, i, seen[c])}
<1>1. /\ Res(c) \in Resources /\ Owner[Res(c)] = n /\ TypeOK
  BY Reached DEF Supersede, IInv, Located, LocatedAt, Holding
<1>2. /\ \A j \in Ids : IF j \in past
                        THEN journal'[n][j].st = "reconciled" /\ journal'[n][j].pay = journal[n][j].pay
                        ELSE journal'[n][j] = journal[n][j]
      /\ \A m \in Nodes : m # n => journal'[m] = journal[m]
  BY <1>1 DEF Supersede, TypeOK
<1>3. \A i, j \in past : i = j
  BY <1>1 DEF IInv, OneUnknown
<1>4. past \subseteq Unknown(n, Res(c))
  OBVIOUS
<1> HIDE DEF past
<1>5. CASE past = {}
  <2>1. ASSUME NEW q \in Resources, NEW j \in Ids PROVE OutcomeOf(q, j)' = OutcomeOf(q, j)
    <3>1. Owner[q] \in Nodes
      BY PlaneAssumption
    <3>2. QED
      BY <1>2, <1>5, <3>1 DEF OutcomeOf, OwnerRow
  <2>2. QED
    BY <2>1, SilentStep DEF Supersede
<1>6. CASE past # {}
  <2>1. PICK i \in past : TRUE
    BY <1>6
  <2>2. /\ i \in Ids /\ journal[n][i].st = "unknown" /\ journal[n][i].pay.res = Res(c)
        /\ journal'[n][i].st = "reconciled" /\ journal'[n][i].pay = journal[n][i].pay
    BY <1>2, <1>4, <2>1 DEF Unknown
  <2>3. PICK r \in Resources : r = Res(c)
    BY <1>1
  <2>4. OutcomeOf(r, i) = "open" /\ OutcomeOf(r, i)' = "reconciled"
    BY <1>1, <2>2, <2>3 DEF OutcomeOf, OwnerRow
  <2>5. ASSUME NEW q \in Resources, NEW j \in Ids, <<q, j>> # <<r, i>>
        PROVE  OutcomeOf(q, j)' = OutcomeOf(q, j)
    <3>1. Owner[q] \in Nodes
      BY PlaneAssumption
    <3>2. CASE Owner[q] = n /\ j = i
      BY <1>1, <2>2, <2>3, <2>5, <3>2 DEF OutcomeOf, OwnerRow
    <3>3. CASE ~(Owner[q] = n /\ j = i)
      <4>1. journal'[Owner[q]][j] = journal[Owner[q]][j]
        BY <1>2, <1>3, <2>1, <3>1, <3>3
      <4>2. QED
        BY <4>1 DEF OutcomeOf, OwnerRow
    <3>4. QED
      BY <3>2, <3>3
  <2>6. QED
    BY <2>2, <2>4, <2>5, OutcomeStep DEF Supersede
<1>7. QED
  BY <1>5, <1>6

(* Every step of the chain is a step of the promise, or none.              *)
LEMMA NextTold == IInv /\ [Next]_vars => Told
<1> SUFFICES ASSUME IInv, [Next]_vars PROVE Told
  OBVIOUS
<1>1. ASSUME NEW n \in Nodes, NEW c \in Calls, RelayStep(n, c) PROVE Told
  BY <1>1, ForwardTold, ReturnTold, UntouchedStep
  DEF RelayStep, RelayAnswer, RelayTimeout
<1>2. ASSUME NEW n \in Nodes, NEW c \in Calls, LeafStep(n, c) PROVE Told
  BY <1>2, SupersedeTold, AcceptTold, EffectTold, AppliedTold, ReconcileTold,
     UntouchedStep
  DEF LeafStep, LeafKnown, LeafAdmit, LeafReject, LeafUnknown, LeafResult,
      LeafResolve, LeafObserve
<1>3. CASE Environment
  BY <1>3, UntouchedStep DEF Environment, Issue, Lose, Crash, DirectWrite, Reboot
<1>4. CASE UNCHANGED vars
  BY <1>4, UntouchedStep DEF vars
<1>5. QED
  BY <1>1, <1>2, <1>3, <1>4 DEF Next

(* At the start nothing was accepted and nothing ran.                      *)
LEMMA InitTold == Init => Outcome!Init
<1> SUFFICES ASSUME Init PROVE Outcome!Init
  OBVIOUS
<1>1. ASSUME NEW r \in Resources, NEW i \in Ids
      PROVE  OutcomeOf(r, i) = "none" /\ DoneOf(r, i) = {}
  <2>1. Owner[r] \in Nodes
    BY PlaneAssumption
  <2>2. OwnerRow(r, i).st = "none" /\ ran[Owner[r]] = {}
    BY <2>1 DEF Init, OwnerRow, NoRow
  <2>3. QED
    BY <2>2 DEF OutcomeOf, DoneOf
<1>2. QED
  BY <1>1 DEF Outcome!Init

(* The chain of daemons keeps the abstract promise of PlaneOutcome, under  *)
(* every interleaving, crash, lost answer and retry: what the owner's      *)
(* journal and the controllers' history show of a resource is a behaviour  *)
(* in which a write is accepted once, runs at most once, and is settled    *)
(* once.                                                                   *)
THEOREM ChainKeepsPromise == Spec => OneOutcome
  BY Invariance, InitTold, NextTold, PTL
  DEF Spec, OneOutcome, Outcome!Spec, Told, Outcomes, Effected
=============================================================================
