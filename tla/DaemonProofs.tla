---------------------------- MODULE DaemonProofs ----------------------------
(***************************************************************************)
(* The small daemons and the files they share, for every set of users,     *)
(* slots, samples, drainers and every setting of the timers: the           *)
(* configuration lease, the boot slots, the sample queue, the hardware     *)
(* watchdog.                                                               *)
(***************************************************************************)
EXTENDS ConfigLock, SlotUpdate, SampleQueue, Watchdog, PatchInstall, TLAPS

(***************************************************************************)
(* ConfigLock: the lease cannot be stolen, for any users, lease time and   *)
(* clock.  The clock only ever makes a row look younger than it is, which  *)
(* is the invariant that the argument needs.                               *)
(***************************************************************************)

(* The age by the clock is at most the time the row has really existed,    *)
(* and at least that of a new row under all the steps back so far.         *)
LeaseInv ==
    /\ lease \in [holder : Users \cup {NoOne}, age : Int]
    /\ lease.holder = NoOne => lease = Free
    /\ back \in Nat /\ back <= MaxBack
    /\ held \in Nat /\ held <= Timeout + 1
    /\ lease.age <= held
    /\ lease.age >= back - MaxBack
    /\ gone \subseteq Users
    /\ op \in {"none", "status", "acquire", "release", "override"} \X (Users \cup {NoOne})

(* What a transaction leaves of the row: the row, or nothing.              *)
LEMMA SeenRow ==
    ASSUME NEW STATE r PROVE Seen(r) = r \/ Seen(r) = Free
  BY DEF Seen

(* Every operation that writes keeps the invariant if its row is one of    *)
(* these: the old row, no row, or a new row of the caller's.               *)
LEMMA WriteKeeps ==
    ASSUME LeaseInv, NEW STATE r, NEW name, NEW u \in Users,
           name \in {"status", "acquire", "release", "override"},
           Write(r, name, u),
           \/ r = lease /\ (name = "acquire" => lease.holder # u)
           \/ r = Free
           \/ name = "acquire" /\ r = [holder |-> u, age |-> 0]
    PROVE  LeaseInv'
  <1>1. CASE r = lease /\ (name = "acquire" => lease.holder # u)
    BY <1>1, LockAssumption DEF LeaseInv, Write, Free
  <1>2. CASE r = Free
    <2>1. lease' = Free /\ held' = 0 /\ back' = back /\ gone' = gone /\ op' = <<name, u>>
      BY <1>2 DEF Write
    <2>2. Free \in [holder : Users \cup {NoOne}, age : Int] /\ Free.age = 0
      BY DEF Free
    <2> QED BY <2>1, <2>2, LockAssumption DEF LeaseInv
  <1>3. CASE name = "acquire" /\ r = [holder |-> u, age |-> 0]
    BY <1>3, LockAssumption DEF LeaseInv, Write, Free
  <1> QED BY <1>1, <1>2, <1>3

(* Each user operation writes one of the rows of WriteKeeps.               *)
LEMMA UserKeeps ==
    ASSUME LeaseInv, NEW u \in Users,
           Status(u) \/ Acquire(u) \/ Release(u) \/ Override(u)
    PROVE  LeaseInv'
  <1>1. CASE Status(u)
    BY <1>1, SeenRow, WriteKeeps DEF Status
  <1>2. CASE Acquire(u)
    <2>1. \/ Acquired(lease, u) = lease /\ lease.holder # u
          \/ Acquired(lease, u) = Free
          \/ Acquired(lease, u) = [holder |-> u, age |-> 0]
      BY SeenRow DEF Acquired, MayTake
    <2> QED BY <1>2, <2>1, WriteKeeps DEF Acquire
  <1>3. CASE Release(u)
    <2>1. Released(lease, u) = lease \/ Released(lease, u) = Free
      BY SeenRow DEF Released
    <2> QED BY <1>3, <2>1, WriteKeeps DEF Release
  <1>4. CASE Override(u)
    BY <1>4, WriteKeeps DEF Override
  <1> QED BY <1>1, <1>2, <1>3, <1>4

(* The invariant holds initially and every step keeps it.                  *)
LEMMA LeaseNextInv == LockSpec => []LeaseInv
  <1>1. LockInit => LeaseInv
    BY LockAssumption DEF LockInit, LeaseInv, Free
  <1>2. LeaseInv /\ [LockNext]_lockVars => LeaseInv'
    <2> SUFFICES ASSUME LeaseInv, [LockNext]_lockVars PROVE LeaseInv'
      OBVIOUS
    <2>1. CASE \E u \in Users \ gone : Status(u) \/ Acquire(u) \/ Release(u) \/ Override(u)
      BY <2>1, UserKeeps
    <2>2. CASE \E u \in Users \ gone : UserLeaves(u)
      BY <2>2 DEF UserLeaves, LeaseInv, Free
    <2>3. CASE ClockTicks
      <3>1. /\ lease # Free /\ lease.age <= Timeout
            /\ lease' = [lease EXCEPT !.age = @ + 1]
        BY <2>3, LockAssumption DEF ClockTicks, Aged, LeaseInv
      <3>2. lease'.holder = lease.holder /\ lease'.age = lease.age + 1
        BY <3>1 DEF LeaseInv
      <3> QED BY <2>3, <3>1, <3>2, LockAssumption DEF ClockTicks, LeaseInv, Free
    <2>4. CASE StepBack
      <3>1. PICK d \in 1..back : /\ lease' = [lease EXCEPT !.age = @ - d]
                                 /\ back' = back - d
        BY <2>4 DEF StepBack
      <3>2. lease'.holder = lease.holder /\ lease'.age = lease.age - d
        BY <3>1 DEF LeaseInv
      <3> QED BY <2>4, <3>1, <3>2, LockAssumption DEF StepBack, LeaseInv, Free
    <2>5. CASE UNCHANGED lockVars
      BY <2>5 DEF lockVars, LeaseInv, Free
    <2> QED BY <2>1, <2>2, <2>3, <2>4, <2>5 DEF LockNext
  <1> QED BY <1>1, <1>2, PTL DEF LockSpec

(* The module's type invariant, for every set of users, lease time and     *)
(* clock that is set back.                                                 *)
THEOREM LeaseTypes == LockSpec => []LockTypeOK
  <1>1. LeaseInv => LockTypeOK
    BY LockAssumption DEF LeaseInv, LockTypeOK
  <1> QED BY <1>1, LeaseNextInv, PTL

(* Within the lease time the row leaves its holder only by the holder's    *)
(* release or an override: its age is at most the time it was held, so no  *)
(* transaction deletes it.                                                 *)
THEOREM LeaseIsSafe == LockSpec => NoTheft
  <1> DEFINE Theft == /\ lease # Free /\ held <= Timeout
                      /\ lease'.holder # lease.holder
             Lawful == op' = <<"release", lease.holder>> \/ op'[1] = "override"
  <1>1. LeaseInv /\ [LockNext]_lockVars => [Theft => Lawful]_lockVars
    <2> SUFFICES ASSUME LeaseInv, [LockNext]_lockVars, Theft PROVE Lawful
      OBVIOUS
    <2>1. Seen(lease) = lease
      BY LockAssumption DEF LeaseInv, Seen, Expired
    <2>2. ASSUME NEW u \in Users, Status(u) PROVE FALSE
      BY <2>1, <2>2 DEF Status, Write
    <2>3. ASSUME NEW u \in Users, Acquire(u) PROVE FALSE
      <3>1. lease.holder # NoOne
        BY DEF LeaseInv
      <3>2. lease' = lease \/ (lease.holder = u /\ lease' = [holder |-> u, age |-> 0])
        BY <2>1, <2>3, <3>1 DEF Acquire, Write, Acquired, MayTake
      <3> QED BY <3>2
    <2>4. ASSUME NEW u \in Users, Release(u) PROVE Lawful
      BY <2>1, <2>4 DEF Release, Write, Released
    <2>5. ASSUME NEW u \in Users, Override(u) PROVE Lawful
      BY <2>5 DEF Override, Write
    <2>6. ASSUME NEW u \in Users, UserLeaves(u) PROVE FALSE
      BY <2>6 DEF UserLeaves
    <2>7. ASSUME ClockTicks PROVE FALSE
      BY <2>7 DEF ClockTicks, Aged, LeaseInv
    <2>8. ASSUME StepBack PROVE FALSE
      BY <2>8 DEF StepBack, LeaseInv
    <2>9. ASSUME UNCHANGED lockVars PROVE FALSE
      BY <2>9 DEF lockVars
    <2> QED BY <2>2, <2>3, <2>4, <2>5, <2>6, <2>7, <2>8, <2>9 DEF LockNext
  <1> QED BY <1>1, LeaseNextInv, PTL DEF LockSpec, NoTheft

-----------------------------------------------------------------------------
(***************************************************************************)
(* SlotUpdate: the slot that GRUB falls back to.                           *)
(***************************************************************************)

(* What an arm recorded: the slot it ran on and the other one.             *)
Told(p) == p # NoPending => p \in [from : Slot, target : Slot] /\ p.target # p.from

(* An update works on the slot that is not the default, and a trial that   *)
(* is confirmed is the one that runs.                                      *)
SlotInv ==
  /\ running \in Slot /\ default \in Slot /\ oneShot \in Slot \cup {NoSlot}
  /\ agent # "idle" => running = default
  /\ Told(pending) /\ Told(readPending)
  /\ DefaultIsKnownGood

LEMMA OtherSlot ==
  ASSUME NEW s \in Slot
  PROVE  Inactive(s) \in Slot /\ Inactive(s) # s /\ \A t \in Slot : t # s => t = Inactive(s)
<1>1. PICK a, b \in Slot : a # b /\ Slot = {a, b}
  BY SlotAssumption
<1>2. \E t \in Slot : t # s
  BY <1>1
<1>3. Inactive(s) \in Slot /\ Inactive(s) # s
  BY <1>2 DEF Inactive
<1>. QED BY <1>1, <1>3

(* The confirmation: two slots, so a trial that is not the old slot is the *)
(* target.                                                                 *)
LEMMA CommitSlot == ASSUME SlotInv, Commit PROVE SlotInv'
<1>1. pending.from \in Slot /\ pending.target \in Slot /\ pending.target # pending.from
  BY DEF SlotInv, Told, Commit
<1>2. pending.target = running
  BY <1>1, OtherSlot DEF SlotInv, Commit
<1>3. \/ default' = default /\ proven' = proven
      \/ default' = running /\ proven' = proven \cup {running}
  BY <1>2 DEF Commit, Committing
<1>4. pending' = NoPending \/ pending' = pending
  BY DEF Commit, Committing
<1>5. running' = running /\ oneShot' = oneShot /\ agent' = agent /\ readPending' = readPending
  BY DEF Commit, Committing
<1>6. Told(pending)'
  BY <1>4 DEF SlotInv, Told
<1>. QED BY <1>3, <1>5, <1>6 DEF SlotInv, Told, DefaultIsKnownGood

LEMMA BootSlot == ASSUME SlotInv, NEW s \in Slot, Boot(s) PROVE SlotInv'
BY DEF SlotInv, Boot, Told, DefaultIsKnownGood

LEMMA UpdateSlot == ASSUME Careful, SlotInv, Run PROVE SlotInv'
<1>0. Inactive(running) \in Slot /\ Inactive(running) # running
  BY OtherSlot DEF SlotInv
<1>1. CASE RunStart
  BY <1>1 DEF SlotInv, RunStart, Told, DefaultIsKnownGood
<1>2. CASE ImageFormat
  BY <1>0, <1>2 DEF SlotInv, ImageFormat, Told, DefaultIsKnownGood
<1>3. CASE ImageExtract \/ ImageSame
  BY <1>3 DEF SlotInv, ImageExtract, ImageSame, Told, DefaultIsKnownGood
<1>4. CASE RunArm
  BY <1>0, <1>4 DEF SlotInv, RunArm, Told, DefaultIsKnownGood
<1>5. CASE RunPending
  BY <1>0, <1>5 DEF SlotInv, RunPending, Told, DefaultIsKnownGood
<1>6. CASE RunSave
  BY <1>6 DEF SlotInv, RunSave, Told, DefaultIsKnownGood
<1>. QED BY <1>1, <1>2, <1>3, <1>4, <1>5, <1>6 DEF Run

LEMMA NextSlot == ASSUME Careful, SlotInv, [SlotNext]_slotVars PROVE SlotInv'
<1>0. Inactive(running) \in Slot /\ Inactive(running) # running
  BY OtherSlot DEF SlotInv
<1>1. CASE SetupGrub
  BY <1>1 DEF SlotInv, SetupGrub, Told, DefaultIsKnownGood
<1>2. CASE Arm
  BY <1>0, <1>2 DEF SlotInv, Arm, Told, DefaultIsKnownGood
<1>3. CASE StillOld \/ Unhealthy
  BY <1>3 DEF SlotInv, StillOld, Unhealthy, Told, DefaultIsKnownGood
<1>4. CASE Reboot \/ HandBoot
  BY <1>0, <1>4, BootSlot DEF SlotInv, Reboot, HandBoot
<1>5. CASE Offer
  BY <1>5 DEF SlotInv, Offer, Told, DefaultIsKnownGood
<1>6. CASE UNCHANGED slotVars
  BY <1>6 DEF SlotInv, slotVars, Told, DefaultIsKnownGood
<1>. QED BY <1>1, <1>2, <1>3, <1>4, <1>5, <1>6, CommitSlot, UpdateSlot DEF SlotNext, Confirm

(* ffn_updated: where no update runs off the default slot, the slot that   *)
(* GRUB falls back to has been seen healthy since it was last written,     *)
(* whatever boots, arms and confirmations happen in between.               *)
THEOREM FallbackIsGood == ASSUME Careful PROVE SlotSpec => []DefaultIsKnownGood
<1>1. SlotInit => SlotInv
  BY DEF SlotInit, SlotInv, Told, DefaultIsKnownGood
<1>2. SlotInv /\ [SlotNext]_slotVars => SlotInv'
  BY NextSlot
<1>3. SlotInv => DefaultIsKnownGood
  BY DEF SlotInv
<1>. QED BY <1>1, <1>2, <1>3, PTL DEF SlotSpec

-----------------------------------------------------------------------------
(***************************************************************************)
(* SampleQueue: who analyses what.                                         *)
(***************************************************************************)

Jobs == [claimed : SUBSET Sample, in : Sample \cup {"none"},
         step : {"idle", "next", "apply", "done", "error"},
         found : {"none", "malware", "benign", "unknown", "error"}]
Rows == [Sample -> {"none", "pending", "analyzing", "done", "error"}]
Got(j) == j.claimed \cup ({j.in} \cap Sample)
Has(d) == Got(work[d])

(* A state of one drainer's work, and the queue that goes with it.         *)
Proper(j, r) ==
  /\ j \in Jobs /\ j.in \notin j.claimed
  /\ j.step \in {"apply", "done", "error"} => j.in \in Sample
  /\ \A s \in Got(j) : r[s] = "analyzing"

(* What a drainer has is marked as being analysed, so that nobody claims   *)
(* it again, and no submission of it goes back to pending.                 *)
QueueInv ==
  /\ work \in [Drainer -> Jobs] /\ row \in Rows
  /\ \A d \in Drainer : Proper(work[d], row)
  /\ \A d, e \in Drainer : d # e => Has(d) \cap Has(e) = {}

LEMMA GotSamples == ASSUME NEW j \in Jobs PROVE Got(j) \subseteq Sample
BY DEF Jobs, Got

LEMMA HandsApart == QueueInv => DetonatedOnce
<1>. SUFFICES ASSUME QueueInv, NEW d \in Drainer, NEW e \in Drainer, d # e
              PROVE  (work[d].claimed \cup {work[d].in}) \cap (work[e].claimed \cup {work[e].in}) \subseteq {"none"}
  BY DEF DetonatedOnce
<1>1. Has(d) \cap Has(e) = {}
  BY DEF QueueInv
<1>2. work[d] \in Jobs /\ work[e] \in Jobs
  BY DEF QueueInv
<1>3. work[d].claimed \subseteq Sample /\ work[e].claimed \subseteq Sample
      /\ work[d].in \in Sample \cup {"none"} /\ work[e].in \in Sample \cup {"none"}
  BY <1>2 DEF Jobs
<1>. QED BY <1>1, <1>3 DEF Has, Got

(* A step of one drainer that leaves alone what the others have.           *)
Apart(d, j, r) ==
  \A e \in Drainer : e # d => Has(e) \cap Got(j) = {} /\ \A s \in Has(e) : r[s] = "analyzing"

LEMMA StepOfOne ==
  ASSUME QueueInv, NEW d \in Drainer, NEW j \in Jobs, work' = [work EXCEPT ![d] = j],
         row' \in Rows, Proper(j, row'), Apart(d, j, row')
  PROVE  QueueInv'
<1>1. work' \in [Drainer -> Jobs] /\ work'[d] = j /\ \A e \in Drainer : e # d => work'[e] = work[e]
  BY DEF QueueInv
<1>2. Has(d)' = Got(j) /\ \A e \in Drainer : e # d => Has(e)' = Has(e)
  BY <1>1 DEF Has
<1>3. ASSUME NEW e \in Drainer PROVE Proper(work[e], row)'
  <2>1. CASE e = d
    BY <1>1, <2>1
  <2>2. CASE e # d
    BY <1>1, <2>2 DEF QueueInv, Proper, Apart, Has
  <2>. QED BY <2>1, <2>2
<1>4. ASSUME NEW e \in Drainer, NEW g \in Drainer, e # g PROVE Has(e)' \cap Has(g)' = {}
  <2>1. CASE e = d
    BY <1>2, <1>4, <2>1 DEF Apart
  <2>2. CASE g = d
    BY <1>2, <1>4, <2>2 DEF Apart
  <2>3. CASE e # d /\ g # d
    BY <1>2, <1>4, <2>3 DEF QueueInv
  <2>. QED BY <2>1, <2>2, <2>3
<1>. QED BY <1>1, <1>3, <1>4 DEF QueueInv

LEMMA ClaimQueue == ASSUME QueueInv, NEW d \in Drainer, Claim(d) PROVE QueueInv'
<1>1. PICK c \in Chosen(Pending) :
        /\ row' = [s \in Sample |-> IF s \in c THEN "analyzing" ELSE row[s]]
        /\ work' = [work EXCEPT ![d] = Between(c)]
  BY DEF Claim
<1>2. c \subseteq Sample /\ \A s \in c : row[s] = "pending"
  BY DEF Chosen, Pending
<1>. DEFINE j == Between(c)
<1>3. work' = [work EXCEPT ![d] = j] /\ j \in Jobs
  BY <1>1, <1>2 DEF Jobs, Between
<1>4. row' \in Rows
  BY <1>1 DEF QueueInv, Rows
<1>5. Got(j) = c
  BY <1>2, QueueAssumption DEF Got, Between
<1>6. Proper(j, row')
  BY <1>1, <1>2, <1>3, <1>5, QueueAssumption DEF Proper, Between
<1>7. Apart(d, j, row')
  <2>1. ASSUME NEW e \in Drainer PROVE \A s \in Has(e) : row[s] = "analyzing" /\ s \in Sample
    BY GotSamples DEF QueueInv, Proper, Has
  <2>. QED BY <1>1, <1>2, <1>5, <2>1 DEF Apart
<1>. HIDE DEF j
<1>. QED BY <1>3, <1>4, <1>6, <1>7, StepOfOne

(* A step that takes nothing and leaves the queue alone.                   *)
LEMMA TakeNothing ==
  ASSUME QueueInv, NEW d \in Drainer, row' = row, NEW j \in Jobs, Got(j) \subseteq Has(d)
  PROVE  Apart(d, j, row') /\ row' \in Rows /\ \A s \in Got(j) : row'[s] = "analyzing"
BY DEF QueueInv, Apart, Proper, Has

LEMMA NoHands == Loafing \in Jobs /\ Got(Loafing) = {} /\ \A r : Proper(Loafing, r)
<1>1. Loafing \in Jobs
  BY DEF Loafing, Jobs
<1>2. Got(Loafing) = {}
  BY QueueAssumption DEF Loafing, Got
<1>. QED BY <1>1, <1>2 DEF Proper, Loafing

LEMMA TakeQueue == ASSUME QueueInv, NEW d \in Drainer, TakeUp(d) PROVE QueueInv'
<1>0. work[d] \in Jobs /\ row' = row /\ work[d].claimed \subseteq Sample
  BY DEF QueueInv, TakeUp, Jobs
<1>3. CASE work[d].claimed = {}
  BY <1>0, <1>3, NoHands, TakeNothing, StepOfOne DEF TakeUp
<1>4. CASE work[d].claimed # {}
  <2>1. PICK s \in work[d].claimed, found \in Definitive \cup {"unknown", "error"} :
          work' = [work EXCEPT ![d] = [claimed |-> @.claimed \ {s}, in |-> s, found |-> found,
                                       step |-> IF found = "error" THEN "error" ELSE "apply"]]
    BY <1>4 DEF TakeUp
  <2>. DEFINE j == [claimed |-> work[d].claimed \ {s}, in |-> s, found |-> found,
                    step |-> IF found = "error" THEN "error" ELSE "apply"]
  <2>2. work' = [work EXCEPT ![d] = j]
    BY <2>1 DEF QueueInv
  <2>3. j \in Jobs
    BY <1>0 DEF Jobs, Definitive
  <2>4. Got(j) \subseteq Has(d) /\ j.in \notin j.claimed /\ j.in \in Sample
    BY <1>0 DEF Got, Has
  <2>. HIDE DEF j
  <2>5. Proper(j, row')
    BY <1>0, <2>3, <2>4, TakeNothing DEF Proper
  <2>. QED BY <1>0, <2>2, <2>3, <2>4, <2>5, TakeNothing, StepOfOne
<1>. QED BY <1>3, <1>4

LEMMA SettleQueue == ASSUME QueueInv, NEW d \in Drainer, Settle(d) PROVE QueueInv'
<1>. DEFINE j == Between(work[d].claimed)
<1>0. work[d] \in Jobs /\ work[d].claimed \subseteq Sample /\ work[d].in \in Sample /\ work[d].in \notin work[d].claimed
  BY DEF QueueInv, Jobs, Settle, Proper
<1>1. row' = [row EXCEPT ![work[d].in] = work[d].step] /\ work' = [work EXCEPT ![d] = j] /\ work[d].step \in {"done", "error"}
  BY DEF Settle
<1>2. j \in Jobs
  BY <1>0 DEF Jobs, Between
<1>3. row' \in Rows
  BY <1>0, <1>1 DEF QueueInv, Rows
<1>4. Got(j) = work[d].claimed
  BY <1>0, QueueAssumption DEF Got, Between
<1>5. work[d].claimed \subseteq Has(d) /\ work[d].in \in Has(d)
  BY <1>0 DEF Has, Got
<1>6. ASSUME NEW s \in Sample, s # work[d].in PROVE row'[s] = row[s]
  BY <1>0, <1>1, <1>6 DEF QueueInv, Rows
<1>7. Proper(j, row')
  <2>1. \A s \in work[d].claimed : row'[s] = "analyzing"
    BY <1>0, <1>5, <1>6 DEF QueueInv, Proper, Has
  <2>. QED BY <1>0, <1>2, <1>4, <2>1, QueueAssumption DEF Proper, Between
<1>8. ASSUME NEW e \in Drainer, e # d
      PROVE  Has(e) \cap work[d].claimed = {} /\ \A s \in Has(e) : row'[s] = "analyzing"
  <2>1. Has(e) \cap Has(d) = {} /\ \A s \in Has(e) : row[s] = "analyzing"
    BY <1>8 DEF QueueInv, Proper, Has
  <2>2. Has(e) \subseteq Sample
    BY GotSamples DEF QueueInv, Has
  <2>. QED BY <1>5, <1>6, <2>1, <2>2
<1>9. Apart(d, j, row')
  BY <1>4, <1>8 DEF Apart
<1>. HIDE DEF j
<1>. QED BY <1>1, <1>2, <1>3, <1>7, <1>9, StepOfOne

(* What a drainer still has after a report, or nothing when it died.       *)
LEMMA LessQueue ==
  ASSUME QueueInv, NEW d \in Drainer, ApplyReport(d) \/ DrainerDies(d) PROVE QueueInv'
<1>0. work[d] \in Jobs /\ row' = row
  BY DEF QueueInv, ApplyReport, DrainerDies
<1>3. CASE DrainerDies(d)
  BY <1>0, <1>3, NoHands, TakeNothing, StepOfOne DEF DrainerDies
<1>4. CASE ApplyReport(d)
  <2>. DEFINE j == [work[d] EXCEPT !.step = "done"]
  <2>1. work' = [work EXCEPT ![d] = j] /\ work[d].step = "apply"
    BY <1>4 DEF ApplyReport, QueueInv
  <2>2. j \in Jobs /\ j.claimed = work[d].claimed /\ j.in = work[d].in
    BY <1>0 DEF Jobs
  <2>3. Got(j) = Has(d)
    BY <2>2 DEF Has, Got
  <2>4. j.in \in Sample /\ j.in \notin j.claimed
    BY <2>1, <2>2 DEF QueueInv, Proper
  <2>. HIDE DEF j
  <2>5. Proper(j, row')
    BY <1>0, <2>2, <2>3, <2>4, TakeNothing DEF Proper
  <2>. QED BY <1>0, <2>1, <2>2, <2>3, <2>5, TakeNothing, StepOfOne
<1>. QED BY <1>3, <1>4

LEMMA SubmitQueue ==
  ASSUME QueueInv, work' = work,
         row' = row \/ \E s \in Sample : row[s] # "analyzing" /\ row' = [row EXCEPT ![s] = "pending"]
  PROVE  QueueInv'
<1>1. row' \in Rows
  BY DEF QueueInv, Rows
<1>2. \A s \in Sample : row[s] = "analyzing" => row'[s] = "analyzing"
  BY DEF QueueInv, Rows
<1>3. ASSUME NEW d \in Drainer PROVE Proper(work[d], row)'
  <2>1. Got(work[d]) \subseteq Sample /\ Proper(work[d], row)
    BY GotSamples DEF QueueInv
  <2>. QED BY <1>2, <2>1 DEF Proper
<1>. QED BY <1>1, <1>3 DEF QueueInv, Has

LEMMA NextQueue == ASSUME QueueInv, [QueueNext]_queueVars PROVE QueueInv'
<1>1. ASSUME NEW s \in Sample, SubmitSample(s) PROVE QueueInv'
  BY <1>1, SubmitQueue DEF SubmitSample, Queueable
<1>2. ASSUME NEW s \in Sample, Feed(s) \/ ReportAges(s) PROVE QueueInv'
  BY <1>2, SubmitQueue DEF Feed, ReportAges
<1>3. CASE UNCHANGED queueVars
  BY <1>3, SubmitQueue DEF queueVars
<1>. QED BY <1>1, <1>2, <1>3, ClaimQueue, TakeQueue, SettleQueue, LessQueue DEF QueueNext, Drain

(* process_pending: a sample is never in the hands of two drainers, for    *)
(* any number of samples, drainers, submissions and deaths.                *)
THEOREM OneDrainer == QueueSpec => []DetonatedOnce
<1>1. QueueInit => QueueInv
  BY NoHands DEF QueueInit, QueueInv, Has, Rows
<1>2. QueueInv /\ [QueueNext]_queueVars => QueueInv'
  BY NextQueue
<1>. QED BY <1>1, <1>2, HandsApart, PTL DEF QueueSpec

-----------------------------------------------------------------------------
(***************************************************************************)
(* Watchdog: the N-strike rule.                                            *)
(***************************************************************************)

Round == PetEvery + Latency   \* the longest time from one check to the next

(* The time since the last pet, if the daemon lives: so many rounds as     *)
(* there were strikes, the sleep so far and the delay of the check.        *)
DogInv ==
  /\ timer \in 0 .. HwTimeout + 1 /\ strikes \in Nat /\ sleep \in 0 .. PetEvery /\ late \in 0 .. Latency
  /\ daemon \in {"run", "down"} /\ killed \in BOOLEAN
  /\ daemon = "run" => timer + strikes * Round + (PetEvery - sleep) + late >= HwTimeout
  /\ daemon = "down" /\ ~killed => timer = Disarmed

LEMMA DogNumbers ==
  /\ HwTimeout \in Nat \ {0} /\ PetEvery \in Nat \ {0} /\ Latency \in Nat /\ Round \in Nat /\ Round = PetEvery + Latency
  /\ StrikesToBite \in Nat /\ Disarmed = HwTimeout + 1
<1>1. PetEvery \in Nat \ {0}
  BY DogAssumption DEF PetEvery
<1>. QED BY <1>1, DogAssumption DEF Round, Disarmed

LEMMA OneRoundMore ==
  ASSUME NEW s \in Nat, NEW q \in Nat
  PROVE  s * q \in Nat /\ (s + 1) * q = s * q + q /\ 0 * q = 0
OBVIOUS

LEMMA FewerRounds ==
  ASSUME NEW s \in Nat, NEW n \in Nat, NEW q \in Nat, s < n
  PROVE  s * q + q <= n * q
<1>1. n - (s + 1) \in Nat /\ n = (s + 1) + (n - (s + 1))
  OBVIOUS
<1>2. PICK d \in Nat : n = (s + 1) + d
  BY <1>1
<1>3. n * q = (s + 1) * q + d * q
  BY <1>2
<1>4. (s + 1) * q = s * q + q /\ s * q \in Nat /\ d * q \in Nat
  OBVIOUS
<1>. QED BY <1>3, <1>4

LEMMA DogNextInv == ASSUME DogInv, [DogNext]_dogVars PROVE DogInv'
<1>0. strikes \in Nat /\ strikes + 1 \in Nat /\ strikes * Round \in Nat
      /\ (strikes + 1) * Round = strikes * Round + Round /\ 0 * Round = 0
  BY DogNumbers, OneRoundMore DEF DogInv
<1>1. CASE Turn
  <2>1. daemon = "run" /\ daemon' = "run" /\ sleep = 0 /\ sleep' = PetEvery /\ late' = 0 /\ killed' = killed
    BY <1>1 DEF Turn
  <2>2. \/ timer' = HwTimeout /\ strikes' = 0
        \/ timer' = timer /\ strikes' = strikes + 1
    BY <1>1 DEF Turn
  <2>3. strikes' \in Nat /\ timer' \in 0 .. HwTimeout + 1 /\ sleep' \in 0 .. PetEvery /\ late' \in 0 .. Latency
    BY <2>1, <2>2, DogNumbers DEF DogInv
  <2>4. timer + strikes * Round + PetEvery + late >= HwTimeout /\ late <= Latency /\ late \in Nat /\ timer \in Nat
    BY <2>1, DogNumbers DEF DogInv
  <2>5. timer' + strikes' * Round + (PetEvery - sleep') + late' >= HwTimeout
    <3>1. CASE timer' = HwTimeout /\ strikes' = 0
      BY <1>0, <2>1, <3>1, DogNumbers
    <3>2. CASE timer' = timer /\ strikes' = strikes + 1
      <4>1. strikes' * Round = strikes * Round + Round
        BY <1>0, <3>2
      <4>. QED BY <1>0, <2>1, <2>4, <3>2, <4>1, DogNumbers
    <3>. QED BY <2>2, <3>1, <3>2
  <2>6. PetEvery' = PetEvery /\ Round' = Round
    BY DEF PetEvery, Round
  <2>. QED BY <2>1, <2>3, <2>5, <2>6 DEF DogInv
<1>2. CASE StopDog
  BY <1>2, DogNumbers DEF StopDog, DogInv
<1>3. CASE KillDog
  BY <1>3 DEF KillDog, DogInv
<1>4. CASE StartDog
  <2>1. /\ daemon' = "run" /\ timer' = HwTimeout /\ sleep' = 0 /\ strikes' = 0 /\ late' = 0 /\ killed' = FALSE
    BY <1>4 DEF StartDog
  <2>2. timer' + strikes' * Round + (PetEvery - sleep') + late' >= HwTimeout
    BY <1>0, <2>1, DogNumbers
  <2>3. timer' \in 0 .. HwTimeout + 1 /\ strikes' \in Nat /\ sleep' \in 0 .. PetEvery /\ late' \in 0 .. Latency
    BY <2>1, DogNumbers
  <2>. QED BY <2>1, <2>2, <2>3 DEF DogInv
<1>5. CASE Mood
  BY <1>5 DEF Mood, DogInv
<1>6. CASE Pass
  <2>1. /\ timer \in 1 .. HwTimeout + 1 /\ UNCHANGED <<daemon, strikes, killed>>
        /\ timer' = IF timer = Disarmed THEN timer ELSE timer - 1
    BY <1>6 DEF Pass, DogInv, Reset
  <2>2. CASE daemon = "down"
    <3>1. timer' \in 0 .. HwTimeout + 1 /\ sleep' \in 0 .. PetEvery /\ late' \in 0 .. Latency
      BY <1>6, <2>1, <2>2, DogNumbers DEF Pass, DogInv
    <3>. QED BY <2>1, <2>2, <3>1 DEF DogInv
  <2>3. CASE daemon = "run"
    <3>1. \/ sleep > 0 /\ sleep' = sleep - 1 /\ late' = late
          \/ sleep = 0 /\ sleep' = 0 /\ late < Latency /\ late' = late + 1
      BY <1>6, <2>3, DogNumbers DEF Pass, DogInv
    <3>2. timer' \in 0 .. HwTimeout + 1 /\ sleep' \in 0 .. PetEvery /\ late' \in 0 .. Latency
      BY <2>1, <3>1, DogNumbers DEF DogInv
    <3>3. timer' + strikes * Round + (PetEvery - sleep') + late' >= HwTimeout
      BY <1>0, <2>1, <2>3, <3>1, DogNumbers DEF DogInv
    <3>. QED BY <2>1, <2>3, <3>2, <3>3 DEF DogInv
  <2>. QED BY <2>2, <2>3 DEF DogInv
<1>7. CASE UNCHANGED dogVars
  BY <1>7 DEF dogVars, DogInv
<1>. QED BY <1>1, <1>2, <1>3, <1>4, <1>5, <1>6, <1>7 DEF DogNext

(* serve: a box whose daemon lives is reset only after StrikesToBite       *)
(* unhealthy checks in a row, whenever so many rounds of sleep and check   *)
(* fit into the hardware's timeout (3 * 15 s of 60 s by default, which     *)
(* leaves each check 5 s).                                                 *)
THEOREM StrikesFirst ==
  ASSUME StrikesToBite * (PetEvery + Latency) < HwTimeout
  PROVE  DogSpec => []NStrikes
<1>1. DogInit => DogInv
  <2>. SUFFICES ASSUME DogInit PROVE DogInv
    OBVIOUS
  <2>1. strikes * Round = 0
    BY DogNumbers, OneRoundMore DEF DogInit
  <2>2. timer + strikes * Round + (PetEvery - sleep) + late >= HwTimeout
    BY <2>1, DogNumbers DEF DogInit
  <2>3. timer \in 0 .. HwTimeout + 1 /\ strikes \in Nat /\ sleep \in 0 .. PetEvery /\ late \in 0 .. Latency
    BY DogNumbers DEF DogInit
  <2>. QED BY <2>2, <2>3 DEF DogInit, DogInv
<1>2. DogInv /\ [DogNext]_dogVars => DogInv'
  BY DogNextInv
<1>3. DogInv => NStrikes
  <2>. SUFFICES ASSUME DogInv, timer = 0, ~killed, strikes < StrikesToBite PROVE FALSE
    BY DogNumbers DEF NStrikes, Reset, DogInv
  <2>1. daemon = "run"
    BY DogNumbers DEF DogInv
  <2>2. strikes * Round + Round <= StrikesToBite * Round
    BY DogNumbers, FewerRounds DEF DogInv
  <2>3. strikes * Round \in Nat /\ StrikesToBite * Round \in Nat /\ StrikesToBite * Round < HwTimeout
    BY DogNumbers, OneRoundMore DEF DogInv, Round
  <2>4. 0 + strikes * Round + (PetEvery - sleep) + late >= HwTimeout
    BY <2>1 DEF DogInv
  <2>. QED BY <2>2, <2>3, <2>4, DogNumbers DEF DogInv
<1>. QED BY <1>1, <1>2, <1>3, PTL DEF DogSpec

(***************************************************************************)
(* PatchInstall: an install is all or nothing.                             *)
(***************************************************************************)

Actions == {"check", "stage", "install", "rollback", "recover"}
Moving  == {"stop", "write", "start", "record", "close"}
Known   == Releases \cup {None}
Patched == Touches[journal.release]

PatchJobs == [id : JobId \cup {NoId}, action : Actions, expected : Known,
         status : {"queued", "running", "succeeded", "failed"}]
Workers == [id : JobId \cup {NoId}, pc : {"none", "staged", "restore"} \cup Actions \cup Moving,
            todo : SUBSET File, undo : BOOLEAN]

PatchTypes ==
  /\ files \in [File -> Known \cup {Other}] /\ intended \in [File -> Known]
  /\ serviceUp \in BOOLEAN /\ installed \in Known /\ package \in Known /\ offered \in Releases
  /\ journal \in [phase : {"none", "prepared", "committed", "restoring"},
                  release : Known, previous : Known, backup : [File -> Known \cup {Other}]]
  /\ job \in PatchJobs /\ worker \in Workers /\ waiting \subseteq JobId

(* What the journal says while there is one: the release on record is the  *)
(* one before it or itself, and what is intended for the files that it     *)
(* touches goes with that.                                                 *)
JournalSays ==
  journal.phase # "none" =>
    /\ journal.release \in Releases /\ journal.previous < journal.release
    /\ installed \in {journal.previous, journal.release}
    /\ journal.phase = "committed" => installed = journal.release
    /\ \A f \in Patched : /\ journal.backup[f] # Other
                          /\ intended[f] = IF installed = journal.release THEN journal.release ELSE journal.backup[f]
    /\ \A f \in File \ Patched : files[f] \in {intended[f], Other}

(* What a worker is about, and why it may.                                 *)
Purpose ==
  /\ worker.pc \in Actions => job.action = worker.pc /\ ~worker.undo
  /\ worker.pc = "staged" => job.action = "stage"
  /\ worker.pc = "restore" =>
       \/ job.action = "rollback" /\ journal.phase = "committed"
       \/ job.action = "recover" /\ journal.phase \in {"prepared", "restoring"}
       \/ job.action = "install" /\ worker.undo /\ journal.phase = "prepared"
  /\ worker.pc \in Moving =>
       \/ /\ job.action = "install" /\ ~worker.undo /\ journal.phase = "prepared"
          /\ journal.release = job.expected
          /\ worker.pc # "close" => installed = journal.previous
       \/ /\ journal.phase = "restoring"
          /\ job.action \in {"rollback", "recover"} \/ (job.action = "install" /\ worker.undo)

(* How far it is.                                                          *)
Progress ==
  /\ worker.pc \in Moving \cup {"restore"} /\ job.action # "recover" => \A f \in Patched : files[f] # Other
  /\ worker.pc = "write" => worker.todo \subseteq Patched /\ \A f \in Patched \ worker.todo : files[f] = Wanted(f)
  /\ worker.pc \in {"start", "record", "close"} => \A f \in Patched : files[f] = Wanted(f)
  /\ worker.pc \in {"record", "close"} => serviceUp
  /\ worker.pc = "close" => installed = IF Restoring THEN journal.previous ELSE journal.release

PatchInv == PatchTypes /\ JournalSays /\ Purpose /\ Progress /\ AllOrNothing

LEMMA IdleFacts == Idle \in Workers /\ Idle.pc = "none" /\ Idle.undo = FALSE
  BY DEF Idle, Workers, NoId

(* preflight: a release that fits is newer and finds its baseline.         *)
LEMMA FitsFacts ==
  ASSUME PatchInv, Fits(package)
  PROVE  /\ package \in Releases /\ installed < package /\ installed # package
         /\ \A f \in Touches[package] : files[f] # Other
<1>1. package \in Releases
  BY DEF Fits, PatchInv, PatchTypes, Known
<1>2. package \in Nat /\ installed \in Nat /\ installed < package
  BY <1>1, ReleasesAssumption DEF Fits, PatchInv, PatchTypes, Known, None
<1>3. ASSUME NEW f \in Touches[package] PROVE files[f] # Other
  <2>1. f \in File /\ Before[package][f] \in Releases \cup {None}
    BY <1>1, ReleasesAssumption
  <2>2. Before[package][f] # Other
    BY <2>1, ReleasesAssumption DEF Other, None
  <2> QED BY <2>2 DEF Fits
<1> QED BY <1>1, <1>2, <1>3

(* Where a worker can go.                                                  *)
LEMMA GotoFacts ==
  ASSUME worker \in Workers, NEW p \in {"staged", "restore"} \cup Moving, Goto(p)
  PROVE  worker' \in Workers /\ worker'.pc = p /\ worker'.todo = worker.todo /\ worker'.undo = worker.undo
  BY DEF Goto, Workers, Actions, Moving

LEMMA FinishFacts ==
  ASSUME job \in PatchJobs, NEW s \in {"succeeded", "failed"}, Finish(s)
  PROVE  /\ worker' \in Workers /\ worker'.pc = "none"
         /\ job' \in PatchJobs /\ job'.action = job.action /\ job'.expected = job.expected
  BY DEF Finish, PatchJobs, Workers, Idle, NoId

LEMMA FailFacts ==
  ASSUME job \in PatchJobs, worker \in Workers, Fail
  PROVE  /\ worker' \in Workers /\ job' \in PatchJobs
         /\ job'.action = job.action /\ job'.expected = job.expected
         /\ IF Restoring THEN worker'.pc = "none" ELSE worker'.pc = "restore" /\ worker'.undo = TRUE
<1>1. CASE Restoring
  BY <1>1, FinishFacts DEF Fail
<1>2. CASE ~Restoring
  BY <1>2 DEF Fail, Workers
<1> QED BY <1>1, <1>2

LEMMA PatchInitInv == PatchInit => PatchInv
  BY ReleasesAssumption
  DEF PatchInit, PatchInv, PatchTypes, JournalSays, Purpose, Progress, AllOrNothing, Quiet, NoJournal, Pristine,
      Idle, PatchJobs, Workers, Known, Actions, Moving, Other, None, NoId

LEMMA SubmitKeeps ==
  ASSUME PatchInv, NEW action \in Actions, NEW expected \in Known, Submit(action, expected)
  PROVE  PatchInv'
<1>1. PatchTypes'
  BY ReleasesAssumption DEF Submit, PatchInv, PatchTypes, Known, Actions, Moving, Wanted,
     Restoring, Idle, NoId, PatchJobs, Workers
<1>2. JournalSays'
  BY <1>1, ReleasesAssumption DEF Submit, PatchInv, PatchTypes, Known, Actions, Moving,
     JournalSays, Purpose, Progress, AllOrNothing, Quiet, Restoring, Patched, Wanted, Idle,
     Workers, PatchJobs
<1>3. Purpose'
  BY <1>1, ReleasesAssumption DEF Submit, PatchInv, PatchTypes, Known, Actions, Moving,
     JournalSays, Purpose, Restoring, Quiet, Idle, Workers, PatchJobs
<1>4. Progress'
  BY <1>1, ReleasesAssumption DEF Submit, PatchInv, PatchTypes, Known, Actions, Moving,
     JournalSays, Purpose, Progress, Restoring, Patched, Wanted, Quiet, Idle, Workers, PatchJobs
<1>5. AllOrNothing'
  BY <1>1, ReleasesAssumption DEF Submit, PatchInv, PatchTypes, Known, Actions, Moving,
     JournalSays, Purpose, Progress, AllOrNothing, Quiet, Restoring, Patched, Wanted, Idle,
     Workers, PatchJobs
<1> QED BY <1>1, <1>2, <1>3, <1>4, <1>5 DEF PatchInv

LEMMA BeginKeeps == ASSUME PatchInv, Begin PROVE PatchInv'
<1>1. PatchTypes'
  <2>1. worker' \in Workers /\ job' \in PatchJobs /\ waiting' \subseteq JobId
    <3>1. PICK id \in waiting : \/ UNCHANGED <<job, worker>>
                               \/ /\ job' = [job EXCEPT !.status = "running"]
                                  /\ worker' = [Idle EXCEPT !.id = id, !.pc = job.action]
      BY DEF Begin
    <3>2. id \in JobId
      BY DEF PatchInv, PatchTypes
    <3> QED BY <3>1, <3>2 DEF Begin, PatchInv, PatchTypes, PatchJobs, Workers, Idle, NoId
  <2> QED BY <2>1 DEF Begin, PatchInv, PatchTypes
<1>2. JournalSays'
  BY <1>1, ReleasesAssumption DEF Begin, PatchInv, PatchTypes, Known, Actions, Moving, JournalSays,
     Purpose, Progress, AllOrNothing, Quiet, Restoring, Patched, Wanted, Idle, Workers, PatchJobs
<1>3. Purpose'
  <2>1. \/ UNCHANGED <<job, worker>>
        \/ job'.action = job.action /\ worker'.pc = job.action /\ worker'.undo = FALSE
    BY DEF Begin, PatchInv, PatchTypes, PatchJobs, Idle
  <2> QED BY <2>1 DEF Begin, PatchInv, PatchTypes, PatchJobs, Purpose, Actions, Moving
<1>4. Progress'
  BY <1>1, ReleasesAssumption DEF Begin, PatchInv, PatchTypes, Known, Actions, Moving, JournalSays,
     Purpose, Progress, Restoring, Patched, Wanted, Quiet, Idle, Workers, PatchJobs
<1>5. AllOrNothing'
  BY <1>1, ReleasesAssumption DEF Begin, PatchInv, PatchTypes, Known, Actions, Moving, JournalSays,
     Purpose, Progress, AllOrNothing, Quiet, Restoring, Patched, Wanted, Idle, Workers, PatchJobs
<1> QED BY <1>1, <1>2, <1>3, <1>4, <1>5 DEF PatchInv

LEMMA CheckKeeps == ASSUME PatchInv, Check PROVE PatchInv'
<1>1. worker' \in Workers /\ job' \in PatchJobs /\ job'.action = job.action /\ job'.expected = job.expected
  BY FinishFacts DEF Check, Kept, PatchInv, PatchTypes, Moving, PatchJobs, Workers
<1>2. worker'.pc = "none"
  BY FinishFacts DEF Check, Kept, PatchInv, PatchTypes, Moving, Workers, Patched
<1>3. PatchTypes'
  BY <1>1, <1>2, ReleasesAssumption DEF Check, Kept, PatchInv, PatchTypes, Known, Actions, Moving,
     Wanted, Restoring
<1>4. JournalSays'
  BY <1>1, <1>2, <1>3, ReleasesAssumption DEF Check, Kept, PatchInv, PatchTypes, Known, Actions,
     Moving, JournalSays, Purpose, Progress, AllOrNothing, Quiet, Restoring, Patched, Wanted
<1>5. Purpose'
  BY <1>1, <1>2, <1>3, ReleasesAssumption DEF Check, Kept, PatchInv, PatchTypes, Known, Actions,
     Moving, JournalSays, Purpose, Restoring, Quiet
<1>6. Progress'
  BY <1>1, <1>2, <1>3, ReleasesAssumption DEF Check, Kept, PatchInv, PatchTypes, Known, Actions,
     Moving, JournalSays, Purpose, Progress, Restoring, Patched, Wanted, Quiet
<1>7. AllOrNothing'
  BY <1>1, <1>2, <1>3, ReleasesAssumption DEF Check, Kept, PatchInv, PatchTypes, Known, Actions,
     Moving, JournalSays, Purpose, Progress, AllOrNothing, Quiet, Restoring, Patched, Wanted
<1> QED BY <1>3, <1>4, <1>5, <1>6, <1>7 DEF PatchInv

LEMMA StageKeeps == ASSUME PatchInv, Stage PROVE PatchInv'
<1>1. worker' \in Workers /\ job' \in PatchJobs /\ job'.action = job.action /\ job'.expected = job.expected
  BY FinishFacts, GotoFacts DEF Stage, Kept, Fits, PatchInv, PatchTypes, Moving, PatchJobs, Workers
<1>2. \/ worker'.pc = "none" /\ UNCHANGED package
      \/ worker'.pc = "staged" /\ package' = offered
  BY FinishFacts, GotoFacts DEF Stage, Kept, Fits, PatchInv, PatchTypes, Moving, Workers, Patched
<1>3. PatchTypes'
  BY <1>1, <1>2, ReleasesAssumption DEF Stage, Kept, Fits, PatchInv, PatchTypes, Known, Actions,
     Moving, Wanted, Restoring
<1>4. JournalSays'
  BY <1>1, <1>2, <1>3, ReleasesAssumption DEF Stage, Kept, Fits, PatchInv, PatchTypes, Known,
     Actions, Moving, JournalSays, Purpose, Progress, AllOrNothing, Quiet, Restoring, Patched,
     Wanted
<1>5. Purpose'
  BY <1>1, <1>2, <1>3, ReleasesAssumption DEF Stage, Kept, Fits, PatchInv, PatchTypes, Known,
     Actions, Moving, JournalSays, Purpose, Restoring, Quiet
<1>6. Progress'
  BY <1>1, <1>2, <1>3, ReleasesAssumption DEF Stage, Kept, Fits, PatchInv, PatchTypes, Known,
     Actions, Moving, JournalSays, Purpose, Progress, Restoring, Patched, Wanted, Quiet
<1>7. AllOrNothing'
  BY <1>1, <1>2, <1>3, ReleasesAssumption DEF Stage, Kept, Fits, PatchInv, PatchTypes, Known,
     Actions, Moving, JournalSays, Purpose, Progress, AllOrNothing, Quiet, Restoring, Patched,
     Wanted
<1> QED BY <1>3, <1>4, <1>5, <1>6, <1>7 DEF PatchInv

LEMMA StagedKeeps == ASSUME PatchInv, Staged PROVE PatchInv'
<1>1. worker' \in Workers /\ job' \in PatchJobs /\ job'.action = job.action /\ job'.expected = job.expected
  BY FinishFacts DEF Staged, Kept, PatchInv, PatchTypes, Moving, PatchJobs, Workers
<1>2. worker'.pc = "none"
  BY FinishFacts DEF Staged, Kept, PatchInv, PatchTypes, Moving, Workers, Patched
<1>3. PatchTypes'
  BY <1>1, <1>2, ReleasesAssumption DEF Staged, Kept, PatchInv, PatchTypes, Known, Actions, Moving,
     Wanted, Restoring
<1>4. JournalSays'
  BY <1>1, <1>2, <1>3, ReleasesAssumption DEF Staged, Kept, PatchInv, PatchTypes, Known, Actions,
     Moving, JournalSays, Purpose, Progress, AllOrNothing, Quiet, Restoring, Patched, Wanted
<1>5. Purpose'
  BY <1>1, <1>2, <1>3, ReleasesAssumption DEF Staged, Kept, PatchInv, PatchTypes, Known, Actions,
     Moving, JournalSays, Purpose, Restoring, Quiet
<1>6. Progress'
  BY <1>1, <1>2, <1>3, ReleasesAssumption DEF Staged, Kept, PatchInv, PatchTypes, Known, Actions,
     Moving, JournalSays, Purpose, Progress, Restoring, Patched, Wanted, Quiet
<1>7. AllOrNothing'
  BY <1>1, <1>2, <1>3, ReleasesAssumption DEF Staged, Kept, PatchInv, PatchTypes, Known, Actions,
     Moving, JournalSays, Purpose, Progress, AllOrNothing, Quiet, Restoring, Patched, Wanted
<1> QED BY <1>3, <1>4, <1>5, <1>6, <1>7 DEF PatchInv

LEMMA PrepareKeeps == ASSUME PatchInv, Prepare PROVE PatchInv'
<1>1. worker' \in Workers /\ job' \in PatchJobs /\ job'.action = job.action /\ job'.expected = job.expected
  BY FinishFacts, GotoFacts DEF Prepare, Kept, Installable, Fits, None, Other, PatchInv,
     PatchTypes, Moving, PatchJobs, Workers
<1>2. \/ worker'.pc = "none" /\ UNCHANGED journal
      \/ /\ worker'.pc = "stop" /\ worker'.undo = worker.undo
         /\ job.expected = package /\ Installable
         /\ journal' = [phase |-> "prepared", release |-> package, previous |-> installed, backup |-> files]
  BY FinishFacts, GotoFacts DEF Prepare, Kept, Installable, Fits, None, Other, PatchInv,
     PatchTypes, Moving, Workers, Patched
<1>3. PatchTypes'
  BY <1>1, <1>2, ReleasesAssumption DEF Prepare, Kept, Installable, Fits, None, Other, PatchInv,
     PatchTypes, Known, Actions, Moving, Wanted, Restoring
<1>4. JournalSays'
  <2>1. CASE worker'.pc = "none" /\ UNCHANGED journal
    BY <2>1 DEF Prepare, Kept, PatchInv, JournalSays, Patched
  <2>2. CASE ~(worker'.pc = "none" /\ UNCHANGED journal)
    <3>1. /\ package \in Releases /\ installed < package /\ installed # package /\ Quiet(journal.phase)
          /\ \A f \in Touches[package] : files[f] # Other
      BY <1>2, <2>2, FitsFacts DEF Installable
    <3>2. /\ journal'.phase = "prepared" /\ journal'.release = package /\ journal'.previous = installed
          /\ journal'.backup = files
      BY <1>2, <2>2
    <3>3. \A f \in File : files[f] \in {intended[f], Other}
      BY <3>1 DEF PatchInv, AllOrNothing
    <3>4. Touches[package] \subseteq File
      BY <3>1, ReleasesAssumption
    <3> QED BY <3>1, <3>2, <3>3, <3>4 DEF Prepare, Kept, JournalSays, Patched
  <2> QED BY <2>1, <2>2
<1>5. Purpose'
  BY <1>1, <1>2, <1>3, ReleasesAssumption DEF Prepare, Kept, Installable, Fits, None, Other,
     PatchInv, PatchTypes, Known, Actions, Moving, JournalSays, Purpose, Restoring, Quiet
<1>6. Progress'
  <2>1. CASE worker'.pc = "none" /\ UNCHANGED journal
    BY <2>1 DEF Prepare, Kept, PatchInv, Progress, Patched, Moving
  <2>2. CASE ~(worker'.pc = "none" /\ UNCHANGED journal)
    <3>1. /\ package \in Releases /\ installed < package /\ installed # package /\ Quiet(journal.phase)
          /\ \A f \in Touches[package] : files[f] # Other
      BY <1>2, <2>2, FitsFacts DEF Installable
    <3>2. /\ journal'.phase = "prepared" /\ journal'.release = package /\ journal'.previous = installed
          /\ journal'.backup = files
      BY <1>2, <2>2
    <3> QED BY <1>2, <2>2, <3>1, <3>2 DEF Prepare, Kept, Progress, Patched, Moving
  <2> QED BY <2>1, <2>2
<1>7. AllOrNothing'
  BY <1>1, <1>2, <1>3, ReleasesAssumption DEF Prepare, Kept, Installable, Fits, None, Other,
     PatchInv, PatchTypes, Known, Actions, Moving, JournalSays, Purpose, Progress, AllOrNothing,
     Quiet, Restoring, Patched, Wanted
<1> QED BY <1>3, <1>4, <1>5, <1>6, <1>7 DEF PatchInv

LEMMA StopKeeps == ASSUME PatchInv, Stop PROVE PatchInv'
<1>1. worker' \in Workers /\ job' \in PatchJobs /\ job'.action = job.action /\ job'.expected = job.expected
  <2>1. CASE worker' = [worker EXCEPT !.pc = "write", !.todo = Touches[journal.release]] /\ UNCHANGED job
    <3>1. Touches[journal.release] \subseteq File
      BY ReleasesAssumption DEF Stop, PatchInv, Purpose, JournalSays, Moving
    <3> QED BY <2>1, <3>1 DEF PatchInv, PatchTypes, Workers, Moving
  <2> QED BY <2>1, FailFacts DEF Stop, PatchInv, PatchTypes
<1>2. \/ worker'.pc = "write" /\ worker'.undo = worker.undo /\ worker'.todo = Patched /\ serviceUp' = FALSE
      \/ Restoring /\ worker'.pc = "none" /\ serviceUp' \in {serviceUp, FALSE}
      \/ ~Restoring /\ worker'.pc = "restore" /\ worker'.undo = TRUE /\ serviceUp' \in {serviceUp, FALSE}
  BY FailFacts DEF Stop, Fault, Kept, PatchInv, PatchTypes, Moving, Workers, Patched
<1>3. PatchTypes'
  BY <1>1, <1>2, ReleasesAssumption DEF Stop, Fault, Kept, PatchInv, PatchTypes, Known, Actions,
     Moving, Wanted, Restoring
<1>4. JournalSays'
  BY <1>1, <1>2, <1>3, ReleasesAssumption DEF Stop, Fault, Kept, PatchInv, PatchTypes, Known,
     Actions, Moving, JournalSays, Purpose, Progress, AllOrNothing, Quiet, Restoring, Patched,
     Wanted
<1>5. Purpose'
  BY <1>1, <1>2, <1>3, ReleasesAssumption DEF Stop, Fault, Kept, PatchInv, PatchTypes, Known,
     Actions, Moving, JournalSays, Purpose, Restoring, Quiet
<1>6. Progress'
  BY <1>1, <1>2, <1>3, ReleasesAssumption DEF Stop, Fault, Kept, PatchInv, PatchTypes, Known,
     Actions, Moving, JournalSays, Purpose, Progress, Restoring, Patched, Wanted, Quiet
<1>7. AllOrNothing'
  BY <1>1, <1>2, <1>3, ReleasesAssumption DEF Stop, Fault, Kept, PatchInv, PatchTypes, Known,
     Actions, Moving, JournalSays, Purpose, Progress, AllOrNothing, Quiet, Restoring, Patched,
     Wanted
<1> QED BY <1>3, <1>4, <1>5, <1>6, <1>7 DEF PatchInv

LEMMA ReplaceFileKeeps == ASSUME PatchInv, ReplaceFile PROVE PatchInv'
<1>1. worker' \in Workers /\ job' \in PatchJobs /\ job'.action = job.action /\ job'.expected = job.expected
  <2>1. CASE \E f \in worker.todo : worker' = [worker EXCEPT !.todo = @ \ {f}] /\ UNCHANGED job
    BY <2>1 DEF PatchInv, PatchTypes, Workers
  <2> QED BY <2>1, FailFacts, GotoFacts DEF ReplaceFile, PatchInv, PatchTypes, Moving
<1>2. \/ /\ worker'.pc = "write" /\ worker'.undo = worker.undo
         /\ \E f \in worker.todo : worker'.todo = worker.todo \ {f} /\ files' = [files EXCEPT ![f] = Wanted(f)]
      \/ UNCHANGED files /\ Restoring /\ worker'.pc = "none"
      \/ UNCHANGED files /\ ~Restoring /\ worker'.pc = "restore" /\ worker'.undo = TRUE
      \/ UNCHANGED files /\ worker.todo = {} /\ worker'.pc = "start" /\ worker'.undo = worker.undo
  BY FailFacts, GotoFacts DEF ReplaceFile, Fault, Kept, PatchInv, PatchTypes, Moving, Workers,
     Patched
<1>3. PatchTypes'
  BY <1>1, <1>2, ReleasesAssumption DEF ReplaceFile, Fault, Kept, PatchInv, PatchTypes, Known,
     Actions, Moving, Wanted, Restoring
<1>4. JournalSays'
  BY <1>1, <1>2, <1>3, ReleasesAssumption DEF ReplaceFile, Fault, Kept, PatchInv, PatchTypes,
     Known, Actions, Moving, JournalSays, Purpose, Progress, AllOrNothing, Quiet, Restoring,
     Patched, Wanted
<1>5. Purpose'
  BY <1>1, <1>2, <1>3, ReleasesAssumption DEF ReplaceFile, Fault, Kept, PatchInv, PatchTypes,
     Known, Actions, Moving, JournalSays, Purpose, Restoring, Quiet
<1>6. Progress'
  <2>1. worker.todo \subseteq Patched /\ Patched \subseteq File /\ files \in [File -> Known \cup {Other}]
    BY ReleasesAssumption DEF ReplaceFile, PatchInv, PatchTypes, JournalSays, Purpose, Progress,
       Moving, Patched
  <2>2. UNCHANGED <<journal, serviceUp, installed>> /\ Patched' = Patched /\ Restoring' = Restoring
        /\ \A f \in File : Wanted(f)' = Wanted(f)
    BY DEF ReplaceFile, Patched, Restoring, Wanted
  <2>3. \A f \in Patched : Wanted(f) # Other
    BY ReleasesAssumption DEF ReplaceFile, PatchInv, PatchTypes, JournalSays, Purpose, Moving,
       Patched, Wanted, Other, None
  <2>4. CASE UNCHANGED files
    BY <1>1, <1>2, <2>1, <2>2, <2>4 DEF ReplaceFile, PatchInv, Progress, Moving
  <2>5. ASSUME NEW f \in worker.todo, worker'.todo = worker.todo \ {f}, files' = [files EXCEPT ![f] = Wanted(f)],
               worker'.pc = "write"
        PROVE  Progress'
    <3>1. files'[f] = Wanted(f) /\ \A g \in File \ {f} : files'[g] = files[g]
      BY <2>1, <2>5
    <3> QED BY <1>1, <2>1, <2>2, <2>3, <2>5, <3>1 DEF ReplaceFile, PatchInv, Progress, Moving
  <2> QED BY <1>2, <2>4, <2>5
<1>7. AllOrNothing'
  BY <1>1, <1>2, <1>3, ReleasesAssumption DEF ReplaceFile, Fault, Kept, PatchInv, PatchTypes,
     Known, Actions, Moving, JournalSays, Purpose, Progress, AllOrNothing, Quiet, Restoring,
     Patched, Wanted
<1> QED BY <1>3, <1>4, <1>5, <1>6, <1>7 DEF PatchInv

LEMMA StartKeeps == ASSUME PatchInv, Start PROVE PatchInv'
<1>1. worker' \in Workers /\ job' \in PatchJobs /\ job'.action = job.action /\ job'.expected = job.expected
  BY FailFacts, GotoFacts DEF Start, Fault, Kept, PatchInv, PatchTypes, Moving, PatchJobs, Workers
<1>2. \/ worker'.pc = "record" /\ worker'.undo = worker.undo /\ serviceUp' = TRUE
      \/ UNCHANGED serviceUp /\ Restoring /\ worker'.pc = "none"
      \/ UNCHANGED serviceUp /\ ~Restoring /\ worker'.pc = "restore" /\ worker'.undo = TRUE
  BY FailFacts, GotoFacts DEF Start, Fault, Kept, PatchInv, PatchTypes, Moving, Workers, Patched
<1>3. PatchTypes'
  BY <1>1, <1>2, ReleasesAssumption DEF Start, Fault, Kept, PatchInv, PatchTypes, Known, Actions,
     Moving, Wanted, Restoring
<1>4. JournalSays'
  BY <1>1, <1>2, <1>3, ReleasesAssumption DEF Start, Fault, Kept, PatchInv, PatchTypes, Known,
     Actions, Moving, JournalSays, Purpose, Progress, AllOrNothing, Quiet, Restoring, Patched,
     Wanted
<1>5. Purpose'
  BY <1>1, <1>2, <1>3, ReleasesAssumption DEF Start, Fault, Kept, PatchInv, PatchTypes, Known,
     Actions, Moving, JournalSays, Purpose, Restoring, Quiet
<1>6. Progress'
  BY <1>1, <1>2, <1>3, ReleasesAssumption DEF Start, Fault, Kept, PatchInv, PatchTypes, Known,
     Actions, Moving, JournalSays, Purpose, Progress, Restoring, Patched, Wanted, Quiet
<1>7. AllOrNothing'
  BY <1>1, <1>2, <1>3, ReleasesAssumption DEF Start, Fault, Kept, PatchInv, PatchTypes, Known,
     Actions, Moving, JournalSays, Purpose, Progress, AllOrNothing, Quiet, Restoring, Patched,
     Wanted
<1> QED BY <1>3, <1>4, <1>5, <1>6, <1>7 DEF PatchInv

LEMMA RecordStateKeeps == ASSUME PatchInv, RecordState PROVE PatchInv'
<1>1. worker' \in Workers /\ job' \in PatchJobs /\ job'.action = job.action /\ job'.expected = job.expected
  BY GotoFacts DEF RecordState, Kept, PatchInv, PatchTypes, Moving, PatchJobs, Workers
<1>2. worker'.pc = "close" /\ worker'.undo = worker.undo
  BY GotoFacts DEF RecordState, Kept, PatchInv, PatchTypes, Moving, Workers, Patched
<1>3. PatchTypes'
  <2>1. \A f \in Patched : Wanted(f) \in Known
    BY ReleasesAssumption DEF RecordState, PatchInv, PatchTypes, JournalSays, Purpose, Moving,
       Patched, Wanted, Restoring
  <2>2. journal.previous \in Known /\ journal.release \in Known
    BY DEF PatchInv, PatchTypes
  <2> QED BY <1>1, <2>1, <2>2 DEF RecordState, Kept, PatchInv, PatchTypes, Patched
<1>4. JournalSays'
  BY <1>1, <1>2, <1>3, ReleasesAssumption DEF RecordState, Kept, PatchInv, PatchTypes, Known,
     Actions, Moving, JournalSays, Purpose, Progress, AllOrNothing, Quiet, Restoring, Patched,
     Wanted
<1>5. Purpose'
  BY <1>1, <1>2, <1>3, ReleasesAssumption DEF RecordState, Kept, PatchInv, PatchTypes, Known,
     Actions, Moving, JournalSays, Purpose, Restoring, Quiet
<1>6. Progress'
  BY <1>1, <1>2, <1>3, ReleasesAssumption DEF RecordState, Kept, PatchInv, PatchTypes, Known,
     Actions, Moving, JournalSays, Purpose, Progress, Restoring, Patched, Wanted, Quiet
<1>7. AllOrNothing'
  BY <1>1, <1>2, <1>3, ReleasesAssumption DEF RecordState, Kept, PatchInv, PatchTypes, Known,
     Actions, Moving, JournalSays, Purpose, Progress, AllOrNothing, Quiet, Restoring, Patched,
     Wanted
<1> QED BY <1>3, <1>4, <1>5, <1>6, <1>7 DEF PatchInv

LEMMA CloseKeeps == ASSUME PatchInv, Close PROVE PatchInv'
<1>1. worker' \in Workers /\ job' \in PatchJobs /\ job'.action = job.action /\ job'.expected = job.expected
  BY FinishFacts DEF Close, Kept, NoJournal, Pristine, PatchInv, PatchTypes, Moving, PatchJobs,
     Workers
<1>2. worker'.pc = "none"
  BY FinishFacts DEF Close, Kept, NoJournal, Pristine, PatchInv, PatchTypes, Moving, Workers,
     Patched
<1>3. PatchTypes'
  BY <1>1, <1>2, ReleasesAssumption DEF Close, Kept, NoJournal, Pristine, PatchInv, PatchTypes,
     Known, Actions, Moving, Wanted, Restoring
<1>4. JournalSays'
  BY <1>1, <1>2, <1>3, ReleasesAssumption DEF Close, Kept, NoJournal, Pristine, PatchInv,
     PatchTypes, Known, Actions, Moving, JournalSays, Purpose, Progress, AllOrNothing, Quiet,
     Restoring, Patched, Wanted
<1>5. Purpose'
  BY <1>1, <1>2, <1>3, ReleasesAssumption DEF Close, Kept, NoJournal, Pristine, PatchInv,
     PatchTypes, Known, Actions, Moving, JournalSays, Purpose, Restoring, Quiet
<1>6. Progress'
  BY <1>1, <1>2, <1>3, ReleasesAssumption DEF Close, Kept, NoJournal, Pristine, PatchInv,
     PatchTypes, Known, Actions, Moving, JournalSays, Purpose, Progress, Restoring, Patched,
     Wanted, Quiet
<1>7. AllOrNothing'
  BY <1>1, <1>2, <1>3, ReleasesAssumption DEF Close, Kept, NoJournal, Pristine, PatchInv,
     PatchTypes, Known, Actions, Moving, JournalSays, Purpose, Progress, AllOrNothing, Quiet,
     Restoring, Patched, Wanted
<1> QED BY <1>3, <1>4, <1>5, <1>6, <1>7 DEF PatchInv

LEMMA RollbackKeeps == ASSUME PatchInv, Rollback PROVE PatchInv'
<1>1. worker' \in Workers /\ job' \in PatchJobs /\ job'.action = job.action /\ job'.expected = job.expected
  BY GotoFacts, FinishFacts DEF Rollback, Kept, PatchInv, PatchTypes, Moving, PatchJobs, Workers
<1>2. \/ worker'.pc = "none"
      \/ /\ worker'.pc = "restore" /\ worker'.undo = worker.undo /\ journal.phase = "committed"
         /\ \A f \in Patched : files[f] = journal.release
  BY GotoFacts, FinishFacts DEF Rollback, Kept, PatchInv, PatchTypes, Moving, Workers, Patched
<1>3. PatchTypes'
  BY <1>1, <1>2, ReleasesAssumption DEF Rollback, Kept, PatchInv, PatchTypes, Known, Actions,
     Moving, Wanted, Restoring
<1>4. JournalSays'
  BY <1>1, <1>2, <1>3, ReleasesAssumption DEF Rollback, Kept, PatchInv, PatchTypes, Known, Actions,
     Moving, JournalSays, Purpose, Progress, AllOrNothing, Quiet, Restoring, Patched, Wanted
<1>5. Purpose'
  BY <1>1, <1>2, <1>3, ReleasesAssumption DEF Rollback, Kept, PatchInv, PatchTypes, Known, Actions,
     Moving, JournalSays, Purpose, Restoring, Quiet
<1>6. Progress'
  <2>1. journal.release # Other \/ journal.phase = "none"
    BY ReleasesAssumption DEF PatchInv, JournalSays, Other, None
  <2> QED BY <1>1, <1>2, <1>3, <2>1 DEF Rollback, Kept, PatchInv, Progress, Moving, Patched,
             Wanted, Restoring
<1>7. AllOrNothing'
  BY <1>1, <1>2, <1>3, ReleasesAssumption DEF Rollback, Kept, PatchInv, PatchTypes, Known, Actions,
     Moving, JournalSays, Purpose, Progress, AllOrNothing, Quiet, Restoring, Patched, Wanted
<1> QED BY <1>3, <1>4, <1>5, <1>6, <1>7 DEF PatchInv

LEMMA RecoverKeeps == ASSUME PatchInv, Recover PROVE PatchInv'
<1>1. worker' \in Workers /\ job' \in PatchJobs /\ job'.action = job.action /\ job'.expected = job.expected
  BY GotoFacts, FinishFacts DEF Recover, Kept, PatchInv, PatchTypes, Moving, PatchJobs, Workers
<1>2. \/ worker'.pc = "none"
      \/ worker'.pc = "restore" /\ worker'.undo = worker.undo /\ ~Quiet(journal.phase)
  BY GotoFacts, FinishFacts DEF Recover, Kept, PatchInv, PatchTypes, Moving, Workers, Patched
<1>3. PatchTypes'
  BY <1>1, <1>2, ReleasesAssumption DEF Recover, Kept, PatchInv, PatchTypes, Known, Actions,
     Moving, Wanted, Restoring
<1>4. JournalSays'
  BY <1>1, <1>2, <1>3, ReleasesAssumption DEF Recover, Kept, PatchInv, PatchTypes, Known, Actions,
     Moving, JournalSays, Purpose, Progress, AllOrNothing, Quiet, Restoring, Patched, Wanted
<1>5. Purpose'
  BY <1>1, <1>2, <1>3, ReleasesAssumption DEF Recover, Kept, PatchInv, PatchTypes, Known, Actions,
     Moving, JournalSays, Purpose, Restoring, Quiet
<1>6. Progress'
  BY <1>1, <1>2, <1>3, ReleasesAssumption DEF Recover, Kept, PatchInv, PatchTypes, Known, Actions,
     Moving, JournalSays, Purpose, Progress, Restoring, Patched, Wanted, Quiet
<1>7. AllOrNothing'
  BY <1>1, <1>2, <1>3, ReleasesAssumption DEF Recover, Kept, PatchInv, PatchTypes, Known, Actions,
     Moving, JournalSays, Purpose, Progress, AllOrNothing, Quiet, Restoring, Patched, Wanted
<1> QED BY <1>3, <1>4, <1>5, <1>6, <1>7 DEF PatchInv

LEMMA RestoreKeeps == ASSUME PatchInv, Restore PROVE PatchInv'
<1>1. worker' \in Workers /\ job' \in PatchJobs /\ job'.action = job.action /\ job'.expected = job.expected
  BY GotoFacts DEF Restore, Kept, PatchInv, PatchTypes, Moving, PatchJobs, Workers
<1>2. worker'.pc = "stop" /\ worker'.undo = worker.undo
  BY GotoFacts DEF Restore, Kept, PatchInv, PatchTypes, Moving, Workers, Patched
<1>3. PatchTypes'
  BY <1>1, <1>2, ReleasesAssumption DEF Restore, Kept, PatchInv, PatchTypes, Known, Actions,
     Moving, Wanted, Restoring
<1>4. JournalSays'
  BY <1>1, <1>2, <1>3, ReleasesAssumption DEF Restore, Kept, PatchInv, PatchTypes, Known, Actions,
     Moving, JournalSays, Purpose, Progress, AllOrNothing, Quiet, Restoring, Patched, Wanted
<1>5. Purpose'
  BY <1>1, <1>2, <1>3, ReleasesAssumption DEF Restore, Kept, PatchInv, PatchTypes, Known, Actions,
     Moving, JournalSays, Purpose, Restoring, Quiet
<1>6. Progress'
  BY <1>1, <1>2, <1>3, ReleasesAssumption DEF Restore, Kept, PatchInv, PatchTypes, Known, Actions,
     Moving, JournalSays, Purpose, Progress, Restoring, Patched, Wanted, Quiet
<1>7. AllOrNothing'
  BY <1>1, <1>2, <1>3, ReleasesAssumption DEF Restore, Kept, PatchInv, PatchTypes, Known, Actions,
     Moving, JournalSays, Purpose, Progress, AllOrNothing, Quiet, Restoring, Patched, Wanted
<1> QED BY <1>3, <1>4, <1>5, <1>6, <1>7 DEF PatchInv

LEMMA DieKeeps == ASSUME PatchInv, Die PROVE PatchInv'
<1>1. PatchTypes'
  <2>1. worker' \in Workers /\ serviceUp' \in BOOLEAN /\ waiting' \subseteq JobId
    BY IdleFacts DEF Die, PatchInv, PatchTypes
  <2> QED BY <2>1 DEF Die, PatchInv, PatchTypes
<1>2. JournalSays'
  BY <1>1, ReleasesAssumption DEF Die, PatchInv, PatchTypes, Known, Actions, Moving, JournalSays,
     Purpose, Progress, AllOrNothing, Quiet, Restoring, Patched, Wanted, Idle, Workers, PatchJobs
<1>3. Purpose'
  BY <1>1, ReleasesAssumption DEF Die, PatchInv, PatchTypes, Known, Actions, Moving, JournalSays,
     Purpose, Restoring, Quiet, Idle, Workers, PatchJobs
<1>4. Progress'
  BY <1>1, ReleasesAssumption DEF Die, PatchInv, PatchTypes, Known, Actions, Moving, JournalSays,
     Purpose, Progress, Restoring, Patched, Wanted, Quiet, Idle, Workers, PatchJobs
<1>5. AllOrNothing'
  BY <1>1, ReleasesAssumption DEF Die, PatchInv, PatchTypes, Known, Actions, Moving, JournalSays,
     Purpose, Progress, AllOrNothing, Quiet, Restoring, Patched, Wanted, Idle, Workers, PatchJobs
<1> QED BY <1>1, <1>2, <1>3, <1>4, <1>5 DEF PatchInv

LEMMA PublishKeeps == ASSUME PatchInv, Publish PROVE PatchInv'
<1>1. PatchTypes'
  BY ReleasesAssumption DEF Publish, PatchInv, PatchTypes, Known, Actions, Moving, Wanted,
     Restoring, Idle, NoId, PatchJobs, Workers
<1>2. JournalSays'
  BY <1>1, ReleasesAssumption DEF Publish, PatchInv, PatchTypes, Known, Actions, Moving,
     JournalSays, Purpose, Progress, AllOrNothing, Quiet, Restoring, Patched, Wanted, Idle,
     Workers, PatchJobs
<1>3. Purpose'
  BY <1>1, ReleasesAssumption DEF Publish, PatchInv, PatchTypes, Known, Actions, Moving,
     JournalSays, Purpose, Restoring, Quiet, Idle, Workers, PatchJobs
<1>4. Progress'
  BY <1>1, ReleasesAssumption DEF Publish, PatchInv, PatchTypes, Known, Actions, Moving,
     JournalSays, Purpose, Progress, Restoring, Patched, Wanted, Quiet, Idle, Workers, PatchJobs
<1>5. AllOrNothing'
  BY <1>1, ReleasesAssumption DEF Publish, PatchInv, PatchTypes, Known, Actions, Moving,
     JournalSays, Purpose, Progress, AllOrNothing, Quiet, Restoring, Patched, Wanted, Idle,
     Workers, PatchJobs
<1> QED BY <1>1, <1>2, <1>3, <1>4, <1>5 DEF PatchInv

LEMMA EditKeeps == ASSUME PatchInv, Edit PROVE PatchInv'
<1>1. PatchTypes'
  BY ReleasesAssumption DEF Edit, PatchInv, PatchTypes, Known, Actions, Moving, Wanted, Restoring,
     Idle, NoId, PatchJobs, Workers
<1>2. JournalSays'
  BY <1>1, ReleasesAssumption DEF Edit, PatchInv, PatchTypes, Known, Actions, Moving, JournalSays,
     Purpose, Progress, AllOrNothing, Quiet, Restoring, Patched, Wanted, Idle, Workers, PatchJobs
<1>3. Purpose'
  BY <1>1, ReleasesAssumption DEF Edit, PatchInv, PatchTypes, Known, Actions, Moving, JournalSays,
     Purpose, Restoring, Quiet, Idle, Workers, PatchJobs
<1>4. Progress'
  BY <1>1, ReleasesAssumption DEF Edit, PatchInv, PatchTypes, Known, Actions, Moving, JournalSays,
     Purpose, Progress, Restoring, Patched, Wanted, Quiet, Idle, Workers, PatchJobs
<1>5. AllOrNothing'
  BY <1>1, ReleasesAssumption DEF Edit, PatchInv, PatchTypes, Known, Actions, Moving, JournalSays,
     Purpose, Progress, AllOrNothing, Quiet, Restoring, Patched, Wanted, Idle, Workers, PatchJobs
<1> QED BY <1>1, <1>2, <1>3, <1>4, <1>5 DEF PatchInv

LEMMA SoftwarePayloadKeeps == ASSUME PatchInv, SoftwarePayload PROVE PatchInv'
<1>1. PatchTypes'
  BY ReleasesAssumption DEF SoftwarePayload, NoJournal, Pristine, PatchInv, PatchTypes, Known,
     Actions, Moving, Wanted, Restoring, Idle, NoId, PatchJobs, Workers
<1>2. JournalSays'
  BY <1>1, ReleasesAssumption DEF SoftwarePayload, NoJournal, Pristine, PatchInv, PatchTypes,
     Known, Actions, Moving, JournalSays, Purpose, Progress, AllOrNothing, Quiet, Restoring,
     Patched, Wanted, Idle, Workers, PatchJobs
<1>3. Purpose'
  BY <1>1, ReleasesAssumption DEF SoftwarePayload, NoJournal, Pristine, PatchInv, PatchTypes,
     Known, Actions, Moving, JournalSays, Purpose, Restoring, Quiet, Idle, Workers, PatchJobs
<1>4. Progress'
  BY <1>1, ReleasesAssumption DEF SoftwarePayload, NoJournal, Pristine, PatchInv, PatchTypes,
     Known, Actions, Moving, JournalSays, Purpose, Progress, Restoring, Patched, Wanted, Quiet,
     Idle, Workers, PatchJobs
<1>5. AllOrNothing'
  BY <1>1, ReleasesAssumption DEF SoftwarePayload, NoJournal, Pristine, PatchInv, PatchTypes,
     Known, Actions, Moving, JournalSays, Purpose, Progress, AllOrNothing, Quiet, Restoring,
     Patched, Wanted, Idle, Workers, PatchJobs
<1> QED BY <1>1, <1>2, <1>3, <1>4, <1>5 DEF PatchInv

LEMMA PatchNextInv == PatchInv /\ [PatchNext]_patchVars => PatchInv'
<1> SUFFICES ASSUME PatchInv, [PatchNext]_patchVars PROVE PatchInv'
  OBVIOUS
<1>1. CASE Operate
  <2>1. None \in Known /\ Releases \subseteq Known /\ {"check", "stage", "install", "rollback", "recover"} \subseteq Actions
    BY DEF Known, Actions
  <2> QED BY <1>1, <2>1, SubmitKeeps DEF Operate
<1>2. CASE Work
  BY <1>2, BeginKeeps, CheckKeeps, StageKeeps, StagedKeeps, PrepareKeeps, StopKeeps,
     ReplaceFileKeeps, StartKeeps,
     RecordStateKeeps, CloseKeeps, RollbackKeeps, RecoverKeeps, RestoreKeeps DEF Work
<1>3. CASE UNCHANGED patchVars
  BY <1>3 DEF patchVars, PatchInv, PatchTypes, JournalSays, Purpose, Progress, AllOrNothing,
     Patched, Restoring, Wanted
<1> QED BY <1>1, <1>2, <1>3, DieKeeps, PublishKeeps, EditKeeps, SoftwarePayloadKeeps DEF PatchNext

(* While a worker is at it, nobody else changes a file or the record of    *)
(* what is installed, and the worker does so in two of its steps.          *)
LEMMA OnlyWorker ==
  ASSUME PatchInv, [PatchNext]_patchVars, worker # Idle
  PROVE  /\ ReplaceFile \/ UNCHANGED files
         /\ RecordState \/ UNCHANGED installed
<1>1. CASE Operate
  BY <1>1 DEF Operate, Submit
<1>2. CASE Work
  BY <1>2 DEF Work, Begin, Check, Stage, Staged, Prepare, Stop, ReplaceFile, Start, RecordState,
     Close, Rollback,
              Recover, Restore
<1>3. CASE Die \/ Publish \/ Edit \/ SoftwarePayload \/ UNCHANGED patchVars
  BY <1>3 DEF Die, Publish, Edit, SoftwarePayload, patchVars
<1> QED BY <1>1, <1>2, <1>3 DEF PatchNext

(* Hand edits: what a job other than a recovery replaces was not changed.  *)
LEMMA EditsSurvive ==
  ASSUME PatchInv, [PatchNext]_patchVars, NEW f \in File, files[f] = Other, files'[f] # Other, worker # Idle
  PROVE  job.action = "recover"
<1>1. ReplaceFile
  BY OnlyWorker
<1>2. PICK g \in worker.todo : files' = [files EXCEPT ![g] = Wanted(g)]
  BY <1>1 DEF ReplaceFile
<1>3. f = g
  BY <1>2 DEF PatchInv, PatchTypes
<1> QED BY <1>1, <1>2, <1>3 DEF ReplaceFile, PatchInv, Progress, Moving

(* The record: forward to what was reviewed, or back.                      *)
LEMMA RecordIsReviewed ==
  ASSUME PatchInv, [PatchNext]_patchVars, installed' # installed, worker # Idle
  PROVE  IF job.action = "install" /\ ~worker.undo
         THEN installed' = job.expected /\ installed' > installed
         ELSE installed' < installed
<1>1. RecordState
  BY OnlyWorker
<1>2. /\ journal.release \in Nat /\ journal.previous \in Nat /\ journal.previous < journal.release
      /\ installed \in {journal.previous, journal.release}
  BY <1>1, ReleasesAssumption
  DEF RecordState, PatchInv, PatchTypes, JournalSays, Purpose, Moving, Known, None
<1> QED BY <1>1, <1>2 DEF RecordState, PatchInv, Purpose, Moving, Restoring

(* ffn_patch: however often the worker dies, whatever fails, and for any   *)
(* releases, files and baselines, no mixture of releases is left, no hand  *)
(* edit is overwritten but by a recovery, and what becomes the installed   *)
(* release is the one that was reviewed, and newer.                        *)
THEOREM InstallsAreWhole == PatchSpec => InstallIsChecked
<1> DEFINE Checked ==
      /\ AllOrNothing'
      /\ \A f \in File : files[f] = Other /\ files'[f] # Other /\ worker # Idle => job.action = "recover"
      /\ installed' # installed /\ worker # Idle =>
           IF job.action = "install" /\ ~worker.undo
           THEN installed' = job.expected /\ installed' > installed
           ELSE installed' < installed
<1>1. PatchInv /\ [PatchNext]_patchVars => [Checked]_patchVars
  BY PatchNextInv, EditsSurvive, RecordIsReviewed DEF PatchInv
<1> QED BY <1>1, PatchInitInv, PatchNextInv, PTL DEF PatchSpec, InstallIsChecked
=============================================================================
