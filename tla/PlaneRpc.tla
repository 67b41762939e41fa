------------------------------ MODULE PlaneRpc ------------------------------
(***************************************************************************)
(* The MP/CP/DP control RPC of opt/ffn_planed.py: a chain of daemons in    *)
(* which every node relays the requests of the resources it does not own   *)
(* to its peer, and the node that owns a resource runs its controller      *)
(* under a durable journal.                                                *)
(*                                                                         *)
(* A call is one delivery attempt of a request, that is one connection and *)
(* one dispatch coroutine on every node it reaches; a retry is a new call  *)
(* with the same request ID.  at[n][c] is how far node n's coroutine for c *)
(* has got: every value but "none", "done" and "gone" is an await at which *)
(* other coroutines run and at which the daemon can be killed.             *)
(*                                                                         *)
(* Simplifications.                                                        *)
(*  - Controllers are external: validate, apply and status may succeed or  *)
(*    fail whenever they run.  A failed, late or oversized controller is   *)
(*    one outcome, as it is for the daemon.                                *)
(*  - The digest of an apply is its payload: two applies with one ID and   *)
(*    different payloads are the "reused with different content" case.     *)
(*  - status, validate, lookup, refresh and inventory answer from the      *)
(*    controller or the journal and change neither; they are left out.     *)
(*  - ran is a history variable: what each node's controllers really did.  *)
(***************************************************************************)
EXTENDS Naturals

CONSTANTS Last,       \* the last node of the chain; nodes are 0..Last
          Resources,  \* what a request can address
          Owner,      \* [Resources -> Nodes], from each node's "commands"
          Ids,        \* request UUIDs
          Payloads,   \* contents of an apply: resource and boot identity
          Calls,      \* delivery attempts
          MaxRev,     \* bound on a controller's revision
          MaxBoot     \* bound on plane reboots

Nodes == 0..Last

(* A chain has at most three nodes: a relay refuses an answer whose trace  *)
(* already names three (ffn_planed.py, dispatch).                          *)
ASSUME PlaneAssumption ==
    /\ Last \in 0..2
    /\ Owner \in [Resources -> Nodes]
    /\ Payloads \subseteq [res : Resources, boot : Nat]
    /\ Payloads # {}
    /\ MaxRev \in Nat
    /\ MaxBoot \in Nat

Kinds    == {"apply", "result", "resolve"}
Settled  == {"applied", "reconciled"}
RowState == {"none", "unknown", "rejected"} \cup Settled

(* Where a coroutine stands.  The Holding stages are inside the node's     *)
(* lock: supersede before and after its status command, validate, apply    *)
(* before and after the controller took effect, resolve before and after   *)
(* its status command.                                                     *)
Holding == {"superseding", "judging", "validating", "applying", "effected",
            "observing", "observed"}
Stages  == {"none", "queued", "relayed", "done", "gone"} \cup Holding

Requests  == [kind : Kinds, id : Ids, pay : Payloads, obs : Nat]
NoRequest == [kind |-> "none"]

(* What a status command reports: the revision and the boot identity.      *)
Views == [rev : Nat, boot : Nat]

Replies == [state : {"none", "unknown", "rejected", "observed"} \cup Settled,
            prior : RowState]
NoReply == [state |-> "none", prior |-> "none"]
Answer(s) == [state |-> s, prior |-> "none"]

(* A row whose state is "none" is an ID that the node has no row for.      *)
Rows  == [st : RowState, pay : Payloads, obs : Nat]
NoRow == [st |-> "none", pay |-> CHOOSE p \in Payloads : TRUE, obs |-> 0]

VARIABLES
    call,     \* call[c] is the request that attempt c carries
    at,       \* at[n][c] is where node n stands with attempt c
    reply,    \* reply[n][c] is what node n answered upstream to c
    journal,  \* journal[n][id] is node n's durable row
    seen,     \* seen[c] is what attempt c read with a status command
    rev,      \* rev[r] is the controller's current revision
    boot,     \* boot identity of the plane behind the controllers
    flags,    \* boot identities that a sanctioned reboot replaced
    ran       \* ran[n] is the set of applies node n's controllers executed

vars == <<call, at, reply, journal, seen, rev, boot, flags, ran>>

-----------------------------------------------------------------------------
Res(c)  == call[c].pay.res
Row(n, c) == journal[n][call[c].id]

IsLocal(n, c) == Owner[Res(c)] = n
IsRelay(n, c) == n < Owner[Res(c)]

(* The rows of resource r whose outcome node n does not know.              *)
Unknown(n, r) == {i \in Ids : /\ journal[n][i].st = "unknown"
                              /\ journal[n][i].pay.res = r}

(* asyncio.Lock of a node: one coroutine at a time is past it.             *)
LockFree(n) == \A c \in Calls : at[n][c] \notin Holding

Go(n, c, stage) == at' = [at EXCEPT ![n][c] = stage]

(* The coroutine ends and its answer goes upstream.                        *)
Finish(n, c, r) ==
    /\ Go(n, c, "done")
    /\ reply' = [reply EXCEPT ![n][c] = r]

Record(n, i, s, o) ==
    journal' = [journal EXCEPT ![n][i] = [st |-> s, pay |-> @.pay, obs |-> o]]

Insert(n, c) ==
    journal' = [journal EXCEPT
                  ![n][call[c].id] = [st |-> "unknown", pay |-> call[c].pay,
                                      obs |-> 0]]

Init ==
    /\ call = [c \in Calls |-> NoRequest]
    /\ at = [n \in Nodes |-> [c \in Calls |-> "none"]]
    /\ reply = [n \in Nodes |-> [c \in Calls |-> NoReply]]
    /\ journal = [n \in Nodes |-> [i \in Ids |-> NoRow]]
    /\ seen = [c \in Calls |-> [rev |-> 0, boot |-> 0]]
    /\ rev = [r \in Resources |-> 0]
    /\ boot = 1
    /\ flags = {}
    /\ ran = [n \in Nodes |-> {}]

-----------------------------------------------------------------------------
(* A client connects to node n's socket and sends request r.               *)
Issue(c, r, n) ==
    /\ call[c] = NoRequest
    /\ n <= Owner[r.pay.res]
    /\ r.pay.boot <= boot
    /\ call' = [call EXCEPT ![c] = r]
    /\ Go(n, c, "queued")
    /\ UNCHANGED <<reply, journal, seen, rev, boot, flags, ran>>

(* The connection of a queued attempt breaks before the node reads it.     *)
Lose(n, c) ==
    /\ at[n][c] = "queued"
    /\ Go(n, c, "gone")
    /\ UNCHANGED <<call, reply, journal, seen, rev, boot, flags, ran>>

-----------------------------------------------------------------------------
(* Relays.                                                                 *)

(* An apply whose ID the relay already holds with other content, or whose  *)
(* outcome it already knows, is answered without asking the peer.          *)
RelayAnswer(n, c) ==
    /\ at[n][c] = "queued"
    /\ IsRelay(n, c)
    /\ call[c].kind = "apply"
    /\ Row(n, c).st # "none"
    /\ \/ /\ Row(n, c).pay # call[c].pay
          /\ Finish(n, c, Answer("rejected"))
       \/ /\ Row(n, c).pay = call[c].pay
          /\ Row(n, c).st \in Settled
          /\ Finish(n, c, Answer(Row(n, c).st))
    /\ UNCHANGED <<call, journal, seen, rev, boot, flags, ran>>

(* Every other request goes to the peer; an apply is journaled first.      *)
RelayForward(n, c) ==
    /\ at[n][c] = "queued"
    /\ IsRelay(n, c)
    /\ \/ /\ call[c].kind # "apply"
          /\ UNCHANGED journal
       \/ /\ call[c].kind = "apply"
          /\ Row(n, c).st = "none"
          /\ Insert(n, c)
       \/ /\ call[c].kind = "apply"
          /\ Row(n, c).st \in {"unknown", "rejected"}
          /\ Row(n, c).pay = call[c].pay
          /\ UNCHANGED journal
    /\ at' = [at EXCEPT ![n][c] = "relayed", ![n + 1][c] = "queued"]
    /\ UNCHANGED <<call, reply, seen, rev, boot, flags, ran>>

(* The peer's answer arrives in time: it is recorded and passed on.        *)
RelayReturn(n, c) ==
    /\ at[n][c] = "relayed"
    /\ reply[n + 1][c].state # "none"
    /\ Finish(n, c, reply[n + 1][c])
    /\ IF call[c].kind = "apply"
       THEN Record(n, call[c].id, reply[n + 1][c].state, 0)
       ELSE UNCHANGED journal
    /\ UNCHANGED <<call, seen, rev, boot, flags, ran>>

(* Mutant: the relay waits for its peer without PEER_WAIT.                 *)
NoPeerWait(n, c) == FALSE /\ at[n][c] = "relayed" /\ UNCHANGED vars

(* PEER_WAIT passes or the transport fails: the relay answers unknown and  *)
(* leaves its row alone, whatever the peer is still doing with the call.   *)
RelayTimeout(n, c) ==
    /\ at[n][c] = "relayed"
    /\ Finish(n, c, Answer("unknown"))
    /\ UNCHANGED <<call, journal, seen, rev, boot, flags, ran>>

-----------------------------------------------------------------------------
(* The owner of a resource: Plane.local under the node's lock.             *)

(* The call gets the lock and its ID is already journaled.                 *)
LeafKnown(n, c) ==
    /\ at[n][c] = "queued"
    /\ IsLocal(n, c)
    /\ LockFree(n)
    /\ call[c].kind = "apply"
    /\ Row(n, c).st # "none"
    /\ IF Row(n, c).pay = call[c].pay
       THEN Finish(n, c, Answer(Row(n, c).st))
       ELSE Finish(n, c, Answer("rejected"))
    /\ UNCHANGED <<call, journal, seen, rev, boot, flags, ran>>

(* The call gets the lock with a new ID: it must first get past the rows   *)
(* of its resource that are still unknown.                                 *)
LeafAdmit(n, c) ==
    /\ at[n][c] = "queued"
    /\ IsLocal(n, c)
    /\ LockFree(n)
    /\ call[c].kind = "apply"
    /\ Row(n, c).st = "none"
    /\ Go(n, c, IF Unknown(n, Res(c)) = {} THEN "validating" ELSE "superseding")
    /\ UNCHANGED <<call, reply, journal, seen, rev, boot, flags, ran>>

(* A row is superseded when its write named a boot identity, the status    *)
(* reports another and a reboot flag names the old one.                    *)
Superseded(n, i, v) ==
    /\ journal[n][i].pay.boot \notin {0, v.boot}
    /\ journal[n][i].pay.boot \in flags

(* Mutant: the rows that remain unknown are not counted.                   *)
SupersedeAndGoOn(n, c) ==
    /\ at[n][c] = "judging"
    /\ journal' = [journal EXCEPT ![n] =
                     [i \in Ids |->
                        IF i \in Unknown(n, Res(c)) /\ Superseded(n, i, seen[c])
                        THEN [st |-> "reconciled", pay |-> journal[n][i].pay,
                              obs |-> seen[c].rev]
                        ELSE journal[n][i]]]
    /\ Go(n, c, "validating")
    /\ UNCHANGED <<call, reply, seen, rev, boot, flags, ran>>

Supersede(n, c) ==
    LET open == Unknown(n, Res(c))
        past == {i \in open : Superseded(n, i, seen[c])}
    IN  /\ at[n][c] = "judging"
        /\ journal' = [journal EXCEPT ![n] =
                         [i \in Ids |->
                            IF i \in past
                            THEN [st |-> "reconciled", pay |-> journal[n][i].pay,
                                  obs |-> seen[c].rev]
                            ELSE journal[n][i]]]
        /\ IF open = past
           THEN Go(n, c, "validating") /\ UNCHANGED reply
           ELSE Finish(n, c, Answer("rejected"))
        /\ UNCHANGED <<call, seen, rev, boot, flags, ran>>

(* The status or the validate command fails: nothing has been journaled.   *)
LeafReject(n, c) ==
    /\ at[n][c] \in {"superseding", "validating", "observing"}
    /\ Finish(n, c, Answer("rejected"))
    /\ UNCHANGED <<call, journal, seen, rev, boot, flags, ran>>

(* Mutant: the controller runs before the intent is durable.               *)
RunBeforeJournal(n, c) ==
    /\ at[n][c] = "validating"
    /\ Go(n, c, "applying")
    /\ UNCHANGED <<call, reply, journal, seen, rev, boot, flags, ran>>

(* Validation passed: the intent is committed before the controller runs.  *)
(* The relaying half of the node does not take the lock, so it may have    *)
(* journaled the same ID for another resource since: the INSERT then fails *)
(* and the connection closes without an answer.                            *)
LeafJournal(n, c) ==
    /\ at[n][c] = "validating"
    /\ IF Row(n, c).st = "none"
       THEN Insert(n, c) /\ Go(n, c, "applying")
       ELSE Go(n, c, "gone") /\ UNCHANGED journal
    /\ UNCHANGED <<call, reply, seen, rev, boot, flags, ran>>

(* The controller takes effect.                                            *)
Effect(n, c) ==
    /\ at[n][c] = "applying"
    /\ rev[Res(c)] < MaxRev
    /\ rev' = [rev EXCEPT ![Res(c)] = @ + 1]
    /\ ran' = [ran EXCEPT ![n] = @ \cup
                 {[id |-> call[c].id, pay |-> call[c].pay,
                   rev |-> rev[Res(c)] + 1]}]
    /\ Go(n, c, "effected")
    /\ UNCHANGED <<call, reply, journal, seen, boot, flags>>

(* Mutant: the result is answered but not recorded.                        *)
AppliedUnrecorded(n, c) ==
    /\ at[n][c] = "effected"
    /\ Finish(n, c, Answer("applied"))
    /\ UNCHANGED <<call, journal, seen, rev, boot, flags, ran>>

(* The controller's result comes back and is recorded.                     *)
LeafApplied(n, c) ==
    /\ at[n][c] = "effected"
    /\ Record(n, call[c].id, "applied", 0)
    /\ Finish(n, c, Answer("applied"))
    /\ UNCHANGED <<call, seen, rev, boot, flags, ran>>

(* Mutant: a controller's failure is taken for its result.                 *)
FailureApplied(n, c) ==
    /\ at[n][c] \in {"applying", "effected"}
    /\ Record(n, call[c].id, "applied", 0)
    /\ Finish(n, c, Answer("applied"))
    /\ UNCHANGED <<call, seen, rev, boot, flags, ran>>

(* The controller fails, is killed at its budget or answers nonsense,      *)
(* before or after it took effect: the row keeps blocking the resource.    *)
LeafUnknown(n, c) ==
    /\ at[n][c] \in {"applying", "effected"}
    /\ Finish(n, c, Answer("unknown"))
    /\ UNCHANGED <<call, journal, seen, rev, boot, flags, ran>>

(* result: the stored answer, read under the lock.                         *)
LeafResult(n, c) ==
    /\ at[n][c] = "queued"
    /\ IsLocal(n, c)
    /\ LockFree(n)
    /\ call[c].kind = "result"
    /\ IF Row(n, c).st # "none" /\ Row(n, c).pay.res = Res(c)
       THEN Finish(n, c, [state |-> "observed", prior |-> Row(n, c).st])
       ELSE Finish(n, c, Answer("rejected"))
    /\ UNCHANGED <<call, journal, seen, rev, boot, flags, ran>>

(* Mutant: resolve does not wait for the lock.                             *)
ResolveUnlocked(n, c) ==
    /\ at[n][c] = "queued"
    /\ IsLocal(n, c)
    /\ call[c].kind = "resolve"
    /\ IF Row(n, c).st = "unknown" /\ Row(n, c).pay.res = Res(c)
       THEN Go(n, c, "observing") /\ UNCHANGED reply
       ELSE Finish(n, c, Answer("rejected"))
    /\ UNCHANGED <<call, journal, seen, rev, boot, flags, ran>>

(* Mutant: resolve accepts a row in any state.                             *)
ResolveAny(n, c) ==
    /\ at[n][c] = "queued"
    /\ IsLocal(n, c)
    /\ LockFree(n)
    /\ call[c].kind = "resolve"
    /\ IF Row(n, c).st # "none" /\ Row(n, c).pay.res = Res(c)
       THEN Go(n, c, "observing") /\ UNCHANGED reply
       ELSE Finish(n, c, Answer("rejected"))
    /\ UNCHANGED <<call, journal, seen, rev, boot, flags, ran>>

(* resolve: only an unknown row of this resource can be reconciled.        *)
LeafResolve(n, c) ==
    /\ at[n][c] = "queued"
    /\ IsLocal(n, c)
    /\ LockFree(n)
    /\ call[c].kind = "resolve"
    /\ IF Row(n, c).st = "unknown" /\ Row(n, c).pay.res = Res(c)
       THEN Go(n, c, "observing") /\ UNCHANGED reply
       ELSE Finish(n, c, Answer("rejected"))
    /\ UNCHANGED <<call, journal, seen, rev, boot, flags, ran>>

(* The status command, of a resolve or a supersede, reads the live state.  *)
LeafObserve(n, c) ==
    /\ at[n][c] \in {"observing", "superseding"}
    /\ seen' = [seen EXCEPT ![c] = [rev |-> rev[Res(c)], boot |-> boot]]
    /\ Go(n, c, IF at[n][c] = "observing" THEN "observed" ELSE "judging")
    /\ UNCHANGED <<call, reply, journal, rev, boot, flags, ran>>

(* Its revision must be the one the operator reported.                     *)
LeafReconcile(n, c) ==
    /\ at[n][c] = "observed"
    /\ IF seen[c].rev = call[c].obs
       THEN /\ Record(n, call[c].id, "reconciled", seen[c].rev)
            /\ Finish(n, c, Answer("reconciled"))
       ELSE /\ Finish(n, c, Answer("rejected"))
            /\ UNCHANGED journal
    /\ UNCHANGED <<call, seen, rev, boot, flags, ran>>

-----------------------------------------------------------------------------
(* The environment.                                                        *)

(* A daemon dies and is restarted: its coroutines are lost, its controller *)
(* dies with its control group, its journal stays.                         *)
Crash(n) ==
    /\ at' = [at EXCEPT ![n] =
                [c \in Calls |-> IF at[n][c] \in {"none", "done"}
                                 THEN at[n][c] ELSE "gone"]]
    /\ UNCHANGED <<call, reply, journal, seen, rev, boot, flags, ran>>

(* Another tool writes through the controller directly.                    *)
DirectWrite(r) ==
    /\ rev[r] < MaxRev
    /\ rev' = [rev EXCEPT ![r] = @ + 1]
    /\ UNCHANGED <<call, at, reply, journal, seen, boot, flags, ran>>

(* The plane behind the controllers reboots; a sanctioned reboot leaves a  *)
(* flag naming the identity that it replaced.                              *)
Reboot(sanctioned) ==
    /\ boot < MaxBoot
    /\ boot' = boot + 1
    /\ flags' = IF sanctioned THEN flags \cup {boot} ELSE flags
    /\ UNCHANGED <<call, at, reply, journal, seen, rev, ran>>

-----------------------------------------------------------------------------
RelayStep(n, c) ==
    \/ RelayAnswer(n, c)
    \/ RelayForward(n, c)
    \/ RelayReturn(n, c)
    \/ RelayTimeout(n, c)

LeafStep(n, c) ==
    \/ LeafKnown(n, c)
    \/ LeafAdmit(n, c)
    \/ Supersede(n, c)
    \/ LeafReject(n, c)
    \/ LeafJournal(n, c)
    \/ Effect(n, c)
    \/ LeafApplied(n, c)
    \/ LeafUnknown(n, c)
    \/ LeafResult(n, c)
    \/ LeafResolve(n, c)
    \/ LeafObserve(n, c)
    \/ LeafReconcile(n, c)

Environment ==
    \/ \E n \in Nodes, c \in Calls, k \in Kinds, i \in Ids, p \in Payloads,
          o \in 0..MaxRev :
         /\ k # "resolve" => o = 0
         /\ Issue(c, [kind |-> k, id |-> i, pay |-> p, obs |-> o], n)
    \/ \E n \in Nodes, c \in Calls : Lose(n, c)
    \/ \E n \in Nodes : Crash(n)
    \/ \E r \in Resources : DirectWrite(r)
    \/ \E s \in BOOLEAN : Reboot(s)

Next ==
    \/ \E n \in Nodes, c \in Calls : RelayStep(n, c) \/ LeafStep(n, c)
    \/ Environment

Spec == Init /\ [][Next]_vars

-----------------------------------------------------------------------------
(* Properties.                                                             *)

TypeOK ==
    /\ call \in [Calls -> Requests \cup {NoRequest}]
    /\ at \in [Nodes -> [Calls -> Stages]]
    /\ reply \in [Nodes -> [Calls -> Replies]]
    /\ journal \in [Nodes -> [Ids -> Rows]]
    /\ seen \in [Calls -> Views]
    /\ rev \in [Resources -> Nat]
    /\ boot \in Nat
    /\ flags \subseteq Nat
    /\ ran \in [Nodes -> SUBSET [id : Ids, pay : Payloads, rev : Nat]]

(* The module's header: "its durable journal prevents blind replay after a *)
(* crash or lost reply".  However often a request is retried, through      *)
(* whatever hops and across whatever crashes, a node's controllers execute *)
(* its ID at most once, and with one content.                              *)
AtMostOnce ==
    \A n \in Nodes : \A e, f \in ran[n] : e.id = f.id => e = f

(* Plane.local: no controller ever ran without a durable row that names    *)
(* the request, so that a crash at any point leaves a trace of it.         *)
IntentDurable ==
    \A n \in Nodes : \A e \in ran[n] :
        /\ journal[n][e.id].pay = e.pay
        /\ journal[n][e.id].st \in {"unknown"} \cup Settled

(* "A leaf holds at most one -- it refuses the next write" (BLOCKED_SHOWN).*)
OneUnknown ==
    \A r \in Resources : \A i, j \in Unknown(Owner[r], r) : i = j

(* Plane.local refuses an apply while the resource has an unknown outcome: *)
(* no write overtakes one whose outcome nobody has established yet.        *)
NoOvertaking ==
    \A n \in Nodes : \A e, f \in ran[n] :
        /\ e.pay.res = f.pay.res
        /\ e.rev < f.rev
        => journal[n][e.id].st \in Settled

(* What a relay records or answers as settled is what the owner's journal  *)
(* says, whatever answers were lost, late or overtaken on the way.         *)
OwnerRow(r, i) == journal[Owner[r]][i]
RowTruth(n, i) ==
    journal[n][i].st \in Settled =>
      /\ OwnerRow(journal[n][i].pay.res, i).st = journal[n][i].st
      /\ OwnerRow(journal[n][i].pay.res, i).pay = journal[n][i].pay
Honest(r, c) ==
    \A s \in {r.state, r.prior} \cap Settled :
      /\ OwnerRow(Res(c), call[c].id).st = s
      /\ OwnerRow(Res(c), call[c].id).pay.res = Res(c)
      /\ call[c].kind = "apply"
           => OwnerRow(Res(c), call[c].id).pay = call[c].pay
RelayTruth ==
    /\ \A n \in Nodes, i \in Ids : RowTruth(n, i)
    /\ \A n \in Nodes, c \in Calls : Honest(reply[n][c], c)

(* resolve and supersede: once a write is reconciled it is over.  No       *)
(* coroutine is still applying it, and if its controller took effect, then *)
(* the revision it was reconciled against already contained that effect.   *)
ReconciledIsOver ==
    \A n \in Nodes, i \in Ids :
        journal[n][i].st = "reconciled" /\ Owner[journal[n][i].pay.res] = n =>
          /\ \A c \in Calls : at[n][c] \in {"applying", "effected"}
                                => call[c].id # i
          /\ \A e \in ran[n] : e.id = i => e.rev <= journal[n][i].obs

(* A settled outcome is final at the node that owns the resource.          *)
SettledIsFinal ==
    [][\A r \in Resources, i \in Ids :
         /\ OwnerRow(r, i).pay.res = r
         /\ OwnerRow(r, i).st \in Settled
         => OwnerRow(r, i)' = OwnerRow(r, i)]_vars

(* The inductive invariant behind the properties above.  Exclusive is the  *)
(* lock; Located says what a coroutine may rely on at each of its awaits,  *)
(* which is where the daemon is interleaved with others or dies.           *)
Exclusive ==
    \A n \in Nodes : \A c, d \in Calls :
        at[n][c] \in Holding /\ at[n][d] \in Holding => c = d

LocatedAt(n, c) ==
    /\ at[n][c] # "none" => call[c] \in Requests /\ n <= Owner[Res(c)]
    /\ reply[n][c] # NoReply => call[c] \in Requests
    /\ at[n][c] \in Holding => Owner[Res(c)] = n
    /\ at[n][c] \in Holding \ {"observing", "observed"}
         => call[c].kind = "apply"
    /\ at[n][c] \in {"observing", "observed"} =>
         /\ call[c].kind = "resolve"
         /\ Row(n, c).st = "unknown"
         /\ Row(n, c).pay.res = Res(c)
    /\ at[n][c] = "validating" => Unknown(n, Res(c)) = {}
    /\ at[n][c] \in {"applying", "effected"} =>
         /\ Row(n, c).st = "unknown"
         /\ Row(n, c).pay = call[c].pay
    /\ at[n][c] = "applying" => \A e \in ran[n] : e.id # call[c].id
    /\ at[n][c] = "effected" => \E e \in ran[n] : e.id = call[c].id
    /\ at[n][c] = "relayed" =>
         /\ n # Owner[Res(c)]
         /\ call[c].kind = "apply" =>
              Row(n, c).st # "none" /\ Row(n, c).pay = call[c].pay
    /\ at[n][c] \in {"judging", "observed"} =>
         \A e \in ran[n] : e.pay.res = Res(c) => e.rev <= seen[c].rev

Located == \A n \in Nodes, c \in Calls : LocatedAt(n, c)

Answered ==
    \A n \in Nodes, c \in Calls :
        reply[n][c] # NoReply /\ call[c].kind = "apply" =>
          reply[n][c].state # "observed" /\ reply[n][c].prior = "none"

Owned ==
    /\ \A n \in Nodes, i \in Ids :
         Owner[journal[n][i].pay.res] = n => journal[n][i].st # "rejected"
    /\ \A n \in Nodes : \A e \in ran[n] :
         Owner[e.pay.res] = n /\ e.rev <= rev[e.pay.res]

IInv == /\ TypeOK /\ Exclusive /\ Located /\ Answered /\ Owned
        /\ AtMostOnce /\ IntentDurable /\ OneUnknown /\ NoOvertaking
        /\ RelayTruth /\ ReconciledIsOver

(* The abstract promise, read off the owner's journal and the history.     *)
OutcomeOf(r, i) ==
    IF OwnerRow(r, i).pay.res # r THEN "none"
    ELSE IF OwnerRow(r, i).st = "unknown" THEN "open" ELSE OwnerRow(r, i).st
DoneOf(r, i) == {e \in ran[Owner[r]] : e.id = i /\ e.pay.res = r}

Outcome == INSTANCE PlaneOutcome WITH
    Effects <- [id : Ids, pay : Payloads, rev : 1..MaxRev],
    outcome <- [r \in Resources |-> [i \in Ids |-> OutcomeOf(r, i)]],
    done    <- [r \in Resources |-> [i \in Ids |-> DoneOf(r, i)]]

(* The chain of daemons implements PlaneOutcome.                           *)
OneOutcome == Outcome!Spec

(* The response ladder: every request ends, with an answer or with a lost  *)
(* connection, on every node that it reached.  PEER_WAIT and the           *)
(* controllers' budgets bound each await, and asyncio.Lock wakes its       *)
(* waiters in order, so no coroutine waits for ever.                       *)
Fairness == \A n \in Nodes, c \in Calls :
              WF_vars(RelayStep(n, c)) /\ WF_vars(LeafStep(n, c))
FairSpec == Spec /\ Fairness

EveryCallEnds ==
    \A n \in Nodes, c \in Calls :
        at[n][c] # "none" ~> at[n][c] \in {"done", "gone"}
=============================================================================
