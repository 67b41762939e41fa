--------------------------- MODULE ProtectGateway ---------------------------
(***************************************************************************)
(* Sessions of one FFN Protect gateway (opt/ffn_protect_gateway.py): the   *)
(* threads of the HTTPS listener, the daemon's two-second tick, and the    *)
(* tunnel worker that may die under them.                                  *)
(*                                                                         *)
(* A session is its id, the index in sess.  Peer is the pair of user and   *)
(* client address.  Authentication, keys, host routes and HIP reports are  *)
(* left out, as are reloads that replace the gateway and its pool.         *)
(***************************************************************************)
EXTENDS Naturals, Sequences

CONSTANTS
  Peer, PoolIp,
  HttpThread,       \* requests served at a time
  MaxLogins,        \* bound: sessions created
  MaxCrashes        \* bound: workers that exit

VARIABLES sess, used,      \* sessions by id; addresses taken from the pool
          alive, gwState,  \* the worker, and what the daemon takes it for
          doing, crashes      \* where each thread is
protectVars == <<sess, used, alive, gwState, doing, crashes>>

TickThread == "tick"
ASSUME ProtectAssumption == TickThread \notin HttpThread

AtRest == [pc |-> "idle", s |-> 0, todo |-> {}, then |-> "idle", peer |-> "none"]
Listed == {s \in DOMAIN sess : sess[s].listed}

ProtectInit ==
  /\ sess = <<>> /\ used = {} /\ alive = TRUE /\ gwState = "up"
  /\ doing = [p \in HttpThread \cup {TickThread} |-> AtRest] /\ crashes = 0

Goto(p, pc) == doing' = [doing EXCEPT ![p].pc = pc]
Rest(p) == doing' = [doing EXCEPT ![p] = AtRest]
\* End every session of a list that was read before, then go on.
EndAll(p, todo, then) == doing' = [doing EXCEPT ![p] = [@ EXCEPT !.pc = "end", !.s = 0, !.todo = todo, !.then = then]]
workerVars == <<alive, gwState, crashes>>

(* ------------------------------ end_session ----------------------------- *)

EndNone(p) ==
  /\ doing[p].pc = "end" /\ doing[p].todo = {}
  /\ IF doing[p].then = "idle" THEN Rest(p) ELSE Goto(p, doing[p].then)
  /\ UNCHANGED <<sess, used, workerVars>>
MarkOver(p, s, over) ==
  /\ doing[p].pc = "end" /\ sess' = [sess EXCEPT ![s].ended = TRUE]
  /\ doing' = IF over THEN [doing EXCEPT ![p].todo = @ \ {s}]
              ELSE [doing EXCEPT ![p] = [@ EXCEPT !.todo = doing[p].todo \ {s}, !.s = s, !.pc = "free"]]
  /\ UNCHANGED <<used, workerVars>>
EndMarkAgain(p) == \E s \in doing[p].todo : MarkOver(p, s, FALSE)
EndMark(p) == \E s \in doing[p].todo : MarkOver(p, s, sess[s].ended)

\* by_cookie, then sessions and the pool; the worker forgets the tunnel.
EndFree(p) ==
  /\ doing[p].pc = "free" /\ doing' = [doing EXCEPT ![p] = [@ EXCEPT !.pc = "end", !.s = 0]]
  /\ sess' = [sess EXCEPT ![doing[p].s] = [@ EXCEPT !.cookie = FALSE, !.listed = FALSE, !.tunnel = "none"]]
  /\ used' = used \ {sess[doing[p].s].ip}
  /\ UNCHANGED workerVars
EndSteps(p) == EndNone(p) \/ EndMark(p) \/ EndFree(p)

(* --------------------------------- login -------------------------------- *)

\* login and the first half of new_session: the sessions to replace are read,
\* then ended, and only then is the new one made, under the lock again.
LoginStart(h, peer) ==
  /\ doing[h] = AtRest /\ gwState = "up" /\ Len(sess) < MaxLogins
  /\ doing' = [doing EXCEPT ![h] = [@ EXCEPT !.pc = "end", !.todo = {s \in Listed : sess[s].peer = peer},
                                            !.then = "allocate", !.peer = peer]]
  /\ UNCHANGED <<sess, used, workerVars>>
LoginAllocate(h) ==
  /\ doing[h].pc = "allocate" /\ Len(sess) < MaxLogins
  /\ \E ip \in PoolIp \ used :
       /\ used' = used \cup {ip}
       /\ sess' = Append(sess, [peer |-> doing[h].peer, ip |-> ip, listed |-> TRUE, cookie |-> FALSE,
                                ended |-> FALSE, tunnel |-> "none", reopened |-> FALSE])
       /\ doing' = [doing EXCEPT ![h] = [AtRest EXCEPT !.pc = "publish", !.s = Len(sess) + 1]]
  /\ UNCHANGED workerVars
LoginRefused(h) ==
  /\ doing[h].pc = "allocate" /\ (PoolIp \subseteq used \/ Len(sess) = MaxLogins) /\ Rest(h)
  /\ UNCHANGED <<sess, used, workerVars>>
LoginPublish(h) ==
  /\ doing[h].pc = "publish" /\ Rest(h) /\ sess' = [sess EXCEPT ![doing[h].s].cookie = TRUE]
  /\ UNCHANGED <<used, workerVars>>

(* ------------------------ requests with a cookie ------------------------ *)

Logout(h, s) ==
  /\ doing[h] = AtRest /\ sess[s].cookie /\ EndAll(h, {s}, "idle")
  /\ UNCHANGED <<sess, used, workerVars>>

\* tunnel_config and tunnel: the session is looked up, then registered under
\* its lock, whether or not it was ended meanwhile.
AskTunnel(h, s, mode) ==
  /\ doing[h] = AtRest /\ sess[s].cookie /\ gwState = "up"
  /\ doing' = [doing EXCEPT ![h] = [@ EXCEPT !.pc = "register", !.s = s, !.then = mode]]
  /\ UNCHANGED <<sess, used, workerVars>>
Register(h) ==
  /\ doing[h].pc = "register" /\ alive /\ sess' = [sess EXCEPT ![doing[h].s].tunnel = "carried"]
  /\ doing' = [doing EXCEPT ![h] = IF doing[h].then = "esp" THEN AtRest ELSE [AtRest EXCEPT !.pc = "pump", !.s = doing[h].s]]
  /\ UNCHANGED <<used, workerVars>>
\* The worker is gone, or refuses after the earlier tunnel was taken down.
RegisterFails(h) ==
  /\ doing[h].pc = "register" /\ Rest(h)
  /\ sess' = IF alive THEN [sess EXCEPT ![doing[h].s].tunnel = "none"] ELSE sess
  /\ UNCHANGED <<used, workerVars>>

\* The SSL tunnel of this thread is over; unless the session was ended it is
\* ended here, or the reason of the failure is written into it.
PumpOver(h) ==
  LET s == doing[h].s IN
  /\ doing[h].pc = "pump"
  /\ \/ sess[s].ended /\ Rest(h)
     \/ ~sess[s].ended /\ EndAll(h, {s}, "idle")
     \/ ~sess[s].ended /\ Goto(h, "verdict")
  /\ UNCHANGED <<sess, used, workerVars>>
PumpVerdict(h) ==
  LET s == doing[h].s IN
  /\ doing[h].pc = "verdict" /\ Rest(h)
  /\ sess' = [sess EXCEPT ![s] = [@ EXCEPT !.ended = FALSE, !.reopened = sess[s].reopened \/ sess[s].ended]]
  /\ UNCHANGED <<used, workerVars>>

(* --------------------------------- tick --------------------------------- *)

TickDead ==
  /\ doing[TickThread] = AtRest /\ gwState = "up" /\ ~alive /\ gwState' = "error"
  /\ EndAll(TickThread, Listed, "respawn")
  /\ UNCHANGED <<sess, used, alive, crashes>>
TickError ==
  /\ doing[TickThread] = AtRest /\ gwState = "error" /\ Goto(TickThread, "respawn")
  /\ UNCHANGED <<sess, used, workerVars>>
\* Worker.stop and start; a start that fails is tried again by the next tick.
Respawn ==
  /\ doing[TickThread].pc = "respawn" /\ Rest(TickThread)
  /\ \/ alive' = TRUE /\ gwState' = "up" /\ UNCHANGED crashes
     \/ crashes < MaxCrashes /\ crashes' = crashes + 1 /\ UNCHANGED <<alive, gwState>>
  /\ UNCHANGED <<sess, used>>
\* Idle ESP sessions and sessions past their lifetime.
TickExpire(s) ==
  /\ doing[TickThread] = AtRest /\ gwState = "up" /\ alive /\ EndAll(TickThread, {s}, "idle")
  /\ UNCHANGED <<sess, used, workerVars>>
WorkerExits ==
  /\ alive /\ crashes < MaxCrashes /\ crashes' = crashes + 1 /\ alive' = FALSE
  /\ sess' = [s \in DOMAIN sess |-> [sess[s] EXCEPT !.tunnel = IF @ = "carried" THEN "gone" ELSE @]]
  /\ UNCHANGED <<used, gwState, doing>>

Recovery == TickDead \/ TickError \/ Respawn \/ EndSteps(TickThread)
Proceed(h) == EndSteps(h) \/ Register(h) \/ RegisterFails(h) \/ PumpVerdict(h)
Request(h) ==
  \/ \E peer \in Peer : LoginStart(h, peer)
  \/ LoginAllocate(h) \/ LoginRefused(h) \/ LoginPublish(h)
  \/ \E s \in DOMAIN sess : Logout(h, s) \/ \E mode \in {"esp", "ssl"} : AskTunnel(h, s, mode)
  \/ PumpOver(h)
ProtectNext ==
  \/ Recovery \/ (\E s \in Listed : TickExpire(s)) \/ WorkerExits
  \/ \E h \in HttpThread : Request(h) \/ Proceed(h)
ProtectSpec == ProtectInit /\ [][ProtectNext]_protectVars

(* ------------------------------ properties ------------------------------ *)

\* The address of a session is taken, and by this session only, whoever ends
\* which session and however often: an address is freed once.  The one way
\* around it is a tunnel thread that writes its verdict over the end.
OneHolder ==
  (\A s \in DOMAIN sess : ~sess[s].reopened) =>
    /\ \A s \in Listed : sess[s].ip \in used
    /\ \A s, t \in Listed : s # t => sess[s].ip # sess[t].ip

\* "A worker restart drops its sessions": once a worker is up again no session
\* is still listed with a tunnel in the one that is gone, also not one that
\* was set up while the loss was being handled; at most its end is under way.
WorkerRestartDrops ==
  gwState = "up" /\ alive =>
    \A s \in Listed : sess[s].tunnel = "gone" => sess[s].ended \/ sess[s].reopened

\* What is listed as a session has its address, and a worker that carries it.
SessionsAreSound == OneHolder /\ WorkerRestartDrops
=============================================================================
