----------------------------- MODULE DhcpServer -----------------------------
(***************************************************************************)
(* The DHCP server of the dataplane (opt/ffn_dhcp_server.py): one device's *)
(* lease table, the clients that rely on it, the raw socket that goes dead *)
(* when the device is re-created, and the intent that an apply replaces.   *)
(*                                                                         *)
(* A frame is handled in one go, but its reply may be lost, the process    *)
(* may die before the reply is sent, and clients may be silent for long.   *)
(* Clients decline only what they were just given, and one client has one  *)
(* reserved address.  Relayed frames, INFORM and options change no state.  *)
(***************************************************************************)
EXTENDS Naturals, Sequences, FiniteSets, SequencesExt, FiniteSetsExt

CONSTANTS
  Client,
  Address,        \* the pool, in order
  Reserved,       \* a function from some clients to addresses of the pool
  LeaseTime, OfferTime, DeclineTime,
  MaxClock,       \* bound: the clock
  MaxIncidents    \* bound: restarts, devices re-created, applies

\* validate: MIN_LEASE is OFFER_SECONDS.
ASSUME TimesAssumption ==
  /\ OfferTime \in Nat \ {0} /\ LeaseTime \in Nat /\ OfferTime <= LeaseTime
  /\ DeclineTime \in Nat

VARIABLES leases, saved,       \* the table in memory and on disk
          promise,           \* what each client was told: address, until, offered or bound
          clock,
          device, sock,      \* the device's index (0: absent) and the one the socket is bound to
          intent, serving, hup, reading,   \* revisions; SIGHUP pending; a reload under way
          incidents
dhcpVars == <<leases, saved, promise, clock, device, sock, intent, serving, hup, reading, incidents>>
tableVars == <<leases, saved, promise, clock>>
daemonVars == <<device, sock, intent, serving, hup, reading, incidents>>

Nobody == "nobody"
Spare == [state |-> "free", key |-> Nobody, until |-> 0]
Nothing == [state |-> "none", ip |-> Nobody, until |-> 0]
Pool == ToSet(Address)
ReservedIps == {Reserved[c] : c \in DOMAIN Reserved}

\* validate: reservations are unique.
ASSUME PoolAssumption ==
  /\ Address \in Seq(Pool) /\ Nobody \notin Client /\ Nobody \notin Pool
  /\ DOMAIN Reserved \subseteq Client
  /\ \A c \in DOMAIN Reserved : Reserved[c] \in Pool
  /\ \A c, d \in DOMAIN Reserved : Reserved[c] = Reserved[d] => c = d

DhcpInit ==
  /\ leases = [a \in Pool |-> Spare] /\ saved = leases
  /\ promise = [c \in Client |-> Nothing] /\ clock = 0
  /\ device = 1 /\ sock = 1 /\ intent = 1 /\ serving = 1 /\ hup = FALSE /\ reading = 0 /\ incidents = 0

(* ------------------------------ lease table ----------------------------- *)

\* expire: the first thing every frame does.
Unexpired == [a \in Pool |-> IF leases[a].state # "free" /\ leases[a].until <= clock THEN Spare ELSE leases[a]]
HeldBy(t, c) == {a \in Pool : t[a].key = c /\ t[a].state \in {"offered", "bound"}}

\* allocate: the reservation, what the client holds, what it asks for, the
\* first address that is neither reserved nor in a row of another client; busy addresses answer the probe and are put
\* away on the way.  <<>> when nothing is free.
Tries(c, want) ==
  IF c \in DOMAIN Reserved THEN <<Reserved[c]>>
  ELSE (IF want \in Pool THEN <<want>> ELSE <<>>) \o Address
Allocate(t, c, want, busy) ==
  LET fixed == c \in DOMAIN Reserved
      held == HeldBy(t, c)
      list == IF held # {} /\ ~fixed THEN <<CHOOSE a \in held : TRUE>> ELSE Tries(c, want)
      open == {i \in DOMAIN list :
                 \/ fixed \/ held # {}
                 \/ /\ list[i] \notin ReservedIps
                    /\ t[list[i]].key = c \/ t[list[i]].state = "free"}
      quiet == {i \in open : fixed \/ held # {} \/ list[i] \notin busy}
      pick == IF quiet = {} THEN 0 ELSE Min(quiet)
      away == {list[i] : i \in {j \in open \ quiet : pick = 0 \/ j < pick}}
  IN [ip |-> IF pick = 0 THEN Nobody ELSE list[pick],
      table |-> [a \in Pool |-> IF a \in away
                   THEN [state |-> "declined", key |-> Nobody, until |-> clock + DeclineTime] ELSE t[a]]]

\* bind and save.
Bound(t, a, c, state) ==
  [t EXCEPT ![a] = [state |-> state, key |-> c,
                    until |-> clock + IF state = "bound" THEN LeaseTime ELSE OfferTime]]
\* release: only by the client that the row names.
Vacated(t, a, c) == IF a \in Pool /\ t[a].key = c THEN [t EXCEPT ![a] = Spare] ELSE t

OfferedTo(t, a, c, boundOnly) ==
  \/ c \in DOMAIN Reserved /\ Reserved[c] = a
  \/ /\ a \notin ReservedIps /\ t[a].key = c
     /\ t[a].state = "bound" \/ (~boundOnly /\ t[a].state = "offered")

NoPromise(c) == [promise EXCEPT ![c] = Nothing]
\* What the client believes after the reply, if it gets it.
Answered(was, c, a, t) ==
  promise' \in {was, [promise EXCEPT ![c] = [state |-> t[a].state, ip |-> a, until |-> t[a].until]]}

SocketLive == reading = 0 /\ sock # 0 /\ sock = device
DoneVolatile(t) == leases' = t /\ UNCHANGED saved
Done(t) == leases' = t /\ saved' = t
\* Nothing but the expiry, which is saved only if it removed a row.
Looked(t) == leases' = t /\ saved' = IF Unexpired # leases THEN Unexpired ELSE saved

\* A client that discovers has given up what it had.
Discover(c, want, busy) ==
  /\ SocketLive
  /\ LET got == Allocate(Unexpired, c, want, busy)
         t == Bound(got.table, got.ip, c, "offered")
     IN IF got.ip = Nobody
        THEN Looked(got.table) /\ promise' = NoPromise(c)
        ELSE Done(t) /\ Answered(NoPromise(c), c, got.ip, t)
  /\ UNCHANGED <<clock, daemonVars>>

\* A REQUEST naming this server, an INIT-REBOOT or a renewal: ACK or NAK.
RequestGiven(c, a, ok) ==
  /\ SocketLive
  /\ LET t == IF ok THEN Bound(Unexpired, a, c, "bound") ELSE Unexpired
     IN IF ok THEN Done(t) /\ Answered(promise, c, a, t)
        ELSE Looked(t) /\ promise' \in {promise, NoPromise(c)}
  /\ UNCHANGED <<clock, daemonVars>>
Request(c, a, boundOnly) == RequestGiven(c, a, OfferedTo(Unexpired, a, c, boundOnly))

\* The client took another server's offer.
RequestOther(c) ==
  /\ SocketLive /\ promise' = NoPromise(c)
  /\ LET offers == {a \in HeldBy(Unexpired, c) : Unexpired[a].state = "offered"}
     IN IF offers = {} THEN Looked(Unexpired) ELSE \E a \in offers : Done(Vacated(Unexpired, a, c))
  /\ UNCHANGED <<clock, daemonVars>>

Decline(c) ==
  /\ SocketLive /\ promise[c].state = "bound" /\ promise' = NoPromise(c)
  /\ Done([Unexpired EXCEPT ![promise[c].ip] = [state |-> "declined", key |-> Nobody, until |-> clock + DeclineTime]])
  /\ UNCHANGED <<clock, daemonVars>>

ReleaseLease(c) ==
  /\ promise[c].state = "bound" /\ promise' = NoPromise(c)
  /\ \/ SocketLive /\ Unexpired[promise[c].ip].key = c /\ Done(Vacated(Unexpired, promise[c].ip, c))
     \/ SocketLive /\ Unexpired[promise[c].ip].key # c /\ Looked(Unexpired)
     \/ UNCHANGED <<leases, saved>>
  /\ UNCHANGED <<clock, daemonVars>>

\* Time passes; clients give up what has run out.
Clock ==
  /\ clock < MaxClock /\ clock' = clock + 1
  /\ promise' = [c \in Client |-> IF promise[c].until <= clock' THEN Nothing ELSE promise[c]]
  /\ UNCHANGED <<leases, saved, daemonVars>>

(* -------------------------------- daemon -------------------------------- *)

Incident == incidents < MaxIncidents /\ incidents' = incidents + 1

\* The device goes away or comes back, always under a new index.
DeviceGone == Incident /\ device' = 0 /\ UNCHANGED <<tableVars, sock, intent, serving, hup, reading>>
DeviceBack ==
  /\ device = 0 /\ device' \in 1 .. (MaxIncidents + 1) \ {sock}
  /\ UNCHANGED <<tableVars, sock, intent, serving, hup, reading, incidents>>

\* maintain: watch faults a socket whose device is gone or has a new index,
\* and whatever has no socket is opened again.
MaintainUnless(fine) ==
  /\ reading = 0 /\ serving # 0
  /\ sock' = IF fine THEN sock ELSE device
  /\ UNCHANGED <<tableVars, device, intent, serving, hup, reading, incidents>>
MaintainOpenOnly == MaintainUnless(sock # 0)
Maintain == MaintainUnless(sock = device)

\* A receive or a send on a dead socket faults it.
SocketFault ==
  /\ reading = 0 /\ sock # 0 /\ sock # device /\ sock' = 0
  /\ UNCHANGED <<tableVars, device, intent, serving, hup, reading, incidents>>

\* apply: the intent is on disk before the daemon is signalled.
ApplyIntent ==
  /\ Incident /\ intent' = intent + 1 /\ hup' = TRUE
  /\ UNCHANGED <<tableVars, device, sock, serving, reading>>

\* reload: the intent is read first and the request cleared at the very end.
\* Another revision means another spec: the instance is replaced and the
\* leases are read from disk again.
ReloadBegin ==
  /\ hup /\ reading = 0 /\ reading' = intent
  /\ UNCHANGED <<tableVars, device, sock, intent, serving, hup, incidents>>
ReloadEnd ==
  /\ reading # 0 /\ hup' = FALSE /\ serving' = reading /\ reading' = 0
  /\ IF serving = reading THEN UNCHANGED <<leases, sock>> ELSE leases' = saved /\ sock' = 0
  /\ UNCHANGED <<saved, promise, clock, device, intent, incidents>>

DaemonRestart ==
  /\ Incident /\ leases' = saved /\ sock' = 0 /\ serving' = 0 /\ hup' = TRUE /\ reading' = 0
  /\ UNCHANGED <<saved, promise, clock, device, intent>>

Traffic == \E c \in Client :
  \/ \E want \in Pool \cup {Nobody}, busy \in {{}} \cup {{a} : a \in Pool} : Discover(c, want, busy)
  \/ \E a \in Pool, boundOnly \in BOOLEAN : Request(c, a, boundOnly)
  \/ RequestOther(c) \/ Decline(c) \/ ReleaseLease(c)
Reload == ReloadBegin \/ ReloadEnd
DhcpNext == Traffic \/ Clock \/ DeviceGone \/ DeviceBack \/ Maintain \/ SocketFault
            \/ ApplyIntent \/ Reload \/ DaemonRestart
DhcpSpec == DhcpInit /\ [][DhcpNext]_dhcpVars

(* ------------------------------ properties ------------------------------ *)

\* What a client was told, offer or lease, stands until it runs out: the table
\* and the disk both still name the client, so that nobody else is given the
\* address, whatever was lost, expired, declined or restarted in between.
PromisesKept ==
  \A c \in Client : LET p == promise[c] IN
    p.state # "none" => \A t \in {leases, saved} : t[p.ip].key = c /\ t[p.ip].until >= p.until

\* A device that is re-created is served again: the socket does not stay
\* bound to an index that is gone.
ServedAgain == device # 0 /\ sock # device ~> sock = device \/ device = 0

=============================================================================
