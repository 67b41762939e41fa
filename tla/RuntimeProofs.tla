--------------------------- MODULE RuntimeProofs ---------------------------
(***************************************************************************)
(* The services that keep state beside the running configuration: the DHCP *)
(* server keeps its promises, the session journal tells every story once   *)
(* and truly, and an apply of the security policy is all or nothing; for   *)
(* every pool and policy, any number of clients and sessions, any buffer   *)
(* and any crashes.                                                        *)
(***************************************************************************)
EXTENDS DhcpServer, SessionJournal, SecurityLease, SequenceTheorems, WellFoundedInduction, TLAPS

(* Every set of numbers that is not empty has a least one.                 *)
LEMMA Least == ASSUME NEW T, T \subseteq Nat, T # {} PROVE \E x \in T : \A y \in T : x <= y
  <1>1. \E x \in T : \A y \in T : ~(<<y, x>> \in OpToRel(<, Nat))
    BY NatLessThanWellFounded, WFMin, Zenon
  <1>2. \A x, y \in Nat : <<y, x>> \in OpToRel(<, Nat) <=> y < x
    BY DEF OpToRel
  <1>3. \E x \in T : \A y \in T : ~(y < x)
    BY <1>1, <1>2, Zenon
  <1> QED BY <1>3

-----------------------------------------------------------------------------
(***************************************************************************)
(* DhcpServer: promises to clients.                                        *)
(***************************************************************************)

Row == [state : {"free", "offered", "bound", "declined"}, key : Client \cup {Nobody}, until : Nat]
Promise == [state : {"none", "offered", "bound"}, ip : Pool \cup {Nobody}, until : Nat]
DhcpTypes ==
    /\ leases \in [Pool -> Row] /\ saved \in [Pool -> Row]
    /\ promise \in [Client -> Promise] /\ clock \in Nat

(* A reserved address is for its client and a client with a reservation    *)
(* has no other.                                                           *)
Fits(a, c) == a \in ReservedIps \/ c \in DOMAIN Reserved => c \in DOMAIN Reserved /\ Reserved[c] = a
RowsFit(t) ==
    \A a \in Pool : /\ t[a].key \in Client <=> t[a].state \in {"offered", "bound"}
                    /\ t[a].key \in Client => Fits(a, t[a].key)

Timely == \A c \in Client : promise[c].state # "none" =>
              clock < promise[c].until /\ promise[c].until <= clock + LeaseTime
Keeps(t, c) ==
    promise[c].state # "none" =>
      /\ promise[c].ip \in Pool
      /\ t[promise[c].ip].key = c /\ t[promise[c].ip].until >= promise[c].until

DhcpInv ==
    /\ DhcpTypes /\ Timely
    /\ RowsFit(leases) /\ RowsFit(saved)
    /\ \A c \in Client : Keeps(leases, c) /\ Keeps(saved, c)

-----------------------------------------------------------------------------
LEMMA DhcpConstants ==
    /\ LeaseTime \in Nat /\ OfferTime \in Nat /\ DeclineTime \in Nat
    /\ 0 < OfferTime /\ OfferTime <= LeaseTime
    /\ Nobody \notin Client /\ Nobody \notin Pool
  BY TimesAssumption, PoolAssumption

LEMMA DhcpInitially == DhcpInit => DhcpInv
  <1> SUFFICES ASSUME DhcpInit PROVE DhcpInv
    OBVIOUS
  <1>1. Spare \in Row /\ Nothing \in Promise
    BY DEF Spare, Row, Nothing, Promise
  <1>2. DhcpTypes
    BY <1>1 DEF DhcpInit, DhcpTypes
  <1>3. Timely /\ \A c \in Client : Keeps(leases, c) /\ Keeps(saved, c)
    BY DEF DhcpInit, Timely, Keeps, Nothing
  <1>4. RowsFit(leases) /\ RowsFit(saved)
    BY DhcpConstants DEF DhcpInit, RowsFit, Spare
  <1> QED BY <1>2, <1>3, <1>4 DEF DhcpInv

(* expire removes no row that a client relies on.                          *)
LEMMA ExpiryIsSafe ==
    ASSUME DhcpInv
    PROVE  /\ Unexpired \in [Pool -> Row] /\ RowsFit(Unexpired)
           /\ \A c \in Client : Keeps(Unexpired, c)
  <1>1. Spare \in Row
    BY DEF Spare, Row
  <1>2. Unexpired \in [Pool -> Row]
    BY <1>1 DEF Unexpired, DhcpInv, DhcpTypes
  <1>3. RowsFit(Unexpired)
    BY DhcpConstants DEF Unexpired, RowsFit, Spare, DhcpInv
  <1>4. ASSUME NEW c \in Client PROVE Keeps(Unexpired, c)
    <2> SUFFICES ASSUME promise[c].state # "none"
                 PROVE  /\ promise[c].ip \in Pool
                        /\ Unexpired[promise[c].ip] = leases[promise[c].ip]
      BY DEF Keeps, DhcpInv
    <2>1. /\ promise[c].ip \in Pool /\ clock < promise[c].until
          /\ leases[promise[c].ip].until >= promise[c].until
      BY DEF DhcpInv, Keeps, Timely
    <2>2. /\ clock \in Nat /\ promise[c].until \in Nat
          /\ leases[promise[c].ip].until \in Nat
      BY <2>1 DEF DhcpInv, DhcpTypes, Row, Promise
    <2>3. ~(leases[promise[c].ip].until <= clock)
      BY <2>1, <2>2
    <2> QED BY <2>1, <2>3 DEF Unexpired
  <1> QED BY <1>2, <1>3, <1>4

(* A step in which the server deals with one client: the others' rows      *)
(* stay, and what the client is told stands in the new table and on disk.  *)
LEMMA ClientStep ==
    ASSUME DhcpInv, NEW c \in Client, NEW r \in Promise,
           promise' = [promise EXCEPT ![c] = r], clock' = clock,
           leases' \in [Pool -> Row], saved' \in [Pool -> Row],
           RowsFit(leases'), RowsFit(saved'),
           \A d \in Client \ {c} : Keeps(leases', d) /\ Keeps(saved', d),
           r.state # "none" =>
             /\ r.ip \in Pool /\ clock < r.until /\ r.until <= clock + LeaseTime
             /\ leases'[r.ip].key = c /\ leases'[r.ip].until >= r.until
             /\ saved'[r.ip].key = c /\ saved'[r.ip].until >= r.until
    PROVE  DhcpInv'
  <1>1. DhcpTypes'
    BY DEF DhcpInv, DhcpTypes
  <1>2. /\ promise'[c] = r
        /\ \A d \in Client \ {c} : promise'[d] = promise[d]
    BY DEF DhcpInv, DhcpTypes
  <1>3. Timely'
    BY <1>2 DEF DhcpInv, Timely
  <1>4. RowsFit(leases)' /\ RowsFit(saved)'
    BY DEF RowsFit
  <1>5. ASSUME NEW d \in Client PROVE (Keeps(leases, d) /\ Keeps(saved, d))'
    BY <1>2 DEF Keeps
  <1> QED BY <1>1, <1>3, <1>4, <1>5 DEF DhcpInv

LEMMA MinIsIn == ASSUME NEW T, T \subseteq Nat, T # {} PROVE Min(T) \in T
  BY Least DEF Min

(* allocate: what it gives the client is free or the client's already, and *)
(* fits its reservation; rows in use are left alone.                       *)
LEMMA AllocateIsSafe ==
    ASSUME NEW t \in [Pool -> Row], RowsFit(t), clock \in Nat,
           NEW c \in Client, NEW ask, NEW busy,
           NEW got, got = Allocate(t, c, ask, busy)
    PROVE  /\ got.table \in [Pool -> Row] /\ RowsFit(got.table)
           /\ \A a \in Pool : t[a].state # "free" => got.table[a] = t[a]
           /\ got.ip # Nobody => got.ip \in Pool /\ Fits(got.ip, c) /\ got.table[got.ip].key \in {c, Nobody}
  <1> DEFINE fixed == c \in DOMAIN Reserved
             held == HeldBy(t, c)
             list == IF held # {} /\ ~fixed THEN <<CHOOSE a \in held : TRUE>> ELSE Tries(c, ask)
             open == {i \in DOMAIN list :
                        \/ fixed \/ held # {}
                        \/ /\ list[i] \notin ReservedIps
                           /\ t[list[i]].key = c \/ t[list[i]].state = "free"}
             quiet == {i \in open : fixed \/ held # {} \/ list[i] \notin busy}
             pick == IF quiet = {} THEN 0 ELSE Min(quiet)
             away == {list[i] : i \in {j \in open \ quiet : pick = 0 \/ j < pick}}
             declined == [state |-> "declined", key |-> Nobody, until |-> clock + DeclineTime]
  <1>1. /\ got.ip = IF pick = 0 THEN Nobody ELSE list[pick]
        /\ got.table = [a \in Pool |-> IF a \in away THEN declined ELSE t[a]]
    BY DEF Allocate
  <1>2. HeldBy(t, c) = {a \in Pool : t[a].key = c}
    BY DEF HeldBy, RowsFit
  <1>3. /\ list \in Seq(Pool)
        /\ held # {} /\ ~fixed => list \in Seq(held)
        /\ fixed => list = <<Reserved[c]>>
    <2>1. Address \in Seq(Pool) /\ (fixed => Reserved[c] \in Pool)
      BY PoolAssumption
    <2>2. Tries(c, ask) \in Seq(Pool)
      BY <2>1 DEF Tries
    <2>3. held \subseteq Pool /\ (held # {} => (CHOOSE a \in held : TRUE) \in held)
      BY DEF HeldBy
    <2> HIDE DEF held
    <2>4. held # {} => <<CHOOSE a \in held : TRUE>> \in Seq(held)
      BY <2>3
    <2>5. fixed => list = <<Reserved[c]>>
      BY DEF Tries
    <2> QED BY <2>2, <2>3, <2>4, <2>5
  <1> HIDE DEF held, list
  <1>4. open \subseteq Nat /\ (\A i \in open : list[i] \in Pool) /\ quiet \subseteq open
    BY <1>3
  <1>5. /\ \A i \in open : Fits(list[i], c) /\ t[list[i]].key \in {c, Nobody}
        /\ \A i \in open \ quiet : t[list[i]].state = "free"
    <2>1. CASE fixed
      <3>1. \A i \in open : list[i] = Reserved[c]
        BY <1>3, <2>1
      <3>2. t[Reserved[c]].key \in Client => t[Reserved[c]].key = c
        BY <2>1, PoolAssumption DEF RowsFit, Fits, ReservedIps
      <3>3. t[Reserved[c]].key \in Client \cup {Nobody} /\ Fits(Reserved[c], c)
        BY <2>1, PoolAssumption DEF Row, Fits
      <3> QED BY <2>1, <3>1, <3>2, <3>3
    <2>2. CASE ~fixed /\ held # {}
      <3>1. \A i \in open : list[i] \in held
        BY <1>3, <2>2
      <3>2. \A a \in held : a \in Pool /\ t[a].key = c /\ Fits(a, c)
        BY <1>2 DEF held, RowsFit
      <3> QED BY <2>2, <3>1, <3>2
    <2>3. CASE ~fixed /\ held = {}
      <3>1. \A i \in open : list[i] \notin ReservedIps /\ (t[list[i]].key = c \/ t[list[i]].state = "free")
        BY <2>3
      <3>2. \A a \in Pool : t[a].key # c
        BY <1>2, <2>3 DEF held
      <3>3. \A i \in open : t[list[i]].state = "free"
        BY <1>4, <3>1, <3>2
      <3>4. \A a \in Pool : t[a].state = "free" => t[a].key = Nobody
        BY DEF RowsFit, Row
      <3> QED BY <1>4, <2>3, <3>1, <3>3, <3>4 DEF Fits
    <2> QED BY <2>1, <2>2, <2>3
  <1>6. \A a \in away : a \in Pool /\ t[a].state = "free"
    BY <1>4, <1>5
  <1>7. pick # 0 => pick \in open
    BY <1>4, MinIsIn
  <1> HIDE DEF open, quiet, pick, away
  <1>8. declined \in Row
    BY DhcpConstants DEF Row
  <1>9. got.table \in [Pool -> Row]
    BY <1>1, <1>8
  <1>10. RowsFit(got.table)
    BY <1>1, DhcpConstants DEF RowsFit
  <1>11. \A a \in Pool : t[a].state # "free" => got.table[a] = t[a]
    BY <1>1, <1>6
  <1>12. got.ip # Nobody => got.ip \in Pool /\ Fits(got.ip, c) /\ t[got.ip].key \in {c, Nobody}
    BY <1>1, <1>4, <1>5, <1>7
  <1>13. \A a \in Pool : got.table[a].key \in {t[a].key, Nobody}
    BY <1>1
  <1> QED BY <1>9, <1>10, <1>11, <1>12, <1>13

(* A row that a client relies on is in use, and only its own.              *)
LEMMA PromisedRow ==
    ASSUME DhcpInv, NEW t \in [Pool -> Row], RowsFit(t), NEW d \in Client, Keeps(t, d),
           promise[d].state # "none"
    PROVE  /\ promise[d].ip \in Pool /\ t[promise[d].ip].key = d
           /\ t[promise[d].ip].state # "free"
  BY DEF Keeps, RowsFit

(* bind: a row that is free or the client's becomes the client's.          *)
LEMMA BindIsSafe ==
    ASSUME DhcpInv, NEW t \in [Pool -> Row], RowsFit(t), NEW c \in Client,
           \A d \in Client \ {c} : Keeps(t, d),
           NEW a \in Pool, Fits(a, c), t[a].key \in {c, Nobody},
           NEW state \in {"offered", "bound"}, NEW u, u = Bound(t, a, c, state)
    PROVE  /\ u \in [Pool -> Row] /\ RowsFit(u)
           /\ \A d \in Client \ {c} : Keeps(u, d)
           /\ u[a].state = state /\ u[a].key = c
           /\ u[a].until \in Nat /\ clock < u[a].until /\ u[a].until <= clock + LeaseTime
           /\ state = "bound" => u[a].until = clock + LeaseTime
  <1> DEFINE row == [state |-> state, key |-> c,
                     until |-> clock + IF state = "bound" THEN LeaseTime ELSE OfferTime]
  <1>1. clock \in Nat
    BY DEF DhcpInv, DhcpTypes
  <1>2. /\ row \in Row /\ clock < row.until /\ row.until <= clock + LeaseTime
        /\ row.state = state /\ row.key = c /\ row.until \in Nat
        /\ state = "bound" => row.until = clock + LeaseTime
    BY <1>1, DhcpConstants DEF Row
  <1>3. u = [t EXCEPT ![a] = row]
    BY DEF Bound
  <1> HIDE DEF row
  <1>4. u \in [Pool -> Row] /\ u[a] = row /\ \A b \in Pool \ {a} : u[b] = t[b]
    BY <1>2, <1>3
  <1>5. RowsFit(u)
    BY <1>2, <1>4 DEF RowsFit
  <1>6. ASSUME NEW d \in Client \ {c} PROVE Keeps(u, d)
    BY <1>4, DhcpConstants DEF Keeps
  <1> QED BY <1>2, <1>4, <1>5, <1>6

(* The reply reaches the client, or is lost.                               *)
LEMMA ReplyStep ==
    ASSUME DhcpInv, NEW c \in Client, NEW a \in Pool, NEW was \in {promise, NoPromise(c)},
           NEW t \in [Pool -> Row], RowsFit(t), Done(t), clock' = clock,
           Answered(was, c, a, t), \A d \in Client \ {c} : Keeps(t, d), was = promise => Keeps(t, c),
           t[a].state \in {"offered", "bound"}, t[a].key = c,
           clock < t[a].until, t[a].until <= clock + LeaseTime
    PROVE  DhcpInv'
  <1> DEFINE r == [state |-> t[a].state, ip |-> a, until |-> t[a].until]
  <1>1. leases' = t /\ saved' = t
    BY DEF Done
  <1>2. CASE promise' = [promise EXCEPT ![c] = r]
    <2>1. t[a].until \in Nat
      BY DEF Row
    <2>2. r \in Promise /\ r.ip = a /\ r.until = t[a].until /\ t[a].until >= r.until
      BY <2>1 DEF Promise
    <2> HIDE DEF r
    <2> QED BY <1>1, <1>2, <2>2, ClientStep
  <1>3. CASE promise' = NoPromise(c)
    <2>1. Nothing \in Promise /\ Nothing.state = "none"
      BY DEF Nothing, Promise
    <2> QED BY <1>1, <1>3, <2>1, ClientStep DEF NoPromise
  <1>4. CASE was = promise /\ promise' = promise
    <2>1. promise' = [promise EXCEPT ![c] = promise[c]] /\ promise[c] \in Promise
      BY <1>4 DEF DhcpInv, DhcpTypes
    <2>2. promise[c].state # "none" =>
             /\ promise[c].ip \in Pool /\ clock < promise[c].until /\ promise[c].until <= clock + LeaseTime
             /\ t[promise[c].ip].key = c /\ t[promise[c].ip].until >= promise[c].until
      BY <1>4 DEF DhcpInv, Timely, Keeps
    <2> QED BY <1>1, <2>1, <2>2, ClientStep
  <1> QED BY <1>2, <1>3, <1>4 DEF Answered

(* The client gives up what it had, or is told nothing.                    *)
LEMMA SilentStep ==
    ASSUME DhcpInv, NEW c \in Client, promise' \in {promise, NoPromise(c)}, clock' = clock,
           leases' \in [Pool -> Row], saved' \in [Pool -> Row], RowsFit(leases'), RowsFit(saved'),
           \A d \in Client : d # c \/ promise' = promise => Keeps(leases', d) /\ Keeps(saved', d)
    PROVE  DhcpInv'
  <1>1. CASE promise' = NoPromise(c)
    <2>1. Nothing \in Promise /\ Nothing.state = "none"
      BY DEF Nothing, Promise
    <2> QED BY <1>1, <2>1, ClientStep DEF NoPromise
  <1>2. CASE promise' = promise
    <2>1. promise' = [promise EXCEPT ![c] = promise[c]] /\ promise[c] \in Promise
      BY <1>2 DEF DhcpInv, DhcpTypes
    <2>2. Keeps(leases', c) /\ Keeps(saved', c) /\ \A d \in Client \ {c} : Keeps(leases', d) /\ Keeps(saved', d)
      BY <1>2
    <2>3. promise[c].state # "none" => clock < promise[c].until /\ promise[c].until <= clock + LeaseTime
      BY DEF DhcpInv, Timely
    <2> QED BY <2>1, <2>2, <2>3, ClientStep DEF Keeps
  <1> QED BY <1>1, <1>2

LEMMA LookedStep ==
    ASSUME DhcpInv, NEW c \in Client, promise' \in {promise, NoPromise(c)}, clock' = clock,
           NEW t \in [Pool -> Row], RowsFit(t), \A d \in Client : Keeps(t, d), Looked(t)
    PROVE  DhcpInv'
  <1>1. leases' = t /\ saved' \in {Unexpired, saved}
    BY DEF Looked
  <1>2. /\ saved' \in [Pool -> Row] /\ RowsFit(saved')
        /\ \A d \in Client : Keeps(saved', d)
    BY <1>1, ExpiryIsSafe DEF DhcpInv, DhcpTypes
  <1> QED BY <1>1, <1>2, SilentStep

LEMMA DiscoverKeeps ==
    ASSUME DhcpInv, NEW c \in Client, NEW ask, NEW busy, Discover(c, ask, busy)
    PROVE  DhcpInv'
  <1> DEFINE got == Allocate(Unexpired, c, ask, busy)
             t == Bound(got.table, got.ip, c, "offered")
  <1>1. clock \in Nat /\ clock' = clock
    BY DEF DhcpInv, DhcpTypes, Discover
  <1>2. /\ got.table \in [Pool -> Row] /\ RowsFit(got.table)
        /\ \A a \in Pool : Unexpired[a].state # "free" => got.table[a] = Unexpired[a]
        /\ got.ip # Nobody => got.ip \in Pool /\ Fits(got.ip, c) /\ got.table[got.ip].key \in {c, Nobody}
    BY <1>1, ExpiryIsSafe, AllocateIsSafe
  <1>3. \A d \in Client : Keeps(got.table, d)
    BY <1>2, ExpiryIsSafe, PromisedRow DEF Keeps
  <1>4. CASE got.ip = Nobody
    <2>1. Looked(got.table) /\ promise' = NoPromise(c)
      BY <1>4 DEF Discover
    <2> HIDE DEF got
    <2> QED BY <1>1, <1>2, <1>3, <2>1, LookedStep
  <1>5. CASE got.ip # Nobody
    <2>1. Done(t) /\ Answered(NoPromise(c), c, got.ip, t)
      BY <1>5 DEF Discover
    <2>2. /\ t \in [Pool -> Row] /\ RowsFit(t)
          /\ \A d \in Client \ {c} : Keeps(t, d)
          /\ t[got.ip].state = "offered" /\ t[got.ip].key = c
          /\ clock < t[got.ip].until /\ t[got.ip].until <= clock + LeaseTime
      <3> HIDE DEF got
      <3> QED BY <1>2, <1>3, <1>5, BindIsSafe
    <2>3. NoPromise(c) # promise \/ Keeps(t, c)
      BY DEF NoPromise, Keeps, Nothing, DhcpInv, DhcpTypes
    <2> HIDE DEF got, t
    <2> QED BY <1>1, <1>2, <1>5, <2>1, <2>2, <2>3, ReplyStep
  <1> QED BY <1>4, <1>5

LEMMA RequestKeeps ==
    ASSUME DhcpInv, NEW c \in Client, NEW a \in Pool, NEW boundOnly, Request(c, a, boundOnly)
    PROVE  DhcpInv'
  <1> DEFINE ok == OfferedTo(Unexpired, a, c, boundOnly)
             t == Bound(Unexpired, a, c, "bound")
  <1>1. clock' = clock /\ RequestGiven(c, a, ok)
    BY DEF Request, RequestGiven
  <1>2. CASE ok
    <2>1. Fits(a, c) /\ Unexpired[a].key \in {c, Nobody}
      <3>1. CASE c \in DOMAIN Reserved /\ Reserved[c] = a
        <4>1. Unexpired[a].key \in Client => Unexpired[a].key = c
          <5>1. Unexpired[a].key \in Client => Fits(a, Unexpired[a].key)
            BY ExpiryIsSafe DEF RowsFit
          <5> QED BY <3>1, <5>1, PoolAssumption DEF Fits, ReservedIps
        <4>2. Unexpired[a].key \in Client \cup {Nobody}
          BY ExpiryIsSafe DEF Row
        <4> QED BY <3>1, <4>1, <4>2 DEF Fits
      <3>2. CASE Unexpired[a].key = c
        BY <3>2, ExpiryIsSafe DEF RowsFit
      <3> QED BY <1>2, <3>1, <3>2 DEF OfferedTo
    <2>2. /\ t \in [Pool -> Row] /\ RowsFit(t)
          /\ \A d \in Client \ {c} : Keeps(t, d)
          /\ t[a].state = "bound" /\ t[a].key = c /\ t[a].until \in Nat
          /\ clock < t[a].until /\ t[a].until <= clock + LeaseTime /\ t[a].until = clock + LeaseTime
      BY <2>1, ExpiryIsSafe, BindIsSafe
    <2>3. \A b \in Pool \ {a} : t[b] = Unexpired[b]
      BY ExpiryIsSafe DEF Bound
    <2>4. Keeps(t, c)
      <3>1. Keeps(Unexpired, c) /\ (promise[c].state # "none" => promise[c].until <= clock + LeaseTime)
        BY ExpiryIsSafe DEF DhcpInv, Timely
      <3>2. clock \in Nat /\ promise[c].until \in Nat
        BY DEF DhcpInv, DhcpTypes, Promise
      <3> HIDE DEF t
      <3> QED BY <2>2, <2>3, <3>1, <3>2, DhcpConstants DEF Keeps
    <2>5. Done(t) /\ Answered(promise, c, a, t)
      BY <1>1, <1>2 DEF RequestGiven
    <2> HIDE DEF t
    <2> QED BY <1>1, <2>2, <2>4, <2>5, ReplyStep
  <1>3. CASE ~ok
    <2>1. Looked(Unexpired) /\ promise' \in {promise, NoPromise(c)}
      BY <1>1, <1>3 DEF RequestGiven
    <2> QED BY <1>1, <2>1, ExpiryIsSafe, LookedStep
  <1> QED BY <1>2, <1>3

(* A row of the client is cleared or put away: nobody else relied on it.   *)
LEMMA ClearIsSafe ==
    ASSUME DhcpInv, NEW c \in Client, NEW a \in Pool, Unexpired[a].key = c,
           NEW row \in {Spare, [state |-> "declined", key |-> Nobody, until |-> clock + DeclineTime]},
           NEW t, t = [Unexpired EXCEPT ![a] = row]
    PROVE  t \in [Pool -> Row] /\ RowsFit(t) /\ \A d \in Client \ {c} : Keeps(t, d)
  <1>1. row \in Row /\ row.key = Nobody /\ row.state \in {"free", "declined"}
    BY DhcpConstants DEF Row, Spare, DhcpInv, DhcpTypes
  <1>2. t \in [Pool -> Row] /\ t[a] = row /\ \A b \in Pool \ {a} : t[b] = Unexpired[b]
    BY <1>1, ExpiryIsSafe
  <1>3. RowsFit(t)
    BY <1>1, <1>2, ExpiryIsSafe, DhcpConstants DEF RowsFit
  <1>4. \A d \in Client \ {c} : Keeps(t, d)
    BY <1>2, ExpiryIsSafe DEF Keeps
  <1> QED BY <1>2, <1>3, <1>4

LEMMA ClearStep ==
    ASSUME DhcpInv, NEW c \in Client, promise' = NoPromise(c), clock' = clock,
           NEW a \in Pool, Unexpired[a].key = c,
           NEW row \in {Spare, [state |-> "declined", key |-> Nobody, until |-> clock + DeclineTime]},
           Done([Unexpired EXCEPT ![a] = row])
    PROVE  DhcpInv'
  <1> DEFINE t == [Unexpired EXCEPT ![a] = row]
  <1>1. t \in [Pool -> Row] /\ RowsFit(t) /\ \A d \in Client \ {c} : Keeps(t, d)
    BY ClearIsSafe
  <1>2. leases' = t /\ saved' = t
    BY DEF Done
  <1>3. Nothing \in Promise /\ Nothing.state = "none"
    BY DEF Nothing, Promise
  <1> HIDE DEF t
  <1> QED BY <1>1, <1>2, <1>3, ClientStep DEF NoPromise

LEMMA GiveUpKeeps ==
    ASSUME DhcpInv, NEW c \in Client, RequestOther(c) \/ Decline(c) \/ ReleaseLease(c)
    PROVE  DhcpInv'
  <1>1. promise' = NoPromise(c) /\ clock' = clock
    BY DEF RequestOther, Decline, ReleaseLease
  <1>2. CASE Looked(Unexpired)
    BY <1>1, <1>2, ExpiryIsSafe, LookedStep
  <1>3. CASE RequestOther(c)
    <2>1. ASSUME NEW a \in HeldBy(Unexpired, c), Done(Vacated(Unexpired, a, c)) PROVE DhcpInv'
      <3>1. a \in Pool /\ Unexpired[a].key = c
        BY <2>1 DEF HeldBy
      <3> QED BY <1>1, <2>1, <3>1, ClearStep DEF Vacated
    <2> QED BY <1>2, <1>3, <2>1 DEF RequestOther
  <1>4. CASE Decline(c) \/ ReleaseLease(c)
    <2>1. /\ promise[c].state = "bound" /\ promise[c].ip \in Pool
          /\ Unexpired[promise[c].ip].key = c
      BY <1>4, ExpiryIsSafe DEF Decline, ReleaseLease, Keeps
    <2>2. CASE Decline(c)
      BY <1>1, <2>1, <2>2, ClearStep DEF Decline
    <2>3. CASE Done(Vacated(Unexpired, promise[c].ip, c))
      BY <1>1, <2>1, <2>3, ClearStep DEF Vacated
    <2>4. CASE UNCHANGED <<leases, saved>>
      BY <1>1, <2>4, SilentStep DEF DhcpInv, DhcpTypes
    <2> QED BY <1>2, <1>4, <2>2, <2>3, <2>4 DEF ReleaseLease
  <1> QED BY <1>3, <1>4

LEMMA ClockKeeps == ASSUME DhcpInv, Clock PROVE DhcpInv'
  <1>1. clock \in Nat /\ clock' = clock + 1 /\ leases' = leases /\ saved' = saved
    BY DEF DhcpInv, DhcpTypes, Clock
  <1>2. Nothing \in Promise /\ Nothing.state = "none"
    BY DEF Nothing, Promise
  <1>3. /\ promise' \in [Client -> Promise]
        /\ \A c \in Client : \/ promise'[c] = Nothing
                             \/ promise'[c] = promise[c] /\ ~(promise[c].until <= clock')
    <2>1. promise' = [c \in Client |-> IF promise[c].until <= clock' THEN Nothing ELSE promise[c]]
      BY DEF Clock
    <2>2. promise \in [Client -> Promise]
      BY DEF DhcpInv, DhcpTypes
    <2>3. \A c \in Client : \/ promise'[c] = Nothing
                            \/ promise'[c] = promise[c] /\ ~(promise[c].until <= clock')
      BY <2>1
    <2>4. promise' \in [Client -> Promise]
      <3>1. \A c \in Client : promise'[c] \in Promise
        BY <1>2, <2>2, <2>3
      <3> QED BY <2>1, <3>1
    <2> QED BY <2>3, <2>4
  <1>4. Timely'
    <2> SUFFICES ASSUME NEW c \in Client, promise'[c].state # "none"
                 PROVE  clock' < promise'[c].until /\ promise'[c].until <= clock' + LeaseTime
      BY DEF Timely
    <2>1. promise'[c] = promise[c] /\ ~(promise[c].until <= clock') /\ promise[c].until \in Nat
      BY <1>2, <1>3 DEF DhcpInv, DhcpTypes, Promise
    <2>2. promise[c].until <= clock + LeaseTime
      BY <2>1 DEF DhcpInv, Timely
    <2> QED BY <1>1, <2>1, <2>2, DhcpConstants
  <1>5. \A c \in Client : (Keeps(leases, c) /\ Keeps(saved, c))'
    BY <1>1, <1>2, <1>3 DEF DhcpInv, Keeps
  <1>6. DhcpTypes'
    BY <1>1, <1>3 DEF DhcpInv, DhcpTypes
  <1> QED BY <1>1, <1>4, <1>5, <1>6 DEF DhcpInv, RowsFit

LEMMA DaemonKeeps ==
    ASSUME DhcpInv, \/ DeviceGone \/ DeviceBack \/ Maintain \/ SocketFault \/ ApplyIntent
                    \/ Reload \/ DaemonRestart \/ UNCHANGED dhcpVars
    PROVE  DhcpInv'
  <1>1. UNCHANGED <<saved, promise, clock>> /\ leases' \in {leases, saved}
    BY DEF DeviceGone, DeviceBack, Maintain, MaintainUnless, SocketFault, ApplyIntent, Reload,
           ReloadBegin, ReloadEnd, DaemonRestart, dhcpVars, tableVars
  <1> QED BY <1>1 DEF DhcpInv, DhcpTypes, Timely, RowsFit, Keeps

LEMMA DhcpStep == ASSUME DhcpInv, [DhcpNext]_dhcpVars PROVE DhcpInv'
  <1>1. ASSUME Traffic PROVE DhcpInv'
    BY <1>1, DiscoverKeeps, RequestKeeps, GiveUpKeeps DEF Traffic
  <1> QED BY <1>1, ClockKeeps, DaemonKeeps DEF DhcpNext

(* What a client was told stands, in memory and on disk, until it runs     *)
(* out.                                                                    *)
THEOREM PromisesStand == DhcpSpec => []PromisesKept
  <1>1. DhcpInv => PromisesKept
    BY DEF DhcpInv, Keeps, PromisesKept
  <1> QED BY <1>1, DhcpInitially, DhcpStep, PTL DEF DhcpSpec

-----------------------------------------------------------------------------
(***************************************************************************)
(* SessionJournal: the stories of sessions.                                *)
(***************************************************************************)

Event == {"start", "end"} \X Session
Kinds == {"start", "recovered", "end", "interrupted"}
JournalTypes ==
    /\ life \in [Session -> {"new", "live", "gone"}]
    /\ socket \in Seq(Event) /\ Len(socket) <= Buffer /\ lost \in BOOLEAN
    /\ phase \in {"off", "dump", "ready"}
    /\ dumped \subseteq Session /\ rows \subseteq dumped
    /\ sessions \subseteq Session /\ log \in [Session -> Seq(Kinds)]

(* A session whose story is over is gone, and a new one has no story.      *)
Chapters ==
    /\ OneStory
    /\ \A s \in Session : /\ Len(log[s]) = 2 => life[s] = "gone"
                          /\ life[s] = "new" => log[s] = <<>>

(* Among the first n events of the socket: one of s, its end.              *)
Mentions(n, s) == \E i \in 1..n : socket[i][2] = s
Closes(n, s) == \E i \in 1..n : socket[i] = <<"end", s>>

(* A socket that lost nothing holds the latest news of each session it     *)
(* mentions: any number of starts, then perhaps the end.                   *)
News ==
    ~lost =>
      /\ \A s \in Session : Mentions(Len(socket), s) =>
           life[s] # "new" /\ (Closes(Len(socket), s) <=> life[s] = "gone")
      /\ \A i, j \in 1..Len(socket) : i < j /\ socket[i][2] = socket[j][2] => socket[i][1] = "start"

(* The dump has the others, as far as it got ...                           *)
Dumping ==
    phase = "dump" /\ ~lost =>
      \A s \in dumped : ~Mentions(Len(socket), s) => (s \in rows <=> life[s] = "live")

(* ... and a collector that is ready has them in its database, where an    *)
(* end finds its session open or after its start.                          *)
Tracking ==
    phase = "ready" /\ ~lost =>
      \A s \in Session :
        /\ ~Mentions(Len(socket), s) => (s \in sessions <=> life[s] = "live")
        /\ Mentions(Len(socket), s) => Len(log[s]) <= 1
        /\ s \notin sessions => \A i \in 1..Len(socket) : socket[i] = <<"end", s>> => Mentions(i - 1, s)

Off == phase = "off" => socket = <<>> /\ ~lost /\ dumped = {} /\ rows = {}

JournalInv == JournalTypes /\ Chapters /\ News /\ Dumping /\ Tracking /\ Off

-----------------------------------------------------------------------------
(* Induction up to a bound: a set of numbers that holds 0, and with every  *)
(* number below the bound the next, holds all up to the bound.             *)
LEMMA UpTo ==
    ASSUME NEW N \in Nat, NEW T, 0 \in T, \A n \in 1..N : n - 1 \in T => n \in T
    PROVE  0..N \subseteq T
  <1> DEFINE Bad == (0..N) \ T
  <1> SUFFICES ASSUME Bad # {} PROVE FALSE
    OBVIOUS
  <1>1. PICK k \in Bad : \A j \in Bad : k <= j
    <2>1. Bad \subseteq Nat
      OBVIOUS
    <2> HIDE DEF Bad
    <2> QED BY <2>1, Least
  <1>2. k \in 1..N /\ k - 1 \in 0..N /\ ~(k <= k - 1)
    BY <1>1
  <1> QED BY <1>1, <1>2

(* A function defined by recursion from each number to the next exists.    *)
Steps(N, S) == [1..N -> [S -> S]]
IsFold(f, N, S, c, G) ==
    f \in [0..N -> S] /\ f[0] = c /\ \A n \in 1..N : f[n] = G[n][f[n - 1]]

LEMMA FoldExists ==
    ASSUME NEW N \in Nat, NEW S, NEW c \in S, NEW G \in Steps(N, S)
    PROVE  \E f : IsFold(f, N, S, c, G)
  <1>0. G \in [1..N -> [S -> S]]
    BY DEF Steps
  <1> DEFINE Good(k, f) == f[0] = c /\ \A n \in 1..k : f[n] = G[n][f[n - 1]]
             T == {k \in 0..N : \E f \in [0..N -> S] : Good(k, f)}
  <1>1. 0 \in T
    <2> DEFINE f == [n \in 0..N |-> c]
    <2>1. f \in [0..N -> S] /\ Good(0, f)
      OBVIOUS
    <2> HIDE DEF f
    <2> QED BY <2>1
  <1>2. ASSUME NEW k \in 1..N, k - 1 \in T PROVE k \in T
    <2>1. PICK f \in [0..N -> S] : Good(k - 1, f)
      BY <1>2
    <2> DEFINE g == [f EXCEPT ![k] = G[k][f[k - 1]]]
    <2>2. g \in [0..N -> S] /\ g[k] = G[k][f[k - 1]] /\ \A n \in 0..N : n # k => g[n] = f[n]
      BY <1>0
    <2> HIDE DEF g
    <2>3. g[0] = c
      BY <2>1, <2>2
    <2>4. ASSUME NEW n \in 1..k PROVE g[n] = G[n][g[n - 1]]
      <3>1. n - 1 \in 0..N /\ n - 1 # k /\ n \in 0..N
        OBVIOUS
      <3>2. g[n - 1] = f[n - 1]
        BY <2>2, <3>1
      <3>3. CASE n = k
        BY <2>2, <3>2, <3>3
      <3>4. CASE n # k
        <4>1. n \in 1..(k - 1)
          BY <3>4
        <4> QED BY <2>1, <2>2, <3>1, <3>2, <3>4, <4>1
      <3> QED BY <3>3, <3>4
    <2> QED BY <2>2, <2>3, <2>4
  <1>3. N \in T
    <2> HIDE DEF T
    <2>1. 0..N \subseteq T
      BY <1>1, <1>2, UpTo
    <2> QED BY <2>1
  <1> QED BY <1>3 DEF IsFold

Stories == [Session -> Seq(Kinds)]
Databases == [open : SUBSET Session, log : Stories]

LEMMA RecordTyped ==
    ASSUME NEW db \in Databases, NEW e \in Event PROVE Record(db, e) \in Databases
  <1>1. e[1] \in Kinds /\ e[2] \in Session
    BY DEF Event, Kinds
  <1>2. db.log \in Stories /\ db.open \in SUBSET Session
    BY DEF Databases
  <1>3. Written(db.log, e[2], e[1]) \in Stories
    BY <1>1, <1>2 DEF Written, Stories
  <1> QED BY <1>1, <1>2, <1>3 DEF Record, Replay, Databases

(* record_batch is a fold over the socket ...                              *)
LEMMA BatchFolds ==
    ASSUME JournalTypes
    PROVE  /\ Batch[0] = Database
           /\ \A n \in 1..Len(socket) : Batch[n] = Record(Batch[n - 1], socket[n])
  <1> DEFINE N == Len(socket)
             G == [n \in 1..N |-> [d \in Databases |-> Record(d, socket[n])]]
             Eq(f) == f = [n \in 0..N |-> IF n = 0 THEN Database ELSE Record(f[n - 1], socket[n])]
  <1>1. N \in Nat /\ \A n \in 1..N : socket[n] \in Event
    BY DEF JournalTypes
  <1>2. Database \in Databases
    BY DEF JournalTypes, Database, Databases, Stories
  <1>3. G \in Steps(N, Databases)
    BY <1>1, RecordTyped DEF Steps
  <1>4. PICK f : IsFold(f, N, Databases, Database, G)
    <2> HIDE DEF G, N
    <2> QED BY <1>1, <1>2, <1>3, FoldExists, Zenon
  <1>5. ASSUME NEW n \in 0..N PROVE f[n] = IF n = 0 THEN Database ELSE Record(f[n - 1], socket[n])
    <2>1. CASE n = 0
      BY <1>4, <2>1 DEF IsFold
    <2>2. CASE n # 0
      <3>1. n \in 1..N /\ n - 1 \in 0..N
        BY <1>1, <2>2
      <3>2. f[n] = G[n][f[n - 1]] /\ f[n - 1] \in Databases
        BY <1>4, <3>1 DEF IsFold
      <3> QED BY <2>2, <3>1, <3>2
    <2> QED BY <2>1, <2>2
  <1>6. Eq(f)
    BY <1>4, <1>5 DEF IsFold
  <1>7. Eq(Batch)
    <2>1. Batch = CHOOSE g : Eq(g)
      BY Zenon DEF Batch
    <2> HIDE DEF Eq
    <2> QED BY <1>6, <2>1
  <1> QED BY <1>1, <1>7

(* ... and so is the replay over the dump.                                 *)
LEMMA ReplayFolds ==
    ASSUME JournalTypes
    PROVE  /\ Replayed[0] = rows
           /\ \A n \in 1..Len(socket) : Replayed[n] = Replay(Replayed[n - 1], socket[n])
  <1> DEFINE N == Len(socket)
             S == SUBSET Session
             G == [n \in 1..N |-> [d \in S |-> Replay(d, socket[n])]]
             Eq(f) == f = [n \in 0..N |-> IF n = 0 THEN rows ELSE Replay(f[n - 1], socket[n])]
  <1>1. N \in Nat /\ \A n \in 1..N : socket[n] \in Event
    BY DEF JournalTypes
  <1>2. rows \in S
    BY DEF JournalTypes
  <1>3. G \in Steps(N, S)
    <2>1. \A n \in 1..N, d \in S : Replay(d, socket[n]) \in S
      BY <1>1 DEF Replay, Event
    <2> QED BY <2>1 DEF Steps
  <1>4. PICK f : IsFold(f, N, S, rows, G)
    <2> HIDE DEF G, N, S
    <2> QED BY <1>1, <1>2, <1>3, FoldExists, Zenon
  <1>5. ASSUME NEW n \in 0..N PROVE f[n] = IF n = 0 THEN rows ELSE Replay(f[n - 1], socket[n])
    <2>1. CASE n = 0
      BY <1>4, <2>1 DEF IsFold
    <2>2. CASE n # 0
      <3>1. n \in 1..N /\ n - 1 \in 0..N
        BY <1>1, <2>2
      <3>2. f[n] = G[n][f[n - 1]] /\ f[n - 1] \in S
        BY <1>4, <3>1 DEF IsFold
      <3> QED BY <2>2, <3>1, <3>2
    <2> QED BY <2>1, <2>2
  <1>6. Eq(f)
    BY <1>4, <1>5 DEF IsFold
  <1>7. Eq(Replayed)
    <2>1. Replayed = CHOOSE g : Eq(g)
      BY Zenon DEF Replayed
    <2> HIDE DEF Eq
    <2> QED BY <1>6, <2>1
  <1> QED BY <1>1, <1>7

LEMMA TalesGrow ==
    ASSUME NEW l \in Tales
    PROVE  /\ l \in Seq(Kinds) /\ Len(l) \in 0..2 /\ (Len(l) = 0 <=> l = <<>>)
           /\ Len(l) = 0 => /\ Append(l, "start") \in Tales /\ Len(Append(l, "start")) = 1
                           /\ Append(l, "recovered") \in Tales /\ Len(Append(l, "recovered")) = 1
           /\ Len(l) = 1 => /\ Append(l, "end") \in Tales /\ Len(Append(l, "end")) = 2
                           /\ Append(l, "interrupted") \in Tales /\ Len(Append(l, "interrupted")) = 2
  <1>1. CASE l = <<>>
    BY <1>1 DEF Tales
  <1>2. ASSUME NEW b \in {"start", "recovered"}, l = <<b>>
        PROVE  /\ l \in Seq(Kinds) /\ Len(l) = 1 /\ l # <<>>
               /\ \A e \in {"end", "interrupted"} : Append(l, e) \in Tales /\ Len(Append(l, e)) = 2
    <2>1. l \in Seq(Kinds) /\ Len(l) = 1 /\ l # <<>> /\ l[1] = b
      BY <1>2 DEF Kinds
    <2>2. ASSUME NEW e \in {"end", "interrupted"}
          PROVE  Append(l, e) \in Tales /\ Len(Append(l, e)) = 2
      <3>1. /\ Append(l, e) \in Seq(Kinds) /\ Len(Append(l, e)) = 2
            /\ Append(l, e)[1] = b /\ Append(l, e)[2] = e
        <4>1. e \in Kinds
          BY DEF Kinds
        <4> QED BY <2>1, <4>1
      <3>2. <<b, e>> \in Seq(Kinds) /\ Len(<<b, e>>) = 2 /\ <<b, e>>[1] = b /\ <<b, e>>[2] = e
        BY DEF Kinds
      <3>3. \A i \in 1..2 : Append(l, e)[i] = <<b, e>>[i]
        BY <3>1, <3>2
      <3>4. Append(l, e) = <<b, e>>
        BY <3>1, <3>2, <3>3, SeqEqual
      <3> QED BY <3>1, <3>4 DEF Tales
    <2> QED BY <2>1, <2>2
  <1>3. ASSUME NEW b \in {"start", "recovered"}, NEW e \in {"end", "interrupted"}, l = <<b, e>>
        PROVE  l \in Seq(Kinds) /\ Len(l) = 2 /\ l # <<>>
    BY <1>3 DEF Kinds
  <1>4. CASE \E b \in {"start", "recovered"} : l = <<b>>
    BY <1>2, <1>4
  <1>5. CASE \E b \in {"start", "recovered"}, e \in {"end", "interrupted"} : l = <<b, e>>
    BY <1>3, <1>5
  <1> QED BY <1>1, <1>4, <1>5 DEF Tales

(* The news up to n: with one event more.                                  *)
LEMMA NextNews ==
    ASSUME NEW k \in Nat \ {0}, NEW s
    PROVE  /\ Mentions(k, s) <=> Mentions(k - 1, s) \/ socket[k][2] = s
           /\ Closes(k, s) <=> Closes(k - 1, s) \/ socket[k] = <<"end", s>>
  <1>1. \A i : i \in 1..k <=> i \in 1..(k - 1) \/ i = k
    OBVIOUS
  <1> QED BY <1>1 DEF Mentions, Closes

(* What the database holds after n events of the socket.                   *)
Recorded(n) ==
    /\ Batch[n] \in Databases
    /\ \A s \in Session :
         /\ Batch[n].log[s] \in Tales
         /\ s \in Batch[n].open <=> Len(Batch[n].log[s]) = 1
         /\ ~Mentions(n, s) => Batch[n].log[s] = log[s]
         /\ Mentions(n, s) => (s \in Batch[n].open <=> ~Closes(n, s))

LEMMA RecordsAll ==
    ASSUME JournalInv, phase = "ready", ~lost
    PROVE  \A n \in 0..Len(socket) : Recorded(n)
  <1> DEFINE N == Len(socket)
             T == {n \in 0..N : Recorded(n)}
  <1>1. N \in Nat /\ \A n \in 1..N : socket[n] \in Event
    BY DEF JournalInv, JournalTypes
  <1>2. 0 \in T
    <2>1. Batch[0] = [open |-> sessions, log |-> log]
      BY BatchFolds DEF JournalInv, Database
    <2>2. \A s : ~Mentions(0, s)
      BY DEF Mentions
    <2> QED BY <1>1, <2>1, <2>2 DEF Recorded, JournalInv, JournalTypes, Databases, Stories,
               Chapters, OneStory
  <1>3. ASSUME NEW k \in 1..N, k - 1 \in T PROVE k \in T
    <2> DEFINE e == socket[k]
               db == Batch[k - 1]
               new == Batch[k]
    <2>1. e \in Event /\ e[1] \in {"start", "end"} /\ e[2] \in Session /\ e = <<e[1], e[2]>> /\ Recorded(k - 1)
      BY <1>1, <1>3 DEF Event
    <2>2. new = Record(db, e) /\ db \in Databases /\ new \in Databases
      BY <2>1, BatchFolds, RecordTyped DEF JournalInv, Recorded
    <2>3. /\ new.open = Replay(db.open, e)
          /\ new.log = IF e[1] = "end" \/ e[2] \notin db.open THEN Written(db.log, e[2], e[1]) ELSE db.log
      BY <2>2 DEF Record
    <2>4. db.log \in [Session -> Seq(Kinds)] /\ db.open \subseteq Session
      BY <2>2 DEF Databases, Stories
    <2> HIDE DEF new, db
    <2>5. k - 1 \in 0..N /\ k \in Nat \ {0}
      BY <1>1
    <2>6. ASSUME NEW s \in Session, s # e[2]
          PROVE  /\ new.log[s] = db.log[s] /\ (s \in new.open <=> s \in db.open)
                 /\ Mentions(k, s) <=> Mentions(k - 1, s)
                 /\ Closes(k, s) <=> Closes(k - 1, s)
      BY <2>1, <2>3, <2>4, <2>5, <2>6, NextNews DEF Written, Replay
    <2>7. /\ new.log[e[2]] \in Tales
          /\ e[2] \in new.open <=> Len(new.log[e[2]]) = 1
          /\ e[2] \in new.open <=> ~Closes(k, e[2])
          /\ Mentions(k, e[2])
      <3> DEFINE s == e[2]
                 l == db.log[s]
      <3>1. l \in Tales /\ (s \in db.open <=> Len(l) = 1) /\ s \in Session
        BY <2>1 DEF Recorded, db
      <3>2. ~Closes(k - 1, s)
        <4>1. \A i, j \in 1..N : i < j /\ socket[i][2] = socket[j][2] => socket[i][1] = "start"
          BY DEF JournalInv, News
        <4>2. \A i \in 1..(k - 1) : i \in 1..N /\ i < k
          BY <1>1
        <4> QED BY <4>1, <4>2 DEF Closes
      <3>3. Mentions(k - 1, s) => s \in db.open
        BY <2>1, <3>2 DEF Recorded, db
      <3>4. Mentions(N, s) /\ Mentions(k, s)
        BY DEF Mentions
      <3>5. ~Mentions(k - 1, s) => l = log[s] /\ Len(l) <= 1
        BY <2>1, <3>4 DEF Recorded, db, JournalInv, Tracking
      <3>6. Closes(k, s) <=> e[1] = "end"
        BY <2>1, <2>5, <3>2, NextNews
      <3>7. CASE e[1] = "end"
        <4>1. s \in db.open
          <5>1. CASE ~Mentions(k - 1, s)
            <6>1. s \in sessions
              BY <2>1, <3>1, <3>7, <5>1 DEF JournalInv, Tracking
            <6>2. Len(log[s]) = 1
              BY <3>1, <6>1 DEF JournalInv, Chapters, OneStory
            <6> QED BY <3>1, <3>5, <5>1, <6>2
          <5> QED BY <3>3, <5>1
        <4>2. new.log[s] = Append(l, "end") /\ s \notin new.open
          BY <2>3, <2>4, <3>1, <3>7 DEF Written, Replay
        <4> QED BY <3>1, <3>4, <3>6, <3>7, <4>1, <4>2, TalesGrow
      <3>8. CASE e[1] = "start" /\ s \in db.open
        BY <2>3, <3>1, <3>4, <3>6, <3>8 DEF Replay
      <3>9. CASE e[1] = "start" /\ s \notin db.open
        <4>1. Len(l) = 0
          <5>1. Len(l) \in 0..2 /\ Len(l) # 1
            BY <3>1, <3>9, TalesGrow
          <5>2. ~Mentions(k - 1, s)
            BY <3>3, <3>9
          <5>3. Len(l) <= 1
            BY <3>5, <5>2
          <5> HIDE DEF l
          <5> QED BY <5>1, <5>3
        <4>2. new.log[s] = Append(l, "start") /\ s \in new.open
          BY <2>3, <2>4, <3>1, <3>9 DEF Written, Replay
        <4> QED BY <3>1, <3>4, <3>6, <3>9, <4>1, <4>2, TalesGrow
      <3> QED BY <2>1, <3>7, <3>8, <3>9
    <2>8. Recorded(k)
      <3>1. ASSUME NEW s \in Session
            PROVE  /\ new.log[s] \in Tales
                   /\ s \in new.open <=> Len(new.log[s]) = 1
                   /\ ~Mentions(k, s) => new.log[s] = log[s]
                   /\ Mentions(k, s) => (s \in new.open <=> ~Closes(k, s))
        BY <2>1, <2>6, <2>7 DEF Recorded, db
      <3> QED BY <2>2, <3>1 DEF Recorded, new
    <2> QED BY <2>8
  <1> HIDE DEF N, T
  <1>4. 0..N \subseteq T
    BY <1>1, <1>2, <1>3, UpTo
  <1> QED BY <1>4 DEF N, T

(* The replay: the news where there is some, the dump for the rest.        *)
LEMMA ReplaysAll ==
    ASSUME JournalInv, ~lost
    PROVE  \A n \in 0..Len(socket) :
             Replayed[n] = {s \in Session : IF Mentions(n, s) THEN ~Closes(n, s) ELSE s \in rows}
  <1> DEFINE N == Len(socket)
             Then(n) == {s \in Session : IF Mentions(n, s) THEN ~Closes(n, s) ELSE s \in rows}
             T == {n \in 0..N : Replayed[n] = Then(n)}
  <1>1. N \in Nat /\ \A n \in 1..N : socket[n] \in Event
    BY DEF JournalInv, JournalTypes
  <1>2. 0 \in T
    <2>1. \A s : ~Mentions(0, s)
      BY DEF Mentions
    <2>2. Replayed[0] = rows /\ rows \subseteq Session
      BY ReplayFolds DEF JournalInv, JournalTypes
    <2> QED BY <1>1, <2>1, <2>2
  <1>3. ASSUME NEW k \in 1..N, k - 1 \in T PROVE k \in T
    <2> DEFINE e == socket[k]
    <2>1. e[1] \in {"start", "end"} /\ e[2] \in Session /\ e = <<e[1], e[2]>>
      BY <1>1 DEF Event
    <2>2. Replayed[k] = Replay(Then(k - 1), e)
      BY <1>3, ReplayFolds DEF JournalInv
    <2>3. ~Closes(k - 1, e[2])
      <3>1. \A i, j \in 1..N : i < j /\ socket[i][2] = socket[j][2] => socket[i][1] = "start"
        BY DEF JournalInv, News
      <3>2. \A i \in 1..(k - 1) : i \in 1..N /\ i < k
        BY <1>1
      <3> QED BY <3>1, <3>2 DEF Closes
    <2>4. \A s : /\ Mentions(k, s) <=> Mentions(k - 1, s) \/ e[2] = s
                 /\ Closes(k, s) <=> Closes(k - 1, s) \/ e = <<"end", s>>
      BY <1>1, NextNews
    <2>5. Replay(Then(k - 1), e) = Then(k)
      <3>1. ASSUME NEW s \in Session PROVE s \in Replay(Then(k - 1), e) <=> s \in Then(k)
        <4>1. \A n : s \in Then(n) <=> IF Mentions(n, s) THEN ~Closes(n, s) ELSE s \in rows
          OBVIOUS
        <4>2. s \in Replay(Then(k - 1), e) <=>
                IF e[1] = "end" THEN s \in Then(k - 1) /\ s # e[2] ELSE s \in Then(k - 1) \/ s = e[2]
          BY DEF Replay
        <4>3. e = <<"end", s>> <=> e[1] = "end" /\ e[2] = s
          BY <2>1
        <4> HIDE DEF Then, e
        <4>4. /\ Mentions(k, s) <=> Mentions(k - 1, s) \/ e[2] = s
              /\ Closes(k, s) <=> Closes(k - 1, s) \/ (e[1] = "end" /\ e[2] = s)
          BY <2>4, <4>3
        <4>5. CASE s = e[2]
          BY <2>3, <4>1, <4>2, <4>4, <4>5
        <4>6. CASE s # e[2]
          BY <4>1, <4>2, <4>4, <4>6
        <4> QED BY <4>5, <4>6
      <3>2. Replay(Then(k - 1), e) \subseteq Session /\ Then(k) \subseteq Session
        BY <2>1 DEF Replay
      <3> HIDE DEF Then, e
      <3> QED BY <3>1, <3>2
    <2>6. k \in 0..N
      BY <1>1
    <2> HIDE DEF Then, e
    <2> QED BY <2>2, <2>5, <2>6
  <1> HIDE DEF N, T
  <1>4. 0..N \subseteq T
    BY <1>1, <1>2, <1>3, UpTo
  <1> QED BY <1>4 DEF N, T

LEMMA JournalFollows == JournalInv => JournalIsTrue
  <1> SUFFICES ASSUME JournalInv PROVE JournalIsTrue
    OBVIOUS
  <1>1. ASSUME phase = "ready", ~lost PROVE Batch[Len(socket)].open = Live
    <2>1. Len(socket) \in 0..Len(socket)
      BY DEF JournalInv, JournalTypes
    <2>2. Recorded(Len(socket))
      BY <1>1, <2>1, RecordsAll
    <2>3. Batch[Len(socket)].open \subseteq Session
      BY <2>2 DEF Recorded, Databases
    <2>4. ASSUME NEW s \in Session PROVE s \in Batch[Len(socket)].open <=> life[s] = "live"
      <3>1. CASE Mentions(Len(socket), s)
        BY <1>1, <2>2, <3>1 DEF Recorded, JournalInv, News, JournalTypes
      <3>2. CASE ~Mentions(Len(socket), s)
        BY <1>1, <2>2, <3>2 DEF Recorded, JournalInv, Tracking, Chapters, OneStory
      <3> QED BY <3>1, <3>2
    <2> QED BY <2>3, <2>4 DEF Live
  <1> QED BY <1>1 DEF JournalIsTrue, JournalTracks, JournalInv, Chapters

LEMMA JournalInitially == JournalInit => JournalInv
  <1> SUFFICES ASSUME JournalInit PROVE JournalInv
    OBVIOUS
  <1>1. Len(socket) = 0 /\ socket \in Seq(Event) /\ <<>> \in Seq(Kinds) /\ <<>> \in Tales /\ Len(<<>>) = 0
    BY DEF JournalInit, Tales
  <1>2. JournalTypes
    <2>1. log \in [Session -> Seq(Kinds)] /\ life \in [Session -> {"new", "live", "gone"}]
      BY <1>1 DEF JournalInit
    <2>2. Len(socket) <= Buffer
      BY <1>1, BufferAssumption
    <2> QED BY <1>1, <2>1, <2>2 DEF JournalInit, JournalTypes
  <1>3. Chapters
    BY <1>1 DEF JournalInit, Chapters, OneStory
  <1>4. News /\ Dumping /\ Tracking /\ Off
    BY <1>1 DEF JournalInit, News, Dumping, Tracking, Off, Mentions
  <1> QED BY <1>2, <1>3, <1>4 DEF JournalInv

(* One event more in the socket.                                           *)
LEMMA Appended ==
    ASSUME JournalTypes, NEW e \in Event, socket' = Append(socket, e)
    PROVE  /\ socket' \in Seq(Event) /\ Len(socket') = Len(socket) + 1
           /\ \A i \in 1..Len(socket) : socket'[i] = socket[i]
           /\ socket'[Len(socket) + 1] = e
           /\ \A s : /\ Mentions(Len(socket), s)' <=> Mentions(Len(socket), s) \/ e[2] = s
                     /\ Closes(Len(socket), s)' <=> Closes(Len(socket), s) \/ e = <<"end", s>>
           /\ \A s : \A i \in 1..(Len(socket) + 1) : Mentions(i - 1, s)' <=> Mentions(i - 1, s)
  <1>1. socket \in Seq(Event) /\ Len(socket) \in Nat
    BY DEF JournalTypes
  <1>2. /\ socket' \in Seq(Event) /\ Len(socket') = Len(socket) + 1
        /\ \A i \in 1..Len(socket) : socket'[i] = socket[i]
        /\ socket'[Len(socket) + 1] = e
    BY <1>1
  <1>3. \A i : i \in 1..(Len(socket) + 1) <=> i \in 1..Len(socket) \/ i = Len(socket) + 1
    BY <1>1
  <1>4. ASSUME NEW s
        PROVE  /\ Mentions(Len(socket), s)' <=> Mentions(Len(socket), s) \/ e[2] = s
               /\ Closes(Len(socket), s)' <=> Closes(Len(socket), s) \/ e = <<"end", s>>
    BY <1>2, <1>3 DEF Mentions, Closes
  <1>5. \A i \in 1..(Len(socket) + 1) : \A j \in 1..(i - 1) : j \in 1..Len(socket)
    BY <1>1
  <1>6. \A s : \A i \in 1..(Len(socket) + 1) : Mentions(i - 1, s)' <=> Mentions(i - 1, s)
    BY <1>2, <1>5 DEF Mentions
  <1> QED BY <1>2, <1>4, <1>6

(* A session that is not gone has no end in the socket and an open story.  *)
LEMMA StillOpen ==
    ASSUME JournalInv, NEW s \in Session, life[s] # "gone"
    PROVE  /\ ~lost => ~Closes(Len(socket), s)
           /\ Len(log[s]) <= 1
  <1>1. ~lost => ~Closes(Len(socket), s)
    BY DEF JournalInv, News, Mentions, Closes
  <1>2. Len(log[s]) \in 0..2 /\ Len(log[s]) # 2
    BY TalesGrow DEF JournalInv, Chapters, OneStory
  <1>3. \A n \in 0..2 : n # 2 => n <= 1
    OBVIOUS
  <1> QED BY <1>1, <1>2, <1>3

(* The kernel begins, updates or ends a session c: v is its life then.     *)
LEMMA KernelKeeps ==
    ASSUME JournalInv, NEW c \in Session, NEW v \in {"live", "gone"}, life' = [life EXCEPT ![c] = v],
           life[c] \in {"new", "live"}, v = "gone" => life[c] = "live",
           Emit(IF v = "gone" THEN "end" ELSE "start", c),
           UNCHANGED <<phase, dumped, rows, sessions, log>>
    PROVE  JournalInv'
  <1> DEFINE e == <<IF v = "gone" THEN "end" ELSE "start", c>>
  <1>1. /\ life' \in [Session -> {"new", "live", "gone"}] /\ life'[c] = v
        /\ \A s \in Session : s # c => life'[s] = life[s]
    BY DEF JournalInv, JournalTypes
  <1>2. Chapters'
    <2>1. Len(log[c]) # 2
      BY DEF JournalInv, Chapters
    <2> QED BY <1>1, <2>1 DEF JournalInv, Chapters, OneStory
  <1>3. CASE ~Listening /\ UNCHANGED <<socket, lost>>
    <2>1. \A s : ~Mentions(Len(socket), s)
      BY <1>3 DEF Listening, JournalInv, Off, Mentions
    <2>2. UNCHANGED <<socket, lost, phase, dumped, rows, sessions, log>> /\ phase = "off"
      BY <1>3 DEF Listening
    <2>3. \A s : ~Mentions(Len(socket), s)'
      BY <2>1, <2>2 DEF Mentions
    <2> QED BY <1>1, <1>2, <2>2, <2>3 DEF JournalInv, JournalTypes, News, Dumping, Tracking, Off
  <1>4. CASE Listening /\ lost' = TRUE /\ UNCHANGED socket
    <2>1. lost' /\ phase' # "off" /\ UNCHANGED <<socket, phase, dumped, rows, sessions, log>>
      BY <1>4 DEF Listening
    <2> QED BY <1>1, <1>2, <2>1 DEF JournalInv, JournalTypes, News, Dumping, Tracking, Off
  <1>5. CASE Listening /\ Len(socket) < Buffer /\ socket' = Append(socket, e) /\ UNCHANGED lost
    <2>0. /\ e \in Event /\ e[1] \in {"start", "end"} /\ e[2] = c
          /\ (e[1] = "end" <=> v = "gone") /\ \A s : e = <<"end", s>> <=> v = "gone" /\ s = c
      BY DEF Event
    <2>1. /\ socket' \in Seq(Event) /\ Len(socket') = Len(socket) + 1 /\ Len(socket) \in Nat
          /\ \A i \in 1..Len(socket) : socket'[i] = socket[i]
          /\ socket'[Len(socket) + 1] = e
      BY <1>5, <2>0, Appended DEF JournalInv, JournalTypes
    <2>2. \A s : /\ Mentions(Len(socket), s)' <=> Mentions(Len(socket), s) \/ s = c
                 /\ Closes(Len(socket), s)' <=> Closes(Len(socket), s) \/ (v = "gone" /\ s = c)
      BY <1>5, <2>0, Appended DEF JournalInv
    <2>3. \A s : \A i \in 1..(Len(socket) + 1) : Mentions(i - 1, s)' <=> Mentions(i - 1, s)
      BY <1>5, <2>0, Appended DEF JournalInv
    <2>4. \A i : i \in 1..Len(socket') <=> i \in 1..Len(socket) \/ i = Len(socket) + 1
      BY <2>1
    <2> HIDE DEF e
    <2>5. JournalTypes'
      BY <1>1, <1>5, <2>1, BufferAssumption DEF JournalInv, JournalTypes
    <2>6. (~lost => ~Closes(Len(socket), c)) /\ Len(log[c]) <= 1
      BY StillOpen
    <2>7. News'
      <3> SUFFICES ASSUME ~lost
                   PROVE  /\ \A s \in Session : Mentions(Len(socket), s)' =>
                               life'[s] # "new" /\ (Closes(Len(socket), s)' <=> life'[s] = "gone")
                          /\ \A i, j \in 1..Len(socket') : i < j /\ socket'[i][2] = socket'[j][2]
                               => socket'[i][1] = "start"
        BY <1>5 DEF News
      <3>1. ASSUME NEW s \in Session, Mentions(Len(socket), s)'
            PROVE  life'[s] # "new" /\ (Closes(Len(socket), s)' <=> life'[s] = "gone")
        <4>1. CASE s = c
          BY <1>1, <2>2, <2>6, <4>1
        <4>2. CASE s # c
          BY <1>1, <2>2, <3>1, <4>2 DEF JournalInv, News
        <4> QED BY <4>1, <4>2
      <3>2. ASSUME NEW i \in 1..Len(socket'), NEW j \in 1..Len(socket'), i < j,
                   socket'[i][2] = socket'[j][2]
            PROVE  socket'[i][1] = "start"
        <4>1. i \in 1..Len(socket) /\ socket'[i] = socket[i] /\ socket[i] \in Event
          BY <2>1, <2>4, <3>2 DEF JournalInv, JournalTypes
        <4>2. CASE j \in 1..Len(socket)
          BY <2>1, <3>2, <4>1, <4>2 DEF JournalInv, News
        <4>3. CASE j = Len(socket) + 1
          <5>1. socket[i][2] = c
            BY <2>0, <2>1, <3>2, <4>1, <4>3
          <5>2. socket[i] # <<"end", c>>
            BY <2>6, <4>1 DEF Closes
          <5> QED BY <4>1, <5>1, <5>2 DEF Event
        <4> QED BY <2>4, <4>2, <4>3
      <3> QED BY <3>1, <3>2
    <2>8. Dumping'
      <3> SUFFICES ASSUME phase = "dump", ~lost, NEW s \in dumped, ~Mentions(Len(socket), s)'
                   PROVE  s \in rows <=> life'[s] = "live"
        BY <1>5 DEF Dumping
      <3>1. s # c /\ s \in Session /\ ~Mentions(Len(socket), s)
        BY <2>2 DEF JournalInv, JournalTypes
      <3> QED BY <1>1, <3>1 DEF JournalInv, Dumping
    <2>9. Tracking'
      <3> SUFFICES ASSUME phase = "ready", ~lost, NEW s \in Session
                   PROVE  /\ ~Mentions(Len(socket), s)' => (s \in sessions <=> life'[s] = "live")
                          /\ Mentions(Len(socket), s)' => Len(log[s]) <= 1
                          /\ s \notin sessions => \A i \in 1..Len(socket') :
                                socket'[i] = <<"end", s>> => Mentions(i - 1, s)'
        BY <1>5 DEF Tracking
      <3>1. ~Mentions(Len(socket), s)' => (s \in sessions <=> life'[s] = "live")
        BY <1>1, <2>2 DEF JournalInv, Tracking
      <3>2. Mentions(Len(socket), s)' => Len(log[s]) <= 1
        BY <2>2, <2>6 DEF JournalInv, Tracking
      <3>3. ASSUME s \notin sessions, NEW i \in 1..Len(socket'), socket'[i] = <<"end", s>>
            PROVE  Mentions(i - 1, s)
        <4>1. CASE i \in 1..Len(socket)
          BY <2>1, <3>3, <4>1 DEF JournalInv, Tracking
        <4>2. CASE i = Len(socket) + 1
          <5>1. s = c /\ life[s] = "live" /\ i - 1 = Len(socket)
            BY <2>0, <2>1, <3>3, <4>2
          <5> QED BY <3>3, <5>1 DEF JournalInv, Tracking
        <4> QED BY <2>4, <4>1, <4>2
      <3> QED BY <2>1, <2>3, <3>1, <3>2, <3>3
    <2>10. Off'
      BY <1>5 DEF Off, Listening
    <2> QED BY <1>2, <2>5, <2>7, <2>8, <2>9, <2>10 DEF JournalInv
  <1> QED BY <1>3, <1>4, <1>5 DEF Emit

(* The collector starts over: nothing is known but the database.           *)
LEMMA OffKeeps ==
    ASSUME JournalTypes', Chapters', phase' = "off", socket' = <<>>, lost' = FALSE, dumped' = {}, rows' = {}
    PROVE  JournalInv'
  <1>1. \A s : ~Mentions(Len(socket), s)' /\ Len(socket') = 0
    BY DEF Mentions
  <1> QED BY <1>1 DEF JournalInv, News, Dumping, Tracking, Off

LEMMA TroubleKeeps ==
    ASSUME JournalInv, Gap \/ Restart \/ BootChange
    PROVE  JournalInv'
  <1>1. /\ phase' = "off" /\ socket' = <<>> /\ lost' = FALSE /\ dumped' = {} /\ rows' = {}
    BY DEF Gap, Restart, BootChange
  <1>0. socket' \in Seq(Event) /\ Len(socket') <= Buffer
    BY <1>1, BufferAssumption
  <1>2. CASE Gap \/ Restart
    <2>1. UNCHANGED <<life, sessions, log>>
      BY <1>2 DEF Gap, Restart
    <2>2. JournalTypes'
      BY <1>0, <1>1, <2>1 DEF JournalInv, JournalTypes
    <2>3. Chapters'
      BY <2>1 DEF JournalInv, Chapters, OneStory
    <2> QED BY <1>1, <2>2, <2>3, OffKeeps
  <1>3. CASE BootChange
    <2>1. /\ life' \in [Session -> {"new", "live", "gone"}] /\ sessions' = {}
          /\ \A s \in Session : life'[s] = IF life[s] = "live" THEN "gone" ELSE life[s]
      BY <1>3 DEF BootChange, JournalInv, JournalTypes
    <2>2. \A s \in Session : log'[s] = IF s \in sessions THEN Append(log[s], "interrupted") ELSE log[s]
      BY <1>3 DEF BootChange
    <2>3. ASSUME NEW s \in Session
          PROVE  /\ log'[s] \in Tales /\ Len(log'[s]) # 1
                 /\ Len(log'[s]) = 2 => life'[s] = "gone"
                 /\ life'[s] = "new" => log'[s] = <<>>
      <3>1. /\ log[s] \in Tales /\ (s \in sessions <=> Len(log[s]) = 1)
            /\ Len(log[s]) = 2 => life[s] = "gone"
            /\ life[s] = "new" => log[s] = <<>>
        BY DEF JournalInv, Chapters, OneStory
      <3>2. CASE s \in sessions
        <4>1. life[s] # "new" /\ life[s] \in {"new", "live", "gone"}
          BY <3>1, <3>2, TalesGrow DEF JournalInv, JournalTypes
        <4>2. /\ Append(log[s], "interrupted") \in Tales
              /\ Len(Append(log[s], "interrupted")) = 2
          BY <3>1, <3>2, TalesGrow
        <4>3. log'[s] = Append(log[s], "interrupted") /\ life'[s] = "gone"
          BY <2>1, <2>2, <3>2, <4>1
        <4> QED BY <4>2, <4>3
      <3>3. CASE s \notin sessions
        BY <2>1, <2>2, <3>1, <3>3
      <3> QED BY <3>2, <3>3
    <2>4. log' \in [Session -> Seq(Kinds)]
      <3>1. \A s \in Session : log'[s] \in Seq(Kinds)
        BY <2>3, TalesGrow
      <3> QED BY <1>3, <3>1 DEF BootChange
    <2>5. JournalTypes'
      BY <1>0, <1>1, <2>1, <2>4 DEF JournalTypes
    <2>6. Chapters'
      BY <2>1, <2>3 DEF Chapters, OneStory
    <2> QED BY <1>1, <2>5, <2>6, OffKeeps
  <1> QED BY <1>2, <1>3

LEMMA DumpKeeps ==
    ASSUME JournalInv, Subscribe \/ \E s \in Session : DumpRow(s)
    PROVE  JournalInv'
  <1>1. UNCHANGED <<life, socket, lost, sessions, log>> /\ phase' = "dump"
    BY DEF Subscribe, DumpRow
  <1>2. JournalTypes' /\ Chapters' /\ News' /\ Tracking' /\ Off'
    <2>1. dumped' \subseteq Session /\ rows' \subseteq dumped'
      BY DEF Subscribe, DumpRow, JournalInv, JournalTypes
    <2>2. JournalTypes' /\ Chapters'
      BY <1>1, <2>1 DEF JournalInv, JournalTypes, Chapters, OneStory
    <2>3. News'
      BY <1>1 DEF JournalInv, News, Mentions, Closes
    <2> QED BY <1>1, <2>2, <2>3 DEF Tracking, Off
  <1>3. Dumping'
    <2>1. CASE Subscribe
      BY <2>1 DEF Subscribe, JournalInv, Off, Dumping
    <2>2. ASSUME NEW c \in Session, DumpRow(c) PROVE Dumping'
      <3>1. /\ phase = "dump" /\ c \notin dumped /\ dumped' = dumped \cup {c}
            /\ rows' = IF life[c] = "live" THEN rows \cup {c} ELSE rows
        BY <2>2 DEF DumpRow
      <3>2. c \notin rows
        BY <3>1 DEF JournalInv, JournalTypes
      <3> QED BY <1>1, <3>1, <3>2 DEF JournalInv, Dumping, Mentions
    <2> QED BY <2>1, <2>2
  <1> QED BY <1>2, <1>3 DEF JournalInv

LEMMA ReceiveKeeps == ASSUME JournalInv, Receive PROVE JournalInv'
  <1> DEFINE N == Len(socket)
             db == Batch[N]
  <1>1. /\ phase = "ready" /\ ~lost /\ sessions' = db.open /\ log' = db.log /\ socket' = <<>>
        /\ UNCHANGED <<life, lost, phase, dumped, rows>> /\ <<>> \in Seq(Event) /\ Len(<<>>) = 0
    BY DEF Receive, ReceiveOf
  <1>2. N \in 0..N
    BY DEF JournalInv, JournalTypes
  <1>3. Recorded(N)
    BY <1>1, <1>2, RecordsAll
  <1>4. db.open = Live
    BY <1>1, JournalFollows DEF JournalIsTrue, JournalTracks
  <1>5. JournalTypes'
    BY <1>1, <1>3, BufferAssumption DEF JournalInv, JournalTypes, Recorded, Databases, Stories
  <1>6. Chapters'
    <2>1. ASSUME NEW s \in Session
          PROVE  /\ db.log[s] \in Tales /\ (s \in db.open <=> Len(db.log[s]) = 1)
                 /\ Len(db.log[s]) = 2 => life[s] = "gone"
                 /\ life[s] = "new" => db.log[s] = <<>>
      <3>1. /\ db.log[s] \in Tales /\ (s \in db.open <=> Len(db.log[s]) = 1)
            /\ ~Mentions(N, s) => db.log[s] = log[s]
            /\ Mentions(N, s) => (s \in db.open <=> ~Closes(N, s))
        BY <1>3 DEF Recorded
      <3>2. Mentions(N, s) => life[s] # "new" /\ (Closes(N, s) <=> life[s] = "gone")
        BY <1>1 DEF JournalInv, News
      <3>3. /\ Len(log[s]) = 2 => life[s] = "gone"
            /\ life[s] = "new" => log[s] = <<>>
        BY DEF JournalInv, Chapters
      <3> HIDE DEF db, N
      <3> QED BY <3>1, <3>2, <3>3
    <2> QED BY <1>1, <2>1 DEF Chapters, OneStory
  <1>7. \A s : ~Mentions(Len(socket), s)' /\ Len(socket') = 0
    BY <1>1 DEF Mentions
  <1>8. Tracking'
    BY <1>1, <1>4, <1>7 DEF Tracking, Live
  <1> QED BY <1>1, <1>5, <1>6, <1>7, <1>8 DEF JournalInv, News, Dumping, Off

LEMMA ReconcileKeeps == ASSUME JournalInv, Reconcile PROVE JournalInv'
  <1> DEFINE N == Len(socket)
             alive == Replayed[N]
  <1>1. /\ phase = "dump" /\ dumped = Session /\ ~lost /\ phase' = "ready" /\ socket' = <<>>
        /\ dumped' = {} /\ rows' = {} /\ UNCHANGED <<life, lost>> /\ sessions' = alive
        /\ <<>> \in Seq(Event) /\ Len(<<>>) = 0
    BY DEF Reconcile, ReconcileWith
  <1>2. log' = [s \in Session |-> IF s \in sessions \ alive THEN Append(log[s], "interrupted")
                  ELSE IF s \in alive \ sessions THEN Append(log[s], "recovered") ELSE log[s]]
    BY DEF Reconcile, ReconcileWith
  <1>3. alive = {s \in Session : life[s] = "live"}
    <2>1. N \in 0..N
      BY DEF JournalInv, JournalTypes
    <2>2. alive = {s \in Session : IF Mentions(N, s) THEN ~Closes(N, s) ELSE s \in rows}
      BY <1>1, <2>1, ReplaysAll
    <2>3. ASSUME NEW s \in Session
          PROVE  (IF Mentions(N, s) THEN ~Closes(N, s) ELSE s \in rows) <=> life[s] = "live"
      BY <1>1 DEF JournalInv, News, Dumping, JournalTypes
    <2> HIDE DEF alive, N
    <2> QED BY <2>2, <2>3
  <1> HIDE DEF alive, N
  <1>4. ASSUME NEW s \in Session
        PROVE  /\ log'[s] \in Tales /\ (s \in alive <=> Len(log'[s]) = 1)
               /\ Len(log'[s]) = 2 => life[s] = "gone"
               /\ life[s] = "new" => log'[s] = <<>>
    <2>1. /\ log[s] \in Tales /\ (s \in sessions <=> Len(log[s]) = 1)
          /\ Len(log[s]) = 2 => life[s] = "gone"
          /\ life[s] = "new" => log[s] = <<>>
          /\ life[s] \in {"new", "live", "gone"}
      BY DEF JournalInv, JournalTypes, Chapters, OneStory
    <2>2. CASE s \in sessions \ alive
      <3>1. life[s] = "gone"
        <4>1. log[s] # <<>>
          BY <2>1, <2>2, TalesGrow
        <4> QED BY <1>3, <2>1, <2>2, <4>1
      <3> QED BY <1>2, <2>1, <2>2, <3>1, TalesGrow
    <2>3. CASE s \in alive \ sessions
      <3>1. life[s] = "live" /\ Len(log[s]) \in 0..2 /\ Len(log[s]) # 2 /\ Len(log[s]) # 1
        BY <1>3, <2>1, <2>3, TalesGrow
      <3>2. Len(log[s]) = 0
        BY <3>1
      <3>3. log'[s] = Append(log[s], "recovered")
        BY <1>2, <2>3
      <3> QED BY <2>1, <2>3, <3>1, <3>2, <3>3, TalesGrow
    <2>4. CASE s \in sessions <=> s \in alive
      BY <1>2, <2>1, <2>4
    <2> QED BY <2>2, <2>3, <2>4
  <1>5. JournalTypes'
    <2>1. \A s \in Session : log'[s] \in Seq(Kinds)
      BY <1>4, TalesGrow
    <2>2. log' \in [Session -> Seq(Kinds)]
      BY <1>2, <2>1
    <2> QED BY <1>1, <1>3, <2>2, BufferAssumption DEF JournalInv, JournalTypes
  <1>6. Chapters'
    BY <1>1, <1>4 DEF Chapters, OneStory
  <1>7. \A s : ~Mentions(Len(socket), s)' /\ Len(socket') = 0
    BY <1>1 DEF Mentions
  <1>8. Tracking'
    BY <1>1, <1>3, <1>7 DEF Tracking
  <1> QED BY <1>1, <1>5, <1>6, <1>7, <1>8 DEF JournalInv, News, Dumping, Off

LEMMA JournalStep == ASSUME JournalInv, [JournalNext]_journalVars PROVE JournalInv'
  <1>1. ASSUME NEW c \in Session, Begins(c) \/ Updates(c) \/ Ends(c) PROVE JournalInv'
    <2>1. CASE Begins(c)
      BY <2>1, KernelKeeps DEF Begins
    <2>2. CASE Updates(c)
      <3>1. life' = [life EXCEPT ![c] = "live"]
        BY <2>2 DEF Updates, JournalInv, JournalTypes
      <3> QED BY <2>2, <3>1, KernelKeeps DEF Updates
    <2>3. CASE Ends(c)
      BY <2>3, KernelKeeps DEF Ends
    <2> QED BY <1>1, <2>1, <2>2, <2>3
  <1>2. CASE UNCHANGED journalVars
    <2>1. JournalTypes' /\ Chapters' /\ Dumping' /\ Off'
      BY <1>2 DEF journalVars, JournalInv, JournalTypes, Chapters, OneStory, Dumping, Off, Mentions
    <2>2. News'
      BY <1>2 DEF journalVars, JournalInv, News, Mentions, Closes
    <2>3. Tracking'
      BY <1>2 DEF journalVars, JournalInv, Tracking, Mentions
    <2> QED BY <2>1, <2>2, <2>3 DEF JournalInv
  <1> QED BY <1>1, <1>2, TroubleKeeps, DumpKeeps, ReceiveKeeps, ReconcileKeeps
          DEF JournalNext, Kernel, Collect

(* A collector that is ready, with what is still in its socket, knows the  *)
(* kernel's sessions, and the journal tells of each session one whole      *)
(* story, in whatever order sessions begin and end, events are lost, dumps *)
(* are taken and the box restarts.                                         *)
THEOREM JournalTold == JournalSpec => []JournalIsTrue
  BY JournalInitially, JournalStep, JournalFollows, PTL DEF JournalSpec

-----------------------------------------------------------------------------
(***************************************************************************)
(* SecurityLease: an apply command is all or nothing.                      *)
(***************************************************************************)

(* Who holds the network lock and how far its transaction is.  What an     *)
(* apply command goes back to is the record, which nobody else writes      *)
(* meanwhile, and what it verifies is what the kernel has.                 *)
LockedInv ==
  /\ mishaps \in Nat /\ holder \in {"none", "apply", "serve"}
  /\ step # "none" => holder # "none"
  /\ serve = "renew" => holder = "serve" /\ step = "none"
  /\ holder = "apply" => before = stored
  /\ step = "verify" => kernel = want

LEMMA TransactionKeeps == ASSUME LockedInv, Transaction PROVE LockedInv'
<1>1. CASE Load
  BY <1>1 DEF LockedInv, Load, Mishap
<1>2. CASE Verify
  BY <1>2 DEF LockedInv, Verify, Leave, Mishap
<1>3. CASE Undo
  BY <1>3 DEF LockedInv, Undo
<1>4. CASE UndoApply
  BY <1>4 DEF LockedInv, UndoApply, RestoreTo, Leave, Mishap
<1>. QED BY <1>1, <1>2, <1>3, <1>4 DEF Transaction

LEMMA SupervisorKeeps == ASSUME LockedInv, Supervisor PROVE LockedInv'
<1>1. CASE ServeStart \/ TickFault \/ Shut \/ Tick
  BY <1>1 DEF LockedInv, ServeStart, TickFault, Shut, Tick, Mishap
<1>2. CASE Locked
  <2>1. /\ holder = "none" /\ step = "none" /\ UNCHANGED <<kernel, stored, mishaps>>
        /\ step' # "verify" /\ holder' \in {"none", "serve"} /\ (step' # "none" => holder' = "serve")
        /\ serve' = "renew" => holder' = "serve" /\ step' = "none"
    BY <1>2 DEF LockedInv, Locked, Enter
  <2>2. mishaps' \in Nat
    BY <2>1 DEF LockedInv
  <2>. QED BY <2>1, <2>2 DEF LockedInv
<1>3. CASE Renew
  BY <1>3 DEF LockedInv, Renew
<1>. QED BY <1>1, <1>2, <1>3 DEF Supervisor

LEMMA LockedNextInv == LockedInv /\ [LeaseNext]_leaseVars => LockedInv'
<1>. SUFFICES ASSUME LockedInv, [LeaseNext]_leaseVars PROVE LockedInv'
  OBVIOUS
<1>1. ASSUME NEW p \in Policy, Apply(p) PROVE LockedInv'
  BY <1>1 DEF LockedInv, Apply, Enter
<1>2. CASE Collecting \/ Expire \/ CollectorGap \/ OwnersChange
  BY <1>2 DEF LockedInv, Collecting, CollectorClose, CollectorReady, Expire, CollectorGap,
     OwnersChange, Mishap
<1>3. CASE Kill
  BY <1>3 DEF LockedInv, Kill, Dropped, Mishap
<1>4. CASE UNCHANGED leaseVars
  BY <1>4 DEF LockedInv, leaseVars
<1>. QED BY <1>1, <1>2, <1>3, <1>4, TransactionKeeps, SupervisorKeeps DEF LeaseNext

(* apply: whatever interface owners change, processes die and steps fail,  *)
(* and for any policies, a command that ends without a mishap of its own   *)
(* leaves the kernel with what the record says.                            *)
THEOREM ApplyIsWhole == SecuritySpec => ApplyWhole
<1>1. LeaseInit => LockedInv
  BY DEF LeaseInit, LockedInv
<1>2. LockedInv /\ [LeaseNext]_leaseVars =>
        (holder = "apply" /\ holder' = "none" /\ UNCHANGED mishaps => kernel' = stored')
  <2>. SUFFICES ASSUME LockedInv, [LeaseNext]_leaseVars, holder = "apply", holder' = "none", mishaps' = mishaps
                PROVE  kernel' = stored'
    OBVIOUS
  <2>1. CASE Transaction
    BY <2>1 DEF LockedInv, Transaction, Load, Verify, Undo, UndoApply, RestoreTo, Leave, Mishap
  <2>2. CASE Supervisor
    BY <2>2 DEF LockedInv, Supervisor, ServeStart, TickFault, Shut, Tick, Locked, Enter, Renew
  <2>3. CASE Kill
    BY <2>3 DEF LockedInv, Kill, Mishap
  <2>4. ~\E p \in Policy : Apply(p)
    BY DEF Apply
  <2>5. ~(Collecting \/ Expire \/ CollectorGap \/ OwnersChange \/ UNCHANGED leaseVars)
    BY DEF Collecting, CollectorClose, CollectorReady, Expire, CollectorGap, OwnersChange, leaseVars
  <2>. QED BY <2>1, <2>2, <2>3, <2>4, <2>5 DEF LeaseNext
<1>. QED BY <1>1, <1>2, LockedNextInv, PTL DEF SecuritySpec, ApplyWhole
=============================================================================
