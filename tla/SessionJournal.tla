--------------------------- MODULE SessionJournal ---------------------------
(***************************************************************************)
(* The session journal (opt/ffn_session_events.py): conntrack events reach *)
(* the collector through a socket that loses them when its buffer is full, *)
(* and every session a rule logs must still get one start and one end in   *)
(* the durable journal, or an honest "recovered" or "interrupted".         *)
(*                                                                         *)
(* A session lives once.  Its events are start and end; updates repeat a   *)
(* start.  Tokens, counters and times are left out, and all rules log both *)
(* ends.  A dump reports the sessions one by one while the kernel goes on. *)
(***************************************************************************)
EXTENDS Naturals, Sequences

CONSTANTS
  Session,
  Buffer,        \* events the socket holds
  MaxTroubles    \* bound: lost buffers, interrupted dumps, restarts, boots

ASSUME BufferAssumption == Buffer \in Nat

VARIABLES life,       \* kernel: "new", "live" or "gone"
          socket, lost,            \* the events in the socket; an overflow not yet seen
          phase, dumped, rows,     \* the collector and its snapshot
          sessions, log,           \* the database: live sessions, events written
          troubles
journalVars == <<life, socket, lost, phase, dumped, rows, sessions, log, troubles>>

JournalInit ==
  /\ life = [s \in Session |-> "new"] /\ socket = <<>> /\ lost = FALSE
  /\ phase = "off" /\ dumped = {} /\ rows = {} /\ sessions = {}
  /\ log = [s \in Session |-> <<>>] /\ troubles = 0

Trouble == troubles < MaxTroubles /\ troubles' = troubles + 1
Live == {s \in Session : life[s] = "live"}
Listening == phase # "off"

(* -------------------------------- kernel -------------------------------- *)

\* netlink: an event that does not fit is dropped, and the socket remembers.
Emit(event, s) ==
  \/ ~Listening /\ UNCHANGED <<socket, lost, troubles>>
  \/ Listening /\ Len(socket) < Buffer /\ socket' = Append(socket, <<event, s>>) /\ UNCHANGED <<lost, troubles>>
  \/ Listening /\ Len(socket) = Buffer /\ Trouble /\ lost' = TRUE /\ UNCHANGED socket

Begins(s) ==
  /\ life[s] = "new" /\ life' = [life EXCEPT ![s] = "live"] /\ Emit("start", s)
  /\ UNCHANGED <<phase, dumped, rows, sessions, log>>
Updates(s) ==
  /\ life[s] = "live" /\ Listening /\ Emit("start", s)
  /\ UNCHANGED <<life, phase, dumped, rows, sessions, log>>
Ends(s) ==
  /\ life[s] = "live" /\ life' = [life EXCEPT ![s] = "gone"] /\ Emit("end", s)
  /\ UNCHANGED <<phase, dumped, rows, sessions, log>>

(* ------------------------------- recording ------------------------------ *)

Written(lg, s, kind) == [lg EXCEPT ![s] = Append(@, kind)]

\* The open sessions after one event.
Replay(open, e) == IF e[1] = "end" THEN open \ {e[2]} ELSE open \cup {e[2]}

\* _record of one event on a database db = [open, log]: an admission is told
\* once, an end always.
Record(db, e) ==
  [open |-> Replay(db.open, e),
   log |-> IF e[1] = "end" \/ e[2] \notin db.open THEN Written(db.log, e[2], e[1]) ELSE db.log]

\* record_batch: everything in the socket in one transaction.
Database == [open |-> sessions, log |-> log]
Batch[n \in 0..Len(socket)] == IF n = 0 THEN Database ELSE Record(Batch[n - 1], socket[n])
ReceiveOf(least) ==
  /\ phase = "ready" /\ ~lost /\ Len(socket) >= least
  /\ sessions' = Batch[Len(socket)].open /\ log' = Batch[Len(socket)].log
  /\ socket' = <<>>
  /\ UNCHANGED <<life, lost, phase, dumped, rows, troubles>>

ReceiveFull == ReceiveOf(Buffer)
Receive == ReceiveOf(1)

\* An overflow shows up as an error on the next receive: a gap.
Gap ==
  /\ phase \in {"ready", "dump"} /\ lost
  /\ phase' = "off" /\ socket' = <<>> /\ lost' = FALSE /\ dumped' = {} /\ rows' = {}
  /\ UNCHANGED <<life, sessions, log, troubles>>

(* ----------------------------- reconciliation --------------------------- *)

Subscribe ==
  /\ phase = "off" /\ phase' = "dump"
  /\ UNCHANGED <<life, socket, lost, dumped, rows, sessions, log, troubles>>

DumpRow(s) ==
  /\ phase = "dump" /\ s \notin dumped /\ dumped' = dumped \cup {s}
  /\ rows' = IF life[s] = "live" THEN rows \cup {s} ELSE rows
  /\ UNCHANGED <<life, socket, lost, phase, sessions, log, troubles>>

\* The changes that came in on the same socket are replayed over the dump.
Replayed[n \in 0..Len(socket)] == IF n = 0 THEN rows ELSE Replay(Replayed[n - 1], socket[n])

ReconcileWith(alive) ==
  /\ phase = "dump" /\ dumped = Session /\ ~lost
  /\ sessions' = alive
  /\ log' = [s \in Session |->
        IF s \in sessions \ alive THEN Append(log[s], "interrupted")
        ELSE IF s \in alive \ sessions THEN Append(log[s], "recovered") ELSE log[s]]
  /\ phase' = "ready" /\ socket' = <<>> /\ dumped' = {} /\ rows' = {}
  /\ UNCHANGED <<life, lost, troubles>>
ReconcileDump == ReconcileWith(rows)
Reconcile == ReconcileWith(Replayed[Len(socket)])

(* ------------------------------- troubles ------------------------------- *)

\* The dump is interrupted or does not drain, or the process restarts.
Restart ==
  /\ Listening /\ Trouble
  /\ phase' = "off" /\ socket' = <<>> /\ lost' = FALSE /\ dumped' = {} /\ rows' = {}
  /\ UNCHANGED <<life, sessions, log>>

\* A boot loses the conntracks; recover_boot says so in the journal.
BootChange ==
  /\ Trouble
  /\ life' = [s \in Session |-> IF life[s] = "live" THEN "gone" ELSE life[s]]
  /\ log' = [s \in Session |-> IF s \in sessions THEN Append(log[s], "interrupted") ELSE log[s]]
  /\ sessions' = {} /\ phase' = "off" /\ socket' = <<>> /\ lost' = FALSE /\ dumped' = {} /\ rows' = {}

Kernel == \E s \in Session : Begins(s) \/ Updates(s) \/ Ends(s)
Collect == Receive \/ Gap \/ Subscribe \/ (\E s \in Session : DumpRow(s)) \/ Reconcile
JournalNext == Kernel \/ Collect \/ Restart \/ BootChange
JournalSpec == JournalInit /\ [][JournalNext]_journalVars

(* ------------------------------ properties ------------------------------ *)

\* While the collector calls itself ready and nothing was lost, the journal's
\* open sessions and the events still in the socket add up to the kernel's
\* sessions, whatever was dumped, lost and replayed before.
JournalTracks == phase = "ready" /\ ~lost => Batch[Len(socket)].open = Live

\* Nothing is invented and nothing is told twice: in the journal a session
\* begins once, as started or recovered, and ends once, as ended or
\* interrupted, in this order; and it is open exactly between the two.
Tales == {<<>>} \cup {<<b>> : b \in {"start", "recovered"}}
                \cup {<<b, e>> : b \in {"start", "recovered"}, e \in {"end", "interrupted"}}
OneStory == \A s \in Session : log[s] \in Tales /\ (s \in sessions <=> Len(log[s]) = 1)

\* The journal is true of the kernel, and its story of each session is whole.
JournalIsTrue == JournalTracks /\ OneStory

\* A session that is over does not stay open in the journal once the troubles
\* stop: events or the next reconciliation close it.
StoryEnds == \A s \in Session : life[s] = "gone" /\ s \in sessions ~> s \notin sessions
=============================================================================
