----------------------------- MODULE DpForwarder -----------------------------
(***************************************************************************)
(* The dataplane of dataplanes/ffn_dp_oct.c: policy tables loaded from one *)
(* of two banks, a flow cache that remembers a verdict per conversation,   *)
(* the packet path, and the commands with which the management plane       *)
(* changes all of these.                                                   *)
(*                                                                         *)
(* The rings are the bounded queues that DpRing shows them to be.  The     *)
(* forwarder is one thread: each round drains the commands, then handles a *)
(* burst of packets.  An endpoint is an address with its port, ordered as  *)
(* the pair is; a row names an endpoint or Wild, in place of masks, ranges, *)
(* protocol and vsys.  Rule numbers, egress ports and counters follow the  *)
(* verdict and are left out, as are the arguments of events.               *)
(***************************************************************************)
EXTENDS Naturals, Sequences

CONSTANTS Endpoints,   \* numbers
          Wild,         \* a row's wildcard
          Policies,    \* well-formed tables: sequences of rows
          Malformed,   \* the contents of a bank that dp_tables_load refuses
          Hash(_),     \* dp_flow_hash
          FlowSlots,   \* the slots of the flow table
          Commands,    \* what the management plane may send
          CmdMax, EvtMax   \* FFN_DP_RING_DESCS of the two rings

Decisions == {"forward", "inspect", "drop", "punt", "local"}
Banks == {0, 1}
Slots == 0..FlowSlots - 1
NoKey == <<>>
NoSlot == FlowSlots

ASSUME ForwarderAssumption ==
    /\ Endpoints \subseteq Nat /\ Wild \notin Endpoints
    /\ Malformed \notin Policies
    /\ FlowSlots \in Nat \ {0} /\ CmdMax \in Nat \ {0} /\ EvtMax \in Nat \ {0}
    /\ \A t \in Policies : t \in Seq([src : Endpoints \cup {Wild},
                                      dst : Endpoints \cup {Wild}, action : Decisions])
    /\ Commands \subseteq [op : {"ping", "set_bank", "set_default", "flush",
                                 "stats", "shutdown"},
                           bank : Nat, dec : Decisions]

Packets == [src : Endpoints, dst : Endpoints]
Mirrored(p) == [src |-> p.dst, dst |-> p.src]

VARIABLES
    tables,    \* the native rows in use
    active,    \* active_bank
    default,   \* default_decision
    ent,       \* the flow table
    state,     \* dp_state
    stop,      \* the stop flag
    poll,      \* where the loop stands
    cmds,      \* the MP -> DP ring
    evts,      \* the DP -> MP ring
    last,      \* history: the last packet of the burst and its decision
    regime     \* history: tables and defaults in force since the last flush

forwardVars == <<tables, active, default, ent, state, stop, poll, cmds, evts,
          last, regime>>

Free == [key |-> NoKey, verdict |-> "unset", inspect |-> FALSE]
Flushed == [s \in Slots |-> Free]
NoPacket == [pkt |-> NoKey, dec |-> "none"]

-----------------------------------------------------------------------------
(* Pure parts of the packet path.                                          *)

Matches(r, p) == r.src \in {Wild, p.src} /\ r.dst \in {Wild, p.dst}

(* dp_classify: the first matching row wins; otherwise the default.        *)
Classify(t, d, p) ==
    LET hits == {i \in DOMAIN t : Matches(t[i], p)}
    IN  IF hits = {} THEN d
        ELSE t[CHOOSE i \in hits : \A j \in hits : i <= j].action

(* dp_flow_key_from_tuple.                                                 *)
Key(p) == IF p.src <= p.dst THEN <<p.src, p.dst>> ELSE <<p.dst, p.src>>

(* dp_flow_hash returns an unsigned number.                                *)
ASSUME FlowHashAssumption == \A p \in Packets : Hash(Key(p)) \in Nat

(* The linear probe that dp_flow_lookup and dp_flow_insert share: the      *)
(* first slot that is free or holds the key.                               *)
Probe(k) ==
    LET at(i) == (Hash(k) + i) % FlowSlots
        ends  == {i \in Slots : ent[at(i)].key \in {NoKey, k}}
    IN  IF ends = {} THEN NoSlot ELSE at(CHOOSE i \in ends : \A j \in ends : i <= j)

Lookup(k) == IF Probe(k) # NoSlot /\ ent[Probe(k)].key = k THEN Probe(k) ELSE NoSlot

PutAt(k) == Probe(k)

VerdictOf(dec) ==
    CASE dec \in {"forward", "inspect"} -> "allow"
      [] dec = "drop"                   -> "drop"
      [] OTHER                          -> "unset"

FromEntry(e) == IF e.verdict # "allow" THEN "drop"
                ELSE IF e.inspect THEN "inspect" ELSE "forward"

-----------------------------------------------------------------------------
ForwardInit ==
    /\ tables = <<>> /\ active = 0
    /\ default = "drop"
    /\ ent = Flushed
    /\ state = "handshake" /\ stop = FALSE /\ poll = "start"
    /\ cmds = <<>> /\ evts = <<>>
    /\ last = NoPacket
    /\ regime = {[t |-> <<>>, d |-> "drop"]}

(* dp_run.                                                                 *)
Run ==
    /\ poll = "start"
    /\ state' = "ready" /\ poll' = "commands"
    /\ UNCHANGED <<tables, active, default, ent, stop, cmds, evts, last, regime>>

(* The end of a round: the loop goes on, or dp_run returns.                *)
EndRound ==
    /\ poll = "packets"
    /\ poll' = IF stop THEN "ended" ELSE "commands"
    /\ state' = IF stop THEN "reset" ELSE state
    /\ last' = NoPacket
    /\ UNCHANGED <<tables, active, default, ent, stop, cmds, evts, regime>>

-----------------------------------------------------------------------------
(* dp_process.                                                             *)

(* A remembered verdict decides; otherwise the tables do, and what they    *)
(* say is remembered if the flow table has room.  A frame that does not    *)
(* parse never gets this far and changes nothing.                          *)
Process(p) ==
    LET k == Key(p) f == Lookup(k) s == PutAt(k)
        dec == Classify(tables, default, p)
    IN  /\ poll = "packets"
        /\ IF f # NoSlot /\ ent[f].verdict # "unset"
           THEN /\ last' = [pkt |-> p, dec |-> FromEntry(ent[f])]
                /\ UNCHANGED ent
           ELSE /\ last' = [pkt |-> p, dec |-> dec]
                /\ ent' = IF s = NoSlot THEN ent
                          ELSE [ent EXCEPT ![s] =
                                  [key |-> k, verdict |-> VerdictOf(dec),
                                   inspect |-> @.inspect \/ dec = "inspect"]]
        /\ UNCHANGED <<tables, active, default, state, stop, poll, cmds, evts, regime>>

-----------------------------------------------------------------------------
(* dp_service_commands: each command of the ring, until it is empty.       *)

Pop(op) ==
    /\ poll = "commands"
    /\ cmds # <<>>
    /\ Head(cmds).op = op
    /\ cmds' = Tail(cmds)
    /\ UNCHANGED <<poll, last>>

(* An event that finds its ring full is lost.                              *)
Event(e) == evts' = IF Len(evts) < EvtMax THEN Append(evts, e) ELSE evts

Drained ==
    /\ poll = "commands"
    /\ cmds = <<>>
    /\ poll' = "packets"
    /\ UNCHANGED <<tables, active, default, ent, state, stop, cmds, evts, last, regime>>

(* PING and GET_STATS only answer.                                         *)
AnswerCommand(op, e) ==
    /\ Pop(op)
    /\ Event(e)
    /\ UNCHANGED <<tables, active, default, ent, state, stop, regime>>

(* dp_tables_load: the tables are cleared before the bank is looked at, so *)
(* that a refused bank leaves none.                                        *)
Load(t) == IF t = Malformed THEN <<>> ELSE t

(* Mutant: cached verdicts survive the new policy.                         *)
ActivateOnly(b, t) ==
    /\ tables' = Load(t) /\ active' = b
    /\ UNCHANGED ent
    /\ regime' = {[t |-> t, d |-> default]}

(* dp_activate_bank, when bank b holds the well-formed tables t.           *)
Activate(b, t) ==
    /\ tables' = Load(t) /\ active' = b
    /\ ent' = Flushed
    /\ regime' = {[t |-> t, d |-> default]}

(* SET_BANK, with what the management plane has left in the bank.          *)
(* A refused bank leaves the cache and the active bank as they were.       *)
SetBank(t) ==
    LET b == Head(cmds).bank
    IN  /\ Pop("set_bank")
        /\ \/ /\ b \in Banks /\ t # Malformed
              /\ Activate(b, t)
              /\ state' = "ready"
              /\ Event("ready")
           \/ /\ b \in Banks /\ t = Malformed
              /\ tables' = Load(t)
              /\ regime' = regime \cup {[t |-> Load(t), d |-> default]}
              /\ Event("error")
              /\ UNCHANGED <<active, ent, state>>
           \/ /\ b \notin Banks
              /\ Event("error")
              /\ UNCHANGED <<tables, active, ent, state, regime>>
        /\ UNCHANGED <<default, stop>>

(* SET_DEFAULT: the cache stays.                                           *)
SetDefault ==
    /\ Pop("set_default")
    /\ default' = Head(cmds).dec
    /\ regime' = regime \cup {[t |-> tables, d |-> Head(cmds).dec]}
    /\ UNCHANGED <<tables, active, ent, state, stop, evts>>

FlushFlows ==
    /\ Pop("flush")
    /\ ent' = Flushed
    /\ regime' = {[t |-> tables, d |-> default]}
    /\ UNCHANGED <<tables, active, default, state, stop, evts>>

Shutdown ==
    /\ Pop("shutdown")
    /\ stop' = TRUE
    /\ UNCHANGED <<tables, active, default, ent, state, evts, regime>>

-----------------------------------------------------------------------------
(* The management plane.                                                   *)

PushCmd(c) ==
    /\ Len(cmds) < CmdMax
    /\ cmds' = Append(cmds, c)
    /\ UNCHANGED <<tables, active, default, ent, state, stop, poll, evts, last, regime>>

PopEvent ==
    /\ evts # <<>>
    /\ evts' = Tail(evts)
    /\ UNCHANGED <<tables, active, default, ent, state, stop, poll, cmds, last, regime>>

ForwardNext ==
    \/ Run \/ EndRound \/ Drained
    \/ \E p \in Packets : Process(p)
    \/ AnswerCommand("ping", "pong") \/ AnswerCommand("stats", "stats")
    \/ \E t \in Policies \cup {Malformed} : SetBank(t)
    \/ SetDefault \/ FlushFlows \/ Shutdown
    \/ \E c \in Commands : PushCmd(c)
    \/ PopEvent

ForwardSpec == ForwardInit /\ [][ForwardNext]_forwardVars

-----------------------------------------------------------------------------
(* Properties.                                                             *)

(* dp_flow_insert and dp_flow_lookup: every entry is found under its key,  *)
(* whatever collided with it, so no conversation ever has two entries.     *)
Findable == \A s \in Slots : ent[s].key # NoKey => Lookup(ent[s].key) = s

(* dp_activate_bank: "A policy change invalidates cached verdicts."  What  *)
(* happens to a packet is what one of its conversation's directions gets   *)
(* from tables and a default that were in force after the cache was last   *)
(* flushed; nothing older decides.                                         *)
FollowsPolicy ==
    last.dec # "none" =>
      \E r \in regime, q \in {last.pkt, Mirrored(last.pkt)} :
        last.dec = Classify(r.t, r.d, q)

(* The flow cache never answers for another conversation or policy.        *)
CacheIsSound == Findable /\ FollowsPolicy
=============================================================================
