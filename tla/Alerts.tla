------------------------------- MODULE Alerts -------------------------------
(***************************************************************************)
(* Alerts (opt/ffn_alerts.py): an evaluation looks at the appliance,       *)
(* compares with the state that the last one saved, tells everyone what    *)
(* changed, and saves and publishes.                                       *)
(*                                                                         *)
(* The timer's unit runs one evaluation at a time; an operator may run     *)
(* another by hand.  Conditions (of subsystems and units) come and go, and *)
(* a processor may boot again; its identity is missing from a report while *)
(* the planes do not answer.  Texts, severities and times are left out.    *)
(***************************************************************************)
EXTENDS Naturals, FiniteSets

CONSTANTS
  Condition, Evaluator,
  Confirmations,
  MaxBoots, MaxUpsets     \* bounds: boots; runs by hand and deaths

VARIABLES
  cond, identity,   \* what an evaluation would find
  held, boots,           \* state.json: counts, and the identity or 0
  view,                  \* /run/ffn-ngfw/alerts.json: active alerts
  told, logged,             \* last event of each condition: outputs, event log
  heard,                 \* boots that were announced, or the first ones seen
  eval,                  \* evaluations under way
  upsets,
  upset                  \* history: one died half way, or two overlapped
alertVars == <<cond, identity, held, boots, view, told, logged, heard, eval, upsets, upset>>

Resting == [step |-> "rest", seen |-> {}, boots |-> 0, held |-> [c \in Condition |-> 0], emit |-> {}, events |-> {}]
AlertsInit ==
  /\ cond = {} /\ identity = 1
  /\ held = [c \in Condition |-> 0] /\ boots = 0 /\ heard = {0} /\ view = {}
  /\ told = [c \in Condition |-> "none"] /\ logged = told
  /\ eval = [e \in Evaluator |-> Resting] /\ upsets = 0 /\ upset = FALSE

worldVars == <<cond, identity>>
Step(e, r) == eval' = [eval EXCEPT ![e] = r]

\* live_convergence_report and unit_states, with conditions.
Look(e) ==
  /\ eval[e].step = "rest"
  /\ IF e = "hand" THEN upsets < MaxUpsets /\ upsets' = upsets + 1 ELSE UNCHANGED upsets
  /\ \E b \in {0, identity} : Step(e, [Resting EXCEPT !.step = "judge", !.seen = cond, !.boots = b])
  /\ upset' = (upset \/ \E f \in Evaluator : eval[f].step # "rest")
  /\ UNCHANGED <<worldVars, held, boots, view, told, logged, heard>>

\* The comparison with the saved state: a count is forgotten with its
\* condition.  processor_events needs an identity before and after.
Counted(seen) == [c \in Condition |-> IF c \notin seen THEN 0
                                      ELSE IF held[c] < Confirmations THEN held[c] + 1 ELSE Confirmations]
Changes(seen) ==
  {<<"raised", c>> : c \in {d \in seen : held[d] < Confirmations /\ Counted(seen)[d] = Confirmations}} \cup
  {<<"cleared", c>> : c \in {d \in Condition \ seen : held[d] = Confirmations}}
Booted(now) == IF 0 \notin {boots, now} /\ boots # now THEN {<<"event", "processor">>} ELSE {}
Judge(e) ==
  LET r == eval[e]  ev == Changes(r.seen) \cup Booted(r.boots) IN
  /\ r.step = "judge"
  /\ Step(e, [r EXCEPT !.step = "emit", !.seen = {}, !.held = Counted(r.seen), !.emit = ev, !.events = ev,
                       !.boots = IF r.boots = 0 THEN boots ELSE r.boots])
  /\ heard' = IF boots = 0 THEN heard \cup {r.boots} ELSE heard
  /\ UNCHANGED <<worldVars, held, boots, view, told, logged, upsets, upset>>

LastWord(what, ev) == [c \in Condition |-> IF \E x \in ev : x[2] = c THEN (CHOOSE x \in ev : x[2] = c)[1] ELSE what[c]]
\* outputs.emit, one event after the other, and append_events.
EmitEvent(e) ==
  /\ eval[e].step = "emit"
  /\ \E x \in eval[e].emit :
       /\ told' = LastWord(told, {x}) /\ heard' = IF x[1] = "event" THEN heard \cup {eval[e].boots} ELSE heard
       /\ Step(e, [eval[e] EXCEPT !.emit = @ \ {x}])
  /\ UNCHANGED <<worldVars, held, boots, view, logged, upsets, upset>>
AppendEvents(e) ==
  /\ eval[e].step = "emit" /\ eval[e].emit = {} /\ Step(e, [eval[e] EXCEPT !.step = "save"])
  /\ logged' = LastWord(logged, eval[e].events)
  /\ UNCHANGED <<worldVars, held, boots, view, told, heard, upsets, upset>>
\* atomic(state_path), then atomic(view_path).
SaveRaisedOnly(e) ==
  /\ eval[e].step = "save" /\ Step(e, [eval[e] EXCEPT !.step = "view"])
  /\ held' = [c \in Condition |-> IF eval[e].held[c] < Confirmations THEN 0 ELSE eval[e].held[c]]
  /\ boots' = eval[e].boots
  /\ UNCHANGED <<worldVars, view, told, logged, heard, upsets, upset>>
Save(e) ==
  /\ eval[e].step = "save" /\ Step(e, [eval[e] EXCEPT !.step = "view"])
  /\ held' = eval[e].held /\ boots' = eval[e].boots
  /\ UNCHANGED <<worldVars, view, told, logged, heard, upsets, upset>>
Publish(e) ==
  /\ eval[e].step = "view" /\ Step(e, Resting)
  /\ view' = {c \in Condition : eval[e].held[c] = Confirmations}
  /\ UNCHANGED <<worldVars, held, boots, told, logged, heard, upsets, upset>>

\* The environment.  An evaluation may die at any point; a power cut ends them
\* all and takes /run with it.
Appear(c) == cond' = (IF c \in cond THEN cond \ {c} ELSE cond \cup {c}) /\ UNCHANGED <<identity, held, boots, view, told, logged, heard, eval, upsets, upset>>
ProcessorBoots == identity < MaxBoots /\ identity' = identity + 1 /\ UNCHANGED <<cond, held, boots, view, told, logged, heard, eval, upsets, upset>>
Die(e) ==
  /\ eval[e].step # "rest" /\ upsets < MaxUpsets /\ upsets' = upsets + 1
  /\ upset' = (upset \/ eval[e].events # {}) /\ Step(e, Resting)
  /\ UNCHANGED <<worldVars, held, boots, view, told, logged, heard>>
PowerCut ==
  /\ upsets < MaxUpsets /\ upsets' = upsets + 1 /\ view' = {}
  /\ upset' = (upset \/ \E e \in Evaluator : eval[e].events # {}) /\ eval' = [e \in Evaluator |-> Resting]
  /\ UNCHANGED <<worldVars, held, boots, told, logged, heard>>

Evaluate(e) == Look(e) \/ Judge(e) \/ EmitEvent(e) \/ AppendEvents(e) \/ Save(e) \/ Publish(e)
AlertsNext ==
  \/ \E e \in Evaluator : Evaluate(e) \/ Die(e)
  \/ (\E c \in Condition : Appear(c)) \/ ProcessorBoots \/ PowerCut

(* ------------------------------ properties ------------------------------ *)

\* "turned into raised and cleared events that reach someone": what stays
\* wrong is shown for good in the end and what is over is not, whatever died
\* or overlapped before; and unless an evaluation died between telling and
\* saving, or overlapped another, the last word on it is the right one.
\* "a changed CP or DP boot identity is reported" likewise, if reports keep
\* naming it.
Identified == eval["timer"].step = "judge" /\ eval["timer"].boots = identity
AlertsReach ==
  /\ \A c \in Condition :
       /\ <>[](c \in cond) => <>[](c \in view /\ (upset \/ {told[c], logged[c]} = {"raised"}))
       /\ <>[](c \notin cond) => <>[](c \notin view /\ (upset \/ "raised" \notin {told[c], logged[c]}))
  /\ []<>Identified => <>[](boots = identity /\ boots \in heard)
=============================================================================
