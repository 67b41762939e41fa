----------------------------- MODULE MCDaemons -----------------------------
(***************************************************************************)
(* What the appliance keeps doing by itself, checked in one run: the two   *)
(* ways new code is installed, the sample queue, the configuration lease,  *)
(* the watchdog, the state store and the rings of the dataplane.           *)
(* They are separate processes over separate state, so every behaviour is  *)
(* one of a single component: the others stay in their initial state.      *)
(***************************************************************************)
EXTENDS PatchInstall, SlotUpdate, SampleQueue, ConfigLock, Watchdog, StateBus, DpRing

MCTouches == <<{"f", "g"}, {"f"}>>
MCBefore == <<[f \in File |-> 0], [f \in File |-> 1]>>

VARIABLE part
updateVars == <<patchVars, slotVars>>
serviceVars == <<queueVars, lockVars>>
hostVars == <<dogVars, busVars, ringVars>>
vars == <<part, updateVars, serviceVars, hostVars>>

Is(p) == part = p /\ UNCHANGED part
Patch(A) == Is("patch") /\ A /\ UNCHANGED <<slotVars, serviceVars, hostVars>>
Image(A) == Is("image") /\ A /\ UNCHANGED <<patchVars, serviceVars, hostVars>>
Queue(A) == Is("queue") /\ A /\ UNCHANGED <<lockVars, updateVars, hostVars>>
Lock(A)  == Is("lock") /\ A /\ UNCHANGED <<queueVars, updateVars, hostVars>>
Dog(A)   == Is("dog") /\ A /\ UNCHANGED <<busVars, ringVars, updateVars, serviceVars>>
Bus(A)   == Is("bus") /\ A /\ UNCHANGED <<dogVars, ringVars, updateVars, serviceVars>>
Ring(A)  == Is("ring") /\ A /\ UNCHANGED <<dogVars, busVars, updateVars, serviceVars>>

Init ==
  /\ part \in {"patch", "image", "queue", "lock", "dog", "bus", "ring"}
  /\ PatchInit /\ SlotInit /\ QueueInit /\ LockInit /\ DogInit /\ BusInit /\ RingInit
  /\ part # "patch" => offered = 1
  /\ part # "image" => running = "a" /\ grubSaved = TRUE
Next ==
  \/ Patch(PatchNext) \/ Image(SlotNext)
  \/ Queue(QueueNext) \/ Lock(LockNext)
  \/ Dog(DogNext) \/ Bus(BusNext) \/ Ring(RingNext)
Spec ==
  /\ Init /\ [][Next]_vars
  /\ WF_vars(Patch(Work)) /\ WF_vars(Patch(Submit("recover", None)))
  /\ \A d \in Drainer : WF_vars(Queue(Drain(d)))
  /\ WF_vars(Lock(ClockTicks)) /\ \A u \in Users : WF_vars(Lock(u \notin gone /\ Acquire(u)))
  /\ WF_vars(Dog(Turn)) /\ WF_vars(Dog(Pass))
  /\ WF_vars(Bus(DebounceOver)) /\ \A t \in Thread : WF_vars(Bus(BusClient(t)))
  /\ WF_vars(Ring(Consumer))
=============================================================================
