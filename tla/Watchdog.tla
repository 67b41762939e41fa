------------------------------ MODULE Watchdog ------------------------------
(***************************************************************************)
(* The hardware watchdog daemon (opt/ffn_watchdogd.py): it pets the timer  *)
(* while the appliance is healthy, and lets it run out when it is not.     *)
(*                                                                         *)
(* The health of the appliance is the environment's; a check takes a       *)
(* moment.  The daemon may be stopped, may die, and is started again by    *)
(* systemd; the hardware goes on counting, and resets the box at zero.     *)
(***************************************************************************)
EXTENDS Naturals

CONSTANTS
  HwTimeout, Interval,   \* of the hardware, between two checks
  StrikesToBite,
  Grace,               \* startup_grace_sec
  Latency,             \* bound: how long a check takes
  MaxStarts            \* bound: starts of the daemon

ASSUME DogAssumption ==
  /\ HwTimeout \in Nat \ {0} /\ Interval \in Nat \ {0} /\ StrikesToBite \in Nat \ {0}
  /\ Grace \in Nat /\ Latency \in Nat /\ MaxStarts \in Nat

VARIABLES timer,       \* time to the reset, or Disarmed; 0 is the reset
          box,         \* healthy or not, as a check would find it
          daemon,      \* "run", "down"
          sleep, strikes, age, late, starts, killed
dogVars == <<timer, box, daemon, sleep, strikes, age, late, starts, killed>>

Disarmed == HwTimeout + 1
Reset == timer = 0

\* serve: the interval is one that the hardware can tolerate.
PetEvery == IF Interval < HwTimeout THEN Interval ELSE IF HwTimeout < 3 THEN 1 ELSE HwTimeout \div 3

DogInit ==
  /\ timer = HwTimeout /\ box = "healthy" /\ daemon = "run"
  /\ sleep = 0 /\ strikes = 0 /\ age = 0 /\ late = 0 /\ starts = 1 /\ killed = FALSE

\* One turn of the loop: grace, evaluate_health, pet or strike.
Fine == age < Grace \/ box = "healthy"
TurnPetting ==
  /\ daemon = "run" /\ ~Reset /\ sleep = 0 /\ sleep' = PetEvery /\ late' = 0
  /\ timer' = HwTimeout /\ strikes' = 0
  /\ UNCHANGED <<box, daemon, age, starts, killed>>
Turn ==
  /\ daemon = "run" /\ ~Reset /\ sleep = 0 /\ sleep' = PetEvery /\ late' = 0
  /\ IF Fine THEN timer' = HwTimeout /\ strikes' = 0 ELSE strikes' = strikes + 1 /\ UNCHANGED timer
  /\ UNCHANGED <<box, daemon, age, starts, killed>>

\* SIGTERM ends the loop in its sleep; the magic close disarms the timer.
StopDog ==
  /\ daemon = "run" /\ ~Reset /\ sleep > 0 /\ daemon' = "down" /\ timer' = Disarmed
  /\ UNCHANGED <<box, sleep, strikes, age, late, starts, killed>>
\* A daemon that dies leaves it armed.
KillDog ==
  /\ daemon = "run" /\ ~Reset /\ daemon' = "down" /\ killed' = TRUE
  /\ UNCHANGED <<timer, box, sleep, strikes, age, late, starts>>
\* Opening the device arms it, and set_timeout starts a full period.
StartDog ==
  /\ daemon = "down" /\ ~Reset /\ starts < MaxStarts /\ starts' = starts + 1
  /\ daemon' = "run" /\ timer' = HwTimeout /\ sleep' = 0 /\ strikes' = 0 /\ age' = 0 /\ late' = 0 /\ killed' = FALSE
  /\ UNCHANGED box

Mood == ~Reset /\ box' \in {"healthy", "wedged"} \ {box} /\ UNCHANGED <<timer, daemon, sleep, strikes, age, late, starts, killed>>

\* Time passes while the daemon sleeps, and for a moment while it checks.
Pass ==
  /\ ~Reset
  /\ daemon = "run" /\ sleep = 0 => late < Latency
  /\ late' = IF daemon = "run" /\ sleep = 0 THEN late + 1 ELSE late
  /\ sleep' = IF sleep > 0 THEN sleep - 1 ELSE 0
  /\ age' = IF age < Grace THEN age + 1 ELSE age
  /\ timer' = IF timer = Disarmed THEN timer ELSE timer - 1
  /\ UNCHANGED <<box, daemon, strikes, starts, killed>>

DogNext == Turn \/ StopDog \/ KillDog \/ StartDog \/ Mood \/ Pass
DogSpec == DogInit /\ [][DogNext]_dogVars

(* ------------------------------ properties ------------------------------ *)

\* "an N-strike rule so a single hiccup never reboots a working box": while
\* the daemon lives the box is reset only after StrikesToBite checks in a row
\* found it unhealthy, with the default times and checks that are not slow.
NStrikes == Reset => killed \/ strikes >= StrikesToBite

\* A wedged appliance is reset, the point of the watchdog, if its daemon is
\* not stopped or dead by then.
WedgedIsReset == <>[](box = "wedged" /\ daemon = "run") => <>Reset

\* It bites a box that stays wedged, and no other.
WatchdogBites == []NStrikes /\ WedgedIsReset
=============================================================================
