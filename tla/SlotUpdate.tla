----------------------------- MODULE SlotUpdate -----------------------------
(***************************************************************************)
(* Unattended firmware updates (opt/ffn_updated.py, and the image part of  *)
(* opt/ffn_payload.py): the new image goes to the inactive one of two boot *)
(* slots, GRUB is told to boot it once, and a confirmation on the new slot *)
(* makes it the default if it is healthy.                                  *)
(*                                                                         *)
(* An image is the version that was written, or Broken between mkfs and    *)
(* the end of the extraction.  The agent's state file is one file, as the  *)
(* code takes it to be.  Content and software payloads are PatchInstall's. *)
(***************************************************************************)
EXTENDS Naturals

CONSTANTS
  Slot,           \* the two A/B roots
  MaxImage,       \* bound: image versions published, 1..MaxImage after image 0
  Bad,            \* versions that come up unhealthy
  AutoArm,        \* policy auto_image_arm
  Careful         \* no update run and no setup-grub off the default slot
NoSlot == "none"  \* no one-shot entry
Broken == MaxImage + 1   \* formatted, not filled
NoPending == [from |-> NoSlot, target |-> NoSlot]

ASSUME SlotAssumption ==
  /\ \E a, b \in Slot : a # b /\ Slot = {a, b}
  /\ NoSlot \notin Slot /\ AutoArm \in BOOLEAN /\ Careful \in BOOLEAN

VARIABLES running, default, oneShot, grubSaved, image, proven, version,
          pending, agent, readPending
slotVars == <<running, default, oneShot, grubSaved, image, proven, version, pending, agent, readPending>>

\* ab_target, inactive_slot_entry: the slot that is not running.
Inactive(s) == CHOOSE t \in Slot : t # s

SlotInit ==
  /\ running \in Slot /\ default = running /\ oneShot = NoSlot /\ grubSaved \in BOOLEAN
  /\ image = [s \in Slot |-> 0] /\ proven = {running}
  /\ version = [offered |-> 0, installed |-> 0]
  /\ pending = NoPending /\ agent = "idle" /\ readPending = NoPending

Healthy(s) == image[s] \notin Bad \cup {Broken}
Up == image[running] # Broken   \* the box came up far enough to run commands

\* setup-grub: the one-shot becomes possible, the running slot the default.
SetupGrub ==
  /\ Up /\ ~grubSaved /\ (Careful => running = default)
  /\ grubSaved' = TRUE /\ default' = running
  /\ UNCHANGED <<running, oneShot, image, proven, version, pending, agent, readPending>>

(* cmd_run: the agent's own copy of the state file is read first, saved last *)

RunStart ==
  /\ Up /\ agent = "idle" /\ (Careful => running = default)
  /\ agent' = "payload" /\ readPending' = pending
  /\ UNCHANGED <<running, default, oneShot, grubSaved, image, proven, version, pending>>

\* ffn_payload update --kind image: nothing to do, or the inactive slot is
\* formatted ...
ImageFormat ==
  /\ agent = "payload" /\ version.offered # version.installed
  /\ image' = [image EXCEPT ![Inactive(running)] = Broken]
  /\ proven' = proven \ {Inactive(running)}
  /\ agent' = "extract"
  /\ UNCHANGED <<running, default, oneShot, grubSaved, version, pending, readPending>>

\* ... and filled; a failed download or extraction ends the image part.
ImageExtract ==
  /\ agent = "extract"
  /\ \/ /\ image' = [image EXCEPT ![Inactive(running)] = version.offered]
        /\ version' = [version EXCEPT !.installed = version.offered]
        /\ agent' = "written"
     \/ agent' = "save" /\ UNCHANGED <<image, version>>
  /\ UNCHANGED <<running, default, oneShot, grubSaved, proven, pending, readPending>>

ImageSame ==
  /\ agent = "payload"
  /\ \/ version.offered = version.installed /\ agent' = "written"
     \/ agent' = "save"     \* no answer, a bad signature, a download that fails
  /\ UNCHANGED <<running, default, oneShot, grubSaved, image, proven, version, pending, readPending>>

\* do_arm, its grub-reboot: refused unless GRUB honours a one-shot.
RunArm ==
  /\ agent = "written"
  /\ IF AutoArm /\ grubSaved
     THEN oneShot' = Inactive(running) /\ agent' = "armed"
     ELSE agent' = "save" /\ UNCHANGED oneShot
  /\ UNCHANGED <<running, default, grubSaved, image, proven, version, pending, readPending>>

RunPending ==
  /\ agent = "armed"
  /\ pending' = [from |-> running, target |-> Inactive(running)] /\ agent' = "save"
  /\ UNCHANGED <<running, default, oneShot, grubSaved, image, proven, version, readPending>>

RunSave ==
  /\ agent = "save"
  /\ pending' = readPending /\ agent' = "idle" /\ readPending' = NoPending
  /\ UNCHANGED <<running, default, oneShot, grubSaved, image, proven, version>>

(* cmd_arm by hand *)
Arm ==
  /\ Up /\ grubSaved /\ oneShot' = Inactive(running)
  /\ pending' = [from |-> running, target |-> Inactive(running)]
  /\ UNCHANGED <<running, default, grubSaved, image, proven, version, agent, readPending>>

(* cmd_confirm, at boot or by hand *)

StillOld ==
  /\ Up /\ pending # NoPending /\ running = pending.from
  /\ pending' = NoPending
  /\ UNCHANGED <<running, default, oneShot, grubSaved, image, proven, version, agent, readPending>>

\* A healthy slot may look unhealthy for a while, never the other way round.
Unhealthy ==
  /\ Up /\ pending # NoPending /\ running # pending.from
  /\ pending' = NoPending
  /\ UNCHANGED <<running, default, oneShot, grubSaved, image, proven, version, agent, readPending>>

\* grub-set-default may fail, and the record may not be saved any more.
Committing ==
  /\ \/ /\ default' = pending.target
        /\ proven' = IF Healthy(running) THEN proven \cup {running} ELSE proven
        /\ pending' \in {NoPending, pending}
     \/ UNCHANGED <<default, proven, pending>>
  /\ UNCHANGED <<running, oneShot, grubSaved, image, version, agent, readPending>>
CommitUnchecked == Up /\ pending # NoPending /\ running # pending.from /\ Committing
Commit == Up /\ pending # NoPending /\ running # pending.from /\ Healthy(running) /\ Committing

(* ------------------------------ environment ----------------------------- *)

\* GRUB and the box: any reboot, wanted or not, spends the one-shot.
Boot(s) ==
  /\ running' = s /\ oneShot' = NoSlot /\ agent' = "idle" /\ readPending' = NoPending
  /\ UNCHANGED <<default, grubSaved, image, proven, version, pending>>
Reboot == Boot(IF oneShot # NoSlot /\ grubSaved THEN oneShot ELSE default)
\* Somebody picks the other entry in the menu, or the power fails between the
\* grub-reboot of an arm and the save of its record.
HandBoot == Boot(Inactive(running))

Offer ==
  /\ version.offered < MaxImage /\ version' = [version EXCEPT !.offered = @ + 1]
  /\ UNCHANGED <<running, default, oneShot, grubSaved, image, proven, pending, agent, readPending>>

Confirm == StillOld \/ Unhealthy \/ Commit
Run == RunStart \/ ImageFormat \/ ImageExtract \/ ImageSame \/ RunArm \/ RunPending \/ RunSave
SlotNext == SetupGrub \/ Run \/ Arm \/ Confirm \/ Reboot \/ HandBoot \/ Offer
SlotSpec == SlotInit /\ [][SlotNext]_slotVars

(* ------------------------------ properties ------------------------------ *)

\* The slot GRUB falls back to holds an image that was seen to be healthy, so
\* that a box that dies in the middle of an update comes back with a power
\* cycle: neither an image in the making nor an unproven one is ever the default.
DefaultIsKnownGood == default \in proven
=============================================================================
