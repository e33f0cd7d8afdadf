-------------------------------- MODULE Light --------------------------------
(***************************************************************************)
(* HaefeleLight: what Home Assistant shows of one lamp, set optimistically *)
(* by commands and corrected by the lamp's statuses.                       *)
(*                                                                         *)
(* The lamp changes under our commands, which are unacknowledged and may   *)
(* be lost, and under remotes and the Häfele app.  A status tells the      *)
(* state the lamp had when it answered; it arrives any time later, in any  *)
(* order, or never.  Colour temperature, hue and saturation are set and    *)
(* reported along with the lightness and are left out.  Commands leave in  *)
(* the order they were given: the locks on their way are first come, first *)
(* served.  That a Get is sent and answered again and again is Polling's.  *)
(*                                                                         *)
(* Bounds of the model: MaxCommands, MaxChanges by others, MaxAir statuses *)
(* on their way at a time.                                                 *)
(***************************************************************************)
EXTENDS Integers, FiniteSets, Sequences, SequencesExt

CONSTANTS
  Capabilities,    \* of the lights considered, see resolve_capability
  MaxBrightness,   \* 255
  Ratio,           \* 257: units of lightness (0-65535) to one of brightness
  Levels,          \* the lightness others may set the lamp to
  MaxCommands,
  MaxChanges,
  MaxAir

MaxLightness == MaxBrightness * Ratio
Lightnesses  == 0..MaxLightness

ASSUME LightAssumption ==
  /\ Capabilities \subseteq {"color_temp", "hs", "brightness", "onoff"}
  /\ MaxBrightness \in Nat \ {0}
  /\ Ratio \in Nat \ {0}
  /\ Levels \subseteq Lightnesses
  /\ {MaxCommands, MaxChanges, MaxAir} \subseteq Nat

VARIABLES
  capability,  \* _capability
  lamp,        \* the lightness of the lamp itself
  entity,      \* _is_on and _brightness
  available,   \* coordinator.availability of the node
  shown,       \* the state last written to Home Assistant
  commands,    \* the turn_on and turn_off calls that are being sent, in order
  sync,        \* the Gets _initial_sync has still to send
  air,         \* the statuses on their way to us
  issued,      \* commands given so far
  changes      \* changes by others so far

vars == <<capability, lamp, entity, available, shown, commands, sync, air, issued, changes>>

Unsaid == -1   \* turn_on without a brightness

-----------------------------------------------------------------------------
(* _lightness_to_brightness: rounded to the nearest. _level_to_brightness  *)
(* is the same of the Level 32768 lower.                                   *)
Brightness(lightness) == (lightness + Ratio \div 2) \div Ratio

(* _brightness_to_lightness: int(b / 255 * 65535) is b * 257 for every b of *)
(* 0..255, the truncation takes nothing off.                               *)
Lightness(brightness) == brightness * Ratio

Dims == capability # "onoff"

(* async_write_ha_state *)
Shows(e, ok) ==
  /\ entity' = e
  /\ available' = ok
  /\ shown' = [on |-> e.on, brightness |-> e.brightness, available |-> ok]

(* The statuses this entity takes a brightness from. *)
Detailed ==
  CASE capability = "color_temp" -> {"lightness", "ctl"}
    [] capability = "hs"         -> {"lightness", "hsl"}
    [] capability = "brightness" -> {"lightness"}
    [] OTHER                     -> {}

(* Mutant: a CTL or HSL Status is not asked whether the lamp is on. *)
AppliedDimOnly(status) ==
  LET b == Brightness(status.lightness) IN
  CASE status.kind = "onoff"           -> [entity EXCEPT !.on = status.lightness > 0]
    [] status.kind = "level" /\ Dims   -> [on |-> b > 0, brightness |-> b]
    [] status.kind \in Detailed        -> [entity EXCEPT !.brightness = b]
    [] OTHER                           -> entity

(* _apply_status *)
Applied(status) ==
  LET b == Brightness(status.lightness) IN
  CASE status.kind = "onoff"           -> [entity EXCEPT !.on = status.lightness > 0]
    [] status.kind = "level" /\ Dims   -> [on |-> b > 0, brightness |-> b]
    [] status.kind \in Detailed        -> [on |-> status.lightness > 0, brightness |-> b]
    [] OTHER                           -> entity

(* _on_status: what changes nothing is not written, and proves nothing. *)
StatusArrives(status) ==
  /\ air' = air \ {status}
  /\ IF Applied(status) = entity THEN UNCHANGED <<entity, available, shown>>
     ELSE Shows(Applied(status), TRUE)
  /\ UNCHANGED <<capability, lamp, commands, sync, issued, changes>>

StatusLost(status) ==
  /\ air' = air \ {status}
  /\ UNCHANGED <<capability, lamp, entity, available, shown, commands, sync, issued, changes>>

-----------------------------------------------------------------------------
(* async_turn_on up to its await: the brightness is set, and what to send  *)
(* is settled, before anything is sent.                                    *)
TurnOn ==
  /\ issued < MaxCommands
  /\ \E said \in {Unsaid} \cup 1..MaxBrightness :
       LET b == IF ~Dims THEN entity.brightness
                ELSE IF said # Unsaid THEN said
                ELSE IF ~entity.on /\ entity.brightness <= 0 THEN MaxBrightness
                ELSE entity.brightness
       IN /\ entity' = [entity EXCEPT !.brightness = b]
          /\ commands' = Append(commands,
               [on |-> TRUE, lightness |-> IF Dims THEN Lightness(b) ELSE MaxLightness])
  /\ issued' = issued + 1
  /\ UNCHANGED <<capability, lamp, available, shown, sync, air, changes>>

TurnOff ==
  /\ issued < MaxCommands
  /\ commands' = Append(commands, [on |-> FALSE, lightness |-> 0])
  /\ issued' = issued + 1
  /\ UNCHANGED <<capability, lamp, entity, available, shown, sync, air, changes>>

(* The message is out; the lamp may not hear it. *)
CommandSent ==
  /\ commands # <<>>
  /\ lamp' \in {lamp, Head(commands).lightness}
  /\ Shows([entity EXCEPT !.on = Head(commands).on], available)
  /\ commands' = Tail(commands)
  /\ UNCHANGED <<capability, sync, air, issued, changes>>

(* It could not be sent: the light counts as unavailable. *)
CommandFails ==
  /\ commands # <<>>
  /\ Shows(entity, FALSE)
  /\ commands' = Tail(commands)
  /\ UNCHANGED <<capability, lamp, sync, air, issued, changes>>

(* The service call is cancelled while it waits: nothing is written. *)
CommandCancelled ==
  /\ \E i \in DOMAIN commands : commands' = RemoveAt(commands, i)
  /\ UNCHANGED <<capability, lamp, entity, available, shown, sync, air, issued, changes>>

-----------------------------------------------------------------------------
Reports(kinds) == air' \in {air \cup {[kind |-> k, lightness |-> lamp]} : k \in kinds}

(* The Get of a poll is answered: CTL for tunable white, OnOff for others. *)
Polled ==
  /\ Cardinality(air) < MaxAir
  /\ Reports({IF capability = "color_temp" THEN "ctl" ELSE "onoff"})
  /\ UNCHANGED <<capability, lamp, entity, available, shown, commands, sync, issued, changes>>

SyncGets ==
  {"onoff"} \cup
  CASE capability = "color_temp" -> {"ctl"}
    [] capability = "hs"         -> {"hsl"}
    [] capability = "brightness" -> {"lightness"}
    [] OTHER                     -> {}

(* A Get of _initial_sync is answered, or not. *)
Synced ==
  /\ Cardinality(air) < MaxAir
  /\ \E k \in sync :
       /\ sync' = sync \ {k}
       /\ UNCHANGED air \/ Reports({k})
  /\ UNCHANGED <<capability, lamp, entity, available, shown, commands, issued, changes>>

(* A remote or the app sets the lamp, which may publish its new state. *)
LampChanges ==
  /\ changes < MaxChanges
  /\ Cardinality(air) < MaxAir
  /\ lamp' \in Levels
  /\ \/ UNCHANGED air
     \/ \E k \in {"onoff", "level", "lightness"} :
          air' = air \cup {[kind |-> k, lightness |-> lamp']}
  /\ changes' = changes + 1
  /\ UNCHANGED <<capability, entity, available, shown, commands, sync, issued>>

(* The coordinator's heartbeat sets availability to the link's and has     *)
(* every entity written.                                                   *)
Heartbeat ==
  /\ \E ok \in BOOLEAN : Shows(entity, ok)
  /\ UNCHANGED <<capability, lamp, commands, sync, air, issued, changes>>

Init ==
  /\ capability \in Capabilities
  /\ lamp \in Levels
  /\ entity = [on |-> FALSE, brightness |-> MaxBrightness]
  /\ available \in BOOLEAN
  /\ shown = [on |-> FALSE, brightness |-> MaxBrightness, available |-> available]
  /\ commands = <<>>
  /\ sync = SyncGets
  /\ air = {}
  /\ issued = 0
  /\ changes = 0

Next ==
  \/ \E status \in air : StatusArrives(status) \/ StatusLost(status)
  \/ TurnOn
  \/ TurnOff
  \/ CommandSent
  \/ CommandFails
  \/ CommandCancelled
  \/ Polled
  \/ Synced
  \/ LampChanges
  \/ Heartbeat

Spec == Init /\ [][Next]_vars

(* The light is polled again and again (LightsArePolled), the heartbeat    *)
(* beats, and the mesh does not lose every status there is.                *)
FairSpec ==
  /\ Spec
  /\ WF_vars(Polled)
  /\ WF_vars(Heartbeat)
  /\ SF_vars(\E status \in air : StatusArrives(status))

-----------------------------------------------------------------------------
(* Properties *)

(* Whatever order commands, statuses and presses come in, and whichever of *)
(* them fail: once the lamp is left alone the entity shows whether it is   *)
(* on, and the brightness of a tunable white one, for good (coordinator    *)
(* 834-836 and 859-864).                                                   *)
SettlesOnLamp ==
  <>[](/\ shown.on = (lamp > 0)
       /\ capability = "color_temp" /\ lamp > 0 => shown.brightness = Brightness(lamp))

(* What turns a light on asks it for some light: "Lightness=0 implies      *)
(* OnOff=0" (light.py 386-387), so that zero is how to turn it off.        *)
TurnOnLights == \A i \in DOMAIN commands : commands[i].on => commands[i].lightness > 0
=============================================================================
