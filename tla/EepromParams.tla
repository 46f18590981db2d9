---------------------------- MODULE EepromParams ----------------------------
(***************************************************************************)
(* The parameters the firmware keeps in the EEPROM (orazio_param.c,        *)
(* eeprom.c): saved and loaded at the host's request, written with their   *)
(* defaults when the firmware finds another protocol version there.  The   *)
(* EEPROM is written byte by byte and the robot may be switched off        *)
(* between any two bytes; another firmware may be flashed while it is off. *)
(*                                                                         *)
(* A block has two bytes, the first ones and the last one.  A byte is a    *)
(* record of what it belongs to: the firmware whose layout it has, and the *)
(* number of the host's setting, 0 for the defaults.  A version block      *)
(* holds the version of the firmware that wrote it.                        *)
(***************************************************************************)
EXTENDS Naturals, Sequences, FiniteSets

CONSTANTS MaxFirmware,        \* bound: firmwares flashed
          MaxSettings         \* bound: settings sent by the host

ASSUME EepromAssumption == MaxFirmware \in Nat \ {0} /\ MaxSettings \in Nat

Versions == {"protocol", "firmware"}
Params == {"system", "joint0", "joint1", "drive", "sonar"}
Blocks == Versions \cup Params

\* What Orazio_paramInit writes, in its order
InitOrder == <<"protocol", "firmware", "system", "joint0", "joint1", "drive", "sonar">>

VARIABLES
  flashed,                    \* protocol version of the firmware on the robot
  eeprom,                     \* the two bytes of each block
  mode,                         \* "off", "init", "load", "run", "save"
  writing,                    \* blocks still to be written, the first under way
  half,                       \* its first bytes are written
  ram,                        \* the parameters' structures
  settings,                   \* settings so far
  kept,                       \* what each block was last written with, to its end
  torn                        \* blocks whose writing was begun and not ended,
                              \* or left out when the robot was switched off,
                              \* or written from such a block

eepromVars == <<flashed, eeprom, mode, writing, half, ram, settings, kept, torn>>

Value(version, n) == [version |-> version, setting |-> n]
Default == Value(flashed, 0)
Whole(bytes) == bytes[1] = bytes[2]
Made(bytes) == bytes[1].version = flashed    \* by this firmware

Erased == Value(0, 0)

EepromInit ==
  /\ flashed = 1
  /\ eeprom = [b \in Blocks |-> <<Erased, Erased>>]
  /\ mode = "off" /\ writing = <<>> /\ half = FALSE
  /\ ram = [b \in Params |-> <<Erased, Erased>>]
  /\ settings = 0
  /\ kept = [b \in Blocks |-> Erased]
  /\ torn = {}

-----------------------------------------------------------------------------
(* Orazio_paramInit *)

\* Mutant of Boot: defaults for an erased EEPROM only.
BootErased ==
  /\ mode = "off"
  /\ ram' = [b \in Params |-> <<Default, Default>>]
  /\ IF eeprom["protocol"] = <<Erased, Erased>>
       THEN mode' = "init" /\ writing' = InitOrder
       ELSE mode' = "load" /\ UNCHANGED writing
  /\ half' = FALSE
  /\ UNCHANGED <<flashed, eeprom, settings, kept, torn>>

\* The compiled values are in RAM; the protocol version is read.
Boot ==
  /\ mode = "off"
  /\ ram' = [b \in Params |-> <<Default, Default>>]
  /\ IF eeprom["protocol"] # <<Default, Default>>
       THEN mode' = "init" /\ writing' = InitOrder
       ELSE mode' = "load" /\ UNCHANGED writing
  /\ half' = FALSE
  /\ UNCHANGED <<flashed, eeprom, settings, kept, torn>>

\* The bytes EEPROM_write stores in block b: the versions are constants.
Bytes(b) == IF b \in Versions THEN <<Default, Default>> ELSE ram[b]

\* EEPROM_write: the first bytes of a block ...
WriteFirst ==
  /\ mode \in {"init", "save"} /\ ~half
  /\ eeprom' = [eeprom EXCEPT ![Head(writing)][1] = Bytes(Head(writing))[1]]
  /\ half' = TRUE
  /\ torn' = torn \cup {Head(writing)}
  /\ UNCHANGED <<flashed, mode, writing, ram, settings, kept>>

\* Mutant of WriteLast: joint0 is one byte too long.
WriteLastBeyond ==
  /\ mode \in {"init", "save"} /\ half
  /\ LET b == Head(writing)
     IN  /\ eeprom' = IF b = "joint0"
                        THEN [eeprom EXCEPT ![b][2] = Bytes(b)[2], !["joint1"][1] = Bytes(b)[2]]
                        ELSE [eeprom EXCEPT ![b][2] = Bytes(b)[2]]
         /\ kept' = [kept EXCEPT ![b] = Bytes(b)[2]]
         /\ torn' = IF Whole(Bytes(b)) /\ Made(Bytes(b)) THEN torn \ {b} ELSE torn
  /\ half' = FALSE
  /\ writing' = Tail(writing)
  /\ mode' = IF Tail(writing) # <<>> THEN mode ELSE IF mode = "init" THEN "load" ELSE "run"
  /\ UNCHANGED <<flashed, ram, settings>>

\* ... and its last one.
WriteLast ==
  /\ mode \in {"init", "save"} /\ half
  /\ LET b == Head(writing)
     IN  /\ eeprom' = [eeprom EXCEPT ![b][2] = Bytes(b)[2]]
         /\ kept' = [kept EXCEPT ![b] = Bytes(b)[2]]
         /\ torn' = IF Whole(Bytes(b)) /\ Made(Bytes(b)) THEN torn \ {b} ELSE torn
  /\ half' = FALSE
  /\ writing' = Tail(writing)
  /\ mode' = IF Tail(writing) # <<>> THEN mode ELSE IF mode = "init" THEN "load" ELSE "run"
  /\ UNCHANGED <<flashed, ram, settings>>

\* All parameters are loaded.
LoadAll ==
  /\ mode = "load"
  /\ ram' = [b \in Params |-> eeprom[b]]
  /\ mode' = "run"
  /\ UNCHANGED <<flashed, eeprom, writing, half, settings, kept, torn>>

-----------------------------------------------------------------------------
(* The host's requests *)

\* Orazio_handlePacket copies parameters the host has set.
Set(b) ==
  /\ mode = "run" /\ settings < MaxSettings
  /\ settings' = settings + 1
  /\ ram' = [ram EXCEPT ![b] = <<Value(flashed, settings'), Value(flashed, settings')>>]
  /\ UNCHANGED <<flashed, eeprom, mode, writing, half, kept, torn>>

\* Orazio_paramSave begins.
Save(b) ==
  /\ mode = "run"
  /\ mode' = "save" /\ writing' = <<b>> /\ half' = FALSE
  /\ UNCHANGED <<flashed, eeprom, ram, settings, kept, torn>>

\* Orazio_paramLoad
Load(b) ==
  /\ mode = "run"
  /\ ram' = [ram EXCEPT ![b] = eeprom[b]]
  /\ UNCHANGED <<flashed, eeprom, mode, writing, half, settings, kept, torn>>

-----------------------------------------------------------------------------
(* The world *)

\* What Orazio_paramInit had still to write is left out for good when the
\* version is written already.
SwitchOff ==
  /\ mode # "off"
  /\ mode' = "off"
  /\ torn' = IF mode = "init" THEN torn \cup {writing[i] : i \in 1 .. Len(writing)} ELSE torn
  /\ writing' = <<>> /\ half' = FALSE
  /\ UNCHANGED <<flashed, eeprom, ram, settings, kept>>

\* A new firmware, with a protocol version and a layout of its own
Flash ==
  /\ mode = "off" /\ flashed < MaxFirmware
  /\ flashed' = flashed + 1
  /\ UNCHANGED <<eeprom, mode, writing, half, ram, settings, kept, torn>>

EepromNext == \/ Boot \/ WriteFirst \/ WriteLast \/ LoadAll
              \/ \E b \in Params : Set(b) \/ Save(b) \/ Load(b)
              \/ SwitchOff \/ Flash

EepromSpec == EepromInit /\ [][EepromNext]_eepromVars

-----------------------------------------------------------------------------
(* Properties *)

Values == [version : 0 .. MaxFirmware, setting : 0 .. MaxSettings]

EepromTypeOK ==
  /\ flashed \in 1 .. MaxFirmware
  /\ eeprom \in [Blocks -> Values \X Values]
  /\ mode \in {"off", "init", "load", "run", "save"}
  /\ writing \in Seq(Blocks) /\ half \in BOOLEAN
  /\ (mode \in {"init", "save"}) = (writing # <<>>)
  /\ ram \in [Params -> Values \X Values]
  /\ settings \in 0 .. MaxSettings
  /\ kept \in [Blocks -> Values] /\ torn \subseteq Blocks

\* A block whose writing never was interrupted holds what it was last written
\* with to its end, whatever was saved, switched off and flashed around it
\* (orazio_param.c:12-17, 91-113).
SavedIsKept ==
  \A b \in Blocks \ torn : eeprom[b] = <<kept[b], kept[b]>>

\* Half-written parameters and those made for another firmware never reach the
\* running one from a block whose writing was not interrupted: that is what the protocol version
\* is for (orazio_param.c:20-27).
NoForeignParams ==
  mode = "run" => \A b \in Params \ torn : Whole(ram[b]) /\ Made(ram[b])
=============================================================================
