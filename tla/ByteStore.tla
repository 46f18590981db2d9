----------------------------- MODULE ByteStore ------------------------------
(***************************************************************************)
(* What the EEPROM emulation of the dspic promises to its caller: bytes    *)
(* that keep the last value written while power comes and goes at any      *)
(* moment.  A power cut may leave the store unable to take a write ever    *)
(* again (DataEEWrite then returns 4), never without what it kept.         *)
(***************************************************************************)
EXTENDS Naturals

CONSTANTS Address, Values, Unwritten

VARIABLES bytes,         \* what a read of each address answers
          asked,         \* the last write asked for
          writable,      \* a write is still taken
          on             \* the board has power

storeVars == <<bytes, asked, writable, on>>

StoreInit ==
  /\ bytes = [a \in Address |-> Unwritten]
  /\ asked = <<>> /\ writable = TRUE /\ on = FALSE

WriteByte(a, v) ==
  /\ on
  /\ asked' = <<a, v>>
  /\ bytes' = IF writable THEN [bytes EXCEPT ![a] = v] ELSE bytes
  /\ UNCHANGED <<writable, on>>

PowerOn == ~on /\ on' = TRUE /\ UNCHANGED <<bytes, asked, writable>>

PowerOff ==
  /\ on /\ on' = FALSE
  /\ writable' \in {writable, FALSE}
  /\ UNCHANGED <<bytes, asked>>

StoreNext ==
  \/ \E a \in Address, v \in Values : WriteByte(a, v)
  \/ PowerOn
  \/ PowerOff

StoreSpec == StoreInit /\ [][StoreNext]_storeVars
=============================================================================
