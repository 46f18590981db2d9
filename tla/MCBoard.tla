------------------------------ MODULE MCBoard ------------------------------
(***************************************************************************)
(* Five parts of the board, for TLC: the UART, the EEPROM with the         *)
(* parameters, the EEPROM that the dspic emulates, the dspic's UART, the   *)
(* sonars.  They share no state here, so a behaviour runs one of them,     *)
(* `part', and leaves the others as they were: their states are checked    *)
(* one after the other, not in all combinations.                           *)
(*                                                                         *)
(* UART: a uint8_t of two bits and a buffer of four bytes, as 8 and 256    *)
(* are.  EEPROM: two firmwares, one setting, any number of starts.         *)
(* Emulation: two addresses, and three pages of a status and three words,  *)
(* in rows of two, until the circle of pages has begun again twice; a page *)
(* expires when it has begun again once.  The dspic's UART: registers as   *)
(* on the chip, rings of eight bytes with a size of three bits, and bytes  *)
(* enough each way to fill the registers and all of the ring but one.      *)
(* Sonars: two, in a cycle of at most two, one change of the pattern.      *)
(***************************************************************************)
EXTENDS Uart, EepromParams, DataEE, DspicUart, SonarCycle

VARIABLE part
dspicPortVars == <<deeVars, dspicVars>>
vars == <<part, uartVars, eepromVars, dspicPortVars, sonarVars>>

Init == /\ part \in {"uart", "eeprom", "emulation", "dspic", "sonar"}
        /\ UartInit /\ EepromInit /\ DataEEStart /\ DspicInit /\ SonarStart
        /\ part # "sonar" => \A s \in Sonars : pattern[s] = 0

UartRuns(A) == part = "uart" /\ A /\ UNCHANGED <<part, eepromVars, dspicPortVars, sonarVars>>
SonarRuns(A) == part = "sonar" /\ A /\ UNCHANGED <<part, uartVars, eepromVars, dspicPortVars>>

Next ==
  \/ UartRuns(UartNext)
  \/ part = "eeprom" /\ EepromNext /\ UNCHANGED <<part, uartVars, dspicPortVars, sonarVars>>
  \/ /\ part = "emulation" /\ DataEENext
     /\ UNCHANGED <<part, uartVars, eepromVars, dspicVars, sonarVars>>
  \/ /\ part = "dspic" /\ DspicNext
     /\ UNCHANGED <<part, uartVars, eepromVars, deeVars, sonarVars>>
  \/ SonarRuns(SonarNext)

Spec == Init /\ [][Next]_vars

\* The fairness of Uart and of SonarCycle
FairSpec ==
  /\ Spec
  /\ WF_vars(UartRuns(EnableInterrupt)) /\ WF_vars(UartRuns(TransmitISR))
  /\ WF_vars(SonarRuns(SonarMain)) /\ WF_vars(SonarRuns(Echo))
=============================================================================
