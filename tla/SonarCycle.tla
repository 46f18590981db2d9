----------------------------- MODULE SonarCycle -----------------------------
(***************************************************************************)
(* The sonars: the cycle in which orazio_sonar.c polls them from the main  *)
(* loop, the pin-change interrupt of arch/atmega2560/sonar.c that measures *)
(* their echoes, and the echoes.  Between Sonar_pollPattern, which leaves  *)
(* the interrupts disabled, and the next byte given to the UART, which     *)
(* enables them, no interrupt is served.                                   *)
(*                                                                         *)
(* A counter holds 0, the time at which an echo began ("start"), the time  *)
(* an echo took ("span"), or neither ("junk", the difference of a time and *)
(* something else).                                                        *)
(***************************************************************************)
EXTENDS Naturals, FiniteSets, FiniteSetsExt

CONSTANTS Sonars,
          MaxCycle,           \* cycles in a pattern, at most
          MaxPatterns         \* bound: patterns the host sends

ASSUME SonarAssumption ==
  /\ IsFiniteSet(Sonars) /\ Sonars # {}
  /\ MaxCycle \in Nat \ {0} /\ MaxPatterns \in Nat

VARIABLES
  pattern,                    \* sonar_params.pattern: 0, or the sonar's cycle
  sonar_max_cycle, sonar_current_cycle, sonar_ready,
  ranges,                     \* sonar_status.ranges
  triggers,                   \* sonars polled last, those that may interrupt
  counters, echos,            \* the interrupt's: times, echo pins seen last
  pins,                       \* echo pins that are high
  waiting,                    \* sonars triggered whose echo has not begun
  flag,                       \* a pin has changed
  interrupts,                 \* enabled
  sonarAt,                         \* "idle", or "comm": Orazio_commHandle comes next
  patterns,                   \* patterns sent
  overlap                     \* a poll has come before the last one's echoes
                              \* had ended and been measured

isr == <<counters, echos>>
world == <<pins, waiting>>
cycle == <<sonar_max_cycle, sonar_current_cycle, sonar_ready>>
sonarVars == <<pattern, cycle, ranges, triggers, isr, world, flag, interrupts, sonarAt,
               patterns, overlap>>

Zeros == [s \in Sonars |-> "zero"]

\* Orazio_sonarInit
SonarInit(p) ==
  [max |-> Max({p[s] : s \in Sonars}), current |-> 0, ready |-> FALSE]

SonarStart ==
  /\ pattern \in [Sonars -> 0 .. MaxCycle]
  /\ LET cyc == SonarInit(pattern)
     IN  sonar_max_cycle = cyc.max /\ sonar_current_cycle = cyc.current /\ sonar_ready = cyc.ready
  /\ ranges = Zeros
  /\ triggers = {} /\ counters = Zeros /\ echos = {}
  /\ pins = {} /\ waiting = {} /\ flag = FALSE
  /\ interrupts = TRUE /\ sonarAt = "idle" /\ patterns = 0 /\ overlap = FALSE

-----------------------------------------------------------------------------
(* The main loop *)

Quiet == pins = {} /\ waiting = {} /\ ~flag

\* Mutant of CycleEnds: one cycle too early.
CycleEndsEarly ==
  /\ sonarAt = "idle" /\ sonar_current_cycle + 1 >= sonar_max_cycle
  /\ sonar_current_cycle' = 0 /\ sonar_ready' = FALSE
  /\ sonarAt' = "comm"
  /\ UNCHANGED <<pattern, sonar_max_cycle, ranges, triggers, isr, world, flag,
                 interrupts, patterns, overlap>>

\* Orazio_sonarHandle when a cycle ends: nothing is polled.
CycleEnds ==
  /\ sonarAt = "idle" /\ sonar_current_cycle + 1 > sonar_max_cycle
  /\ sonar_current_cycle' = 0 /\ sonar_ready' = FALSE
  /\ sonarAt' = "comm"
  /\ UNCHANGED <<pattern, sonar_max_cycle, ranges, triggers, isr, world, flag,
                 interrupts, patterns, overlap>>

\* Orazio_sonarHandle otherwise: when it is some sonars' turn, Sonar_get reads
\* what was polled before and Sonar_pollPattern triggers them.
Turn(c) == {s \in Sonars : pattern[s] = c}
SonarHandle ==
  /\ sonarAt = "idle" /\ sonar_current_cycle + 1 <= sonar_max_cycle
  /\ sonar_current_cycle' = sonar_current_cycle + 1
  /\ LET mask == Turn(sonar_current_cycle + 1)
     IN  IF mask = {}
         THEN /\ sonar_ready' = FALSE
              /\ UNCHANGED <<ranges, triggers, counters, waiting, interrupts, overlap>>
         ELSE /\ ranges' = [s \in Sonars |-> IF s \in triggers THEN counters[s] ELSE "zero"]
              /\ sonar_ready' = TRUE
              /\ triggers' = mask
              /\ counters' = Zeros
              /\ waiting' = (waiting \cup mask) \ pins
              /\ interrupts' = FALSE
              /\ overlap' = (overlap \/ ~Quiet)
  /\ sonarAt' = "comm"
  /\ UNCHANGED <<pattern, sonar_max_cycle, echos, pins, flag, patterns>>

\* Orazio_commHandle: UART_putChar's ATOMIC_FORCEON, and a new pattern.
Comm ==
  /\ sonarAt = "comm"
  /\ interrupts' = TRUE
  /\ sonarAt' = "idle"
  /\ UNCHANGED <<pattern, cycle, ranges, triggers, isr, world, flag, patterns, overlap>>

CommPattern ==
  /\ sonarAt = "comm" /\ patterns < MaxPatterns
  /\ patterns' = patterns + 1
  /\ pattern' \in [Sonars -> 0 .. MaxCycle]
  /\ LET cyc == SonarInit(pattern')
     IN  sonar_max_cycle' = cyc.max /\ sonar_current_cycle' = cyc.current /\ sonar_ready' = cyc.ready
  /\ interrupts' = TRUE
  /\ sonarAt' = "idle"
  /\ UNCHANGED <<ranges, triggers, isr, world, flag, overlap>>

-----------------------------------------------------------------------------
(* Echoes and their interrupt *)

\* An echo begins, or ends; only a sonar polled last raises the interrupt.
Rise(s) ==
  /\ s \in waiting
  /\ waiting' = waiting \ {s} /\ pins' = pins \cup {s}
  /\ flag' = (flag \/ s \in triggers)
  /\ UNCHANGED <<pattern, cycle, ranges, triggers, isr, interrupts, sonarAt, patterns, overlap>>
Fall(s) ==
  /\ s \in pins
  /\ pins' = pins \ {s}
  /\ flag' = (flag \/ s \in triggers)
  /\ UNCHANGED <<pattern, cycle, ranges, triggers, isr, waiting, interrupts, sonarAt,
                 patterns, overlap>>

\* No sonar there, no echo.
Silent(s) ==
  /\ s \in waiting
  /\ waiting' = waiting \ {s}
  /\ UNCHANGED <<pattern, cycle, ranges, triggers, isr, pins, flag, interrupts, sonarAt,
                 patterns, overlap>>

\* Mutant of PinChange: the pins are not remembered.
PinChangeForgets ==
  /\ flag /\ interrupts
  /\ counters' =
       [s \in Sonars |->
          IF s \notin triggers \/ (s \in pins) = (s \in echos) THEN counters[s]
          ELSE IF s \in pins THEN "start"
          ELSE IF counters[s] = "start" THEN "span" ELSE "junk"]
  /\ flag' = FALSE
  /\ UNCHANGED <<pattern, cycle, ranges, triggers, echos, world, interrupts, sonarAt,
                 patterns, overlap>>

\* PCINT2_vect
PinChange ==
  /\ flag /\ interrupts
  /\ counters' =
       [s \in Sonars |->
          IF s \notin triggers \/ (s \in pins) = (s \in echos) THEN counters[s]
          ELSE IF s \in pins THEN "start"
          ELSE IF counters[s] = "start" THEN "span" ELSE "junk"]
  /\ echos' = pins
  /\ flag' = FALSE
  /\ UNCHANGED <<pattern, cycle, ranges, triggers, world, interrupts, sonarAt, patterns, overlap>>

SonarMain == CycleEnds \/ SonarHandle \/ Comm \/ CommPattern
Echo == PinChange \/ \E s \in Sonars : Rise(s) \/ Fall(s) \/ Silent(s)
SonarNext == SonarMain \/ Echo

SonarSpec == SonarStart /\ [][SonarNext]_sonarVars

\* The main loop goes on; echoes end.
SonarFairSpec == SonarSpec /\ WF_sonarVars(SonarMain) /\ WF_sonarVars(Echo)

-----------------------------------------------------------------------------
(* Properties *)

Counts == {"zero", "start", "span", "junk"}

SonarTypeOK ==
  /\ pattern \in [Sonars -> 0 .. MaxCycle]
  /\ sonar_max_cycle \in 0 .. MaxCycle /\ sonar_current_cycle \in 0 .. sonar_max_cycle
  /\ sonar_ready \in BOOLEAN /\ interrupts \in BOOLEAN /\ flag \in BOOLEAN
  /\ {ranges, counters} \subseteq [Sonars -> Counts]
  /\ triggers \subseteq Sonars /\ echos \subseteq Sonars
  /\ pins \subseteq Sonars /\ waiting \subseteq Sonars
  /\ sonarAt \in {"idle", "comm"} /\ patterns \in 0 .. MaxPatterns
  /\ overlap \in BOOLEAN

\* While echoes end before the next poll, what is sent as a range is the time
\* a whole echo took, sonar.c:95 "we put in the counters[s] the duration (echo
\* end)", or 0, whichever sonars' turn it is and when the interrupt is served.
RangesAreSpans == ~overlap => \A s \in Sonars : ranges[s] \in {"zero", "span"}

\* When the host leaves the pattern alone, every sonar that is in it is polled
\* again and again (orazio_sonar.c:28-58).
PolledInTurn == \A s \in Sonars : []<>(pattern[s] = 0 \/ s \in triggers)
=============================================================================
