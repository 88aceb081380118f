------------------------------- MODULE Circuit -------------------------------
(* One provider's circuit, as llm/breaker.py keeps it, and the pure part of  *)
(* every operation on it.  The monotonic clock is replaced by the age of the *)
(* circuit's `opened_at`, saturated at the cool-down: the code only ever     *)
(* asks whether `clock() - opened_at` has reached `reset_s`.  The failure    *)
(* count saturates at the threshold, the only number it is compared with.    *)
EXTENDS Naturals

CONSTANTS Threshold,  \* LLM_CIRCUIT_FAILURE_THRESHOLD
          Reset       \* LLM_CIRCUIT_RESET_S, in ticks

\* config/settings.py declares both as gt=0.
ASSUME ThresholdAssumption == Threshold \in Nat \ {0}
ASSUME ResetAssumption == Reset \in Nat \ {0}

Circuits == [failures : 0..Threshold, open : BOOLEAN, age : 0..Reset, probe : BOOLEAN]

\* A provider the dictionary does not hold behaves as this circuit.
Closed == [failures |-> 0, open |-> FALSE, age |-> 0, probe |-> FALSE]

-----------------------------------------------------------------------------
(* The gate. *)

\* allows(): closed, or cooled down with the probe still to be given out.
Allows(c) == ~c.open \/ (c.age = Reset /\ ~c.probe)

AdmittedUnmarked(c) == c

\* The side effect of allows(): a call let through an open circuit is the probe.
Admitted(c) == [c EXCEPT !.probe = c.open]

\* blocks(): the same question asked without taking the probe.
Blocks(c) == c.open /\ (c.age < Reset \/ c.probe)

StateOf(c) == IF ~c.open THEN "closed"
              ELSE IF c.probe \/ c.age = Reset THEN "half-open"
              ELSE "open"

-----------------------------------------------------------------------------
(* Outcomes. *)

\* record_success()
Succeeded(c) == Closed

\* A failure (re)opens the circuit when it ends a probe, or when the circuit is
\* closed and the failure is conclusive or is the Threshold-th.
TripsAgain(c, immediate) == c.probe \/ c.open \/ immediate \/ c.failures + 1 >= Threshold
TripsLate(c, immediate) == c.probe \/ (~c.open /\ (immediate \/ c.failures >= Threshold))
Trips(c, immediate) ==
    c.probe \/ (~c.open /\ (immediate \/ c.failures + 1 >= Threshold))

FailedKeepingTheProbe(c, immediate) ==
    [failures |-> IF c.failures < Threshold THEN c.failures + 1 ELSE Threshold,
     open     |-> c.open \/ Trips(c, immediate),
     age      |-> IF Trips(c, immediate) THEN 0 ELSE c.age,
     probe    |-> c.probe]

\* record_failure()
Failed(c, immediate) ==
    [failures |-> IF c.failures < Threshold THEN c.failures + 1 ELSE Threshold,
     open     |-> c.open \/ Trips(c, immediate),
     age      |-> IF Trips(c, immediate) THEN 0 ELSE c.age,
     probe    |-> FALSE]

ElapsedForever(c) == IF c.open THEN [c EXCEPT !.age = @ + 1] ELSE c

\* One tick of the clock `opened_at` is compared with.
Elapsed(c) == IF c.open /\ c.age < Reset THEN [c EXCEPT !.age = @ + 1] ELSE c

-----------------------------------------------------------------------------
\* The circuits the operations can produce: a closed one is below the
\* threshold and remembers no opening, and only a cooled-down one is probed.
WellFormed(c) ==
    /\ c.open \/ (c.failures < Threshold /\ c.age = 0 /\ ~c.probe)
    /\ c.probe => c.open /\ c.age = Reset
=============================================================================
