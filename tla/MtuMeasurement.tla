--------------------------- MODULE MtuMeasurement ---------------------------
(***************************************************************************)
(* What MTU discovery promises to those who use its result, without saying *)
(* how it probes: a measurement of the route in one step.  If nothing was  *)
(* lost meanwhile the answer is exact; otherwise it may be any payload     *)
(* that passes, or none.  The physical adapters may then be given the MTU  *)
(* that was measured, and no other, before the next measurement begins.    *)
(* MtuSearch.tla is shown to implement this.                               *)
(***************************************************************************)
EXTENDS Integers

CONSTANTS
  Low, High,             \* the payloads of interest
  Headers,               \* what the MTU adds to a payload
  Paths,                 \* the largest payload of each possible route
  Nic, Physical

VARIABLES
  path,                  \* the largest payload of the route
  state,                 \* "ready", "measuring" or "applying"
  reliable,              \* nothing was lost during the measurement
  result,                \* the last answer
  mtuOf                  \* what the adapters were last set to; 0: nothing

vars == <<path, state, reliable, result, mtuOf>>

Answer(payload, found) ==
  [mtu |-> payload + Headers, mss |-> (payload + Headers) - 40, found |-> found]

\* What is answered when no payload of interest is known to pass.
Fallback == Answer(High, FALSE)

\* The largest payload of interest that passes.
Largest == IF path < High THEN path ELSE High

Exact == IF path < Low THEN Fallback ELSE Answer(Largest, TRUE)

Safe == {Fallback} \cup {Answer(p, TRUE) : p \in Low..Largest}

Init ==
  /\ path \in Paths
  /\ state = "ready"
  /\ reliable = TRUE
  /\ result = Fallback
  /\ mtuOf = [n \in Nic |-> 0]

\* The route may be another one each time.
Request ==
  /\ state = "ready"
  /\ path' \in Paths
  /\ state' = "measuring"
  /\ reliable' = TRUE
  /\ result' = Fallback
  /\ UNCHANGED mtuOf

Lose ==
  /\ state = "measuring"
  /\ reliable' = FALSE
  /\ UNCHANGED <<path, state, result, mtuOf>>

Measure ==
  /\ state = "measuring"
  /\ state' = "ready"
  /\ reliable' => reliable
  /\ result' \in Safe
  /\ reliable' => result' = Exact
  /\ UNCHANGED <<path, mtuOf>>

Apply ==
  /\ state = "ready"
  /\ state' = "applying"
  /\ UNCHANGED <<path, reliable, result, mtuOf>>

Set ==
  /\ state = "applying"
  /\ \E n \in Physical : mtuOf' = [mtuOf EXCEPT ![n] = result.mtu]
  /\ UNCHANGED <<path, state, reliable, result>>

Finish ==
  /\ state = "applying"
  /\ state' = "ready"
  /\ UNCHANGED <<path, reliable, result, mtuOf>>

Next == Request \/ Lose \/ Measure \/ Apply \/ Set \/ Finish

Spec == Init /\ [][Next]_vars
=============================================================================
