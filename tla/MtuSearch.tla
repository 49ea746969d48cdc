------------------------------ MODULE MtuSearch ------------------------------
(***************************************************************************)
(* MTU discovery and its application (src/src/mtu_optimizer.cpp): the      *)
(* Don't-Fragment probes, the binary search over the ICMP payload and the  *)
(* netsh loop over the physical adapters, as menu entry '5' and the option *)
(* --mtu of src/src/main.cpp run them.                                     *)
(*                                                                         *)
(* `path` is the largest payload the route carries unfragmented.  A probe  *)
(* above it never passes; a probe that would pass may still be lost or     *)
(* answered after the 800 ms timeout, which the code takes for "too big".  *)
(***************************************************************************)
EXTENDS Integers

CONSTANTS
  Low,                   \* 1200: smallest payload tried
  High,                  \* 1472: payload of the standard 1500-byte MTU
  Paths,                 \* values `path` may have
  Nic,                   \* active adapters
  Physical,              \* those GetActiveAdapters marks isPhysical
  NamedVirtual           \* those whose name alone IsVirtualOrVpnAdapter refuses

ASSUME SearchAssumption ==
  /\ Low \in Nat /\ High \in Nat /\ 0 < Low /\ Low <= High
  /\ Paths \subseteq Nat
  /\ Physical \subseteq Nic /\ NamedVirtual \subseteq Nic \ Physical

Headers == 28                        \* 20 IP + 8 ICMP
StandardMtu == High + Headers        \* 1500

VARIABLES
  path,                  \* changes between two discoveries only
  pc,                    \* where the discovery or its application is
  goal,                  \* "show" (entry '5', first run) or "apply"
  low, high, optimal,    \* locals of DiscoverOptimalMtu
  lost,                  \* history: this discovery lost a probe that fits
  result,                \* the MtuResult
  todo,                  \* adapters AutoDetectAndApplyMtu has still to set
  mtuOf                  \* the adapters' configured MTU; 0: never set by DisPing

vars == <<path, pc, goal, low, high, optimal, lost, result, todo, mtuOf>>

Result == [mtu : 0..StandardMtu, mss : -40..StandardMtu, found : BOOLEAN]

\* MSS = MTU - 40 (20 IP + 20 TCP).
MtuResult(mtu, found) == [mtu |-> mtu, mss |-> mtu - 40, found |-> found]

Init ==
  /\ path \in Paths
  /\ pc = "menu"
  /\ goal = "show"
  /\ low = Low /\ high = High /\ optimal = -1
  /\ lost = FALSE
  /\ result = MtuResult(StandardMtu, FALSE)
  /\ todo = {}
  /\ mtuOf = [n \in Nic |-> 0]

\* Mutant of Probe: the DF flag is missing, so a large probe passes in pieces.
ProbeFragmented(size, ok) ==
  /\ lost' = (lost \/ (~ok /\ size <= path))

\* ProbePacketSize: `ok` is a possible answer for a payload of this size, and
\* `lost` records that a probe the route carries came back as a failure.
Probe(size, ok) ==
  /\ ok => size <= path
  /\ lost' = (lost \/ (~ok /\ size <= path))

\* DiscoverOptimalMtu starts, on the route there is now.
Begin(g) ==
  /\ path' \in Paths
  /\ pc' = "sanity"
  /\ goal' = g
  /\ low' = Low /\ high' = High /\ optimal' = -1
  /\ lost' = FALSE
  /\ result' = MtuResult(StandardMtu, FALSE)
  /\ UNCHANGED <<todo, mtuOf>>

\* Entry '5' of the menu shows a result first; --mtu applies at once.
Menu5 == pc = "menu" /\ Begin("show")
CliMtu == pc = "menu" /\ Begin("apply")

\* "Apply to active physical adapters?": 'y' runs the discovery again, on a route
\* that may answer differently from the one that was shown.
AnswerYes == pc = "answer" /\ Begin("apply")
AnswerNo ==
  /\ pc = "answer"
  /\ pc' = "menu"
  /\ UNCHANGED <<path, goal, low, high, optimal, lost, result, todo, mtuOf>>

\* The quick check of the low bound.
Sanity ==
  /\ pc = "sanity"
  /\ \E ok \in BOOLEAN :
       /\ Probe(Low, ok)
       /\ IF ok
            THEN pc' = "direct" /\ UNCHANGED result
            ELSE pc' = "result" /\ result' = MtuResult(StandardMtu, FALSE)
  /\ UNCHANGED <<path, goal, low, high, optimal, todo, mtuOf>>

\* The check of the standard MTU.
Direct ==
  /\ pc = "direct"
  /\ \E ok \in BOOLEAN :
       /\ Probe(High, ok)
       /\ IF ok
            THEN pc' = "result" /\ result' = MtuResult(StandardMtu, TRUE)
            ELSE pc' = "search" /\ UNCHANGED result
  /\ UNCHANGED <<path, goal, low, high, optimal, todo, mtuOf>>

\* Mutant of Halve: the high bound moves to mid instead of past it.
HalveStuck ==
  LET mid == low + (high - low) \div 2 IN
  /\ pc = "search"
  /\ low <= high
  /\ \E ok \in BOOLEAN :
       /\ Probe(mid, ok)
       /\ IF ok
            THEN optimal' = mid /\ low' = mid + 1 /\ UNCHANGED high
            ELSE high' = mid /\ UNCHANGED <<low, optimal>>
  /\ UNCHANGED <<path, pc, goal, result, todo, mtuOf>>

\* Mutant of Halve: the high bound loses one candidate too many.
HalveSkips ==
  LET mid == low + (high - low) \div 2 IN
  /\ pc = "search"
  /\ low <= high
  /\ \E ok \in BOOLEAN :
       /\ Probe(mid, ok)
       /\ IF ok
            THEN optimal' = mid /\ low' = mid + 1 /\ UNCHANGED high
            ELSE high' = mid - 2 /\ UNCHANGED <<low, optimal>>
  /\ UNCHANGED <<path, pc, goal, result, todo, mtuOf>>

\* Mutant of Halve: a failed probe moves low back to the last success, which is
\* -1 before the first one.
HalveFromOptimal ==
  LET mid == low + (high - low) \div 2 IN
  /\ pc = "search"
  /\ low <= high
  /\ \E ok \in BOOLEAN :
       /\ Probe(mid, ok)
       /\ IF ok
            THEN optimal' = mid /\ low' = mid + 1 /\ UNCHANGED high
            ELSE high' = mid - 1 /\ low' = optimal /\ UNCHANGED optimal
  /\ UNCHANGED <<path, pc, goal, result, todo, mtuOf>>

\* One round of the binary search.
Halve ==
  LET mid == low + (high - low) \div 2 IN
  /\ pc = "search"
  /\ low <= high
  /\ \E ok \in BOOLEAN :
       /\ Probe(mid, ok)
       /\ IF ok
            THEN optimal' = mid /\ low' = mid + 1 /\ UNCHANGED high
            ELSE high' = mid - 1 /\ UNCHANGED <<low, optimal>>
  /\ UNCHANGED <<path, pc, goal, result, todo, mtuOf>>

\* The loop is over: optimalPayload + 28, or the standard MTU, not found.
Converged ==
  /\ pc = "search"
  /\ low > high
  /\ pc' = "result"
  /\ result' = IF optimal > 0 THEN MtuResult(optimal + Headers, TRUE)
                              ELSE MtuResult(StandardMtu, FALSE)
  /\ UNCHANGED <<path, goal, low, high, optimal, lost, todo, mtuOf>>

Show ==
  /\ pc = "result" /\ goal = "show"
  /\ pc' = "answer"
  /\ UNCHANGED <<path, goal, low, high, optimal, lost, result, todo, mtuOf>>

\* Mutant of BeginApply: the adapters are not filtered by isPhysical.
BeginApplyAll ==
  /\ pc = "result" /\ goal = "apply"
  /\ pc' = "apply"
  /\ todo' = Nic
  /\ UNCHANGED <<path, goal, low, high, optimal, lost, result, mtuOf>>

\* AutoDetectAndApplyMtu goes on with whatever DiscoverOptimalMtu returned; it
\* does not look at `found`.
BeginApply ==
  /\ pc = "result" /\ goal = "apply"
  /\ pc' = "apply"
  /\ todo' = Physical
  /\ UNCHANGED <<path, goal, low, high, optimal, lost, result, mtuOf>>

\* ApplyMtuToInterface: the shield looks at the name once more; then netsh sets
\* the MTU or fails.
ApplyOne ==
  /\ pc = "apply"
  /\ \E n \in todo :
       /\ todo' = todo \ {n}
       /\ mtuOf' \in {mtuOf} \cup
                     {[mtuOf EXCEPT ![m] = result.mtu] : m \in {n} \ NamedVirtual}
  /\ UNCHANGED <<path, pc, goal, low, high, optimal, lost, result>>

\* The loop is over.  The menu, or the next run of --mtu, may discover again,
\* with these MTUs on the adapters.
Applied ==
  /\ pc = "apply" /\ todo = {}
  /\ pc' = "menu"
  /\ UNCHANGED <<path, goal, low, high, optimal, lost, result, todo, mtuOf>>

Discover == Sanity \/ Direct \/ Halve \/ Converged

Next == Menu5 \/ CliMtu \/ AnswerYes \/ AnswerNo \/ Discover
        \/ Show \/ BeginApply \/ ApplyOne \/ Applied

\* The program's own steps are taken; the user's answers need not be.
Spec == Init /\ [][Next]_vars /\ WF_vars(Discover \/ Show \/ BeginApply \/ ApplyOne \/ Applied)

-----------------------------------------------------------------------------
(* Properties. *)

\* Every variable has the values the code can give it; in particular the
\* payload probed fits the uint16_t it is cast to and lies in Low..High.
TypeOK ==
  /\ path \in Nat
  /\ pc \in {"menu", "sanity", "direct", "search", "result", "answer", "apply"}
  /\ goal \in {"show", "apply"}
  /\ low \in Low..(High + 1)
  /\ high \in (Low - 1)..High
  /\ optimal \in {-1} \union Low..High
  /\ lost \in BOOLEAN
  /\ result \in Result
  /\ todo \in SUBSET Nic
  /\ mtuOf \in [Nic -> 0..StandardMtu]

\* A result marked found is never larger than what the route carries, whatever
\* probes were lost on the way: the notes promise "zero fragmentation".
FoundNeverFragments ==
  result.found => result.mtu - Headers <= path

\* When no probe that fits was lost, the search finds exactly the largest
\* payload the route carries (capped at the standard MTU), or reports that
\* nothing in range passes.
ExactWhenReliable ==
  pc = "result" /\ ~lost =>
    IF path < Low THEN ~result.found
                  ELSE /\ result.found
                       /\ result.mtu - Headers = IF path < High THEN path ELSE High

\* Every round of the search narrows the interval.
SearchNarrows ==
  [][pc = "search" /\ pc' = "search" => high' - low' < high - low]_vars

\* A discovery ends with a result, however many probes are lost.
DiscoveryEnds == pc = "sanity" ~> pc = "result"

\* What an adapter is set to comes from the discovery that was just made, not from
\* the one the user was shown nor from an earlier one; it fits the route unless
\* that discovery failed and said so; and the MTU of a tunnel is left alone.  (It
\* stays on the adapter when a later discovery finds less and is not applied.)
AppliedIsSafe ==
  [][mtuOf' # mtuOf =>
       \E n \in Physical :
         /\ mtuOf' = [mtuOf EXCEPT ![n] = result.mtu]
         /\ pc = "apply" /\ goal = "apply"
         /\ result.found => result.mtu - Headers <= path]_vars

\* To its users the search, from the sanity check to the result, is one
\* measurement of the route.
Measurement == INSTANCE MtuMeasurement
  WITH state    <- CASE pc \in {"sanity", "direct", "search"} -> "measuring"
                     [] pc = "apply" -> "applying"
                     [] OTHER -> "ready",
       reliable <- ~lost

\* Sanity check, standard MTU, binary search and the netsh loop implement
\* MtuMeasurement: what they answer and set is what a single exact (or, with
\* losses, safe) measurement would.
ImplementsMeasurement == Measurement!Spec

-----------------------------------------------------------------------------
(* The inductive invariant; MtuSearchProofs.tla proves it. *)

\* Before the search its locals have their initial values, and a discovery that
\* got past the sanity check without losing a probe has a route of at least Low.
BeforeSearch ==
  /\ pc \in {"sanity", "direct"} => low = Low /\ high = High /\ optimal = -1
  /\ pc = "sanity" => ~lost
  /\ pc = "direct" /\ ~lost => Low <= path

\* The bracket: everything up to `optimal` = low - 1 is known to pass, and
\* while no probe was lost the limit of the route is not above `high`.
Bracket ==
  pc = "search" =>
    /\ low <= high + 1
    /\ optimal = -1 => low = Low
    /\ optimal # -1 => optimal = low - 1 /\ optimal <= path
    /\ ~lost => Low <= path /\ path <= high

IInv ==
  /\ TypeOK
  /\ BeforeSearch
  /\ Bracket
  /\ FoundNeverFragments
  /\ ExactWhenReliable

\* The adapters still to be set are physical, and only the discovery that was made
\* to be applied is applied.
AppliedHolds ==
  /\ todo \subseteq Physical
  /\ pc = "apply" => goal = "apply"
=============================================================================
