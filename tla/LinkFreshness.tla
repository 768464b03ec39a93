--------------------------- MODULE LinkFreshness ---------------------------
(***************************************************************************)
(* How old may the evidence be on which CP operates NORMAL?  The module    *)
(* adds to CpMpLink two history variables that count CP's periods since MP *)
(* was running with nothing latched, and since it was running and enforced *)
(* the configuration CP operates.  CP learns the two from frames that may  *)
(* be lost one without the other, so it may join the halves of two         *)
(* different reports: each half is fresh, the pair may never have held.    *)
(***************************************************************************)
EXTENDS CpMpLink

CONSTANTS
  MaxStale,         \* the claimed bound, in CP periods
  MaxDisturbances   \* bound on edits, losses, restarts and latches together

ASSUME FreshnessAssumption == {MaxStale, MaxDisturbances} \subseteq Nat

VARIABLES
  sinceUnlatched,   \* CP periods since MP was up and unlatched, up to MaxStale + 1
  sinceEnforcing    \* CP periods since MP was up and enforced the active configuration

Unlatched == mp.up /\ latchedAction = "NONE"
Enforcing == mp.up /\ activeImage = Image(activeGeneration)

FreshInit == Init /\ sinceUnlatched = 0 /\ sinceEnforcing = MaxStale + 1

Count(n) == IF n > MaxStale THEN n ELSE n + 1

Observe(unlatched, enforcing) ==
  /\ sinceUnlatched' = IF Unlatched' THEN 0 ELSE unlatched
  /\ sinceEnforcing' = IF Enforcing' THEN 0 ELSE enforcing

\* A latch lasts until MP restarts.
Latches == IF latchedAction = "NONE" THEN 0 ELSE 1

FewDisturbances ==
  (activeGeneration - 1) + losses + crashes + Latches <= MaxDisturbances

FreshNext ==
  /\ \/ CpStep /\ Observe(Count(sinceUnlatched), Count(sinceEnforcing))
     \/ Next /\ ~CpStep /\ Observe(sinceUnlatched, sinceEnforcing)
  /\ FewDisturbances'

FreshSpec == FreshInit /\ [][FreshNext]_<<vars, sinceUnlatched, sinceEnforcing>>

\* As in CpMpLink: nothing of what is fair is a disturbance.
FairFreshSpec == FreshSpec /\ Fairness

\* CP operates NORMAL only if MP was unlatched, and enforced the configuration
\* CP runs, within the last MaxStale periods, although reports are queued twice,
\* may be late or lost, and stay valid for PeerTimeout periods
\* (CpMpLinkServicePeerHealthy, PeerConfigMatchesActiveConfig).
NormalIsFresh ==
  cp.safetyAction = "NORMAL" => sinceUnlatched <= MaxStale /\ sinceEnforcing <= MaxStale

=============================================================================
