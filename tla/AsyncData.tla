----------------------------- MODULE AsyncData -----------------------------
(***************************************************************************)
(* The loading hook of the web client (frontend hooks/useAsyncData.ts).  An*)
(* effect runs when an input changes or refetch() is called; its cleanup   *)
(* cancels it.  A load that was started answers at any later time, in any  *)
(* order, cancelled or not.                                                *)
(***************************************************************************)
EXTENDS Integers, FiniteSets

CONSTANTS
  Inputs,     \* values of deps
  NoData,     \* null
  MaxLoads    \* bound: effects run

VARIABLES
  deps, enabled, mounted,
  shownData,      \* data: the input it was loaded for, or null
  isLoading, loadError,
  loads           \* loads started: [for, cancelled, at]

asyncVars == <<deps, enabled, mounted, shownData, isLoading, loadError, loads>>

AsyncInit ==
  /\ deps \in Inputs /\ enabled \in BOOLEAN
  /\ mounted = FALSE
  /\ shownData = NoData /\ isLoading = enabled /\ loadError = FALSE
  /\ loads = <<>>

Loads == DOMAIN loads

cancelled_not(ls) == ls

\* The cleanup of the previous effect.
cancelled(ls) == [n \in DOMAIN ls |-> [ls[n] EXCEPT !.cancelled = TRUE]]

\* The effect, run with these inputs after the cleanup of the last one.
effect(d, e) ==
  /\ Cardinality(Loads) < MaxLoads
  /\ deps' = d /\ enabled' = e /\ mounted' = TRUE
  /\ loadError' = FALSE
  /\ isLoading' = e
  /\ IF e THEN /\ loads' = [n \in 1 .. Cardinality(Loads) + 1 |->
                              IF n \in Loads THEN cancelled(loads)[n]
                              ELSE [for |-> d, cancelled |-> FALSE, at |-> "loader"]]
               /\ UNCHANGED shownData
          ELSE /\ loads' = cancelled(loads)
               /\ shownData' = NoData

mount == ~mounted /\ effect(deps, enabled)
refetch == mounted /\ effect(deps, enabled)
inputsChange(d, e) == mounted /\ <<d, e>> # <<deps, enabled>> /\ effect(d, e)

unmount ==
  /\ mounted
  /\ mounted' = FALSE
  /\ loads' = cancelled(loads)
  /\ UNCHANGED <<deps, enabled, shownData, isLoading, loadError>>

\* .then or .catch runs, then .finally in a later microtask.
loaderSettles(n, ok) ==
  /\ loads[n].at = "loader"
  /\ loads' = [loads EXCEPT ![n].at = "finally"]
  /\ shownData' = IF ok /\ ~loads[n].cancelled THEN loads[n].for ELSE shownData
  /\ loadError' = (loadError \/ (~ok /\ ~loads[n].cancelled))
  /\ UNCHANGED <<deps, enabled, mounted, isLoading>>

finally(n) ==
  /\ loads[n].at = "finally"
  /\ loads' = [loads EXCEPT ![n].at = "done"]
  /\ isLoading' = (isLoading /\ loads[n].cancelled)
  /\ UNCHANGED <<deps, enabled, mounted, shownData, loadError>>

AsyncNext ==
  \/ mount \/ refetch \/ unmount
  \/ \E d \in Inputs, e \in BOOLEAN : inputsChange(d, e)
  \/ \E n \in Loads : finally(n) \/ \E ok \in BOOLEAN : loaderSettles(n, ok)

\* Once the hook of a mounted component shows neither loading nor an error,
\* the data it shows was loaded for the present inputs (nothing, if it is
\* disabled), whatever the order in which earlier loads answer.
ShownForPresentInputs ==
  mounted /\ ~isLoading /\ ~loadError => shownData = IF enabled THEN deps ELSE NoData
=============================================================================
