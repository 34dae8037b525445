------------------------------ MODULE TierRouter ------------------------------
(***************************************************************************)
(* The routing policy of app/balancer/router.py.  route() is synchronous   *)
(* and reads nothing but the pools' active counters, so it is an operator  *)
(* of the pools' state: the set of decisions it may return, a pool or      *)
(* "shed".  Only the free tier's random draw makes that set larger than    *)
(* one.                                                                    *)
(***************************************************************************)
EXTENDS WorkerPools

Tiers == {"free", "premium", "enterprise"}

\* Mutant of the enterprise branch: it takes a full pool for a free one.
RouteEnterpriseOffByOne ==
  {IF Available("priority") >= 0 THEN "priority" ELSE "general"}

RouteEnterprise ==
  {IF Available("priority") > 0 THEN "priority" ELSE "general"}

RoutePremium ==
  {IF UtilizationAtMost("general", 80) THEN "general" ELSE "overflow"}

\* The draw may shed as soon as the overflow pool is above 80%.
MayShed == ~UtilizationAtMost("overflow", 80)

\* The draw may let a request through up to and including a full pool: there
\* the computed probability (1.0 - 0.8) / 0.2 is 0.9999999999999998, and
\* random() can return a value that is not below it.  Only a pool that runs
\* more workers than it has makes the probability exceed 1.
MayPass == Available("overflow") >= 0

RouteFree ==
  IF UtilizationAtMost("general", 60)
    THEN {"general"}
    ELSE {d \in {"overflow", "shed"} :
            \/ d = "overflow" /\ MayPass
            \/ d = "shed" /\ MayShed}

Route(tier) ==
  IF tier = "enterprise" THEN RouteEnterprise
  ELSE IF tier = "premium" THEN RoutePremium
  ELSE RouteFree
=============================================================================
