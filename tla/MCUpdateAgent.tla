--------------------------- MODULE MCUpdateAgent ---------------------------
(***************************************************************************)
(* Two updates of one component, under two tables of retry policies.       *)
(***************************************************************************)
EXTENDS UpdateAgent

CONSTANTS p1, p2, t1, img1, img2

MCPlans == {p1, p2}
MCTarget == [p \in MCPlans |-> t1]
MCImage == [p \in MCPlans |-> IF p = p1 THEN img1 ELSE img2]

Default == [max |-> 2, fallback |-> FALSE, grouped |-> FALSE, threshold |-> 0]

(* install_default_policies with fewer attempts.                            *)
DefaultPolicies == [s \in Steps |-> Default]

(* A circuit breaker on the steps that read fetched files, and a fallback   *)
(* for the first of them.                                                   *)
BreakerPolicies ==
    [s \in Steps |->
        CASE s = "Download" -> [max |-> 1, fallback |-> TRUE, grouped |-> TRUE, threshold |-> 2]
          [] s = "Verify" -> [max |-> 2, fallback |-> FALSE, grouped |-> TRUE, threshold |-> 2]
          [] s = "Stage" -> [Default EXCEPT !.max = 1]
          [] OTHER -> Default]

NoApplyPolicies == [DefaultPolicies EXCEPT !["Apply"].max = 0]

MCPolicies == {BreakerPolicies, NoApplyPolicies}

(* A fallback registered for Verify. *)
FallbackPolicies == {[DefaultPolicies EXCEPT !["Verify"].fallback = TRUE]}
=============================================================================
