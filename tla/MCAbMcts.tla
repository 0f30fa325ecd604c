------------------------------ MODULE MCAbMcts ------------------------------
(* Searches of three rollouts. Scores are halves; the verifier may return values *)
(* outside [0, 1] and NaN.                                                        *)
EXTENDS AbMcts

MCRoleOrder == <<"none">>
MCRoleProvider == [r \in Range(MCRoleOrder) |-> "s"]
MCCallIds == <<"c1">>
MCNaN == -9
MCPool == <<"s", "b">>
MCLogits == [t \in {"both", ""} |-> IF t = "both" THEN <<MCNaN, 1>> ELSE <<1, 4>>]
MCRaw == {-1, 1, 3, MCNaN}
=============================================================================
