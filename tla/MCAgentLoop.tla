----------------------------- MODULE MCAgentLoop -----------------------------
(* A provider that streams and one that does not, three roles of which             *)
(* two share a provider, two tool calls of two fragments each.                     *)
EXTENDS Conversations

MCRoleOrder == <<"thinker", "worker", "verifier">>
MCRoleProvider == [r \in Range(MCRoleOrder) |-> IF r = "worker" THEN "s" ELSE "b"]
MCCallIds == <<"c1", "c2">>
MCPool == <<"s", "b">>
MCNoNumber == -9
MCLogits == [t \in {"both", "plain", ""} |->
  CASE t = "both" -> <<MCNoNumber, 3, 1>> [] t = "plain" -> <<2>> [] t = "" -> <<1, 4>>]
=============================================================================
