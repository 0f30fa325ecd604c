------------------------------- MODULE Routers -------------------------------
(* The routers of tako-orchestrator (router.rs, features.rs): both look at the     *)
(* features of the last words of the user, of which only what the rules or the       *)
(* model tell apart is kept: the text is one of Prompts, and "" has no features.        *)
EXTENDS MessageFormats, FiniteSets, FiniteSetsExt

CONSTANTS
  Prompts,  \* texts: "code", "math" and "both" have the features the built-in rules look for
  Logits,   \* the model of the OnnxRouter: logits of each text
  NoNumber  \* NaN among them

ASSUME RouterAssumption ==
  /\ "" \notin Prompts /\ NoNumber \in Int
  /\ DOMAIN Logits = Prompts \union {""} /\ \A t \in DOMAIN Logits : Logits[t] \in Seq(Int)

(* Messages of the user without text, as those with results, are passed over.           *)
LastUserText(ms) ==
  LET spoken == {n \in DOMAIN ms : ms[n].role = "user" /\ Said(ms[n]) # <<>>}
  IN  IF spoken = {} THEN "" ELSE Said(ms[Max(spoken)])[1].text

(* What the built-in rules look for in a text: of the sixteen features five, in two groups. *)
Featurise(text) == [code |-> text \in {"code", "both"}, math |-> text \in {"math", "both"}]

(* RegexRouter: the first rule that fires, or the third candidate, or the last.         *)
FirstRule(features) == IF features.code THEN 1 ELSE IF features.math THEN 2 ELSE 3
RegexRoute(ms, candidates) ==
  candidates[Min({FirstRule(Featurise(LastUserText(ms))), Len(candidates)})]

(* OnnxRouter: the first of the candidates with the greatest logit, if any is a number.  *)
OnnxRoute(ms, candidates) ==
  LET logits == Logits[LastUserText(ms)]
      known == {n \in 1 .. Min({Len(candidates), Len(logits)}) : logits[n] # NoNumber}
      best == {n \in known : \A m \in known : logits[n] >= logits[m]}
  IN  candidates[IF best = {} THEN 1 ELSE Min(best)]

(* The candidates a router may name, of which a foreign one may name any.                *)
Named(router, ms, candidates) ==
  CASE router = "regex" -> {RegexRoute(ms, candidates)}
    [] router = "onnx" -> {OnnxRoute(ms, candidates)}
    [] router = "foreign" -> Range(candidates)
=============================================================================
