----------------------------- MODULE Classifier ------------------------------
(***************************************************************************)
(* The signals together, and the policy that they decide by: the text of   *)
(* a request goes byte by byte to the distilled model, the n-grams and     *)
(* BM25 (bpf/stages/signals/xdp_classifier.bpf.h); at its end the parser   *)
(* leaves a route for the verdict (bpf/programs/sk_router.bpf.c), which    *)
(* takes the backend that the decision rules name                          *)
(* (bpf/stages/policy/decision.bpf.h).                                     *)
(*                                                                         *)
(* The build is the one with all three signals; one without the n-grams or *)
(* BM25 is that with no rules for them, and one that is started without a  *)
(* model has NoModel. Bytes are ASCII, so that each is a character.        *)
(***************************************************************************)
EXTENDS Bm25, Jaccard, Distill, FiniteSetsExt

CONSTANTS
  Policies     (* [ngram, bm25], sequences of [operator, of, priority, route] *)

\* Keywords are texts, and their thresholds are thousandths.
ASSUME JaccardAssumption ==
  /\ Keywords \subseteq [text : Seq(Bytes), threshold_milli : Nat]
  /\ MaxGrams \in Nat /\ MaxTextGrams \in Nat

Routes == { "coding", "math", "qa", "writing" }
Operators == { "OR", "AND", "NOR" }

Rules(subjects) ==
  Seq([operator : Operators, of : (SUBSET subjects) \ { {} }, priority : Nat, route : Routes])

\* Rules of any two priorities, equal ones too: the generator refuses equal ones
\* of the two methods only, and nothing below needs that.
ASSUME PolicyAssumption ==
  /\ \A p \in Policies : p.ngram \in Rules(Keywords) /\ p.bm25 \in Rules(Documents)
  /\ \A a, b, c \in Bytes : Bucket(a, b, c) \in Buckets

VARIABLES
  policy, model,        (* loaded when the router starts                   *)
  jaccard, distill,     (* struct xdp_classifier_state, but for BM25       *)
  route,                (* sk_route_decisions                              *)
  backend               (* where the request was sent                      *)

classifierVars == << vars, policy, model, jaccard, distill, route, backend >>

NoRoute == "none"
NoBackend == "none"

\* The router starts only when the file loads, if it is given one.
ClassifierInit ==
  /\ Init
  /\ policy \in Policies
  /\ model \in { f \in Files : Loads(f) } \cup { NoModel }
  /\ jaccard = NewJaccard /\ distill = NewDistill(model)
  /\ route = NoRoute /\ backend = NoBackend

\* xdp_classifier_score_char
Classify(c) ==
  /\ ScoreChar(c)
  /\ jaccard' = JaccardScore(jaccard, c)
  /\ distill' = DistillScore(model, distill, c)
  /\ UNCHANGED << policy, model, route, backend >>

-----------------------------------------------------------------------------
(* xdp_classifier_route *)

Holds(rule, matched) ==
  CASE rule.operator = "OR"  -> rule.of \cap matched # {}
    [] rule.operator = "AND" -> rule.of \subseteq matched
    [] rule.operator = "NOR" -> rule.of \cap matched = {}

NoMatch == [route |-> "general", priority |-> 0]

\* The last of the matching rules with the greatest priority.
RoutePriority(rules, matched) ==
  LET matching == { i \in DOMAIN rules : Holds(rules[i], matched) }
      best == { i \in matching : \A j \in matching : rules[j].priority <= rules[i].priority }
  IN  IF matching = {} THEN NoMatch
      ELSE [route |-> rules[Max(best)].route, priority |-> rules[Max(best)].priority]

Bm25RoutePriority(rules, matched, gave_up) ==
  IF gave_up THEN NoMatch ELSE RoutePriority(rules, matched)

Prefer_Bm25(ngram, bm25) == IF bm25.route = "general" THEN ngram.route ELSE bm25.route

Prefer(ngram, bm25) ==
  IF bm25.route # "general" /\ bm25.priority >= ngram.priority THEN bm25.route ELSE ngram.route

\* The parser ends the text and leaves the route. The intent goes before the
\* keywords where it is one of its two own.
Decide ==
  /\ Finish
  /\ jaccard' = JaccardFinish(jaccard)
  /\ LET intent == DistillRoute(model, distill)
         ngram == RoutePriority(policy.ngram, jaccard'.matched)
         bm25 == Bm25RoutePriority(policy.bm25, matched_documents', overflow')
     IN  route' = IF intent # "general" THEN intent ELSE Prefer(ngram, bm25)
  /\ UNCHANGED << policy, model, distill, backend >>

-----------------------------------------------------------------------------
(* xdp_decision_eval and sk_router_verdict *)

SK_MODEL_CODING == 1
SK_MODEL_MATH == 2
SK_MODEL_OTHERS == 3
SK_MODEL_QA == 4
SK_MODEL_WRITING == 5
XDP_MODEL_FALLBACK == 0

DecisionRule(domain, model_id) ==
  [require_any |-> { domain }, require_all |-> {}, reject_any |-> {},
   model_id |-> model_id, enabled |-> TRUE]

\* populate_decision_rules; the others are disabled.
DecisionRules ==
  << DecisionRule("coding", SK_MODEL_CODING), DecisionRule("math", SK_MODEL_MATH),
     DecisionRule("others", SK_MODEL_OTHERS), DecisionRule("qa", SK_MODEL_QA),
     DecisionRule("writing", SK_MODEL_WRITING) >>

RuleMatches(rule, signals) ==
  /\ rule.enabled
  /\ rule.require_any # {} => rule.require_any \cap signals # {}
  /\ rule.require_all \subseteq signals
  /\ rule.reject_any \cap signals = {}

DecisionEval(signals) ==
  LET matching == { i \in DOMAIN DecisionRules : RuleMatches(DecisionRules[i], signals) } IN
  IF matching = {} THEN XDP_MODEL_FALLBACK ELSE DecisionRules[Min(matching)].model_id

ModelForRoute(r) == DecisionEval({ IF r = "general" THEN "others" ELSE r })

TargetSlot(model_id) ==
  CASE model_id = SK_MODEL_CODING  -> "coding"
    [] model_id = SK_MODEL_MATH    -> "math"
    [] model_id = SK_MODEL_OTHERS  -> "others"
    [] model_id = SK_MODEL_QA      -> "qa"
    [] model_id = SK_MODEL_WRITING -> "writing"
    [] OTHER                       -> "drop"

Verdict ==
  /\ route # NoRoute /\ backend = NoBackend
  /\ backend' = TargetSlot(ModelForRoute(route))
  /\ UNCHANGED << vars, policy, model, jaccard, distill, route >>

ClassifierNext == (\E c \in Bytes : Classify(c)) \/ Decide \/ Verdict

ClassifierSpec == ClassifierInit /\ [][ClassifierNext]_classifierVars

-----------------------------------------------------------------------------
(* Properties *)

\* What the header of a model claims (proven_score_bound): no score passes it,
\* and so none overflows its 32 bits.
ScoresStayInBound ==
  model # NoModel =>
    \A c \in Classes : -model.score_bound <= distill.score[c] /\ distill.score[c] <= model.score_bound
=============================================================================
