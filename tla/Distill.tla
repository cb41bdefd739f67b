------------------------------- MODULE Distill -------------------------------
(***************************************************************************)
(* The distilled model, bpf/stages/signals/xdp_distill_classifier.bpf.h:   *)
(* every trigram of bytes among the first PromptBytes adds the weights of  *)
(* its bucket to the scores of the classes; the class with the greatest    *)
(* score is the intent. src/distill_model_loader.c loads the weights from  *)
(* a file whose header says what no score can pass.                        *)
(***************************************************************************)
EXTENDS Integers

CONSTANTS
  LastClass,            (* XSR_DISTILL_CLASSES - 1                          *)
  CodingIntent, MathIntent, (* 3 and 9                                     *)
  Bucket(_, _, _),      (* FNV-1a of three bytes, modulo the buckets        *)
  Buckets,
  PromptBytes,          (* XSR_DISTILL_PROMPT_BYTES                         *)
  MaxWeight,            (* of a quantized model, 127                        *)
  MaxScore,             (* INT32_MAX                                        *)
  Files                 (* [bias, weights, score_bound]                     *)

Classes == 0 .. LastClass

\* The weights are those that quantize_global writes.
ASSUME DistillAssumption ==
  /\ LastClass \in Nat /\ CodingIntent # MathIntent
  /\ PromptBytes \in Nat /\ PromptBytes >= 2
  /\ MaxWeight \in Nat /\ MaxScore \in Nat /\ MaxWeight <= MaxScore
  /\ \A f \in Files :
       /\ f.score_bound \in Nat
       /\ f.bias \in [Classes -> -MaxScore - 1 .. MaxScore]
       /\ f.weights \in [Buckets -> [Classes -> -MaxWeight .. MaxWeight]]

Abs(n) == IF n < 0 THEN -n ELSE n

\* populate_distill_model: the header has to give the bound that follows from
\* the bias.
Loads_Unchecked(f) == f.score_bound <= MaxScore

Loads(f) ==
  /\ f.score_bound <= MaxScore
  /\ \E c \in Classes :
       /\ \A d \in Classes : Abs(f.bias[d]) <= Abs(f.bias[c])
       /\ Abs(f.bias[c]) + (PromptBytes - 2) * MaxWeight = f.score_bound

\* The maps of a router that was given no file.
NoModel ==
  [bias |-> [c \in Classes |-> 0], weights |-> [b \in Buckets |-> [c \in Classes |-> 0]],
   score_bound |-> 0]

-----------------------------------------------------------------------------
(* struct xdp_distill_state *)

NUL == "nul"

NewDistill(f) ==
  [score |-> f.bias, bytes_seen |-> 0, previous_1 |-> NUL, previous_2 |-> NUL]

\* Of the sum of a 32-bit score and a weight.
Wrap(n) ==
  IF n > MaxScore THEN n - 2 * (MaxScore + 1)
  ELSE IF n < -MaxScore - 1 THEN n + 2 * (MaxScore + 1)
  ELSE n

DistillScore(f, s, c) ==
  IF s.bytes_seen >= PromptBytes THEN s
  ELSE LET weights == f.weights[Bucket(s.previous_2, s.previous_1, c)] IN
       [score |-> IF s.bytes_seen < 2 THEN s.score
                  ELSE [d \in Classes |-> Wrap(s.score[d] + weights[d])],
        bytes_seen |-> s.bytes_seen + 1,
        previous_1 |-> c, previous_2 |-> s.previous_1]

\* The first class with the greatest score.
Intent(score) ==
  CHOOSE c \in Classes :
    \A d \in Classes : score[d] <= score[c] /\ (score[d] = score[c] => c <= d)

DistillRoute(f, s) ==
  CASE f = NoModel -> "general"
    [] f # NoModel /\ Intent(s.score) = CodingIntent -> "coding"
    [] f # NoModel /\ Intent(s.score) = MathIntent -> "math"
    [] OTHER -> "general"
=============================================================================
