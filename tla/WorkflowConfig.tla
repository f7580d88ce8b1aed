--------------------------- MODULE WorkflowConfig ---------------------------
(***************************************************************************)
(* Defaults, presets, overrides and ceilings of a workflow:                *)
(* api/workflow_config.py.  A configuration maps leaf settings to values,  *)
(* so deep_merge is one function overriding another.                       *)
(***************************************************************************)
EXTENDS Integers

CONSTANTS
  NotInt,          \* a value int() cannot convert
  DefaultTokens,   \* max_tokens_total of the workflow's default
  DeepTokens,      \* what the deep_research preset raises it to
  DefaultSteps,    \* max_agent_steps of the workflow's default
  DeepSteps,       \* what the deep_research preset raises it to
  Ceiling          \* CONFIG_CEILINGS

ASSUME WorkflowAssumption ==
  /\ Ceiling \in Nat
  /\ DefaultTokens \in 1 .. Ceiling /\ DefaultSteps \in 1 .. Ceiling
  /\ DeepTokens \in Nat /\ DeepSteps \in Nat

ResearchDefault ==
  [max_tokens |-> DefaultTokens, max_steps |-> DefaultSteps, dynamic_planning |-> TRUE,
   react_researcher |-> TRUE, fact_check_critic |-> TRUE, debate_loop |-> FALSE]

Nothing == [k \in {} |-> 0]

PresetPatch(preset) ==
  IF preset = "deep_research"
  THEN [max_tokens |-> DeepTokens, max_steps |-> DeepSteps, dynamic_planning |-> TRUE,
        react_researcher |-> TRUE, fact_check_critic |-> TRUE, debate_loop |-> TRUE]
  ELSE Nothing

DeepMerge(base, override) ==
  [k \in DOMAIN base \cup DOMAIN override |->
     IF k \in DOMAIN override THEN override[k] ELSE base[k]]

\* Mutant: the floor is forgotten.
ClampAbove(v, default) ==
  IF v = NotInt THEN default ELSE IF v > Ceiling THEN Ceiling ELSE v

Clamp(v, default) ==
  CASE v = NotInt  -> default
    [] v < 1       -> 1
    [] v > Ceiling -> Ceiling
    [] OTHER       -> v

ApplyCeilings(c) ==
  [c EXCEPT !.max_tokens = Clamp(@, DefaultTokens), !.max_steps = Clamp(@, DefaultSteps)]

\* The preset first, then the explicit override, then the ceilings.
Resolve(preset, override) ==
  ApplyCeilings(DeepMerge(ResearchDefault, DeepMerge(PresetPatch(preset), override)))
=============================================================================
