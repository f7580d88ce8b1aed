------------------------------- MODULE Budget -------------------------------
(***************************************************************************)
(* The budget of a run and its circuit breaker: core/budget.py.  A budget  *)
(* is a record; the wall clock is reduced to whether max_latency_ms has    *)
(* passed since the run was created (late).                                *)
(***************************************************************************)
EXTENDS Naturals

CONSTANT Overrun   \* bound: how far past its limit tokens_used is counted

ASSUME BudgetAssumption == Overrun \in Nat

Budgets(limits) ==
  [max_tokens : limits, max_steps : limits, tokens : Nat, steps : Nat,
   mode : {"agentic", "fast_fallback"}, triggered : BOOLEAN]

NewBudget(max_tokens, max_steps) ==
  [max_tokens |-> max_tokens, max_steps |-> max_steps, tokens |-> 0, steps |-> 0,
   mode |-> "agentic", triggered |-> FALSE]

InFastFallback(b) == b.mode = "fast_fallback" \/ b.triggered

\* Mutant: the tokens are left to the circuit breaker.
CanAffordSteps(b, late) == ~InFastFallback(b) /\ b.steps < b.max_steps /\ ~late

\* can_afford(0): what is spent may equal the token limit, not the step limit.
CanAfford(b, late) ==
  /\ ~InFastFallback(b)
  /\ b.tokens =< b.max_tokens
  /\ b.steps < b.max_steps
  /\ ~late

\* Counting stops where it makes no difference any more.
UpTo(n, bound) == IF n > bound THEN bound ELSE n
RecordTokens(b, n) == [b EXCEPT !.tokens = UpTo(@ + n, b.max_tokens + Overrun)]
RecordStep(b) == [b EXCEPT !.steps = UpTo(@ + 1, b.max_steps)]

ShouldTrip(b, late) == b.tokens >= b.max_tokens \/ late

\* _apply_circuit_breaker_if_needed(), before and after every node.
Breaker(b, late) ==
  IF ShouldTrip(b, late) THEN [b EXCEPT !.mode = "fast_fallback", !.triggered = TRUE] ELSE b
=============================================================================
