---------------------------- MODULE PlanningBudget ----------------------------
(* How a search divides its time: src/planning_budget.cpp and ScopedPlanningDeadline of
   include/agibot_x2_manipulation/planning_budget.hpp.  Time is counted in ticks.  A
   share of a budget is rounded down; a retry's share is rounded up, because the code
   compares it with zero. *)
EXTENDS Integers, Sequences

Least(a, b) == IF a <= b THEN a ELSE b

\* What is left until a deadline; a deadline in the past leaves nothing.
Left(deadline, time) == IF time < deadline THEN deadline - time ELSE 0

\* fastAttemptTimeout: a fast path may take a fifth of the search.
FastAttempt(remaining, nominal) == Least(remaining \div 5, nominal)

\* adaptiveRetryTimeout: the candidates still to retry share what is left.
AdaptiveRetry(total, elapsed, candidates) ==
  IF elapsed >= total THEN 0 ELSE (total - elapsed + candidates - 1) \div candidates

\* endpointRouteTimeout: slack for the scene's round trips, and a plan per endpoint.
EndpointRoute(remaining, slack, perEndpoint, endpoints) ==
  Least(remaining, slack + perEndpoint * endpoints)

\* placeContinuationTimeout: an endpoint with alternatives gets at most half of what is
\* left, the last one all of it.
PlaceContinuation(remaining, slack, perAttempt, returnTime, stages, hasAlternative) ==
  LET limit == Least(returnTime, remaining)
  IN IF hasAlternative
     THEN Least(Least(limit, EndpointRoute(remaining, slack, perAttempt, stages)),
                remaining \div 2)
     ELSE limit

\* ScopedPlanningDeadline: the active deadline is the last of a stack; a scope only
\* tightens it, and its end restores what was active before.
Active(deadlines) == deadlines[Len(deadlines)]
Scoped(deadlines, limit) == Append(deadlines, Least(Active(deadlines), limit))
Restored(deadlines) == SubSeq(deadlines, 1, Len(deadlines) - 1)
=============================================================================
