---------------------------- MODULE RecallPolicy ----------------------------
(***************************************************************************)
(* execution/recall_response.py: what to do with the CCF leg when UMC was  *)
(* bought in without us.  Quantities are signed; the entry gives only the  *)
(* hedge ratio.                                                            *)
(***************************************************************************)
EXTENDS Integers

Size(n) == IF n < 0 THEN -n ELSE n
Sign(n) == IF n < 0 THEN -1 ELSE IF n > 0 THEN 1 ELSE 0

\* Mutant: int() of the quotient, truncated instead of rounded.
HedgeTargetDown(entryCcf, entryUmc, remaining) ==
    Sign(entryCcf) * Sign(entryUmc) * Sign(remaining)
      * (Size(entryCcf * remaining) \div Size(entryUmc))

\* hedge_target_contracts: the CCF the remaining UMC still hedges, to the
\* nearest contract, halves away from zero.
HedgeTarget(entryCcf, entryUmc, remaining) ==
    Sign(entryCcf) * Sign(entryUmc) * Sign(remaining)
      * ((2 * Size(entryCcf * remaining) + Size(entryUmc))
           \div (2 * Size(entryUmc)))

\* plan_recall_response, given the target: close only, never grow, never flip.
Action(target, ccf) ==
    IF ccf = 0 THEN "nothing"
    ELSE IF Size(target) > Size(ccf) \/ (Sign(target) = -Sign(ccf) /\ target # 0)
         THEN "refuse"
    ELSE IF Size(target) = Size(ccf) THEN "nothing"
    ELSE IF target = 0 THEN "close_all" ELSE "reduce"

\* An order is built only for these two.
RequiresOrder(action) == action \in {"reduce", "close_all"}

\* recall_budget_exhausted
BudgetExhausted(recallsToday, maxDaily) ==
    recallsToday >= (IF maxDaily < 1 THEN 1 ELSE maxDaily)
=============================================================================
