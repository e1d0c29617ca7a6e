---------------------------- MODULE MCLruMachine ----------------------------
(* Three keys and three values under budgets that hold one to three entries *)
(* and that one large entry exceeds alone; 0 is no budget.                  *)
EXTENDS LruMachine

CONSTANTS k1, k2, k3, empty, small, large

MCKeys == {k1, k2, k3}
MCValues == {empty, small, large}
MCBudgets == {0, 1, 4, 7}
MCKeyLen(k) == IF k = k3 THEN 2 ELSE 1
MCValueLen(v) == CASE v = empty -> 0 [] v = small -> 2 [] v = large -> 6
=============================================================================
