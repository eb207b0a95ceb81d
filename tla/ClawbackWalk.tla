----------------------------- MODULE ClawbackWalk -----------------------------
(***************************************************************************)
(* The loop of GrantService.revokeWalletGrantsMostRecentFirst as the code  *)
(* runs it, to compare with Settlement's Clawbacks, which says what the    *)
(* loop may revoke without saying how.                                     *)
(***************************************************************************)
EXTENDS Settlement, SequencesExt

\* The query's order: newest purchase first, grants of one purchase in any order.
WalkOrders(u) ==
  {q \in SetToSeqs(WalletGrants(u)) :
     \A i, j \in DOMAIN q : i < j => GrantAge(q[i]) >= GrantAge(q[j])}

\* Mutant: the loop stops one grant late.
MutantStepLate(walk, g) ==
  IF walk.remaining < 0 THEN walk
  ELSE [revoked   |-> walk.revoked \cup {g},
        remaining |-> walk.remaining - GrantPrice(g[1], g[2])]

\* One turn of the loop: stop when the amount is covered, else revoke the grant.
Step(walk, g) ==
  IF walk.remaining <= 0 THEN walk
  ELSE [revoked   |-> walk.revoked \cup {g},
        remaining |-> walk.remaining - GrantPrice(g[1], g[2])]

Walk(q, amount) == FoldLeft(Step, [revoked |-> {}, remaining |-> amount], q).revoked

\* For every top-up amount and in every reachable state, the sets Clawbacks allows
\* are exactly the results of the walk, straddling grants and price remainders
\* included.
ClawbackIsWalk ==
  \A u \in Users, amount \in {Amount[o] : o \in Topups} :
    Clawbacks(u, amount) = {Walk(q, amount) : q \in WalkOrders(u)}
===============================================================================
