---------------------------- MODULE DemoteBudget ----------------------------
(***************************************************************************)
(* What the two caps on demote requests promise of one session: a group    *)
(* has at most one attempt out, an attempt sets out only while its group   *)
(* and the session have something left, and pays when it is accepted.  A   *)
(* session that begins while attempts of the last one are still out        *)
(* promises nothing, up to the next clean beginning.                       *)
(***************************************************************************)
EXTENDS Naturals, FiniteSets

CONSTANTS Groups, PerGroup, PerSession

VARIABLES
    working, \* groups with an attempt out
    charged, \* per group: demotes that changed its row
    spent,   \* accepted requests
    spoiled  \* attempts of an earlier session are about

vars == <<working, charged, spent, spoiled>>

Fresh == working' = {} /\ charged' = [g \in Groups |-> 0] /\ spent' = 0

Init == working = {} /\ charged = [g \in Groups |-> 0] /\ spent = 0 /\ spoiled = FALSE

Begin(g) ==
    /\ ~spoiled /\ g \notin working
    /\ charged[g] < PerGroup /\ spent < PerSession
    /\ working' = working \cup {g}
    /\ UNCHANGED <<charged, spent, spoiled>>

GiveUp(g) == g \in working /\ working' = working \ {g} /\ UNCHANGED <<charged, spent, spoiled>>

\* The session pays for every accepted request, the group if its row changed.
Accept(g, changed) ==
    /\ g \in working /\ working' = working \ {g}
    /\ charged' = IF changed THEN [charged EXCEPT ![g] = @ + 1] ELSE charged
    /\ spent' = spent + 1
    /\ UNCHANGED spoiled

NewSession == ~spoiled /\ Fresh /\ spoiled' = (working # {})

Renew == spoiled /\ Fresh /\ spoiled' = FALSE

Next ==
    \/ \E g \in Groups : Begin(g) \/ GiveUp(g) \/ Accept(g, TRUE) \/ Accept(g, FALSE)
    \/ NewSession \/ Renew

Spec == Init /\ [][Next]_vars

\* No group is charged past its cap; the session may pay for one more request
\* of each other group that had set out before its last slot went.
WithinCaps ==
    /\ \A g \in Groups : charged[g] <= PerGroup
    /\ spent <= PerSession - 1 + Cardinality(Groups)
=============================================================================
