----------------------- MODULE GroupKeyRecoveryProofs -----------------------
(***************************************************************************)
(* Proofs about GroupKeyRecovery, for every set of groups and attempts and *)
(* every value of the two caps.                                            *)
(***************************************************************************)
EXTENDS GroupKeyRecovery, FiniteSetTheorems, TLAPS

-----------------------------------------------------------------------------
(* Type correctness, one lemma per kind of step.                           *)

\* An answer keeps the types of what it records.
LEMMA ConcludeType ==
    ASSUME VerdictTypeOK, NEW g \in Groups, NEW outcome \in Outcomes, Conclude(g, outcome),
           \/ UNCHANGED concluded
           \/ concluded' = [concluded EXCEPT ![g] = outcome]
    PROVE  VerdictTypeOK'
BY DEF VerdictTypeOK, Conclude

\* The end of an attempt keeps the types.
LEMMA FinishType ==
    ASSUME TypeOK, NEW a \in Running, NEW outcome \in Outcomes, Finish(a, outcome)
    PROVE  FlightsTypeOK' /\ VerdictTypeOK'
<1>1. groupOf[a] \in Groups /\ a \in Attempts
  BY DEF TypeOK, FlightsTypeOK, Running
<1>2. VerdictTypeOK'
  BY <1>1, ConcludeType DEF Finish, TypeOK
<1>3. FlightsTypeOK'
  BY <1>1, NoneAssumption DEF TypeOK, FlightsTypeOK, Finish, EndFlight, Phases, Running
<1> QED
  BY <1>2, <1>3

\* The next await of an attempt keeps the types.
LEMMA AdvanceType ==
    ASSUME TypeOK, NEW a \in Running, NEW next \in Phases \ {"idle"}, Advance(a, next)
    PROVE  FlightsTypeOK' /\ VerdictTypeOK'
BY DEF TypeOK, FlightsTypeOK, VerdictTypeOK, Advance, Running, Phases, history

\* What is left alone keeps its type.
LEMMA UnchangedTypes ==
    /\ FlightsTypeOK /\ UNCHANGED <<flights, outdated, crossed>> => FlightsTypeOK'
    /\ BudgetTypeOK /\ UNCHANGED budget => BudgetTypeOK'
    /\ VerdictTypeOK /\ UNCHANGED <<lastTerminal, concluded, answered>> => VerdictTypeOK'
    /\ LatchesTypeOK /\ UNCHANGED latches => LatchesTypeOK'
BY DEF FlightsTypeOK, BudgetTypeOK, VerdictTypeOK, LatchesTypeOK, flights, budget, latches, Running

\* A call keeps the types.
LEMMA CallType ==
    ASSUME TypeOK, NEW g \in Groups, Call(g)
    PROVE  TypeOK'
<1> USE DEF TypeOK
<1>1. ASSUME Blocked(g) \/ CoolingDown(g) \/ CapReached(g) PROVE TypeOK'
  <2>1. PICK outcome \in Outcomes : Answer(g, outcome)
    BY <1>1 DEF Blocked, CoolingDown, CapReached, VerdictTypeOK, Outcomes, TerminalOutcomes
  <2>2. UNCHANGED <<flights, budget, latches, outdated, crossed, concluded>>
    BY <1>1, <2>1 DEF Blocked, CoolingDown, CapReached, Answer
  <2> QED
    BY <2>1, <2>2, ConcludeType, UnchangedTypes DEF Answer
<1>2. CASE ProbeFails(g)
  <2>1. PICK outcome \in Outcomes : Answer(g, outcome)
    BY <1>2 DEF ProbeFails, Outcomes, TerminalOutcomes
  <2>2. VerdictTypeOK'
    BY <1>2, <2>1, ConcludeType DEF ProbeFails, Answer, Conclude, VerdictTypeOK
  <2>3. BudgetTypeOK'
    BY <1>2 DEF ProbeFails, Attempting, BudgetTypeOK
  <2>4. LatchesTypeOK'
    BY <1>2, Zenon DEF ProbeFails, LatchesTypeOK
  <2> QED
    BY <1>2, <2>1, <2>2, <2>3, <2>4, UnchangedTypes DEF ProbeFails, Answer
<1>3. ASSUME NEW a \in Attempts, Start(g, a) PROVE TypeOK'
  <2>1. FlightsTypeOK'
    BY <1>3, NoneAssumption DEF FlightsTypeOK, Start, Running, Phases, history
  <2>2. BudgetTypeOK'
    BY <1>3 DEF Start, Attempting, BudgetTypeOK
  <2> QED
    BY <1>3, <2>1, <2>2, UnchangedTypes DEF Start, history
<1> QED
  BY <1>1, <1>2, <1>3 DEF Call

\* A step of a suspended attempt keeps the types.
LEMMA ContinueType ==
    ASSUME TypeOK, NEW a \in Attempts, Continue(a)
    PROVE  TypeOK'
<1> USE DEF TypeOK
<1>1. a \in Running
  BY DEF Continue, Refreshed, Retried, Refused, Accepted, Running
<1>2. CASE Refreshed(a) \/ Retried(a)
  <2>1. \/ \E next \in Phases \ {"idle"} : Advance(a, next)
        \/ \E outcome \in Outcomes : Finish(a, outcome)
    BY <1>2 DEF Refreshed, Retried, Phases, Outcomes, TerminalOutcomes
  <2>2. FlightsTypeOK' /\ VerdictTypeOK'
    BY <1>1, <2>1, AdvanceType, FinishType
  <2> QED
    BY <1>2, <2>2, UnchangedTypes DEF Refreshed, Retried
<1>3. ASSUME NEW alreadyPending \in BOOLEAN, Accepted(a, alreadyPending) PROVE TypeOK'
  <2>1. BudgetTypeOK'
    <3>1. sessionDemotes' \in 0..MaxSession
      BY <1>3, CapsAssumption DEF Accepted, BudgetTypeOK
    <3>2. committedDemotes' \in [Groups -> Nat]
      <4>1. groupOf[a] \in Groups
        BY <1>1 DEF FlightsTypeOK, Running
      <4>2. committedDemotes[groupOf[a]] + 1 \in Nat
        BY <4>1 DEF BudgetTypeOK
      <4> QED
        BY <1>3, <4>2 DEF Accepted, BudgetTypeOK
    <3> QED
      BY <1>3, <3>1, <3>2 DEF Accepted, BudgetTypeOK
  <2>2. FlightsTypeOK' /\ VerdictTypeOK'
    <3>1. "requested" \in Outcomes
      BY DEF Outcomes
    <3> QED
      BY <1>1, <1>3, <3>1, FinishType DEF Accepted
  <2> QED
    BY <1>3, <2>1, <2>2, UnchangedTypes DEF Accepted
<1>4. CASE Refused(a)
  <2>1. FlightsTypeOK' /\ VerdictTypeOK'
    <3>1. \E outcome \in Outcomes : Finish(a, outcome)
      BY <1>4 DEF Refused, Refusals, Outcomes, TerminalOutcomes
    <3> QED
      BY <1>1, <3>1, FinishType
  <2>2. LatchesTypeOK'
    BY <1>4, Zenon DEF Refused, LatchesTypeOK
  <2> QED
    BY <1>4, <2>1, <2>2, UnchangedTypes DEF Refused
<1> QED
  BY <1>2, <1>3, <1>4 DEF Continue

\* Every reachable state is well typed; an attempt has a group exactly while it
\* runs.
THEOREM TypeCorrect == Spec => []TypeOK
<1> USE DEF TypeOK
<1>1. Init => TypeOK
  <2> SUFFICES ASSUME Init PROVE TypeOK
    OBVIOUS
  <2>1. FlightsTypeOK
    BY DEF Init, FlightsTypeOK, Phases
  <2>2. BudgetTypeOK
    BY CapsAssumption DEF Init, BudgetTypeOK
  <2>3. VerdictTypeOK /\ LatchesTypeOK
    BY DEF Init, VerdictTypeOK, LatchesTypeOK
  <2> QED
    BY <2>1, <2>2, <2>3
<1>2. ASSUME TypeOK, [Next]_vars PROVE TypeOK'
  <2>1. ASSUME NEW g \in Groups, CooldownExpires(g) PROVE TypeOK'
    <3>1. BudgetTypeOK'
      BY <1>2, <2>1 DEF CooldownExpires, BudgetTypeOK
    <3> QED
      BY <1>2, <2>1, <3>1, UnchangedTypes DEF CooldownExpires, history
  <2>2. CASE Reset
    <3>1. FlightsTypeOK'
      BY <1>2, <2>2 DEF Reset, FlightsTypeOK, Running
    <3>2. BudgetTypeOK'
      BY <2>2, CapsAssumption DEF Reset, BudgetTypeOK
    <3>3. VerdictTypeOK' /\ LatchesTypeOK'
      BY <2>2 DEF Reset, VerdictTypeOK, LatchesTypeOK
    <3> QED
      BY <3>1, <3>2, <3>3
  <2>3. CASE UNCHANGED vars
    BY <1>2, <2>3, UnchangedTypes DEF vars, history
  <2> QED
    BY <1>2, <2>1, <2>2, <2>3, CallType, ContinueType DEF Next
<1> QED
  BY <1>1, <1>2, PTL DEF Spec

-----------------------------------------------------------------------------
(* What callers share is running.                                          *)

\* No group is left waiting for an attempt that has already ended, whatever
\* resets and attempts of earlier sessions happened.
THEOREM SharedAttemptAlways == Spec => []SharedAttemptRuns
<1>1. Init => SharedAttemptRuns
  BY DEF Init, SharedAttemptRuns
<1>2. ASSUME TypeOK, SharedAttemptRuns, [Next]_vars PROVE SharedAttemptRuns'
  <2> USE DEF SharedAttemptRuns
  <2>1. ASSUME UNCHANGED flights PROVE SharedAttemptRuns'
    BY <1>2, <2>1 DEF flights, Running
  <2>2. ASSUME NEW g \in Groups, NEW a \in Attempts, Start(g, a) PROVE SharedAttemptRuns'
    BY <1>2, <2>2, NoneAssumption DEF Start, Running, TypeOK, FlightsTypeOK
  <2>3. ASSUME NEW a \in Attempts, NEW next \in Phases \ {"idle"}, Advance(a, next)
        PROVE  SharedAttemptRuns'
    BY <1>2, <2>3 DEF Advance, Running, TypeOK, FlightsTypeOK
  <2>4. ASSUME NEW a \in Running, NEW outcome, Finish(a, outcome) PROVE SharedAttemptRuns'
    <3>1. groupOf[a] \in Groups /\ a \in Attempts
      BY <1>2 DEF TypeOK, FlightsTypeOK, Running
    <3>2. \A g \in Groups : inflight'[g] # None =>
             g # groupOf[a] /\ inflight'[g] = inflight[g] /\ inflight[g] # a
      BY <1>2, <2>4, <3>1 DEF Finish, EndFlight, TypeOK, FlightsTypeOK
    <3>3. \A b \in Attempts : b # a => phase'[b] = phase[b] /\ groupOf'[b] = groupOf[b]
      BY <1>2, <2>4 DEF Finish, EndFlight, TypeOK, FlightsTypeOK
    <3> QED
      BY <1>2, <3>2, <3>3 DEF Running, TypeOK, FlightsTypeOK
  <2>5. ASSUME NEW a \in Attempts, Continue(a) PROVE SharedAttemptRuns'
    <3>1. a \in Running
      BY <2>5 DEF Continue, Refreshed, Retried, Refused, Accepted, Running
    <3>2. (\E next \in Phases \ {"idle"} : Advance(a, next)) \/ (\E outcome : Finish(a, outcome))
      BY <2>5 DEF Continue, Refreshed, Retried, Refused, Accepted, Phases
    <3> QED
      BY <2>3, <2>4, <3>1, <3>2
  <2>6. ASSUME NEW g \in Groups, Call(g) PROVE SharedAttemptRuns'
    BY <2>1, <2>2, <2>6 DEF Call, Blocked, CoolingDown, CapReached, ProbeFails, Answer
  <2>7. CASE Reset
    BY <2>7 DEF Reset
  <2> QED
    BY <1>2, <2>1, <2>5, <2>6, <2>7 DEF Next, CooldownExpires, vars
<1> QED
  BY <1>1, <1>2, TypeCorrect, PTL DEF Spec

-----------------------------------------------------------------------------
(* The budget of one session.  The caps are read before the awaits and     *)
(* charged after them; what closes the gap for a group is that its one     *)
(* attempt is in flight meanwhile.                                         *)

Busy == {g \in Groups : inflight[g] # None}

\* Every running attempt is the one its group's callers share.
Solo == \A a \in Running : inflight[groupOf[a]] = a

\* A group with an attempt in flight has a slot left for it, and every attempt
\* in flight is counted as if it had already been accepted.
BudgetInv ==
    /\ \A g \in Groups : committedDemotes[g] <= PerGroupDemoteCap
    /\ \A g \in Busy : committedDemotes[g] < PerGroupDemoteCap
    /\ sessionDemotes + Cardinality(Busy) <= SessionDemoteCap - 1 + Cardinality(Groups)

\* How a step other than a reset moves the attempts.
LEMMA FlightKinds ==
    ASSUME TypeOK, [Next]_vars, ~Reset
    PROVE  \/ UNCHANGED <<flights, committedDemotes, sessionDemotes>>
           \/ \E g \in Groups, a \in Attempts : Start(g, a)
           \/ \E a \in Running, next \in Phases \ {"idle"} :
                Advance(a, next) /\ UNCHANGED <<committedDemotes, sessionDemotes>>
           \/ \E a \in Running, outcome \in Outcomes :
                Finish(a, outcome) /\ UNCHANGED <<committedDemotes, sessionDemotes>>
           \/ \E a \in Running, alreadyPending \in BOOLEAN : Accepted(a, alreadyPending)
<1>1. ASSUME NEW g \in Groups, Call(g)
      PROVE  \/ UNCHANGED <<flights, committedDemotes, sessionDemotes>>
             \/ \E a \in Attempts : Start(g, a)
  BY <1>1 DEF Call, Blocked, CoolingDown, CapReached, ProbeFails, Attempting, Answer, budget
<1>2. ASSUME NEW a \in Attempts, Continue(a)
      PROVE  \/ \E next \in Phases \ {"idle"} :
                  Advance(a, next) /\ UNCHANGED <<committedDemotes, sessionDemotes>>
             \/ \E outcome \in Outcomes :
                  Finish(a, outcome) /\ UNCHANGED <<committedDemotes, sessionDemotes>>
             \/ \E alreadyPending \in BOOLEAN : Accepted(a, alreadyPending)
  BY <1>2 DEF Continue, Refreshed, Retried, Refused, Refusals, Outcomes, TerminalOutcomes, Phases,
     budget
<1>3. ASSUME NEW a \in Attempts, Continue(a) PROVE a \in Running
  BY <1>3 DEF Continue, Refreshed, Retried, Refused, Accepted, Running
<1> QED
  BY <1>1, <1>2, <1>3 DEF Next, CooldownExpires, vars, budget

\* The end of a shared attempt frees its group.
LEMMA FinishFrees ==
    ASSUME TypeOK, Solo, NEW a \in Running, NEW outcome, Finish(a, outcome)
    PROVE  /\ groupOf[a] \in Busy
           /\ Busy' = Busy \ {groupOf[a]}
           /\ Solo'
<1>1. groupOf[a] \in Groups /\ a \in Attempts
  BY DEF TypeOK, FlightsTypeOK, Running
<1>2. groupOf[a] \in Busy
  BY <1>1, NoneAssumption DEF Solo, Busy
<1>3. Busy' = Busy \ {groupOf[a]}
  BY <1>1 DEF Busy, Finish, EndFlight, TypeOK, FlightsTypeOK
<1>4. Solo'
  <2>1. \A b \in Running' : b \in Running /\ b # a /\ groupOf'[b] = groupOf[b]
    BY <1>1 DEF Finish, EndFlight, Running, TypeOK, FlightsTypeOK
  <2>2. \A b \in Running' : groupOf[b] # groupOf[a]
    BY <2>1 DEF Solo
  <2>3. \A b \in Running : groupOf[b] \in Groups
    BY DEF TypeOK, FlightsTypeOK, Running
  <2> QED
    BY <1>1, <2>1, <2>2, <2>3 DEF Solo, Finish, EndFlight, TypeOK, FlightsTypeOK
<1> QED
  BY <1>2, <1>3, <1>4

\* Within a session an attempt stays the one its group's callers share.
LEMMA SoloStep ==
    ASSUME TypeOK, Solo, [Next]_vars, ~Reset
    PROVE  Solo'
<1>1. CASE UNCHANGED flights
  BY <1>1 DEF Solo, flights, Running
<1>2. ASSUME NEW g \in Groups, NEW a \in Attempts, Start(g, a) PROVE Solo'
  <2>1. \A b \in Running : groupOf[b] # g
    BY <1>2, NoneAssumption DEF Solo, Start, Attempting, Eligible, NotInFlight, Running
  <2>2. Running' = Running \cup {a} /\ groupOf' = [groupOf EXCEPT ![a] = g]
    BY <1>2 DEF Start, Running, TypeOK, FlightsTypeOK
  <2>3. \A b \in Running : groupOf[b] \in Groups /\ b \in Attempts /\ b # a
    BY <1>2 DEF TypeOK, FlightsTypeOK, Running, Start
  <2> QED
    BY <1>2, <2>1, <2>2, <2>3 DEF Solo, Start, TypeOK, FlightsTypeOK
<1>3. ASSUME NEW a \in Running, NEW next \in Phases \ {"idle"}, Advance(a, next) PROVE Solo'
  BY <1>3 DEF Solo, Advance, Running, TypeOK, FlightsTypeOK
<1>4. ASSUME NEW a \in Running, NEW alreadyPending, Accepted(a, alreadyPending) PROVE Solo'
  BY <1>4, FinishFrees DEF Accepted
<1> QED
  BY <1>1, <1>2, <1>3, <1>4, FinishFrees, FlightKinds

\* The number of groups in flight is a number, at most all of them.
LEMMA BusyCount ==
    /\ IsFiniteSet(Busy) /\ Cardinality(Busy) \in Nat
    /\ Cardinality(Groups) \in Nat
    /\ \A B \in SUBSET Groups : Cardinality(B) <= Cardinality(Groups)
<1>1. Busy \subseteq Groups
  BY DEF Busy
<1> QED
  BY <1>1, GroupsAssumption, FS_Subset, FS_CardinalityType

\* Accepting a request keeps every group within its cap: the group had a slot
\* left for the attempt in flight.
LEMMA AcceptedPays ==
    ASSUME TypeOK, Solo, BudgetInv, NEW a \in Running, NEW alreadyPending, Accepted(a, alreadyPending)
    PROVE  /\ \A g \in Groups : committedDemotes'[g] <= PerGroupDemoteCap
           /\ \A g \in Groups \ {groupOf[a]} : committedDemotes'[g] = committedDemotes[g]
<1>1. committedDemotes \in [Groups -> Nat] /\ groupOf[a] \in Busy /\ groupOf[a] \in Groups
  BY FinishFrees DEF Accepted, TypeOK, BudgetTypeOK, Busy
<1>2. committedDemotes[groupOf[a]] + 1 <= PerGroupDemoteCap
  BY <1>1, CapsAssumption DEF BudgetInv
<1>3. \/ committedDemotes' = committedDemotes
      \/ committedDemotes' = [committedDemotes EXCEPT ![groupOf[a]] = @ + 1]
  BY DEF Accepted
<1>4. \A g \in Groups : committedDemotes[g] <= PerGroupDemoteCap
  BY DEF BudgetInv
<1> QED
  BY <1>1, <1>2, <1>3, <1>4

\* Every step of a session keeps the budget.
LEMMA BudgetStep ==
    ASSUME TypeOK, Solo, BudgetInv, [Next]_vars, ~Reset
    PROVE  BudgetInv'
<1>1. sessionDemotes \in Nat /\ committedDemotes \in [Groups -> Nat]
  BY CapsAssumption DEF TypeOK, BudgetTypeOK
<1>2. ASSUME UNCHANGED <<committedDemotes, sessionDemotes>>, UNCHANGED inflight PROVE BudgetInv'
  <2>1. Busy' = Busy
    BY <1>2 DEF Busy
  <2> QED
    BY <1>2, <2>1 DEF BudgetInv
<1>3. ASSUME NEW g \in Groups, NEW a \in Attempts, Start(g, a) PROVE BudgetInv'
  <2>1. PerGroupLeft(g) /\ SessionLeft /\ UNCHANGED <<committedDemotes, sessionDemotes>>
    BY <1>3 DEF Start, Attempting
  <2>2. Busy' \subseteq Busy \cup {g} /\ Busy' \subseteq Groups
    BY <1>3 DEF Busy, Start, TypeOK, FlightsTypeOK
  <2>3. \A h \in Busy' : committedDemotes'[h] < PerGroupDemoteCap
    BY <2>1, <2>2 DEF BudgetInv, PerGroupLeft
  <2>4. Cardinality(Busy') <= Cardinality(Groups) /\ Cardinality(Busy') \in Nat
    BY <2>2, BusyCount, GroupsAssumption, FS_Subset, FS_CardinalityType
  <2>5. sessionDemotes' + Cardinality(Busy') <= SessionDemoteCap - 1 + Cardinality(Groups)
    BY <1>1, <2>1, <2>4, BusyCount, CapsAssumption DEF SessionLeft
  <2> QED
    BY <2>1, <2>3, <2>5 DEF BudgetInv
<1>4. ASSUME NEW a \in Running, NEW outcome, Finish(a, outcome),
             \A g \in Groups : committedDemotes'[g] <= PerGroupDemoteCap,
             \A g \in Groups \ {groupOf[a]} : committedDemotes'[g] = committedDemotes[g],
             sessionDemotes' \in {sessionDemotes, sessionDemotes + 1}
      PROVE  BudgetInv'
  <2>1. groupOf[a] \in Busy /\ Busy' = Busy \ {groupOf[a]}
    BY <1>4, FinishFrees
  <2>2. Cardinality(Busy') = Cardinality(Busy) - 1
    BY <2>1, BusyCount, FS_RemoveElement
  <2>3. \A g \in Busy' : committedDemotes'[g] < PerGroupDemoteCap
    BY <1>4, <2>1 DEF BudgetInv, Busy
  <2>4. sessionDemotes' + Cardinality(Busy') <= SessionDemoteCap - 1 + Cardinality(Groups)
    BY <1>1, <1>4, <2>2, BusyCount, CapsAssumption DEF BudgetInv
  <2> QED
    BY <1>4, <2>3, <2>4 DEF BudgetInv
<1>5. ASSUME NEW a \in Running, NEW next, Advance(a, next),
             UNCHANGED <<committedDemotes, sessionDemotes>>
      PROVE  BudgetInv'
  BY <1>2, <1>5 DEF Advance
<1>6. ASSUME NEW a \in Running, NEW alreadyPending, Accepted(a, alreadyPending) PROVE BudgetInv'
  BY <1>4, <1>6, AcceptedPays DEF Accepted
<1>7. ASSUME NEW a \in Running, NEW outcome, Finish(a, outcome),
             UNCHANGED <<committedDemotes, sessionDemotes>>
      PROVE  BudgetInv'
  BY <1>4, <1>7 DEF BudgetInv
<1> QED
  BY <1>2, <1>3, <1>5, <1>6, <1>7, FlightKinds DEF flights

\* What a session begins with.
LEMMA SessionBegins ==
    ASSUME inflight = [g \in Groups |-> None], Running = {},
           committedDemotes = [g \in Groups |-> 0], sessionDemotes = 0
    PROVE  Solo /\ BudgetInv
<1>1. Busy = {}
  BY DEF Busy
<1>2. Cardinality(Busy) = 0
  BY <1>1, FS_EmptySet
<1>3. sessionDemotes + Cardinality(Busy) <= SessionDemoteCap - 1 + Cardinality(Groups)
  BY <1>2, BusyCount, CapsAssumption
<1>4. Solo /\ \A g \in Groups : committedDemotes[g] <= PerGroupDemoteCap
  BY CapsAssumption DEF Solo
<1> QED
  BY <1>1, <1>3, <1>4 DEF BudgetInv

\* The inductive invariant: the budget of every session that no attempt of an
\* earlier one reaches into.
SessionInv == ~crossed => Solo /\ BudgetInv

\* Only a reset begins a session.
LEMMA CrossedKept ==
    ASSUME [Next]_vars, ~Reset
    PROVE  crossed' = crossed
<1>1. ASSUME NEW g \in Groups, Call(g) PROVE UNCHANGED crossed
  BY <1>1 DEF Call, Blocked, CoolingDown, CapReached, ProbeFails, Start, history
<1>2. ASSUME NEW a \in Attempts, Continue(a) PROVE UNCHANGED crossed
  BY <1>2 DEF Continue, Refreshed, Retried, Refused, Accepted, Advance, Finish, history
<1> QED
  BY <1>1, <1>2 DEF Next, CooldownExpires, vars, history

LEMMA SessionStep ==
    ASSUME TypeOK, SessionInv, [Next]_vars
    PROVE  SessionInv'
<1>1. CASE Reset /\ Running = {}
  <2>1. Running' = {}
    BY <1>1 DEF Reset, Running
  <2>2. Solo' /\ BudgetInv'
    <3>1. /\ inflight' = [g \in Groups |-> None]
          /\ committedDemotes' = [g \in Groups |-> 0] /\ sessionDemotes' = 0
      BY <1>1 DEF Reset
    <3>2. Busy' = {}
      BY <3>1 DEF Busy
    <3>3. Cardinality(Busy') = 0
      BY <3>2, FS_EmptySet
    <3>4. sessionDemotes' + Cardinality(Busy') <= SessionDemoteCap - 1 + Cardinality(Groups)
      BY <3>1, <3>3, BusyCount, CapsAssumption
    <3>5. Solo' /\ \A g \in Groups : committedDemotes'[g] <= PerGroupDemoteCap
      BY <2>1, <3>1, CapsAssumption DEF Solo
    <3> QED
      BY <3>2, <3>4, <3>5 DEF BudgetInv
  <2> QED
    BY <2>2 DEF SessionInv
<1>2. CASE Reset /\ Running # {}
  BY <1>2 DEF Reset, SessionInv
<1>3. CASE ~Reset
  BY <1>3, CrossedKept, SoloStep, BudgetStep DEF SessionInv
<1> QED
  BY <1>1, <1>2, <1>3

\* The invariant of every reachable state.
LEMMA SessionInvAlways == Spec => [](TypeOK /\ SessionInv)
<1>1. Init => SessionInv
  <2> SUFFICES ASSUME Init PROVE Solo /\ BudgetInv
    BY DEF SessionInv
  <2>1. Running = {}
    BY DEF Init, Running
  <2> QED
    BY <2>1, SessionBegins DEF Init
<1>2. TypeOK /\ SessionInv /\ [Next]_vars => SessionInv'
  BY SessionStep
<1> QED
  BY <1>1, <1>2, TypeCorrect, PTL DEF Spec

\* The callers of a group share one attempt, as long as no attempt was
\* suspended across a reset.
THEOREM OneAttemptAlways == Spec => []OneAttemptPerGroup
<1>1. TypeOK /\ SessionInv => OneAttemptPerGroup
  BY DEF SessionInv, Solo, OneAttemptPerGroup
<1> QED
  BY <1>1, SessionInvAlways, PTL

\* No group is demoted more often than its cap within such a session, although
\* the cap is read before the awaits and charged after them.
THEOREM PerGroupCapAlways == Spec => []PerGroupCapHolds
<1>1. TypeOK /\ SessionInv => PerGroupCapHolds
  BY DEF SessionInv, BudgetInv, PerGroupCapHolds
<1> QED
  BY <1>1, SessionInvAlways, PTL

\* The session cap may be overrun by one accepted request per other group, and
\* by no more.
THEOREM SessionBudgetAlways == Spec => []SessionBudgetBounded
<1>1. ASSUME TypeOK, SessionInv, ~crossed
      PROVE  sessionDemotes <= SessionDemoteCap - 1 + Cardinality(Groups)
  <2>1. sessionDemotes \in Nat
    BY <1>1, CapsAssumption DEF TypeOK, BudgetTypeOK
  <2>2. sessionDemotes + Cardinality(Busy) <= SessionDemoteCap - 1 + Cardinality(Groups)
    BY <1>1 DEF SessionInv, BudgetInv
  <2> QED
    BY <2>1, <2>2, BusyCount, CapsAssumption
<1>2. TypeOK /\ SessionInv => SessionBudgetBounded
  BY <1>1 DEF SessionBudgetBounded
<1> QED
  BY <1>2, SessionInvAlways, PTL
-----------------------------------------------------------------------------
(* The caps as a budget that is reserved and paid.                         *)

\* A reset begins a session: a promised one if no attempt is out.
LEMMA ResetBegins ==
    ASSUME TypeOK, Reset
    PROVE  [Budget!Next]_Budget!vars
<1>1. /\ crossed' = (Running # {}) /\ Running' = Running
      /\ committedDemotes' = [g \in Groups |-> 0] /\ sessionDemotes' = 0
  BY DEF Reset, Running
<1>2. Working' = {} /\ Charged' = [g \in Groups |-> 0] /\ Spent' = 0
  BY <1>1 DEF Working, Charged, Spent
<1>3. CASE ~crossed
  <2>1. crossed' = (Working # {})
    BY <1>1, <1>3 DEF Working
  <2> QED
    BY <1>2, <1>3, <2>1 DEF Budget!Next, Budget!NewSession, Budget!Fresh
<1>4. CASE crossed /\ crossed'
  <2>1. Working = {} /\ Charged = [g \in Groups |-> 0] /\ Spent = 0
    BY <1>4 DEF Working, Charged, Spent
  <2> QED
    BY <1>2, <1>4, <2>1 DEF Budget!vars
<1>5. CASE crossed /\ crossed' = FALSE
  BY <1>2, <1>5 DEF Budget!Next, Budget!Renew, Budget!Fresh
<1> QED
  BY <1>1, <1>3, <1>4, <1>5

\* An attempt sets out only from a group with none out and both caps not reached.
LEMMA StartBegins ==
    ASSUME TypeOK, Solo, ~crossed, NEW g \in Groups, NEW a \in Attempts, Start(g, a)
    PROVE  Budget!Begin(g)
<1>1. \A b \in Running : groupOf[b] # g
  BY NoneAssumption DEF Solo, Start, Attempting, Eligible, NotInFlight, Running
<1>2. Running' = Running \cup {a} /\ groupOf' = [groupOf EXCEPT ![a] = g] /\ a \notin Running
  BY DEF Start, Running, TypeOK, FlightsTypeOK
<1>3. groupOf'[a] = g /\ \A b \in Running : groupOf'[b] = groupOf[b]
  BY <1>2 DEF TypeOK, FlightsTypeOK, Running
<1>4. /\ crossed' = crossed /\ committedDemotes' = committedDemotes
      /\ sessionDemotes' = sessionDemotes
  BY DEF Start, Attempting, history
<1>5. Working = {groupOf[b] : b \in Running} /\ Working' = {groupOf'[b] : b \in Running'}
  BY <1>4 DEF Working
<1>6. g \notin Working /\ Working' = Working \cup {g}
  BY <1>1, <1>2, <1>3, <1>5
<1>7. Charged' = Charged /\ Spent' = Spent /\ Charged = committedDemotes /\ Spent = sessionDemotes
  BY <1>4 DEF Charged, Spent
<1>8. committedDemotes[g] < PerGroupDemoteCap /\ sessionDemotes < SessionDemoteCap
  BY DEF Start, Attempting, PerGroupLeft, SessionLeft
<1> QED
  BY <1>4, <1>6, <1>7, <1>8 DEF Budget!Begin

\* The end of an attempt brings its group back, and no other.
LEMMA FinishReturns ==
    ASSUME TypeOK, Solo, ~crossed, NEW a \in Running, NEW outcome, Finish(a, outcome)
    PROVE  /\ groupOf[a] \in Groups /\ groupOf[a] \in Working
           /\ Working' = Working \ {groupOf[a]}
           /\ crossed' = crossed
<1>1. groupOf[a] \in Groups /\ a \in Attempts /\ crossed' = crossed
  BY DEF TypeOK, FlightsTypeOK, Running, Finish
<1>2. Running' = Running \ {a} /\ \A b \in Running' : groupOf'[b] = groupOf[b]
  BY <1>1 DEF Finish, EndFlight, Running, TypeOK, FlightsTypeOK
<1>3. \A b \in Running' : groupOf[b] # groupOf[a]
  BY <1>2 DEF Solo
<1>4. Working = {groupOf[b] : b \in Running} /\ Working' = {groupOf'[b] : b \in Running'}
  BY <1>1 DEF Working
<1> QED
  BY <1>1, <1>2, <1>3, <1>4

\* Every step of a session is one of its budget, or none.
LEMMA BudgetMapped ==
    ASSUME TypeOK, Solo, ~crossed, [Next]_vars, ~Reset
    PROVE  [Budget!Next]_Budget!vars
<1> USE CrossedKept
<1>1. CASE UNCHANGED <<flights, committedDemotes, sessionDemotes>>
  <2>1. Working' = Working /\ Charged' = Charged /\ Spent' = Spent
    BY <1>1 DEF Working, Charged, Spent, flights, Running
  <2> QED
    BY <2>1 DEF Budget!vars
<1>2. ASSUME NEW g \in Groups, NEW a \in Attempts, Start(g, a) PROVE Budget!Next
  BY <1>2, StartBegins DEF Budget!Next
<1>3. ASSUME NEW a \in Running, NEW next \in Phases \ {"idle"}, Advance(a, next),
             UNCHANGED <<committedDemotes, sessionDemotes>>
      PROVE  UNCHANGED Budget!vars
  <2>1. Running' = Running /\ groupOf' = groupOf
    BY <1>3 DEF Advance, Running, TypeOK, FlightsTypeOK
  <2>2. Working' = Working /\ Charged' = Charged /\ Spent' = Spent
    BY <1>3, <2>1 DEF Working, Charged, Spent
  <2> QED
    BY <2>2 DEF Budget!vars
<1>4. ASSUME NEW a \in Running, NEW outcome, Finish(a, outcome),
             UNCHANGED <<committedDemotes, sessionDemotes>>
      PROVE  Budget!Next
  <2>1. Charged' = Charged /\ Spent' = Spent
    BY <1>4 DEF Charged, Spent
  <2> QED
    BY <1>4, <2>1, FinishReturns DEF Budget!Next, Budget!GiveUp
<1>5. ASSUME NEW a \in Running, NEW alreadyPending \in BOOLEAN, Accepted(a, alreadyPending)
      PROVE  Budget!Next
  <2>1. /\ groupOf[a] \in Groups /\ groupOf[a] \in Working
        /\ Working' = Working \ {groupOf[a]}
    BY <1>5, FinishReturns DEF Accepted
  <2>2. /\ Charged = committedDemotes /\ Charged' = committedDemotes'
        /\ Spent = sessionDemotes /\ Spent' = sessionDemotes'
    BY DEF Charged, Spent
  <2>3. CASE alreadyPending
    <3>1. Budget!Accept(groupOf[a], FALSE)
      BY <1>5, <2>1, <2>2, <2>3 DEF Accepted, Budget!Accept
    <3> QED
      BY <2>1, <3>1 DEF Budget!Next
  <2>4. CASE ~alreadyPending
    <3>1. Budget!Accept(groupOf[a], TRUE)
      BY <1>5, <2>1, <2>2, <2>4 DEF Accepted, Budget!Accept
    <3> QED
      BY <2>1, <3>1 DEF Budget!Next
  <2> QED
    BY <2>3, <2>4
<1> QED
  BY <1>1, <1>2, <1>3, <1>4, <1>5, FlightKinds

\* The module implements DemoteBudget: an attempt sets out only with a slot of
\* its group and of the session left, pays once when it is accepted, and nothing
\* else moves the counters, for any groups, attempts and caps.
THEOREM DemoteBudgetImplemented == Spec => ImplementsDemoteBudget
<1>1. Init => Budget!Init
  <2> SUFFICES ASSUME Init PROVE Budget!Init
    OBVIOUS
  <2>1. Running = {} /\ ~crossed
    BY DEF Init, Running
  <2>2. Working = {} /\ Charged = [g \in Groups |-> 0] /\ Spent = 0
    BY <2>1 DEF Init, Working, Charged, Spent
  <2> QED
    BY <2>1, <2>2 DEF Budget!Init, Init
<1>2. ASSUME TypeOK, SessionInv, [Next]_vars PROVE [Budget!Next]_Budget!vars
  <2>1. CASE Reset
    BY <1>2, <2>1, ResetBegins
  <2>2. CASE ~Reset /\ ~crossed
    BY <1>2, <2>2, BudgetMapped DEF SessionInv
  <2>3. CASE ~Reset /\ crossed
    <3>1. crossed' = crossed
      BY <1>2, <2>3, CrossedKept
    <3>2. Working' = Working /\ Charged' = Charged /\ Spent' = Spent
      BY <2>3, <3>1 DEF Working, Charged, Spent
    <3> QED
      BY <3>1, <3>2 DEF Budget!vars
  <2> QED
    BY <2>1, <2>2, <2>3
<1> QED
  BY <1>1, <1>2, SessionInvAlways, PTL DEF Spec, ImplementsDemoteBudget, Budget!Spec
\* The invariant of the abstract budget: a group with an attempt out has a slot
\* reserved, and the session has reserved for every attempt out.
Reserved ==
    /\ Working \subseteq Groups /\ Charged \in [Groups -> Nat] /\ Spent \in Nat
    /\ \A g \in Groups : Charged[g] <= PerGroupDemoteCap
    /\ \A g \in Working : Charged[g] < PerGroupDemoteCap
    /\ Spent + Cardinality(Working) <= SessionDemoteCap - 1 + Cardinality(Groups)

\* How many groups can have an attempt out.
LEMMA OutCount ==
    ASSUME NEW W \in SUBSET Groups
    PROVE  /\ IsFiniteSet(W) /\ Cardinality(W) \in Nat /\ Cardinality(Groups) \in Nat
           /\ Cardinality(W) <= Cardinality(Groups)
           /\ \A g \in W : Cardinality(W \ {g}) = Cardinality(W) - 1
<1>1. IsFiniteSet(W) /\ Cardinality(W) \in Nat /\ Cardinality(Groups) \in Nat
      /\ Cardinality(W) <= Cardinality(Groups)
  BY GroupsAssumption, FS_Subset, FS_CardinalityType
<1> QED
  BY <1>1, FS_RemoveElement

\* A budget that begins afresh has nothing reserved.
LEMMA FreshReserved ==
    ASSUME Budget!Fresh
    PROVE  Reserved'
<1>1. Working' = {} /\ Charged' = [g \in Groups |-> 0] /\ Spent' = 0
  BY DEF Budget!Fresh
<1>2. Cardinality(Working') = 0
  BY <1>1, FS_EmptySet
<1>3. Spent' + Cardinality(Working') <= SessionDemoteCap - 1 + Cardinality(Groups)
  BY <1>1, <1>2, CapsAssumption, GroupsAssumption, FS_CardinalityType
<1> QED
  BY <1>1, <1>3, CapsAssumption DEF Reserved

\* Every step of the abstract budget keeps the reservations.
LEMMA ReservedStep ==
    ASSUME Reserved, [Budget!Next]_Budget!vars
    PROVE  Reserved'
<1>1. ASSUME NEW g \in Groups, Budget!Begin(g) PROVE Reserved'
  <2>1. /\ Working' = Working \cup {g} /\ Charged' = Charged /\ Spent' = Spent
        /\ Charged[g] < PerGroupDemoteCap /\ Spent < SessionDemoteCap
    BY <1>1 DEF Budget!Begin
  <2>2. Working' \in SUBSET Groups
    BY <2>1 DEF Reserved
  <2>3. Spent' + Cardinality(Working') <= SessionDemoteCap - 1 + Cardinality(Groups)
    BY <2>1, <2>2, OutCount, CapsAssumption DEF Reserved
  <2> QED
    BY <2>1, <2>2, <2>3 DEF Reserved
<1>2. ASSUME NEW g \in Groups, g \in Working, Working' = Working \ {g},
             Charged' = Charged \/ Charged' = [Charged EXCEPT ![g] = @ + 1],
             Spent' \in {Spent, Spent + 1}
      PROVE  Reserved'
  <2>1. Charged[g] + 1 \in Nat /\ Charged[g] + 1 <= PerGroupDemoteCap
    BY <1>2, CapsAssumption DEF Reserved
  <2>2. /\ Charged' \in [Groups -> Nat]
        /\ \A h \in Groups : Charged'[h] <= PerGroupDemoteCap
        /\ \A h \in Working' : Charged'[h] < PerGroupDemoteCap
    BY <1>2, <2>1 DEF Reserved
  <2>3. Cardinality(Working') = Cardinality(Working) - 1 /\ Cardinality(Working) \in Nat
        /\ Cardinality(Groups) \in Nat
    BY <1>2, OutCount DEF Reserved
  <2>4. Spent' + Cardinality(Working') <= SessionDemoteCap - 1 + Cardinality(Groups)
    BY <1>2, <2>3, CapsAssumption DEF Reserved
  <2> QED
    BY <1>2, <2>2, <2>4 DEF Reserved
<1>3. ASSUME NEW g \in Groups, Budget!GiveUp(g) \/ Budget!Accept(g, TRUE) \/ Budget!Accept(g, FALSE)
      PROVE  Reserved'
  <2>1. /\ g \in Working /\ Working' = Working \ {g}
        /\ Charged' = Charged \/ Charged' = [Charged EXCEPT ![g] = @ + 1]
        /\ Spent' \in {Spent, Spent + 1}
    BY <1>3 DEF Budget!GiveUp, Budget!Accept
  <2> QED
    BY <1>2, <2>1
<1>4. CASE Budget!NewSession \/ Budget!Renew
  BY <1>4, FreshReserved DEF Budget!NewSession, Budget!Renew
<1>5. CASE UNCHANGED Budget!vars
  <2>1. Working' = Working /\ Charged' = Charged /\ Spent' = Spent
    BY <1>5 DEF Budget!vars
  <2> QED
    BY <2>1 DEF Reserved
<1> QED
  BY <1>1, <1>3, <1>4, <1>5 DEF Budget!Next

\* What the abstract budget promises follows from its own steps alone: no group
\* past its cap, and the session past its cap by at most the other groups'
\* attempts.
THEOREM DemoteBudgetKept == Budget!Spec => []Budget!WithinCaps
<1>1. ASSUME Budget!Init PROVE Reserved
  <2>1. Working = {} /\ Charged = [g \in Groups |-> 0] /\ Spent = 0
    BY <1>1 DEF Budget!Init
  <2>2. Cardinality(Working) = 0
    BY <2>1, FS_EmptySet
  <2>3. Spent + Cardinality(Working) <= SessionDemoteCap - 1 + Cardinality(Groups)
    BY <2>1, <2>2, CapsAssumption, GroupsAssumption, FS_CardinalityType
  <2> QED
    BY <2>1, <2>3, CapsAssumption DEF Reserved
<1>2. ASSUME Reserved PROVE Budget!WithinCaps
  <2>1. Spent <= SessionDemoteCap - 1 + Cardinality(Groups)
    BY <1>2, OutCount, CapsAssumption DEF Reserved
  <2> QED
    BY <1>2, <2>1 DEF Reserved, Budget!WithinCaps, Cardinality, Budget!Cardinality
<1>3. ASSUME Reserved, [Budget!Next]_Budget!vars PROVE Reserved'
  BY <1>3, ReservedStep
<1> QED
  BY <1>1, <1>2, <1>3, PTL DEF Budget!Spec
=============================================================================
