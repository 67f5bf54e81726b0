-------------------------- MODULE GroupKeyRecovery --------------------------
(***************************************************************************)
(* Self-heal of a group key envelope that this device cannot open          *)
(* (src/src/services/crypto/groupKeyRecovery.ts).  recoverDeadEnvelope()   *)
(* runs synchronously up to its first await: the eligibility checks, the   *)
(* cooldown, the caps and the local key probe are one step.  An attempt    *)
(* that goes on suspends at the sender key refresh, at the retried unwrap  *)
(* and at the demote request.  resetGroupKeyRecoveryState() may run while  *)
(* attempts are suspended; they are not told.                              *)
(***************************************************************************)
EXTENDS Naturals, FiniteSets

CONSTANTS
    Groups,            \* group ids
    Attempts,          \* names of attempts suspended at the same time
    PerGroupDemoteCap, \* PER_GROUP_DEMOTE_CAP
    SessionDemoteCap,  \* SESSION_DEMOTE_CAP
    MaxSession,        \* bound on sessionDemotes: no request is accepted past it
    None

ASSUME CapsAssumption ==
    PerGroupDemoteCap \in Nat \ {0} /\ SessionDemoteCap \in Nat \ {0} /\ MaxSession \in Nat
ASSUME GroupsAssumption == IsFiniteSet(Groups) /\ Groups # {}
ASSUME NoneAssumption == None \notin Groups \cup Attempts

VARIABLES
    phase,               \* per attempt: idle, or the await it is suspended at
    groupOf,             \* per attempt: the group it is for, or None
    inflight,            \* per group: the attempt its callers share, or None
    cooling,             \* groups whose cooldownUntil is in the future
    committedDemotes,    \* per group: demotes that changed the row
    sessionDemotes,      \* accepted requests of the session
    lastTerminal,        \* per group: the remembered verdict, or None
    localKeyInvalid,     \* latch: the local key pair failed its probe
    endpointUnsupported, \* latch: the server answered 404
    outdated,            \* history: attempts begun before the last reset
    crossed,             \* history: attempts were suspended across the last reset
    concluded,           \* history: outcome of the group's last attempt, or None
    answered             \* history: outcome the group's last caller was given

flights == <<phase, groupOf, inflight>>
budget == <<cooling, committedDemotes, sessionDemotes>>
latches == <<localKeyInvalid, endpointUnsupported>>
history == <<outdated, crossed, concluded, answered>>
vars == <<flights, budget, lastTerminal, latches, history>>

Phases == {"idle", "refresh", "retry", "demote"}
TerminalOutcomes == {"refused", "identity_mismatch", "exhausted", "not_eligible",
                     "blocked_local_key", "unsupported"}
Outcomes == TerminalOutcomes \cup {"requested", "failed", "rate_limited", "cooldown",
                                   "session_exhausted", "healed"}
\* What routeDemoteError can say of a refused request, 404 apart.
Refusals == {"identity_mismatch", "refused", "not_eligible", "rate_limited", "failed"}

Running == {a \in Attempts : phase[a] # "idle"}

-----------------------------------------------------------------------------
Init ==
    /\ phase = [a \in Attempts |-> "idle"] /\ groupOf = [a \in Attempts |-> None]
    /\ inflight = [g \in Groups |-> None]
    /\ cooling = {}
    /\ committedDemotes = [g \in Groups |-> 0] /\ sessionDemotes = 0
    /\ lastTerminal = [g \in Groups |-> None]
    /\ localKeyInvalid = FALSE /\ endpointUnsupported = FALSE
    /\ outdated = {} /\ crossed = FALSE
    /\ concluded = [g \in Groups |-> None] /\ answered = [g \in Groups |-> None]

\* rememberTerminalOutcome, then the caller's result.
Conclude(g, outcome) ==
    /\ lastTerminal' = IF outcome \in TerminalOutcomes
                         THEN [lastTerminal EXCEPT ![g] = outcome] ELSE lastTerminal
    /\ answered' = [answered EXCEPT ![g] = outcome]

\* An attempt that never suspends leaves nothing in flight.
Answer(g, outcome) == Conclude(g, outcome) /\ UNCHANGED flights

-----------------------------------------------------------------------------
\* A second caller shares the attempt in flight and starts nothing.
\* Mutant of NotInFlight: the caller does not look.
AlwaysStarts(g) == TRUE

NotInFlight(g) == inflight[g] = None

Blocked(g) ==
    /\ NotInFlight(g)
    /\ \/ Answer(g, "not_eligible")   \* no user, own envelope, unknown cause
       \/ localKeyInvalid /\ Answer(g, "blocked_local_key")
       \/ ~localKeyInvalid /\ endpointUnsupported /\ Answer(g, "unsupported")
    /\ UNCHANGED <<budget, latches, outdated, crossed, concluded>>

Eligible(g) == NotInFlight(g) /\ ~localKeyInvalid /\ ~endpointUnsupported

\* Inside the cooldown the remembered verdict is repeated.
CoolingDown(g) ==
    /\ Eligible(g) /\ g \in cooling
    /\ Answer(g, IF lastTerminal[g] # None THEN lastTerminal[g] ELSE "cooldown")
    /\ UNCHANGED <<budget, latches, outdated, crossed, concluded>>

\* Mutants of PerGroupLeft and SessionLeft: off by one.
PerGroupLeftOrEqual(g) == committedDemotes[g] <= PerGroupDemoteCap
SessionLeftOrEqual == sessionDemotes <= SessionDemoteCap

PerGroupLeft(g) == committedDemotes[g] < PerGroupDemoteCap
SessionLeft == sessionDemotes < SessionDemoteCap

CapReached(g) ==
    /\ Eligible(g) /\ g \notin cooling
    /\ \/ ~PerGroupLeft(g) /\ Answer(g, "exhausted")
       \/ /\ PerGroupLeft(g) /\ ~SessionLeft
          /\ Answer(g, IF committedDemotes[g] = 0 THEN "session_exhausted" ELSE "exhausted")
    /\ UNCHANGED <<budget, latches, outdated, crossed, concluded>>

\* A real attempt stamps the cooldown before anything can fail.
Attempting(g) ==
    /\ Eligible(g) /\ g \notin cooling /\ PerGroupLeft(g) /\ SessionLeft
    /\ cooling' = cooling \cup {g}
    /\ UNCHANGED <<committedDemotes, sessionDemotes>>

\* The local key pair does not match, or cannot be read.
ProbeFails(g) ==
    /\ Attempting(g)
    /\ \/ localKeyInvalid' = TRUE /\ Answer(g, "blocked_local_key")
       \/ UNCHANGED localKeyInvalid /\ Answer(g, "failed")
    /\ concluded' = [concluded EXCEPT ![g] = answered'[g]]
    /\ UNCHANGED <<endpointUnsupported, outdated, crossed>>

\* A stale sender key is refreshed first; any other cause demotes at once.
Start(g, a) ==
    /\ Attempting(g) /\ a \notin Running
    /\ \E first \in {"refresh", "demote"} : phase' = [phase EXCEPT ![a] = first]
    /\ groupOf' = [groupOf EXCEPT ![a] = g]
    /\ inflight' = [inflight EXCEPT ![g] = a]
    /\ UNCHANGED <<lastTerminal, latches, history>>

-----------------------------------------------------------------------------
\* Mutants of EndFlight: nothing is forgotten; the attempt keeps its group.
KeepFlight(a) == groupOf' = [groupOf EXCEPT ![a] = None] /\ UNCHANGED inflight
KeepGroup(a) == inflight' = [inflight EXCEPT ![groupOf[a]] = None] /\ UNCHANGED groupOf

\* The attempt forgets whatever is in flight for its group, its own or not.
EndFlight(a) ==
    /\ groupOf' = [groupOf EXCEPT ![a] = None]
    /\ inflight' = [inflight EXCEPT ![groupOf[a]] = None]

Finish(a, outcome) ==
    /\ phase' = [phase EXCEPT ![a] = "idle"]
    /\ EndFlight(a)
    /\ Conclude(groupOf[a], outcome)
    /\ concluded' = [concluded EXCEPT ![groupOf[a]] = outcome]
    /\ outdated' = outdated \ {a}
    /\ UNCHANGED crossed

Advance(a, next) ==
    /\ phase' = [phase EXCEPT ![a] = next]
    /\ UNCHANGED <<groupOf, inflight, lastTerminal, history>>

\* refreshAndCompareIdentityKey answers.
Refreshed(a) ==
    /\ phase[a] = "refresh"
    /\ Advance(a, "retry") \/ Finish(a, "failed")
    /\ UNCHANGED <<budget, latches>>

\* retryUnwrap answers: opened, no key, unclassified, or still dead.
Retried(a) ==
    /\ phase[a] = "retry"
    /\ Advance(a, "demote") \/ \E outcome \in {"healed", "failed", "not_eligible"} : Finish(a, outcome)
    /\ UNCHANGED <<budget, latches>>

\* The server accepted: the session pays, the group only if its row changed.
Accepted(a, alreadyPending) ==
    /\ phase[a] = "demote" /\ sessionDemotes < MaxSession
    /\ sessionDemotes' = sessionDemotes + 1
    /\ committedDemotes' = IF alreadyPending THEN committedDemotes
                           ELSE [committedDemotes EXCEPT ![groupOf[a]] = @ + 1]
    /\ Finish(a, "requested")
    /\ UNCHANGED <<cooling, latches>>

Refused(a) ==
    /\ phase[a] = "demote"
    /\ \/ UNCHANGED endpointUnsupported /\ \E outcome \in Refusals : Finish(a, outcome)
       \/ endpointUnsupported' = TRUE /\ Finish(a, "unsupported")
    /\ UNCHANGED <<budget, localKeyInvalid>>

-----------------------------------------------------------------------------
\* Fifteen minutes pass.  A suspended app may still have the request open.
CooldownExpires(g) ==
    /\ g \in cooling
    /\ cooling' = cooling \ {g}
    /\ UNCHANGED <<flights, committedDemotes, sessionDemotes, lastTerminal, latches, history>>

\* clearContentCryptoInflight, from localWipe or a key wipe.
Reset ==
    /\ inflight' = [g \in Groups |-> None]
    /\ cooling' = {} /\ committedDemotes' = [g \in Groups |-> 0] /\ sessionDemotes' = 0
    /\ lastTerminal' = [g \in Groups |-> None]
    /\ localKeyInvalid' = FALSE /\ endpointUnsupported' = FALSE
    /\ outdated' = Running /\ crossed' = (Running # {})
    /\ concluded' = [g \in Groups |-> None] /\ answered' = [g \in Groups |-> None]
    /\ UNCHANGED <<phase, groupOf>>

Call(g) ==
    \/ Blocked(g) \/ CoolingDown(g) \/ CapReached(g) \/ ProbeFails(g)
    \/ \E a \in Attempts : Start(g, a)

Continue(a) ==
    \/ Refreshed(a) \/ Retried(a) \/ Refused(a)
    \/ \E alreadyPending \in BOOLEAN : Accepted(a, alreadyPending)

Next ==
    \/ \E g \in Groups : Call(g) \/ CooldownExpires(g)
    \/ \E a \in Attempts : Continue(a)
    \/ Reset

Spec == Init /\ [][Next]_vars

-----------------------------------------------------------------------------
(***************************************************************************)
(* Properties.                                                             *)
(***************************************************************************)

FlightsTypeOK ==
    /\ phase \in [Attempts -> Phases]
    /\ groupOf \in [Attempts -> Groups \cup {None}]
    /\ \A a \in Attempts : phase[a] = "idle" <=> groupOf[a] = None
    /\ inflight \in [Groups -> Attempts \cup {None}]
    /\ outdated \subseteq Running
    /\ crossed \in BOOLEAN

BudgetTypeOK ==
    /\ cooling \subseteq Groups
    /\ committedDemotes \in [Groups -> Nat] /\ sessionDemotes \in 0..MaxSession

VerdictTypeOK ==
    /\ lastTerminal \in [Groups -> TerminalOutcomes \cup {None}]
    /\ concluded \in [Groups -> Outcomes \cup {None}]
    /\ answered \in [Groups -> Outcomes \cup {None}]

LatchesTypeOK == localKeyInvalid \in BOOLEAN /\ endpointUnsupported \in BOOLEAN

TypeOK == FlightsTypeOK /\ BudgetTypeOK /\ VerdictTypeOK /\ LatchesTypeOK

\* What later callers wait for is always an attempt that is still going to end,
\* whatever attempts of earlier sessions end meanwhile.
SharedAttemptRuns ==
    \A g \in Groups : inflight[g] # None => inflight[g] \in Running /\ groupOf[inflight[g]] = g

\* "Concurrent calls for one group share a single attempt", even when the
\* cooldown runs out while the attempt is suspended: as long as no attempt was
\* suspended across a reset.
OneAttemptPerGroup == ~crossed => \A a, b \in Running : groupOf[a] = groupOf[b] => a = b

\* "Demotes allowed per group per session", although the cap is checked before
\* the awaits and charged after them.
PerGroupCapHolds == ~crossed => \A g \in Groups : committedDemotes[g] <= PerGroupDemoteCap

\* What the session cap really bounds: attempts of other groups that passed the
\* check before the last slot was spent may each spend one more.
SessionBudgetBounded == ~crossed => sessionDemotes <= SessionDemoteCap - 1 + Cardinality(Groups)

\* What the caps promise, for sessions that no attempt of an earlier one reaches
\* into: groups with an attempt suspended are those with one out.
Working == IF crossed THEN {} ELSE {groupOf[a] : a \in Running}
Charged == IF crossed THEN [g \in Groups |-> 0] ELSE committedDemotes
Spent == IF crossed THEN 0 ELSE sessionDemotes

Budget == INSTANCE DemoteBudget WITH
    PerGroup <- PerGroupDemoteCap, PerSession <- SessionDemoteCap,
    working <- Working, charged <- Charged, spent <- Spent, spoiled <- crossed

\* However calls, suspended attempts, expiring cooldowns and account switches
\* interleave, the caps that are read before the awaits and charged after them
\* are a budget that is reserved and paid: an implementation of DemoteBudget.
ImplementsDemoteBudget == Budget!Spec

\* "The outcome describes what the last real attempt concluded": inside the
\* cooldown a caller is told the last attempt's verdict if it was terminal, and
\* 'cooldown' if it was not.
CooldownRepeatsLastVerdict ==
    [][\A g \in Groups : CoolingDown(g)
         => answered'[g] = IF concluded[g] \in TerminalOutcomes THEN concluded[g] ELSE "cooldown"]_vars
=============================================================================
