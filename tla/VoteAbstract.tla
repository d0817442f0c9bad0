----------------------------- MODULE VoteAbstract -----------------------------
(***************************************************************************)
(* What the multi-organisation vote promises (spec 3 and 4.4), with no     *)
(* requests, rows or database calls:                                       *)
(*                                                                         *)
(*  - a proposal has ballots, one per organisation, each unanswered (0)    *)
(*    until its organisation answers it once;                              *)
(*  - a proposal closes once the approvals among its ballots reach what    *)
(*    the chain policy requires, and no ballot is answered after that;     *)
(*  - a closed proposal is dispatched once, endorsed by its approvers.     *)
(*                                                                         *)
(* Governance implements it (the refinement mapping is in Governance).    *)
(***************************************************************************)
EXTENDS PolicyStore, Integers, FiniteSets, Sequences

CONSTANTS MultiIds, Orgs, VoteResults, Policies, None

VOTE_PASS == 1

VARIABLES
  abal,     \* abal[m][o]: None (no ballot), 0 (unanswered) or the answer
  closed,   \* closed[m]: the proposal no longer takes answers
  adisp,    \* the dispatches, in order: [m, orgs]
  policy    \* the chain policy the proposals are tallied against

avars == <<abal, closed, adisp, policy>>

ABallots(m) == {o \in Orgs : abal[m][o] # None}

AApprovers(m) == {o \in ABallots(m) : abal[m][o] = VOTE_PASS}

APasses(m) ==
  LET need == RequiredApprovals(Cardinality(ABallots(m)), policy)
  IN need > 0 /\ Cardinality(AApprovers(m)) >= need

ADispatched == {adisp[i].m : i \in 1..Len(adisp)}

AInit ==
  /\ abal = [m \in MultiIds |-> [o \in Orgs |-> None]]
  /\ closed = [m \in MultiIds |-> FALSE]
  /\ adisp = << >>
  /\ policy \in Policies

Open(m, o) ==
  /\ abal[m][o] = None
  /\ abal' = [abal EXCEPT ![m][o] = 0]
  /\ UNCHANGED <<closed, adisp, policy>>

Answer(m, o, val) ==
  /\ ~closed[m]
  /\ abal[m][o] = 0
  /\ abal' = [abal EXCEPT ![m][o] = val]
  /\ UNCHANGED <<closed, adisp, policy>>

Close(m) ==
  /\ ~closed[m]
  /\ APasses(m)
  /\ closed' = [closed EXCEPT ![m] = TRUE]
  /\ UNCHANGED <<abal, adisp, policy>>

Dispatch(m) ==
  /\ closed[m]
  /\ m \notin ADispatched
  /\ adisp' = Append(adisp, [m |-> m, orgs |-> AApprovers(m)])
  /\ UNCHANGED <<abal, closed, policy>>

ANext ==
  \E m \in MultiIds :
     \/ \E o \in Orgs : Open(m, o) \/ \E val \in VoteResults : Answer(m, o, val)
     \/ Close(m)
     \/ Dispatch(m)

\* A proposal that passes is closed, and a closed one dispatched.
ASpec ==
  /\ AInit /\ [][ANext]_avars
  /\ \A m \in MultiIds : WF_avars(Close(m)) /\ WF_avars(Dispatch(m))

=============================================================================
