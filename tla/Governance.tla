------------------------------ MODULE Governance ------------------------------
(***************************************************************************)
(* The multi-organisation vote of the management backend.                  *)
(*                                                                         *)
(*  - a proposal request (contract_management.SaveVote) draws a multiId    *)
(*    and inserts one VoteManagement row per organisation of the chain,    *)
(*    one db.CreateVote call at a time;                                    *)
(*  - a vote request (vote.VoteHandler.Handle) reads its row, records the  *)
(*    organisation's answer, tallies the multiId's rows against the chain  *)
(*    policy and, when the tally passes, marks the multiId completed and   *)
(*    hands the proposal to multi_sign.MultiSignInvoke.                    *)
(*                                                                         *)
(* Every database call is one atomic step; the Go code between two calls  *)
(* works on values it has already read, so requests interleave at the     *)
(* calls.  What MultiSignInvoke then does on the ledger is modelled in     *)
(* ContractGovernance; here a dispatch is recorded in the history          *)
(* variable `dispatched`.                                                  *)
(***************************************************************************)
EXTENDS PolicyStore, Integers, FiniteSets, Sequences

CONSTANTS
  ChainOrgList,       \* the chain's organisations, in relation.GetChainOrgList order
  MultiIds,           \* multiId values strconv.Itoa(rand.Int()) can produce
  Proposers,          \* proposal requests (callers of SaveVote)
  Voters,             \* vote requests (VoteHandler.Handle)
  VoteResults,        \* VoteParams.VoteResult values sent by the console
  Policies,           \* chain policies dbpolicy.GetChainPolicy can return
  None,               \* model value: no row / no value
  SerialRequests,     \* TRUE: a request starts only when every other one has returned
  CreateVoteMayFail   \* TRUE: db.CreateVote can return an error

Orgs == {ChainOrgList[i] : i \in 1..Len(ChainOrgList)}

ASSUME Len(ChainOrgList) > 0 /\ Cardinality(Orgs) = Len(ChainOrgList)
ASSUME SerialRequests \in BOOLEAN /\ CreateVoteMayFail \in BOOLEAN

\* VoteResult value that db.GetVotedOrgListByMultiId counts as passed.
VOTE_PASS == 1

ASSUME Policies \subseteq PolicyRec

BallotRec == [result : {0} \union VoteResults, status : {0, 1}]

VARIABLES
  ballot,      \* ballot[m][o]: the VoteManagement row of (multiId m, org o), or None
  policy,      \* the chain policy of the proposals' vote type
  used,        \* multiIds already handed out by SaveVote
  proposer,    \* state of each proposal request
  voter,       \* state of each vote request (pc and the locals of Handle)
  dispatched   \* history: every MultiSignInvoke call, in order

vars == <<ballot, policy, used, proposer, voter, dispatched>>

Ballots(m) == {o \in Orgs : ballot[m][o] # None}

Approvers(m) == {o \in Ballots(m) : ballot[m][o].result = VOTE_PASS}

TypeOK ==
  /\ ballot \in [MultiIds -> [Orgs -> BallotRec \union {None}]]
  /\ policy \in Policies
  /\ used \subseteq MultiIds
  /\ proposer \in [Proposers -> [pc : {"idle", "create", "done"},
                                 m : MultiIds \union {None},
                                 k : 1..Len(ChainOrgList) + 1]]
  /\ voter \in [Voters -> [pc : {"idle", "save", "tally", "complete", "invoke", "done"},
                           m : MultiIds \union {None},
                           o : Orgs \union {None},
                           val : VoteResults \union {None},
                           snap : BallotRec \union {None},
                           pol : Policies \union {None},
                           pass : SUBSET Orgs]]
  /\ dispatched \in Seq([m : MultiIds, orgs : SUBSET Orgs])

Init ==
  /\ ballot = [m \in MultiIds |-> [o \in Orgs |-> None]]
  /\ policy \in Policies
  /\ used = {}
  /\ proposer = [p \in Proposers |-> [pc |-> "idle", m |-> None, k |-> 1]]
  /\ voter = [v \in Voters |-> [pc |-> "idle", m |-> None, o |-> None, val |-> None,
                                snap |-> None, pol |-> None, pass |-> {}]]
  /\ dispatched = << >>

\* No request is between two of its database calls.
AllReturned ==
  /\ \A p \in Proposers : proposer[p].pc \in {"idle", "done"}
  /\ \A v \in Voters : voter[v].pc \in {"idle", "done"}

CanStart == SerialRequests => AllReturned

SetPc(v, pc) == [voter EXCEPT ![v].pc = pc]

(***************************************************************************)
(* SaveVote: the client-pool, org-name, message, policy and org-list       *)
(* lookups are reads; then rand.Int() names the proposal.                  *)
(***************************************************************************)
StartSaveVote(p, m) ==
  /\ proposer[p].pc = "idle"
  /\ CanStart
  /\ m \notin used
  /\ used' = used \union {m}
  /\ proposer' = [proposer EXCEPT ![p] = [pc |-> "create", m |-> m, k |-> 1]]
  /\ UNCHANGED <<ballot, policy, voter, dispatched>>

\* One db.CreateVote: the row of the k-th organisation, not yet voted.
CreateVote(p) ==
  LET m == proposer[p].m
      k == proposer[p].k
  IN /\ proposer[p].pc = "create"
     /\ ballot' = [ballot EXCEPT ![m][ChainOrgList[k]] = [result |-> 0, status |-> 0]]
     /\ proposer' = [proposer EXCEPT ![p].k = k + 1,
                                     ![p].pc = IF k = Len(ChainOrgList) THEN "done" ELSE "create"]
     /\ UNCHANGED <<policy, used, voter, dispatched>>

\* db.CreateVote returns an error: SaveVote returns, the rows already
\* inserted stay.
CreateVoteFails(p) ==
  /\ CreateVoteMayFail
  /\ proposer[p].pc = "create"
  /\ proposer' = [proposer EXCEPT ![p].pc = "done"]
  /\ UNCHANGED <<ballot, policy, used, voter, dispatched>>

(***************************************************************************)
(* VoteHandler.Handle.                                                     *)
(***************************************************************************)
\* GetVoteManagementById, then the VoteStatus == 1 and VoteResult != 0
\* checks on the row just read: the request is refused.
VoteRefused(v, m, o) ==
  /\ voter[v].pc = "idle"
  /\ CanStart
  /\ ballot[m][o] # None
  /\ ballot[m][o].status = 1 \/ ballot[m][o].result # 0
  /\ voter' = [voter EXCEPT ![v] = [@ EXCEPT !.pc = "done", !.m = m, !.o = o]]
  /\ UNCHANGED <<ballot, policy, used, proposer, dispatched>>

\* Variant: the VoteStatus == 1 check is dropped.
ReadVoteNoStatusCheck(v, m, o, val) ==
  /\ voter[v].pc = "idle"
  /\ CanStart
  /\ ballot[m][o] # None
  /\ ballot[m][o].result = 0
  /\ voter' = [voter EXCEPT ![v] = [pc |-> "save", m |-> m, o |-> o, val |-> val,
                                    snap |-> ballot[m][o], pol |-> policy, pass |-> {}]]
  /\ UNCHANGED <<ballot, policy, used, proposer, dispatched>>

\* GetVoteManagementById, GetChainPolicy and the checks pass: the row and
\* the policy are kept in locals until the save.
ReadVote(v, m, o, val) ==
  /\ voter[v].pc = "idle"
  /\ CanStart
  /\ ballot[m][o] # None
  /\ ballot[m][o].status = 0
  /\ ballot[m][o].result = 0
  /\ voter' = [voter EXCEPT ![v] = [pc |-> "save", m |-> m, o |-> o, val |-> val,
                                    snap |-> ballot[m][o], pol |-> policy, pass |-> {}]]
  /\ UNCHANGED <<ballot, policy, used, proposer, dispatched>>

\* Variant: a partial struct is saved, the row loses its VoteStatus.
SaveBallotPartialRow(v) ==
  LET r == voter[v]
  IN /\ r.pc = "save"
     /\ ballot' = [ballot EXCEPT ![r.m][r.o] = [result |-> r.val]]
     /\ voter' = SetPc(v, "tally")
     /\ UNCHANGED <<policy, used, proposer, dispatched>>

\* connection.DB.Save(&vote) writes the whole row read before, with the
\* new VoteResult.
SaveBallot(v) ==
  LET r == voter[v]
  IN /\ r.pc = "save"
     /\ ballot' = [ballot EXCEPT ![r.m][r.o] = [r.snap EXCEPT !.result = r.val]]
     /\ voter' = SetPc(v, "tally")
     /\ UNCHANGED <<policy, used, proposer, dispatched>>

\* Variant: the tally asks for more approvals than required (> for >=).
TallyPassesStrict(v) ==
  LET r == voter[v]
      need == RequiredApprovals(Cardinality(Ballots(r.m)), r.pol)
  IN /\ r.pc = "tally"
     /\ need > 0
     /\ Cardinality(Approvers(r.m)) > need
     /\ voter' = [voter EXCEPT ![v].pc = "complete", ![v].pass = Approvers(r.m)]
     /\ UNCHANGED <<ballot, policy, used, proposer, dispatched>>

\* Variant: the tally counts every answered row, rejections included.
TallyPassesCountsAnswered(v) ==
  LET r == voter[v]
      need == RequiredApprovals(Cardinality(Ballots(r.m)), r.pol)
      answered == {o \in Ballots(r.m) : ballot[r.m][o].result # 0}
  IN /\ r.pc = "tally"
     /\ need > 0
     /\ Cardinality(answered) >= need
     /\ voter' = [voter EXCEPT ![v].pc = "complete", ![v].pass = answered]
     /\ UNCHANGED <<ballot, policy, used, proposer, dispatched>>

\* GetVotedOrgListByMultiId and GetPassedVoteCnt on the policy read before.
TallyPasses(v) ==
  LET r == voter[v]
      need == RequiredApprovals(Cardinality(Ballots(r.m)), r.pol)
  IN /\ r.pc = "tally"
     /\ need > 0
     /\ Cardinality(Approvers(r.m)) >= need
     /\ voter' = [voter EXCEPT ![v].pc = "complete", ![v].pass = Approvers(r.m)]
     /\ UNCHANGED <<ballot, policy, used, proposer, dispatched>>

\* Forbidden (0), misconfigured (< 0) or not enough approvals yet.
TallyStops(v) ==
  LET r == voter[v]
      need == RequiredApprovals(Cardinality(Ballots(r.m)), r.pol)
  IN /\ r.pc = "tally"
     /\ need <= 0 \/ Cardinality(Approvers(r.m)) < need
     /\ voter' = SetPc(v, "done")
     /\ UNCHANGED <<ballot, policy, used, proposer, dispatched>>

\* db.SetMultiIdVotedCompleted: every row of the multiId gets VoteStatus 1.
SetMultiIdVotedCompleted(v) ==
  LET m == voter[v].m
  IN /\ voter[v].pc = "complete"
     /\ ballot' = [ballot EXCEPT ![m] = [o \in Orgs |->
                     IF ballot[m][o] = None THEN None
                     ELSE [ballot[m][o] EXCEPT !.status = 1]]]
     /\ voter' = SetPc(v, "invoke")
     /\ UNCHANGED <<policy, used, proposer, dispatched>>

\* multi_sign.MultiSignInvoke(vote.Params, ..., passOrgs, ...).
MultiSignInvoke(v) ==
  /\ voter[v].pc = "invoke"
  /\ dispatched' = Append(dispatched, [m |-> voter[v].m, orgs |-> voter[v].pass])
  /\ voter' = SetPc(v, "done")
  /\ UNCHANGED <<ballot, policy, used, proposer>>

\* Every request has returned and no new one arrives: the server idles.
Idle ==
  /\ AllReturned
  /\ UNCHANGED vars

Next ==
  \/ \E p \in Proposers, m \in MultiIds : StartSaveVote(p, m)
  \/ \E p \in Proposers : CreateVote(p) \/ CreateVoteFails(p)
  \/ \E v \in Voters, m \in MultiIds, o \in Orgs :
        \/ VoteRefused(v, m, o)
        \/ \E val \in VoteResults : ReadVote(v, m, o, val)
  \/ \E v \in Voters :
        \/ SaveBallot(v) \/ TallyPasses(v) \/ TallyStops(v)
        \/ SetMultiIdVotedCompleted(v) \/ MultiSignInvoke(v)
  \/ Idle

(***************************************************************************)
(* A request's goroutine, once started, keeps running: its database calls  *)
(* return.  Starting a request is up to the users and is not fair.         *)
(***************************************************************************)
Fairness ==
  /\ \A p \in Proposers : WF_vars(CreateVote(p))
  /\ \A v \in Voters : WF_vars(SaveBallot(v) \/ TallyPasses(v) \/ TallyStops(v)
                               \/ SetMultiIdVotedCompleted(v) \/ MultiSignInvoke(v))

Spec == Init /\ [][Next]_vars /\ Fairness

(***************************************************************************)
(* Properties.                                                             *)
(***************************************************************************)
Dispatches(m) == {i \in 1..Len(dispatched) : dispatched[i].m = m}

\* A proposal reaches MultiSignInvoke at most once (spec 4.4, step 3): the
\* VoteStatus check of VoteHandler.Handle and SetMultiIdVotedCompleted are
\* what stop a later vote from dispatching the multiId again.
AtMostOneDispatch == \A m \in MultiIds : Cardinality(Dispatches(m)) <= 1

\* SaveVote for multiId m has returned.
Proposed(m) == m \in used /\ \A p \in Proposers : proposer[p].m = m => proposer[p].pc = "done"

\* A proposal whose rows all approve, under a policy that lets it pass, is
\* eventually handed to MultiSignInvoke: whichever vote request saves last
\* sees every approval when it tallies.
PassedProposalDispatched ==
  \A m \in MultiIds :
     (/\ Proposed(m)
      /\ Ballots(m) # {}
      /\ Approvers(m) = Ballots(m)
      /\ RequiredApprovals(Cardinality(Ballots(m)), policy) > 0)
     ~> Dispatches(m) # {}

(***************************************************************************)
(* Refinement of VoteAbstract.  A ballot's abstract answer is its row's    *)
(* VoteResult; a proposal is closed once SetMultiIdVotedCompleted has set  *)
(* VoteStatus on its rows; the dispatches are the MultiSignInvoke calls.   *)
(***************************************************************************)
AbsBallot == [m \in MultiIds |-> [o \in Orgs |->
                IF ballot[m][o] = None THEN None ELSE ballot[m][o].result]]

AbsClosed == [m \in MultiIds |-> \E o \in Ballots(m) : ballot[m][o].status = 1]

AV == INSTANCE VoteAbstract
        WITH abal <- AbsBallot, closed <- AbsClosed, adisp <- dispatched

\* Served one request at a time, the vote implements what spec 3 and 4.4
\* promise: an answer is given once and only while the proposal is open,
\* the proposal closes only when its approvals meet the policy, it is
\* dispatched once after closing with exactly its approvers, and a proposal
\* that passes is eventually closed and dispatched.  It takes the VoteStatus
\* check, the save of the row read, the tally and SetMultiIdVotedCompleted
\* before MultiSignInvoke, in this order, to hold.
VoteRefinement == AV!ASpec

=============================================================================
