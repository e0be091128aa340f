------------------------------ MODULE Cw3Fixed ------------------------------
(***************************************************************************)
(* contracts/cw3-fixed-multisig: proposals, ballots and verdicts over a    *)
(* fixed set of voters.  A transaction is atomic, so each execute message  *)
(* is one action; an error or a panic reverts it, so its conditions are    *)
(* guards.  Between transactions blocks pass (NextBlock).                  *)
(***************************************************************************)
EXTENDS Proposal, Ballots, Sequences

CONSTANTS VoterLists,    \* voter lists instantiate may be called with
          Thresholds,    \* thresholds instantiate may be called with
          Periods,       \* values of max_voting_period, in blocks
          Latest,        \* expirations a proposer may ask for
          None,          \* "latest" not given
          MaxProposals,  \* bound on the number of proposals
          MaxHeight      \* bound on the block height

ASSUME ListsAssumption ==
  \A list \in VoterLists : list \in Seq([addr: Addr, weight: Nat])
ASSUME ConfigAssumption ==
  /\ \A t \in Thresholds : t \in Threshold
  /\ \A d \in Periods : d \in Nat
  /\ \A h \in Latest : h \in Nat

VARIABLES cfg,          \* CONFIG
          voters,       \* VOTERS: a map from some accounts to weights
          proposals,    \* PROPOSALS: ids are 1..PROPOSAL_COUNT
          ballots,      \* BALLOTS[id]: NoBallot for those who have not voted
          height,       \* env.block
          dispatched    \* how often the messages of id were sent (history)

vars == <<cfg, voters, proposals, ballots, height, dispatched>>

Config == [threshold: Threshold, total_weight: Nat, max_voting_period: Nat]

ProposalRecord == [expires: Nat, status: Status, threshold: Threshold,
                   total_weight: Nat, votes: Votes, proposer: Addr]

(* Every voter is saved under its address: of duplicates the last one wins. *)
SavedVoters(list) ==
  [a \in {list[i].addr : i \in 1..Len(list)} |->
     list[CHOOSE i \in 1..Len(list) :
            /\ list[i].addr = a
            /\ \A j \in 1..Len(list) : list[j].addr = a => j <= i].weight]

ListWeight(list) == Total([i \in 1..Len(list) |-> list[i].weight])

instantiate(list, threshold, period) ==
  /\ list # <<>>
  /\ validate(threshold, ListWeight(list))
  /\ cfg = [threshold |-> threshold, total_weight |-> ListWeight(list),
            max_voting_period |-> period]
  /\ voters = SavedVoters(list)

Init ==
  /\ \E list \in VoterLists, t \in Thresholds, d \in Periods : instantiate(list, t, d)
  /\ proposals = <<>>
  /\ ballots = <<>>
  /\ dispatched = <<>>
  /\ height = 0

-----------------------------------------------------------------------------
ProposalIds == 1..Len(proposals)

(* Mutant of Expires: what the proposer asks for is not clamped. *)
as_asked(latest) ==
  IF latest = None THEN height + cfg.max_voting_period ELSE latest

(* latest, or the default, but never beyond the maximal voting period.     *)
Expires(latest) ==
  LET max_expires == height + cfg.max_voting_period
  IN  IF latest = None THEN max_expires
      ELSE IF latest > max_expires THEN max_expires ELSE latest

NewProposal(sender, latest) ==
  [expires |-> Expires(latest), status |-> "open", threshold |-> cfg.threshold,
   total_weight |-> cfg.total_weight, votes |-> votes_yes(voters[sender]),
   proposer |-> sender]

(* The proposer may vote with weight 0; the ballot is a yes.               *)
execute_propose(sender, latest) ==
  /\ Len(proposals) < MaxProposals
  /\ height + cfg.max_voting_period <= MaxHeight
  /\ sender \in DOMAIN voters
  /\ ~ Panics(NewProposal(sender, latest), height)
  /\ proposals' = Append(proposals, update_status(NewProposal(sender, latest), height))
  /\ ballots' = Append(ballots, SaveBallot(NoBallots, sender, voters[sender], "yes"))
  /\ dispatched' = Append(dispatched, 0)
  /\ UNCHANGED <<cfg, voters, height>>

(* Mutant of CanVote: the voter may have voted before. *)
may_vote_again(sender, id) ==
  /\ sender \in DOMAIN voters
  /\ voters[sender] >= 1
  /\ proposals[id].status \in {"open", "passed", "rejected"}
  /\ ~ is_expired(proposals[id], height)

(* Passed and rejected proposals can be voted on too, until they expire.   *)
CanVote(sender, id) ==
  /\ sender \in DOMAIN voters
  /\ voters[sender] >= 1
  /\ proposals[id].status \in {"open", "passed", "rejected"}
  /\ ~ is_expired(proposals[id], height)
  /\ ballots[id][sender] = NoBallot

WithVote(sender, id, vote) ==
  [proposals[id] EXCEPT !.votes = add_vote(@, vote, voters[sender])]

execute_vote(sender, id, vote) ==
  /\ CanVote(sender, id)
  /\ ~ Panics(WithVote(sender, id, vote), height)
  /\ ballots' = [ballots EXCEPT ![id] = SaveBallot(@, sender, voters[sender], vote)]
  /\ proposals' = [proposals EXCEPT
       ![id] = update_status(WithVote(sender, id, vote), height)]
  /\ UNCHANGED <<cfg, voters, height, dispatched>>

(* Anyone may execute.  If a dispatched message fails the transaction is   *)
(* reverted, so this is the step in which all of them succeed.             *)
execute_execute(id) ==
  /\ ~ Panics(proposals[id], height)
  /\ current_status(proposals[id], height) = "passed"
  /\ proposals' = [proposals EXCEPT ![id].status = "executed"]
  /\ dispatched' = [dispatched EXCEPT ![id] = @ + 1]
  /\ UNCHANGED <<cfg, voters, ballots, height>>

(* Mutant of CanClose: the reported status is compared, not the stored one. *)
open_in_queries(id) ==
  /\ current_status(proposals[id], height) = "open"
  /\ is_expired(proposals[id], height)

CanClose(id) ==
  /\ proposals[id].status \notin {"executed", "rejected", "passed"}
  /\ ~ Panics(proposals[id], height)
  /\ current_status(proposals[id], height) # "passed"
  /\ is_expired(proposals[id], height)

execute_close(id) ==
  /\ CanClose(id)
  /\ proposals' = [proposals EXCEPT ![id].status = "rejected"]
  /\ UNCHANGED <<cfg, voters, ballots, height, dispatched>>

NextBlock ==
  /\ height < MaxHeight
  /\ height' = height + 1
  /\ UNCHANGED <<cfg, voters, proposals, ballots, dispatched>>

Next ==
  \/ \E sender \in Addr, latest \in Latest \cup {None} : execute_propose(sender, latest)
  \/ \E sender \in Addr, id \in ProposalIds, vote \in Vote : execute_vote(sender, id, vote)
  \/ \E id \in ProposalIds : execute_execute(id)
  \/ \E id \in ProposalIds : execute_close(id)
  \/ NextBlock

Spec == Init /\ [][Next]_vars

(* Blocks keep coming, and somebody executes what has passed and closes    *)
(* what has expired: both are open to everyone.                            *)
Fairness ==
  /\ WF_vars(NextBlock)
  /\ \A id \in 1..MaxProposals :
       /\ WF_vars(id \in ProposalIds /\ execute_execute(id))
       /\ WF_vars(id \in ProposalIds /\ execute_close(id))

FairSpec == Spec /\ Fairness

-----------------------------------------------------------------------------
(* The storage of the contract is well formed, and every proposal has its  *)
(* ballots and its own count of dispatches.                                *)
StorageOK ==
  /\ cfg \in Config
  /\ voters \in [DOMAIN voters -> Nat] /\ DOMAIN voters \subseteq Addr
  /\ height \in Nat
  /\ proposals \in Seq(ProposalRecord)
  /\ ballots \in Seq([Addr -> Ballot \cup {NoBallot}])
  /\ dispatched \in Seq(Nat)
  /\ Len(ballots) = Len(proposals) /\ Len(dispatched) = Len(proposals)

(* Type invariant, with the bound that max_voting_period is there for:     *)
(* whatever expiration its proposer asked for, no proposal is open for     *)
(* longer than one voting period from any moment of its life.              *)
TypeOK ==
  /\ StorageOK
  /\ \A id \in ProposalIds : proposals[id].expires <= height + cfg.max_voting_period

(* The running tally that execute_propose and execute_vote maintain is,    *)
(* for each option, the weight of the ballots stored for it, and it never  *)
(* exceeds the total weight the percentages are taken of.                  *)
TallyMatchesBallots ==
  \A id \in ProposalIds :
    /\ \A vote \in Vote : proposals[id].votes[vote] = Total(CastFor(ballots[id], vote))
    /\ votes_total(proposals[id].votes) <= proposals[id].total_weight

(* A stored verdict agrees with the tally at every later moment, although  *)
(* execute_vote keeps accepting votes on passed and rejected proposals and *)
(* the rule of a quorum threshold changes at the expiration.               *)
VerdictMatchesTally ==
  \A id \in ProposalIds :
    /\ proposals[id].status \in {"passed", "executed"} => is_passed(proposals[id], height)
    /\ proposals[id].status = "rejected" => ~ is_passed(proposals[id], height)

(* So the ballots decide: they make the tally, and the tally the verdict.  *)
VotesDecide == TallyMatchesBallots /\ VerdictMatchesTally

(* The comments on is_passed and is_rejected: once "sure to pass" or "sure *)
(* to be rejected", no vote or block to come changes that.                 *)
SureStep ==
  \A id \in ProposalIds :
    /\ is_passed(proposals[id], height) => is_passed(proposals'[id], height')
    /\ is_rejected(proposals[id], height) => is_rejected(proposals'[id], height')
VerdictsAreSure == [][SureStep]_vars

(* No admissible vote makes the subtractions of is_passed and is_rejected  *)
(* underflow, which would lock that voter out of the proposal.             *)
VotingNeverPanics ==
  \A sender \in Addr, id \in ProposalIds, vote \in Vote :
    CanVote(sender, id) => ~ Panics(WithVote(sender, id, vote), height)

(* The threshold check of instantiate is there to refuse a multisig that   *)
(* can pass nothing: when every voter with any weight has voted yes, the   *)
(* proposal has passed.  This takes a list of voters that repeats nobody,  *)
(* or the total weight is more than the voters have.                       *)
UnanimousYesPasses ==
  \A id \in ProposalIds :
    (Total(voters) = cfg.total_weight /\ \A a \in DOMAIN voters : voters[a] > 0 => ballots[id][a].vote = "yes")
      => current_status(proposals[id], height) \in {"passed", "executed"}

(* An expired proposal can be executed or closed, or that was done: its    *)
(* stored status, which execute_close looks at, never keeps it from both.  *)
NeverStuck ==
  \A id \in ProposalIds : is_expired(proposals[id], height) =>
    \/ proposals[id].status \in {"executed", "rejected"}
    \/ ~ Panics(proposals[id], height) /\ current_status(proposals[id], height) = "passed"
    \/ CanClose(id)

(* No voter is locked out of a vote and no proposal out of its conclusion. *)
NobodyLockedOut == VotingNeverPanics /\ NeverStuck

(* The contract implements the abstract lifecycle: through the status that *)
(* queries report, verdicts are final and messages are sent once.          *)
ReportedStatus == [id \in ProposalIds |-> current_status(proposals[id], height)]
LC == INSTANCE Lifecycle WITH phase <- ReportedStatus, sent <- dispatched
ImplementsLifecycle == LC!Spec

(* No proposal stays undecided or unexecuted for ever: every state in      *)
(* which one is left can still be executed or closed by somebody.          *)
EveryProposalSettles ==
  \A id \in 1..MaxProposals :
    id \in ProposalIds ~> (id \in ProposalIds /\ proposals[id].status \in {"executed", "rejected"})
=============================================================================
