------------------------------- MODULE Cw3Flex -------------------------------
(***************************************************************************)
(* contracts/cw3-flex-multisig on top of contracts/cw4-group: the voters   *)
(* and their weights are those of a group that its admin may edit at any   *)
(* time, also between two steps of one proposal and within one block.      *)
(* Proposing may cost a deposit (packages/cw3/src/deposit.rs), which the   *)
(* multisig holds among its own funds.                                     *)
(*                                                                         *)
(* The multisig reads the group by queries only: its MemberChangedHook     *)
(* handler changes nothing, so no hook is registered here.                 *)
(***************************************************************************)
EXTENDS Proposal, Ballots, Sequences

CONSTANTS GroupAdmin,    \* who may edit the group
          MemberLists,   \* members the group may start with or be given
          RemoveLists,   \* accounts that may be removed together
          Thresholds,    \* thresholds instantiate may be called with
          Periods,       \* values of max_voting_period, in blocks
          Executors,     \* values of executor
          Deposits,      \* values of proposal_deposit; amount 0 is None
          Latest,        \* expirations a proposer may ask for
          Spends,        \* what the messages of a proposal may pay out
          Purse,         \* the tokens every account starts with
          Treasury,      \* the tokens the multisig starts with
          None,          \* no latest, not a member
          MaxU64,        \* the largest u64
          MaxProposals,  \* bound on the number of proposals
          MaxFunded,     \* bound on the tokens sent to the multisig
          MaxHeight      \* bound on the block height

ASSUME FlexAssumption ==
  /\ \A t \in Thresholds : t \in Threshold
  /\ \A d \in Deposits : d \in [amount: Nat, refund_failed_proposals: BOOLEAN]
  /\ \A x \in Executors : x \in [kind: {"anyone", "member", "only"}, addr: Addr \cup {None}]
  /\ \A n \in Periods \cup Latest \cup Spends \cup {Purse, Treasury} : n \in Nat

VARIABLES members, total,   \* the group's storage
          height,           \* env.block.height
          cfg,              \* CONFIG
          proposals,        \* PROPOSALS
          ballots,          \* BALLOTS
          wallet,           \* the tokens of every account
          treasury,         \* the tokens of the multisig
          funded,           \* how many of them were sent to it (history)
          log               \* per proposal, what happened to it (history)

groupVars == <<members, total>>
multisigVars == <<cfg, proposals, ballots, wallet, treasury, funded, log>>
vars == <<members, total, height, cfg, proposals, ballots, wallet, treasury, funded, log>>

Group == INSTANCE Cw4Group WITH
           admin <- GroupAdmin, Admins <- {GroupAdmin},
           Subscribers <- {}, hooks <- {}, mirror <- <<>>

ASSUME MembersAssumption == Group!GroupAssumption

(* Cw4Contract: raw queries read the present, smart queries a snapshot.    *)
is_member(a) == members[a].now # None
total_weight == total.now
is_voting_member(a, at_height) ==
  Group!query_member(a, at_height) # None /\ Group!query_member(a, at_height) >= 1

instantiate(t, period, executor, deposit) ==
  /\ validate(t, total_weight)
  /\ cfg = [threshold |-> t, max_voting_period |-> period, executor |-> executor,
            deposit |-> deposit]

Init ==
  /\ height = 0
  /\ \E list \in MemberLists : Group!create(list, GroupAdmin)
  /\ \E t \in Thresholds, d \in Periods, x \in Executors, dep \in Deposits :
       instantiate(t, d, x, dep)
  /\ proposals = <<>> /\ ballots = <<>> /\ log = <<>>
  /\ wallet = [a \in Addr |-> Purse]
  /\ treasury = Treasury /\ funded = 0

-----------------------------------------------------------------------------
ProposalIds == 1..Len(proposals)

(* Mutant of Expires: what the proposer asks for is not clamped. *)
as_asked(latest) ==
  IF latest = None THEN height + cfg.max_voting_period ELSE latest

Expires(latest) ==
  LET max_expires == height + cfg.max_voting_period
  IN  IF latest = None THEN max_expires
      ELSE IF latest > max_expires THEN max_expires ELSE latest

(* The weight of the proposer and the total weight are the present ones.   *)
NewProposal(sender, latest, spend) ==
  [start_height |-> height, expires |-> Expires(latest), spend |-> spend,
   status |-> "open", votes |-> votes_yes(members[sender].now),
   threshold |-> cfg.threshold, total_weight |-> total_weight, proposer |-> sender]

(* The group has not been edited in this block before the proposal.        *)
Unedited == \A a \in Addr : members[a].now = Group!query_member(a, height)

(* A native deposit comes with the message, one in cw20 tokens is fetched  *)
(* by TransferFrom; the transaction fails unless the proposer can pay it.  *)
take_deposit(sender) ==
  /\ wallet[sender] >= cfg.deposit.amount
  /\ wallet' = [wallet EXCEPT ![sender] = @ - cfg.deposit.amount]
  /\ treasury' = treasury + cfg.deposit.amount

execute_propose(sender, latest, spend) ==
  /\ Len(proposals) < MaxProposals
  /\ height + cfg.max_voting_period <= MaxHeight
  /\ is_member(sender)
  /\ ~ Panics(NewProposal(sender, latest, spend), height)
  /\ proposals' = Append(proposals, update_status(NewProposal(sender, latest, spend), height))
  /\ ballots' = Append(ballots, SaveBallot(NoBallots, sender, members[sender].now, "yes"))
  /\ take_deposit(sender)
  /\ log' = Append(log, [settled |-> Unedited, sent |-> 0, returned |-> 0])
  /\ UNCHANGED <<members, total, height, cfg, funded>>

(* Mutant of VotePower: the present weight. *)
present_power(sender, id) == Group!WeightOf(members[sender].now)

(* The weight of a voter is the one at the start of the proposal's block.  *)
VotePower(sender, id) == Group!query_member(sender, proposals[id].start_height)

CanVote(sender, id) ==
  /\ proposals[id].status \in {"open", "passed", "rejected"}
  /\ ~ is_expired(proposals[id], height)
  /\ is_voting_member(sender, proposals[id].start_height)
  /\ ballots[id][sender] = NoBallot

WithVote(sender, id, vote) ==
  [proposals[id] EXCEPT !.votes = add_vote(@, vote, VotePower(sender, id))]

execute_vote(sender, id, vote) ==
  /\ CanVote(sender, id)
  /\ ~ Panics(WithVote(sender, id, vote), height)
  /\ ballots' = [ballots EXCEPT ![id] = SaveBallot(@, sender, VotePower(sender, id), vote)]
  /\ proposals' = [proposals EXCEPT
       ![id] = update_status(WithVote(sender, id, vote), height)]
  /\ UNCHANGED <<members, total, height, cfg, wallet, treasury, funded, log>>

(* Mutant of authorize: whoever executes must be a member. *)
members_only(sender) ==
  /\ is_member(sender)
  /\ cfg.executor.kind = "only" => sender = cfg.executor.addr

(* Membership is that of the present, not of the proposal's start.         *)
authorize(sender) ==
  CASE cfg.executor.kind = "anyone" -> TRUE
    [] cfg.executor.kind = "member" -> is_member(sender)
    [] cfg.executor.kind = "only" -> sender = cfg.executor.addr

(* Give the deposit of id back and pay out what its messages ask for; the  *)
(* transaction fails if the funds do not suffice.                          *)
Pay(id, back, spend) ==
  /\ treasury >= back + spend
  /\ treasury' = treasury - back - spend
  /\ wallet' = [wallet EXCEPT ![proposals[id].proposer] = @ + back]

execute_execute(sender, id) ==
  /\ ~ Panics(proposals[id], height)
  /\ current_status(proposals[id], height) = "passed"
  /\ authorize(sender)
  /\ proposals' = [proposals EXCEPT ![id].status = "executed"]
  /\ Pay(id, cfg.deposit.amount, proposals[id].spend)
  /\ log' = [log EXCEPT ![id].sent = @ + 1, ![id].returned = @ + 1]
  /\ UNCHANGED <<members, total, height, cfg, ballots, funded>>

(* Mutants of CanClose: the reported status is compared instead of the     *)
(* stored one, and no status is compared.                                  *)
open_in_queries(id) ==
  /\ current_status(proposals[id], height) = "open"
  /\ is_expired(proposals[id], height)
whatever_the_status(id) ==
  /\ current_status(proposals[id], height) # "passed"
  /\ is_expired(proposals[id], height)

CanClose(id) ==
  /\ proposals[id].status \notin {"executed", "rejected", "passed"}
  /\ ~ Panics(proposals[id], height)
  /\ current_status(proposals[id], height) # "passed"
  /\ is_expired(proposals[id], height)

execute_close(id) ==
  /\ CanClose(id)
  /\ proposals' = [proposals EXCEPT ![id].status = "rejected"]
  /\ IF cfg.deposit.refund_failed_proposals
       THEN Pay(id, cfg.deposit.amount, 0) /\ log' = [log EXCEPT ![id].returned = @ + 1]
       ELSE UNCHANGED <<wallet, treasury, log>>
  /\ UNCHANGED <<members, total, height, cfg, ballots, funded>>

-----------------------------------------------------------------------------
EditGroup(list, remove) ==
  /\ Group!update_members(GroupAdmin, list, remove)
  /\ UNCHANGED height
  /\ UNCHANGED multisigVars

(* Somebody outside sends tokens to the multisig. *)
Fund ==
  /\ funded < MaxFunded
  /\ treasury' = treasury + 1 /\ funded' = funded + 1
  /\ UNCHANGED <<members, total, height, cfg, proposals, ballots, wallet, log>>

NextBlock ==
  /\ height < MaxHeight
  /\ height' = height + 1
  /\ UNCHANGED groupVars
  /\ UNCHANGED multisigVars

Next ==
  \/ \E sender \in Addr, latest \in Latest \cup {None}, spend \in Spends :
       execute_propose(sender, latest, spend)
  \/ \E sender \in Addr, id \in ProposalIds, vote \in Vote : execute_vote(sender, id, vote)
  \/ \E sender \in Addr, id \in ProposalIds : execute_execute(sender, id)
  \/ \E id \in ProposalIds : execute_close(id)
  \/ \E list \in MemberLists, remove \in RemoveLists : EditGroup(list, remove)
  \/ Fund
  \/ NextBlock

Spec == Init /\ [][Next]_vars

(* Blocks keep coming; whoever may execute a passed proposal, or close an  *)
(* expired one, does so if it stays possible; and who wants it to be       *)
(* possible sends the funds it needs.                                      *)
Fairness ==
  /\ WF_vars(NextBlock)
  /\ WF_vars(Fund)
  /\ \A id \in 1..MaxProposals :
       /\ WF_vars(id \in ProposalIds /\ \E sender \in Addr : execute_execute(sender, id))
       /\ WF_vars(id \in ProposalIds /\ execute_close(id))

FairSpec == Spec /\ Fairness

-----------------------------------------------------------------------------
ProposalRecord ==
  [start_height: Nat, expires: Nat, spend: Nat, status: Status, votes: Votes,
   threshold: Threshold, total_weight: Nat, proposer: Addr]

(* Type invariant of the multisig's storage; the group has its own.  It    *)
(* includes the bound that max_voting_period is there for: whatever        *)
(* expiration its proposer asked for, no proposal is open for longer than  *)
(* one voting period from any moment of its life.                          *)
TypeOK ==
  /\ \A id \in ProposalIds : proposals[id] \in ProposalRecord
  /\ Len(ballots) = Len(proposals) /\ Len(log) = Len(proposals)
  /\ \A id \in ProposalIds : ballots[id] \in [Addr -> Ballot \cup {NoBallot}]
  /\ wallet \in [Addr -> Nat] /\ treasury \in Nat
  /\ \A id \in ProposalIds : proposals[id].expires <= height + cfg.max_voting_period

(* However the group is edited afterwards, the tally is the sum of the     *)
(* ballots, and every ballot but the proposer's has the weight its voter   *)
(* had when the block of the proposal began.                               *)
BallotsFollowSnapshot ==
  \A id \in ProposalIds :
    /\ \A vote \in Vote : proposals[id].votes[vote] = Total(CastFor(ballots[id], vote))
    /\ \A a \in Addr \ {proposals[id].proposer} :
         ballots[id][a] # NoBallot =>
           ballots[id][a].weight = Group!query_member(a, proposals[id].start_height)

(* The votes counted fit into the total weight the verdict is taken of:    *)
(* "use a snapshot of start of proposal".                                  *)
TallyFits == \A id \in ProposalIds : votes_total(proposals[id].votes) <= proposals[id].total_weight

(* They do if the group was not edited earlier in the block in which the   *)
(* proposal was made, whatever happens to the group later.                 *)
TallyFitsIfSettled ==
  \A id \in ProposalIds :
    log[id].settled => votes_total(proposals[id].votes) <= proposals[id].total_weight

(* For such a proposal a stored verdict agrees with the tally at every     *)
(* later moment, although votes are still accepted on it, the rule of a    *)
(* quorum threshold changes at the expiration, and the group is edited.    *)
VerdictMatchesTally ==
  \A id \in ProposalIds : log[id].settled =>
    /\ proposals[id].status \in {"passed", "executed"} => is_passed(proposals[id], height)
    /\ proposals[id].status = "rejected" => ~ is_passed(proposals[id], height)

(* So the ballots of those who were members at the start decide: they make *)
(* the tally, and the tally the verdict, with nothing that the group is    *)
(* changed to afterwards.                                                  *)
VotesDecide == BallotsFollowSnapshot /\ TallyFitsIfSettled /\ VerdictMatchesTally

(* Once sure to pass or sure to be rejected it stays so, whoever joins,    *)
(* leaves or gains weight in between.                                      *)
SureStep ==
  \A id \in ProposalIds : log[id].settled =>
    /\ is_passed(proposals[id], height) => is_passed(proposals'[id], height')
    /\ is_rejected(proposals[id], height) => is_rejected(proposals'[id], height')
VerdictsAreSure == [][SureStep]_vars

(* None of its voters is locked out by an underflow in the verdict, also   *)
(* when an absolute threshold has become more than the group weighs.       *)
VotingNeverPanics ==
  \A sender \in Addr, id \in ProposalIds, vote \in Vote :
    log[id].settled /\ CanVote(sender, id) => ~ Panics(WithVote(sender, id, vote), height)

(* It passes when everyone who had any weight at its start votes yes:      *)
(* those who joined since do not count, and those who left still do.       *)
UnanimousYesPasses ==
  \A id \in ProposalIds :
    (log[id].settled
      /\ \A a \in Addr : is_voting_member(a, proposals[id].start_height) => ballots[id][a].vote = "yes")
      => current_status(proposals[id], height) \in {"passed", "executed"}

(* Of every proposal, however the group was edited and the tally exceeds   *)
(* its total weight: when it has expired, it can be executed or closed, or *)
(* that was done.                                                          *)
NeverStuck ==
  \A id \in ProposalIds : is_expired(proposals[id], height) =>
    \/ proposals[id].status \in {"executed", "rejected"}
    \/ ~ Panics(proposals[id], height) /\ current_status(proposals[id], height) = "passed"
    \/ CanClose(id)

(* No voter is locked out of a vote and no proposal out of its conclusion. *)
NobodyLockedOut == VotingNeverPanics /\ NeverStuck

Sum(S, F(_)) == Total([x \in S |-> F(x)])

(* Every deposit is held until it is returned, to the proposer, at most    *)
(* once, and never for a failed proposal without a refund; the funds of    *)
(* the multisig are otherwise spent by executed proposals only.            *)
DepositsAccounted ==
  LET Held(id) == cfg.deposit.amount * (1 - log[id].returned)
      Spent(id) == proposals[id].spend * log[id].sent
      Owed(a) == cfg.deposit.amount *
                   Cardinality({id \in ProposalIds : proposals[id].proposer = a /\ log[id].returned = 0})
  IN  /\ \A id \in ProposalIds :
           /\ log[id].returned <= 1
           /\ log[id].returned = 1 =>
                \/ proposals[id].status = "executed"
                \/ proposals[id].status = "rejected" /\ cfg.deposit.refund_failed_proposals
      /\ treasury + Sum(ProposalIds, Spent) = Treasury + funded + Sum(ProposalIds, Held)
      /\ \A a \in Addr : wallet[a] + Owed(a) = Purse

(* The flex multisig implements the same abstract lifecycle as the fixed   *)
(* one, for whatever the group does meanwhile.                             *)
ReportedStatus == [id \in ProposalIds |-> current_status(proposals[id], height)]
Dispatched == [id \in ProposalIds |-> log[id].sent]
LC == INSTANCE Lifecycle WITH phase <- ReportedStatus, sent <- Dispatched
ImplementsLifecycle == LC!Spec

(* No edit of the group, no executor and no spending of funds that hold    *)
(* the deposits of others leaves a proposal that can never be settled: it  *)
(* takes a group without members that alone may execute.                   *)
EveryProposalSettles ==
  \A id \in 1..MaxProposals :
    id \in ProposalIds ~>
      \/ id \in ProposalIds /\ proposals[id].status \in {"executed", "rejected"}
      \/ cfg.executor.kind = "member" /\ ~ \E a \in Addr : is_member(a)

(* With refund_failed_proposals the deposit of every proposal is returned  *)
(* in the end: of a passed one when executed, of a failed one when closed. *)
DepositsComeBack ==
  \A id \in 1..MaxProposals :
    (id \in ProposalIds /\ cfg.deposit.refund_failed_proposals)
      ~> (id \in ProposalIds /\ log[id].returned = 1)
=============================================================================
