--------------------------- MODULE Cw3Flex_proofs ---------------------------
(***************************************************************************)
(* The flex multisig on a group that is edited at any time, for every set  *)
(* of accounts, member lists, thresholds, periods, deposits and numbers of *)
(* proposals.  What is proved of the group alone is cited from GP, the     *)
(* theorems on Cw4Group for the group of this multisig; what is proved of  *)
(* ballots and of the status of a proposal, in which no voter list occurs, *)
(* from FP, the theorems on the fixed multisig, with an empty list.        *)
(***************************************************************************)
EXTENDS Cw3Flex, Data_proofs

GP == INSTANCE Cw4Group_proofs WITH
        admin <- GroupAdmin, Admins <- {GroupAdmin},
        Subscribers <- {}, hooks <- {}, mirror <- <<>>

FP == INSTANCE Cw3Fixed_proofs WITH
        VoterLists <- {}, voters <- <<>>, dispatched <- <<>>

-----------------------------------------------------------------------------
(* The group of the model, Group, and the one of the theorems, GP, are     *)
(* instances of the same module: their definitions say the same.           *)
LEMMA GroupFacts ==
  /\ GP!GroupAssumption
  /\ IsFiniteSet(Addr) /\ None \notin Nat
BY MembersAssumption, AddrAssumption
   DEF Group!GroupAssumption, GP!GroupAssumption, Group!IsFiniteSet, GP!IsFiniteSet

(* What Cw3Fixed assumes of its constants holds of these. *)
LEMMA FixedFacts ==
  /\ FP!DecimalAssumption /\ FP!PrecisionAssumption /\ FP!AddrAssumption
  /\ FP!ListsAssumption /\ FP!ConfigAssumption
BY DecimalAssumption, PrecisionAssumption, AddrAssumption, FlexAssumption
   DEF FP!DecimalAssumption, FP!PrecisionAssumption, FP!AddrAssumption, FP!IsFiniteSet, IsFiniteSet,
       FP!ListsAssumption, FP!ConfigAssumption,
       FP!Threshold, Threshold, FP!Percentage, Percentage

LEMMA SameTotal ==
  \A f : Group!Total(f) = Total(f) /\ GP!Total(f) = Total(f) /\ FP!Total(f) = Total(f)
BY DEF Group!Total, GP!Total, FP!Total, Total, Group!Units, GP!Units, FP!Units, Units,
       Group!Cardinality, GP!Cardinality, FP!Cardinality, Cardinality

LEMMA SameSnapshot ==
  /\ \A item, h : Group!AtHeight(item, h) = AtHeight(item, h) /\ GP!AtHeight(item, h) = AtHeight(item, h)
  /\ \A v : Group!Fresh(v) = GP!Fresh(v)
  /\ \A item, v : Group!Save(item, v) = GP!Save(item, v)
BY DEF Group!AtHeight, GP!AtHeight, AtHeight, Group!Min, GP!Min, Min,
       Group!Fresh, GP!Fresh, Group!Save, GP!Save, Group!Write, GP!Write

LEMMA SameWeight == \A w : GP!WeightOf(w) = Group!WeightOf(w)
BY DEF GP!WeightOf, Group!WeightOf

LEMMA SameList ==
  /\ \A list : GP!AsMap(list) = Group!AsMap(list)
  /\ \A list : GP!validate_unique_members(list) <=> Group!validate_unique_members(list)
  /\ \A f : GP!Range(f) = Group!Range(f)
BY DEF GP!AsMap, Group!AsMap, GP!validate_unique_members, Group!validate_unique_members,
       GP!Range, Group!Range

LEMMA SameSum == \A f, S : GP!SumOver(f, S) = Group!SumOver(f, S)
<1> SUFFICES ASSUME NEW f, NEW S PROVE GP!SumOver(f, S) = Group!SumOver(f, S) OBVIOUS
<1>1. [a \in S |-> GP!WeightOf(f[a])] = [a \in S |-> Group!WeightOf(f[a])] BY SameWeight
<1> QED BY <1>1, SameTotal DEF GP!SumOver, Group!SumOver

LEMMA SameUpdate ==
  ASSUME NEW list, NEW remove, Group!update_members(GroupAdmin, list, remove)
  PROVE  GP!update_members(GroupAdmin, list, remove)
<1> DEFINE add == Group!AsMap(list)
<1>1. GP!Current = Group!Current BY DEF GP!Current, Group!Current
<1>2. \A S : GP!RunningTotal(add, S) = Group!RunningTotal(add, S)
  BY <1>1, SameSum DEF GP!RunningTotal, Group!RunningTotal
<1>3. GP!WithAdded(add) = Group!WithAdded(add)
  BY <1>1 DEF GP!WithAdded, Group!WithAdded
<1>4. GP!Removed(add, remove) = Group!Removed(add, remove)
  BY <1>3, SameList DEF GP!Removed, Group!Removed
<1>5. GP!NewTotal(add, remove) = Group!NewTotal(add, remove)
  BY <1>2, <1>3, <1>4, SameSum DEF GP!NewTotal, Group!NewTotal
<1>6. GP!AddsFit(add) <=> Group!AddsFit(add)
  BY <1>1, <1>2, SameWeight DEF GP!AddsFit, Group!AddsFit
<1>7. GP!AsMap(list) = add BY SameList
<1> HIDE DEF add
<1> QED BY <1>4, <1>5, <1>6, <1>7, SameList, SameSnapshot
        DEF GP!update_members, Group!update_members, add
LEMMA SameCreate ==
  ASSUME NEW list, Group!create(list, GroupAdmin)
  PROVE  GP!create(list, GroupAdmin)
<1>1. /\ GP!AsMap(list) = Group!AsMap(list)
      /\ GP!validate_unique_members(list) <=> Group!validate_unique_members(list)
  BY SameList
<1> QED BY <1>1, SameSum, SameSnapshot DEF GP!create, Group!create

-----------------------------------------------------------------------------
(* Ballots and statuses, as in the proofs about the fixed multisig, whose  *)
(* definitions of them are the same.                                       *)
BallotMap == [Addr -> Ballot \cup {NoBallot}]

UpToDate(p, h) == ~ is_expired(p, h) => current_status(p, h) = p.status

KeepsVerdict(p, h, q, k) ==
  current_status(q, k) # current_status(p, h) =>
    current_status(p, h) = "open" /\ current_status(q, k) \in {"passed", "rejected"}

SameRules(p, q) ==
  /\ q.threshold = p.threshold /\ q.total_weight = p.total_weight
  /\ q.votes = p.votes /\ q.expires = p.expires

Reported(ps, h) == [id \in 1..Len(ps) |-> current_status(ps[id], h)]

LEMMA SameBallots ==
  /\ FP!Vote = Vote /\ FP!Votes = Votes
  /\ FP!Ballot = Ballot /\ FP!NoBallot = NoBallot /\ FP!NoBallots = NoBallots
  /\ \A w : FP!votes_yes(w) = votes_yes(w)
  /\ \A vs : FP!votes_total(vs) = votes_total(vs)
  /\ \A vs, v, w : FP!add_vote(vs, v, w) = add_vote(vs, v, w)
  /\ \A bs : FP!CastWeights(bs) = CastWeights(bs)
  /\ \A bs, v : FP!CastFor(bs, v) = CastFor(bs, v)
  /\ \A bs, s, w, v : FP!SaveBallot(bs, s, w, v) = SaveBallot(bs, s, w, v)
BY DEF FP!Vote, Vote, FP!Votes, Votes, FP!Ballot, Ballot, FP!NoBallot, NoBallot,
       FP!NoBallots, NoBallots, FP!votes_yes, votes_yes, FP!votes_total, votes_total,
       FP!add_vote, add_vote, FP!CastWeights, CastWeights, FP!CastFor, CastFor,
       FP!SaveBallot, SaveBallot

LEMMA SameStatus ==
  /\ FP!Status = Status
  /\ \A p, h : /\ FP!is_expired(p, h) = is_expired(p, h)
               /\ FP!current_status(p, h) = current_status(p, h)
BY DEF FP!Status, Status, FP!is_expired, is_expired, FP!current_status, current_status,
       FP!is_passed, is_passed, FP!is_rejected, is_rejected, FP!opinions, opinions,
       FP!votes_needed, votes_needed, FP!mul_floor, mul_floor, FP!votes_total, votes_total

(* Ballots that carry the voters' weights fit into the voters' total.      *)
LEMMA BallotsFit ==
  ASSUME NEW vs, vs \in [DOMAIN vs -> Nat], DOMAIN vs \subseteq Addr,
         NEW bs \in BallotMap,
         \A a \in Addr : bs[a] # NoBallot => a \in DOMAIN vs /\ bs[a].weight = vs[a]
  PROVE  Total(CastWeights(bs)) <= Total(vs)
BY FP!BallotsFit, FixedFacts, SameTotal, SameBallots DEF BallotMap, FP!BallotMap

(* A first ballot adds its weight to its own option and to the sum.        *)
LEMMA BallotAdded ==
  ASSUME NEW bs \in BallotMap, NEW s \in Addr, bs[s] = NoBallot,
         NEW w \in Nat, NEW v \in Vote, NEW cs, cs = SaveBallot(bs, s, w, v)
  PROVE  /\ cs \in BallotMap
         /\ Total(CastWeights(cs)) = Total(CastWeights(bs)) + w
         /\ Total(CastFor(cs, v)) = Total(CastFor(bs, v)) + w
         /\ \A u \in Vote \ {v} : Total(CastFor(cs, u)) = Total(CastFor(bs, u))
BY FP!BallotAdded, FixedFacts, SameTotal, SameBallots DEF BallotMap, FP!BallotMap

LEMMA YesVotes ==
  ASSUME NEW w \in Nat
  PROVE  /\ votes_yes(w) \in Votes /\ votes_total(votes_yes(w)) = w
         /\ votes_yes(w)["yes"] = w
         /\ \A u \in Vote \ {"yes"} : votes_yes(w)[u] = 0
BY FP!YesVotes, FixedFacts, SameBallots

LEMMA AddVote ==
  ASSUME NEW vs \in Votes, NEW v \in Vote, NEW w \in Nat
  PROVE  /\ add_vote(vs, v, w) \in Votes
         /\ votes_total(add_vote(vs, v, w)) = votes_total(vs) + w
         /\ add_vote(vs, v, w)[v] = vs[v] + w
         /\ \A u \in Vote \ {v} : add_vote(vs, v, w)[u] = vs[u]
         /\ \A u \in Vote : vs[u] <= add_vote(vs, v, w)[u]
BY FP!AddVote, FixedFacts, SameBallots

(* The ballots of a new proposal. *)
LEMMA FirstBallot ==
  ASSUME NEW s \in Addr, NEW w \in Nat, NEW bs, bs = SaveBallot(NoBallots, s, w, "yes")
  PROVE  /\ bs \in BallotMap
         /\ Total(CastWeights(bs)) = w
         /\ \A u \in Vote : Total(CastFor(bs, u)) = votes_yes(w)[u]
BY FP!FirstBallot, FixedFacts, SameTotal, SameBallots DEF BallotMap, FP!BallotMap

LEMMA CurrentStatusType ==
  ASSUME NEW p, NEW h, p.status \in Status
  PROVE  /\ current_status(p, h) \in Status
         /\ p.status = "open" => current_status(p, h) \in {"open", "passed", "rejected"}
BY FP!CurrentStatusType, FixedFacts, SameStatus

(* update_status. *)
LEMMA UpdatedReport ==
  ASSUME NEW p, NEW h, NEW q, p.status \in Status, SameRules(p, q),
         q.status = current_status(p, h)
  PROVE  current_status(q, h) = current_status(p, h) /\ UpToDate(q, h)
BY FP!UpdatedReport, FixedFacts, SameStatus DEF UpToDate, FP!UpToDate, SameRules, FP!SameRules

(* A vote on an unexpired proposal: r is p with the vote added. *)
LEMMA VotedReport ==
  ASSUME NEW p, NEW h, NEW r, NEW q, p.status \in Status, UpToDate(p, h),
         ~ is_expired(p, h), r.status = p.status, SameRules(r, q),
         q.status = current_status(r, h)
  PROVE  KeepsVerdict(p, h, q, h) /\ UpToDate(q, h)
BY FP!VotedReport, FixedFacts, SameStatus
   DEF UpToDate, FP!UpToDate, KeepsVerdict, FP!KeepsVerdict, SameRules, FP!SameRules

(* A new block, with which the proposal may expire. *)
LEMMA AgedReport ==
  ASSUME NEW p, NEW h \in Nat, NEW k \in Nat, h <= k, p.status \in Status,
         p.expires \in Nat, UpToDate(p, h)
  PROVE  KeepsVerdict(p, h, p, k) /\ UpToDate(p, k)
BY FP!AgedReport, FixedFacts, SameStatus DEF UpToDate, FP!UpToDate, KeepsVerdict, FP!KeepsVerdict

LEMMA ReportFields ==
  ASSUME NEW R, \A p \in R : p.status \in Status, NEW ps \in Seq(R), NEW h
  PROVE  /\ Reported(ps, h) \in [1..Len(ps) -> Status]
         /\ Len(Reported(ps, h)) = Len(ps) /\ Len(ps) \in Nat
         /\ \A id \in 1..Len(ps) : /\ ps[id] \in R
                                   /\ Reported(ps, h)[id] = current_status(ps[id], h)
<1>1. FP!Reported(ps, h) = Reported(ps, h) BY SameStatus DEF Reported, FP!Reported
<1> QED BY <1>1, FP!ReportFields, FixedFacts, SameStatus

LEMMA ReportAppended ==
  ASSUME NEW R, \A p \in R : p.status \in Status, NEW ps \in Seq(R), NEW q \in R, NEW h
  PROVE  Reported(Append(ps, q), h) = Append(Reported(ps, h), current_status(q, h))
BY FP!ReportAppended, FixedFacts, SameStatus DEF Reported, FP!Reported

LEMMA ReportDecided ==
  ASSUME NEW R, \A p \in R : p.status \in Status, NEW ps \in Seq(R), NEW qs \in Seq(R),
         Len(qs) = Len(ps), NEW h, NEW k,
         \A id \in 1..Len(ps) : KeepsVerdict(ps[id], h, qs[id], k)
  PROVE  /\ Len(Reported(qs, k)) = Len(Reported(ps, h))
         /\ \A id \in 1..Len(Reported(ps, h)) :
              Reported(qs, k)[id] # Reported(ps, h)[id] =>
                /\ Reported(ps, h)[id] = "open"
                /\ Reported(qs, k)[id] \in {"passed", "rejected"}
BY FP!ReportDecided, FixedFacts, SameStatus DEF Reported, FP!Reported, KeepsVerdict, FP!KeepsVerdict

LEMMA ReportReplaced ==
  ASSUME NEW R, \A p \in R : p.status \in Status, NEW ps \in Seq(R),
         NEW id \in 1..Len(ps), NEW q \in R, NEW h
  PROVE  Reported([ps EXCEPT ![id] = q], h)
           = [Reported(ps, h) EXCEPT ![id] = current_status(q, h)]
<1>1. \A rs : FP!Reported(rs, h) = Reported(rs, h) BY SameStatus DEF Reported, FP!Reported
<1>2. FP!Reported([ps EXCEPT ![id] = q], h)
        = [FP!Reported(ps, h) EXCEPT ![id] = FP!current_status(q, h)]
  BY FP!ReportReplaced, FixedFacts, SameStatus
<1> QED BY <1>1, <1>2, SameStatus

-----------------------------------------------------------------------------
(* The group under the multisig: its invariant holds, and what it answers  *)
(* for the present block and earlier ones stays as it is.                  *)
HistoryKept(ms, ns, h) == \A a \in Addr, k \in 0..h : AtHeight(ns[a], k) = AtHeight(ms[a], k)

LEMMA GroupInit == Init => GP!IInv
<1> SUFFICES ASSUME Init PROVE GP!IInv OBVIOUS
<1>1. PICK list \in MemberLists : Group!create(list, GroupAdmin) BY DEF Init
<1>2. GP!create(list, GroupAdmin) BY <1>1, SameCreate
<1>3. GP!Init BY <1>2 DEF Init, GP!Init
<1> QED BY <1>3, GroupFacts, GP!InitIInv

LEMMA FixedIsKept ==
  ASSUME GP!FixedStep
  PROVE  HistoryKept(members, members', height)
BY SameSnapshot DEF GP!FixedStep, GP!query_member, HistoryKept

LEMMA GroupEdit ==
  ASSUME GP!IInv, NEW list \in MemberLists, NEW remove \in RemoveLists,
         EditGroup(list, remove)
  PROVE  GP!IInv' /\ HistoryKept(members, members', height)
<1>1. Group!update_members(GroupAdmin, list, remove) /\ height' = height BY DEF EditGroup
<1>2. GP!update_members(GroupAdmin, list, remove) BY <1>1, SameUpdate
<1>3. GP!execute_update_members(GroupAdmin, list, remove)
  BY <1>1, <1>2 DEF GP!execute_update_members
<1>4. GP!IInv' /\ GP!FixedStep BY <1>3, GroupFacts, GP!UpdateMembersKeeps
<1> QED BY <1>4, FixedIsKept

LEMMA GroupBlock ==
  ASSUME GP!IInv, NextBlock
  PROVE  GP!IInv' /\ HistoryKept(members, members', height)
<1>1. GP!NextBlock BY DEF NextBlock, groupVars, GP!NextBlock
<1>2. GP!IInv' /\ GP!FixedStep BY <1>1, GroupFacts, GP!NextBlockKeeps
<1> QED BY <1>2, FixedIsKept

LEMMA GroupIdle ==
  ASSUME GP!IInv, UNCHANGED <<members, total, height>>
  PROVE  GP!IInv' /\ HistoryKept(members, members', height)
<1>1. UNCHANGED GP!groupVars BY DEF GP!groupVars
<1>2. GP!IInv' BY <1>1, GroupFacts, GP!NextIInv
<1> QED BY <1>2 DEF HistoryKept

(* What the multisig reads of the group. *)
LEMMA GroupReads ==
  ASSUME GP!IInv
  PROVE  /\ height \in Nat
         /\ total.now \in Nat
         /\ \A a \in Addr : /\ is_member(a) => members[a].now \in Nat
                            /\ Group!WeightOf(members[a].now) \in Nat
         /\ \A a \in Addr : \A k :
              /\ Group!query_member(a, k) = AtHeight(members[a], k)
              /\ Group!query_member(a, k) # None => Group!query_member(a, k) \in Nat
              /\ Group!WeightOf(Group!query_member(a, k)) \in Nat
<1>1. height \in Nat BY GroupFacts, GP!HeightType DEF GP!IInv
<1>2. /\ total.now \in GP!Weights
      /\ \A a \in Addr : GP!Item(members[a], height, GP!MaybeWeight)
  BY DEF GP!IInv, GP!SnapshotsOK
<1>3. /\ GP!Weights \subseteq Nat
      /\ \A w \in GP!MaybeWeight : w # None => w \in Nat
      /\ \A w \in GP!MaybeWeight : Group!WeightOf(w) \in Nat
  BY GroupFacts, GP!WeightType, SameWeight DEF GP!MaybeWeight, GP!Maybe
<1>4. \A a \in Addr : members[a].now \in GP!MaybeWeight BY <1>2 DEF GP!Item
<1>5. ASSUME NEW a \in Addr, NEW k
      PROVE  /\ Group!query_member(a, k) = AtHeight(members[a], k)
             /\ Group!query_member(a, k) \in GP!MaybeWeight
  <2>1. Group!query_member(a, k) = AtHeight(members[a], k)
    BY SameSnapshot DEF Group!query_member
  <2>2. GP!AtHeight(members[a], k) \in GP!MaybeWeight
    BY <1>1, <1>2, GroupFacts, GP!AtHeightType
  <2> QED BY <2>1, <2>2, SameSnapshot
<1> QED BY <1>1, <1>2, <1>3, <1>4, <1>5 DEF is_member

(* The total weight is the sum of the weights; unless the group was edited *)
(* in this block, of those that queries for this block answer.             *)
LEMMA UneditedTotal ==
  ASSUME GP!IInv, Unedited
  PROVE  total.now = Total([a \in Addr |-> Group!WeightOf(AtHeight(members[a], height))])
<1>1. total.now = GP!SumOver(GP!Current, Addr) BY GroupFacts, GP!NowIsSum
<1>2. \A a \in Addr : GP!Current[a] = AtHeight(members[a], height)
  BY GroupReads DEF Unedited, GP!Current
<1>3. [a \in Addr |-> GP!WeightOf(GP!Current[a])]
        = [a \in Addr |-> Group!WeightOf(AtHeight(members[a], height))]
  BY <1>2, SameWeight
<1> QED BY <1>1, <1>3, SameTotal DEF GP!SumOver

-----------------------------------------------------------------------------
(* The inductive invariant.                                                *)
Config == [threshold: Threshold, max_voting_period: Nat, executor: Executors,
           deposit: [amount: Nat, refund_failed_proposals: BOOLEAN]]
LogRecord == [settled: BOOLEAN, sent: Nat, returned: {0, 1}]

StorageOK ==
  /\ cfg \in Config
  /\ proposals \in Seq(ProposalRecord) /\ ballots \in Seq(BallotMap) /\ log \in Seq(LogRecord)
  /\ Len(ballots) = Len(proposals) /\ Len(log) = Len(proposals)
  /\ wallet \in [Addr -> Nat] /\ treasury \in Nat /\ funded \in Nat

(* The weights of all accounts when the block of proposal p began. *)
StartWeights(ms, p) == [a \in Addr |-> Group!WeightOf(AtHeight(ms[a], p.start_height))]

(* What holds of one proposal p with ballots bs and history g, on members  *)
(* ms: the tally is the sum of the ballots; a ballot, the proposer's aside *)
(* unless the group had not been edited, carries the weight its voter had  *)
(* when the block began; and the stored status is up to date.              *)
Good(p, bs, g, ms, h) ==
  /\ p \in ProposalRecord /\ bs \in BallotMap /\ g \in LogRecord
  /\ p.start_height <= h
  /\ \A vote \in Vote : p.votes[vote] = Total(CastFor(bs, vote))
  /\ votes_total(p.votes) = Total(CastWeights(bs))
  /\ \A a \in Addr \ {p.proposer} :
       bs[a] # NoBallot => bs[a].weight = AtHeight(ms[a], p.start_height)
  /\ g.settled =>
       /\ p.total_weight = Total(StartWeights(ms, p))
       /\ \A a \in Addr : bs[a] # NoBallot => bs[a].weight = StartWeights(ms, p)[a]
  /\ UpToDate(p, h)

(* The deposit of a proposal p is returned only when its verdict is stored *)
(* and calls for it.                                                       *)
Justified(p, g, c) ==
  g.returned = 1 =>
    p.status = "executed" \/ (p.status = "rejected" /\ c.deposit.refund_failed_proposals)

(* It closes within a voting period. *)
InTime(p, c, h) == p.expires <= h + c.max_voting_period

AllGood ==
  \A id \in ProposalIds :
    /\ Good(proposals[id], ballots[id], log[id], members, height)
    /\ Justified(proposals[id], log[id], cfg)
    /\ InTime(proposals[id], cfg, height)

VotingInv == GP!IInv /\ StorageOK /\ AllGood

LEMMA ProposalFacts ==
  ASSUME VotingInv, NEW id \in ProposalIds
  PROVE  /\ Good(proposals[id], ballots[id], log[id], members, height)
         /\ Justified(proposals[id], log[id], cfg) /\ InTime(proposals[id], cfg, height)
         /\ proposals[id] \in ProposalRecord /\ ballots[id] \in BallotMap /\ log[id] \in LogRecord
         /\ id \in 1..Len(proposals) /\ id \in 1..Len(ballots) /\ id \in 1..Len(log)
         /\ height \in Nat
<1>1. /\ Good(proposals[id], ballots[id], log[id], members, height)
      /\ Justified(proposals[id], log[id], cfg) /\ InTime(proposals[id], cfg, height)
  BY DEF VotingInv, AllGood
<1>2. height \in Nat BY GroupReads DEF VotingInv
<1> QED BY <1>1, <1>2 DEF Good, VotingInv, StorageOK, ProposalIds

(* update_status. *)
LEMMA UpdateStatus ==
  ASSUME NEW p \in ProposalRecord, NEW h, NEW q, q = update_status(p, h)
  PROVE  /\ q \in ProposalRecord /\ SameRules(p, q) /\ q.status = current_status(p, h)
         /\ q.start_height = p.start_height /\ q.proposer = p.proposer /\ q.spend = p.spend
<1>1. current_status(p, h) \in Status BY CurrentStatusType DEF ProposalRecord
<1> QED BY <1>1 DEF update_status, ProposalRecord, SameRules

(* A new proposal, with the ballot of its proposer.                        *)
LEMMA NewIsGood ==
  ASSUME VotingInv, NEW s \in Addr, is_member(s), NEW latest \in Latest \cup {None},
         NEW spend \in Spends,
         NEW bs, bs = SaveBallot(NoBallots, s, members[s].now, "yes"),
         NEW q, q = update_status(NewProposal(s, latest, spend), height),
         NEW g, g = [settled |-> Unedited, sent |-> 0, returned |-> 0]
  PROVE  /\ Good(q, bs, g, members, height)
         /\ current_status(q, height) \in {"open", "passed", "rejected"}
         /\ q.status # "executed" /\ q.proposer = s /\ q.spend \in Nat
         /\ InTime(q, cfg, height)
<1> DEFINE p == NewProposal(s, latest, spend)
           w == members[s].now
<1>1. /\ w \in Nat /\ total.now \in Nat /\ height \in Nat /\ cfg \in Config /\ spend \in Nat
  BY GroupReads, FlexAssumption DEF VotingInv, StorageOK
<1>2. Expires(latest) \in Nat /\ Expires(latest) <= height + cfg.max_voting_period
  BY <1>1, FlexAssumption DEF Expires, Config
<1>3. /\ p \in ProposalRecord /\ p.expires = Expires(latest) /\ p.votes = votes_yes(w) /\ p.status = "open"
      /\ p.start_height = height /\ p.total_weight = total.now /\ p.proposer = s
      /\ p.spend = spend
  BY <1>1, <1>2, YesVotes DEF NewProposal, ProposalRecord, Config, Status, total_weight
<1>4. /\ bs \in BallotMap /\ Total(CastWeights(bs)) = w
      /\ \A u \in Vote : Total(CastFor(bs, u)) = votes_yes(w)[u]
  BY <1>1, FirstBallot
<1>5. \A a \in Addr \ {s} : bs[a] = NoBallot BY DEF SaveBallot, NoBallots
<1>6. bs[s].weight = w BY DEF SaveBallot, NoBallots
<1>7. g \in LogRecord /\ (g.settled <=> Unedited)
  <2>1. Unedited \in BOOLEAN BY DEF Unedited
  <2> QED BY <2>1 DEF LogRecord
<1> HIDE DEF p, w
<1>8. /\ q \in ProposalRecord /\ SameRules(p, q) /\ q.status = current_status(p, height)
      /\ q.start_height = height /\ q.proposer = s /\ q.spend = spend
  BY <1>1, <1>3, UpdateStatus DEF p
<1>9. /\ current_status(q, height) = current_status(p, height) /\ UpToDate(q, height)
      /\ current_status(p, height) \in {"open", "passed", "rejected"}
  BY <1>3, <1>8, UpdatedReport, CurrentStatusType DEF Status
<1>10. q.votes = votes_yes(w) /\ q.total_weight = total.now BY <1>3, <1>8 DEF SameRules
<1>11. /\ \A vote \in Vote : q.votes[vote] = Total(CastFor(bs, vote))
       /\ votes_total(q.votes) = Total(CastWeights(bs))
  BY <1>1, <1>4, <1>10, YesVotes DEF w
<1>12. ASSUME g.settled
       PROVE  /\ q.total_weight = Total(StartWeights(members, q))
              /\ \A a \in Addr : bs[a] # NoBallot => bs[a].weight = StartWeights(members, q)[a]
  <2>1. Unedited BY <1>7, <1>12
  <2>2. StartWeights(members, q) = [a \in Addr |-> Group!WeightOf(AtHeight(members[a], height))]
    BY <1>8 DEF StartWeights
  <2>3. total.now = Total(StartWeights(members, q)) BY <2>1, <2>2, UneditedTotal DEF VotingInv
  <2>4. AtHeight(members[s], height) = w
    <3>1. Group!query_member(s, height) = AtHeight(members[s], height)
      BY GroupReads DEF VotingInv
    <3> QED BY <2>1, <3>1 DEF Unedited, w
  <2>5. Group!WeightOf(w) = w BY <1>1, GroupFacts DEF Group!WeightOf, w
  <2>6. StartWeights(members, q)[s] = w BY <2>2, <2>4, <2>5
  <2> QED BY <1>5, <1>6, <1>10, <2>3, <2>6 DEF w
<1>13. q.start_height <= height BY <1>1, <1>8
<1>14. Good(q, bs, g, members, height)
  BY <1>4, <1>5, <1>7, <1>8, <1>9, <1>11, <1>12, <1>13 DEF Good
<1>15. InTime(q, cfg, height) BY <1>2, <1>3, <1>8 DEF SameRules, InTime
<1> QED BY <1>1, <1>8, <1>9, <1>14, <1>15

LEMMA WithVoteFacts ==
  ASSUME VotingInv, NEW s \in Addr, NEW id \in ProposalIds, NEW v \in Vote, CanVote(s, id),
         NEW p, p = proposals[id], NEW w, w = VotePower(s, id), NEW r, r = WithVote(s, id, v)
  PROVE  /\ w \in Nat /\ w = AtHeight(members[s], p.start_height) /\ w # None
         /\ r \in ProposalRecord /\ r.votes = add_vote(p.votes, v, w) /\ r.status = p.status
         /\ r.threshold = p.threshold /\ r.total_weight = p.total_weight /\ r.expires = p.expires
         /\ r.start_height = p.start_height /\ r.proposer = p.proposer /\ r.spend = p.spend
<1>1. p \in ProposalRecord BY ProposalFacts
<1>2. w # None /\ w \in Nat /\ w = AtHeight(members[s], p.start_height)
  <2>1. w # None BY DEF CanVote, is_voting_member, VotePower
  <2> QED BY <2>1, GroupReads DEF VotingInv, VotePower
<1>3. r = [p EXCEPT !.votes = add_vote(p.votes, v, w)] BY <1>1 DEF WithVote, ProposalRecord
<1>4. p.votes \in Votes BY <1>1 DEF ProposalRecord
<1>5. add_vote(p.votes, v, w) \in Votes BY <1>2, <1>4, AddVote
<1> QED BY <1>1, <1>2, <1>3, <1>5 DEF ProposalRecord

(* An admissible vote: its weight is the one at the start, so it adds up   *)
(* with the others, whatever the group is now.                             *)
LEMMA VotedIsGood ==
  ASSUME VotingInv, NEW s \in Addr, NEW id \in ProposalIds, NEW v \in Vote, CanVote(s, id),
         NEW bs, bs = SaveBallot(ballots[id], s, VotePower(s, id), v),
         NEW q, q = update_status(WithVote(s, id, v), height)
  PROVE  /\ Good(q, bs, log[id], members, height)
         /\ KeepsVerdict(proposals[id], height, q, height)
         /\ q.proposer = proposals[id].proposer /\ q.spend = proposals[id].spend
         /\ q.expires = proposals[id].expires
         /\ q.status = proposals[id].status \/ proposals[id].status = "open"
<1> DEFINE p == proposals[id]
           r == WithVote(s, id, v)
           w == VotePower(s, id)
           cs == ballots[id]
<1>1. /\ Good(p, cs, log[id], members, height) /\ p \in ProposalRecord /\ cs \in BallotMap
      /\ height \in Nat
  BY ProposalFacts
<1>2. cs[s] = NoBallot /\ ~ is_expired(p, height) BY DEF CanVote
<1>3. w \in Nat /\ w = AtHeight(members[s], p.start_height) /\ w # None
  BY WithVoteFacts
<1>4. /\ r \in ProposalRecord /\ r.votes = add_vote(p.votes, v, w) /\ r.status = p.status
      /\ r.threshold = p.threshold /\ r.total_weight = p.total_weight /\ r.expires = p.expires
      /\ r.start_height = p.start_height /\ r.proposer = p.proposer /\ r.spend = p.spend
  BY WithVoteFacts
<1> HIDE DEF w
<1>5. p.votes \in Votes /\ p.status \in Status BY <1>1 DEF ProposalRecord
<1>6. /\ bs \in BallotMap
      /\ Total(CastWeights(bs)) = Total(CastWeights(cs)) + w
      /\ Total(CastFor(bs, v)) = Total(CastFor(cs, v)) + w
      /\ \A u \in Vote \ {v} : Total(CastFor(bs, u)) = Total(CastFor(cs, u))
  BY <1>1, <1>2, <1>3, BallotAdded DEF w
<1>7. bs[s].weight = w /\ \A a \in Addr \ {s} : bs[a] = cs[a]
  <2>1. cs \in [Addr -> Ballot \cup {NoBallot}] BY <1>1 DEF BallotMap
  <2> QED BY <2>1 DEF SaveBallot, w
<1> HIDE DEF p, r, cs
<1>8. /\ \A u \in Vote : r.votes[u] = Total(CastFor(bs, u))
      /\ votes_total(r.votes) = Total(CastWeights(bs))
  <2>1. /\ \A u \in Vote : p.votes[u] = Total(CastFor(cs, u))
        /\ votes_total(p.votes) = Total(CastWeights(cs))
    BY <1>1 DEF Good
  <2> QED BY <1>3, <1>4, <1>5, <1>6, <2>1, AddVote
<1>9. /\ q \in ProposalRecord /\ SameRules(r, q) /\ q.status = current_status(r, height)
      /\ q.start_height = p.start_height /\ q.proposer = p.proposer /\ q.spend = p.spend
  BY <1>4, UpdateStatus DEF r
<1>10. KeepsVerdict(p, height, q, height) /\ UpToDate(q, height)
  BY <1>1, <1>2, <1>4, <1>5, <1>9, VotedReport DEF Good
<1>11. q.status = p.status \/ p.status = "open" BY <1>4, <1>9 DEF current_status
<1>12. \A a \in Addr \ {q.proposer} :
         bs[a] # NoBallot => bs[a].weight = AtHeight(members[a], q.start_height)
  BY <1>1, <1>3, <1>7, <1>9 DEF Good
<1>13. StartWeights(members, q) = StartWeights(members, p) BY <1>9 DEF StartWeights
<1>14. ASSUME log[id].settled
       PROVE  /\ q.total_weight = Total(StartWeights(members, q))
              /\ \A a \in Addr : bs[a] # NoBallot => bs[a].weight = StartWeights(members, q)[a]
  <2>1. /\ p.total_weight = Total(StartWeights(members, p))
        /\ \A a \in Addr : cs[a] # NoBallot => cs[a].weight = StartWeights(members, p)[a]
    BY <1>1, <1>14 DEF Good
  <2>2. StartWeights(members, p)[s] = w
    BY <1>3, GroupFacts DEF StartWeights, Group!WeightOf
  <2>3. q.total_weight = p.total_weight BY <1>4, <1>9 DEF SameRules
  <2> QED BY <1>7, <1>13, <2>1, <2>2, <2>3
<1>15. Good(q, bs, log[id], members, height)
  <2>1. q.start_height <= height /\ log[id] \in LogRecord BY <1>1, <1>9 DEF Good
  <2>2. q.votes = r.votes BY <1>9 DEF SameRules
  <2> QED BY <1>6, <1>8, <1>9, <1>10, <1>12, <1>14, <2>1, <2>2 DEF Good
<1>16. q.expires = p.expires BY <1>4, <1>9 DEF SameRules
<1> QED BY <1>9, <1>10, <1>11, <1>15, <1>16 DEF p

(* A verdict is stored: execute and close. *)
LEMMA RestatedIsGood ==
  ASSUME NEW p, NEW bs, NEW g, NEW ms, NEW h, Good(p, bs, g, ms, h),
         NEW s \in {"rejected", "executed"}, NEW q, q = [p EXCEPT !.status = s],
         NEW f \in LogRecord, f.settled = g.settled
  PROVE  /\ Good(q, bs, f, ms, h) /\ current_status(q, h) = s /\ q.status = s
         /\ q.proposer = p.proposer /\ q.spend = p.spend /\ q.expires = p.expires
<1>1. p \in ProposalRecord BY DEF Good
<1>2. /\ q \in ProposalRecord /\ q.status = s /\ q.votes = p.votes
      /\ q.total_weight = p.total_weight /\ q.start_height = p.start_height
      /\ q.proposer = p.proposer /\ q.spend = p.spend /\ q.expires = p.expires
  BY <1>1 DEF ProposalRecord, Status
<1>3. current_status(q, h) = s /\ UpToDate(q, h) BY <1>2 DEF current_status, UpToDate
<1>4. StartWeights(ms, q) = StartWeights(ms, p) BY <1>2 DEF StartWeights
<1> QED BY <1>2, <1>3, <1>4 DEF Good

(* The group is edited, or a block passes: what a proposal was started on  *)
(* stays as it was.                                                        *)
LEMMA AgedIsGood ==
  ASSUME NEW p, NEW bs, NEW g, NEW ms, NEW ns, NEW h \in Nat, NEW k \in Nat, h <= k,
         Good(p, bs, g, ms, h), HistoryKept(ms, ns, h)
  PROVE  Good(p, bs, g, ns, k) /\ KeepsVerdict(p, h, p, k)
<1>1. p \in ProposalRecord BY DEF Good
<1>2. /\ p.status \in Status /\ p.expires \in Nat /\ p.start_height \in 0..h
      /\ p.start_height <= k
  BY <1>1 DEF Good, ProposalRecord
<1>3. KeepsVerdict(p, h, p, k) /\ UpToDate(p, k) BY <1>2, AgedReport DEF Good
<1>4. \A a \in Addr : AtHeight(ns[a], p.start_height) = AtHeight(ms[a], p.start_height)
  BY <1>2 DEF HistoryKept
<1>5. StartWeights(ns, p) = StartWeights(ms, p) BY <1>4 DEF StartWeights
<1> QED BY <1>2, <1>3, <1>4, <1>5 DEF Good

-----------------------------------------------------------------------------
(* The steps preserve the invariant.                                       *)

(* Those that change one proposal, its ballots and its history.            *)
LEMMA OneProposalStep ==
  ASSUME VotingInv, NEW id \in ProposalIds, NEW q, NEW bs, NEW g,
         Good(q, bs, g, members, height), Justified(q, g, cfg),
         q.expires = proposals[id].expires,
         proposals' = [proposals EXCEPT ![id] = q],
         ballots' = [ballots EXCEPT ![id] = bs],
         log' = [log EXCEPT ![id] = g],
         wallet' \in [Addr -> Nat], treasury' \in Nat,
         UNCHANGED <<members, total, height, cfg, funded>>
  PROVE  VotingInv'
<1>1. /\ proposals \in Seq(ProposalRecord) /\ ballots \in Seq(BallotMap) /\ log \in Seq(LogRecord)
      /\ Len(ballots) = Len(proposals) /\ Len(log) = Len(proposals)
      /\ cfg \in Config /\ funded \in Nat /\ GP!IInv
  BY DEF VotingInv, StorageOK
<1>2. q \in ProposalRecord /\ bs \in BallotMap /\ g \in LogRecord BY DEF Good
<1>3. /\ proposals' \in Seq(ProposalRecord) /\ Len(proposals') = Len(proposals)
      /\ ballots' \in Seq(BallotMap) /\ Len(ballots') = Len(ballots)
      /\ log' \in Seq(LogRecord) /\ Len(log') = Len(log)
      /\ \A j \in ProposalIds : proposals'[j] = IF j = id THEN q ELSE proposals[j]
      /\ \A j \in ProposalIds : ballots'[j] = IF j = id THEN bs ELSE ballots[j]
      /\ \A j \in ProposalIds : log'[j] = IF j = id THEN g ELSE log[j]
  BY <1>1, <1>2 DEF ProposalIds
<1>4. ProposalIds' = ProposalIds BY <1>3 DEF ProposalIds
<1>5. StorageOK' BY <1>1, <1>3 DEF StorageOK
<1>6. ASSUME NEW j \in ProposalIds
      PROVE  /\ Good(proposals'[j], ballots'[j], log'[j], members', height')
             /\ Justified(proposals'[j], log'[j], cfg')
             /\ InTime(proposals'[j], cfg', height')
  <2>1. CASE j = id
    <3>1. InTime(q, cfg, height) BY ProposalFacts DEF InTime
    <3> QED BY <1>3, <2>1, <3>1
  <2>2. CASE j # id BY <1>3, <2>2, ProposalFacts
  <2> QED BY <2>1, <2>2
<1>7. AllGood' BY <1>4, <1>6 DEF AllGood
<1>8. GP!IInv' BY <1>1, GroupIdle
<1> QED BY <1>5, <1>7, <1>8 DEF VotingInv

LEMMA ProposeStep ==
  ASSUME VotingInv, NEW s \in Addr, NEW latest \in Latest \cup {None}, NEW spend \in Spends,
         execute_propose(s, latest, spend)
  PROVE  VotingInv'
<1> DEFINE q == update_status(NewProposal(s, latest, spend), height)
           bs == SaveBallot(NoBallots, s, members[s].now, "yes")
           g == [settled |-> Unedited, sent |-> 0, returned |-> 0]
           n == Len(proposals)
<1>1. /\ is_member(s) /\ proposals' = Append(proposals, q)
      /\ ballots' = Append(ballots, bs) /\ log' = Append(log, g)
      /\ take_deposit(s) /\ UNCHANGED <<members, total, height, cfg, funded>>
  BY DEF execute_propose
<1>2. Good(q, bs, g, members, height) /\ InTime(q, cfg, height) BY <1>1, NewIsGood
<1>3. q \in ProposalRecord /\ bs \in BallotMap /\ g \in LogRecord BY <1>2 DEF Good
<1>4. /\ proposals \in Seq(ProposalRecord) /\ ballots \in Seq(BallotMap) /\ log \in Seq(LogRecord)
      /\ Len(ballots) = n /\ Len(log) = n
      /\ cfg \in Config /\ funded \in Nat /\ wallet \in [Addr -> Nat] /\ treasury \in Nat
  BY DEF VotingInv, StorageOK
<1>5. g.returned = 0 OBVIOUS
<1> HIDE DEF q, bs, g
<1>6. /\ proposals' \in Seq(ProposalRecord) /\ Len(proposals') = n + 1
      /\ ballots' \in Seq(BallotMap) /\ Len(ballots') = n + 1
      /\ log' \in Seq(LogRecord) /\ Len(log') = n + 1
      /\ \A j \in 1..n : /\ proposals'[j] = proposals[j] /\ ballots'[j] = ballots[j]
                         /\ log'[j] = log[j]
      /\ proposals'[n + 1] = q /\ ballots'[n + 1] = bs /\ log'[n + 1] = g
      /\ n \in Nat
  BY <1>1, <1>3, <1>4
<1>7. wallet' \in [Addr -> Nat] /\ treasury' \in Nat
  <2>1. cfg.deposit.amount \in Nat BY <1>4 DEF Config
  <2> QED BY <1>1, <1>4, <2>1, SMTT(30) DEF take_deposit
<1>8. StorageOK' BY <1>1, <1>4, <1>6, <1>7 DEF StorageOK
<1>9. \A j \in 1..(n + 1) : j \in 1..n \/ j = n + 1 BY <1>6
<1>10. AllGood'
  <2>1. \A j \in 1..n : /\ Good(proposals'[j], ballots'[j], log'[j], members', height')
                        /\ Justified(proposals'[j], log'[j], cfg')
                        /\ InTime(proposals'[j], cfg', height')
    BY <1>1, <1>6, ProposalFacts DEF ProposalIds
  <2>2. /\ Good(proposals'[n + 1], ballots'[n + 1], log'[n + 1], members', height')
        /\ Justified(proposals'[n + 1], log'[n + 1], cfg')
        /\ InTime(proposals'[n + 1], cfg', height')
    BY <1>1, <1>2, <1>5, <1>6 DEF Justified
  <2>3. ProposalIds' = 1..(n + 1) BY <1>6 DEF ProposalIds
  <2> QED BY <1>9, <2>1, <2>2, <2>3 DEF AllGood
<1>11. GP!IInv' BY <1>1, GroupIdle DEF VotingInv
<1> QED BY <1>8, <1>10, <1>11 DEF VotingInv

LEMMA VoteStep ==
  ASSUME VotingInv, NEW s \in Addr, NEW id \in ProposalIds, NEW v \in Vote, execute_vote(s, id, v)
  PROVE  VotingInv'
<1> DEFINE q == update_status(WithVote(s, id, v), height)
           bs == SaveBallot(ballots[id], s, VotePower(s, id), v)
<1>1. /\ CanVote(s, id) /\ proposals' = [proposals EXCEPT ![id] = q]
      /\ ballots' = [ballots EXCEPT ![id] = bs]
      /\ UNCHANGED <<members, total, height, cfg, wallet, treasury, funded, log>>
  BY DEF execute_vote
<1>2. /\ Good(q, bs, log[id], members, height) /\ q.expires = proposals[id].expires
      /\ q.status = proposals[id].status \/ proposals[id].status = "open"
  BY <1>1, VotedIsGood
<1> HIDE DEF q, bs
<1>3. Justified(q, log[id], cfg) BY <1>2, ProposalFacts DEF Justified
<1>4. /\ log' = [log EXCEPT ![id] = log[id]]
      /\ wallet' \in [Addr -> Nat] /\ treasury' \in Nat
  BY <1>1, ProposalFacts DEF VotingInv, StorageOK
<1> QED BY <1>1, <1>2, <1>3, <1>4, OneProposalStep
(* Paying a proposer back, and the messages of a proposal. *)
LEMMA PayType ==
  ASSUME VotingInv, NEW id \in ProposalIds, NEW back \in Nat, NEW spend \in Nat,
         Pay(id, back, spend)
  PROVE  wallet' \in [Addr -> Nat] /\ treasury' \in Nat
<1>1. /\ wallet \in [Addr -> Nat] /\ treasury \in Nat /\ proposals[id].proposer \in Addr
  BY ProposalFacts DEF VotingInv, StorageOK, ProposalRecord
<1> QED BY <1>1 DEF Pay

LEMMA ExecuteStep ==
  ASSUME VotingInv, NEW s \in Addr, NEW id \in ProposalIds, execute_execute(s, id)
  PROVE  VotingInv'
<1> DEFINE p == proposals[id]
           q == [p EXCEPT !.status = "executed"]
           g == [log[id] EXCEPT !.sent = @ + 1, !.returned = @ + 1]
<1>1. /\ current_status(p, height) = "passed" /\ proposals' = [proposals EXCEPT ![id] = q]
      /\ Pay(id, cfg.deposit.amount, p.spend)
      /\ UNCHANGED <<members, total, height, cfg, ballots, funded>>
  BY DEF execute_execute
<1>2. /\ Good(p, ballots[id], log[id], members, height) /\ Justified(p, log[id], cfg)
      /\ p \in ProposalRecord /\ log[id] \in LogRecord
      /\ id \in 1..Len(ballots) /\ id \in 1..Len(log)
  BY ProposalFacts
<1>3. log[id].returned = 0
  <2>1. p.status \in {"open", "passed"} BY <1>1 DEF current_status
  <2> QED BY <1>2, <2>1 DEF Justified, LogRecord
<1>4. g \in LogRecord /\ g.settled = log[id].settled
  <2>1. log[id].sent + 1 \in Nat /\ log[id].returned + 1 \in {0, 1}
    BY <1>2, <1>3 DEF LogRecord
  <2> QED BY <1>2, <2>1, Zenon DEF LogRecord
<1>5. log' = [log EXCEPT ![id] = g] BY <1>2 DEF execute_execute, VotingInv, StorageOK
<1>6. ballots' = [ballots EXCEPT ![id] = ballots[id]] BY <1>1, <1>2 DEF VotingInv, StorageOK
<1>7. wallet' \in [Addr -> Nat] /\ treasury' \in Nat
  <2>1. cfg.deposit.amount \in Nat /\ p.spend \in Nat
    BY <1>2 DEF VotingInv, StorageOK, Config, ProposalRecord
  <2> QED BY <1>1, <2>1, PayType
<1>8. /\ Good(q, ballots[id], g, members, height) /\ q.status = "executed"
      /\ q.expires = p.expires
  <2> HIDE DEF g
  <2> QED BY <1>2, <1>4, RestatedIsGood
<1> HIDE DEF q, g
<1>9. Justified(q, g, cfg) BY <1>8 DEF Justified
<1> QED BY <1>1, <1>5, <1>6, <1>7, <1>8, <1>9, OneProposalStep

LEMMA CloseStep ==
  ASSUME VotingInv, NEW id \in ProposalIds, execute_close(id)
  PROVE  VotingInv'
<1> DEFINE p == proposals[id]
           q == [p EXCEPT !.status = "rejected"]
           paid == [log[id] EXCEPT !.returned = @ + 1]
<1>1. /\ CanClose(id) /\ proposals' = [proposals EXCEPT ![id] = q]
      /\ UNCHANGED <<members, total, height, cfg, ballots, funded>>
  BY DEF execute_close
<1>2. /\ Good(p, ballots[id], log[id], members, height) /\ Justified(p, log[id], cfg)
      /\ p \in ProposalRecord /\ log[id] \in LogRecord
      /\ id \in 1..Len(ballots) /\ id \in 1..Len(log)
  BY ProposalFacts
<1>3. log[id].returned = 0 BY <1>1, <1>2 DEF CanClose, Justified, LogRecord
<1>4. /\ paid \in LogRecord /\ paid.settled = log[id].settled
  BY <1>2, <1>3 DEF LogRecord
<1>5. ballots' = [ballots EXCEPT ![id] = ballots[id]] BY <1>1, <1>2 DEF VotingInv, StorageOK
<1>6. \A f \in LogRecord : f.settled = log[id].settled =>
        /\ Good(q, ballots[id], f, members, height) /\ q.status = "rejected"
        /\ q.expires = p.expires
  BY <1>2, RestatedIsGood
<1>7. CASE cfg.deposit.refund_failed_proposals
  <2>1. Pay(id, cfg.deposit.amount, 0) BY <1>7 DEF execute_close
  <2>2. log' = [log EXCEPT ![id] = paid] BY <1>2, <1>7 DEF execute_close, VotingInv, StorageOK
  <2>3. wallet' \in [Addr -> Nat] /\ treasury' \in Nat
    <3>1. cfg.deposit.amount \in Nat /\ 0 \in Nat BY DEF VotingInv, StorageOK, Config
    <3> QED BY <2>1, <3>1, PayType
  <2> HIDE DEF q, paid
  <2>4. /\ Good(q, ballots[id], paid, members, height) /\ q.status = "rejected"
        /\ q.expires = p.expires
    BY <1>4, <1>6
  <2>5. Justified(q, paid, cfg) BY <1>7, <2>4 DEF Justified
  <2> QED BY <1>1, <1>5, <2>2, <2>3, <2>4, <2>5, OneProposalStep
<1>8. CASE ~ cfg.deposit.refund_failed_proposals
  <2>1. UNCHANGED <<wallet, treasury, log>> BY <1>8 DEF execute_close
  <2>2. log' = [log EXCEPT ![id] = log[id]] BY <1>2, <2>1 DEF VotingInv, StorageOK
  <2>3. wallet' \in [Addr -> Nat] /\ treasury' \in Nat BY <2>1 DEF VotingInv, StorageOK
  <2> HIDE DEF q, paid
  <2>4. Good(q, ballots[id], log[id], members, height) /\ q.expires = p.expires BY <1>2, <1>6
  <2>5. Justified(q, log[id], cfg) BY <1>3 DEF Justified
  <2> QED BY <1>1, <1>5, <2>2, <2>3, <2>4, <2>5, OneProposalStep
<1> QED BY <1>7, <1>8

(* The steps that leave the storage of the multisig as it is, a transfer   *)
(* to it aside.                                                            *)
LEMMA GroupStep ==
  ASSUME VotingInv, GP!IInv', HistoryKept(members, members', height), height' \in Nat,
         height <= height', treasury' \in Nat, funded' \in Nat,
         UNCHANGED <<cfg, proposals, ballots, wallet, log>>
  PROVE  /\ VotingInv'
         /\ \A id \in ProposalIds : KeepsVerdict(proposals[id], height, proposals'[id], height')
<1>1. height \in Nat BY GroupReads DEF VotingInv
<1>2. ASSUME NEW id \in ProposalIds
      PROVE  /\ Good(proposals[id], ballots[id], log[id], members', height')
             /\ KeepsVerdict(proposals[id], height, proposals[id], height')
             /\ InTime(proposals[id], cfg, height')
  <2>1. /\ Good(proposals[id], ballots[id], log[id], members, height)
        /\ InTime(proposals[id], cfg, height)
        /\ proposals[id].expires \in Nat /\ cfg.max_voting_period \in Nat
    BY ProposalFacts DEF VotingInv, StorageOK, Config, ProposalRecord
  <2> QED BY <1>1, <2>1, AgedIsGood DEF InTime
<1>3. StorageOK' BY DEF VotingInv, StorageOK
<1>4. AllGood' BY <1>2 DEF VotingInv, AllGood, ProposalIds
<1> QED BY <1>2, <1>3, <1>4 DEF VotingInv

LEMMA EditStep ==
  ASSUME VotingInv, NEW list \in MemberLists, NEW remove \in RemoveLists,
         EditGroup(list, remove)
  PROVE  /\ VotingInv'
         /\ \A id \in ProposalIds : KeepsVerdict(proposals[id], height, proposals'[id], height')
<1>1. GP!IInv' /\ HistoryKept(members, members', height) BY GroupEdit DEF VotingInv
<1>2. /\ UNCHANGED <<height, cfg, proposals, ballots, wallet, treasury, funded, log>>
  BY DEF EditGroup, multisigVars
<1>3. height' \in Nat /\ height <= height' /\ treasury' \in Nat /\ funded' \in Nat
  BY <1>2, GroupReads DEF VotingInv, StorageOK
<1> QED BY <1>1, <1>2, <1>3, GroupStep

LEMMA FundStep ==
  ASSUME VotingInv, Fund
  PROVE  /\ VotingInv'
         /\ \A id \in ProposalIds : KeepsVerdict(proposals[id], height, proposals'[id], height')
<1>1. /\ UNCHANGED <<members, total, height, cfg, proposals, ballots, wallet, log>>
      /\ treasury' = treasury + 1 /\ funded' = funded + 1
  BY DEF Fund
<1>2. height' \in Nat /\ height <= height' /\ treasury' \in Nat /\ funded' \in Nat
  BY <1>1, GroupReads DEF VotingInv, StorageOK
<1>3. GP!IInv' /\ HistoryKept(members, members', height) BY <1>1, GroupIdle DEF VotingInv
<1> QED BY <1>1, <1>2, <1>3, GroupStep

LEMMA BlockStep ==
  ASSUME VotingInv, NextBlock
  PROVE  /\ VotingInv'
         /\ \A id \in ProposalIds : KeepsVerdict(proposals[id], height, proposals'[id], height')
<1>1. GP!IInv' /\ HistoryKept(members, members', height) BY GroupBlock DEF VotingInv
<1>2. /\ UNCHANGED <<cfg, proposals, ballots, wallet, treasury, funded, log>>
      /\ height' = height + 1
  BY DEF NextBlock, multisigVars
<1>3. height' \in Nat /\ height <= height' /\ treasury' \in Nat /\ funded' \in Nat
  BY <1>2, GroupReads DEF VotingInv, StorageOK
<1> QED BY <1>1, <1>2, <1>3, GroupStep

LEMMA IdleStep == VotingInv /\ UNCHANGED vars => VotingInv'
<1> SUFFICES ASSUME VotingInv, UNCHANGED vars PROVE VotingInv' OBVIOUS
<1>1. /\ UNCHANGED <<members, total, height, cfg, proposals, ballots, wallet, treasury, funded, log>>
  BY DEF vars
<1>2. height' \in Nat /\ height <= height' /\ treasury' \in Nat /\ funded' \in Nat
  BY <1>1, GroupReads DEF VotingInv, StorageOK
<1>3. GP!IInv' /\ HistoryKept(members, members', height) BY <1>1, GroupIdle DEF VotingInv
<1> QED BY <1>1, <1>2, <1>3, GroupStep

LEMMA NextVotingInv == VotingInv /\ [Next]_vars => VotingInv'
<1> SUFFICES ASSUME VotingInv, [Next]_vars PROVE VotingInv' OBVIOUS
<1>1. CASE \E s \in Addr, latest \in Latest \cup {None}, spend \in Spends :
             execute_propose(s, latest, spend)
  BY <1>1, ProposeStep
<1>2. CASE \E s \in Addr, id \in ProposalIds, v \in Vote : execute_vote(s, id, v)
  BY <1>2, VoteStep
<1>3. CASE \E s \in Addr, id \in ProposalIds : execute_execute(s, id) BY <1>3, ExecuteStep
<1>4. CASE \E id \in ProposalIds : execute_close(id) BY <1>4, CloseStep
<1>5. CASE \E list \in MemberLists, remove \in RemoveLists : EditGroup(list, remove)
  BY <1>5, EditStep
<1>6. CASE Fund BY <1>6, FundStep
<1>7. CASE NextBlock BY <1>7, BlockStep
<1>8. CASE UNCHANGED vars BY <1>8, IdleStep
<1> QED BY <1>1, <1>2, <1>3, <1>4, <1>5, <1>6, <1>7, <1>8 DEF Next

LEMMA InitVotingInv == Init => VotingInv
<1> SUFFICES ASSUME Init PROVE VotingInv OBVIOUS
<1>1. GP!IInv BY GroupInit
<1>2. /\ proposals = <<>> /\ ballots = <<>> /\ log = <<>> /\ wallet = [a \in Addr |-> Purse]
      /\ treasury = Treasury /\ funded = 0
  BY DEF Init
<1>3. cfg \in Config
  <2>1. PICK t \in Thresholds, d \in Periods, x \in Executors, dep \in Deposits :
          instantiate(t, d, x, dep)
    BY DEF Init
  <2>2. /\ t \in Threshold /\ d \in Nat /\ dep \in [amount: Nat, refund_failed_proposals: BOOLEAN]
    BY FlexAssumption
  <2> QED BY <2>1, <2>2 DEF instantiate, Config
<1>4. StorageOK BY <1>2, <1>3, FlexAssumption DEF StorageOK
<1>5. AllGood BY <1>2 DEF AllGood, ProposalIds
<1> QED BY <1>1, <1>4, <1>5 DEF VotingInv
-----------------------------------------------------------------------------
(* Verdicts.  Of the proof for the fixed multisig, what is about tallies   *)
(* and thresholds holds here as well; that a tally is covered by its total *)
(* weight is only so for a settled proposal.                               *)
Covered(p) ==
  /\ p.threshold \in Threshold /\ p.votes \in Votes
  /\ p.total_weight \in Nat /\ p.expires \in Nat
  /\ votes_total(p.votes) <= p.total_weight

Later(p, h, q, k) ==
  /\ h \in Nat /\ k \in Nat /\ h <= k
  /\ q.threshold = p.threshold /\ q.total_weight = p.total_weight /\ q.expires = p.expires
  /\ \A v \in Vote : p.votes[v] <= q.votes[v]
  /\ is_expired(p, h) => q.votes = p.votes

Reachable(p) == p.threshold.kind = "absolute_count" => p.threshold.weight <= p.total_weight

LEMMA SameVerdicts ==
  /\ FP!Threshold = Threshold
  /\ \A p, h : /\ FP!is_passed(p, h) <=> is_passed(p, h)
               /\ FP!is_rejected(p, h) <=> is_rejected(p, h)
               /\ FP!Panics(p, h) <=> Panics(p, h)
BY DEF FP!Threshold, Threshold, FP!Percentage, Percentage, FP!is_expired, is_expired,
       FP!is_passed, is_passed, FP!is_rejected, is_rejected, FP!opinions, opinions,
       FP!votes_needed, votes_needed, FP!mul_floor, mul_floor, FP!votes_total, votes_total,
       FP!Panics, Panics

LEMMA SameTallies ==
  /\ \A p : FP!Covered(p) <=> Covered(p)
  /\ \A p : FP!Reachable(p) <=> Reachable(p)
  /\ \A p, h, q, k : FP!Later(p, h, q, k) <=> Later(p, h, q, k)
BY SameVerdicts, SameBallots, SameStatus
   DEF FP!Covered, Covered, FP!Reachable, Reachable, FP!Later, Later

LEMMA PassedIsStable ==
  ASSUME NEW p, NEW q, NEW h, NEW k, Covered(p), Covered(q), Later(p, h, q, k), is_passed(p, h)
  PROVE  is_passed(q, k)
BY FP!PassedIsStable, FixedFacts, SameVerdicts, SameTallies

LEMMA RejectedIsStable ==
  ASSUME NEW p, NEW q, NEW h, NEW k, Covered(p), Covered(q), Later(p, h, q, k),
         is_rejected(p, h)
  PROVE  is_rejected(q, k)
BY FP!RejectedIsStable, FixedFacts, SameVerdicts, SameTallies

LEMMA VerdictsExclude ==
  ASSUME NEW p, Covered(p), NEW h \in Nat
  PROVE  ~ (is_passed(p, h) /\ is_rejected(p, h))
BY FP!VerdictsExclude, FixedFacts, SameVerdicts, SameTallies

LEMMA CoveredNeverPanics ==
  ASSUME NEW p, Covered(p), Reachable(p), NEW h \in Nat
  PROVE  ~ Panics(p, h)
BY FP!CoveredNeverPanics, FixedFacts, SameVerdicts, SameTallies

LEMMA NoPanicLater ==
  ASSUME NEW p, p.threshold \in Threshold, p.votes \in Votes, p.expires \in Nat,
         NEW h \in Nat, NEW k \in Nat, h <= k, ~ Panics(p, h)
  PROVE  ~ Panics(p, k)
BY FP!NoPanicLater, FixedFacts, SameVerdicts, SameBallots

LEMMA UnanimousPasses ==
  ASSUME NEW p, Covered(p), NEW h \in Nat, Reachable(p), p.votes["yes"] = p.total_weight
  PROVE  is_passed(p, h)
BY FP!UnanimousPasses, FixedFacts, SameVerdicts, SameTallies

LEMMA SameTally ==
  ASSUME NEW p, NEW q, SameRules(p, q), NEW h
  PROVE  /\ is_passed(q, h) <=> is_passed(p, h)
         /\ is_rejected(q, h) <=> is_rejected(p, h)
         /\ is_expired(q, h) <=> is_expired(p, h)
         /\ Covered(p) => Covered(q)
         /\ Reachable(p) => Reachable(q)
BY DEF SameRules, is_passed, is_rejected, is_expired, opinions, Covered, Reachable

(* What is known of the verdict on a settled proposal p: the total weight  *)
(* it was made with covers the tally and suffices for the threshold,       *)
(* whatever the group weighed when that was validated; a stored verdict    *)
(* agrees with the tally; and a rejected proposal was rejected by its      *)
(* votes or has expired.                                                   *)
Sound(p, h) ==
  /\ Covered(p) /\ Reachable(p)
  /\ p.status \in {"passed", "executed"} => is_passed(p, h)
  /\ p.status = "rejected" => ~ is_passed(p, h) /\ (is_rejected(p, h) \/ is_expired(p, h))

(* And of any: its stored tally has been computed without underflow.       *)
Verdicts ==
  \A id \in ProposalIds :
    /\ ~ Panics(proposals[id], height)
    /\ log[id].settled => Sound(proposals[id], height)

(* A settled proposal is covered by the weights of its start. *)
LEMMA SettledIsCovered ==
  ASSUME GP!IInv, NEW p, NEW bs, NEW g, NEW h, Good(p, bs, g, members, h), g.settled
  PROVE  Covered(p)
<1> DEFINE vs == StartWeights(members, p)
<1>1. p \in ProposalRecord /\ bs \in BallotMap BY DEF Good
<1>2. vs \in [Addr -> Nat] /\ DOMAIN vs = Addr
  <2>1. \A a \in Addr : Group!WeightOf(AtHeight(members[a], p.start_height)) \in Nat
    BY GroupReads
  <2> QED BY <2>1 DEF StartWeights
<1>3. /\ \A a \in Addr : bs[a] # NoBallot => bs[a].weight = vs[a]
      /\ p.total_weight = Total(vs)
      /\ votes_total(p.votes) = Total(CastWeights(bs))
  BY DEF Good
<1> HIDE DEF vs
<1>4. Total(CastWeights(bs)) <= Total(vs) BY <1>1, <1>2, <1>3, BallotsFit
<1> QED BY <1>1, <1>3, <1>4 DEF Covered, ProposalRecord

(* With the types, this is what the runs check of tallies and ballots.     *)
LEMMA VotingImplies == VotingInv => TypeOK /\ BallotsFollowSnapshot /\ TallyFitsIfSettled
<1> SUFFICES ASSUME VotingInv PROVE TypeOK /\ BallotsFollowSnapshot /\ TallyFitsIfSettled
  OBVIOUS
<1>1. TypeOK BY ProposalFacts DEF TypeOK, VotingInv, StorageOK, BallotMap, InTime
<1>2. BallotsFollowSnapshot
  BY ProposalFacts, GroupReads DEF BallotsFollowSnapshot, Good, VotingInv
<1>3. TallyFitsIfSettled
  BY ProposalFacts, SettledIsCovered DEF TallyFitsIfSettled, VotingInv, Covered
<1> QED BY <1>1, <1>2, <1>3

(* update_status of an open proposal.                                      *)
LEMMA OpenIsSound ==
  ASSUME NEW p, NEW h, NEW q, Covered(p), Reachable(p), p.status = "open", SameRules(p, q),
         q.status = current_status(p, h)
  PROVE  Sound(q, h)
<1>1. /\ is_passed(q, h) <=> is_passed(p, h)
      /\ is_rejected(q, h) <=> is_rejected(p, h)
      /\ is_expired(q, h) <=> is_expired(p, h)
      /\ Covered(q) /\ Reachable(q)
  BY SameTally
<1> QED BY <1>1 DEF Sound, current_status

(* update_status after a vote, r, on a proposal p of any status. *)
LEMMA VotedIsSound ==
  ASSUME NEW p, NEW h \in Nat, NEW r, NEW q, Sound(p, h), Covered(r),
         Later(p, h, r, h), ~ is_expired(p, h), r.status = p.status, SameRules(r, q),
         q.status = current_status(r, h)
  PROVE  Sound(q, h)
<1>1. Reachable(r) BY DEF Sound, Reachable, Later
<1>2. CASE p.status = "open" BY <1>1, <1>2, OpenIsSound
<1>3. CASE p.status # "open"
  <2>1. q.status = p.status BY <1>3 DEF current_status
  <2>2. p.status \in {"passed", "executed"} => is_passed(r, h)
    BY PassedIsStable DEF Sound
  <2>3. p.status = "rejected" => is_rejected(r, h) /\ ~ is_passed(r, h)
    BY RejectedIsStable, VerdictsExclude DEF Sound
  <2>4. /\ is_passed(q, h) <=> is_passed(r, h)
        /\ is_rejected(q, h) <=> is_rejected(r, h)
        /\ Covered(q) /\ Reachable(q)
    BY <1>1, SameTally
  <2> QED BY <2>1, <2>2, <2>3, <2>4 DEF Sound
<1> QED BY <1>2, <1>3

(* A verdict is stored: execute and close. *)
LEMMA RestatedIsSound ==
  ASSUME NEW p, NEW h, NEW q, Sound(p, h), SameRules(p, q),
         \/ q.status = "executed" /\ is_passed(p, h)
         \/ q.status = "rejected" /\ ~ is_passed(p, h) /\ is_expired(p, h)
  PROVE  Sound(q, h)
<1>1. /\ is_passed(q, h) <=> is_passed(p, h)
      /\ is_expired(q, h) <=> is_expired(p, h)
      /\ Covered(p) => Covered(q)
      /\ Reachable(p) => Reachable(q)
  BY SameTally
<1> QED BY <1>1 DEF Sound

(* A block passes. *)
LEMMA AgedIsSound ==
  ASSUME NEW p, NEW h \in Nat, NEW k \in Nat, h <= k, Sound(p, h)
  PROVE  Sound(p, k)
<1>1. Later(p, h, p, k)
  <2>1. \A v \in Vote : p.votes[v] <= p.votes[v] BY DEF Sound, Covered, Votes
  <2> QED BY <2>1 DEF Later
<1>2. is_passed(p, h) => is_passed(p, k) BY <1>1, PassedIsStable DEF Sound
<1>3. is_rejected(p, h) => is_rejected(p, k) /\ ~ is_passed(p, k)
  BY <1>1, RejectedIsStable, VerdictsExclude DEF Sound
<1>4. is_expired(p, h) => is_expired(p, k) /\ (is_passed(p, k) <=> is_passed(p, h))
  <2>1. p.expires \in Nat BY DEF Sound, Covered
  <2>2. is_expired(p, h) => is_expired(p, k) BY <2>1 DEF is_expired
  <2>3. is_expired(p, h) => opinions(p, k) = opinions(p, h) BY <2>2 DEF opinions
  <2> QED BY <2>2, <2>3 DEF is_passed
<1> QED BY <1>2, <1>3, <1>4 DEF Sound

(* What every step does to the verdicts: each proposal is followed by a    *)
(* later version of itself.                                                *)
EachLater ==
  /\ ProposalIds \subseteq ProposalIds'
  /\ \A id \in ProposalIds :
       /\ log'[id].settled = log[id].settled
       /\ Later(proposals[id], height, proposals'[id], height')

VerdictStep == Verdicts' /\ EachLater

LEMMA SameIsLater ==
  ASSUME NEW p \in ProposalRecord, NEW q, SameRules(p, q), NEW h \in Nat, NEW k \in Nat, h <= k
  PROVE  Later(p, h, q, k)
<1>1. \A v \in Vote : p.votes[v] <= p.votes[v] BY DEF ProposalRecord, Votes
<1> QED BY <1>1 DEF SameRules, Later

(* The steps that change one proposal.                                     *)
LEMMA OneVerdictStep ==
  ASSUME VotingInv, Verdicts, NEW id \in ProposalIds, NEW q,
         proposals' = [proposals EXCEPT ![id] = q], height' = height,
         Len(log') = Len(log), \A j \in ProposalIds : log'[j].settled = log[j].settled,
         ~ Panics(q, height), log[id].settled => Sound(q, height),
         Later(proposals[id], height, q, height)
  PROVE  VerdictStep
<1>1. /\ Len(proposals') = Len(proposals)
      /\ \A j \in ProposalIds : proposals'[j] = IF j = id THEN q ELSE proposals[j]
  BY DEF VotingInv, StorageOK, ProposalIds
<1>2. ProposalIds' = ProposalIds BY <1>1 DEF ProposalIds
<1>3. ASSUME NEW j \in ProposalIds
      PROVE  /\ ~ Panics(proposals'[j], height')
             /\ log'[j].settled => Sound(proposals'[j], height')
             /\ Later(proposals[j], height, proposals'[j], height')
  <2>1. CASE j = id BY <1>1, <2>1
  <2>2. CASE j # id
    <3>1. proposals[j] \in ProposalRecord /\ height \in Nat /\ height <= height
      BY ProposalFacts
    <3>2. Later(proposals[j], height, proposals[j], height)
      BY <3>1, SameIsLater DEF SameRules
    <3>3. proposals'[j] = proposals[j] /\ log'[j].settled = log[j].settled BY <1>1, <2>2
    <3> QED BY <3>2, <3>3 DEF Verdicts
  <2> QED BY <2>1, <2>2
<1> QED BY <1>2, <1>3 DEF VerdictStep, Verdicts, EachLater

LEMMA ProposeVerdicts ==
  ASSUME VotingInv, Verdicts, NEW s \in Addr, NEW latest \in Latest \cup {None},
         NEW spend \in Spends, execute_propose(s, latest, spend)
  PROVE  VerdictStep
<1> DEFINE p == NewProposal(s, latest, spend)
           q == update_status(p, height)
           bs == SaveBallot(NoBallots, s, members[s].now, "yes")
           g == [settled |-> Unedited, sent |-> 0, returned |-> 0]
           n == Len(proposals)
<1>1. /\ is_member(s) /\ ~ Panics(p, height) /\ height' = height
      /\ proposals' = Append(proposals, q) /\ log' = Append(log, g)
  BY DEF execute_propose
<1>2. Good(q, bs, g, members, height) BY <1>1, NewIsGood
<1>3. p.status = "open" BY DEF NewProposal
<1>4. SameRules(p, q) /\ q.status = current_status(p, height)
  BY DEF update_status, SameRules, NewProposal
<1>5. q \in ProposalRecord /\ g \in LogRecord BY <1>2 DEF Good
<1> HIDE DEF p, q, bs, g
<1>6. ~ Panics(q, height)
  BY <1>1, <1>3, <1>4 DEF SameRules, Panics, opinions, is_expired
<1>7. g.settled => Sound(q, height)
  <2> SUFFICES ASSUME g.settled PROVE Sound(q, height) OBVIOUS
  <2>1. Covered(q) BY <1>2, SettledIsCovered DEF VotingInv
  <2>2. Covered(p) BY <1>4, <2>1 DEF Covered, SameRules
  <2>3. p.votes["yes"] \in Nat /\ p.votes["yes"] <= p.total_weight
    <3>1. \A v \in Vote : p.votes[v] \in Nat BY <2>2 DEF Covered, Votes
    <3> QED BY <2>2, <3>1 DEF Covered, votes_total, Vote
  <2>4. Reachable(p)
    <3> SUFFICES ASSUME p.threshold.kind = "absolute_count"
                 PROVE  p.threshold.weight <= p.total_weight
      BY DEF Reachable
    <3>1. p.threshold.weight \in Nat /\ p.total_weight \in Nat
      BY <2>2 DEF Covered, Threshold
    <3>2. p.votes["yes"] >= p.threshold.weight \/ p.total_weight >= p.threshold.weight
      BY <1>1, <1>3, <2>3, <3>1 DEF Panics
    <3> QED BY <2>3, <3>1, <3>2
  <2> QED BY <1>3, <1>4, <2>2, <2>4, OpenIsSound
<1>8. /\ Len(proposals') = n + 1 /\ n \in Nat
      /\ \A j \in 1..n : proposals'[j] = proposals[j] /\ log'[j] = log[j]
      /\ proposals'[n + 1] = q /\ log'[n + 1] = g
  BY <1>1, <1>5 DEF VotingInv, StorageOK
<1>9. ProposalIds = 1..n /\ ProposalIds' = ProposalIds \cup {n + 1} BY <1>8 DEF ProposalIds
<1>10. ASSUME NEW j \in ProposalIds
       PROVE  Later(proposals[j], height, proposals[j], height)
  <2>1. proposals[j] \in ProposalRecord /\ height \in Nat /\ height <= height
    BY ProposalFacts
  <2> QED BY <2>1, SameIsLater DEF SameRules
<1>11. EachLater BY <1>1, <1>8, <1>9, <1>10 DEF EachLater
<1>12. Verdicts' BY <1>1, <1>6, <1>7, <1>8, <1>9, ZenonT(60) DEF Verdicts
<1> QED BY <1>11, <1>12 DEF VerdictStep

LEMMA VoteVerdicts ==
  ASSUME VotingInv, Verdicts, NEW s \in Addr, NEW id \in ProposalIds, NEW v \in Vote,
         execute_vote(s, id, v)
  PROVE  VerdictStep
<1> DEFINE p == proposals[id]
           r == WithVote(s, id, v)
           w == VotePower(s, id)
           q == update_status(r, height)
           bs == SaveBallot(ballots[id], s, w, v)
<1>1. /\ CanVote(s, id) /\ ~ Panics(r, height)
      /\ proposals' = [proposals EXCEPT ![id] = q]
      /\ UNCHANGED <<height, log>>
  BY DEF execute_vote
<1>2. Good(q, bs, log[id], members, height) BY <1>1, VotedIsGood
<1>3. /\ w \in Nat /\ r \in ProposalRecord /\ r.votes = add_vote(p.votes, v, w)
      /\ r.status = p.status /\ r.threshold = p.threshold
      /\ r.total_weight = p.total_weight /\ r.expires = p.expires
  BY <1>1, WithVoteFacts
<1>4. p \in ProposalRecord /\ height \in Nat /\ height <= height /\ ~ is_expired(p, height)
  BY <1>1, ProposalFacts DEF CanVote
<1>5. ~ Panics(p, height) /\ (log[id].settled => Sound(p, height)) BY DEF Verdicts
<1> HIDE DEF p, r, w, bs
<1>6. SameRules(r, q) /\ q.status = current_status(r, height) BY <1>3, UpdateStatus
<1> HIDE DEF q
<1>7. Later(p, height, r, height) /\ Later(p, height, q, height)
  <2>1. p.votes \in Votes BY <1>4 DEF ProposalRecord
  <2>2. \A u \in Vote : p.votes[u] <= r.votes[u] BY <1>3, <2>1, AddVote
  <2> QED BY <1>3, <1>4, <1>6, <2>2 DEF Later, SameRules
<1>8. ~ Panics(q, height)
  BY <1>1, <1>6 DEF SameRules, Panics, opinions, is_expired, current_status
<1>9. log[id].settled => Sound(q, height)
  <2> SUFFICES ASSUME log[id].settled PROVE Sound(q, height) OBVIOUS
  <2>1. Covered(q) BY <1>2, SettledIsCovered DEF VotingInv
  <2>2. Covered(r) BY <1>6, <2>1 DEF Covered, SameRules
  <2> QED BY <1>3, <1>4, <1>5, <1>6, <1>7, <2>2, VotedIsSound
<1> QED BY <1>1, <1>7, <1>8, <1>9, OneVerdictStep DEF p

LEMMA RestatedVerdicts ==
  ASSUME VotingInv, VotingInv', Verdicts, NEW id \in ProposalIds, NEW q, NEW g,
         proposals' = [proposals EXCEPT ![id] = q], height' = height,
         log' = [log EXCEPT ![id] = g], g.settled = log[id].settled,
         \/ /\ q = [proposals[id] EXCEPT !.status = "executed"]
            /\ current_status(proposals[id], height) = "passed"
         \/ /\ q = [proposals[id] EXCEPT !.status = "rejected"]
            /\ CanClose(id)
  PROVE  VerdictStep
<1> DEFINE p == proposals[id]
<1>1. p \in ProposalRecord /\ height \in Nat /\ height <= height BY ProposalFacts
<1>2. log[id].settled => Sound(p, height) BY DEF Verdicts
<1>3. SameRules(p, q) /\ q.status \in {"executed", "rejected"}
  BY <1>1 DEF ProposalRecord, SameRules
<1>4. ~ Panics(q, height) BY <1>3 DEF Panics
<1>5. Later(p, height, q, height) BY <1>1, <1>3, SameIsLater
<1>6. ASSUME log[id].settled PROVE Sound(q, height)
  <2>1. CASE q.status = "executed"
    <3>1. current_status(p, height) = "passed" BY <1>1, <2>1 DEF ProposalRecord
    <3>2. is_passed(p, height) BY <1>2, <1>6, <3>1 DEF current_status, Sound
    <3> QED BY <1>2, <1>3, <1>6, <2>1, <3>2, RestatedIsSound
  <2>2. CASE q.status = "rejected"
    <3>1. CanClose(id) BY <1>1, <2>2 DEF ProposalRecord
    <3>2. p.status = "open" BY <1>1, <3>1 DEF CanClose, ProposalRecord, Status
    <3>3. ~ is_passed(p, height) /\ is_expired(p, height)
      BY <3>1, <3>2 DEF CanClose, current_status
    <3> QED BY <1>2, <1>3, <1>6, <2>2, <3>3, RestatedIsSound
  <2> QED BY <1>3, <2>1, <2>2
<1>7. Len(log') = Len(log)
  <2>1. Len(log') = Len(proposals') /\ Len(proposals') = Len(proposals)
    BY DEF VotingInv, StorageOK
  <2> QED BY <2>1 DEF VotingInv, StorageOK
<1>8. \A j \in ProposalIds : log'[j].settled = log[j].settled
  <2>1. log \in Seq(LogRecord) /\ Len(log) = Len(proposals) BY DEF VotingInv, StorageOK
  <2> QED BY <2>1 DEF ProposalIds
<1> QED BY <1>4, <1>5, <1>6, <1>7, <1>8, OneVerdictStep

LEMMA ExecuteVerdicts ==
  ASSUME VotingInv, Verdicts, NEW s \in Addr, NEW id \in ProposalIds, execute_execute(s, id)
  PROVE  VerdictStep
<1> DEFINE q == [proposals[id] EXCEPT !.status = "executed"]
           g == [log[id] EXCEPT !.sent = @ + 1, !.returned = @ + 1]
<1>1. /\ proposals' = [proposals EXCEPT ![id] = q] /\ height' = height
      /\ current_status(proposals[id], height) = "passed"
  BY DEF execute_execute
<1>2. /\ log \in Seq(LogRecord) /\ id \in 1..Len(log) /\ log[id] \in LogRecord
  BY ProposalFacts DEF VotingInv, StorageOK
<1>3. log' = [log EXCEPT ![id] = g] BY <1>2 DEF execute_execute
<1>4. g.settled = log[id].settled BY <1>2 DEF LogRecord
<1>5. VotingInv' BY ExecuteStep
<1> HIDE DEF g
<1> QED BY <1>1, <1>3, <1>4, <1>5, RestatedVerdicts

LEMMA CloseVerdicts ==
  ASSUME VotingInv, Verdicts, NEW id \in ProposalIds, execute_close(id)
  PROVE  VerdictStep
<1> DEFINE q == [proposals[id] EXCEPT !.status = "rejected"]
           paid == [log[id] EXCEPT !.returned = @ + 1]
<1>1. /\ proposals' = [proposals EXCEPT ![id] = q] /\ height' = height /\ CanClose(id)
  BY DEF execute_close
<1>2. /\ log \in Seq(LogRecord) /\ id \in 1..Len(log) /\ log[id] \in LogRecord
  BY ProposalFacts DEF VotingInv, StorageOK
<1>3. \/ log' = [log EXCEPT ![id] = paid]
      \/ log' = [log EXCEPT ![id] = log[id]]
  BY <1>2 DEF execute_close
<1>4. paid.settled = log[id].settled BY <1>2 DEF LogRecord
<1>5. VotingInv' BY CloseStep
<1> HIDE DEF paid
<1> QED BY <1>1, <1>3, <1>4, <1>5, RestatedVerdicts

(* Edits of the group, transfers and blocks. *)
LEMMA PassiveVerdicts ==
  ASSUME VotingInv, Verdicts, UNCHANGED <<proposals, log>>, height' \in {height, height + 1}
  PROVE  VerdictStep
<1>1. height \in Nat /\ height' \in Nat /\ height <= height' BY GroupReads DEF VotingInv
<1>2. ASSUME NEW j \in ProposalIds
      PROVE  /\ ~ Panics(proposals[j], height')
             /\ log[j].settled => Sound(proposals[j], height')
             /\ Later(proposals[j], height, proposals[j], height')
  <2>1. /\ proposals[j] \in ProposalRecord /\ ~ Panics(proposals[j], height)
        /\ log[j].settled => Sound(proposals[j], height)
    BY ProposalFacts DEF Verdicts
  <2>2. /\ proposals[j].threshold \in Threshold /\ proposals[j].votes \in Votes
        /\ proposals[j].expires \in Nat
    BY <2>1 DEF ProposalRecord
  <2> QED BY <1>1, <2>1, <2>2, NoPanicLater, AgedIsSound, SameIsLater DEF SameRules
<1> QED BY <1>2 DEF VerdictStep, Verdicts, EachLater, ProposalIds

LEMMA NextVerdicts == VotingInv /\ Verdicts /\ [Next]_vars => VerdictStep
<1> SUFFICES ASSUME VotingInv, Verdicts, [Next]_vars PROVE VerdictStep OBVIOUS
<1>1. CASE \E s \in Addr, latest \in Latest \cup {None}, spend \in Spends :
             execute_propose(s, latest, spend)
  BY <1>1, ProposeVerdicts
<1>2. CASE \E s \in Addr, id \in ProposalIds, v \in Vote : execute_vote(s, id, v)
  BY <1>2, VoteVerdicts
<1>3. CASE \E s \in Addr, id \in ProposalIds : execute_execute(s, id) BY <1>3, ExecuteVerdicts
<1>4. CASE \E id \in ProposalIds : execute_close(id) BY <1>4, CloseVerdicts
<1>5. CASE \E list \in MemberLists, remove \in RemoveLists : EditGroup(list, remove)
  BY <1>5, PassiveVerdicts DEF EditGroup, multisigVars
<1>6. CASE Fund BY <1>6, PassiveVerdicts DEF Fund
<1>7. CASE NextBlock BY <1>7, PassiveVerdicts DEF NextBlock, multisigVars
<1>8. CASE UNCHANGED vars BY <1>8, PassiveVerdicts DEF vars
<1> QED BY <1>1, <1>2, <1>3, <1>4, <1>5, <1>6, <1>7, <1>8 DEF Next

-----------------------------------------------------------------------------
(* What the runs check of verdicts. *)
LEMMA BallotMapTypes ==
  ASSUME NEW bs \in BallotMap
  PROVE  \A vote : CastFor(bs, vote) \in [Addr -> Nat]
BY FP!BallotMapTypes, FixedFacts, SameBallots DEF BallotMap, FP!BallotMap

LEMMA VerdictsMatch == Verdicts => VerdictMatchesTally
BY DEF Verdicts, Sound, VerdictMatchesTally

LEMMA VerdictsSure == Verdicts /\ VerdictStep => SureStep
<1> SUFFICES ASSUME Verdicts, VerdictStep, NEW id \in ProposalIds, log[id].settled
             PROVE  /\ is_passed(proposals[id], height) => is_passed(proposals'[id], height')
                    /\ is_rejected(proposals[id], height) => is_rejected(proposals'[id], height')
  BY DEF SureStep
<1>1. Covered(proposals[id]) BY DEF Verdicts, Sound
<1>2. /\ id \in ProposalIds' /\ log'[id].settled
      /\ Later(proposals[id], height, proposals'[id], height')
  BY DEF VerdictStep, EachLater
<1>3. Covered(proposals'[id]) BY <1>2 DEF VerdictStep, Verdicts, Sound
<1> QED BY <1>1, <1>2, <1>3, PassedIsStable, RejectedIsStable

LEMMA VotesNeverPanic == VotingInv /\ Verdicts => VotingNeverPanics
<1> SUFFICES ASSUME VotingInv, Verdicts, NEW s \in Addr, NEW id \in ProposalIds, NEW v \in Vote,
                    log[id].settled, CanVote(s, id)
             PROVE  ~ Panics(WithVote(s, id, v), height)
  BY DEF VotingNeverPanics
<1> DEFINE r == WithVote(s, id, v)
           q == update_status(r, height)
           bs == SaveBallot(ballots[id], s, VotePower(s, id), v)
<1>1. Good(q, bs, log[id], members, height) BY VotedIsGood
<1>2. /\ r \in ProposalRecord /\ r.threshold = proposals[id].threshold
      /\ r.total_weight = proposals[id].total_weight
  BY WithVoteFacts
<1>3. Reachable(proposals[id]) /\ height \in Nat BY ProposalFacts DEF Verdicts, Sound
<1> HIDE DEF r, bs
<1>4. SameRules(r, q) BY <1>2, UpdateStatus
<1> HIDE DEF q
<1>5. Covered(q) BY <1>1, SettledIsCovered DEF VotingInv
<1>6. Covered(r) /\ Reachable(r) BY <1>2, <1>3, <1>4, <1>5 DEF Covered, SameRules, Reachable
<1>7. ~ Panics(r, height) BY <1>3, <1>6, CoveredNeverPanics
<1> QED BY <1>7 DEF r

(* Those with any weight when the block began are all of the total weight. *)
LEMMA UnanimousConsent == VotingInv /\ Verdicts => UnanimousYesPasses
<1> SUFFICES ASSUME VotingInv, Verdicts, NEW id \in ProposalIds, log[id].settled,
                    \A a \in Addr : is_voting_member(a, proposals[id].start_height)
                                      => ballots[id][a].vote = "yes"
             PROVE  current_status(proposals[id], height) \in {"passed", "executed"}
  BY DEF UnanimousYesPasses
<1> DEFINE p == proposals[id]
           bs == ballots[id]
           yes == CastFor(bs, "yes")
           vs == StartWeights(members, p)
<1>1. /\ Good(p, bs, log[id], members, height) /\ p \in ProposalRecord /\ bs \in BallotMap
      /\ Sound(p, height) /\ height \in Nat
  BY ProposalFacts DEF Verdicts
<1>2. yes \in [Addr -> Nat] BY <1>1, BallotMapTypes
<1>3. vs \in [Addr -> Nat]
  <2>1. \A a \in Addr : Group!WeightOf(AtHeight(members[a], p.start_height)) \in Nat
    BY GroupReads DEF VotingInv
  <2> QED BY <2>1 DEF StartWeights
<1>4. \A a \in Addr : vs[a] <= yes[a]
  <2> SUFFICES ASSUME NEW a \in Addr PROVE vs[a] <= yes[a] OBVIOUS
  <2>1. vs[a] \in Nat /\ yes[a] \in Nat BY <1>2, <1>3
  <2>2. CASE vs[a] = 0
    <3> HIDE DEF vs, yes
    <3> QED BY <2>1, <2>2
  <2>3. CASE vs[a] # 0
    <3>1. vs[a] = Group!WeightOf(Group!query_member(a, p.start_height))
      BY GroupReads DEF VotingInv, StartWeights
    <3>2. is_voting_member(a, p.start_height)
      <4>1. /\ Group!query_member(a, p.start_height) # None
            /\ vs[a] = Group!query_member(a, p.start_height)
        BY <2>3, <3>1 DEF Group!WeightOf
      <4> HIDE DEF vs
      <4> QED BY <2>1, <2>3, <4>1 DEF is_voting_member
    <3>3. bs[a].vote = "yes" /\ bs[a] # NoBallot BY <3>2 DEF NoBallot
    <3>4. bs[a].weight = vs[a] BY <1>1, <3>3 DEF Good
    <3>5. yes[a] = vs[a] BY <3>3, <3>4 DEF CastFor
    <3> HIDE DEF vs, yes
    <3> QED BY <2>1, <3>5
  <2> QED BY <2>2, <2>3
<1>5. p.votes["yes"] = Total(yes) /\ p.total_weight = Total(vs) BY <1>1 DEF Good, Vote
<1> HIDE DEF p, bs, yes, vs
<1>6. Total(vs) <= Total(yes) BY <1>2, <1>3, <1>4, AddrAssumption, TotalMonotone
<1>7. p.votes["yes"] = p.total_weight
  <2>1. Covered(p) BY <1>1 DEF Sound
  <2>2. \A v \in Vote : p.votes[v] \in Nat BY <2>1 DEF Covered, Votes
  <2>3. p.votes["yes"] <= p.total_weight BY <2>1, <2>2 DEF Covered, votes_total, Vote
  <2>4. p.votes["yes"] \in Nat /\ p.total_weight \in Nat BY <2>1, <2>2 DEF Covered, Vote
  <2> QED BY <1>5, <1>6, <2>3, <2>4
<1>8. is_passed(p, height) BY <1>1, <1>7, UnanimousPasses DEF Sound
<1> QED BY <1>1, <1>8 DEF Sound, current_status, ProposalRecord, Status, p

LEMMA SettledInTheEnd == VotingInv /\ Verdicts => NeverStuck
<1> SUFFICES ASSUME VotingInv, Verdicts, NEW id \in ProposalIds,
                    is_expired(proposals[id], height),
                    proposals[id].status \notin {"executed", "rejected"}
             PROVE  \/ /\ ~ Panics(proposals[id], height)
                       /\ current_status(proposals[id], height) = "passed"
                    \/ CanClose(id)
  BY DEF NeverStuck
<1>1. ~ Panics(proposals[id], height) BY DEF Verdicts
<1>2. proposals[id].status \in {"open", "passed"} BY ProposalFacts DEF ProposalRecord, Status
<1>3. proposals[id].status = "passed" => current_status(proposals[id], height) = "passed"
  BY DEF current_status
<1> QED BY <1>1, <1>2, <1>3 DEF CanClose

-----------------------------------------------------------------------------
(* The refinement of Lifecycle.                                            *)
LEMMA RecordStatus == \A p \in ProposalRecord : p.status \in Status
BY DEF ProposalRecord

SentOf(lg, n) == [id \in 1..n |-> lg[id].sent]

LEMMA Mapping ==
  /\ ReportedStatus = Reported(proposals, height)
  /\ ReportedStatus' = Reported(proposals', height')
  /\ Dispatched = SentOf(log, Len(proposals))
  /\ Dispatched' = SentOf(log', Len(proposals'))
BY DEF ReportedStatus, Reported, ProposalIds, Dispatched, SentOf

(* Steps that add no proposal and send nothing.                            *)
LEMMA DecideRefines ==
  ASSUME VotingInv, VotingInv', Len(proposals') = Len(proposals),
         \A id \in ProposalIds : log'[id].sent = log[id].sent,
         \A id \in ProposalIds : KeepsVerdict(proposals[id], height, proposals'[id], height')
  PROVE  LC!Decide
<1>1. proposals \in Seq(ProposalRecord) /\ proposals' \in Seq(ProposalRecord)
  BY DEF VotingInv, StorageOK
<1>2. /\ Len(Reported(proposals', height')) = Len(Reported(proposals, height))
      /\ \A id \in 1..Len(Reported(proposals, height)) :
           Reported(proposals', height')[id] # Reported(proposals, height)[id] =>
             /\ Reported(proposals, height)[id] = "open"
             /\ Reported(proposals', height')[id] \in {"passed", "rejected"}
  BY <1>1, RecordStatus, ReportDecided DEF ProposalIds
<1>3. SentOf(log', Len(proposals')) = SentOf(log, Len(proposals)) BY DEF SentOf, ProposalIds
<1> QED BY <1>2, <1>3, Mapping DEF LC!Decide

LEMMA ProposeRefines ==
  ASSUME VotingInv, VotingInv', NEW s \in Addr, NEW latest \in Latest \cup {None},
         NEW spend \in Spends, execute_propose(s, latest, spend)
  PROVE  LC!Submit
<1> DEFINE q == update_status(NewProposal(s, latest, spend), height)
           bs == SaveBallot(NoBallots, s, members[s].now, "yes")
           g == [settled |-> Unedited, sent |-> 0, returned |-> 0]
           n == Len(proposals)
<1>1. /\ proposals' = Append(proposals, q) /\ log' = Append(log, g)
      /\ height' = height /\ is_member(s)
  BY DEF execute_propose
<1>2. /\ Good(q, bs, g, members, height)
      /\ current_status(q, height) \in {"open", "passed", "rejected"}
  BY <1>1, NewIsGood, ZenonT(60)
<1>3. q \in ProposalRecord /\ g \in LogRecord BY <1>2 DEF Good
<1>4. g.sent = 0 OBVIOUS
<1> HIDE DEF q, g
<1>5. /\ proposals \in Seq(ProposalRecord) /\ log \in Seq(LogRecord)
      /\ Len(log) = n /\ n \in Nat
  BY DEF VotingInv, StorageOK
<1>6. Reported(proposals', height) = Append(Reported(proposals, height), current_status(q, height))
  BY <1>1, <1>3, <1>5, RecordStatus, ReportAppended
<1>7. /\ Len(proposals') = n + 1 /\ log'[n + 1] = g
      /\ \A id \in 1..n : log'[id] = log[id] /\ log[id] \in LogRecord
  BY <1>1, <1>3, <1>5
<1>8. SentOf(log', n + 1) = Append(SentOf(log, n), 0)
  <2>1. n + 1 \in 1..(n + 1) /\ \A id \in 1..(n + 1) : id \in 1..n \/ id = n + 1 BY <1>5
  <2>2. \A id \in 1..(n + 1) : log'[id].sent \in Nat
    BY <1>3, <1>7, <2>1 DEF LogRecord
  <2>3. SentOf(log', n + 1) \in [1..(n + 1) -> Nat] /\ SentOf(log, n) \in [1..n -> Nat]
    BY <1>7, <2>2 DEF SentOf, LogRecord
  <2>4. /\ \A id \in 1..n : SentOf(log', n + 1)[id] = SentOf(log, n)[id]
        /\ SentOf(log', n + 1)[n + 1] = 0
    BY <1>4, <1>5, <1>7, <2>1 DEF SentOf
  <2> HIDE DEF n
  <2> QED BY <1>5, <2>3, <2>4, AppendedFunction
<1> QED BY <1>1, <1>2, <1>6, <1>7, <1>8, Mapping DEF LC!Submit

LEMMA VoteRefines ==
  ASSUME VotingInv, VotingInv', NEW s \in Addr, NEW id \in ProposalIds, NEW v \in Vote,
         execute_vote(s, id, v)
  PROVE  LC!Decide
<1> DEFINE q == update_status(WithVote(s, id, v), height)
           bs == SaveBallot(ballots[id], s, VotePower(s, id), v)
<1>1. /\ CanVote(s, id) /\ proposals' = [proposals EXCEPT ![id] = q]
      /\ UNCHANGED <<height, log>>
  BY DEF execute_vote
<1>2. Good(q, bs, log[id], members, height) /\ KeepsVerdict(proposals[id], height, q, height)
  BY <1>1, VotedIsGood
<1> HIDE DEF q
<1>3. /\ Len(proposals') = Len(proposals)
      /\ \A j \in ProposalIds : proposals'[j] = IF j = id THEN q ELSE proposals[j]
  BY <1>1 DEF VotingInv, StorageOK, ProposalIds
<1>4. \A j \in ProposalIds : KeepsVerdict(proposals[j], height, proposals'[j], height')
  BY <1>1, <1>2, <1>3 DEF KeepsVerdict
<1> QED BY <1>1, <1>3, <1>4, DecideRefines

LEMMA ExecuteRefines ==
  ASSUME VotingInv, NEW s \in Addr, NEW id \in ProposalIds, execute_execute(s, id)
  PROVE  LC!Send(id) /\ id \in 1..Len(ReportedStatus)
<1> DEFINE p == proposals[id]
           q == [p EXCEPT !.status = "executed"]
<1>1. /\ current_status(p, height) = "passed" /\ proposals' = [proposals EXCEPT ![id] = q]
      /\ height' = height
      /\ log' = [log EXCEPT ![id].sent = @ + 1, ![id].returned = @ + 1]
  BY DEF execute_execute
<1>2. /\ p \in ProposalRecord /\ proposals \in Seq(ProposalRecord) /\ log \in Seq(LogRecord)
      /\ id \in 1..Len(proposals) /\ Len(log) = Len(proposals) /\ Len(proposals) \in Nat
  BY ProposalFacts DEF VotingInv, StorageOK
<1>3. q \in ProposalRecord /\ q.status = "executed" BY <1>2 DEF ProposalRecord, Status
<1> HIDE DEF q
<1>4. current_status(q, height) = "executed" BY <1>3 DEF current_status
<1>5. /\ Reported(proposals', height') = [Reported(proposals, height) EXCEPT ![id] = "executed"]
      /\ Reported(proposals, height)[id] = "passed"
      /\ Len(Reported(proposals, height)) = Len(proposals)
  <2>1. Reported([proposals EXCEPT ![id] = q], height)
          = [Reported(proposals, height) EXCEPT ![id] = "executed"]
    <3>1. /\ proposals \in Seq(ProposalRecord) /\ id \in 1..Len(proposals)
          /\ q \in ProposalRecord
      BY <1>2, <1>3
    <3>2. Reported([proposals EXCEPT ![id] = q], height)
            = [Reported(proposals, height) EXCEPT ![id] = current_status(q, height)]
      BY <3>1, RecordStatus, ReportReplaced
    <3> QED BY <1>4, <3>2
  <2>2. /\ Reported(proposals, height)[id] = current_status(p, height)
        /\ Len(Reported(proposals, height)) = Len(proposals)
    BY <1>2, RecordStatus, ReportFields
  <2> QED BY <1>1, <2>1, <2>2
<1>6. Len(proposals') = Len(proposals) BY <1>1, <1>2
<1>7. \A j \in 1..Len(proposals) : log'[j].sent = IF j = id THEN log[id].sent + 1 ELSE log[j].sent
  BY <1>1, <1>2 DEF LogRecord
<1>8. SentOf(log', Len(proposals)) = [SentOf(log, Len(proposals)) EXCEPT ![id] = @ + 1]
  BY <1>2, <1>7 DEF SentOf
<1> QED BY <1>1, <1>2, <1>5, <1>6, <1>8, Mapping DEF LC!Send

(* Closing stores what was reported before.                                *)
LEMMA CloseRefines ==
  ASSUME VotingInv, VotingInv', NEW id \in ProposalIds, execute_close(id)
  PROVE  LC!Decide
<1> DEFINE p == proposals[id]
           q == [p EXCEPT !.status = "rejected"]
<1>1. /\ CanClose(id) /\ proposals' = [proposals EXCEPT ![id] = q] /\ height' = height
  BY DEF execute_close
<1>2. /\ p \in ProposalRecord /\ log \in Seq(LogRecord) /\ Len(log) = Len(proposals)
  BY ProposalFacts DEF VotingInv, StorageOK
<1>3. q \in ProposalRecord /\ q.status = "rejected" BY <1>2 DEF ProposalRecord, Status
<1>4. current_status(p, height) = "rejected"
  BY <1>1, <1>2 DEF CanClose, current_status, ProposalRecord, Status
<1>5. \/ log' = log
      \/ log' = [log EXCEPT ![id] = [log[id] EXCEPT !.returned = log[id].returned + 1]]
  BY DEF execute_close
<1>6. \A j \in ProposalIds : log'[j].sent = log[j].sent
  <2>1. log[id] \in LogRecord /\ DOMAIN log = ProposalIds BY <1>2 DEF ProposalIds
  <2>2. \A r : [log[id] EXCEPT !.returned = r].sent = log[id].sent
    BY <2>1, Zenon DEF LogRecord
  <2>3. ASSUME NEW r, log' = [log EXCEPT ![id] = [log[id] EXCEPT !.returned = r]],
               NEW j \in ProposalIds
        PROVE  log'[j].sent = log[j].sent
    BY <2>1, <2>2, <2>3, Zenon
  <2> QED BY <1>5, <2>3
<1> HIDE DEF p, q
<1>7. KeepsVerdict(p, height, q, height) BY <1>3, <1>4 DEF KeepsVerdict, current_status
<1>8. /\ Len(proposals') = Len(proposals)
      /\ \A j \in ProposalIds : proposals'[j] = IF j = id THEN q ELSE proposals[j]
  BY <1>1 DEF VotingInv, StorageOK, ProposalIds
<1>9. \A j \in ProposalIds : KeepsVerdict(proposals[j], height, proposals'[j], height')
  BY <1>1, <1>7, <1>8 DEF KeepsVerdict, p
<1> QED BY <1>6, <1>8, <1>9, DecideRefines

LEMMA StepRefines ==
  VotingInv /\ VotingInv' /\ [Next]_vars => [LC!Next]_<<ReportedStatus, Dispatched>>
<1> SUFFICES ASSUME VotingInv, VotingInv', [Next]_vars
             PROVE  [LC!Next]_<<ReportedStatus, Dispatched>>
  OBVIOUS
<1>1. CASE \E s \in Addr, latest \in Latest \cup {None}, spend \in Spends :
             execute_propose(s, latest, spend)
  BY <1>1, ProposeRefines DEF LC!Next
<1>2. CASE \E s \in Addr, id \in ProposalIds, v \in Vote : execute_vote(s, id, v)
  BY <1>2, VoteRefines DEF LC!Next
<1>3. CASE \E s \in Addr, id \in ProposalIds : execute_execute(s, id)
  BY <1>3, ExecuteRefines DEF LC!Next
<1>4. CASE \E id \in ProposalIds : execute_close(id)
  BY <1>4, CloseRefines DEF LC!Next
<1>5. CASE \E list \in MemberLists, remove \in RemoveLists : EditGroup(list, remove)
  <2>1. UNCHANGED <<proposals, log>> BY <1>5 DEF EditGroup, multisigVars
  <2> QED BY <1>5, <2>1, EditStep, DecideRefines DEF LC!Next
<1>6. CASE Fund
  <2>1. UNCHANGED <<proposals, log>> BY <1>6 DEF Fund
  <2> QED BY <1>6, <2>1, FundStep, DecideRefines DEF LC!Next
<1>7. CASE NextBlock
  <2>1. UNCHANGED <<proposals, log>> BY <1>7 DEF NextBlock, multisigVars
  <2> QED BY <1>7, <2>1, BlockStep, DecideRefines DEF LC!Next
<1>8. CASE UNCHANGED vars
  BY <1>8 DEF vars, ReportedStatus, Dispatched, ProposalIds
<1> QED BY <1>1, <1>2, <1>3, <1>4, <1>5, <1>6, <1>7, <1>8 DEF Next

LEMMA InitRefines == Init => LC!Init
<1> SUFFICES ASSUME Init PROVE LC!Init OBVIOUS
<1>1. ProposalIds = {} BY DEF Init, ProposalIds
<1>2. ReportedStatus = <<>> /\ Dispatched = <<>> BY <1>1 DEF ReportedStatus, Dispatched
<1> QED BY <1>2 DEF LC!Init
-----------------------------------------------------------------------------
(* The deposits.  Beside VotingInv, which bounds what was returned, the    *)
(* proof needs the two sums of DepositsAccounted as functions of the       *)
(* proposals and their history, and the proposals that tie up a deposit.   *)
HeldOf(lg, n, amount) == [id \in 1..n |-> amount * (1 - lg[id].returned)]
SpentOf(ps, lg, n) == [id \in 1..n |-> ps[id].spend * lg[id].sent]
Owing(ps, lg, n, a) == {id \in 1..n : ps[id].proposer = a /\ lg[id].returned = 0}

(* The books balance: those of the multisig and those of account a.        *)
Balanced(ps, lg, n, amount, held, in) ==
  held + Total(SpentOf(ps, lg, n)) = Treasury + in + Total(HeldOf(lg, n, amount))
OwnBalance(ps, lg, n, amount, own, a) ==
  own + amount * Cardinality(Owing(ps, lg, n, a)) = Purse

Money ==
  /\ Balanced(proposals, log, Len(proposals), cfg.deposit.amount, treasury, funded)
  /\ \A a \in Addr :
       OwnBalance(proposals, log, Len(proposals), cfg.deposit.amount, wallet[a], a)

LEMMA Products ==
  /\ \A a, b \in Nat : a * b \in Nat /\ a * (b + 1) = a * b + a
  /\ \A a \in Nat : a * 0 = 0 /\ a * 1 = a /\ a * (1 - 0) = a /\ a * (1 - 1) = 0
OBVIOUS

LEMMA SumExtended ==
  ASSUME NEW n \in Nat, NEW f \in [1..n -> Nat], NEW g \in [1..(n + 1) -> Nat],
         \A id \in 1..n : g[id] = f[id]
  PROVE  Total(g) = Total(f) + g[n + 1] /\ Total(f) \in Nat /\ Total(g) \in Nat
<1> DEFINE I == 1..n
           x == n + 1
<1>1. IsFiniteSet(I) /\ IsFiniteSet(1..x) BY FS_Interval
<1>2. x \notin I /\ 1..x = I \cup {x} /\ g[x] \in Nat OBVIOUS
<1>3. f \in [I -> Nat] /\ g \in [I \cup {x} -> Nat] /\ \A id \in I : g[id] = f[id] BY <1>2
<1>4. Total(f) \in Nat /\ Total(g) \in Nat BY <1>1, TotalType
<1> HIDE DEF I, x
<1>5. Total(g) = Total(f) + g[x] BY <1>1, <1>2, <1>3, TotalExtend
<1> QED BY <1>4, <1>5 DEF x

LEMMA SumChanged ==
  \A n \in Nat : \A f, g \in [1..n -> Nat] : \A id \in 1..n :
    (\A j \in 1..n : j # id => g[j] = f[j]) =>
       /\ Total(g) = Total(f) - f[id] + g[id]
       /\ Total(f) \in Nat /\ Total(g) \in Nat
<1> SUFFICES ASSUME NEW n \in Nat, NEW f \in [1..n -> Nat], NEW g \in [1..n -> Nat],
                    NEW id \in 1..n, \A j \in 1..n : j # id => g[j] = f[j]
             PROVE  /\ Total(g) = Total(f) - f[id] + g[id]
                    /\ Total(f) \in Nat /\ Total(g) \in Nat
  OBVIOUS
<1> DEFINE I == 1..n
<1>1. IsFiniteSet(I) BY FS_Interval
<1>2. f \in [I -> Nat] /\ g \in [I -> Nat] /\ id \in I /\ \A j \in I \ {id} : g[j] = f[j]
  OBVIOUS
<1> HIDE DEF I
<1> QED BY <1>1, <1>2, TotalChanged

(* One more owed, at the same price. *)
LEMMA OneMore ==
  ASSUME NEW D, IsFiniteSet(D), NEW x, x \notin D, NEW amount \in Nat
  PROVE  /\ amount * Cardinality(D \cup {x}) = amount * Cardinality(D) + amount
         /\ amount * Cardinality(D) \in Nat
<1>1. Cardinality(D) \in Nat /\ Cardinality(D \cup {x}) = Cardinality(D) + 1
  BY FS_CardinalityType, FS_AddElement
<1> QED BY <1>1, Products

LEMMA OneLess ==
  ASSUME NEW D, IsFiniteSet(D), NEW x \in D, NEW amount \in Nat
  PROVE  /\ amount * Cardinality(D) = amount * Cardinality(D \ {x}) + amount
         /\ amount * Cardinality(D \ {x}) \in Nat
<1> DEFINE E == D \ {x}
<1>1. IsFiniteSet(E) BY FS_RemoveElement
<1>2. D = E \cup {x} /\ x \notin E OBVIOUS
<1> HIDE DEF E
<1>3. /\ amount * Cardinality(E \cup {x}) = amount * Cardinality(E) + amount
      /\ amount * Cardinality(E) \in Nat
  BY <1>1, <1>2, OneMore
<1>4. amount * Cardinality(D) = amount * Cardinality(E) + amount
  BY <1>2, <1>3, Zenon
<1> QED BY <1>3, <1>4, Zenon DEF E

LEMMA BooksTypes ==
  ASSUME NEW n \in Nat, NEW ps \in Seq(ProposalRecord), Len(ps) = n,
         NEW lg \in Seq(LogRecord), Len(lg) = n, NEW amount \in Nat
  PROVE  /\ HeldOf(lg, n, amount) \in [1..n -> Nat]
         /\ SpentOf(ps, lg, n) \in [1..n -> Nat]
         /\ Total(HeldOf(lg, n, amount)) \in Nat /\ Total(SpentOf(ps, lg, n)) \in Nat
         /\ \A id \in 1..n : ps[id].spend \in Nat /\ lg[id].sent \in Nat
         /\ \A a : IsFiniteSet(Owing(ps, lg, n, a))
<1>1. \A id \in 1..n : ps[id] \in ProposalRecord /\ lg[id] \in LogRecord OBVIOUS
<1>2. ASSUME NEW id \in 1..n
      PROVE  /\ ps[id].spend \in Nat /\ lg[id].sent \in Nat
             /\ amount * (1 - lg[id].returned) \in Nat
             /\ ps[id].spend * lg[id].sent \in Nat
  <2>1. ps[id].spend \in Nat BY <1>1 DEF ProposalRecord
  <2>2. lg[id].sent \in Nat /\ (lg[id].returned = 0 \/ lg[id].returned = 1)
    BY <1>1 DEF LogRecord
  <2>3. \A r : r = 0 \/ r = 1 => amount * (1 - r) \in Nat OBVIOUS
  <2> QED BY <2>1, <2>2, <2>3, Products, Zenon
<1>3. IsFiniteSet(1..n) BY FS_Interval
<1>4. \A a : Owing(ps, lg, n, a) \subseteq 1..n BY DEF Owing
<1>5. \A a : IsFiniteSet(Owing(ps, lg, n, a)) BY <1>3, <1>4, FS_Subset
<1>6. HeldOf(lg, n, amount) \in [1..n -> Nat] BY <1>2, Zenon DEF HeldOf
<1>7. SpentOf(ps, lg, n) \in [1..n -> Nat] BY <1>2, Zenon DEF SpentOf
<1>8. \A f \in [1..n -> Nat] : Total(f) \in Nat BY <1>3, TotalType
<1>9. Total(HeldOf(lg, n, amount)) \in Nat /\ Total(SpentOf(ps, lg, n)) \in Nat
  BY <1>6, <1>7, <1>8, Zenon
<1> QED BY <1>2, <1>5, <1>6, <1>7, <1>9
(* A proposal with a deposit is added. *)
LEMMA DepositTaken ==
  ASSUME NEW n \in Nat, NEW ps \in Seq(ProposalRecord), Len(ps) = n,
         NEW lg \in Seq(LogRecord), Len(lg) = n, NEW amount \in Nat,
         NEW qs \in Seq(ProposalRecord), Len(qs) = n + 1,
         NEW mg \in Seq(LogRecord), Len(mg) = n + 1,
         \A id \in 1..n : qs[id] = ps[id] /\ mg[id] = lg[id],
         mg[n + 1].sent = 0, mg[n + 1].returned = 0, NEW s, s = qs[n + 1].proposer,
         NEW held \in Nat, NEW in \in Nat, Balanced(ps, lg, n, amount, held, in)
  PROVE  /\ Balanced(qs, mg, n + 1, amount, held + amount, in)
         /\ \A a, own : own \in Nat /\ OwnBalance(ps, lg, n, amount, own, a) =>
              OwnBalance(qs, mg, n + 1, amount, IF a = s THEN own - amount ELSE own, a)
<1>1. /\ n + 1 \in Nat /\ n + 1 \notin 1..n /\ n + 1 \in 1..(n + 1)
      /\ \A id : id \in 1..(n + 1) <=> id \in 1..n \/ id = n + 1
  OBVIOUS
<1> DEFINE H == HeldOf(lg, n, amount)     HH == HeldOf(mg, n + 1, amount)
           S == SpentOf(ps, lg, n)        SS == SpentOf(qs, mg, n + 1)
<1>2. /\ H \in [1..n -> Nat] /\ S \in [1..n -> Nat]
      /\ \A a : IsFiniteSet(Owing(ps, lg, n, a))
  BY BooksTypes
<1>3. /\ HH \in [1..(n + 1) -> Nat] /\ SS \in [1..(n + 1) -> Nat]
      /\ qs[n + 1].spend \in Nat
  BY <1>1, BooksTypes
<1>4. HH[n + 1] = amount /\ \A id \in 1..n : HH[id] = H[id]
  BY <1>1, Products DEF HeldOf
<1>5. SS[n + 1] = 0 /\ \A id \in 1..n : SS[id] = S[id]
  BY <1>1, <1>3, Products, SMTT(30) DEF SpentOf
<1> HIDE DEF H, HH, S, SS
<1>6. Total(HH) = Total(H) + amount /\ Total(H) \in Nat /\ Total(HH) \in Nat
  <2>1. Total(HH) = Total(H) + HH[n + 1] /\ Total(H) \in Nat /\ Total(HH) \in Nat
    BY <1>2, <1>3, <1>4, SumExtended
  <2> QED BY <1>4, <2>1
<1>7. Total(SS) = Total(S) /\ Total(S) \in Nat /\ Total(SS) \in Nat
  <2>1. Total(SS) = Total(S) + SS[n + 1] /\ Total(S) \in Nat /\ Total(SS) \in Nat
    BY <1>2, <1>3, <1>5, SumExtended
  <2> QED BY <1>5, <2>1
<1>8. Balanced(qs, mg, n + 1, amount, held + amount, in)
  <2>1. held + Total(S) = Treasury + in + Total(H) BY DEF Balanced, S, H
  <2>2. Treasury \in Nat BY FlexAssumption
  <2>3. held + amount + Total(SS) = Treasury + in + Total(HH)
    <3> DEFINE h == Total(H)    hh == Total(HH)    t == Total(S)    tt == Total(SS)
    <3>1. /\ hh = h + amount /\ tt = t /\ held + t = Treasury + in + h
          /\ h \in Nat /\ t \in Nat
      BY <1>6, <1>7, <2>1
    <3> HIDE DEF h, hh, t, tt
    <3>2. held + amount + tt = Treasury + in + hh BY <2>2, <3>1
    <3> QED BY <3>2 DEF hh, tt
  <2> QED BY <2>3 DEF Balanced, SS, HH
<1>9. ASSUME NEW a, NEW own \in Nat, OwnBalance(ps, lg, n, amount, own, a)
      PROVE  OwnBalance(qs, mg, n + 1, amount, IF a = s THEN own - amount ELSE own, a)
  <2> DEFINE D == Owing(ps, lg, n, a)
             E == Owing(qs, mg, n + 1, a)
  <2>1. own + amount * Cardinality(D) = Purse BY <1>9 DEF OwnBalance
  <2>2. CASE a = s
    <3>1. E = D \cup {n + 1} BY <1>1, <2>2 DEF Owing
    <3>2. n + 1 \notin D /\ IsFiniteSet(D) BY <1>1, <1>2 DEF Owing
    <3> HIDE DEF D, E
    <3>3. /\ amount * Cardinality(D \cup {n + 1}) = amount * Cardinality(D) + amount
          /\ amount * Cardinality(D) \in Nat
      BY <3>2, OneMore
    <3>4. amount * Cardinality(E) = amount * Cardinality(D) + amount BY <3>1, <3>3, Zenon
    <3>5. own - amount + amount * Cardinality(E) = Purse BY <2>1, <3>3, <3>4
    <3> QED BY <2>2, <3>5 DEF OwnBalance, E
  <2>3. CASE a # s
    <3>1. E = D BY <1>1, <2>3 DEF Owing
    <3> QED BY <1>9, <2>3, <3>1 DEF OwnBalance
  <2> QED BY <2>2, <2>3
<1> QED BY <1>8, <1>9

(* The messages of a proposal pay out o between two of its histories.      *)
PaysOut(p, f, g, o) == p.spend * g.sent = p.spend * f.sent + o

(* The deposit of proposal id is returned, and its messages pay out.       *)
LEMMA DepositReturned ==
  ASSUME NEW n \in Nat, NEW ps \in Seq(ProposalRecord), Len(ps) = n,
         NEW lg \in Seq(LogRecord), Len(lg) = n, NEW amount \in Nat,
         NEW qs \in Seq(ProposalRecord), Len(qs) = n,
         NEW mg \in Seq(LogRecord), Len(mg) = n, NEW id \in 1..n, NEW out \in Nat,
         \A j \in 1..n : qs[j].proposer = ps[j].proposer /\ qs[j].spend = ps[j].spend,
         \A j \in 1..n : j # id => mg[j] = lg[j],
         lg[id].returned = 0, mg[id].returned = 1,
         PaysOut(ps[id], lg[id], mg[id], out),
         NEW held \in Nat, NEW in \in Nat, Balanced(ps, lg, n, amount, held, in)
  PROVE  /\ Balanced(qs, mg, n, amount, held - amount - out, in)
         /\ \A a, own : own \in Nat /\ OwnBalance(ps, lg, n, amount, own, a) =>
              OwnBalance(qs, mg, n, amount,
                         IF a = ps[id].proposer THEN own + amount ELSE own, a)
<1> DEFINE H == HeldOf(lg, n, amount)     HH == HeldOf(mg, n, amount)
           S == SpentOf(ps, lg, n)        SS == SpentOf(qs, mg, n)
<1>1. /\ H \in [1..n -> Nat] /\ S \in [1..n -> Nat]
      /\ \A a : IsFiniteSet(Owing(ps, lg, n, a))
  BY BooksTypes
<1>2. HH \in [1..n -> Nat] /\ SS \in [1..n -> Nat] BY BooksTypes
<1>3. H[id] = amount /\ HH[id] = 0 /\ \A j \in 1..n : j # id => HH[j] = H[j]
  BY Products DEF HeldOf
<1>4. SS[id] = S[id] + out /\ \A j \in 1..n : j # id => SS[j] = S[j]
  BY DEF SpentOf, PaysOut
<1> HIDE DEF H, HH, S, SS
<1>5. Total(HH) = Total(H) - amount /\ Total(H) \in Nat /\ Total(HH) \in Nat
  <2>1. Total(HH) = Total(H) - H[id] + HH[id] /\ Total(H) \in Nat /\ Total(HH) \in Nat
    BY <1>1, <1>2, <1>3, SumChanged
  <2> QED BY <1>3, <2>1
<1>6. Total(SS) = Total(S) + out /\ Total(S) \in Nat
  <2>1. \A j \in 1..n : j # id => SS[j] = S[j] BY <1>4
  <2>2. Total(SS) = Total(S) - S[id] + SS[id] /\ Total(S) \in Nat /\ Total(SS) \in Nat
    <3>1. S \in [1..n -> Nat] BY <1>1
    <3>2. SS \in [1..n -> Nat] BY <1>2
    <3>3. n \in Nat /\ id \in 1..n OBVIOUS
    <3> QED BY <2>1, <3>1, <3>2, <3>3, SumChanged, Zenon
  <2>3. S[id] \in Nat BY <1>1
  <2> QED BY <1>4, <2>2, <2>3
<1>7. Balanced(qs, mg, n, amount, held - amount - out, in)
  <2>1. held + Total(S) = Treasury + in + Total(H) BY DEF Balanced, S, H
  <2>2. Treasury \in Nat BY FlexAssumption
  <2>3. held - amount - out + Total(SS) = Treasury + in + Total(HH)
    <3> DEFINE t == Total(S)   tt == Total(SS)   h == Total(H)   hh == Total(HH)
    <3>1. /\ hh = h - amount /\ tt = t + out /\ held + t = Treasury + in + h
          /\ t \in Nat /\ tt \in Nat /\ h \in Nat /\ hh \in Nat
      BY <1>5, <1>6, <2>1
    <3> HIDE DEF t, tt, h, hh
    <3>2. held - amount - out + tt = held + t - amount BY <3>1, SMTT(30)
    <3>3. Treasury + in + hh = Treasury + in + h - amount BY <2>2, <3>1
    <3>4. held + t - amount = Treasury + in + h - amount BY <2>2, <3>1
    <3> QED BY <3>2, <3>3, <3>4 DEF tt, hh
  <2> QED BY <2>3 DEF Balanced, SS, HH
<1>8. ASSUME NEW a, NEW own \in Nat, OwnBalance(ps, lg, n, amount, own, a)
      PROVE  OwnBalance(qs, mg, n, amount,
                        IF a = ps[id].proposer THEN own + amount ELSE own, a)
  <2> DEFINE D == Owing(ps, lg, n, a)
             E == Owing(qs, mg, n, a)
  <2>1. own + amount * Cardinality(D) = Purse BY <1>8 DEF OwnBalance
  <2>2. \A j \in 1..n : j # id => (j \in E <=> j \in D) BY DEF Owing
  <2>3. id \notin E /\ (id \in D <=> a = ps[id].proposer) BY DEF Owing
  <2>4. D \subseteq 1..n /\ E \subseteq 1..n /\ IsFiniteSet(D) BY <1>1 DEF Owing
  <2> HIDE DEF D, E
  <2>5. CASE a = ps[id].proposer
    <3>1. E = D \ {id} /\ id \in D BY <2>2, <2>3, <2>4, <2>5
    <3>2. /\ amount * Cardinality(D) = amount * Cardinality(D \ {id}) + amount
          /\ amount * Cardinality(D \ {id}) \in Nat
      BY <2>4, <3>1, OneLess
    <3>3. /\ amount * Cardinality(D) = amount * Cardinality(E) + amount
          /\ amount * Cardinality(E) \in Nat
      BY <3>1, <3>2, Zenon
    <3>4. own + amount + amount * Cardinality(E) = Purse BY <2>1, <3>3
    <3> QED BY <2>5, <3>4 DEF OwnBalance, E
  <2>6. CASE a # ps[id].proposer
    <3>1. \A j \in 1..n : j \in E <=> j \in D BY <2>2, <2>3, <2>6
    <3>2. E = D BY <2>4, <3>1
    <3> QED BY <1>8, <2>6, <3>2 DEF OwnBalance, D, E
  <2> QED BY <2>5, <2>6
<1> QED BY <1>7, <1>8
(* Steps that touch no deposit. *)
LEMMA SameBooks ==
  ASSUME VotingInv, Money, Len(proposals') = Len(proposals),
         \A j \in ProposalIds : /\ proposals'[j].proposer = proposals[j].proposer
                                /\ proposals'[j].spend = proposals[j].spend,
         NEW d \in Nat, treasury' = treasury + d, funded' = funded + d,
         UNCHANGED <<cfg, wallet, log>>
  PROVE  Money'
<1> DEFINE n == Len(proposals)
<1>1. SpentOf(proposals', log', n) = SpentOf(proposals, log, n) BY DEF SpentOf, ProposalIds
<1>2. HeldOf(log', n, cfg.deposit.amount) = HeldOf(log, n, cfg.deposit.amount) OBVIOUS
<1>3. \A a : Owing(proposals', log', n, a) = Owing(proposals, log, n, a)
  BY DEF Owing, ProposalIds
<1> DEFINE s == Total(SpentOf(proposals, log, n))
           h == Total(HeldOf(log, n, cfg.deposit.amount))
<1>4. treasury \in Nat /\ funded \in Nat /\ cfg.deposit.amount \in Nat
      /\ proposals \in Seq(ProposalRecord) /\ log \in Seq(LogRecord) /\ Len(log) = n /\ n \in Nat
  BY DEF VotingInv, StorageOK, Config
<1>5. s \in Nat /\ h \in Nat BY <1>4, BooksTypes
<1>6. treasury + s = Treasury + funded + h BY DEF Money, Balanced
<1> HIDE DEF s, h
<1>7. treasury' + s = Treasury + funded' + h
  <2>1. Treasury \in Nat BY FlexAssumption
  <2> QED BY <1>4, <1>5, <1>6, <2>1
<1>8. Balanced(proposals', log', n, cfg'.deposit.amount, treasury', funded')
  BY <1>1, <1>2, <1>7 DEF Balanced, s, h
<1>9. \A a \in Addr : OwnBalance(proposals', log', n, cfg'.deposit.amount, wallet'[a], a)
  BY <1>3 DEF Money, OwnBalance
<1> QED BY <1>8, <1>9 DEF Money

LEMMA ProposeMoney ==
  ASSUME VotingInv, VotingInv', Money, NEW s \in Addr, NEW latest \in Latest \cup {None},
         NEW spend \in Spends, execute_propose(s, latest, spend)
  PROVE  Money'
<1> DEFINE q == update_status(NewProposal(s, latest, spend), height)
           g == [settled |-> Unedited, sent |-> 0, returned |-> 0]
           bs == SaveBallot(NoBallots, s, members[s].now, "yes")
           n == Len(proposals)
           A == cfg.deposit.amount
<1>1. /\ is_member(s) /\ proposals' = Append(proposals, q) /\ log' = Append(log, g)
      /\ take_deposit(s) /\ cfg' = cfg /\ funded' = funded
  BY DEF execute_propose
<1>2. Good(q, bs, g, members, height) /\ q.proposer = s
  BY <1>1, NewIsGood, ZenonT(60)
<1>3. q \in ProposalRecord /\ g \in LogRecord BY <1>2 DEF Good
<1>4. g.sent = 0 /\ g.returned = 0 OBVIOUS
<1> HIDE DEF q, g
<1>5. /\ proposals \in Seq(ProposalRecord) /\ log \in Seq(LogRecord)
      /\ Len(log) = n /\ n \in Nat /\ A \in Nat
      /\ wallet \in [Addr -> Nat] /\ treasury \in Nat /\ funded \in Nat
  BY DEF VotingInv, StorageOK, Config
<1>6. /\ proposals' \in Seq(ProposalRecord) /\ Len(proposals') = n + 1
      /\ log' \in Seq(LogRecord) /\ Len(log') = n + 1
      /\ \A j \in 1..n : proposals'[j] = proposals[j] /\ log'[j] = log[j]
      /\ proposals'[n + 1] = q /\ log'[n + 1] = g
  BY <1>1, <1>3, <1>5
<1>7. /\ log'[n + 1].sent = 0 /\ log'[n + 1].returned = 0 /\ s = proposals'[n + 1].proposer
  BY <1>2, <1>4, <1>6
<1>8. /\ Balanced(proposals, log, n, A, treasury, funded)
      /\ \A a \in Addr : OwnBalance(proposals, log, n, A, wallet[a], a)
  BY DEF Money
<1>9. /\ treasury' = treasury + A
      /\ \A a \in Addr : wallet'[a] = IF a = s THEN wallet[a] - A ELSE wallet[a]
  BY <1>1, <1>5 DEF take_deposit
<1> HIDE DEF n, A
<1>10. /\ Balanced(proposals', log', n + 1, A, treasury + A, funded)
       /\ \A a, own : own \in Nat /\ OwnBalance(proposals, log, n, A, own, a) =>
            OwnBalance(proposals', log', n + 1, A, IF a = s THEN own - A ELSE own, a)
  <2>1. Len(proposals) = n BY DEF n
  <2>2. Balanced(proposals, log, n, A, treasury, funded) BY <1>8
  <2> QED BY <1>5, <1>6, <1>7, <2>1, <2>2, DepositTaken
<1>11. \A a \in Addr : OwnBalance(proposals', log', n + 1, A, wallet'[a], a)
  <2> SUFFICES ASSUME NEW a \in Addr
               PROVE  OwnBalance(proposals', log', n + 1, A, wallet'[a], a)
    OBVIOUS
  <2>1. wallet[a] \in Nat BY <1>5
  <2>2. OwnBalance(proposals', log', n + 1, A, IF a = s THEN wallet[a] - A ELSE wallet[a], a)
    BY <1>8, <1>10, <2>1
  <2> QED BY <1>9, <2>2
<1> QED BY <1>1, <1>6, <1>9, <1>10, <1>11 DEF Money, A

(* Execute, and close with a refund. *)
LEMMA PaidMoney ==
  ASSUME VotingInv, VotingInv', Money, NEW id \in ProposalIds, NEW out \in Nat,
         Pay(id, cfg.deposit.amount, out), cfg' = cfg, funded' = funded,
         Len(proposals') = Len(proposals),
         \A j \in ProposalIds : /\ proposals'[j].proposer = proposals[j].proposer
                                /\ proposals'[j].spend = proposals[j].spend,
         \A j \in ProposalIds : j # id => log'[j] = log[j],
         log[id].returned = 0, log'[id].returned = 1,
         PaysOut(proposals[id], log[id], log'[id], out)
  PROVE  Money'
<1> DEFINE n == Len(proposals)
           A == cfg.deposit.amount
           s == proposals[id].proposer
<1>1. /\ proposals \in Seq(ProposalRecord) /\ log \in Seq(LogRecord) /\ Len(log) = n
      /\ proposals' \in Seq(ProposalRecord) /\ log' \in Seq(LogRecord) /\ Len(log') = n
      /\ n \in Nat /\ A \in Nat /\ id \in 1..n
      /\ wallet \in [Addr -> Nat] /\ treasury \in Nat /\ funded \in Nat
  BY DEF VotingInv, StorageOK, Config, ProposalIds
<1>2. /\ Balanced(proposals, log, n, A, treasury, funded)
      /\ \A a \in Addr : OwnBalance(proposals, log, n, A, wallet[a], a)
  BY DEF Money
<1>3. /\ treasury' = treasury - A - out
      /\ \A a \in Addr : wallet'[a] = IF a = s THEN wallet[a] + A ELSE wallet[a]
  BY <1>1 DEF Pay
<1>4. /\ \A j \in 1..n : /\ proposals'[j].proposer = proposals[j].proposer
                         /\ proposals'[j].spend = proposals[j].spend
      /\ \A j \in 1..n : j # id => log'[j] = log[j]
      /\ Len(proposals') = n
  BY DEF ProposalIds
<1> HIDE DEF n, A
<1>5. /\ Balanced(proposals', log', n, A, treasury - A - out, funded)
      /\ \A a, own : own \in Nat /\ OwnBalance(proposals, log, n, A, own, a) =>
           OwnBalance(proposals', log', n, A, IF a = s THEN own + A ELSE own, a)
  <2>1. Len(proposals) = n BY DEF n
  <2>2. Balanced(proposals, log, n, A, treasury, funded) BY <1>2
  <2>3. log[id].returned = 0 /\ log'[id].returned = 1 /\ PaysOut(proposals[id], log[id], log'[id], out)
    OBVIOUS
  <2> QED BY <1>1, <1>4, <2>1, <2>2, <2>3, DepositReturned
<1>6. \A a \in Addr : OwnBalance(proposals', log', n, A, wallet'[a], a)
  <2> SUFFICES ASSUME NEW a \in Addr
               PROVE  OwnBalance(proposals', log', n, A, wallet'[a], a)
    OBVIOUS
  <2>1. wallet[a] \in Nat BY <1>1
  <2>2. OwnBalance(proposals', log', n, A, IF a = s THEN wallet[a] + A ELSE wallet[a], a)
    BY <1>2, <1>5, <2>1
  <2> QED BY <1>3, <2>2
<1> QED BY <1>3, <1>5, <1>6 DEF Money, n, A
(* A verdict is stored: nothing that the books read of a proposal changes. *)
LEMMA RestatedBooks ==
  ASSUME VotingInv, NEW id \in ProposalIds, NEW s,
         proposals' = [proposals EXCEPT ![id].status = s]
  PROVE  /\ Len(proposals') = Len(proposals)
         /\ \A j \in ProposalIds : /\ proposals'[j].proposer = proposals[j].proposer
                                   /\ proposals'[j].spend = proposals[j].spend
<1>1. /\ proposals \in Seq(ProposalRecord) /\ DOMAIN proposals = ProposalIds
  BY DEF VotingInv, StorageOK, ProposalIds
<1>2. proposals[id] \in ProposalRecord BY ProposalFacts
<1>3. /\ [proposals[id] EXCEPT !.status = s].proposer = proposals[id].proposer
      /\ [proposals[id] EXCEPT !.status = s].spend = proposals[id].spend
  BY <1>2, Zenon DEF ProposalRecord
<1>4. proposals' = [proposals EXCEPT ![id] = [proposals[id] EXCEPT !.status = s]] OBVIOUS
<1>5. \A j \in ProposalIds :
        proposals'[j] = IF j = id THEN [proposals[id] EXCEPT !.status = s] ELSE proposals[j]
  BY <1>1, <1>4, Zenon
<1>6. Len(proposals') = Len(proposals) BY <1>1
<1> QED BY <1>3, <1>5, <1>6

LEMMA ExecuteMoney ==
  ASSUME VotingInv, VotingInv', Money, NEW s \in Addr, NEW id \in ProposalIds,
         execute_execute(s, id)
  PROVE  Money'
<1> DEFINE p == proposals[id]
           l == log[id]
<1>1. /\ current_status(p, height) = "passed"
      /\ proposals' = [proposals EXCEPT ![id].status = "executed"]
      /\ Pay(id, cfg.deposit.amount, p.spend)
      /\ log' = [log EXCEPT ![id].sent = @ + 1, ![id].returned = @ + 1]
      /\ cfg' = cfg /\ funded' = funded
  BY DEF execute_execute
<1>2. l \in LogRecord /\ p \in ProposalRecord /\ Justified(p, l, cfg) BY ProposalFacts
<1>3. l.returned = 0
  <2>1. p.status \in {"open", "passed"} BY <1>1 DEF current_status
  <2> QED BY <1>2, <2>1 DEF Justified, LogRecord
<1>4. log \in Seq(LogRecord) /\ id \in DOMAIN log
  BY ProposalFacts DEF VotingInv, StorageOK
<1>5. /\ log'[id].sent = l.sent + 1 /\ log'[id].returned = l.returned + 1
      /\ \A j \in ProposalIds : j # id => log'[j] = log[j]
  <2> DEFINE m == [l EXCEPT !.sent = l.sent + 1, !.returned = l.returned + 1]
  <2>1. m.sent = l.sent + 1 /\ m.returned = l.returned + 1 BY <1>2, Zenon DEF LogRecord
  <2>2. log' = [log EXCEPT ![id] = m] BY <1>2, <1>4 DEF execute_execute, LogRecord
  <2>3. DOMAIN log = ProposalIds BY DEF VotingInv, StorageOK, ProposalIds
  <2> HIDE DEF m
  <2> QED BY <2>1, <2>2, <2>3, Zenon
<1>6. PaysOut(p, l, log'[id], p.spend)
  <2>1. p.spend \in Nat /\ l.sent \in Nat BY <1>2 DEF ProposalRecord, LogRecord
  <2> QED BY <1>5, <2>1, Products DEF PaysOut
<1>7. p.spend \in Nat /\ log'[id].returned = 1 BY <1>2, <1>3, <1>5 DEF ProposalRecord
<1>8. /\ Len(proposals') = Len(proposals)
      /\ \A j \in ProposalIds : /\ proposals'[j].proposer = proposals[j].proposer
                                /\ proposals'[j].spend = proposals[j].spend
  BY <1>1, RestatedBooks
<1> QED BY <1>1, <1>3, <1>5, <1>6, <1>7, <1>8, PaidMoney

LEMMA CloseMoney ==
  ASSUME VotingInv, VotingInv', Money, NEW id \in ProposalIds, execute_close(id)
  PROVE  Money'
<1> DEFINE p == proposals[id]
           l == log[id]
<1>1. /\ CanClose(id) /\ proposals' = [proposals EXCEPT ![id].status = "rejected"]
      /\ cfg' = cfg /\ funded' = funded
  BY DEF execute_close
<1>2. l \in LogRecord /\ p \in ProposalRecord /\ Justified(p, l, cfg) BY ProposalFacts
<1>3. l.returned = 0 BY <1>1, <1>2 DEF CanClose, Justified, LogRecord
<1>4. log \in Seq(LogRecord) /\ id \in DOMAIN log
  BY ProposalFacts DEF VotingInv, StorageOK
<1>5. /\ Len(proposals') = Len(proposals)
      /\ \A j \in ProposalIds : /\ proposals'[j].proposer = proposals[j].proposer
                                /\ proposals'[j].spend = proposals[j].spend
  BY <1>1, RestatedBooks
<1>6. 0 \in Nat OBVIOUS
<1>7. CASE cfg.deposit.refund_failed_proposals
  <2>1. /\ Pay(id, cfg.deposit.amount, 0)
        /\ log' = [log EXCEPT ![id].returned = @ + 1]
    BY <1>7 DEF execute_close
  <2>2. /\ log'[id].sent = l.sent /\ log'[id].returned = l.returned + 1
        /\ \A j \in ProposalIds : j # id => log'[j] = log[j]
    BY <1>2, <1>4, <2>1 DEF LogRecord
  <2>3. PaysOut(p, l, log'[id], 0)
    <3>1. p.spend * l.sent \in Nat
      <4>1. p.spend \in Nat /\ l.sent \in Nat BY <1>2 DEF ProposalRecord, LogRecord
      <4> QED BY <4>1, Products
    <3> QED BY <2>2, <3>1 DEF PaysOut
  <2>4. log'[id].returned = 1 BY <1>3, <2>2
  <2> QED BY <1>1, <1>3, <1>5, <1>6, <2>1, <2>2, <2>3, <2>4, PaidMoney
<1>8. CASE ~ cfg.deposit.refund_failed_proposals
  <2>1. UNCHANGED <<wallet, treasury, log>> BY <1>8 DEF execute_close
  <2>2. treasury' = treasury + 0 /\ funded' = funded + 0
    BY <1>1, <2>1 DEF VotingInv, StorageOK
  <2> QED BY <1>1, <1>5, <1>6, <2>1, <2>2, SameBooks
<1> QED BY <1>7, <1>8

LEMMA VoteMoney ==
  ASSUME VotingInv, Money, NEW s \in Addr, NEW id \in ProposalIds, NEW v \in Vote,
         execute_vote(s, id, v)
  PROVE  Money'
<1> DEFINE q == update_status(WithVote(s, id, v), height)
           bs == SaveBallot(ballots[id], s, VotePower(s, id), v)
<1>1. /\ CanVote(s, id) /\ proposals' = [proposals EXCEPT ![id] = q]
      /\ UNCHANGED <<cfg, wallet, treasury, funded, log>>
  BY DEF execute_vote
<1>2. q.proposer = proposals[id].proposer /\ q.spend = proposals[id].spend
  BY <1>1, VotedIsGood
<1> HIDE DEF q
<1>3. /\ Len(proposals') = Len(proposals)
      /\ \A j \in ProposalIds : proposals'[j] = IF j = id THEN q ELSE proposals[j]
  BY <1>1 DEF VotingInv, StorageOK, ProposalIds
<1>4. \A j \in ProposalIds : /\ proposals'[j].proposer = proposals[j].proposer
                             /\ proposals'[j].spend = proposals[j].spend
  BY <1>2, <1>3
<1>5. 0 \in Nat /\ treasury' = treasury + 0 /\ funded' = funded + 0
  BY <1>1 DEF VotingInv, StorageOK
<1> QED BY <1>1, <1>3, <1>4, <1>5, SameBooks

(* Steps that leave the proposals alone: d tokens may be sent to the       *)
(* multisig.                                                               *)
LEMMA OtherMoney ==
  ASSUME VotingInv, Money, NEW d \in Nat, treasury' = treasury + d, funded' = funded + d,
         UNCHANGED <<cfg, proposals, wallet, log>>
  PROVE  Money'
BY SameBooks

LEMMA NextMoney == VotingInv /\ VotingInv' /\ Money /\ [Next]_vars => Money'
<1> SUFFICES ASSUME VotingInv, VotingInv', Money, [Next]_vars PROVE Money' OBVIOUS
<1>1. CASE \E s \in Addr, latest \in Latest \cup {None}, spend \in Spends :
             execute_propose(s, latest, spend)
  BY <1>1, ProposeMoney
<1>2. CASE \E s \in Addr, id \in ProposalIds, v \in Vote : execute_vote(s, id, v)
  BY <1>2, VoteMoney
<1>3. CASE \E s \in Addr, id \in ProposalIds : execute_execute(s, id) BY <1>3, ExecuteMoney
<1>4. CASE \E id \in ProposalIds : execute_close(id) BY <1>4, CloseMoney
<1>5. 0 \in Nat /\ 1 \in Nat /\ treasury + 0 = treasury /\ funded + 0 = funded
  BY DEF VotingInv, StorageOK
<1>6. CASE \E list \in MemberLists, remove \in RemoveLists : EditGroup(list, remove)
  <2>1. UNCHANGED <<cfg, proposals, wallet, treasury, funded, log>>
    BY <1>6 DEF EditGroup, multisigVars
  <2> QED BY <1>5, <2>1, OtherMoney
<1>7. CASE Fund
  <2>1. /\ UNCHANGED <<cfg, proposals, wallet, log>>
        /\ treasury' = treasury + 1 /\ funded' = funded + 1
    BY <1>7 DEF Fund
  <2> QED BY <1>5, <2>1, OtherMoney
<1>8. CASE NextBlock
  <2>1. UNCHANGED <<cfg, proposals, wallet, treasury, funded, log>>
    BY <1>8 DEF NextBlock, multisigVars
  <2> QED BY <1>5, <2>1, OtherMoney
<1>9. CASE UNCHANGED vars
  <2>1. UNCHANGED <<cfg, proposals, wallet, treasury, funded, log>> BY <1>9 DEF vars
  <2> QED BY <1>5, <2>1, OtherMoney
<1> QED BY <1>1, <1>2, <1>3, <1>4, <1>6, <1>7, <1>8, <1>9 DEF Next

LEMMA InitMoney == Init => Money
<1> SUFFICES ASSUME Init PROVE Money OBVIOUS
<1>1. /\ proposals = <<>> /\ log = <<>> /\ wallet = [a \in Addr |-> Purse]
      /\ treasury = Treasury /\ funded = 0 /\ Len(proposals) = 0
  BY DEF Init
<1>2. Treasury \in Nat /\ Purse \in Nat BY FlexAssumption
<1>3. cfg.deposit.amount \in Nat BY InitVotingInv DEF VotingInv, StorageOK, Config
<1>4. 1..0 = {} OBVIOUS
<1>5. \A f \in [1..0 -> Nat] : Total(f) = 0
  <2>1. \A f \in [1..0 -> Nat] : \A i \in 1..0 : f[i] = 0 BY <1>4
  <2> QED BY <2>1, TotalZero
<1>6. /\ SpentOf(proposals, log, 0) \in [1..0 -> Nat]
      /\ HeldOf(log, 0, cfg.deposit.amount) \in [1..0 -> Nat]
  BY <1>4 DEF SpentOf, HeldOf
<1>7. /\ Total(SpentOf(proposals, log, 0)) = 0
      /\ Total(HeldOf(log, 0, cfg.deposit.amount)) = 0
  BY <1>5, <1>6, Zenon
<1>8. Balanced(proposals, log, 0, cfg.deposit.amount, treasury, funded)
  BY <1>1, <1>2, <1>7 DEF Balanced
<1>9. ASSUME NEW a \in Addr
      PROVE  OwnBalance(proposals, log, 0, cfg.deposit.amount, wallet[a], a)
  <2>1. Owing(proposals, log, 0, a) = {} BY <1>4 DEF Owing
  <2>2. Cardinality(Owing(proposals, log, 0, a)) = 0 BY <2>1, FS_EmptySet
  <2>3. wallet[a] = Purse BY <1>1
  <2> QED BY <1>2, <1>3, <2>2, <2>3, Products DEF OwnBalance
<1> QED BY <1>1, <1>8, <1>9 DEF Money

LEMMA MoneyImplies == VotingInv /\ Money => DepositsAccounted
<1> SUFFICES ASSUME VotingInv, Money PROVE DepositsAccounted OBVIOUS
<1> DEFINE A == cfg.deposit.amount
           Held(id) == A * (1 - log[id].returned)
           Spent(id) == proposals[id].spend * log[id].sent
           Owed(a) == {id \in ProposalIds : proposals[id].proposer = a /\ log[id].returned = 0}
<1>1. \A id \in ProposalIds :
        /\ log[id].returned <= 1
        /\ log[id].returned = 1 =>
             \/ proposals[id].status = "executed"
             \/ proposals[id].status = "rejected" /\ cfg.deposit.refund_failed_proposals
  BY ProposalFacts DEF Justified, LogRecord
<1>2. [id \in ProposalIds |-> Held(id)] = HeldOf(log, Len(proposals), A)
  BY DEF HeldOf, ProposalIds
<1>3. [id \in ProposalIds |-> Spent(id)] = SpentOf(proposals, log, Len(proposals))
  BY DEF SpentOf, ProposalIds
<1>4. Sum(ProposalIds, Held) = Total(HeldOf(log, Len(proposals), A)) BY <1>2 DEF Sum
<1>5. Sum(ProposalIds, Spent) = Total(SpentOf(proposals, log, Len(proposals))) BY <1>3 DEF Sum
<1>6. treasury + Sum(ProposalIds, Spent) = Treasury + funded + Sum(ProposalIds, Held)
  BY <1>4, <1>5 DEF Money, Balanced
<1>7. \A a \in Addr : wallet[a] + A * Cardinality(Owed(a)) = Purse
  <2>1. \A a : Owed(a) = Owing(proposals, log, Len(proposals), a) BY DEF Owing, ProposalIds
  <2> QED BY <2>1 DEF Money, OwnBalance
<1> QED BY <1>1, <1>6, <1>7 DEF DepositsAccounted

-----------------------------------------------------------------------------
(* The inductive invariants hold in every reachable state. *)
THEOREM Invariance == Spec => [](VotingInv /\ Verdicts /\ Money)
<1>1. Init => VotingInv /\ Verdicts /\ Money
  <2>1. Init => Verdicts BY DEF Init, Verdicts, ProposalIds
  <2> QED BY <2>1, InitVotingInv, InitMoney
<1>2. VotingInv /\ Verdicts /\ Money /\ [Next]_vars => (VotingInv /\ Verdicts /\ Money)'
  BY NextVotingInv, NextVerdicts, NextMoney DEF VerdictStep
<1> QED BY <1>1, <1>2, PTL DEF Spec

(* Every message leaves well-formed proposals, ballots and balances.       *)
THEOREM TypeCorrect == Spec => []TypeOK
BY Invariance, VotingImplies, PTL

(* The tally of a proposal is the sum of its ballots, each of them with    *)
(* the weight its voter had when the block began, whatever edits of the    *)
(* group come before, between and after the votes.                         *)
THEOREM BallotsTheorem == Spec => []BallotsFollowSnapshot
BY Invariance, VotingImplies, PTL

(* Unless the group was edited in the same block before the proposal, all  *)
(* the votes cast on it fit into the total weight stored with it.          *)
THEOREM TallyTheorem == Spec => []TallyFitsIfSettled
BY Invariance, VotingImplies, PTL

(* Of such a proposal, a stored verdict stays true of its tally.           *)
THEOREM VerdictTheorem == Spec => []VerdictMatchesTally
BY Invariance, VerdictsMatch, PTL

(* The ballots of those who were members at the start make the tally, and  *)
(* the tally the verdict.                                                  *)
THEOREM VotesTheorem == Spec => []VotesDecide
<1>1. BallotsFollowSnapshot /\ TallyFitsIfSettled /\ VerdictMatchesTally => VotesDecide
  BY DEF VotesDecide
<1> QED BY <1>1, BallotsTheorem, TallyTheorem, VerdictTheorem, PTL

(* "Sure to pass" and "sure to be rejected" are so of it, whoever joins,   *)
(* leaves or gains weight while the vote goes on.                          *)
THEOREM SureTheorem == Spec => VerdictsAreSure
BY Invariance, NextVerdicts, VerdictsSure, PTL DEF Spec, VerdictsAreSure

(* The subtractions of is_passed and is_rejected lock none of its voters   *)
(* out, although an absolute threshold was validated against what the      *)
(* group weighed at instantiation, perhaps more than when it was proposed. *)
THEOREM NoPanicTheorem == Spec => []VotingNeverPanics
BY Invariance, VotesNeverPanic, PTL

(* Unanimous consent of its voters passes it, whatever the threshold.      *)
THEOREM UnanimousTheorem == Spec => []UnanimousYesPasses
BY Invariance, UnanimousConsent, PTL

(* Every expired proposal can be executed or closed, also one whose votes  *)
(* exceed its total weight.                                                *)
THEOREM NeverStuckTheorem == Spec => []NeverStuck
BY Invariance, SettledInTheEnd, PTL

(* An underflow or a stale status locks out nobody.                        *)
THEOREM LockoutTheorem == Spec => []NobodyLockedOut
<1>1. VotingNeverPanics /\ NeverStuck => NobodyLockedOut BY DEF NobodyLockedOut
<1> QED BY <1>1, NoPanicTheorem, NeverStuckTheorem, PTL

(* Deposits are taken from, held for and returned to the proposers, and    *)
(* what executed proposals pay out comes from the other funds.             *)
THEOREM DepositsTheorem == Spec => []DepositsAccounted
BY Invariance, MoneyImplies, PTL

(* The contract implements Lifecycle, as the fixed one does: one verdict   *)
(* for each proposal, never revised, and its messages sent at most once.   *)
THEOREM Refinement == Spec => ImplementsLifecycle
BY Invariance, InitRefines, StepRefines, PTL DEF Spec, ImplementsLifecycle, LC!Spec
=============================================================================
