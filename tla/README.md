# A TLA+ verification project for cw-plus

cw-plus is a set of CosmWasm contracts: multisigs (cw3), groups of voters (cw4),
tokens (cw20) and proxy accounts (cw1), with the packages that hold their
interfaces and shared logic. This directory holds TLA+ modules translated from
their source, TLC configurations that check them on small instances, and TLAPS
proofs about all of them. Paths below are relative to the repository.

## Inventory

All contracts run on one chain that executes transactions one after the other.
A transaction is a message, what the handler does, and the messages it sends in
turn; an error or a panic anywhere in it reverts all of it. So one handler is one
action, and a failing condition is a guard. What makes these contracts hard is
not parallelism inside a call but the order of calls by different accounts, the
block at which each of them lands, several calls in one block, state of one
contract read by another, and integer arithmetic that panics.

| Component | State | Operations | Interacts with | What has to be right |
|---|---|---|---|---|
| `packages/cw3` proposals | none; a `Proposal` value | `is_passed`, `is_rejected`, `current_status`, `votes_needed` | both multisigs | a verdict, once sure, is final, under every rounding; no underflow |
| `packages/cw3` deposits | none; `DepositInfo` | take, return | cw3-flex, bank, cw20 | returned once, to the proposer, when due |
| `cw3-fixed-multisig` | `CONFIG`, `VOTERS`, `PROPOSALS`, `BALLOTS` | instantiate, Propose, Vote, Execute, Close | dispatches arbitrary messages | tally = ballots; verdict = tally; dispatch once; every proposal settles |
| `cw3-flex-multisig` | the same without voters | the same, and the group's hook, which changes nothing | queries a cw4 group, present and past; deposits | the same while the group changes; ballots follow the snapshot |
| `packages/cw4` | none | raw and smart queries, `MemberDiff` | group to consumer | which query reads which moment |
| `cw4-group` | `ADMIN`, `MEMBERS`, `TOTAL` (snapshots), `HOOKS` | UpdateMembers, UpdateAdmin, AddHook, RemoveHook | calls its hooks | total = sum at every height; history fixed; hooks in sync |
| `cw4-stake` | as cw4-group, `STAKE`, `CLAIMS` | Bond, Receive, Unbond, Claim, UpdateAdmin, hooks | holds tokens; calls its hooks | tokens conserved and frozen while unbonding; weight = stake; no claim without its funds |
| `cw20-base` | `BALANCES`, `TOKEN_INFO`, `ALLOWANCES`, `ALLOWANCES_SPENDER` | Transfer, Send, Burn, Mint, UpdateMinter, allowances and their `*From` messages, migrate | calls receivers | supply = sum, within cap and u128; both maps of allowances agree; spending within grants |
| `cw20-base` marketing | `MARKETING_INFO`, `LOGO` | UpdateMarketing, UploadLogo | none | the logo announced is the logo stored |
| listings of cw4-group, cw1-subkeys, cw20-base | none | `ListMembers`, `AllAllowances`, `AllSpenderAllowances`, ... | clients that page | nothing skipped, nothing twice, nothing that cannot be used |
| `cw20-ics20` | `CONFIG`, `ADMIN`, `ALLOW_LIST`, `CHANNEL_INFO`, `CHANNEL_STATE`, `REPLY_ARGS` | Transfer, Receive, Allow, UpdateAdmin, handshake, receive packet, acknowledgement, timeout, replies, migrate | relayers, chains at the other end, bank, cw20 tokens | what is outstanding is escrowed; every voucher and refund is backed, whatever other channels do; nothing paid twice |
| `cw1-whitelist` | `ADMIN_LIST` | Execute, Freeze, UpdateAdmins | relays messages | frozen is for ever |
| `cw1-subkeys` | as cw1-whitelist, `ALLOWANCES`, `PERMISSIONS` | Execute, Increase-/DecreaseAllowance, SetPermissions, and those of cw1-whitelist | relays messages | spending within grants; queries foresee Execute |
| `packages/cw1`, `packages/cw20`, `packages/easy-addr` | none | message types, helpers, a test macro | | |

`PROJECT.json` lists the hazards of this code line by line, with the properties
that cover each of them.

## Modules

    Sums -------------> Proposal, Ballots ---> Cw3Fixed ---> MCCw3Fixed
      |                     |    |                |
      |                     |    +-----> Cw3Flex -+--- refines Lifecycle
      |                     |              |
      +--> Snapshot ----> Cw4Group --------+ (INSTANCE)
      |       |              |
      |       +----------> Cw4Stake (INSTANCE for admin and hooks)
      |
      |                    Cw4Group and Cw4Stake both refine Electorate
      |
      +--> Cw20Base       Cw1Whitelist --> Cw1Subkeys       Cw20Marketing
      |
      +--> Cw20Ics20 --- refines Transfers

    Listing --> Cw4Group, Cw1Subkeys, Cw20Base

    Data_proofs --> Cw3Fixed_proofs ---+
      |                                +--> Cw3Flex_proofs (by INSTANCE)
      +-----------> Cw4Group_proofs ---+
      +--> Cw4Stake_proofs, Cw20Ics20_proofs, Cw1Subkeys_proofs
      +--> Cw20Base_proofs (which also extends Cw20Marketing)

| Module | Models | Notes |
|---|---|---|
| `Sums` | sums of weights and amounts | as the number of units, so that the library's cardinality theorems apply |
| `Listing` | `range` and `take` of a map, and a client that follows the pages | used by the queries of three contracts |
| `Proposal` | `packages/cw3/src/proposal.rs` | the three thresholds, `votes_needed` with its precision factor, the status of a proposal, and `Panics`, the states in which a u64 subtraction underflows |
| `Ballots` | `BALLOTS` of one proposal | shared by the multisigs |
| `Lifecycle` | abstract: what a cw3 multisig promises | one verdict per proposal, never revised, messages sent once |
| `Cw3Fixed` | `cw3-fixed-multisig` | one action per message and `NextBlock` |
| `Snapshot` | `SnapshotMap`, `SnapshotItem` of cw-storage-plus | external: as the cw4 contracts use them |
| `Cw4Group` | `cw4-group` | a subscriber is a copy of the group maintained from the diffs alone |
| `Electorate` | abstract: what a cw4 group promises the contracts that read it | a membership that may change at any time, and the membership at the start of every block, kept for ever |
| `Cw3Flex` | `cw3-flex-multisig` over a live `Cw4Group` | `EditGroup` is the group's `UpdateMembers`, between any two messages of the multisig; `Fund` sends it tokens from outside |
| `Cw4Stake` | `cw4-stake` | wallets and the contract's tokens are variables |
| `Cw20Base` | `cw20-base` | `Init` includes storage written by versions before and after 0.14.0, which `migrate` treats differently |
| `Cw20Marketing` | marketing and logo of `cw20-base` | a state of its own, disjoint from that of `Cw20Base`; its names differ from those of `Cw20Base` where one module extends both |
| `Transfers` | abstract: what a bridge promises of a transfer | the receiver credited once, or the sender once, or nobody |
| `Cw20Ics20` | `cw20-ics20`, relayers and the chains at the other end | `Init` includes storage of the versions before 0.13.1 |
| `Cw1Whitelist`, `Cw1Subkeys` | the two proxies | a call relays a sequence of messages |
| `MC*` | constants for TLC | |
| `Data_proofs` | lemmas about `Sums`, `Snapshot` and `Listing` | what a changed entry does to a sum, what a write and a new block do to a history, what pages show |
| other `*_proofs` | theorems about the module in their name | `Cw3Fixed_proofs` begins with the lemmas about `Proposal` and `Ballots`, which `Cw3Flex_proofs` cites; `Cw20Base_proofs` ends with the logo |

State and actions carry the source's names. Conventions:

- `height` is `env.block`: a height or a time, whichever the contract compares.
  `NextBlock` advances it. Several messages may happen in one block.
- A Decimal is an integer number of atomics; `DecimalOne` and `PrecisionFactor`
  are parameters. The proofs hold for all of them; TLC uses 10 and 3, which keep
  every rounding case (products that divide and that do not, in both divisions).
- A `u64` or `u128` addition or subtraction that would panic or fail disables the
  action. The cast in `calc_weight` takes the remainder. Exceptions: the tally
  and total weight in `Proposal` and `Ballots` are unbounded naturals.
- Content is left out: titles, descriptions, the messages of a proposal (how
  often they are sent is kept, as a history variable, and what they spend, in
  `Cw3Flex`), attributes, and the default and largest page: a limit is any number.
- Variables that no code keeps are called history in the modules.
- Operators with a comment "Mutant of X" are plausible wrong versions of X; no
  specification uses them. They show that a property notices that error.

### Notes on single modules

`Cw3Fixed`. `instantiate` sums the weights of the list and saves voters by address,
so a repeated address counts twice in the total. `execute_vote` accepts votes on
passed and rejected proposals until they expire, but `update_status` only acts on
open ones. `execute_execute` and `execute_close` recompute the status each in its
own way, and both orders after an expiration are explored.

`Cw3Flex`. `is_member` and `total_weight` are raw queries of the present;
`is_voting_member` and `VotePower` read the snapshot at the proposal's start, which
is the state before any change in that block. `log[id].settled` records whether the
group had been edited in that block before the proposal. The hook message is
accepted and ignored, so it has no action. Deposits and what proposals spend come out
of one treasury, as in the code; `Fund` is anybody's transfer to the multisig, and
`funded` counts them.

`Cw4Group`. `update_members` processes additions in order of address, then removals;
`AddsFit` and `NewTotal` follow the running total, `Diffs` the messages for hooks.
`PagesSurviveEdits` is about a client that asks for the first page before an edit and
for the next after it.

`Cw4Stake`. Claims that mature at the same height are one amount. A native bond has
a positive amount (`must_pay_funds` gets exactly one coin, and the bank sends no
zero coins); a cw20 bond may be zero. `execute_bond` keeps the cfg check of a
division by zero, which is possible with `tokens_per_weight` 0.

`Cw20Base`. Send and SendFrom are Transfer and TransferFrom here: the receiver is
called after all state is stored, and whatever it does to the token is a further
step. `Move` debits before it credits, from and to may be one account.
`deduct_allowance` checks and writes both maps on its own. `None` is a message
without expiration, different from `Never`.

`Cw1Subkeys`. `AfterChecks` carries the allowance through the checks of a call's
messages, as the handler does by storing it after each. A payment of no coins needs an
allowance, but the empty one that `Allowance` answers when there is none covers it too:
`QueriesTellTheTruth` excepts that payment. `granted` starts again from what
was spent when an expired allowance is renewed: the remainder is lost.
A payment's coins are a map
with positive amounts: the handler subtracts the coins of a list one by one, and the bank
refuses a list that repeats a denomination or has a zero coin, so such a call reverts.
`AllAllowances` filters expired entries before it takes a page, so a page is short
only at the end.

`Cw20Marketing`. A text is there, blank or absent: `UpdateMarketing` clears a field
given as blank, while `instantiate` stores it as it comes. A logo is its kind, size,
and whether it begins as its kind must; the two headers are not told apart further.

`Cw20Ics20`. `packets` keeps every packet, in both directions, with its progress: sent,
delivered, refused, returned to its sender, or stranded, when a refund could not be
sent. A relayer brings a packet, its refusal or its timeout at any time, each once, in
any order; IBC's own guarantees, that a packet is received or timed out but never
both, are the guards on progress. A success acknowledgement changes nothing and has
no action. Channels are open to honest chains, which only send back vouchers they
issued, and to faulty ones, which send any voucher of any channel; tokens of the other
chain and vouchers that went another way are a packet with another `path`. A handler,
the message it sends and the reply to a failure are one transaction, so one action:
`paid` says whether the sending worked, which needs the funds and may fail for other
reasons. `REPLY_ARGS` is written by the handler and read by its reply in the same
transaction, and is what the action passes on. `ibc_packet_receive` turns an error into
an acknowledgement, so what it stored before the error stays: `Reduced` without a
payment where the gas limit is missing. `on_packet_failure` reduces the balance for
good even if the refund then fails; `surplus` (history) is what the contract owns and
counts nowhere, from that and from transfers to it. Versions 1 and 2 counted a transfer
when it was acknowledged; `migrate` counts what is in flight. Storage of those versions
has one channel and at most one packet in flight, whose denomination had a balance
before, or not if `Unrecorded`. That is narrower than what `migrate` may meet. `Natives`
and `Tokens` are disjoint: `Amount::from_parts` (`amount.rs:16`) would take a native
denomination that begins with `cw20:` for a token.

## Runs

Every run explores all states of its instance.

| Run | Shows | Bounds and why they are enough |
|---|---|---|
| `fixed` | tallies, verdicts, no panics, unanimity passes, finality, refinement of `Lifecycle`, no expired proposal is beyond execution and closing, none stays open beyond a voting period, every proposal settles | two proposals, three voters with odd total weight, one of weight 0, or a list with one repeated; one threshold of each kind (a count, unanimity, and a quorum whose products are whole and broken), a voting period of one block; proposals that ask to expire at once, that ask for more than the period, and that ask for nothing; three blocks |
| `group` | total, history, hooks, pages during an edit, refinement of `Electorate` | three accounts, weights up to a u64 limit of 4, lists that add, replace, add and remove one account, remove twice and repeat one, three blocks, edits several times a block |
| `flex` | ballots, tallies, verdicts, no panics, unanimity passes, finality, refinement of `Lifecycle`, no expired proposal is stuck, none stays open beyond a voting period | one proposal with a deposit, thresholds of the three kinds; edits before, in and after its block that grow, shrink and exchange the group, with a member of weight 0; expirations as in `fixed` |
| `flex_deposit` | deposits, every proposal settles | two proposals that may each spend more than the treasury has without deposits; all executors; refunds on and off; edits that remove one member or all; up to 4 tokens sent from outside, enough for whatever two proposals spend and refund |
| `flex_same_block`, `flex_refund` | violations: see Findings | |
| `token` | supply, index, spending, listings | three accounts, so owner, spender and recipient can be different or equal; amounts 1 and 2, a supply of 1, a u128 limit of 2, one minter with a cap of 1, below it, and one without, so that the supply meets the cap and the limit; one expiration, all three versions of storage; pages of every size |
| `stake` | tokens, freezing; members, weights, total and hooks follow the stakes; history, refinement of `Electorate` | two accounts with three tokens and one, both kinds of token, `tokens_per_weight` of 0, 1 and 2, so weights divide and round or cannot be computed, minimum bonds of 1 and 2, two periods, changing admins and hooks; a u64 limit of 2, which the total reaches and the weight of three tokens exceeds, so that the cast truncates it to 0 |
| `subkeys` | spending, queries, freezing, listings | two accounts, of which one or both are admins, two denominations, two messages a call, an expiration that comes, grants of zero |
| `ics20` | escrow, coverage, nothing waiting is refused, refinement of `Transfers`, every honest transfer ends | an honest and a faulty channel, a native coin and a token, two packets of one unit in any two directions, a supply of 3, so that a transfer, a returning voucher and a stray token fit beside what was counted before; a gas limit and none; old and new storage. A packet meets at most one other of its denomination: what more packets add is in the proofs, which have no bound on them |
| `ics20_unrecorded` | violation | the same with `Unrecorded` |
| `marketing` | logo and information agree | two accounts, one text besides blank and absent, six logos: two URLs, images at the cap and one beyond, one that does not begin as it must |

`CHECK_DEADLOCK FALSE` is set throughout: the bounds on height and on what is
created end every behaviour, and a contract nobody calls stops.

Named bounds in guards: `MaxProposals`, `MaxHeight`, `MaxIssued`, `MaxGranted`,
`MaxMsgs`, `MaxPackets`, `MaxFunded`, and `Supply` of a denomination. A proposal or a claim is only made if its end lies within `MaxHeight`, so
that the end of the model's time cuts off no expiration.

### Fairness

`FairSpec` of the two multisigs assumes weak fairness of three things: blocks keep
coming; a passed proposal is executed; an expired one is closed. In the code Close
is open to everybody, and Execute is in the fixed multisig and with the flex
multisig's open executor. Proposing, voting and editing the group are not fair. A
multisig that cannot pay waits for whoever funds it: the flex multisig also assumes
`Fund`, up to its bound. `EveryProposalSettles` of `Cw3Flex` excepts the one
arrangement in which nobody may execute, the member executor with an emptied group.

`FairSpec` of the bridge assumes weak fairness of relaying each packet (`Relay`), by
any of the moves that are possible for it, and of the first `migrate`, which the chain
runs when it installs the code. It says nothing of which way a packet goes, nor whether
a sending works. `Settles` is about honest channels: a faulty chain can return vouchers it
made up, up to the balance of its channel, and then the refund of a transfer over that
channel is refused each time it is relayed.

## Findings

Three runs show that the code does something else than its documents, comments or tests
say. Each is a run with `expect: violation`.

1. `flex_same_block`: if the group is edited earlier in the block of a proposal, the
   proposal has the new total weight and its voters the old weights, so the tally can
   outgrow the total.
2. `flex_refund`: a proposal that votes have rejected cannot be closed, so its
   deposit is never refunded.
3. `ics20_unrecorded`: the migration of cw20-ics20 adds transfers in flight to the
   balances there are. The first transfer of a denomination has none, so it is not
   counted, and its refund, or the return of its vouchers, is refused.

Observations without a run of their own:

- A voter list of cw3-fixed-multisig with a repeated address makes the stored total
  weight larger than the weight of all voters (`contract.rs:36`), so a threshold that
  `instantiate` accepts may be out of reach of a unanimous vote. `UnanimousYesPasses`
  has the hypothesis that the two agree.
- The README of cw4-group says the last of several entries of `add` counts; the handler
  refuses the update.
- `calc_weight` of cw4-stake (`contract.rs:238`) casts to u64: a stake worth 2^64
  weights counts as weight 0. `MembersFollowStake` is silent about the weight then, but
  not about who is a member, nor about total and hooks.
- The cap of `cw20-base` bounds the supply, not what may still be minted as a comment
  in `state.rs` has it.
- `total + new - old` in cw4-stake overflows before it subtracts, so that part of a stake
  cannot be unbonded while the total is close to the limit of a u64 (`WeightFits`).
- `execute_allow` of cw20-ics20 refuses to lower a gas limit, as its comment at
  `contract.rs:165` says, but a token that runs under `default_gas_limit` without a
  listing can be listed with less, and `migrate` can lower the default.
- `ibc_channel_close` of cw20-ics20 is `unimplemented!()`, so closing a channel fails.

## Proofs

Checked by TLAPS, for all values of the constants that satisfy the assumptions
named in the modules.

**Data** (`Data_proofs`). `TotalUpdate`: replacing one value changes a sum by the
difference. `WriteItem`: a write in a block is seen by queries for later heights and by
no others. `PagesList`: a client that follows the pages to the end has seen exactly the
keys of the map, for every finite map and every limit. The last goes by the number
of keys after the cursor: a full page ends with its greatest key (`LastOfPage`) and leaves
fewer behind it, a short one leaves none (`ShortPage`), and the first number of keys at
which the claim failed would have a smaller one (`FollowedToTheEnd`). `TwoPages` is the
same for two pages of different maps.

**The multisigs' arithmetic** (the first part of `Cw3Fixed_proofs`). Assumptions: `DecimalOne` is positive,
`PrecisionFactor` is at least 2, `Addr` is finite. `votes_needed` is monotone, at most the
weight, and the numbers needed for p and for 1 - p together cover it (`NeededMonotone`,
`NeededBound`, `NeededComplement`); from these a passed proposal stays passed
(`PassedIsStable`), a rejected one rejected (`RejectedIsStable`), none is both
(`VerdictsExclude`), a unanimous one is passed (`UnanimousPasses`) and none underflows
(`CoveredNeverPanics`), through votes and through the change of base at the expiration.
They ask that the tally fits the total weight (`Covered`), the last two also that the total
weight suffices for the threshold (`Reachable`), which `validate` sees to (`ValidIsReachable`)
for the weight at instantiation. `ReportAppended`, `ReportDecided` and
`ReportReplaced` are what a step does to the statuses that queries report.

**The fixed multisig** (`Cw3Fixed_proofs`). Further assumptions: lists, thresholds, periods
and expirations have their types. The invariant `IInv` says that the configuration is one
that `instantiate` accepts, that the weights of the voters add up to at most the total
weight, and for every proposal (`Good`) that it closes within a
voting period, its tally is the sum of its ballots, each ballot has its voter's weight, and its stored verdict is one that `is_passed` or the
exclusion of it supports at this height. `VerdictMatchesTally` alone is not inductive:
that a vote keeps a verdict needs that the votes not yet cast fit into the rest of the
total weight, which needs ballots and voters. The refinement needs `StatusUpToDate`
besides: until it expires, the stored status of a proposal is the one computed from its
tally.

| Theorem | Statement |
|---|---|
| `Invariance` | `Spec => []IInv` |
| `TypeCorrect`, `TallyTheorem`, `VerdictTheorem` | `Spec => []TypeOK`, `TallyMatchesBallots`, `VerdictMatchesTally` |
| `VotesTheorem` | `Spec => []VotesDecide`, which is both of the last two |
| `NoPanicTheorem`, `NeverStuckTheorem` | `Spec => []VotingNeverPanics`, `NeverStuck` |
| `LockoutTheorem` | `Spec => []NobodyLockedOut`, which is both |
| `UnanimousTheorem` | `Spec => []UnanimousYesPasses` |
| `SureTheorem` | `Spec => VerdictsAreSure` |
| `Refinement` | `Spec => ImplementsLifecycle` |

**The flex multisig** (`Cw3Flex_proofs`). The group under it is an instance of `Cw4Group`, so
what is proved of the group is cited, from the instance `GP` of `Cw4Group_proofs`: its
invariant is part of `VotingInv`, and its `HistoryIsFixed` is why ballots keep the weights of the
start (`AgedIsGood`). What the fixed multisig's module says of ballots and statuses is cited from
the instance `FP` of `Cw3Fixed_proofs` with an empty list of voters (`SameBallots`,
`SameStatus`): these operators do not depend on the list. Assumption besides types: the member lists of the edits are ones a group
can be given (`MembersAssumption`). `VotingInv` says for every proposal (`Good`) that its tally
is the sum of its ballots, that it closes within a voting period (`InTime`) and that its stored
status is up to date until it expires;
that every ballot but the proposer's has the weight at the start, and, if the proposal is
settled, the proposer's has too and the total weight is the sum of those weights: that is
what `TallyFitsIfSettled` needs and finding 1 contradicts otherwise. A returned deposit has a
reason in the stored status (`Justified`). `Verdicts` is a second invariant on
top. Of every proposal it says that the stored tally has been computed without underflow;
for a settled one also that the stored verdict is sound (`Sound`): the ballots at the start
cover the tally (`SettledIsCovered`), and the ballots not yet cast fit the rest of the total
weight, so the stability lemmas of the fixed multisig apply. In an unsettled proposal (finding
1) the tally may exceed the total, so what is said of verdicts is restricted to settled ones;
`NeverStuck` and the refinement hold of all. When the group has shrunk below an absolute
threshold, no settled proposal can be made, as its verdict underflows; hence each of them is
`Reachable`, whatever the group weighs later. `Money` is a third, the books of the
treasury and of every wallet, as sums over the proposals; a step changes one summand of each
(`DepositTaken`, `DepositReturned`), or none (`SameBooks`).

| Theorem | Statement |
|---|---|
| `Invariance` | `Spec => [](VotingInv /\ Verdicts /\ Money)` |
| `TypeCorrect`, `DepositsTheorem` | `Spec => []TypeOK`, `DepositsAccounted` |
| `BallotsTheorem`, `TallyTheorem`, `VerdictTheorem` | `Spec => []BallotsFollowSnapshot`, `TallyFitsIfSettled`, `VerdictMatchesTally` |
| `VotesTheorem` | `Spec => []VotesDecide`, which is these three |
| `NoPanicTheorem`, `NeverStuckTheorem` | `Spec => []VotingNeverPanics`, `NeverStuck` |
| `LockoutTheorem` | `Spec => []NobodyLockedOut`, which is both |
| `UnanimousTheorem` | `Spec => []UnanimousYesPasses` |
| `SureTheorem` | `Spec => VerdictsAreSure` |
| `Refinement` | `Spec => ImplementsLifecycle` |

**The token** (`Cw20Base_proofs`). Assumptions: `Addr` is finite and numbered in the order
of addresses, amounts, balances, minters and expirations have their types. `IInv` is the
conjunction of `TypeOK`, `SupplyIsSum`, `IndexesAgree`, `SpendingWithinGrants` and `Unindexed`, which says that storage of an old
version has an empty index until it is migrated; without it `migrate` could keep
stale entries. The sum is handled by `TotalUpdate`. `EntryStep` is the one argument about
allowances: a handler that stores the same value in both maps keeps them equal.
`AllowancesListed` follows from `IndexesAgree` and `PagesList`.

| Theorem | Statement |
|---|---|
| `Invariance` | `Spec => []IInv` |
| `TypeCorrect`, `SupplyTheorem`, `SpendingTheorem` | `Spec => []TypeOK`, `SupplyIsSum`, `SpendingWithinGrants` |
| `IndexTheorem`, `ListingTheorem` | `Spec => []IndexesAgree`, `AllowancesListed` |
| `SidesTheorem` | `Spec => []SidesAgree`, which is both |

**The logo** (the last part of `Cw20Base_proofs`, which extends `Cw20Marketing`). Assumption:
texts, logos and the absent value are told apart (`MarketingAssumption`). The invariant `LogoOK` says that the entry tells of the stored logo, that no logo
is stored without an entry, and that it was verified. Removing an empty entry is the
step in question: an empty one announces no logo, so none is stored.

| Theorem | Statement |
|---|---|
| `MarketingLogo` | `MarketingSpec => []LogoAsAnnounced` |

**The subkeys** (`Cw1Subkeys_proofs`). Assumptions: payments have positive amounts of known
coins, `Addr` is finite and numbered, lists, permissions and expirations have their types
(`SubkeyAssumption`, `AdminAssumption`). The invariant `IInv` says of every account
and coin that what was spent and what is left in a usable allowance is at most what was
granted (`Entries`): `SpentWithinGrants` alone would not survive the next payment. A call of
several messages is one step, so the core is an argument along its messages: after each,
what is left and what was paid make up what there was (`Settled`, `CheckSettles`,
`CallSettles`). The recursion of `AfterChecks` is unfolded by the first message at which it
could fail (`CheckedExists`). `QueriesAgree` takes a
message by its kind; `AllAllowances` is `PagesList`.

| Theorem | Statement |
|---|---|
| `Invariance` | `Spec => []IInv` |
| `TypeCorrect`, `SpendingTheorem`, `QueriesTheorem` | `Spec => []TypeOK`, `SpentWithinGrants`, `QueriesTellTheTruth` |
| `FrozenTheorem` | `Spec => FrozenForever` |

**The bridge** (`Cw20Ics20_proofs`). Assumptions: `Channels` is finite, coins and tokens
are disjoint, amounts are positive, numbers and special values have their types
(`Ics20Sets`, `Ics20Numbers`, `Ics20Values`). Nothing bounds the number of packets or
of denominations. `IInv` has four parts: `ConfigOK`, with `CountedMayBeSent`; `BalanceOK`, with
`EscrowAccounted`; `PacketsOK`, which says that who is credited for a packet follows
from its progress (`Credited`), what the refinement needs; and `OldStorage`, which
says that nothing happens before the migration, so that the migration meets exactly
the storage of `Init`. That a step keeps `EscrowAccounted` is one argument,
`BalanceStep` on `PerChannelUpdate`: where one entry of one channel and the escrow of
its denomination change by the same amount, the difference of the sums stays. `Covered`
is a second invariant on top: `Owed` of a channel is its vouchers plus the
shares of its packets (`Share`), a step changes one share (`TotalUpdate`) or appends one
(`TotalExtend`), and the vouchers or the balance change to match. It needs that old storage has
no unrecorded packet, hence the hypothesis of `CoveredTheorem`; without it the run
`ics20_unrecorded` fails. `NoneRefused` follows from `Covered` and `EscrowAccounted`: the
counted balances of the channels of a denomination add up to no more than the escrow, the
`Owed` of honest channels is within their balances, and what a waiting packet asks for is part
of the `Owed` of its channel (`WaitingIsPaid`, `EscrowSuffices`, `AllArePaid`).

| Theorem | Statement |
|---|---|
| `Invariance` | `Spec => []IInv` |
| `TypeCorrect`, `EscrowTheorem`, `SendTheorem` | `Spec => []TypeOK`, `EscrowAccounted`, `CountedMayBeSent` |
| `CoveredTheorem`, `PaidTheorem` | `~ Unrecorded => (Spec => []Covered)`, `(Spec => []NoneRefused)` |
| `Refinement` | `Spec => ImplementsTransfers` |

**The groups** (`Cw4Group_proofs` and `Cw4Stake_proofs`, over `Data_proofs`).
Assumptions: `Addr` is finite (and numbered, in the group, as it adds in the order of
addresses), lists, amounts and configurations have their types (`GroupAssumption`,
`StakeAssumption`). One lemma carries the history of both: a write in a block is seen by
queries for later heights and by no others (`WriteItem`), which needs that nothing is
logged beyond the present height (`Item`). The group's `IInv` has `SnapshotsOK`,
`ControlOK`, `TotalIsSum` and `SubscribersInSync`. That `TotalIsSum` holds at every
height follows from the present sum and `WriteItem` (`SumKept`, `NextHeight`); the
present sum from sums over disjoint parts of the accounts (`SumOverPatch` on
`TotalSplit`), once for additions and once for removals. The bound of the total is no
guard of its own in the code: that `AddsFit` holds for the last account bounds the
running total (`RunningTotalFits`). The `IInv` of the staked group has `ConfigOK`,
`ControlOK`, `MembersOK`, `TokensOK` and `ExitsOK`. `FrozenWhileUnbonding` counts in
terms of past unbondings what the contract counts in claims; `ExitsOK` is the link, each
unbonding that is not due having its claim one period later, and `TotalEmbedding` then
bounds the one sum by the other. `MembersOK` says that a member's weight is what
`calc_weight` makes of the stake, truncation included. `MembersFollowStake` asks that the weight
is the stake divided where that fits a u64, and whatever it is, that members, total and
subscribers agree, so `MembersTheorem` needs no bound on the tokens. `PagesSurviveEdits` is `TwoPages` for any two
successive states of the members, so it needs no invariant. The refinement of `Electorate`
maps `past[b]` to the answers the snapshots give for block b (`Past`). A new block appends the
present weights (`NextPast`, as nothing is logged beyond the present height), and an edit leaves
all of it alone, which is `WriteItem` once more.

| Theorem | Statement |
|---|---|
| `Cw4Group_proofs!Invariance`, `Cw4Stake_proofs!Invariance` | `Spec => []IInv` |
| `Cw4Group_proofs!TypeCorrect`, `SumTheorem`, `SyncTheorem` | `Spec => []TypeOK`, `TotalIsSum`, `SubscribersInSync` |
| `Cw4Stake_proofs!TypeCorrect`, `BackedTheorem`, `FrozenTheorem` | `Spec => []TypeOK`, `StakeAndClaimsBacked`, `FrozenWhileUnbonding` |
| `Cw4Stake_proofs!MembersTheorem` | `Spec => []MembersFollowStake` |
| `HistoryTheorem`, in both | `Spec => HistoryIsFixed` |
| `Cw4Group_proofs!PagesTheorem` | `Spec => PagesSurviveEdits` |
| `Refinement`, in both | `Spec => ImplementsElectorate` |

**Only model-checked**: liveness under fairness, `EveryProposalSettles` of both multisigs and
`Settles` of the bridge, which the provers do not reach. What they rest on is proved: in every
state of an expired proposal a handler accepts it (`NeverStuck`), and in every state of a
waiting transfer its refund or return is accepted and funded (`NoneRefused`); that the accepted
step is then taken is fairness. Every other property of a passing run is stated by a theorem.

**Only proved**: `HistoryIsFixed` of both groups, and `CountedMayBeSent` of the bridge. No run
lists them: `ImplementsElectorate` and `TotalIsSum` say as much as the first, `NoneRefused`
the second for honest channels.

## Not modelled

- `AllAccounts` of cw20-base: the model does not tell an account with balance zero from
  one without an entry, and the query does. `AllPermissions` of cw1-subkeys, the
  listings of the multisigs and of the channels of cw20-ics20: the same pages over
  other maps, read-only.
- The length of timeouts of cw20-ics20 and the address checks of both chains: a timeout
  may happen at any time and a sending may fail for any reason.
- u64 overflow of tallies: `add_vote` panics beyond 2^64, but votes stay within a
  total weight that is a u64, except in the case of finding 1.
- Message types, schemas, error texts, test helpers, and the unit tests inside the
  source files, which are more than half of their lines.

## Plan

1. `Cw3Flex` over any `Electorate`: both groups are proved to refine it, and what the multisig
   reads at a past height is `past`. What `Electorate` would have to say besides is that the
   total is the sum of the weights, at every height as in `TotalIsSum`.
2. `Cw3Flex` with cw4-stake as its group then follows from `Cw4Stake_proofs!Refinement`.
