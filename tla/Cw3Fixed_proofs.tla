-------------------------- MODULE Cw3Fixed_proofs --------------------------
(***************************************************************************)
(* The fixed multisig, for every set of accounts, voter lists, thresholds, *)
(* periods and numbers of proposals: first the arithmetic of verdicts and  *)
(* the ballots of one proposal, then the contract.                         *)
(***************************************************************************)
EXTENDS Cw3Fixed, Data_proofs

-----------------------------------------------------------------------------
(* The arithmetic of verdicts, for every scale of Decimal and every        *)
(* precision factor.                                                       *)
LEMMA DivisionBounds ==
  ASSUME NEW n \in Nat, NEW d \in Nat \ {0}
  PROVE  /\ n \div d \in Nat
         /\ d * (n \div d) <= n
         /\ n < d * (n \div d) + d
OBVIOUS

LEMMA DivisionMonotone ==
  ASSUME NEW m \in Nat, NEW n \in Nat, m <= n, NEW d \in Nat \ {0}
  PROVE  m \div d <= n \div d
<1> DEFINE a == m \div d
           b == n \div d
<1>1. a \in Nat /\ b \in Nat /\ d * a <= m /\ n < d * b + d BY DivisionBounds
<1> SUFFICES ASSUME a > b PROVE FALSE BY <1>1
<1> HIDE DEF a, b
<1>2. d * (b + 1) <= d * a BY <1>1, ProductMonotone
<1>3. d * (b + 1) = d * b + d BY <1>1
<1> QED BY <1>1, <1>2, <1>3

LEMMA NeededType ==
  ASSUME NEW w \in Nat, NEW p \in Percentage
  PROVE  /\ votes_needed(w, p) \in Nat
         /\ mul_floor(PrecisionFactor * w, p) \in Nat
<1>1. p \in Nat BY DecimalAssumption DEF Percentage
<1>2. PrecisionFactor \in Nat \ {0, 1} /\ PrecisionFactor * w \in Nat
  BY PrecisionAssumption, NatProduct
<1>3. (PrecisionFactor * w) * p \in Nat BY <1>1, <1>2, NatProduct
<1>4. mul_floor(PrecisionFactor * w, p) \in Nat
  BY <1>3, DecimalAssumption, DivisionBounds DEF mul_floor
<1>5. mul_floor(PrecisionFactor * w, p) + PrecisionFactor - 1 \in Nat BY <1>2, <1>4
<1> QED BY <1>2, <1>4, <1>5, DivisionBounds DEF votes_needed

(* More weight never needs fewer votes. *)
LEMMA NeededMonotone ==
  ASSUME NEW v \in Nat, NEW w \in Nat, v <= w, NEW p \in Percentage
  PROVE  votes_needed(v, p) <= votes_needed(w, p)
<1>1. p \in Nat BY DecimalAssumption DEF Percentage
<1> DEFINE kv == PrecisionFactor * v
           kw == PrecisionFactor * w
<1>2. kv \in Nat /\ kw \in Nat /\ kv <= kw
  BY PrecisionAssumption, NatProduct, ProductMonotone
<1> HIDE DEF kv, kw
<1>3. kv * p \in Nat /\ kw * p \in Nat /\ kv * p <= kw * p
  BY <1>1, <1>2, NatProduct, ProductMonotone
<1>4. mul_floor(kv, p) <= mul_floor(kw, p)
  BY <1>3, DecimalAssumption, DivisionMonotone DEF mul_floor
<1>5. mul_floor(kv, p) \in Nat /\ mul_floor(kw, p) \in Nat
  BY NeededType DEF kv, kw
<1> DEFINE a == mul_floor(kv, p) + PrecisionFactor - 1
           b == mul_floor(kw, p) + PrecisionFactor - 1
<1>6. a \in Nat /\ b \in Nat /\ a <= b /\ PrecisionFactor \in Nat \ {0}
  BY <1>4, <1>5, PrecisionAssumption
<1>7. a \div PrecisionFactor <= b \div PrecisionFactor
  <2> HIDE DEF a, b
  <2> QED BY <1>6, DivisionMonotone
<1> QED BY <1>7 DEF votes_needed, kv, kw

(* The votes needed to pass and the votes needed to reject cover the whole *)
(* weight, in spite of the two roundings: this needs a PRECISION_FACTOR    *)
(* above 1.                                                                *)
LEMMA NeededComplement ==
  ASSUME NEW w \in Nat, NEW p \in Percentage
  PROVE  votes_needed(w, p) + votes_needed(w, DecimalOne - p) >= w
<1> DEFINE K == PrecisionFactor
           U == DecimalOne
           q == U - p
           A == mul_floor(K * w, p)
           B == mul_floor(K * w, q)
           m == votes_needed(w, p)
           n == votes_needed(w, q)
<1>1. /\ p \in Nat /\ q \in Nat /\ q \in Percentage /\ p + q = U
      /\ U \in Nat \ {0} /\ K \in Nat \ {0, 1} /\ K * w \in Nat
  BY DecimalAssumption, PrecisionAssumption, NatProduct DEF Percentage
<1>2. A \in Nat /\ B \in Nat /\ m \in Nat /\ n \in Nat BY <1>1, NeededType
<1>3. (K * w) * p < U * A + U /\ (K * w) * q < U * B + U
  BY <1>1, NatProduct, DivisionBounds DEF mul_floor
<1>4. A <= K * m /\ B <= K * n
  <2>1. A + K - 1 \in Nat /\ B + K - 1 \in Nat BY <1>1, <1>2
  <2>2. m = (A + K - 1) \div K /\ n = (B + K - 1) \div K BY DEF votes_needed
  <2>3. A + K - 1 < K * m + K /\ B + K - 1 < K * n + K
    <3> HIDE DEF A, B, m, n
    <3> QED BY <1>1, <2>1, <2>2, DivisionBounds
  <2>4. K * m \in Nat /\ K * n \in Nat BY <1>1, <1>2, NatProduct
  <2> HIDE DEF A, B, m, n, K
  <2> QED BY <1>1, <1>2, <2>3, <2>4
<1> HIDE DEF A, B, m, n, q, K, U
<1>5. (K * w) * p + (K * w) * q = (K * w) * U BY <1>1
<1>6. (K * w) * U < U * (A + B + 2)
  <2>1. U * (A + B + 2) = U * A + U + U * B + U BY <1>1, <1>2
  <2>2. /\ (K * w) * p \in Nat /\ (K * w) * q \in Nat
        /\ U * A \in Nat /\ U * B \in Nat
    BY <1>1, <1>2, NatProduct
  <2> QED BY <1>1, <1>3, <1>5, <2>1, <2>2
<1>7. K * w < A + B + 2
  <2> SUFFICES ASSUME A + B + 2 <= K * w PROVE FALSE BY <1>1, <1>2
  <2>1. U * (A + B + 2) <= U * (K * w) BY <1>1, <1>2, ProductMonotone
  <2>2. U * (K * w) = (K * w) * U BY <1>1
  <2>3. U * (A + B + 2) \in Nat BY <1>1, <1>2, NatProduct
  <2> QED BY <1>1, <1>6, <2>1, <2>2, <2>3
<1>8. m + n >= w
  <2> SUFFICES ASSUME m + n + 1 <= w PROVE FALSE BY <1>2
  <2>1. K * (m + n + 1) <= K * w BY <1>1, <1>2, ProductMonotone
  <2>2. K * (m + n + 1) = K * m + K * n + K BY <1>1, <1>2
  <2>3. K * m \in Nat /\ K * n \in Nat BY <1>1, <1>2, NatProduct
  <2> QED BY <1>1, <1>2, <1>4, <1>7, <2>1, <2>2, <2>3
<1> QED BY <1>8 DEF m, n, q, U

(* No percentage of a weight needs more than the whole weight. *)
LEMMA NeededBound ==
  ASSUME NEW w \in Nat, NEW p \in Percentage
  PROVE  votes_needed(w, p) <= w
<1> DEFINE K == PrecisionFactor
           U == DecimalOne
           A == mul_floor(K * w, p)
           m == votes_needed(w, p)
<1>1. /\ p \in Nat /\ p <= U /\ U \in Nat \ {0} /\ K \in Nat \ {0, 1} /\ K * w \in Nat
  BY DecimalAssumption, PrecisionAssumption, NatProduct DEF Percentage
<1>2. A \in Nat /\ m \in Nat BY <1>1, NeededType
<1>3. U * A <= (K * w) * p BY <1>1, NatProduct, DivisionBounds DEF mul_floor
<1>4. K * m <= A + K - 1
  <2>1. A + K - 1 \in Nat BY <1>1, <1>2
  <2>2. m = (A + K - 1) \div K BY DEF votes_needed
  <2> HIDE DEF A, m
  <2> QED BY <1>1, <2>1, <2>2, DivisionBounds
<1> HIDE DEF A, m, K, U
<1>5. A <= K * w
  <2> SUFFICES ASSUME K * w + 1 <= A PROVE FALSE BY <1>1, <1>2
  <2>1. U * (K * w + 1) <= U * A BY <1>1, <1>2, ProductMonotone
  <2>2. U * (K * w + 1) = U * (K * w) + U BY <1>1
  <2>3. (K * w) * p <= (K * w) * U BY <1>1, ProductMonotone
  <2>4. (K * w) * U = U * (K * w) BY <1>1
  <2>5. U * (K * w) \in Nat /\ U * A \in Nat /\ (K * w) * p \in Nat
    BY <1>1, <1>2, NatProduct
  <2> QED BY <1>1, <1>3, <2>1, <2>2, <2>3, <2>4, <2>5
<1>6. m <= w
  <2> SUFFICES ASSUME w + 1 <= m PROVE FALSE BY <1>2
  <2>1. K * (w + 1) <= K * m BY <1>1, <1>2, ProductMonotone
  <2>2. K * (w + 1) = K * w + K BY <1>1
  <2>3. K * m \in Nat BY <1>1, <1>2, NatProduct
  <2> QED BY <1>1, <1>2, <1>4, <1>5, <2>1, <2>2, <2>3
<1> QED BY <1>6 DEF m

-----------------------------------------------------------------------------
(* A stored proposal whose tally is covered by its total weight. *)
Covered(p) ==
  /\ p.threshold \in Threshold
  /\ p.votes \in Votes
  /\ p.total_weight \in Nat
  /\ p.expires \in Nat
  /\ votes_total(p.votes) <= p.total_weight

(* What happens to a proposal between height h and a later height k: votes *)
(* are added, but none after its expiration.                               *)
Later(p, h, q, k) ==
  /\ h \in Nat /\ k \in Nat /\ h <= k
  /\ q.threshold = p.threshold
  /\ q.total_weight = p.total_weight
  /\ q.expires = p.expires
  /\ \A v \in Vote : p.votes[v] <= q.votes[v]
  /\ is_expired(p, h) => q.votes = p.votes

LEMMA OpinionsBounds ==
  ASSUME NEW p, Covered(p), NEW h \in Nat
  PROVE  /\ opinions(p, h) \in Nat
         /\ p.votes["yes"] + p.votes["no"] <= opinions(p, h)
         /\ p.votes["yes"] \in Nat /\ p.votes["no"] \in Nat
         /\ votes_total(p.votes) \in Nat
<1>1. \A v \in Vote : p.votes[v] \in Nat BY DEF Covered, Votes
<1> QED BY <1>1 DEF Covered, opinions, votes_total, Vote

LEMMA OpinionsShrink ==
  ASSUME NEW p, NEW q, NEW h, NEW k, Covered(p), Covered(q), Later(p, h, q, k)
  PROVE  /\ opinions(q, k) <= opinions(p, h)
         /\ votes_total(p.votes) <= votes_total(q.votes)
         /\ p.votes["yes"] <= q.votes["yes"]
         /\ p.votes["no"] <= q.votes["no"]
<1>1. \A v \in Vote : p.votes[v] \in Nat /\ q.votes[v] \in Nat
  BY DEF Covered, Votes
<1> QED BY <1>1 DEF Covered, Later, opinions, votes_total, Vote, is_expired

LEMMA ThresholdCases ==
  ASSUME NEW t \in Threshold
  PROVE  \/ t.kind = "absolute_count" /\ t.weight \in Nat
         \/ t.kind = "absolute_percentage" /\ t.percentage \in Percentage
         \/ /\ t.kind = "threshold_quorum"
            /\ t.threshold \in Percentage /\ t.quorum \in Percentage
BY DEF Threshold

LEMMA ComplementType ==
  ASSUME NEW p \in Percentage PROVE DecimalOne - p \in Percentage
BY DecimalAssumption DEF Percentage

(* "sure to pass": votes still to come, and the expiration itself, cannot  *)
(* undo is_passed.                                                         *)
LEMMA PassedIsStable ==
  ASSUME NEW p, NEW q, NEW h, NEW k, Covered(p), Covered(q), Later(p, h, q, k),
         is_passed(p, h)
  PROVE  is_passed(q, k)
<1>1. h \in Nat /\ k \in Nat /\ q.threshold = p.threshold /\ q.total_weight = p.total_weight
  BY DEF Later
<1>2. p.threshold \in Threshold /\ p.total_weight \in Nat BY DEF Covered
<1> DEFINE t == p.threshold
           o == opinions(p, h)
           r == opinions(q, k)
<1>3. /\ o \in Nat /\ r \in Nat /\ r <= o
      /\ p.votes["yes"] \in Nat /\ q.votes["yes"] \in Nat
      /\ p.votes["yes"] <= q.votes["yes"]
      /\ votes_total(p.votes) \in Nat /\ votes_total(q.votes) \in Nat
      /\ votes_total(p.votes) <= votes_total(q.votes)
  BY <1>1, OpinionsBounds, OpinionsShrink
<1> HIDE DEF o, r
<1>4. CASE t.kind = "absolute_count" /\ t.weight \in Nat
  BY <1>1, <1>3, <1>4 DEF is_passed
<1>5. CASE t.kind = "absolute_percentage" /\ t.percentage \in Percentage
  <2>1. votes_needed(r, t.percentage) <= votes_needed(o, t.percentage)
    BY <1>3, <1>5, NeededMonotone
  <2>2. votes_needed(r, t.percentage) \in Nat /\ votes_needed(o, t.percentage) \in Nat
    BY <1>3, <1>5, NeededType
  <2>3. p.votes["yes"] >= votes_needed(o, t.percentage) BY <1>5 DEF is_passed, o
  <2>4. q.votes["yes"] >= votes_needed(r, t.percentage) BY <1>3, <2>1, <2>2, <2>3
  <2> QED BY <1>1, <1>5, <2>4 DEF is_passed, r
<1>6. CASE /\ t.kind = "threshold_quorum"
           /\ t.threshold \in Percentage /\ t.quorum \in Percentage
  <2>1. votes_needed(r, t.threshold) <= votes_needed(o, t.threshold)
    BY <1>3, <1>6, NeededMonotone
  <2>2. /\ votes_needed(r, t.threshold) \in Nat /\ votes_needed(o, t.threshold) \in Nat
        /\ votes_needed(p.total_weight, t.quorum) \in Nat
    BY <1>2, <1>3, <1>6, NeededType
  <2>3. /\ p.votes["yes"] >= votes_needed(o, t.threshold)
        /\ votes_total(p.votes) >= votes_needed(p.total_weight, t.quorum)
    BY <1>6 DEF is_passed, o
  <2>4. /\ q.votes["yes"] >= votes_needed(r, t.threshold)
        /\ votes_total(q.votes) >= votes_needed(p.total_weight, t.quorum)
    BY <1>3, <2>1, <2>2, <2>3
  <2> QED BY <1>1, <1>6, <2>4 DEF is_passed, r
<1> QED BY <1>2, <1>4, <1>5, <1>6, ThresholdCases

(* "sure to be rejected": the same for is_rejected. *)
LEMMA RejectedIsStable ==
  ASSUME NEW p, NEW q, NEW h, NEW k, Covered(p), Covered(q), Later(p, h, q, k),
         is_rejected(p, h)
  PROVE  is_rejected(q, k)
<1>1. h \in Nat /\ k \in Nat /\ q.threshold = p.threshold /\ q.total_weight = p.total_weight
  BY DEF Later
<1>2. p.threshold \in Threshold /\ p.total_weight \in Nat BY DEF Covered
<1> DEFINE t == p.threshold
           o == opinions(p, h)
           r == opinions(q, k)
<1>3. /\ o \in Nat /\ r \in Nat /\ r <= o
      /\ p.votes["no"] \in Nat /\ q.votes["no"] \in Nat
      /\ p.votes["no"] <= q.votes["no"]
  BY <1>1, OpinionsBounds, OpinionsShrink
<1> HIDE DEF o, r
<1>4. CASE t.kind = "absolute_count" /\ t.weight \in Nat
  BY <1>1, <1>2, <1>3, <1>4 DEF is_rejected
<1>5. ASSUME NEW c \in Percentage, p.votes["no"] > votes_needed(o, c)
      PROVE  q.votes["no"] > votes_needed(r, c)
  <2>1. votes_needed(r, c) <= votes_needed(o, c) BY <1>3, NeededMonotone
  <2>2. votes_needed(r, c) \in Nat /\ votes_needed(o, c) \in Nat BY <1>3, NeededType
  <2> QED BY <1>3, <1>5, <2>1, <2>2
<1>6. CASE t.kind = "absolute_percentage" /\ t.percentage \in Percentage
  BY <1>1, <1>5, <1>6, ComplementType DEF is_rejected, o, r
<1>7. CASE /\ t.kind = "threshold_quorum"
           /\ t.threshold \in Percentage /\ t.quorum \in Percentage
  BY <1>1, <1>5, <1>7, ComplementType DEF is_rejected, o, r
<1> QED BY <1>2, <1>4, <1>6, <1>7, ThresholdCases

(* No tally is both passed and rejected. *)
LEMMA VerdictsExclude ==
  ASSUME NEW p, Covered(p), NEW h \in Nat
  PROVE  ~ (is_passed(p, h) /\ is_rejected(p, h))
<1> SUFFICES ASSUME is_passed(p, h), is_rejected(p, h) PROVE FALSE
  OBVIOUS
<1> DEFINE t == p.threshold
           o == opinions(p, h)
<1>1. /\ o \in Nat /\ p.votes["yes"] \in Nat /\ p.votes["no"] \in Nat
      /\ p.votes["yes"] + p.votes["no"] <= o
  BY OpinionsBounds
<1>2. p.threshold \in Threshold /\ p.total_weight \in Nat BY DEF Covered
<1>3. CASE t.kind = "absolute_count" /\ t.weight \in Nat
  <2>1. p.votes["yes"] + p.votes["no"] <= p.total_weight
    <3>1. \A v \in Vote : p.votes[v] \in Nat BY DEF Covered, Votes
    <3> QED BY <3>1 DEF Covered, votes_total, Vote
  <2> QED BY <1>1, <1>2, <1>3, <2>1 DEF is_passed, is_rejected
<1> HIDE DEF o
<1>4. ASSUME NEW c \in Percentage,
             p.votes["yes"] >= votes_needed(o, c),
             p.votes["no"] > votes_needed(o, DecimalOne - c)
      PROVE  FALSE
  <2>1. votes_needed(o, c) \in Nat /\ votes_needed(o, DecimalOne - c) \in Nat
    BY <1>1, NeededType, ComplementType
  <2>2. votes_needed(o, c) + votes_needed(o, DecimalOne - c) >= o
    BY <1>1, NeededComplement
  <2> QED BY <1>1, <1>4, <2>1, <2>2
<1>5. CASE t.kind = "absolute_percentage" /\ t.percentage \in Percentage
  BY <1>4, <1>5 DEF is_passed, is_rejected, o
<1>6. CASE /\ t.kind = "threshold_quorum"
           /\ t.threshold \in Percentage /\ t.quorum \in Percentage
  BY <1>4, <1>6 DEF is_passed, is_rejected, o
<1> QED BY <1>2, <1>3, <1>5, <1>6, ThresholdCases
-----------------------------------------------------------------------------
(* Ballots.                                                                *)
BallotMap == [Addr -> Ballot \cup {NoBallot}]

LEMMA BallotMapTypes ==
  ASSUME NEW bs \in BallotMap
  PROVE  /\ CastWeights(bs) \in [Addr -> Nat]
         /\ \A vote : CastFor(bs, vote) \in [Addr -> Nat]
<1>1. \A a \in Addr : bs[a].weight \in Nat BY DEF BallotMap, Ballot, NoBallot
<1> QED BY <1>1 DEF CastWeights, CastFor

(* Ballots that carry the voters' weights fit into the voters' total.      *)
LEMMA BallotsFit ==
  ASSUME NEW vs, vs \in [DOMAIN vs -> Nat], DOMAIN vs \subseteq Addr,
         NEW bs \in BallotMap,
         \A a \in Addr : bs[a] # NoBallot => a \in DOMAIN vs /\ bs[a].weight = vs[a]
  PROVE  Total(CastWeights(bs)) <= Total(vs)
<1> DEFINE D == DOMAIN vs
           f == [a \in D |-> CastWeights(bs)[a]]
<1>1. CastWeights(bs) \in [Addr -> Nat] BY BallotMapTypes
<1>2. \A a \in Addr \ D : CastWeights(bs)[a] = 0 BY DEF CastWeights, NoBallot
<1>3. \A a \in D : CastWeights(bs)[a] <= vs[a]
  <2> TAKE a \in D
  <2>1. a \in Addr /\ vs[a] \in Nat OBVIOUS
  <2>2. CASE bs[a] = NoBallot BY <2>1, <2>2 DEF CastWeights, NoBallot
  <2>3. CASE bs[a] # NoBallot BY <2>1, <2>3 DEF CastWeights
  <2> QED BY <2>2, <2>3
<1>4. Total(CastWeights(bs)) = Total(f)
  <2>1. Units(CastWeights(bs)) = Units(f)
    <3> DEFINE c == CastWeights(bs)
    <3>1. DOMAIN c = Addr /\ DOMAIN f = D /\ \A a \in D : f[a] = c[a] BY <1>1
    <3>2. \A a \in Addr \ D : 1..c[a] = {} BY <1>2
    <3>3. ASSUME NEW u PROVE u \in Units(c) <=> u \in Units(f)
      <4>1. u \in Units(c) <=> \E x \in Addr : \E i \in 1..c[x] : u = <<x, i>>
        BY <3>1, UnitsMember
      <4>2. u \in Units(f) <=> \E x \in D : \E i \in 1..f[x] : u = <<x, i>>
        BY <3>1, UnitsMember
      <4> HIDE DEF c, f
      <4> QED BY <3>1, <3>2, <4>1, <4>2
    <3> QED BY <3>3
  <2> QED BY <2>1 DEF Total
<1>5. Total(f) <= Total(vs)
  <2>1. IsFiniteSet(D) BY AddrAssumption, FS_Subset
  <2>2. f \in [D -> Nat] BY <1>1
  <2>3. \A a \in D : f[a] <= vs[a] BY <1>3
  <2> HIDE DEF f
  <2> QED BY <2>1, <2>2, <2>3, TotalMonotone
<1> QED BY <1>4, <1>5

(* A first ballot adds its weight to its own option and to the sum.        *)
LEMMA BallotAdded ==
  ASSUME NEW bs \in BallotMap, NEW s \in Addr, bs[s] = NoBallot,
         NEW w \in Nat, NEW v \in Vote, NEW cs, cs = SaveBallot(bs, s, w, v)
  PROVE  /\ cs \in BallotMap
         /\ Total(CastWeights(cs)) = Total(CastWeights(bs)) + w
         /\ Total(CastFor(cs, v)) = Total(CastFor(bs, v)) + w
         /\ \A u \in Vote \ {v} : Total(CastFor(cs, u)) = Total(CastFor(bs, u))
<1>0. cs = [bs EXCEPT ![s] = [weight |-> w, vote |-> v]] BY DEF SaveBallot
<1>a. /\ bs \in [Addr -> Ballot \cup {NoBallot}]
      /\ cs[s] = [weight |-> w, vote |-> v] /\ \A a \in Addr \ {s} : cs[a] = bs[a]
  BY <1>0 DEF BallotMap
<1>1. cs \in BallotMap BY <1>0 DEF BallotMap, Ballot
<1>2. CastWeights(bs)[s] = 0 /\ \A u : CastFor(bs, u)[s] = 0
  BY DEF CastWeights, CastFor, NoBallot
<1>3. CastWeights(cs) = [CastWeights(bs) EXCEPT ![s] = w]
  <2>1. \A a \in Addr : cs[a].weight = IF a = s THEN w ELSE bs[a].weight BY <1>a
  <2> QED BY <2>1 DEF CastWeights
<1>4. CastFor(cs, v) = [CastFor(bs, v) EXCEPT ![s] = w]
  <2>1. cs[s].vote = v /\ cs[s].weight = w BY <1>a
  <2> QED BY <1>a, <2>1 DEF CastFor
<1>5. ASSUME NEW u \in Vote \ {v} PROVE CastFor(cs, u) = CastFor(bs, u)
  <2>1. \A a \in Addr : CastFor(cs, u)[a] = CastFor(bs, u)[a]
    BY <1>a, <1>2 DEF CastFor
  <2> QED BY <2>1 DEF CastFor
<1>6. ASSUME NEW f \in [Addr -> Nat], f[s] = 0
      PROVE  Total([f EXCEPT ![s] = w]) = Total(f) + w
  <2>1. Total([f EXCEPT ![s] = w]) = Total(f) - f[s] + w
    BY AddrAssumption, TotalUpdate
  <2>2. Total(f) \in Nat BY AddrAssumption, TotalType
  <2> QED BY <1>6, <2>1, <2>2
<1> QED BY <1>1, <1>2, <1>3, <1>4, <1>5, <1>6, BallotMapTypes

LEMMA YesVotes ==
  ASSUME NEW w \in Nat
  PROVE  /\ votes_yes(w) \in Votes /\ votes_total(votes_yes(w)) = w
         /\ votes_yes(w)["yes"] = w
         /\ \A u \in Vote \ {"yes"} : votes_yes(w)[u] = 0
BY DEF votes_yes, votes_total, Votes, Vote

LEMMA AddVote ==
  ASSUME NEW vs \in Votes, NEW v \in Vote, NEW w \in Nat
  PROVE  /\ add_vote(vs, v, w) \in Votes
         /\ votes_total(add_vote(vs, v, w)) = votes_total(vs) + w
         /\ add_vote(vs, v, w)[v] = vs[v] + w
         /\ \A u \in Vote \ {v} : add_vote(vs, v, w)[u] = vs[u]
         /\ \A u \in Vote : vs[u] <= add_vote(vs, v, w)[u]
<1>1. vs \in [Vote -> Nat] BY DEF Votes
<1>2. add_vote(vs, v, w) = [vs EXCEPT ![v] = vs[v] + w] BY DEF add_vote
<1> QED BY <1>1, <1>2 DEF Votes, votes_total, Vote

(* The ballots of a new proposal. *)
LEMMA FirstBallot ==
  ASSUME NEW s \in Addr, NEW w \in Nat, NEW bs, bs = SaveBallot(NoBallots, s, w, "yes")
  PROVE  /\ bs \in BallotMap
         /\ Total(CastWeights(bs)) = w
         /\ \A u \in Vote : Total(CastFor(bs, u)) = votes_yes(w)[u]
<1>1. NoBallots \in BallotMap /\ NoBallots[s] = NoBallot BY DEF BallotMap, NoBallots
<1>2. Total(CastWeights(NoBallots)) = 0 /\ \A u \in Vote : Total(CastFor(NoBallots, u)) = 0
  <2>1. /\ \A a \in Addr : CastWeights(NoBallots)[a] = 0
        /\ \A u \in Vote : \A a \in Addr : CastFor(NoBallots, u)[a] = 0
    BY DEF CastWeights, CastFor, NoBallots, NoBallot
  <2> QED BY <1>1, <2>1, BallotMapTypes, TotalZero
<1>3. "yes" \in Vote BY DEF Vote
<1>4. /\ bs \in BallotMap
      /\ Total(CastWeights(bs)) = Total(CastWeights(NoBallots)) + w
      /\ Total(CastFor(bs, "yes")) = Total(CastFor(NoBallots, "yes")) + w
      /\ \A u \in Vote \ {"yes"} : Total(CastFor(bs, u)) = Total(CastFor(NoBallots, u))
  BY <1>1, <1>3, BallotAdded
<1>5. Total(CastWeights(bs)) = w /\ Total(CastFor(bs, "yes")) = w
  BY <1>2, <1>3, <1>4
<1>6. ASSUME NEW u \in Vote PROVE Total(CastFor(bs, u)) = votes_yes(w)[u]
  <2>1. CASE u = "yes" BY <1>5, <2>1, YesVotes
  <2>2. CASE u # "yes" BY <1>2, <1>4, <2>2, YesVotes
  <2> QED BY <2>1, <2>2
<1> QED BY <1>4, <1>5, <1>6

-----------------------------------------------------------------------------
(* The verdicts do not look at the status. *)
LEMMA SameTally ==
  ASSUME NEW p, NEW q, q.threshold = p.threshold, q.total_weight = p.total_weight,
         q.votes = p.votes, q.expires = p.expires, NEW h
  PROVE  /\ is_passed(q, h) <=> is_passed(p, h)
         /\ is_rejected(q, h) <=> is_rejected(p, h)
         /\ is_expired(q, h) <=> is_expired(p, h)
BY DEF is_passed, is_rejected, is_expired, opinions

(* The total weight suffices for the threshold: validate asks for this of  *)
(* an absolute count.                                                      *)
Reachable(p) == p.threshold.kind = "absolute_count" => p.threshold.weight <= p.total_weight

LEMMA ValidIsReachable ==
  ASSUME NEW p, p.threshold \in Threshold, p.total_weight \in Nat,
         validate(p.threshold, p.total_weight)
  PROVE  Reachable(p)
<1> SUFFICES ASSUME p.threshold.kind = "absolute_count"
             PROVE  p.threshold.weight <= p.total_weight
  BY DEF Reachable
<1> QED BY DEF validate

(* A tally within a total weight that suffices computes without underflow. *)
LEMMA CoveredNeverPanics ==
  ASSUME NEW p, Covered(p), Reachable(p), NEW h \in Nat
  PROVE  ~ Panics(p, h)
<1>1. opinions(p, h) \in Nat BY OpinionsBounds
<1>2. ~ (opinions(p, h) < 0) BY <1>1
<1>3. p.threshold \in Threshold /\ p.total_weight \in Nat BY DEF Covered
<1>4. ~ (p.threshold.kind = "absolute_count" /\ p.total_weight < p.threshold.weight)
  BY <1>3, ThresholdCases DEF Reachable
<1> QED BY <1>2, <1>3, <1>4, ThresholdCases DEF Panics

(* Nor does it when votes have come to exceed the total weight, if it did  *)
(* not when they were counted: the expiration does not change that.        *)
LEMMA NoPanicLater ==
  ASSUME NEW p, p.threshold \in Threshold, p.votes \in Votes, p.expires \in Nat,
         NEW h \in Nat, NEW k \in Nat, h <= k, ~ Panics(p, h)
  PROVE  ~ Panics(p, k)
<1>1. is_expired(p, h) => is_expired(p, k) BY DEF is_expired
<1>2. ~ (votes_total(p.votes) - p.votes["abstain"] < 0)
  <2>1. \A v \in Vote : p.votes[v] \in Nat BY DEF Votes
  <2> QED BY <2>1 DEF votes_total, Vote
<1>3. opinions(p, k) < 0 => opinions(p, h) < 0 BY <1>1, <1>2 DEF opinions
<1> QED BY <1>3, ThresholdCases DEF Panics

(* A tally of nothing but yes, up to a total weight that suffices, passes. *)
LEMMA UnanimousPasses ==
  ASSUME NEW p, Covered(p), NEW h \in Nat, Reachable(p),
         p.votes["yes"] = p.total_weight
  PROVE  is_passed(p, h)
<1> DEFINE t == p.threshold
           w == p.total_weight
<1>1. t \in Threshold /\ w \in Nat BY DEF Covered
<1>2. opinions(p, h) = w /\ votes_total(p.votes) = w
  <2>1. \A v \in Vote : p.votes[v] \in Nat BY DEF Covered, Votes
  <2>2. votes_total(p.votes) = w /\ p.votes["abstain"] = 0
    BY <2>1 DEF Covered, votes_total, Vote
  <2> QED BY <1>1, <2>2 DEF opinions
<1>3. CASE t.kind = "absolute_count" /\ t.weight \in Nat
  <2>1. t.weight <= w BY <1>3 DEF Reachable
  <2> QED BY <1>3, <2>1 DEF is_passed
<1>4. CASE t.kind = "absolute_percentage" /\ t.percentage \in Percentage
  <2>1. votes_needed(w, t.percentage) <= w BY <1>1, <1>4, NeededBound
  <2> QED BY <1>2, <1>4, <2>1 DEF is_passed
<1>5. CASE /\ t.kind = "threshold_quorum"
           /\ t.threshold \in Percentage /\ t.quorum \in Percentage
  <2>1. votes_needed(w, t.quorum) <= w /\ votes_needed(w, t.threshold) <= w
    BY <1>1, <1>5, NeededBound
  <2> QED BY <1>2, <1>5, <2>1 DEF is_passed
<1> QED BY <1>1, <1>3, <1>4, <1>5, ThresholdCases

-----------------------------------------------------------------------------
(* The reported status.  Until a proposal expires it is the stored one: it *)
(* was updated with the last vote.                                         *)
UpToDate(p, h) == ~ is_expired(p, h) => current_status(p, h) = p.status

(* From p at height h to q at height k, the reported status keeps any      *)
(* verdict there is.                                                       *)
KeepsVerdict(p, h, q, k) ==
  current_status(q, k) # current_status(p, h) =>
    current_status(p, h) = "open" /\ current_status(q, k) \in {"passed", "rejected"}

SameRules(p, q) ==
  /\ q.threshold = p.threshold /\ q.total_weight = p.total_weight
  /\ q.votes = p.votes /\ q.expires = p.expires

LEMMA CurrentStatusType ==
  ASSUME NEW p, NEW h, p.status \in Status
  PROVE  /\ current_status(p, h) \in Status
         /\ p.status = "open" => current_status(p, h) \in {"open", "passed", "rejected"}
BY DEF current_status, Status

(* update_status. *)
LEMMA UpdatedReport ==
  ASSUME NEW p, NEW h, NEW q, p.status \in Status, SameRules(p, q),
         q.status = current_status(p, h)
  PROVE  current_status(q, h) = current_status(p, h) /\ UpToDate(q, h)
<1>1. /\ is_passed(q, h) <=> is_passed(p, h)
      /\ is_rejected(q, h) <=> is_rejected(p, h)
      /\ is_expired(q, h) <=> is_expired(p, h)
  BY SameTally DEF SameRules
<1> QED BY <1>1 DEF current_status, UpToDate

(* A vote on an unexpired proposal: r is p with the vote added. *)
LEMMA VotedReport ==
  ASSUME NEW p, NEW h, NEW r, NEW q, p.status \in Status, UpToDate(p, h),
         ~ is_expired(p, h), r.status = p.status, SameRules(r, q),
         q.status = current_status(r, h)
  PROVE  KeepsVerdict(p, h, q, h) /\ UpToDate(q, h)
<1>1. current_status(q, h) = current_status(r, h) /\ UpToDate(q, h) BY UpdatedReport
<1>2. current_status(p, h) = p.status BY DEF UpToDate
<1>3. p.status # "open" => current_status(r, h) = p.status BY DEF current_status
<1> QED BY <1>1, <1>2, <1>3, CurrentStatusType DEF KeepsVerdict

(* A new block, with which the proposal may expire. *)
LEMMA AgedReport ==
  ASSUME NEW p, NEW h \in Nat, NEW k \in Nat, h <= k, p.status \in Status,
         p.expires \in Nat, UpToDate(p, h)
  PROVE  KeepsVerdict(p, h, p, k) /\ UpToDate(p, k)
<1>1. is_expired(p, h) => is_expired(p, k) BY DEF is_expired
<1>2. CASE is_expired(p, k) <=> is_expired(p, h)
  <2>1. /\ is_passed(p, k) <=> is_passed(p, h)
        /\ is_rejected(p, k) <=> is_rejected(p, h)
    BY <1>2 DEF is_passed, is_rejected, opinions
  <2>2. current_status(p, k) = current_status(p, h) BY <1>2, <2>1 DEF current_status
  <2> QED BY <1>2, <2>2 DEF KeepsVerdict, UpToDate
<1>3. CASE is_expired(p, k) /\ ~ is_expired(p, h)
  <2>1. current_status(p, h) = p.status BY <1>3 DEF UpToDate
  <2>2. p.status # "open" => current_status(p, k) = p.status BY DEF current_status
  <2>3. UpToDate(p, k) BY <1>3 DEF UpToDate
  <2> QED BY <2>1, <2>2, <2>3, CurrentStatusType DEF KeepsVerdict
<1> QED BY <1>1, <1>2, <1>3
(* What queries report of a list of proposals. *)
Reported(ps, h) == [id \in 1..Len(ps) |-> current_status(ps[id], h)]

LEMMA ReportFields ==
  ASSUME NEW R, \A p \in R : p.status \in Status, NEW ps \in Seq(R), NEW h
  PROVE  /\ Reported(ps, h) \in [1..Len(ps) -> Status]
         /\ Len(Reported(ps, h)) = Len(ps) /\ Len(ps) \in Nat
         /\ \A id \in 1..Len(ps) : /\ ps[id] \in R
                                   /\ Reported(ps, h)[id] = current_status(ps[id], h)
<1>1. Len(ps) \in Nat /\ \A id \in 1..Len(ps) : ps[id] \in R OBVIOUS
<1>2. \A id \in 1..Len(ps) : current_status(ps[id], h) \in Status BY <1>1, CurrentStatusType
<1>3. Reported(ps, h) \in [1..Len(ps) -> Status] BY <1>2 DEF Reported
<1> QED BY <1>1, <1>3, FunctionIsSeq DEF Reported

LEMMA ReportAppended ==
  ASSUME NEW R, \A p \in R : p.status \in Status, NEW ps \in Seq(R), NEW q \in R, NEW h
  PROVE  Reported(Append(ps, q), h) = Append(Reported(ps, h), current_status(q, h))
<1> DEFINE qs == Append(ps, q)
           n == Len(ps)
<1>1. /\ qs \in Seq(R) /\ Len(qs) = n + 1 /\ qs[n + 1] = q /\ n \in Nat
      /\ \A id \in 1..n : qs[id] = ps[id]
  OBVIOUS
<1>2. n + 1 \in 1..(n + 1) /\ \A id \in 1..n : id \in 1..(n + 1) BY <1>1
<1> HIDE DEF qs
<1>3. /\ Reported(ps, h) \in [1..n -> Status] /\ Reported(qs, h) \in [1..(n + 1) -> Status]
      /\ \A id \in 1..n : Reported(ps, h)[id] = current_status(ps[id], h)
      /\ \A id \in 1..(n + 1) : Reported(qs, h)[id] = current_status(qs[id], h)
  BY <1>1, ReportFields
<1>4. \A id \in 1..n : Reported(qs, h)[id] = Reported(ps, h)[id] BY <1>1, <1>2, <1>3
<1>5. Reported(qs, h)[n + 1] = current_status(q, h) BY <1>1, <1>2, <1>3
<1> HIDE DEF n
<1>6. Reported(qs, h) = Append(Reported(ps, h), Reported(qs, h)[n + 1])
  BY <1>1, <1>3, <1>4, AppendedFunction
<1> QED BY <1>5, <1>6 DEF qs

LEMMA ReportDecided ==
  ASSUME NEW R, \A p \in R : p.status \in Status, NEW ps \in Seq(R), NEW qs \in Seq(R),
         Len(qs) = Len(ps), NEW h, NEW k,
         \A id \in 1..Len(ps) : KeepsVerdict(ps[id], h, qs[id], k)
  PROVE  /\ Len(Reported(qs, k)) = Len(Reported(ps, h))
         /\ \A id \in 1..Len(Reported(ps, h)) :
              Reported(qs, k)[id] # Reported(ps, h)[id] =>
                /\ Reported(ps, h)[id] = "open"
                /\ Reported(qs, k)[id] \in {"passed", "rejected"}
<1>1. /\ Len(Reported(ps, h)) = Len(ps) /\ Len(Reported(qs, k)) = Len(ps)
      /\ \A id \in 1..Len(ps) : /\ Reported(ps, h)[id] = current_status(ps[id], h)
                                /\ Reported(qs, k)[id] = current_status(qs[id], k)
  BY ReportFields
<1> QED BY <1>1 DEF KeepsVerdict

LEMMA ReportReplaced ==
  ASSUME NEW R, \A p \in R : p.status \in Status, NEW ps \in Seq(R),
         NEW id \in 1..Len(ps), NEW q \in R, NEW h
  PROVE  Reported([ps EXCEPT ![id] = q], h)
           = [Reported(ps, h) EXCEPT ![id] = current_status(q, h)]
<1> DEFINE qs == [ps EXCEPT ![id] = q]
<1>1. /\ qs \in Seq(R) /\ Len(qs) = Len(ps)
      /\ \A j \in 1..Len(ps) : qs[j] = IF j = id THEN q ELSE ps[j]
  OBVIOUS
<1> HIDE DEF qs
<1>2. /\ Reported(qs, h) \in [1..Len(ps) -> Status] /\ Reported(ps, h) \in [1..Len(ps) -> Status]
      /\ \A j \in 1..Len(ps) : /\ Reported(ps, h)[j] = current_status(ps[j], h)
                               /\ Reported(qs, h)[j] = current_status(qs[j], h)
  BY <1>1, ReportFields
<1> QED BY <1>1, <1>2 DEF qs

(* Repeated voters can only make the stored weights smaller than the total *)
(* weight of the list.                                                     *)
LEMMA SavedVotersFit ==
  ASSUME NEW list \in Seq([addr: Addr, weight: Nat])
  PROVE  /\ SavedVoters(list) \in [DOMAIN SavedVoters(list) -> Nat]
         /\ DOMAIN SavedVoters(list) \subseteq Addr
         /\ ListWeight(list) \in Nat
         /\ Total(SavedVoters(list)) <= ListWeight(list)
<1> DEFINE I == 1..Len(list)
           R == {list[i].addr : i \in I}
           Last(a, i) == list[i].addr = a /\ \A j \in I : list[j].addr = a => j <= i
           m == [a \in R |-> CHOOSE i \in I : Last(a, i)]
           g == [i \in I |-> list[i].weight]
           f == SavedVoters(list)
<1>1. Len(list) \in Nat /\ \A i \in I : list[i].addr \in Addr /\ list[i].weight \in Nat
  <2> DEFINE Mem == [addr: Addr, weight: Nat]
  <2>1. list \in Seq(Mem) OBVIOUS
  <2>2. Len(list) \in Nat /\ \A i \in I : list[i] \in Mem
    <3> HIDE DEF Mem
    <3> QED BY <2>1
  <2> QED BY <2>2
<1>2. ASSUME NEW a \in R PROVE m[a] \in I /\ Last(a, m[a])
  <2> DEFINE T == {i \in I : list[i].addr = a}
  <2>1. T \in SUBSET I /\ T # {} BY <1>2
  <2>2. PICK i \in T : \A j \in T : j <= i
    <3> HIDE DEF T
    <3> QED BY <1>1, <2>1, GreatestIndex
  <2>3. \E k \in I : Last(a, k) BY <2>2
  <2> QED BY <2>3
<1>3. f = [a \in R |-> list[m[a]].weight] BY DEF SavedVoters
<1>4. m \in [R -> I] BY <1>2
<1>5. f \in [R -> Nat] /\ g \in [I -> Nat] BY <1>1, <1>2, <1>3
<1>6. \A x, y \in R : m[x] = m[y] => x = y BY <1>2
<1>7. ASSUME NEW x \in R PROVE f[x] <= g[m[x]]
  <2>1. m[x] \in I BY <1>2
  <2> HIDE DEF m, R, f
  <2>2. f[x] = list[m[x]].weight /\ g[m[x]] = list[m[x]].weight BY <1>3, <2>1
  <2> QED BY <1>1, <2>1, <2>2
<1>8. IsFiniteSet(I) BY <1>1, FS_Interval
<1>9. Total(f) <= Total(g)
  <2> HIDE DEF f, g, m, I, R
  <2> QED BY <1>4, <1>5, <1>6, <1>7, <1>8, TotalEmbedding
<1>10. Total(g) \in Nat
  <2> HIDE DEF g, I
  <2> QED BY <1>5, <1>8, TotalType
<1>11. DOMAIN f = R /\ R \subseteq Addr BY <1>1, <1>5
<1> QED BY <1>5, <1>9, <1>10, <1>11 DEF ListWeight

-----------------------------------------------------------------------------
(* What never changes after instantiate. *)
ConfigInv ==
  /\ validate(cfg.threshold, cfg.total_weight)
  /\ Total(voters) <= cfg.total_weight

(* What holds of one proposal p with ballots bs: the ballots carry the     *)
(* weights of the voters, the tally is their sum, a verdict agrees with    *)
(* the tally, and a rejected proposal was rejected by its votes or has     *)
(* expired (votes on an unexpired proposal are still accepted).            *)
Good(p, bs, vs, c, h) ==
  /\ p \in ProposalRecord /\ bs \in BallotMap
  /\ p.threshold = c.threshold
  /\ p.total_weight = c.total_weight
  /\ p.expires <= h + c.max_voting_period
  /\ \A a \in Addr : bs[a] # NoBallot => a \in DOMAIN vs /\ bs[a].weight = vs[a]
  /\ \A vote \in Vote : p.votes[vote] = Total(CastFor(bs, vote))
  /\ votes_total(p.votes) = Total(CastWeights(bs))
  /\ p.status \in {"passed", "executed"} => is_passed(p, h)
  /\ p.status = "rejected" =>
       ~ is_passed(p, h) /\ (is_rejected(p, h) \/ is_expired(p, h))

IInv ==
  /\ StorageOK
  /\ ConfigInv
  /\ \A id \in ProposalIds : Good(proposals[id], ballots[id], voters, cfg, height)

LEMMA InitIInv == Init => IInv
<1> SUFFICES ASSUME Init PROVE IInv OBVIOUS
<1>1. PICK list \in VoterLists, t \in Thresholds, d \in Periods : instantiate(list, t, d)
  BY DEF Init
<1>2. list \in Seq([addr: Addr, weight: Nat]) /\ t \in Threshold /\ d \in Nat
  BY ListsAssumption, ConfigAssumption
<1>3. /\ voters = SavedVoters(list)
      /\ cfg = [threshold |-> t, total_weight |-> ListWeight(list), max_voting_period |-> d]
      /\ validate(t, ListWeight(list))
  BY <1>1 DEF instantiate
<1>4. /\ voters \in [DOMAIN voters -> Nat] /\ DOMAIN voters \subseteq Addr
      /\ ListWeight(list) \in Nat /\ Total(voters) <= ListWeight(list)
  BY <1>2, <1>3, SavedVotersFit
<1>5. cfg \in Config BY <1>2, <1>3, <1>4 DEF Config
<1>6. StorageOK BY <1>4, <1>5 DEF Init, StorageOK
<1>7. ConfigInv BY <1>3, <1>4 DEF ConfigInv
<1>8. ProposalIds = {} BY DEF Init, ProposalIds
<1> QED BY <1>6, <1>7, <1>8 DEF IInv
-----------------------------------------------------------------------------
(* update_status changes the status only, and only of an open proposal.    *)
LEMMA UpdateStatus ==
  ASSUME NEW p \in ProposalRecord, NEW h \in Nat, NEW q, q = update_status(p, h)
  PROVE  /\ q \in ProposalRecord
         /\ q.threshold = p.threshold /\ q.total_weight = p.total_weight
         /\ q.votes = p.votes /\ q.expires = p.expires
         /\ \A k : /\ is_passed(q, k) <=> is_passed(p, k)
                   /\ is_rejected(q, k) <=> is_rejected(p, k)
                   /\ is_expired(q, k) <=> is_expired(p, k)
         /\ p.status # "open" => q.status = p.status
         /\ p.status = "open" => q.status # "executed"
         /\ p.status = "open" /\ q.status = "passed" => is_passed(p, h)
         /\ p.status = "open" /\ q.status = "rejected" =>
              ~ is_passed(p, h) /\ (is_rejected(p, h) \/ is_expired(p, h))
<1>1. current_status(p, h) \in Status
  BY DEF ProposalRecord, current_status, Status
<1>2. /\ q \in ProposalRecord /\ q.status = current_status(p, h)
      /\ q.threshold = p.threshold /\ q.total_weight = p.total_weight
      /\ q.votes = p.votes /\ q.expires = p.expires
  BY <1>1 DEF ProposalRecord, update_status
<1>3. \A k : /\ is_passed(q, k) <=> is_passed(p, k)
             /\ is_rejected(q, k) <=> is_rejected(p, k)
             /\ is_expired(q, k) <=> is_expired(p, k)
  BY <1>2 DEF is_passed, is_rejected, is_expired, opinions
<1> QED BY <1>2, <1>3 DEF current_status

(* A good proposal is covered by its total weight. *)
LEMMA GoodIsCovered ==
  ASSUME NEW p, NEW bs, NEW vs, NEW c, NEW h, Good(p, bs, vs, c, h),
         vs \in [DOMAIN vs -> Nat], DOMAIN vs \subseteq Addr,
         c \in Config, Total(vs) <= c.total_weight
  PROVE  Covered(p)
<1>1. /\ p \in ProposalRecord /\ bs \in BallotMap
      /\ p.total_weight = c.total_weight
      /\ votes_total(p.votes) = Total(CastWeights(bs))
  BY DEF Good
<1>2. Total(CastWeights(bs)) <= Total(vs) BY <1>1, BallotsFit DEF Good
<1>3. /\ Total(CastWeights(bs)) \in Nat /\ Total(vs) \in Nat /\ c.total_weight \in Nat
  <2>1. IsFiniteSet(DOMAIN vs) BY AddrAssumption, FS_Subset
  <2> QED BY <1>1, <2>1, AddrAssumption, TotalType, BallotMapTypes DEF Config
<1>4. votes_total(p.votes) <= p.total_weight BY <1>1, <1>2, <1>3
<1> QED BY <1>1, <1>4 DEF Covered, ProposalRecord

LEMMA ProposalFacts ==
  ASSUME IInv, NEW id \in ProposalIds
  PROVE  /\ Good(proposals[id], ballots[id], voters, cfg, height)
         /\ proposals[id] \in ProposalRecord /\ ballots[id] \in BallotMap
         /\ id \in 1..Len(proposals) /\ id \in 1..Len(ballots) /\ id \in 1..Len(dispatched)
         /\ Covered(proposals[id])
<1>1. Good(proposals[id], ballots[id], voters, cfg, height) BY DEF IInv
<1>2. Covered(proposals[id])
  BY <1>1, GoodIsCovered DEF IInv, StorageOK, ConfigInv
<1> QED BY <1>1, <1>2 DEF IInv, StorageOK, ProposalIds, Good

(* A new proposal with the proposer's ballot is good. *)
LEMMA NewIsGood ==
  ASSUME IInv, NEW s \in DOMAIN voters, NEW latest \in Latest \cup {None},
         NEW bs, bs = SaveBallot(NoBallots, s, voters[s], "yes")
  PROVE  Good(update_status(NewProposal(s, latest), height), bs, voters, cfg, height)
<1> DEFINE p == NewProposal(s, latest)
           q == update_status(p, height)
           w == voters[s]
<1>1. w \in Nat /\ s \in Addr /\ cfg \in Config /\ height \in Nat
  BY DEF IInv, StorageOK
<1>2. Expires(latest) \in Nat /\ Expires(latest) <= height + cfg.max_voting_period
  BY <1>1, ConfigAssumption DEF Expires, Config
<1>3. p \in ProposalRecord /\ p.expires = Expires(latest) /\ p.votes = votes_yes(w) /\ p.status = "open"
      /\ p.threshold = cfg.threshold /\ p.total_weight = cfg.total_weight
  BY <1>1, <1>2, YesVotes DEF NewProposal, ProposalRecord, Config, Status
<1>7. /\ bs \in BallotMap
      /\ Total(CastWeights(bs)) = w
      /\ \A u \in Vote : Total(CastFor(bs, u)) = votes_yes(w)[u]
  BY <1>1, FirstBallot
<1>8. \A a \in Addr : bs[a] # NoBallot => a \in DOMAIN voters /\ bs[a].weight = voters[a]
  BY <1>1 DEF SaveBallot, NoBallots
<1> HIDE DEF p, q
<1>9. /\ \A vote \in Vote : p.votes[vote] = Total(CastFor(bs, vote))
      /\ votes_total(p.votes) = Total(CastWeights(bs))
  BY <1>1, <1>3, <1>7, YesVotes
<1>a. /\ is_passed(q, height) <=> is_passed(p, height)
      /\ is_rejected(q, height) <=> is_rejected(p, height)
      /\ is_expired(q, height) <=> is_expired(p, height)
  BY <1>1, <1>3, UpdateStatus DEF q
<1>10. /\ q \in ProposalRecord
       /\ q.threshold = p.threshold /\ q.total_weight = p.total_weight /\ q.votes = p.votes
       /\ q.expires = p.expires
       /\ q.status # "executed"
       /\ q.status = "passed" => is_passed(q, height)
       /\ q.status = "rejected" =>
            ~ is_passed(q, height) /\ (is_rejected(q, height) \/ is_expired(q, height))
  BY <1>1, <1>3, <1>a, UpdateStatus, SMTT(30) DEF q
<1> QED BY <1>2, <1>3, <1>7, <1>8, <1>9, <1>10 DEF Good, p, q

(* Adding an admissible vote keeps a proposal good, whatever its status.   *)
LEMMA VotedIsGood ==
  ASSUME IInv, NEW s \in Addr, NEW id \in ProposalIds, NEW v \in Vote, CanVote(s, id),
         NEW bs, bs = SaveBallot(ballots[id], s, voters[s], v)
  PROVE  /\ Good(update_status(WithVote(s, id, v), height), bs, voters, cfg, height)
         /\ Later(proposals[id], height, update_status(WithVote(s, id, v), height), height)
<1> DEFINE p == proposals[id]
           r == WithVote(s, id, v)
           q == update_status(r, height)
           w == voters[s]
<1>1. /\ Good(p, ballots[id], voters, cfg, height) /\ Covered(p)
      /\ p \in ProposalRecord /\ ballots[id] \in BallotMap
  BY ProposalFacts
<1>2. w \in Nat /\ s \in DOMAIN voters /\ height \in Nat
  BY DEF CanVote, IInv, StorageOK
<1>3. ballots[id][s] = NoBallot /\ ~ is_expired(p, height) BY DEF CanVote
<1>4. /\ r \in ProposalRecord /\ r.votes = add_vote(p.votes, v, w) /\ r.status = p.status
      /\ r.threshold = p.threshold /\ r.total_weight = p.total_weight /\ r.expires = p.expires
  BY <1>1, <1>2, AddVote DEF WithVote, ProposalRecord
<1>5. p.votes \in Votes BY <1>1 DEF ProposalRecord
<1>6. /\ bs \in BallotMap
      /\ Total(CastWeights(bs)) = Total(CastWeights(ballots[id])) + w
      /\ Total(CastFor(bs, v)) = Total(CastFor(ballots[id], v)) + w
      /\ \A u \in Vote \ {v} : Total(CastFor(bs, u)) = Total(CastFor(ballots[id], u))
  BY <1>1, <1>2, <1>3, BallotAdded
<1>7. \A a \in Addr : bs[a] # NoBallot => a \in DOMAIN voters /\ bs[a].weight = voters[a]
  <2>1. \A a \in Addr : ballots[id][a] # NoBallot =>
          a \in DOMAIN voters /\ ballots[id][a].weight = voters[a]
    BY <1>1 DEF Good
  <2>2. ballots[id] \in [Addr -> Ballot \cup {NoBallot}] BY <1>1 DEF BallotMap
  <2> QED BY <1>2, <2>1, <2>2 DEF SaveBallot
<1> HIDE DEF p, r, q, w
<1>8. /\ \A u \in Vote : r.votes[u] = Total(CastFor(bs, u))
      /\ votes_total(r.votes) = Total(CastWeights(bs))
  <2>1. /\ \A u \in Vote : p.votes[u] = Total(CastFor(ballots[id], u))
        /\ votes_total(p.votes) = Total(CastWeights(ballots[id]))
    BY <1>1 DEF Good
  <2> QED BY <1>2, <1>4, <1>5, <1>6, <2>1, AddVote
<1>9. /\ q \in ProposalRecord
      /\ q.threshold = r.threshold /\ q.total_weight = r.total_weight
      /\ q.votes = r.votes /\ q.expires = r.expires
      /\ is_passed(q, height) <=> is_passed(r, height)
      /\ is_rejected(q, height) <=> is_rejected(r, height)
      /\ is_expired(q, height) <=> is_expired(r, height)
  BY <1>2, <1>4, UpdateStatus DEF q
<1>10. Later(p, height, r, height) /\ Later(p, height, q, height)
  <2>1. \A u \in Vote : p.votes[u] <= r.votes[u] BY <1>2, <1>4, <1>5, AddVote
  <2>2. height <= height BY <1>2
  <2> QED BY <1>2, <1>3, <1>4, <1>9, <2>1, <2>2 DEF Later
<1>11. Covered(r)
  <2> DEFINE b == [r EXCEPT !.status = "open"]
  <2>1. /\ b \in ProposalRecord /\ b.status = "open" /\ b.votes = r.votes
        /\ b.threshold = r.threshold /\ b.total_weight = r.total_weight
        /\ b.expires = r.expires
    BY <1>4 DEF ProposalRecord, Status
  <2>2. Good(b, bs, voters, cfg, height)
    <3> HIDE DEF b
    <3> QED BY <1>1, <1>4, <1>6, <1>7, <1>8, <2>1 DEF Good
  <2>3. Covered(b)
    BY <2>2, GoodIsCovered DEF IInv, StorageOK, ConfigInv
  <2> HIDE DEF b
  <2> QED BY <2>1, <2>3 DEF Covered
<1>12. /\ q.status \in {"passed", "executed"} => is_passed(q, height)
       /\ q.status = "rejected" =>
            ~ is_passed(q, height) /\ (is_rejected(q, height) \/ is_expired(q, height))
  <2>1. CASE p.status = "open"
    BY <1>2, <1>4, <1>9, <2>1, UpdateStatus DEF q
  <2>2. CASE p.status # "open"
    <3>1. q.status = p.status BY <1>2, <1>4, <2>2, UpdateStatus DEF q
    <3>2. p.status \in {"passed", "executed"} => is_passed(r, height)
      BY <1>1, <1>10, <1>11, PassedIsStable DEF Good
    <3>3. p.status = "rejected" => is_rejected(r, height)
      BY <1>1, <1>3, <1>10, <1>11, RejectedIsStable DEF Good
    <3>4. is_rejected(r, height) => ~ is_passed(r, height)
      BY <1>2, <1>11, VerdictsExclude
    <3> QED BY <1>9, <3>1, <3>2, <3>3, <3>4
  <2> QED BY <2>1, <2>2
<1>13. Good(q, bs, voters, cfg, height)
  BY <1>1, <1>4, <1>6, <1>7, <1>8, <1>9, <1>12 DEF Good
<1> QED BY <1>10, <1>13 DEF p, q, r

-----------------------------------------------------------------------------
(* A change of the status alone keeps a proposal good, if the new status   *)
(* is one the tally supports.                                              *)
LEMMA RestatedIsGood ==
  ASSUME NEW p, NEW bs, NEW vs, NEW c, NEW h \in Nat, Good(p, bs, vs, c, h),
         NEW s \in Status, NEW q, q = [p EXCEPT !.status = s],
         s \in {"passed", "executed"} => is_passed(p, h),
         s = "rejected" => ~ is_passed(p, h) /\ (is_rejected(p, h) \/ is_expired(p, h))
  PROVE  Good(q, bs, vs, c, h) /\ Later(p, h, q, h)
<1>1. p \in ProposalRecord BY DEF Good
<1>2. /\ q \in ProposalRecord /\ q.status = s
      /\ q.threshold = p.threshold /\ q.total_weight = p.total_weight
      /\ q.votes = p.votes /\ q.expires = p.expires
  BY <1>1 DEF ProposalRecord
<1>3. /\ is_passed(q, h) <=> is_passed(p, h)
      /\ is_rejected(q, h) <=> is_rejected(p, h)
      /\ is_expired(q, h) <=> is_expired(p, h)
  BY <1>2, SameTally
<1>4. Good(q, bs, vs, c, h) BY <1>2, <1>3 DEF Good
<1>5. \A v \in Vote : p.votes[v] <= q.votes[v]
  <2>1. \A v \in Vote : p.votes[v] \in Nat BY <1>1 DEF ProposalRecord, Votes
  <2> QED BY <1>2, <2>1
<1>6. Later(p, h, q, h)
  <2>1. h <= h OBVIOUS
  <2> QED BY <1>2, <1>5, <2>1 DEF Later
<1> QED BY <1>4, <1>6

(* A new block keeps a proposal good: a quorum threshold may change from   *)
(* undecided to decided at the expiration, never from one verdict to the   *)
(* other.                                                                  *)
LEMMA AgedIsGood ==
  ASSUME NEW p, NEW bs, NEW vs, NEW c \in Config, NEW h \in Nat, NEW k \in Nat, h <= k,
         Good(p, bs, vs, c, h), Covered(p)
  PROVE  Good(p, bs, vs, c, k) /\ Later(p, h, p, k)
<1>1. Later(p, h, p, k)
  <2>1. \A v \in Vote : p.votes[v] <= p.votes[v] BY DEF Covered, Votes
  <2> QED BY <2>1 DEF Later
<1>2. is_passed(p, h) => is_passed(p, k) BY <1>1, PassedIsStable
<1>3. is_rejected(p, h) => is_rejected(p, k) /\ ~ is_passed(p, k)
  BY <1>1, RejectedIsStable, VerdictsExclude
<1>4. is_expired(p, h) => is_expired(p, k) /\ (is_passed(p, k) <=> is_passed(p, h))
  <2>1. p.expires \in Nat BY DEF Covered
  <2>2. is_expired(p, h) => is_expired(p, k) BY <2>1 DEF is_expired
  <2>3. is_expired(p, h) => opinions(p, k) = opinions(p, h) BY <2>2 DEF opinions
  <2> QED BY <2>2, <2>3 DEF is_passed
<1>5. p.expires <= k + c.max_voting_period
  <2>1. p.expires \in Nat /\ c.max_voting_period \in Nat BY DEF Covered, Config
  <2> QED BY <2>1 DEF Good
<1> QED BY <1>1, <1>2, <1>3, <1>4, <1>5 DEF Good

-----------------------------------------------------------------------------
(* What every step does to the proposals there are: their number does not  *)
(* shrink and each is followed by a later version of itself.               *)
StepLater ==
  /\ ProposalIds \subseteq ProposalIds'
  /\ \A id \in ProposalIds : Later(proposals[id], height, proposals'[id], height')

(* The steps that change one proposal and nothing but its record, ballots  *)
(* and dispatches.                                                         *)
LEMMA OneProposalStep ==
  ASSUME IInv, NEW id \in ProposalIds, NEW q, NEW bs,
         Good(q, bs, voters, cfg, height), Later(proposals[id], height, q, height),
         proposals' = [proposals EXCEPT ![id] = q],
         ballots' = [ballots EXCEPT ![id] = bs],
         dispatched' \in Seq(Nat), Len(dispatched') = Len(dispatched),
         UNCHANGED <<cfg, voters, height>>
  PROVE  IInv' /\ StepLater
<1>1. /\ proposals \in Seq(ProposalRecord) /\ ballots \in Seq(BallotMap)
      /\ Len(ballots) = Len(proposals) /\ Len(dispatched) = Len(proposals)
      /\ height \in Nat /\ cfg \in Config
  BY DEF IInv, StorageOK, BallotMap
<1>2. q \in ProposalRecord /\ bs \in BallotMap BY DEF Good
<1>3. /\ proposals' \in Seq(ProposalRecord) /\ Len(proposals') = Len(proposals)
      /\ ballots' \in Seq(BallotMap) /\ Len(ballots') = Len(ballots)
      /\ \A j \in ProposalIds : proposals'[j] = IF j = id THEN q ELSE proposals[j]
      /\ \A j \in ProposalIds : ballots'[j] = IF j = id THEN bs ELSE ballots[j]
  BY <1>1, <1>2 DEF ProposalIds
<1>4. ProposalIds' = ProposalIds BY <1>3 DEF ProposalIds
<1>5. StorageOK' BY <1>1, <1>3 DEF IInv, StorageOK, BallotMap
<1>6. ConfigInv' BY DEF IInv, ConfigInv
<1>7. ASSUME NEW j \in ProposalIds
      PROVE  /\ Good(proposals'[j], ballots'[j], voters', cfg', height')
             /\ Later(proposals[j], height, proposals'[j], height')
  <2>1. CASE j = id BY <1>3, <2>1
  <2>2. CASE j # id
    <3>1. Good(proposals[j], ballots[j], voters, cfg, height) /\ Covered(proposals[j])
      BY ProposalFacts
    <3>2. height <= height BY <1>1
    <3>3. Later(proposals[j], height, proposals[j], height)
      BY <1>1, <3>1, <3>2, AgedIsGood
    <3> QED BY <1>3, <2>2, <3>1, <3>3
  <2> QED BY <2>1, <2>2
<1>8. IInv' BY <1>4, <1>5, <1>6, <1>7 DEF IInv
<1> QED BY <1>4, <1>7, <1>8 DEF StepLater

LEMMA ProposeStep ==
  ASSUME IInv, NEW s \in Addr, NEW latest \in Latest \cup {None}, execute_propose(s, latest)
  PROVE  IInv' /\ StepLater
<1> DEFINE q == update_status(NewProposal(s, latest), height)
           bs == SaveBallot(NoBallots, s, voters[s], "yes")
           n == Len(proposals)
<1>1. /\ s \in DOMAIN voters /\ proposals' = Append(proposals, q)
      /\ ballots' = Append(ballots, bs) /\ dispatched' = Append(dispatched, 0)
      /\ UNCHANGED <<cfg, voters, height>>
  BY DEF execute_propose
<1>2. Good(q, bs, voters, cfg, height) BY <1>1, NewIsGood
<1>3. q \in ProposalRecord /\ bs \in BallotMap BY <1>2 DEF Good
<1>4. /\ proposals \in Seq(ProposalRecord) /\ ballots \in Seq(BallotMap)
      /\ dispatched \in Seq(Nat) /\ height \in Nat /\ cfg \in Config
      /\ Len(ballots) = n /\ Len(dispatched) = n
  BY DEF IInv, StorageOK, BallotMap
<1> HIDE DEF q, bs
<1>5. /\ proposals' \in Seq(ProposalRecord) /\ Len(proposals') = n + 1
      /\ ballots' \in Seq(BallotMap) /\ Len(ballots') = n + 1
      /\ dispatched' \in Seq(Nat) /\ Len(dispatched') = n + 1
      /\ \A j \in 1..n : proposals'[j] = proposals[j] /\ ballots'[j] = ballots[j]
      /\ proposals'[n + 1] = q /\ ballots'[n + 1] = bs
      /\ n \in Nat
  BY <1>1, <1>3, <1>4
<1>6. StorageOK' BY <1>1, <1>5 DEF IInv, StorageOK, BallotMap
<1>7. ConfigInv' BY <1>1 DEF IInv, ConfigInv
<1>8. ASSUME NEW j \in ProposalIds
      PROVE  /\ Good(proposals'[j], ballots'[j], voters', cfg', height')
             /\ Later(proposals[j], height, proposals'[j], height')
  <2>1. Good(proposals[j], ballots[j], voters, cfg, height) /\ Covered(proposals[j])
    BY ProposalFacts
  <2>2. height <= height BY <1>4
  <2>3. Later(proposals[j], height, proposals[j], height)
    BY <1>4, <2>1, <2>2, AgedIsGood
  <2> QED BY <1>1, <1>5, <2>1, <2>3 DEF ProposalIds
<1>9. Good(proposals'[n + 1], ballots'[n + 1], voters', cfg', height')
  BY <1>1, <1>2, <1>5
<1>10. ProposalIds' = ProposalIds \cup {n + 1} BY <1>5 DEF ProposalIds
<1>11. IInv' BY <1>6, <1>7, <1>8, <1>9, <1>10 DEF IInv
<1> QED BY <1>8, <1>10, <1>11 DEF StepLater

LEMMA VoteStep ==
  ASSUME IInv, NEW s \in Addr, NEW id \in ProposalIds, NEW v \in Vote, execute_vote(s, id, v)
  PROVE  IInv' /\ StepLater
<1> DEFINE q == update_status(WithVote(s, id, v), height)
           bs == SaveBallot(ballots[id], s, voters[s], v)
<1>1. /\ CanVote(s, id) /\ proposals' = [proposals EXCEPT ![id] = q]
      /\ ballots' = [ballots EXCEPT ![id] = bs]
      /\ UNCHANGED <<cfg, voters, height, dispatched>>
  BY DEF execute_vote
<1>2. Good(q, bs, voters, cfg, height) /\ Later(proposals[id], height, q, height)
  BY <1>1, VotedIsGood
<1>3. dispatched' \in Seq(Nat) /\ Len(dispatched') = Len(dispatched)
  BY <1>1 DEF IInv, StorageOK
<1> HIDE DEF q, bs
<1> QED BY <1>1, <1>2, <1>3, OneProposalStep

LEMMA ExecuteStep ==
  ASSUME IInv, NEW id \in ProposalIds, execute_execute(id)
  PROVE  IInv' /\ StepLater
<1> DEFINE p == proposals[id]
           q == [p EXCEPT !.status = "executed"]
<1>1. /\ current_status(p, height) = "passed"
      /\ proposals' = [proposals EXCEPT ![id] = q]
      /\ dispatched' = [dispatched EXCEPT ![id] = dispatched[id] + 1]
      /\ UNCHANGED <<cfg, voters, ballots, height>>
  BY DEF execute_execute
<1>2. Good(p, ballots[id], voters, cfg, height) /\ ballots[id] \in BallotMap
      /\ id \in 1..Len(ballots) /\ id \in 1..Len(dispatched)
  BY ProposalFacts
<1>3. is_passed(p, height) BY <1>1, <1>2 DEF current_status, Good
<1>4. /\ height \in Nat /\ dispatched \in Seq(Nat) /\ ballots \in Seq(BallotMap)
  BY DEF IInv, StorageOK, BallotMap
<1>5. Good(q, ballots[id], voters, cfg, height) /\ Later(p, height, q, height)
  BY <1>2, <1>3, <1>4, RestatedIsGood DEF Status
<1>6. ballots' = [ballots EXCEPT ![id] = ballots[id]] BY <1>1, <1>2, <1>4
<1>7. dispatched' \in Seq(Nat) /\ Len(dispatched') = Len(dispatched)
  BY <1>1, <1>2, <1>4
<1> HIDE DEF q
<1> QED BY <1>1, <1>5, <1>6, <1>7, OneProposalStep

LEMMA CloseStep ==
  ASSUME IInv, NEW id \in ProposalIds, execute_close(id)
  PROVE  IInv' /\ StepLater
<1> DEFINE p == proposals[id]
           q == [p EXCEPT !.status = "rejected"]
<1>1. /\ current_status(p, height) # "passed" /\ is_expired(p, height)
      /\ p.status \notin {"executed", "rejected", "passed"}
      /\ proposals' = [proposals EXCEPT ![id] = q]
      /\ UNCHANGED <<cfg, voters, ballots, height, dispatched>>
  BY DEF execute_close, CanClose
<1>2. /\ Good(p, ballots[id], voters, cfg, height) /\ ballots[id] \in BallotMap
      /\ id \in 1..Len(ballots) /\ p \in ProposalRecord
  BY ProposalFacts
<1>3. ~ is_passed(p, height)
  <2>1. p.status = "open" BY <1>1, <1>2 DEF ProposalRecord, Status
  <2> QED BY <1>1, <2>1 DEF current_status
<1>4. /\ height \in Nat /\ dispatched \in Seq(Nat) /\ ballots \in Seq(BallotMap)
  BY DEF IInv, StorageOK, BallotMap
<1>5. Good(q, ballots[id], voters, cfg, height) /\ Later(p, height, q, height)
  BY <1>1, <1>2, <1>3, <1>4, RestatedIsGood DEF Status
<1>6. ballots' = [ballots EXCEPT ![id] = ballots[id]] BY <1>1, <1>2, <1>4
<1>7. dispatched' \in Seq(Nat) /\ Len(dispatched') = Len(dispatched)
  BY <1>1, <1>4
<1> HIDE DEF q
<1> QED BY <1>1, <1>5, <1>6, <1>7, OneProposalStep

LEMMA BlockStep ==
  ASSUME IInv, height' \in {height, height + 1},
         UNCHANGED <<cfg, voters, proposals, ballots, dispatched>>
  PROVE  IInv' /\ StepLater
<1>1. height \in Nat /\ height' \in Nat /\ height <= height' /\ cfg \in Config
  BY DEF IInv, StorageOK
<1>2. StorageOK' BY <1>1 DEF IInv, StorageOK
<1>3. ConfigInv' BY DEF IInv, ConfigInv
<1>4. ProposalIds' = ProposalIds BY DEF ProposalIds
<1>5. ASSUME NEW j \in ProposalIds
      PROVE  /\ Good(proposals[j], ballots[j], voters, cfg, height')
             /\ Later(proposals[j], height, proposals[j], height')
  <2>1. Good(proposals[j], ballots[j], voters, cfg, height) /\ Covered(proposals[j])
    BY ProposalFacts
  <2> QED BY <1>1, <2>1, AgedIsGood
<1>6. IInv' BY <1>2, <1>3, <1>4, <1>5 DEF IInv
<1> QED BY <1>4, <1>5, <1>6 DEF StepLater

LEMMA NextIInv == IInv /\ [Next]_vars => IInv' /\ StepLater
<1> SUFFICES ASSUME IInv, [Next]_vars PROVE IInv' /\ StepLater OBVIOUS
<1>1. CASE \E s \in Addr, latest \in Latest \cup {None} : execute_propose(s, latest)
  BY <1>1, ProposeStep
<1>2. CASE \E s \in Addr, id \in ProposalIds, v \in Vote : execute_vote(s, id, v)
  BY <1>2, VoteStep
<1>3. CASE \E id \in ProposalIds : execute_execute(id) BY <1>3, ExecuteStep
<1>4. CASE \E id \in ProposalIds : execute_close(id) BY <1>4, CloseStep
<1>5. CASE NextBlock BY <1>5, BlockStep DEF NextBlock
<1>6. CASE UNCHANGED vars BY <1>6, BlockStep DEF vars
<1> QED BY <1>1, <1>2, <1>3, <1>4, <1>5, <1>6 DEF Next

LEMMA IInvImplies == IInv => TypeOK /\ TallyMatchesBallots /\ VerdictMatchesTally
<1> SUFFICES ASSUME IInv PROVE TypeOK /\ TallyMatchesBallots /\ VerdictMatchesTally OBVIOUS
<1>1. TypeOK BY ProposalFacts DEF IInv, TypeOK, Good
<1>2. ASSUME NEW id \in ProposalIds
      PROVE  /\ \A vote \in Vote : proposals[id].votes[vote] = Total(CastFor(ballots[id], vote))
             /\ votes_total(proposals[id].votes) <= proposals[id].total_weight
             /\ proposals[id].status \in {"passed", "executed"} => is_passed(proposals[id], height)
             /\ proposals[id].status = "rejected" => ~ is_passed(proposals[id], height)
  BY ProposalFacts DEF Good, Covered
<1> QED BY <1>1, <1>2 DEF TallyMatchesBallots, VerdictMatchesTally

(* An admissible vote leaves the tally within the total weight, and the    *)
(* threshold was validated against that weight: nothing underflows.        *)
LEMMA IInvNeverPanics == IInv => VotingNeverPanics
<1> SUFFICES ASSUME IInv, NEW s \in Addr, NEW id \in ProposalIds, NEW v \in Vote, CanVote(s, id)
             PROVE  ~ Panics(WithVote(s, id, v), height)
  BY DEF VotingNeverPanics
<1> DEFINE r == WithVote(s, id, v)
           q == update_status(r, height)
           bs == SaveBallot(ballots[id], s, voters[s], v)
<1>1. Good(q, bs, voters, cfg, height) BY VotedIsGood
<1>2. height \in Nat /\ cfg \in Config BY DEF IInv, StorageOK
<1>3. Covered(q)
  <2> HIDE DEF q, bs
  <2> QED BY <1>1, <1>2, GoodIsCovered DEF IInv, StorageOK, ConfigInv
<1>4. Reachable(q)
  <2>1. /\ q.threshold = cfg.threshold /\ q.total_weight = cfg.total_weight
        /\ validate(cfg.threshold, cfg.total_weight)
    BY <1>1 DEF Good, IInv, ConfigInv
  <2> HIDE DEF q
  <2> QED BY <1>3, <2>1, ValidIsReachable DEF Covered
<1>5. /\ q.threshold = r.threshold /\ q.total_weight = r.total_weight
      /\ q.votes = r.votes /\ q.expires = r.expires
  <2>1. proposals[id] \in ProposalRecord /\ voters[s] \in Nat
    BY ProposalFacts DEF CanVote, IInv, StorageOK
  <2>2. r \in ProposalRecord
    BY <2>1, AddVote DEF WithVote, ProposalRecord
  <2> HIDE DEF r
  <2> QED BY <1>2, <2>2, UpdateStatus
<1> HIDE DEF r, q
<1>6. Covered(r) /\ Reachable(r) BY <1>3, <1>4, <1>5 DEF Covered, Reachable
<1>7. ~ Panics(r, height) BY <1>2, <1>6, CoveredNeverPanics
<1> QED BY <1>7 DEF r

(* Nothing underflows when an expired proposal is settled, so that only    *)
(* the verdict decides between execute and close.                          *)
LEMMA IInvNeverStuck == IInv => NeverStuck
<1> SUFFICES ASSUME IInv, NEW id \in ProposalIds, is_expired(proposals[id], height),
                    proposals[id].status \notin {"executed", "rejected"}
             PROVE  \/ /\ ~ Panics(proposals[id], height)
                       /\ current_status(proposals[id], height) = "passed"
                    \/ CanClose(id)
  BY DEF NeverStuck
<1> DEFINE p == proposals[id]
<1>1. Good(p, ballots[id], voters, cfg, height) /\ Covered(p) BY ProposalFacts
<1>2. height \in Nat /\ validate(cfg.threshold, cfg.total_weight)
  BY DEF IInv, StorageOK, ConfigInv
<1>3. p.threshold = cfg.threshold /\ p.total_weight = cfg.total_weight BY <1>1 DEF Good
<1>4. p.status \in {"open", "passed"} BY <1>1 DEF Good, ProposalRecord, Status
<1>5. Reachable(p) BY <1>1, <1>2, <1>3, ValidIsReachable DEF Covered
<1> HIDE DEF p
<1>6. ~ Panics(p, height) BY <1>1, <1>2, <1>5, CoveredNeverPanics
<1>7. p.status = "passed" => current_status(p, height) = "passed" BY DEF current_status
<1> QED BY <1>4, <1>6, <1>7 DEF CanClose, p

(* With a later version of every proposal, the verdicts are stable.        *)
LEMMA SureSteps == IInv /\ IInv' /\ StepLater => SureStep
<1> SUFFICES ASSUME IInv, IInv', StepLater, NEW id \in ProposalIds
             PROVE  /\ is_passed(proposals[id], height) => is_passed(proposals'[id], height')
                    /\ is_rejected(proposals[id], height) => is_rejected(proposals'[id], height')
  BY DEF SureStep
<1>1. Covered(proposals[id]) BY ProposalFacts
<1>2. id \in ProposalIds' /\ Later(proposals[id], height, proposals'[id], height')
  BY DEF StepLater
<1>3. Good(proposals'[id], ballots'[id], voters', cfg', height') BY <1>2 DEF IInv
<1>4. Covered(proposals'[id])
  BY <1>3, GoodIsCovered DEF IInv, StorageOK, ConfigInv
<1> QED BY <1>1, <1>2, <1>4, PassedIsStable, RejectedIsStable

(* When every vote there is has been a yes, the tally is all of the total  *)
(* weight, and no threshold that was validated asks for more.              *)
LEMMA IInvUnanimous == IInv => UnanimousYesPasses
<1> SUFFICES ASSUME IInv, NEW id \in ProposalIds,
                    Total(voters) = cfg.total_weight,
                    \A a \in DOMAIN voters : voters[a] > 0 => ballots[id][a].vote = "yes"
             PROVE  current_status(proposals[id], height) \in {"passed", "executed"}
  BY DEF UnanimousYesPasses
<1> DEFINE p == proposals[id]
           bs == ballots[id]
           yes == CastFor(bs, "yes")
<1>1. Good(p, bs, voters, cfg, height) /\ Covered(p) /\ p \in ProposalRecord /\ bs \in BallotMap
  BY ProposalFacts
<1>2. /\ voters \in [DOMAIN voters -> Nat] /\ DOMAIN voters \in SUBSET Addr
      /\ height \in Nat /\ validate(cfg.threshold, cfg.total_weight)
  BY DEF IInv, StorageOK, ConfigInv
<1>3. yes \in [Addr -> Nat] BY <1>1, BallotMapTypes
<1>4. \A a \in DOMAIN voters : voters[a] <= yes[a]
  <2> SUFFICES ASSUME NEW a \in DOMAIN voters PROVE voters[a] <= yes[a] OBVIOUS
  <2>1. a \in Addr /\ voters[a] \in Nat /\ yes[a] \in Nat BY <1>2, <1>3
  <2>2. CASE voters[a] = 0
    <3> HIDE DEF yes
    <3> QED BY <2>1, <2>2
  <2>3. CASE voters[a] > 0
    <3>1. bs[a].vote = "yes" /\ bs[a] # NoBallot BY <2>3 DEF NoBallot
    <3>2. bs[a].weight = voters[a] BY <1>1, <2>1, <3>1 DEF Good
    <3>3. yes[a] = voters[a] BY <2>1, <3>1, <3>2 DEF CastFor
    <3> HIDE DEF yes
    <3> QED BY <2>1, <3>3
  <2> QED BY <2>1, <2>2, <2>3
<1>5. Total(voters) <= Total(yes)
  <2> HIDE DEF yes
  <2> QED BY <1>2, <1>3, <1>4, AddrAssumption, TotalMonotone
<1>6. p.votes["yes"] = Total(yes) BY <1>1 DEF Good, Vote
<1>7. /\ p.total_weight = cfg.total_weight /\ p.threshold = cfg.threshold
  BY <1>1 DEF Good
<1>8. p.votes["yes"] = p.total_weight
  <2>1. \A v \in Vote : p.votes[v] \in Nat BY <1>1 DEF Covered, Votes
  <2>2. p.votes["yes"] <= p.total_weight BY <1>1, <2>1 DEF Covered, votes_total, Vote
  <2>3. p.votes["yes"] \in Nat /\ p.total_weight \in Nat BY <1>1, <2>1 DEF Covered, Vote
  <2> QED BY <1>5, <1>6, <1>7, <2>2, <2>3
<1>9. is_passed(p, height)
  <2>1. Reachable(p) BY <1>1, <1>2, <1>7, ValidIsReachable DEF Covered
  <2> QED BY <1>1, <1>2, <1>8, <2>1, UnanimousPasses
<1> QED BY <1>1, <1>9 DEF Good, current_status, ProposalRecord, Status

-----------------------------------------------------------------------------
(* The refinement of Lifecycle.  It needs to know, besides the types, that *)
(* the stored status of a proposal is up to date until it expires.         *)
StatusUpToDate == \A id \in ProposalIds : UpToDate(proposals[id], height)

LEMMA RecordStatus == \A p \in ProposalRecord : p.status \in Status
BY DEF ProposalRecord

LEMMA ReportMapping ==
  /\ ReportedStatus = Reported(proposals, height)
  /\ ReportedStatus' = Reported(proposals', height')
BY DEF ReportedStatus, Reported, ProposalIds

(* Steps that add no proposal and send nothing. *)
LEMMA DecideRefines ==
  ASSUME StorageOK, proposals' \in Seq(ProposalRecord), Len(proposals') = Len(proposals),
         dispatched' = dispatched,
         \A id \in ProposalIds : KeepsVerdict(proposals[id], height, proposals'[id], height')
  PROVE  LC!Decide
<1>1. proposals \in Seq(ProposalRecord) BY DEF StorageOK
<1>2. /\ Len(Reported(proposals', height')) = Len(Reported(proposals, height))
      /\ \A id \in 1..Len(Reported(proposals, height)) :
           Reported(proposals', height')[id] # Reported(proposals, height)[id] =>
             /\ Reported(proposals, height)[id] = "open"
             /\ Reported(proposals', height')[id] \in {"passed", "rejected"}
  BY <1>1, RecordStatus, ReportDecided, SMTT(30) DEF ProposalIds
<1> QED BY <1>2, ReportMapping DEF LC!Decide

(* A step that replaces one proposal by a version q with the same verdict. *)
LEMMA ReplaceRefines ==
  ASSUME StorageOK, StatusUpToDate, NEW id \in ProposalIds, NEW q \in ProposalRecord,
         proposals' = [proposals EXCEPT ![id] = q],
         KeepsVerdict(proposals[id], height, q, height), UpToDate(q, height),
         UNCHANGED <<height, dispatched>>
  PROVE  LC!Decide /\ StatusUpToDate'
<1>1. /\ proposals' \in Seq(ProposalRecord) /\ Len(proposals') = Len(proposals)
      /\ \A j \in ProposalIds : proposals'[j] = IF j = id THEN q ELSE proposals[j]
  BY DEF StorageOK, ProposalIds
<1>2. \A j \in ProposalIds : KeepsVerdict(proposals[j], height, proposals'[j], height')
  BY <1>1 DEF KeepsVerdict
<1>3. LC!Decide BY <1>1, <1>2, DecideRefines
<1>4. StatusUpToDate' BY <1>1 DEF StatusUpToDate, ProposalIds
<1> QED BY <1>3, <1>4

LEMMA ProposeRefines ==
  ASSUME IInv, IInv', StatusUpToDate, NEW s \in Addr, NEW latest \in Latest \cup {None},
         execute_propose(s, latest)
  PROVE  LC!Submit /\ StatusUpToDate'
<1> DEFINE p == NewProposal(s, latest)
           q == update_status(p, height)
           n == Len(proposals)
<1>1. /\ proposals' = Append(proposals, q) /\ dispatched' = Append(dispatched, 0)
      /\ height' = height
  BY DEF execute_propose
<1>2. p.status = "open" /\ SameRules(p, q) /\ q.status = current_status(p, height)
  BY DEF NewProposal, update_status, SameRules
<1> HIDE DEF p, q
<1>3. /\ current_status(q, height) \in {"open", "passed", "rejected"}
      /\ UpToDate(q, height)
  BY <1>2, UpdatedReport, CurrentStatusType DEF Status
<1>4. proposals \in Seq(ProposalRecord) /\ proposals' \in Seq(ProposalRecord)
  BY DEF IInv, StorageOK
<1>5. /\ n \in Nat /\ Len(proposals') = n + 1 /\ proposals'[n + 1] = q
      /\ \A id \in 1..n : proposals'[id] = proposals[id]
  BY <1>1, <1>4
<1>6. q \in ProposalRecord BY <1>4, <1>5
<1>7. Reported(proposals', height) = Append(Reported(proposals, height), current_status(q, height))
  BY <1>1, <1>4, <1>6, RecordStatus, ReportAppended
<1>8. LC!Submit BY <1>1, <1>3, <1>7, ReportMapping DEF LC!Submit
<1>9. StatusUpToDate'
  <2>1. \A id \in 1..(n + 1) : id \in 1..n \/ id = n + 1 BY <1>5
  <2> QED BY <1>1, <1>3, <1>5, <2>1 DEF StatusUpToDate, ProposalIds
<1> QED BY <1>8, <1>9

LEMMA VoteRefines ==
  ASSUME IInv, StatusUpToDate, NEW s \in Addr, NEW id \in ProposalIds, NEW v \in Vote,
         execute_vote(s, id, v)
  PROVE  LC!Decide /\ StatusUpToDate'
<1> DEFINE p == proposals[id]
           r == WithVote(s, id, v)
           q == update_status(r, height)
<1>1. /\ CanVote(s, id) /\ proposals' = [proposals EXCEPT ![id] = q]
      /\ UNCHANGED <<height, dispatched>>
  BY DEF execute_vote
<1>2. /\ p \in ProposalRecord /\ p.status \in Status /\ UpToDate(p, height)
      /\ StorageOK /\ ~ is_expired(p, height)
  BY <1>1, ProposalFacts, RecordStatus DEF IInv, StatusUpToDate, CanVote
<1>3. Good(q, SaveBallot(ballots[id], s, voters[s], v), voters, cfg, height)
  BY <1>1, VotedIsGood
<1>4. q \in ProposalRecord BY <1>3 DEF Good
<1>5. r.status = p.status /\ SameRules(r, q) /\ q.status = current_status(r, height)
  BY <1>2 DEF WithVote, ProposalRecord, update_status, SameRules
<1> HIDE DEF p, q, r
<1>6. KeepsVerdict(p, height, q, height) /\ UpToDate(q, height) BY <1>2, <1>5, VotedReport
<1> QED BY <1>1, <1>2, <1>4, <1>6, ReplaceRefines DEF p

LEMMA ExecuteRefines ==
  ASSUME IInv, StatusUpToDate, NEW id \in ProposalIds, execute_execute(id)
  PROVE  LC!Send(id) /\ id \in 1..Len(ReportedStatus) /\ StatusUpToDate'
<1> DEFINE p == proposals[id]
           q == [p EXCEPT !.status = "executed"]
<1>1. /\ current_status(p, height) = "passed" /\ proposals' = [proposals EXCEPT ![id] = q]
      /\ dispatched' = [dispatched EXCEPT ![id] = @ + 1] /\ height' = height
  BY DEF execute_execute
<1>2. p \in ProposalRecord /\ proposals \in Seq(ProposalRecord) /\ id \in 1..Len(proposals)
  BY ProposalFacts DEF IInv, StorageOK
<1>3. q \in ProposalRecord /\ q.status = "executed" BY <1>2 DEF ProposalRecord, Status
<1> HIDE DEF q
<1>4. current_status(q, height) = "executed" /\ UpToDate(q, height)
  BY <1>3 DEF current_status, UpToDate
<1>5. /\ Reported(proposals', height') = [Reported(proposals, height) EXCEPT ![id] = "executed"]
      /\ Reported(proposals, height)[id] = "passed"
      /\ Len(Reported(proposals, height)) = Len(proposals)
  <2>1. Reported([proposals EXCEPT ![id] = q], height)
          = [Reported(proposals, height) EXCEPT ![id] = "executed"]
    BY <1>2, <1>3, <1>4, RecordStatus, ReportReplaced
  <2>2. /\ Reported(proposals, height)[id] = current_status(p, height)
        /\ Len(Reported(proposals, height)) = Len(proposals)
    BY <1>2, RecordStatus, ReportFields
  <2> QED BY <1>1, <2>1, <2>2
<1>6. LC!Send(id) /\ id \in 1..Len(ReportedStatus)
  BY <1>1, <1>2, <1>5, ReportMapping DEF LC!Send
<1>7. StatusUpToDate'
  <2>1. /\ Len(proposals') = Len(proposals)
        /\ \A j \in ProposalIds : proposals'[j] = IF j = id THEN q ELSE proposals[j]
    BY <1>1, <1>2 DEF ProposalIds
  <2> QED BY <1>1, <1>4, <2>1 DEF StatusUpToDate, ProposalIds
<1> QED BY <1>6, <1>7

(* Closing stores what was reported before. *)
LEMMA CloseRefines ==
  ASSUME IInv, StatusUpToDate, NEW id \in ProposalIds, execute_close(id)
  PROVE  LC!Decide /\ StatusUpToDate'
<1> DEFINE p == proposals[id]
           q == [p EXCEPT !.status = "rejected"]
<1>1. /\ CanClose(id) /\ proposals' = [proposals EXCEPT ![id] = q]
      /\ UNCHANGED <<height, dispatched>>
  BY DEF execute_close
<1>2. p \in ProposalRecord /\ StorageOK BY ProposalFacts DEF IInv
<1>3. q \in ProposalRecord /\ q.status = "rejected" BY <1>2 DEF ProposalRecord, Status
<1>4. current_status(p, height) = "rejected"
  BY <1>1, <1>2 DEF CanClose, current_status, ProposalRecord, Status
<1> HIDE DEF p, q
<1>5. KeepsVerdict(p, height, q, height) /\ UpToDate(q, height)
  BY <1>3, <1>4 DEF KeepsVerdict, UpToDate, current_status
<1> QED BY <1>1, <1>2, <1>3, <1>5, ReplaceRefines DEF p

LEMMA BlockRefines ==
  ASSUME IInv, StatusUpToDate, NextBlock
  PROVE  LC!Decide /\ StatusUpToDate'
<1>1. /\ height \in Nat /\ height' \in Nat /\ height <= height'
      /\ UNCHANGED <<proposals, dispatched>> /\ StorageOK /\ proposals \in Seq(ProposalRecord)
  BY DEF NextBlock, IInv, StorageOK
<1>2. ASSUME NEW id \in ProposalIds
      PROVE  /\ KeepsVerdict(proposals[id], height, proposals'[id], height')
             /\ UpToDate(proposals[id], height')
  <2>1. /\ proposals[id].status \in Status /\ proposals[id].expires \in Nat
        /\ UpToDate(proposals[id], height)
    BY ProposalFacts DEF ProposalRecord, StatusUpToDate
  <2> QED BY <1>1, <2>1, AgedReport
<1>3. LC!Decide BY <1>1, <1>2, DecideRefines
<1>4. StatusUpToDate' BY <1>1, <1>2 DEF StatusUpToDate, ProposalIds
<1> QED BY <1>3, <1>4

LEMMA StepRefines ==
  IInv /\ IInv' /\ StatusUpToDate /\ [Next]_vars
    => [LC!Next]_<<ReportedStatus, dispatched>> /\ StatusUpToDate'
<1> SUFFICES ASSUME IInv, IInv', StatusUpToDate, [Next]_vars
             PROVE  [LC!Next]_<<ReportedStatus, dispatched>> /\ StatusUpToDate'
  OBVIOUS
<1>1. CASE \E s \in Addr, latest \in Latest \cup {None} : execute_propose(s, latest)
  BY <1>1, ProposeRefines DEF LC!Next
<1>2. CASE \E s \in Addr, id \in ProposalIds, v \in Vote : execute_vote(s, id, v)
  BY <1>2, VoteRefines DEF LC!Next
<1>3. CASE \E id \in ProposalIds : execute_execute(id)
  BY <1>3, ExecuteRefines DEF LC!Next
<1>4. CASE \E id \in ProposalIds : execute_close(id)
  BY <1>4, CloseRefines DEF LC!Next
<1>5. CASE NextBlock BY <1>5, BlockRefines DEF LC!Next
<1>6. CASE UNCHANGED vars
  BY <1>6 DEF vars, ReportedStatus, ProposalIds, StatusUpToDate
<1> QED BY <1>1, <1>2, <1>3, <1>4, <1>5, <1>6 DEF Next

LEMMA InitRefines == Init => LC!Init /\ StatusUpToDate
<1> SUFFICES ASSUME Init PROVE LC!Init /\ StatusUpToDate OBVIOUS
<1>1. proposals = <<>> /\ dispatched = <<>> /\ ProposalIds = {}
  BY DEF Init, ProposalIds
<1>2. ReportedStatus = <<>> BY <1>1 DEF ReportedStatus
<1> QED BY <1>1, <1>2 DEF LC!Init, StatusUpToDate

-----------------------------------------------------------------------------
(* The inductive invariant holds in every reachable state. *)
THEOREM Invariance == Spec => []IInv
<1>1. Init => IInv BY InitIInv
<1>2. IInv /\ [Next]_vars => IInv' BY NextIInv
<1> QED BY <1>1, <1>2, PTL DEF Spec

(* Every message leaves well-formed proposals, ballots and tallies. *)
THEOREM TypeCorrect == Spec => []TypeOK
BY Invariance, IInvImplies, PTL

(* The tally a proposal stores is the sum of its stored ballots, and at    *)
(* most the total weight, for every list of voters, repeated ones too.     *)
THEOREM TallyTheorem == Spec => []TallyMatchesBallots
BY Invariance, IInvImplies, PTL

(* Votes accepted on passed and rejected proposals, and the expiration,    *)
(* never make a stored verdict disagree with the tally.                    *)
THEOREM VerdictTheorem == Spec => []VerdictMatchesTally
BY Invariance, IInvImplies, PTL

(* Ballots make the tally and the tally the verdict.                       *)
THEOREM VotesTheorem == Spec => []VotesDecide
<1>1. TallyMatchesBallots /\ VerdictMatchesTally => VotesDecide BY DEF VotesDecide
<1> QED BY <1>1, TallyTheorem, VerdictTheorem, PTL

(* No vote that execute_vote admits underflows, whatever the threshold.    *)
THEOREM NoPanicTheorem == Spec => []VotingNeverPanics
BY Invariance, IInvNeverPanics, PTL

(* An expired proposal that is still open computes its verdict without an  *)
(* underflow, and that verdict lets it be executed or be closed.           *)
THEOREM NeverStuckTheorem == Spec => []NeverStuck
BY Invariance, IInvNeverStuck, PTL

(* An underflow or a stale status locks out nobody.                        *)
THEOREM LockoutTheorem == Spec => []NobodyLockedOut
<1>1. VotingNeverPanics /\ NeverStuck => NobodyLockedOut BY DEF NobodyLockedOut
<1> QED BY <1>1, NoPanicTheorem, NeverStuckTheorem, PTL

(* "Sure to pass" and "sure to be rejected" stay so, step by step.         *)
THEOREM SureTheorem == Spec => VerdictsAreSure
<1>1. IInv /\ IInv' /\ [Next]_vars => [SureStep]_vars BY NextIInv, SureSteps
<1> QED BY <1>1, Invariance, PTL DEF Spec, VerdictsAreSure

(* A threshold that instantiate accepted can be met: with all the votes    *)
(* for it, a proposal has passed.                                          *)
THEOREM UnanimousTheorem == Spec => []UnanimousYesPasses
BY Invariance, IInvUnanimous, PTL

(* The status that queries report is up to date until the expiration.      *)
LEMMA UpToDateInvariance == Spec => []StatusUpToDate
BY Invariance, InitRefines, StepRefines, PTL DEF Spec

(* The contract implements Lifecycle: one verdict for each proposal, never *)
(* revised in what queries report, and its messages are sent at most once. *)
THEOREM Refinement == Spec => ImplementsLifecycle
BY Invariance, UpToDateInvariance, InitRefines, StepRefines, PTL
   DEF Spec, ImplementsLifecycle, LC!Spec
=============================================================================
