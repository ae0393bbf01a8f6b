------------------------------ MODULE Pricing ------------------------------
(***************************************************************************)
(* What a call costs: the tiers of a price, the table of prices, and the   *)
(* cost (internal/pricing). Amounts and tokens are integers of Word bits,  *)
(* whose products and sums wrap around, as the int64 of the code do.       *)
(***************************************************************************)
EXTENDS Integers, Sequences, FiniteSets

CONSTANTS
  Word,   \* the width of an integer: 64 in the code
  Scale,  \* prices are per so many tokens: 1,000,000 in the code
  Prices  \* what NewMemoryTable is given: a function from models to sequences of versions

\* The first and the last of some positions.
First(S) == CHOOSE i \in S : \A j \in S : i <= j
Last(S) == CHOOSE i \in S : \A j \in S : j <= i

Half == 2 ^ (Word - 1)
Wrap(n) == ((n + Half) % (2 * Half)) - Half
Fits(n) == Wrap(n) = n

\* Division truncates toward zero.
Quotient(a, b) == IF a < 0 THEN -((-a) \div b) ELSE a \div b

-----------------------------------------------------------------------------
(* The table.                                                               *)

Tiers == [max : Int, input : Int, cached : Int, output : Int, reasoning : Int]
Versions == [from : Int, tiers : Seq(Tiers)]
Usages == [input : Int, cached : Int, output : Int, reasoning : Int]

\* validateTierOrder: the bounds ascend, and only the last tier may have none (0).
TiersAscend(tiers) ==
  \A i \in 2..Len(tiers) :
    tiers[i - 1].max # 0 /\ (tiers[i].max # 0 => tiers[i].max > tiers[i - 1].max)

\* NewMemoryTable refuses what is not so, and sorts the versions.
ASSUME PricesAssumption ==
  \A model \in DOMAIN Prices :
    /\ Prices[model] \in Seq(Versions)
    /\ \A i \in 1..Len(Prices[model]) : TiersAscend(Prices[model][i].tiers)
    /\ \A i, j \in 1..Len(Prices[model]) : i < j => Prices[model][i].from <= Prices[model][j].from

\* Four parts of a cost, each a product divided by the scale, add up without overflow.
ASSUME WordAssumption == Word \in Nat \ {0} /\ Scale \in Nat /\ 4 <= Scale /\ Scale < Half

\* Lookup: the versions in effect at a time; the last of them is the price.
Effective(model, at) ==
  IF model \in DOMAIN Prices THEN {i \in 1..Len(Prices[model]) : Prices[model][i].from <= at} ELSE {}

Lookup(model, at) == Prices[model][Last(Effective(model, at))]

-----------------------------------------------------------------------------
(* The cost.                                                                *)

ValidUsage(u) ==
  /\ u.input >= 0 /\ u.output >= 0 /\ u.cached >= 0 /\ u.reasoning >= 0
  /\ u.cached <= u.input /\ u.reasoning <= u.output

Fitting(tiers, input) == {i \in 1..Len(tiers) : tiers[i].max = 0 \/ input <= tiers[i].max}

\* Mutant: the bound of a tier is not in it.
SelectTierBelow(tiers, input) ==
  tiers[First({i \in 1..Len(tiers) : tiers[i].max = 0 \/ input < tiers[i].max})]

\* The first tier the input fits in.
SelectTier(tiers, input) == tiers[First(Fitting(tiers, input))]

perMillion(tokens, price) == Quotient(Wrap(tokens * price), Scale)

Priceable(tiers, u) == ValidUsage(u) /\ Fitting(tiers, u.input) # {}

Cost(tiers, u) ==
  LET tier == SelectTier(tiers, u.input) IN
  Wrap(perMillion(u.input - u.cached, tier.input) + perMillion(u.cached, tier.cached)
         + perMillion(u.output - u.reasoning, tier.output) + perMillion(u.reasoning, tier.reasoning))

-----------------------------------------------------------------------------
(* The reference: every token at its own price, before anything is rounded. *)

\* The tier after all those the input is above.
TierAbove(tiers, input) == tiers[Cardinality({i \in 1..Len(tiers) : tiers[i].max # 0 /\ tiers[i].max < input}) + 1]

Exact(tier, u) ==
  (u.input - u.cached) * tier.input + u.cached * tier.cached
    + (u.output - u.reasoning) * tier.output + u.reasoning * tier.reasoning

Products(tier, u) ==
  {(u.input - u.cached) * tier.input, u.cached * tier.cached,
   (u.output - u.reasoning) * tier.output, u.reasoning * tier.reasoning}

\* Each of four roundings loses less than one unit, to the favour of who pays unless a price
\* is negative; a product that does not fit the word is beyond repair.
CostsWhatItShould(tiers, u, cost) ==
  LET tier == TierAbove(tiers, u.input) IN
  \/ \E product \in Products(tier, u) : ~Fits(product)
  \/ /\ Scale * (cost - 4) < Exact(tier, u) /\ Exact(tier, u) < Scale * (cost + 4)
     /\ (\A product \in Products(tier, u) : product >= 0) => Scale * cost <= Exact(tier, u)
=============================================================================
