------------------------------ MODULE Measures ------------------------------
(***************************************************************************)
(* The numbers AnalyticsService and DynamicPricingService compute from the *)
(* prices of a card: volatility, price impact and discount.  No state of   *)
(* their own.                                                              *)
(*                                                                         *)
(* A quotient is kept as the pair of its terms.  Of a deviation of log     *)
(* returns, and what is computed from it, the model keeps what sets it     *)
(* apart: none, some, or not a number.                                     *)
(***************************************************************************)
EXTENDS Rows

(* The ratios of consecutive prices, oldest price first, whose logarithms  *)
(* are the log returns.  compute_volatility wants both prices above zero,  *)
(* volatility_discount the earlier one.                                    *)
Ratios(prices) ==
  IF Len(prices) < 2 THEN <<>>
  ELSE [i \in 1 .. Len(prices) - 1 |-> <<prices[i + 1], prices[i]>>]

PositiveEarlier(ratios) == Where(ratios, LAMBDA r : r[2] > 0)

PositiveBoth(ratios) == Where(ratios, LAMBDA r : r[1] > 0 /\ r[2] > 0)

(* Population standard deviation.  The logarithm of zero is minus infinity,*)
(* and so is then the mean; the mean of nothing is not a number.           *)
Deviation(ratios) ==
  IF ratios = <<>> \/ \E i \in DOMAIN ratios : ratios[i][1] = 0 THEN "NaN"
  ELSE IF \A i, j \in DOMAIN ratios : ratios[i][1] * ratios[j][2] = ratios[j][1] * ratios[i][2]
  THEN "none" ELSE "some"

(* compute_volatility, of closing prices                                   *)
VolatilityOfEarlier(closes) ==
  LET ratios == PositiveEarlier(Ratios(closes))
  IN  IF ratios = <<>> THEN "none" ELSE Deviation(ratios)

Volatility(closes) ==
  LET ratios == PositiveBoth(Ratios(closes))
  IN  IF ratios = <<>> THEN "none" ELSE Deviation(ratios)

(* compute_price_impact_bps is above zero: a close differs from one before *)
(* it that is not zero                                                     *)
HasImpact(closes) ==
  LET ratios == PositiveEarlier(Ratios(closes))
  IN  \E i \in DOMAIN ratios : ratios[i][1] # ratios[i][2]

(* volatility_discount: how far its factor is below 1.0                    *)
Discount(prices) ==
  LET ratios == PositiveEarlier(Ratios(prices))
  IN  IF ratios = <<>> THEN "none" ELSE Deviation(ratios)
=============================================================================
