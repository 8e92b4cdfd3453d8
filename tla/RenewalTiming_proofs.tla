-------------------------- MODULE RenewalTiming_proofs --------------------------
(***************************************************************************)
(* Lemmas about the arithmetic of renewals, for the proofs about push mode *)
(* and pull mode.                                                          *)
(***************************************************************************)
EXTENDS RenewalTiming, TLAPS

(* A configured duration reaches m past the renewal at interval i.         *)
AsksPast(i, m) == TokenDuration = 0 \/ TokenDuration > renewalThreshold(i) + m

(* With a margin of m between the moment a renewal is due and the one when *)
(* it is done: m is less than ten minutes, no token is granted for ten     *)
(* minutes or less, and expirations can be read.                           *)
AdequateFor(m) ==
    /\ m < TenMinutes /\ m < ThirtyMinutes
    /\ \A l \in Lifetimes : l > TenMinutes
    /\ ReadableTokens

(* The operators on intervals stay within the natural numbers.             *)
LEMMA IntervalTypes ==
    ASSUME NEW i \in Nat, NEW l \in Lifetimes
    PROVE  /\ renewalThreshold(i) \in Nat
           /\ getEffectiveTokenDuration(i) \in Nat
           /\ adjustTokenRequestRenewalOption(i, l) \in Nat
BY TimingAssumption DEF TimingAssumption, renewalThreshold, getEffectiveTokenDuration,
                        adjustTokenRequestRenewalOption

LEMMA ThresholdType == \A i \in Nat : renewalThreshold(i) \in Nat
BY TimingAssumption DEF TimingAssumption, renewalThreshold

(* A token just granted outlives the renewal its own interval asks for.    *)
LEMMA GrantLasts ==
    ASSUME NEW m \in Nat, AdequateFor(m), NEW i \in Nat, AsksPast(i, m), NEW l \in Lifetimes
    PROVE  /\ AsksPast(adjustTokenRequestRenewalOption(i, l), m)
           /\ l > renewalThreshold(adjustTokenRequestRenewalOption(i, l)) + m
           /\ l > m
<1> USE TimingAssumption DEF TimingAssumption
<1>1. l \in Nat /\ l > TenMinutes /\ m < TenMinutes /\ m < ThirtyMinutes /\ ReadableTokens
  BY DEF AdequateFor
<1>2. CASE l < getEffectiveTokenDuration(i)
  <2>1. adjustTokenRequestRenewalOption(i, l) = l
    BY <1>1, <1>2 DEF adjustTokenRequestRenewalOption, getTokenExpirationFails
  <2>2. renewalThreshold(l) = l - TenMinutes
    BY <1>1 DEF renewalThreshold
  <2> QED
    BY <1>1, <1>2, <2>1, <2>2 DEF AsksPast, getEffectiveTokenDuration
<1>3. CASE ~(l < getEffectiveTokenDuration(i))
  <2>1. adjustTokenRequestRenewalOption(i, l) = i
    BY <1>3 DEF adjustTokenRequestRenewalOption
  <2>2. renewalThreshold(i) \in Nat /\ renewalThreshold(i) <= i
    BY DEF renewalThreshold
  <2> QED
    BY <1>1, <1>3, <2>1, <2>2 DEF AsksPast, getEffectiveTokenDuration
<1> QED
  BY <1>2, <1>3
===============================================================================
