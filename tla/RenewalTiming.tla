---------------------------- MODULE RenewalTiming ----------------------------
(***************************************************************************)
(* When a token is renewed and for how long the next one is asked: the     *)
(* arithmetic that push-mode and pull-mode renewals share.  Operators on   *)
(* an object with the fields interval (RenewTokenRequestInterval) and last *)
(* (LastReconciledTokenRequestAt).                                         *)
(*                                                                         *)
(* Time is counted in units of a few minutes: the five seconds the code    *)
(* tolerates and the seconds between two statements of a reconcile vanish. *)
(***************************************************************************)
EXTENDS Integers

CONSTANTS
    TenMinutes,     \* shouldRenewTokenRequest renews this much early
    ThirtyMinutes,  \* added to the interval when no duration is configured
    TokenDuration,  \* TokenDuration; 0 stands for unset
    Lifetimes,      \* the token lifetimes that are granted
    ReadableTokens  \* are the tokens JWTs whose expiration can be read?

ASSUME TimingAssumption ==
    /\ {TenMinutes, ThirtyMinutes} \subseteq Nat \ {0}
    /\ TokenDuration \in Nat
    /\ Lifetimes \subseteq Nat \ {0}
    /\ ReadableTokens \in BOOLEAN

(* Seeded fault: the token is renewed when it expires, not before.         *)
renewalThreshold_Late(interval) == interval

(* shouldRenewTokenRequest: ten minutes early, if there are ten minutes.   *)
renewalThreshold(interval) ==
    IF interval > TenMinutes THEN interval - TenMinutes ELSE interval

shouldRenewTokenRequest(o, t) == t - o.last > renewalThreshold(o.interval)

getEffectiveTokenDuration(interval) ==
    IF TokenDuration = 0 THEN interval + ThirtyMinutes ELSE TokenDuration

(* The expiration cannot be read from a token that is not a JWT.           *)
getTokenExpirationFails == ~ReadableTokens

(* Seeded fault: time.Since instead of time.Until.                         *)
adjustTokenRequestRenewalOption_Since(interval, lifetime) ==
    IF -lifetime < getEffectiveTokenDuration(interval) THEN -lifetime ELSE interval

(* A token granted for less than was asked becomes the new interval.       *)
adjustTokenRequestRenewalOption(interval, lifetime) ==
    IF ~getTokenExpirationFails /\ lifetime < getEffectiveTokenDuration(interval)
    THEN lifetime ELSE interval
===============================================================================
