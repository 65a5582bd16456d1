------------------------------- MODULE Backoff -------------------------------
(***************************************************************************)
(* The delay arithmetic of MarkOutboundFailed (and of GetRetryDelay, which *)
(* repeats it): baseDelay * (1 << uint(attempts)) on time.Duration, a      *)
(* signed 64-bit count of nanoseconds, then cut at two hours.  The module  *)
(* OutboundQueue uses the exact powers with a smaller cap; its property    *)
(* NoDelayWraps says that the wrapping product gives the same delays.      *)
(***************************************************************************)
EXTENDS Integers, Sequences

CONSTANT MaxAttempts   \* bound: claims of one row

ASSUME BackoffAssumption == MaxAttempts \in Nat

(* A 64-bit word is a function from bit positions, made from four 16-bit   *)
(* limbs, the least significant first.                                     *)
Bit == 0..63
Word(limbs) == [i \in Bit |-> (limbs[i \div 16 + 1] \div 2 ^ (i % 16)) % 2]

(* k * 10^9 for k < 2^14, in the limbs of k * (15258 * 2^16 + 51712) *)
Seconds(k) ==
  LET low == k * 51712
      high == k * 15258 + low \div 2 ^ 16
  IN Word(<<low % 2 ^ 16, high % 2 ^ 16, high \div 2 ^ 16, 0>>)

BaseDelay == Seconds(1)
TwoHours == Seconds(7200)

Negative(x) == x[63] = 1

(* x < y on signed words, for a y that is not negative. *)
LessThan(x, y) ==
  \/ Negative(x)
  \/ \E i \in Bit : x[i] < y[i] /\ \A j \in Bit : j > i => x[j] = y[j]

(* baseDelay * (1 << uint(n)): the product drops what leaves the word, and *)
(* is 0 from a shift of 64 on.                                             *)
Product(n) == [i \in Bit |-> IF i >= n THEN BaseDelay[i - n] ELSE 0]

(* Broken variant (for the mutant of PROJECT.json): only products above    *)
(* the cap are cut, wrapped ones pass.                                     *)
RetryDelayUnwrapped(n) ==
  IF ~Negative(Product(n)) /\ LessThan(TwoHours, Product(n)) THEN TwoHours ELSE Product(n)

(* The cut: tempDelay > maxDelay || tempDelay < baseDelay. *)
RetryDelay(n) ==
  IF \/ ~Negative(Product(n)) /\ LessThan(TwoHours, Product(n))
     \/ LessThan(Product(n), BaseDelay)
  THEN TwoHours
  ELSE Product(n)

(* The delay after n claims is 2^n seconds, and two hours from 2^13        *)
(* seconds on.                                                             *)
TruncatedPower ==
  \A n \in 0..MaxAttempts :
    RetryDelay(n) = IF n < 13 THEN Seconds(2 ^ n) ELSE TwoHours
=============================================================================
