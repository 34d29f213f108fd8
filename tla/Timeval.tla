------------------------------ MODULE Timeval ------------------------------
(***************************************************************************)
(* Timeval, DelayInterval and DelayEventTime                               *)
(* (src/src/detail/scheduler/delayqueue_in.{h,cpp}): seconds and           *)
(* microseconds as a pair, with carries, and subtraction that stops at 0.  *)
(* MILLION is a parameter, so that a small model carries often; IntRange   *)
(* is the number of values of an int, to which operator- narrows seconds.  *)
(***************************************************************************)
EXTENDS Integers

CONSTANTS MILLION, IntRange

TimevalAssumption == /\ MILLION \in Nat \ {0}
                     /\ IntRange \in Nat \ {0} /\ IntRange % 2 = 0

Tv(s, u) == [s |-> s, u |-> u]
Zero     == Tv(0, 0)

\* The length of time a pair stands for.
Micros(t) == t.s * MILLION + t.u

\* A number of microseconds as a pair.
Split(us) == Tv(us \div MILLION, us % MILLION)

\* operator>= ; every other comparison is defined by it.
Ge(a, b) == a.s > b.s \/ (a.s = b.s /\ a.u >= b.u)
Lt(a, b) == ~Ge(a, b)
Eq(a, b) == Ge(a, b) /\ Ge(b, a)

\* operator+= carries at most once.
Plus(a, b) == LET s == a.s + b.s
                  u == a.u + b.u
              IN IF u >= MILLION THEN Tv(s + 1, u - MILLION) ELSE Tv(s, u)

\* The borrow both subtractions start with.
Borrow(a, b) == LET s == a.s - b.s
                    u == a.u - b.u
                IN IF u < 0 THEN Tv(s - 1, u + MILLION) ELSE Tv(s, u)

\* operator-= gives zero instead of a negative time.
Minus(a, b) == LET t == Borrow(a, b) IN IF t.s < 0 THEN Zero ELSE t

\* (int)secs.
ToInt(n) == LET m == n % IntRange
            IN IF m >= IntRange \div 2 THEN m - IntRange ELSE m

\* Mutant: operator- without the test.
DiffNoClamp(a, b) == Borrow(a, b)

\* operator- tests the seconds as an int.
Diff(a, b) == LET t == Borrow(a, b) IN IF ToInt(t.s) < 0 THEN Zero ELSE t

-----------------------------------------------------------------------------
(* What the operators are compared with: arithmetic on microseconds *)

Normalized(t) == t.u \in 0 .. MILLION - 1 /\ t.s \in Nat

\* Comparison, += , -= and the split of a number of microseconds agree with
\* arithmetic on microseconds, and -= stops at zero; results stay normalized.
ArithmeticExact(a, b) ==
    /\ Ge(a, b) <=> Micros(a) >= Micros(b)
    /\ Normalized(Plus(a, b)) /\ Micros(Plus(a, b)) = Micros(a) + Micros(b)
    /\ Normalized(Minus(a, b))
    /\ Micros(Minus(a, b)) =
          IF Micros(a) > Micros(b) THEN Micros(a) - Micros(b) ELSE 0
    /\ Split(Micros(a)) = a

\* operator- agrees with -= as long as the difference fits an int.
DiffExactInRange(a, b) ==
    Borrow(a, b).s \in -(IntRange \div 2) .. IntRange \div 2 - 1 =>
        Diff(a, b) = Minus(a, b)
=============================================================================
