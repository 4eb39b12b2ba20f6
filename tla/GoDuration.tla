----------------------------- MODULE GoDuration -----------------------------
(***************************************************************************)
(* format_go_duration and parse_go_duration (config.py).  A text is its    *)
(* sign and its components, each with the digits it is written in.  Units  *)
(* keep their order and their ratios keep their meaning: a thousand is     *)
(* 10 to the Zeros and sixty is Sixty.                                    *)
(***************************************************************************)
EXTENDS Numbers, Sequences

CONSTANTS
  Zeros,        \* 3
  Sixty,        \* 60
  MaxDuration   \* timedelta.max, in microseconds

ASSUME DurationsAssumption ==
  Zeros \in Nat \ {0} /\ Sixty \in Nat \ {0} /\ MaxDuration \in Nat

Micro == Power(10, Zeros)    \* nanoseconds in it
Milli == Power(10, Zeros)    \* microseconds in it
Second == Power(10, 2 * Zeros)
Minute == Sixty * Second
Hour == Sixty * Minute

UnitInNs == [ns |-> 1, us |-> Micro, ms |-> Milli * Micro, s |-> Second * Micro,
             m |-> Minute * Micro, h |-> Hour * Micro]

\* A component: a whole number of units and the digits after the point.
Component(whole, digits, unit) == [whole |-> whole, digits |-> digits, unit |-> unit]

\* A text as _GO_DURATION_COMPONENT_RE takes it apart.  No digit is finer than
\* a nanosecond: those Go cuts off, and Python adds up.
WellFormed(text) ==
  /\ text.negative \in BOOLEAN
  /\ Len(text.parts) \in Nat /\ DOMAIN text.parts = 1..Len(text.parts)
  /\ \A i \in DOMAIN text.parts :
       LET c == text.parts[i]
       IN  /\ c.whole \in Nat /\ c.unit \in DOMAIN UnitInNs
           /\ Len(c.digits) \in Nat /\ DOMAIN c.digits = 1..Len(c.digits)
           /\ \A j \in DOMAIN c.digits :
                c.digits[j] \in 0..9 /\ (c.digits[j] * UnitInNs[c.unit]) % Power(10, j) = 0

\* _format_scaled: the remainder padded to the unit's digits, without its
\* trailing zeros.
FormatScaled(total, zeros, unit) ==
  LET rest == total % Power(10, zeros)
      digits == CHOOSE p \in 0..zeros :
                  /\ rest % Power(10, zeros - p) = 0
                  /\ \A q \in 0..(p - 1) : rest % Power(10, zeros - q) # 0
  IN  Component(total \div Power(10, zeros),
                [i \in 1..digits |-> (rest \div Power(10, zeros - i)) % 10], unit)

FormatDuration(duration) ==
  LET us      == Magnitude(duration)
      minutes == us \div Minute
      long    == (IF us >= Hour THEN <<Component(us \div Hour, <<>>, "h")>> ELSE <<>>)
                   \o <<Component(minutes % Sixty, <<>>, "m"),
                        FormatScaled(us % Minute, 2 * Zeros, "s")>>
  IN  [negative |-> duration < 0,
       parts |-> CASE us = 0 -> <<Component(0, <<>>, "s")>>
                   [] us \in 1..(Milli - 1) -> <<Component(us, <<>>, "us")>>
                   [] us \in Milli..(Second - 1) -> <<FormatScaled(us, Zeros, "ms")>>
                   [] us \in Second..(Minute - 1) -> <<FormatScaled(us, 2 * Zeros, "s")>>
                   [] OTHER -> long]

\* The sum of a sequence.
Total(s) ==
  LET sum[i \in 0..Len(s)] == IF i = 0 THEN 0 ELSE sum[i - 1] + s[i]
  IN  sum[Len(s)]

\* A digit is worth a tenth of the place before it.
Worth(c) ==
  c.whole * UnitInNs[c.unit]
    + Total([i \in DOMAIN c.digits |-> (c.digits[i] * UnitInNs[c.unit]) \div Power(10, i)])

\* What a text says, exactly.
InNs(text) ==
  LET sum == Total([i \in DOMAIN text.parts |-> Worth(text.parts[i])])
  IN  IF text.negative THEN -sum ELSE sum

\* parse_go_duration rounds to the microsecond; timedelta() raises
\* OverflowError, which is not a ValueError, beyond its range.
ParseDuration(text) ==
  LET magnitude == RoundHalfEven(Magnitude(InNs(text)), Micro)
  IN  IF text.negative THEN -magnitude ELSE magnitude

Overflows(text) == Magnitude(ParseDuration(text)) > MaxDuration
=============================================================================
