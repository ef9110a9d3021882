------------------------------ MODULE Formats ------------------------------
(***************************************************************************)
(* How sizes, changes and ages are shown: format.shared.ts, for the API's  *)
(* logs and the dashboard alike.  A shown size is its unit and its value   *)
(* in tenths; only below ten of a unit is the tenth written.               *)
(*                                                                         *)
(* Scales is the sequence of the units above the byte, largest first, and  *)
(* Ages that of the units of an age; both are parameters so that small     *)
(* ones, with the same edges, can be checked exhaustively.                 *)
(***************************************************************************)
EXTENDS Integers, Sequences

CONSTANTS Scales, Ages

Dash == [unit |-> "", tenths |-> 0]
Bytes == Len(Scales) + 1       \* the byte, as an index after those of Scales

\* Math.round and toFixed(1) of n / d: a half goes up, and the quotients
\* here are exact, since every scale is a power of two.
Rounded(n, d) == (2 * n + d) \div (2 * d)
Tenths(n, d) == (20 * n + d) \div (2 * d)

\* The first scale that is reached: the largest unit with a value >= 1.
UnitFor(bytes, scales) ==
    LET reached == {i \in DOMAIN scales : bytes >= scales[i]}
    IN IF reached = {} THEN Len(scales) + 1
       ELSE CHOOSE i \in reached : \A j \in reached : i <= j

\* ByteFormat.split: what is known and not negative; known stands for the
\* null, undefined and not finite.
Split(known, bytes) ==
    LET unit == UnitFor(bytes, Scales)
    IN CASE ~known \/ bytes < 0 -> Dash
         [] unit = Bytes -> [unit |-> unit, tenths |-> 10 * bytes]
         [] bytes < 10 * Scales[unit] -> [unit |-> unit, tenths |-> Tenths(bytes, Scales[unit])]
         [] OTHER -> [unit |-> unit, tenths |-> 10 * Rounded(bytes, Scales[unit])]

\* ByteFormat.signed: a change, of which zero is worded.
Signed(known, bytes) ==
    CASE ~known -> [sign |-> "", size |-> Dash]
      [] known /\ bytes = 0 -> [sign |-> "no change", size |-> Dash]
      [] OTHER -> [sign |-> IF bytes > 0 THEN "+" ELSE "-",
                   size |-> Split(TRUE, IF bytes > 0 THEN bytes ELSE -bytes)]

\* TimeFormat.relative: how many of which unit ago, Len(Ages) + 1 being
\* "just now", as is anything later than now.
Relative(at, now) ==
    LET elapsed == IF now > at THEN now - at ELSE 0
        unit == UnitFor(elapsed, Ages)
    IN [unit |-> unit,
        count |-> IF unit > Len(Ages) THEN 0 ELSE elapsed \div Ages[unit]]
=============================================================================
