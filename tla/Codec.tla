------------------------------- MODULE Codec --------------------------------
(***************************************************************************)
(* The fixed-point numbers of the motors' frames.  The node (CubemarsCan)  *)
(* and the ros2_control plugin each have their own conversion.  Physical   *)
(* values are integers in a unit small enough for the ranges in use.       *)
(***************************************************************************)
EXTENDS Integers

\* A command of five fields; a limit [lo, hi] for each.
Fields == {"p", "v", "kp", "kd", "t"}

\* 2^bits: a position has 16 bits, every other field 12.
Steps(f) == IF f = "p" THEN 65536 ELSE 4096

Clamp(x, r) == IF x < r.lo THEN r.lo ELSE IF x > r.hi THEN r.hi ELSE x

\* The node spreads the range over one step less than the plugin, whose
\* caller keeps 16 bits.
NodeFloatToUint(x, r, steps) ==
  ((Clamp(x, r) - r.lo) * (steps - 1)) \div (r.hi - r.lo)

PluginFloatToUint(x, r, steps) ==
  (((Clamp(x, r) - r.lo) * steps) \div (r.hi - r.lo)) % 65536

\* uint_to_float as a comparison: the sign of x_int * span / steps + x_min.
SignOfUint(n, r, steps) ==
  LET x == n * (r.hi - r.lo) + r.lo * (steps - 1)
  IN IF x < 0 THEN -1 ELSE IF x > 0 THEN 1 ELSE 0

Byte(n) == n % 256

\* (h << 4) | l of a nibble h and an l of at most five bits: the fifth, which
\* only a value at its maximum has, falls on the lowest bit of h.
Joined(h, l) == 16 * h + (IF h % 2 = 1 THEN l % 16 ELSE l)

\* The eight data bytes of a command to a V2 motor ...
PackV2(n) ==
  << Byte(n.p \div 256), Byte(n.p),
     Byte(n.v \div 16), Byte(Joined(n.v % 16, n.kp \div 256)),
     Byte(n.kp), Byte(n.kd \div 16),
     Byte(Joined(n.kd % 16, n.t \div 256)), Byte(n.t) >>

\* ... and to a V3 motor.
PackV3(n) ==
  << Byte(n.kp \div 16), Byte(Joined(n.kp % 16, n.kd \div 256)),
     Byte(n.kd), Byte(n.p \div 256), Byte(n.p),
     Byte(n.v \div 16), Byte(Joined(n.v % 16, n.t \div 256)), Byte(n.t) >>

\* What the motor reads from them.
ReadV2(d) ==
  [p |-> d[1] * 256 + d[2], v |-> d[3] * 16 + d[4] \div 16,
   kp |-> (d[4] % 16) * 256 + d[5], kd |-> d[6] * 16 + d[7] \div 16,
   t |-> (d[7] % 16) * 256 + d[8]]

ReadV3(d) ==
  [p |-> d[4] * 256 + d[5], v |-> d[6] * 16 + d[7] \div 16,
   kp |-> d[1] * 16 + d[2] \div 16, kd |-> (d[2] % 16) * 256 + d[3],
   t |-> (d[7] % 16) * 256 + d[8]]

\* The numbers the node sends for the command c within the limits r.
NodeNumbers(c, r) == [f \in Fields |-> NodeFloatToUint(c[f], r[f], Steps(f))]

\* Any command, also one out of its limits, reaches both kinds of motors as
\* the node computed it: no field spills into another.
NodeFramesAreExact(C, r) ==
  \A c \in C : LET n == NodeNumbers(c, r) IN
    ReadV2(PackV2(n)) = n /\ ReadV3(PackV3(n)) = n
=============================================================================
