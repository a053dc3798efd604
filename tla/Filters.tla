------------------------------ MODULE Filters -------------------------------
(***************************************************************************)
(* The windows that filter one joint: the median of its positions or the   *)
(* moving average of its velocities.  Cycles feed them, parameter updates  *)
(* resize them in between.                                                 *)
(***************************************************************************)
EXTENDS Integers, SequencesExt

CONSTANTS
  Samples,  \* readings of the motor
  MaxSize   \* bound: the largest window

ASSUME FilterAssumption == Samples \subseteq Int /\ MaxSize \in Nat

VARIABLES
  filter,  \* which of the two windows this is
  size,    \* the parameter: pos_median_filter_size or vel_filter_size
  cap,     \* size_ or buffersize_ of the window
  buffer,  \* buffer_
  index,   \* idx_ or index_
  filled,  \* filled_ of the median
  val,     \* val_ of the moving average
  out,     \* what the last update returned: a value and what divides it
  recent,  \* history: the last samples the window was given, oldest first
  since    \* history: updates since a shrinking; enough of them at the start

fvars == <<filter, size, cap, buffer, index, filled, val, out, recent, since>>

\* As many updates as replace every entry of the largest window twice.
Settled == 2 * MaxSize

\* std::accumulate, from the first entry on.
Sum(s) == LET total[n \in 0 .. Len(s)] ==
                IF n = 0 THEN 0 ELSE total[n - 1] + s[n]
          IN  total[Len(s)]

Zeros(n)     == [k \in 1 .. n |-> 0]
Rotate(s, k) == SubSeq(s, k + 1, Len(s)) \o SubSeq(s, 1, k)
Latest(s, n) == SubSeq(s, Len(s) - n + 1, Len(s))

\* std::nth_element: the element with k smaller ones before it.
Nth(s, k) ==
  CHOOSE v \in ToSet(s) :
    /\ Cardinality({i \in DOMAIN s : s[i] < v}) <= k
    /\ Cardinality({i \in DOMAIN s : s[i] <= v}) > k

FInit ==
  /\ filter \in {"median", "average"}
  /\ size \in 0 .. MaxSize /\ cap = size
  /\ buffer = (IF filter = "median" THEN Zeros(size) ELSE <<>>)
  /\ index = 0 /\ filled = 0 /\ val = 0
  /\ out = <<0, 1>>
  /\ recent = <<>> /\ since = Settled

Watch(v) ==
  /\ recent' = Append(IF Len(recent) < MaxSize THEN recent ELSE Tail(recent), v)
  /\ since' = IF since < Settled THEN since + 1 ELSE since

-----------------------------------------------------------------------------
(* MedianFilter                                                             *)

\* Seeded bug: the entries not yet written take part as zeros.
MedianUpdateUnfilled(v) ==
  /\ filter = "median" /\ size > 1
  /\ buffer' = [buffer EXCEPT ![index + 1] = v]
  /\ index' = (index + 1) % cap
  /\ filled' = IF filled < cap THEN filled + 1 ELSE filled
  /\ out' = <<Nth(buffer', cap \div 2), 1>>
  /\ Watch(v)
  /\ UNCHANGED <<filter, size, cap, val>>

MedianUpdate(v) ==
  /\ filter = "median" /\ size > 1
  /\ buffer' = [buffer EXCEPT ![index + 1] = v]
  /\ index' = (index + 1) % cap
  /\ filled' = IF filled < cap THEN filled + 1 ELSE filled
  /\ out' = <<Nth(SubSeq(buffer', 1, filled'), filled' \div 2), 1>>
  /\ Watch(v)
  /\ UNCHANGED <<filter, size, cap, val>>

\* Seeded bug: the next entry to write stays where it was.
MedianResizeKeepsIndex(n) ==
  /\ filter = "median"
  /\ size' = n /\ cap' = n
  /\ buffer' = Zeros(n) /\ filled' = 0
  /\ recent' = <<>>
  /\ UNCHANGED <<filter, index, val, out, since>>

MedianResize(n) ==
  /\ filter = "median"
  /\ size' = n /\ cap' = n
  /\ buffer' = Zeros(n) /\ index' = 0 /\ filled' = 0
  /\ recent' = <<>>
  /\ UNCHANGED <<filter, val, out, since>>

-----------------------------------------------------------------------------
(* MovingAverage                                                            *)

AverageUpdate(v) ==
  /\ filter = "average" /\ size > 1
  /\ \/ /\ Len(buffer) = cap
        /\ val' = val - buffer[index + 1] + v
        /\ buffer' = [buffer EXCEPT ![index + 1] = v]
        /\ index' = (index + 1) % cap
        /\ out' = <<val', cap>>
     \/ /\ Len(buffer) # cap /\ Len(buffer) > 0
        /\ val' = val + v
        /\ buffer' = Append(buffer, v)
        /\ out' = <<val', Len(buffer')>>
        /\ UNCHANGED index
     \/ /\ Len(buffer) # cap /\ Len(buffer) = 0
        /\ val' = v /\ buffer' = <<v>> /\ out' = <<v, 1>>
        /\ UNCHANGED index
  /\ Watch(v)
  /\ UNCHANGED <<filter, size, cap, filled>>

\* (k - n) % m of unsigned int: below zero it counts down from 2^32.
UnsignedMod(k, n, m) ==
  LET root == 65536 % m
  IN  IF k >= n THEN (k - n) % m ELSE ((root * root) + k - n) % m

Keep(n) ==
  /\ n = cap \/ n = Len(buffer)
  /\ cap' = n
  /\ since' = IF since = Settled THEN Settled ELSE 0
  /\ UNCHANGED <<buffer, index, val>>

\* Seeded bug: the oldest entry is not moved to the front.
GrowUnrotated(n) ==
  /\ n # cap /\ n > Len(buffer)
  /\ index' = 0 /\ cap' = n
  /\ since' = IF since = Settled THEN Settled ELSE 0
  /\ UNCHANGED <<buffer, val>>

Grow(n) ==
  /\ n # cap /\ n > Len(buffer)
  /\ buffer' = Rotate(buffer, index)
  /\ index' = 0 /\ cap' = n
  /\ since' = IF since = Settled THEN Settled ELSE 0
  /\ UNCHANGED val

\* Seeded bug: the sum still has the entries that were dropped.
ShrinkKeepsSum(n) ==
  /\ n # cap /\ n < Len(buffer)
  /\ buffer' = SubSeq(Rotate(buffer, UnsignedMod(index, n, Len(buffer))), 1, n)
  /\ index' = 0 /\ since' = 0
  /\ UNCHANGED <<cap, val>>

\* buffersize_ stays, and with it the length the window grows to again.
Shrink(n) ==
  /\ n # cap /\ n < Len(buffer)
  /\ buffer' = SubSeq(Rotate(buffer, UnsignedMod(index, n, Len(buffer))), 1, n)
  /\ index' = 0 /\ val' = Sum(buffer') /\ since' = 0
  /\ UNCHANGED cap

AverageResize(n) ==
  /\ filter = "average" /\ size' = n
  /\ Keep(n) \/ Grow(n) \/ Shrink(n)
  /\ UNCHANGED <<filter, filled, out, recent>>

FNext ==
  \/ \E v \in Samples : MedianUpdate(v) \/ AverageUpdate(v)
  \/ \E n \in 0 .. MaxSize : MedianResize(n) \/ AverageResize(n)

FSpec == FInit /\ [][FNext]_fvars

-----------------------------------------------------------------------------
(* Properties                                                               *)

\* Types; an update finds a window to write to, and an entry at its index.
FTypeOK ==
  /\ filter \in {"median", "average"}
  /\ {size, cap} \subseteq 0 .. MaxSize
  /\ buffer \in Seq(Samples \cup {0}) /\ Len(buffer) <= cap
  /\ index \in Nat /\ filled \in 0 .. cap
  /\ size > 1 => cap > 1 /\ (Len(buffer) = cap => index < Len(buffer))
  /\ recent \in Seq(Samples) /\ since \in 0 .. Settled

\* The ways to put the entries of s in order.
Orders(s) == {p \in Bijection(DOMAIN s, DOMAIN s) :
                \A i, j \in DOMAIN s : i <= j => s[p[i]] <= s[p[j]]}

\* The filtered position is the upper median of the last samples, however the
\* window was resized.
MedianOfWindow ==
  (filter = "median" /\ filled > 0) =>
    LET w == Latest(recent, filled)
    IN  \E p \in Orders(w) : out = <<w[p[filled \div 2 + 1]], 1>>

\* The running sum is that of the window, through every resize: otherwise the
\* error would stay in the velocity for good.
SumIsExact == filter = "average" => val = Sum(buffer)

\* Unless it was shrunk not long ago, the window holds the last samples, and
\* after a shrinking it does so again when its entries were replaced twice.
WindowIsRecent ==
  (filter = "average" /\ since = Settled) =>
    Rotate(buffer, index) = Latest(recent, Len(buffer))
=============================================================================
