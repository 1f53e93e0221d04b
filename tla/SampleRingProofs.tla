-------------------------- MODULE SampleRingProofs --------------------------
(***************************************************************************)
(* What the operators of the sample rings compute, for any size of ring.   *)
(***************************************************************************)
EXTENDS SampleRing, TLAPS

\* The remainder, of a number that has gone round at most once.
LEMMA Around ==
    ASSUME NEW x \in Int
    PROVE  /\ 0 <= x /\ x < RingSize => x % RingSize = x
           /\ RingSize <= x /\ x < 2 * RingSize => x % RingSize = x - RingSize
           /\ -RingSize <= x /\ x < 0 => x % RingSize = x + RingSize
BY RingSizeAssumption

\* A new ring is empty.
LEMMA EmptyRingFacts ==
    EmptyRing \in Ring /\ Available(EmptyRing) = 0
BY RingSizeAssumption DEF EmptyRing, Ring, Index, Available

\* There is room for one block less than the size of the ring.
LEMMA AvailableType ==
    ASSUME NEW r \in Ring
    PROVE  /\ Available(r) \in 0 .. RingSize - 1
           /\ r.buffer \in [Index -> Nat] /\ r.read \in 0 .. RingSize - 1
           /\ r.write \in 0 .. RingSize - 1
BY RingSizeAssumption DEF Ring, Index, Available

\* A block is a number.
LEMMA UnreadType ==
    ASSUME NEW r \in Ring, NEW i \in Int
    PROVE  Unread(r, i) \in Nat
<1>1. (r.read + i) % RingSize \in Index
  <2>1. r.read + i \in Int
    BY AvailableType
  <2>2. \A x \in Int : x % RingSize \in 0 .. RingSize - 1
    BY RingSizeAssumption
  <2> QED BY <2>1, <2>2 DEF Index
<1> QED BY <1>1, AvailableType DEF Unread

\* What is written keeps the ring a ring.  A block that is not overwritten stays.
LEMMA WrittenParts ==
    ASSUME NEW r \in Ring, NEW id \in Nat, NEW n \in Nat
    PROVE  /\ Written(r, id, n) \in Ring
           /\ Written(r, id, n).read = r.read
           /\ Written(r, id, n).write = (r.write + n) % RingSize
           /\ \A i \in Index : Written(r, id, n).buffer[i]
                               = IF (i - r.write) % RingSize < n
                                 THEN id + ((i - r.write) % RingSize)
                                 ELSE r.buffer[i]
<1>1. /\ r.buffer \in [Index -> Nat] /\ r.read \in Index /\ r.write \in Index
  BY AvailableType DEF Index
<1>2. \A i \in Index : (i - r.write) % RingSize \in Nat
  BY <1>1, RingSizeAssumption DEF Index
<1>3. (r.write + n) % RingSize \in Index
  BY <1>1, RingSizeAssumption DEF Index
<1> QED BY <1>1, <1>2, <1>3 DEF Written, Ring

\* The position of block i from the write index on.
LEMMA Offset ==
    ASSUME NEW r \in Ring, NEW i \in 0 .. RingSize - 1
    PROVE  /\ (r.read + i) % RingSize \in Index
           /\ i >= Available(r) =>
                 (((r.read + i) % RingSize) - r.write) % RingSize = i - Available(r)
           /\ i < Available(r) =>
                 (((r.read + i) % RingSize) - r.write) % RingSize = RingSize - Available(r) + i
<1> DEFINE p == (r.read + i) % RingSize
<1>1. r.read \in 0 .. RingSize - 1 /\ r.write \in 0 .. RingSize - 1
  BY AvailableType
<1>2. p = IF r.read + i < RingSize THEN r.read + i ELSE r.read + i - RingSize
  BY <1>1, Around, RingSizeAssumption
<1>3. p \in 0 .. RingSize - 1
  BY <1>1, <1>2, RingSizeAssumption
<1> HIDE DEF p
<1>4. (p - r.write) % RingSize = IF p >= r.write THEN p - r.write ELSE p - r.write + RingSize
  BY <1>1, <1>3, Around, RingSizeAssumption
<1>5. i >= Available(r) => (p - r.write) % RingSize = i - Available(r)
  BY <1>1, <1>2, <1>4, RingSizeAssumption DEF Available
<1>6. i < Available(r) => (p - r.write) % RingSize = RingSize - Available(r) + i
  BY <1>1, <1>2, <1>4, RingSizeAssumption DEF Available
<1> QED BY <1>3, <1>5, <1>6 DEF p, Index

\* A write of less than the ring either adds its blocks to the unread ones or laps
\* them: then what is unread is the end of what was written.
LEMMA WrittenFacts ==
    ASSUME NEW r \in Ring, NEW id \in Nat, NEW n \in 1 .. RingSize - 1
    PROVE  LET w == Written(r, id, n)
               a == Available(r)
               b == Available(w)
           IN  /\ w \in Ring
               /\ \/ /\ b = a + n
                     /\ \A i \in 0 .. a - 1 : Unread(w, i) = Unread(r, i)
                     /\ \A i \in a .. b - 1 : Unread(w, i) = id + i - a
                  \/ /\ b = a + n - RingSize
                     /\ \A i \in 0 .. b - 1 : Unread(w, i) = id + n - b + i
<1> DEFINE w == Written(r, id, n)
           a == Available(r)
           b == Available(w)
<1>1. /\ a \in 0 .. RingSize - 1 /\ r.read \in 0 .. RingSize - 1 /\ r.write \in 0 .. RingSize - 1
  BY AvailableType
<1>2. /\ w \in Ring /\ w.read = r.read /\ w.write = (r.write + n) % RingSize
      /\ \A i \in Index : w.buffer[i] = IF (i - r.write) % RingSize < n
                                        THEN id + ((i - r.write) % RingSize)
                                        ELSE r.buffer[i]
  BY WrittenParts
<1>3. w.write = IF r.write + n < RingSize THEN r.write + n ELSE r.write + n - RingSize
  BY <1>1, <1>2, Around, RingSizeAssumption
<1>4. a = IF r.write >= r.read THEN r.write - r.read ELSE RingSize - r.read + r.write
  BY DEF Available
<1>5. b = IF w.write >= r.read THEN w.write - r.read ELSE RingSize - r.read + w.write
  BY <1>2 DEF Available
<1> HIDE DEF w, a, b
<1>6. b = IF a + n < RingSize THEN a + n ELSE a + n - RingSize
  BY <1>1, <1>3, <1>4, <1>5, RingSizeAssumption
<1>7. ASSUME NEW i \in 0 .. RingSize - 1
      PROVE  /\ i < a /\ RingSize - a + i >= n => Unread(w, i) = Unread(r, i)
             /\ i < a /\ RingSize - a + i < n => Unread(w, i) = id + RingSize - a + i
             /\ i >= a /\ i - a < n => Unread(w, i) = id + i - a
  <2> DEFINE p == (r.read + i) % RingSize
  <2>1. /\ p \in Index
        /\ i >= a => (p - r.write) % RingSize = i - a
        /\ i < a => (p - r.write) % RingSize = RingSize - a + i
    BY Offset DEF a
  <2>2. Unread(w, i) = w.buffer[p] /\ Unread(r, i) = r.buffer[p]
    BY <1>2 DEF Unread
  <2> HIDE DEF p
  <2> QED BY <1>1, <1>2, <2>1, <2>2, RingSizeAssumption
<1>8. CASE a + n < RingSize
  <2>1. b = a + n /\ b \in 1 .. RingSize - 1
    BY <1>1, <1>6, <1>8, RingSizeAssumption
  <2>2. \A i \in 0 .. a - 1 : Unread(w, i) = Unread(r, i)
    BY <1>1, <1>7, <1>8, RingSizeAssumption
  <2>3. \A i \in a .. b - 1 : Unread(w, i) = id + i - a
    BY <1>1, <1>7, <1>8, <2>1, RingSizeAssumption
  <2> QED BY <1>2, <2>1, <2>2, <2>3 DEF w, a, b
<1>9. CASE a + n >= RingSize
  <2>1. b = a + n - RingSize /\ b \in 0 .. a - 1
    BY <1>1, <1>6, <1>9, RingSizeAssumption
  <2>2. \A i \in 0 .. b - 1 : Unread(w, i) = id + n - b + i
    BY <1>1, <1>7, <1>9, <2>1, RingSizeAssumption
  <2> QED BY <1>2, <2>1, <2>2 DEF w, a, b
<1> QED BY <1>1, <1>8, <1>9, RingSizeAssumption

\* A read takes the oldest blocks.
LEMMA ConsumedFacts ==
    ASSUME NEW r \in Ring, NEW n \in 0 .. Available(r)
    PROVE  /\ Consumed(r, n) \in Ring
           /\ Available(Consumed(r, n)) = Available(r) - n
           /\ \A i \in 0 .. Available(r) - n - 1 : Unread(Consumed(r, n), i) = Unread(r, n + i)
<1> DEFINE c == Consumed(r, n)
           a == Available(r)
<1>1. /\ a \in 0 .. RingSize - 1 /\ r.read \in 0 .. RingSize - 1 /\ r.write \in 0 .. RingSize - 1
  BY AvailableType
<1>2. c.buffer = r.buffer /\ c.write = r.write /\ c.read = (r.read + n) % RingSize
  BY DEF Consumed
<1>3. c.read = IF r.read + n < RingSize THEN r.read + n ELSE r.read + n - RingSize
  BY <1>1, <1>2, Around, RingSizeAssumption DEF a
<1>4. c \in Ring
  <2>1. c.read \in Index /\ r.write \in Index /\ r.buffer \in [Index -> Nat]
    <3>1. c.read \in 0 .. RingSize - 1
      BY <1>1, <1>3, RingSizeAssumption
    <3> QED BY <1>1, <3>1, AvailableType DEF Index
  <2>2. (r.read + n) % RingSize \in Index
    BY <1>2, <2>1
  <2> QED BY <2>1, <2>2 DEF Consumed, Ring
<1>5. Available(c) = a - n
  BY <1>1, <1>2, <1>3, RingSizeAssumption DEF Available
<1>6. ASSUME NEW i \in 0 .. a - n - 1
      PROVE  Unread(c, i) = Unread(r, n + i)
  <2>1. i \in Nat /\ n \in Nat /\ n + i < a
    BY <1>1
  <2>2. (c.read + i) % RingSize = (r.read + (n + i)) % RingSize
    <3> DEFINE x == c.read + i
               y == r.read + (n + i)
    <3>1. x \in Nat /\ y \in Nat /\ (x = y \/ x = y - RingSize) /\ x < 2 * RingSize
          /\ y < 2 * RingSize /\ (x = y \/ y >= RingSize)
      BY <1>1, <1>3, <2>1, RingSizeAssumption
    <3> HIDE DEF x, y
    <3>2. x % RingSize = y % RingSize
      BY <3>1, Around, RingSizeAssumption
    <3> QED BY <3>2 DEF x, y
  <2> QED BY <1>2, <2>2 DEF Unread
<1> QED BY <1>4, <1>5, <1>6

-----------------------------------------------------------------------------
(* What waits in a ring                                                    *)

\* The blocks that wait are the last ones up to number last.
TailOf(r, last) ==
    \A i \in 0 .. Available(r) - 1 : Unread(r, i) = last - Available(r) + 1 + i

\* The blocks that wait are in order, above lo and not above hi.
Rising(r, lo, hi) ==
    \A j \in 0 .. Available(r) - 1 :
        /\ lo < Unread(r, j) /\ Unread(r, j) <= hi
        /\ \A k \in 0 .. j - 1 : Unread(r, k) < Unread(r, j)

\* The blocks that follow are written, with or without a lap.
LEMMA TailWritten ==
    ASSUME NEW r \in Ring, NEW last \in Nat, NEW n \in 1 .. RingSize - 1, TailOf(r, last)
    PROVE  TailOf(Written(r, last + 1, n), last + n)
<1> DEFINE w == Written(r, last + 1, n)
           a == Available(r)
           b == Available(w)
<1>1. a \in 0 .. RingSize - 1 /\ b \in 0 .. RingSize - 1
  <2>1. w \in Ring
    BY WrittenFacts
  <2> QED BY <2>1, AvailableType
<1>2. \/ /\ b = a + n
         /\ \A i \in 0 .. a - 1 : Unread(w, i) = Unread(r, i)
         /\ \A i \in a .. b - 1 : Unread(w, i) = last + 1 + i - a
      \/ /\ b = a + n - RingSize
         /\ \A i \in 0 .. b - 1 : Unread(w, i) = last + 1 + n - b + i
  BY WrittenFacts
<1>3. \A i \in 0 .. a - 1 : Unread(r, i) = last - a + 1 + i
  BY DEF TailOf
<1> HIDE DEF w, a, b
<1>4. \A i \in 0 .. b - 1 : Unread(w, i) = last + n - b + 1 + i
  <2>1. CASE /\ b = a + n
             /\ \A i \in 0 .. a - 1 : Unread(w, i) = Unread(r, i)
             /\ \A i \in a .. b - 1 : Unread(w, i) = last + 1 + i - a
    <3> SUFFICES ASSUME NEW i \in 0 .. b - 1
                 PROVE  Unread(w, i) = last + n - b + 1 + i
      OBVIOUS
    <3>1. CASE i < a
      <4>1. Unread(w, i) = Unread(r, i) /\ Unread(r, i) = last - a + 1 + i
        BY <1>1, <1>3, <2>1, <3>1
      <4> QED BY <1>1, <2>1, <4>1
    <3>2. CASE i >= a
      <4>1. Unread(w, i) = last + 1 + i - a
        BY <1>1, <2>1, <3>2
      <4> QED BY <1>1, <2>1, <4>1
    <3> QED BY <1>1, <3>1, <3>2
  <2>2. CASE \A i \in 0 .. b - 1 : Unread(w, i) = last + 1 + n - b + i
    BY <1>1, <2>2
  <2> QED BY <1>2, <2>1, <2>2
<1>5. TailOf(w, last + n)
  BY <1>1, <1>4, RingSizeAssumption DEF TailOf, b
<1> QED BY <1>5 DEF w

\* Reading takes none of those that are left.
LEMMA TailConsumed ==
    ASSUME NEW r \in Ring, NEW last \in Nat, NEW n \in 0 .. Available(r), TailOf(r, last)
    PROVE  TailOf(Consumed(r, n), last)
<1> DEFINE c == Consumed(r, n)
           a == Available(r)
<1>1. a \in Nat /\ n \in Nat
  BY AvailableType, RingSizeAssumption
<1>2. Available(c) = a - n /\ \A i \in 0 .. a - n - 1 : Unread(c, i) = Unread(r, n + i)
  BY ConsumedFacts
<1>3. \A i \in 0 .. a - 1 : Unread(r, i) = last - a + 1 + i
  BY DEF TailOf
<1> HIDE DEF c, a
<1>4. \A i \in 0 .. a - n - 1 : Unread(c, i) = last - (a - n) + 1 + i
  BY <1>1, <1>2, <1>3
<1> QED BY <1>2, <1>4 DEF TailOf, c

\* New blocks come after the old ones.
LEMMA RisingWritten ==
    ASSUME NEW r \in Ring, NEW lo \in Nat, NEW hi \in Nat, NEW id \in Nat,
           NEW n \in 1 .. RingSize - 1, Rising(r, lo, hi), lo <= hi, hi < id
    PROVE  Rising(Written(r, id, n), lo, id + n - 1)
<1> DEFINE w == Written(r, id, n)
           a == Available(r)
           b == Available(w)
<1>1. a \in 0 .. RingSize - 1 /\ b \in 0 .. RingSize - 1
  BY AvailableType, WrittenFacts
<1>2. \/ /\ b = a + n
         /\ \A i \in 0 .. a - 1 : Unread(w, i) = Unread(r, i)
         /\ \A i \in a .. b - 1 : Unread(w, i) = id + i - a
      \/ /\ b = a + n - RingSize
         /\ \A i \in 0 .. b - 1 : Unread(w, i) = id + n - b + i
  BY WrittenFacts
<1>3. ASSUME NEW i \in 0 .. a - 1
      PROVE  Unread(r, i) \in Nat
  BY UnreadType
<1>4. \A j \in 0 .. a - 1 : /\ lo < Unread(r, j) /\ Unread(r, j) <= hi
                            /\ \A k \in 0 .. j - 1 : Unread(r, k) < Unread(r, j)
  BY DEF Rising
<1> HIDE DEF w, a, b
<1> SUFFICES ASSUME NEW j \in 0 .. b - 1
             PROVE  /\ lo < Unread(w, j) /\ Unread(w, j) <= id + n - 1
                    /\ \A k \in 0 .. j - 1 : Unread(w, k) < Unread(w, j)
  BY DEF Rising, w, b
<1>5. CASE /\ b = a + n
           /\ \A i \in 0 .. a - 1 : Unread(w, i) = Unread(r, i)
           /\ \A i \in a .. b - 1 : Unread(w, i) = id + i - a
  <2>1. CASE j < a
    <3>1. Unread(w, j) = Unread(r, j) /\ \A k \in 0 .. j - 1 : Unread(w, k) = Unread(r, k)
      BY <1>1, <1>5, <2>1
    <3>2. /\ lo < Unread(r, j) /\ Unread(r, j) <= hi /\ Unread(r, j) \in Nat
          /\ \A k \in 0 .. j - 1 : Unread(r, k) < Unread(r, j)
      BY <1>1, <1>3, <1>4, <2>1
    <3> QED BY <3>1, <3>2, RingSizeAssumption
  <2>2. CASE j >= a
    <3>1. Unread(w, j) = id + j - a /\ j - a < n
      BY <1>1, <1>5, <2>2
    <3>2. ASSUME NEW k \in 0 .. j - 1
          PROVE  Unread(w, k) < Unread(w, j)
      <4>1. CASE k < a
        <5>1. Unread(w, k) = Unread(r, k) /\ Unread(r, k) <= hi /\ Unread(r, k) \in Nat
          BY <1>1, <1>3, <1>4, <1>5, <4>1
        <5> QED BY <1>1, <2>2, <3>1, <5>1
      <4>2. CASE k >= a
        <5>1. Unread(w, k) = id + k - a
          BY <1>1, <1>5, <4>2
        <5> QED BY <1>1, <2>2, <3>1, <4>2, <5>1
      <4> QED BY <1>1, <4>1, <4>2
    <3> QED BY <1>1, <2>2, <3>1, <3>2, RingSizeAssumption
  <2> QED BY <1>1, <2>1, <2>2
<1>6. CASE /\ b = a + n - RingSize
           /\ \A i \in 0 .. b - 1 : Unread(w, i) = id + n - b + i
  <2>1. b <= n
    BY <1>1, <1>6, RingSizeAssumption
  <2>2. Unread(w, j) = id + n - b + j /\ \A k \in 0 .. j - 1 : Unread(w, k) = id + n - b + k
    BY <1>1, <1>6
  <2> QED BY <1>1, <2>1, <2>2, RingSizeAssumption
<1> QED BY <1>2, <1>5, <1>6

\* The last block that was read is the new lower bound.
LEMMA RisingConsumed ==
    ASSUME NEW r \in Ring, NEW lo \in Nat, NEW hi \in Nat, Rising(r, lo, hi),
           NEW n \in 1 .. Available(r)
    PROVE  /\ Rising(Consumed(r, n), Unread(r, n - 1), hi)
           /\ lo < Unread(r, n - 1) /\ Unread(r, n - 1) <= hi
<1> DEFINE c == Consumed(r, n)
           a == Available(r)
<1>1. a \in Nat /\ n \in Nat \ {0} /\ n <= a
  BY AvailableType, RingSizeAssumption
<1>2. Available(c) = a - n /\ \A i \in 0 .. a - n - 1 : Unread(c, i) = Unread(r, n + i)
  BY <1>1, ConsumedFacts
<1>3. \A j \in 0 .. a - 1 : /\ lo < Unread(r, j) /\ Unread(r, j) <= hi
                            /\ \A k \in 0 .. j - 1 : Unread(r, k) < Unread(r, j)
  BY DEF Rising
<1> HIDE DEF c, a
<1>4. lo < Unread(r, n - 1) /\ Unread(r, n - 1) <= hi
  BY <1>1, <1>3
<1>5. ASSUME NEW j \in 0 .. a - n - 1
      PROVE  /\ Unread(r, n - 1) < Unread(c, j) /\ Unread(c, j) <= hi
             /\ \A k \in 0 .. j - 1 : Unread(c, k) < Unread(c, j)
  <2>1. n + j \in 0 .. a - 1 /\ n - 1 \in 0 .. n + j - 1 /\ Unread(c, j) = Unread(r, n + j)
    BY <1>1, <1>2
  <2>2. ASSUME NEW k \in 0 .. j - 1
        PROVE  n + k \in 0 .. n + j - 1 /\ Unread(c, k) = Unread(r, n + k)
    BY <1>1, <1>2
  <2> QED BY <1>3, <2>1, <2>2
<1> QED BY <1>2, <1>4, <1>5 DEF Rising, c

\* An empty ring is in any order.
LEMMA RisingEmpty ==
    ASSUME NEW r, Available(r) = 0, NEW lo, NEW hi
    PROVE  Rising(r, lo, hi)
BY DEF Rising

\* The bounds may be wider.
LEMMA RisingWider ==
    ASSUME NEW r \in Ring, NEW lo \in Nat, NEW hi \in Nat, NEW top \in Nat,
           Rising(r, lo, hi), hi <= top
    PROVE  Rising(r, lo, top)
<1>1. Available(r) \in 0 .. RingSize - 1
  BY AvailableType
<1>2. ASSUME NEW j \in 0 .. Available(r) - 1
      PROVE  Unread(r, j) \in Nat
  BY UnreadType
<1> QED BY <1>1, <1>2 DEF Rising
=============================================================================
