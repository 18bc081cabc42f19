----------------------- MODULE OutputRenderChainProofs -----------------------
(* Proofs about OutputRenderChain for any chain of stages, rates, look-ahead, *)
(* block size, hold and cap: the energy policy cuts a tail of unknown length  *)
(* and nothing else, and what a render reports is true of every block size.   *)
EXTENDS OutputRenderChain, WellFoundedInduction, TLAPS

-----------------------------------------------------------------------------
(* Sums.                                                                   *)

\* A set of natural numbers that is not empty has a least element.
LEMMA LeastOf ==
  ASSUME NEW S \in SUBSET Nat, S # {}
  PROVE  \E m \in S : \A k \in S : m <= k
<1>1. PICK m \in S : \A k \in S : ~(<<k, m>> \in OpToRel(<, Nat))
  BY NatLessThanWellFounded, WFMin
<1>2. \A k \in S : ~(k < m)
  BY <1>1 DEF OpToRel
<1> QED BY <1>2

\* A set that contains 0 and, with a natural, the next one contains them all.
LEMMA SetInduction ==
  ASSUME NEW S, 0 \in S, \A n \in Nat : n \in S => n + 1 \in S
  PROVE  Nat \subseteq S
<1> SUFFICES ASSUME Nat \ S # {} PROVE FALSE
  OBVIOUS
<1>1. PICK n \in Nat \ S : \A m \in Nat \ S : n <= m
  <2>1. Nat \ S \in SUBSET Nat
    OBVIOUS
  <2> QED BY <2>1, LeastOf, Zenon
<1>2. n # 0 /\ n - 1 \in Nat
  BY <1>1
<1>3. n - 1 \in S
  BY <1>1, <1>2
<1> QED BY <1>1, <1>2, <1>3

\* `AddUp` is what its definition says.
LEMMA AddUpExists ==
  ASSUME NEW f, NEW n \in Nat
  PROVE  AddUp(f, n) = [k \in 0..n |-> IF k = 0 THEN 0 ELSE AddUp(f, n)[k - 1] + f[k]]
<1> DEFINE Sums(s, m) == s = [k \in 0..m |-> IF k = 0 THEN 0 ELSE s[k - 1] + f[k]]
           Defined == {m \in Nat : \E s : Sums(s, m)}
<1>1. 0 \in Defined
  <2>1. Sums([k \in 0..0 |-> 0], 0)
    OBVIOUS
  <2> QED BY <2>1
<1>2. ASSUME NEW m \in Nat, m \in Defined
      PROVE  m + 1 \in Defined
  <2>1. PICK s : Sums(s, m)
    BY <1>2
  <2> DEFINE g == [k \in 0..(m + 1) |-> IF k <= m THEN s[k] ELSE s[m] + f[m + 1]]
             h == [k \in 0..(m + 1) |-> IF k = 0 THEN 0 ELSE g[k - 1] + f[k]]
  <2>2. ASSUME NEW k \in 0..(m + 1)
        PROVE  g[k] = IF k = 0 THEN 0 ELSE g[k - 1] + f[k]
    <3>1. CASE k = 0
      BY <2>1, <3>1
    <3>2. CASE k # 0
      <4>1. k - 1 \in 0..m /\ g[k - 1] = s[k - 1]
        BY <3>2
      <4>2. CASE k <= m
        <5>1. k \in 0..m /\ g[k] = s[k]
          BY <4>2
        <5>2. s[k] = s[k - 1] + f[k]
          BY <2>1, <3>2, <5>1
        <5> QED BY <3>2, <4>1, <5>1, <5>2
      <4>3. CASE k = m + 1
        BY <3>2, <4>1, <4>3
      <4> QED BY <4>2, <4>3
    <3> QED BY <3>1, <3>2
  <2>3. g = [k \in 0..(m + 1) |-> g[k]]
    OBVIOUS
  <2> HIDE DEF g
  <2>4. g = h
    BY <2>2, <2>3
  <2>5. Sums(g, m + 1)
    BY <2>4
  <2> HIDE DEF Sums
  <2>6. \E d : Sums(d, m + 1)
    BY <2>5
  <2> QED BY <2>6
<1>3. Nat \subseteq Defined
  <2> HIDE DEF Defined
  <2> QED BY <1>1, <1>2, SetInduction
<1>4. \E s : Sums(s, n)
  BY <1>3
<1> DEFINE sum == CHOOSE s : Sums(s, n)
<1>5. AddUp(f, n) = sum
  BY DEF AddUp
<1>6. Sums(sum, n)
  <2> HIDE DEF Sums
  <2> QED BY <1>4
<1> HIDE DEF sum
<1> QED BY <1>5, <1>6

\* A sum of naturals is one, and grows.
LEMMA Adding ==
  ASSUME NEW n \in Nat, NEW f, \A k \in 1..n : f[k] \in Nat
  PROVE  LET sum == AddUp(f, n)
         IN /\ sum[0] = 0
            /\ \A k \in 1..n : sum[k] = sum[k - 1] + f[k]
            /\ \A k \in 0..n : sum[k] \in Nat
            /\ \A j, k \in 0..n : j <= k => sum[j] <= sum[k]
<1> DEFINE sum == AddUp(f, n)
<1>1. sum[0] = 0 /\ \A k \in 1..n : sum[k] = sum[k - 1] + f[k]
  BY AddUpExists
<1> HIDE DEF sum
<1> DEFINE Fine == {k \in Nat : k <= n => \A j \in 0..k : sum[j] \in Nat /\ sum[j] <= sum[k]}
<1>2. 0 \in Fine
  BY <1>1
<1>3. ASSUME NEW k \in Nat, k \in Fine PROVE k + 1 \in Fine
  <2>1. CASE k + 1 <= n
    <3>1. k + 1 \in 1..n /\ (k + 1) - 1 = k /\ k <= n
      BY <2>1
    <3>2. sum[k + 1] = sum[k] + f[k + 1] /\ f[k + 1] \in Nat
      BY <1>1, <3>1
    <3>3. \A j \in 0..k : sum[j] \in Nat /\ sum[j] <= sum[k]
      BY <1>3, <3>1
    <3>4. sum[k] \in Nat /\ sum[k + 1] \in Nat /\ sum[k] <= sum[k + 1]
      BY <3>2, <3>3
    <3>5. ASSUME NEW j \in 0..(k + 1) PROVE sum[j] \in Nat /\ sum[j] <= sum[k + 1]
      <4>1. CASE j = k + 1
        BY <3>4, <4>1
      <4>2. CASE j # k + 1
        <5>1. j \in 0..k
          BY <4>2
        <5> QED BY <3>3, <3>4, <5>1
      <4> QED BY <4>1, <4>2
    <3> QED BY <3>5
  <2>2. CASE ~(k + 1 <= n)
    BY <2>2
  <2> QED BY <2>1, <2>2
<1>4. Nat \subseteq Fine
  <2> HIDE DEF Fine
  <2> QED BY <1>2, <1>3, SetInduction
<1>5. \A k \in 0..n : \A j \in 0..k : sum[j] \in Nat /\ sum[j] <= sum[k]
  BY <1>4
<1> QED BY <1>1, <1>5 DEF sum

\* Of some places in a list, one is the last.
LEMMA LastPlace ==
  ASSUME NEW n \in Nat, NEW P \in SUBSET (1 .. n), P # {}
  PROVE  \E m \in P : \A k \in P : k <= m
<1> DEFINE S == {n - k : k \in P}
<1>1. S \in SUBSET Nat /\ S # {}
  <2>1. \A k \in P : n - k \in Nat
    <3> SUFFICES ASSUME NEW k \in P PROVE n - k \in Nat
      OBVIOUS
    <3>1. k \in 1 .. n
      OBVIOUS
    <3> QED BY <3>1
  <2> QED BY <2>1
<1>2. PICK d \in S : \A e \in S : d <= e
  <2> HIDE DEF S
  <2> QED BY <1>1, LeastOf
<1>3. PICK m \in P : d = n - m
  BY <1>2
<1>4. \A k \in P : k <= m
  <2> SUFFICES ASSUME NEW k \in P PROVE k <= m
    OBVIOUS
  <2>1. n - k \in S
    OBVIOUS
  <2>2. n - m <= n - k
    BY <1>2, <1>3, <2>1
  <2>3. k \in 1 .. n /\ m \in 1 .. n
    OBVIOUS
  <2> HIDE DEF S
  <2> QED BY <2>2, <2>3
<1> QED BY <1>4

-----------------------------------------------------------------------------
(* Frames at two rates.                                                    *)

\* A quotient rounded up.
LEMMA RoundedUp ==
  ASSUME NEW a \in Nat, NEW b \in Nat \ {0}
  PROVE  /\ CeilDiv(a, b) \in Nat /\ a <= b * CeilDiv(a, b)
         /\ a = 0 => CeilDiv(a, b) = 0
<1> DEFINE q == (a + b - 1) \div b
<1>1. q \in Nat /\ a + b - 1 < b * q + b
  OBVIOUS
<1>2. a = 0 => q = 0
  OBVIOUS
<1> HIDE DEF q
<1>3. CeilDiv(a, b) = q
  BY DEF CeilDiv, q
<1>4. b * q \in Nat
  BY <1>1
<1> QED BY <1>1, <1>2, <1>3, <1>4

RatesSound == SourceRate \in Nat \ {0} /\ OutputRate \in Nat \ {0}

\* The nearest number of output frames.
LEMMA Nearest ==
  ASSUME RatesSound, NEW a \in Nat
  PROVE  LET n == NearestOut(a)
         IN /\ n \in Nat /\ a * OutputRate \in Nat /\ SourceRate * n \in Nat
            /\ 2 * (SourceRate * n) <= 2 * (a * OutputRate) + SourceRate
            /\ 2 * (a * OutputRate) < 2 * (SourceRate * n) + SourceRate
<1> DEFINE S == SourceRate
           O == OutputRate
           p == a * O
           q == (2 * p + S) \div (2 * S)
           d == 2 * S
<1>1. S \in Nat \ {0} /\ O \in Nat \ {0} /\ p \in Nat
  BY DEF RatesSound
<1>2. NearestOut(a) = q
  <2>1. 2 * a * O = 2 * p
    BY <1>1
  <2> QED BY <2>1 DEF NearestOut
<1> HIDE DEF S, O, p
<1>3. d \in Nat \ {0}
  BY <1>1
<1> HIDE DEF d
<1>4. (2 * p + S) \div d \in Nat /\ d * ((2 * p + S) \div d) <= 2 * p + S
      /\ 2 * p + S < d * ((2 * p + S) \div d) + d
  BY <1>1, <1>3
<1>5. q = (2 * p + S) \div d
  BY DEF d
<1> HIDE DEF q
<1>6. q \in Nat /\ d * q <= 2 * p + S /\ 2 * p + S < d * q + d
  BY <1>4, <1>5
<1>7. d * q = 2 * (S * q) /\ S * q \in Nat
  BY <1>1, <1>6 DEF d
<1>8. 2 * (S * q) <= 2 * p + S /\ 2 * p < 2 * (S * q) + S
  BY <1>1, <1>6, <1>7 DEF d
<1> QED BY <1>1, <1>2, <1>6, <1>7, <1>8 DEF S, O, p

\* As many output frames as are needed.
LEMMA Ceiling ==
  ASSUME RatesSound, NEW a \in Nat
  PROVE  /\ CeilOut(a) \in Nat /\ SourceRate * CeilOut(a) \in Nat
         /\ a * OutputRate <= SourceRate * CeilOut(a)
<1>1. a * OutputRate \in Nat /\ SourceRate \in Nat \ {0}
  BY DEF RatesSound
<1>2. CeilOut(a) \in Nat /\ a * OutputRate <= SourceRate * CeilOut(a)
  BY <1>1, RoundedUp DEF CeilOut
<1> QED BY <1>1, <1>2

\* Fewer halves of a step are fewer steps.
LEMMA Compare ==
  ASSUME NEW s \in Nat \ {0}, NEW x \in Int, NEW y \in Int, s * x < s * y + s
  PROVE  x <= y
<1> SUFFICES ASSUME x >= y + 1 PROVE FALSE
  OBVIOUS
<1>1. s * x >= s * (y + 1)
  OBVIOUS
<1>2. s * (y + 1) = s * y + s
  OBVIOUS
<1> QED BY <1>1, <1>2

\* Rounding to the nearest, of sums and differences.
LEMMA Roundings ==
  ASSUME RatesSound, NEW a \in Nat, NEW b \in Nat
  PROVE  /\ NearestOut(a + b) <= NearestOut(a) + CeilOut(b)
         /\ NearestOut(a) + NearestOut(b) <= NearestOut(a + b) + 1
         /\ NearestOut(a) <= NearestOut(a + b)
         /\ NearestOut(a) <= CeilOut(a)
         /\ NearestOut(0) = 0
<1> DEFINE S == SourceRate
           O == OutputRate
           n == NearestOut(a + b)
           m == NearestOut(a)
           k == NearestOut(b)
           c == CeilOut(b)
           e == CeilOut(a)
           z == NearestOut(0)
           p == a * O
           q == b * O
           Sn == S * n
           Sm == S * m
           Sk == S * k
           Sc == S * c
           Se == S * e
           Sz == S * z
<1>1. S \in Nat \ {0} /\ O \in Nat \ {0} /\ a + b \in Nat
  BY DEF RatesSound
<1>2. (a + b) * O = p + q /\ 0 * O = 0
  BY <1>1
<1>3. /\ n \in Nat /\ Sn \in Nat /\ p + q \in Nat
      /\ 2 * Sn <= 2 * (p + q) + S /\ 2 * (p + q) < 2 * Sn + S
  BY <1>1, <1>2, Nearest
<1>4. /\ m \in Nat /\ Sm \in Nat /\ p \in Nat
      /\ 2 * Sm <= 2 * p + S /\ 2 * p < 2 * Sm + S
  BY Nearest
<1>5. /\ k \in Nat /\ Sk \in Nat /\ q \in Nat
      /\ 2 * Sk <= 2 * q + S /\ 2 * q < 2 * Sk + S
  BY Nearest
<1>6. c \in Nat /\ Sc \in Nat /\ q <= Sc /\ e \in Nat /\ Se \in Nat /\ p <= Se
  BY Ceiling
<1>7. z \in Nat /\ Sz \in Nat /\ 2 * Sz <= S
  BY <1>1, <1>2, Nearest
<1> HIDE DEF n, m, k, c, e, z, p, q, S, O
<1>8. /\ S * (m + c) = Sm + Sc /\ S * (m + k) = Sm + Sk /\ S * (n + 1) = Sn + S
  BY <1>1, <1>3, <1>4, <1>5, <1>6
<1> HIDE DEF Sn, Sm, Sk, Sc, Se, Sz
<1>9. Sn < Sm + Sc + S /\ Sm + Sk < Sn + S + S /\ Sm < Sn + S /\ Sm < Se + S /\ Sz < S
  BY <1>1, <1>3, <1>4, <1>5, <1>6, <1>7
<1>10. n <= m + c
  BY <1>1, <1>3, <1>4, <1>6, <1>8, <1>9, Compare DEF Sn
<1>11. m + k <= n + 1
  BY <1>1, <1>3, <1>4, <1>5, <1>8, <1>9, Compare DEF Sn
<1>12. m <= n /\ m <= e
  BY <1>1, <1>3, <1>4, <1>6, <1>9, Compare DEF Sn, Sm, Se
<1>13. z = 0
  <2>1. S * z < S * 0 + S
    BY <1>1, <1>9 DEF Sz
  <2> QED BY <1>1, <1>7, <2>1, Compare
<1> QED BY <1>10, <1>11, <1>12, <1>13 DEF n, m, k, c, e, z

\* Without a change of rate frames stay frames.
LEMMA SameRate ==
  ASSUME RatesSound, ~Resampled, NEW a \in Nat
  PROVE  NearestOut(a) = a /\ CeilOut(a) = a
<1> DEFINE S == SourceRate
           n == NearestOut(a)
           c == (a * S + S - 1) \div S
<1>1. S \in Nat \ {0} /\ OutputRate = S
  BY DEF RatesSound, Resampled
<1>2. n \in Nat /\ 2 * (S * n) <= 2 * (a * S) + S /\ 2 * (a * S) < 2 * (S * n) + S
      /\ a * S \in Nat /\ S * n \in Nat
  BY <1>1, Nearest
<1> HIDE DEF S, n
<1>3. S * n < S * a + S /\ S * a < S * n + S
  BY <1>1, <1>2
<1>4. n <= a /\ a <= n
  BY <1>1, <1>2, <1>3, Compare
<1>5. c = a
  <2>1. a * S \in Nat /\ c \in Int /\ S * c <= a * S + S - 1 /\ a * S + S - 1 < S * c + S
    BY <1>1
  <2> HIDE DEF c
  <2>2. S * c < S * a + S /\ S * a < S * c + S
    BY <1>1, <2>1
  <2> QED BY <1>1, <2>1, <2>2, Compare
<1>6. CeilOut(a) = c
  BY <1>1 DEF CeilOut, CeilDiv, S
<1> QED BY <1>2, <1>4, <1>5, <1>6 DEF n

\* Frames at the source rate that make a whole number of output frames and more make them.
LEMMA EnoughFrames ==
  ASSUME RatesSound, NEW a \in Nat, NEW max \in Nat, NEW owed \in Nat, NEW more \in Nat,
         NEW b \in Nat, b >= a + max * SourceRate + CeilDiv(owed * SourceRate, OutputRate) + more
  PROVE  NearestOut(b) >= NearestOut(a) + max * OutputRate + owed
<1> DEFINE S == SourceRate
           O == OutputRate
           c == CeilDiv(owed * S, O)
           n == NearestOut(b)
           m == NearestOut(a)
           p == a * O
           q == b * O
           t == max * O
           Sn == S * n
           Sm == S * m
           St == S * t
           Sw == S * owed
<1>1. S \in Nat \ {0} /\ O \in Nat \ {0} /\ owed * S \in Nat
  BY DEF RatesSound
<1>2. c \in Nat /\ owed * S <= O * c
  BY <1>1, RoundedUp
<1>3. /\ n \in Nat /\ Sn \in Nat /\ q \in Nat /\ 2 * q < 2 * Sn + S
      /\ m \in Nat /\ Sm \in Nat /\ p \in Nat /\ 2 * Sm <= 2 * p + S
  BY Nearest
<1> HIDE DEF S, O, c, n, m
<1>4. b >= a + max * S + c
  <2>1. b >= a + max * S + c + more
    BY DEF S, O, c
  <2>2. max * S \in Nat
    BY <1>1
  <2> QED BY <1>2, <2>1, <2>2
<1>5. q >= p + St + Sw
  <2>1. max * S \in Nat /\ b * O >= (a + max * S + c) * O
    BY <1>1, <1>2, <1>4
  <2> DEFINE w == a + max * S + c
             u == w * O
             v == c * O
  <2>2. u = p + St + v
    <3>1. u = a * O + (max * S) * O + c * O
      BY <1>1, <1>2, <2>1
    <3>2. (max * S) * O = S * (max * O)
      BY <1>1, <1>2
    <3> QED BY <3>1, <3>2
  <2>3. v >= Sw
    <3>1. c * O = O * c /\ owed * S = S * owed
      BY <1>1, <1>2
    <3> QED BY <1>2, <3>1
  <2>4. p \in Nat /\ St \in Nat /\ v \in Nat /\ Sw \in Nat /\ q \in Nat
    BY <1>1, <1>2, <1>3
  <2>5. q >= u
    BY <2>1
  <2> HIDE DEF p, q, St, Sw, u, v
  <2> QED BY <2>2, <2>3, <2>4, <2>5
<1>6. S * (m + t + owed) = Sm + St + Sw /\ t \in Nat
  BY <1>1, <1>3
<1>7. St \in Nat /\ Sw \in Nat
  BY <1>1
<1> HIDE DEF p, q, t, Sn, Sm, St, Sw
<1>8. Sm + St + Sw < Sn + S
  BY <1>1, <1>3, <1>5, <1>7
<1>9. m + t + owed <= n
  BY <1>1, <1>3, <1>6, <1>8, Compare DEF Sn
<1> QED BY <1>3, <1>6, <1>9 DEF m, n, t, O

-----------------------------------------------------------------------------
(* The observation.                                                        *)

HoldFrames == Hold * OutputRate
TailFrames == MaxTail * OutputRate

\* A silence of so many frames, a place where none has held yet, and how long it is quiet.
Hushed(from, n) == \A j \in 0 .. n - 1 : (from + j) \notin setup.loud
Unheld(base, n) == \A s \in Nat : s + HoldFrames <= n => ~Hushed(base + s, HoldFrames)
QuietFor(base, n, q) ==
  /\ q \in Nat /\ q <= n
  /\ \A j \in 1 .. q : (base + n - j) \notin setup.loud
  /\ q < n => (base + n - q - 1) \in setup.loud

\* Where an observation cuts whose protected frames end at the base.
Verdict(base, out, capped) ==
  \/ /\ capped = FALSE
     /\ \E s \in Nat : /\ out = base + s /\ s + HoldFrames <= TailFrames
                       /\ Hushed(base + s, HoldFrames)
                       /\ \A r \in Nat : r < s => ~Hushed(base + r, HoldFrames)
  \/ capped = TRUE /\ out = base + TailFrames /\ Unheld(base, TailFrames)

ObservationType(o) ==
  /\ o = [active |-> o.active, protected |-> o.protected, generated |-> o.generated,
          below |-> o.below, stopped |-> o.stopped, capped |-> o.capped]
  /\ o.active \in BOOLEAN /\ o.stopped \in BOOLEAN /\ o.capped \in BOOLEAN
  /\ o.protected \in Nat /\ o.generated \in Nat /\ o.below \in Nat
CollectorType(c) ==
  /\ c = [obs |-> c.obs, out |-> c.out, truncated |-> c.truncated]
  /\ ObservationType(c.obs) /\ c.out \in Nat /\ c.truncated \in BOOLEAN

\* What an observation knows: where it is, and that it has not found anything yet.
Watching(base, o, out) ==
  /\ ~o.capped /\ out + o.protected = base + o.generated
  /\ o.protected > 0 => o.generated = 0
  /\ o.generated < TailFrames
  /\ QuietFor(base, o.generated, o.below) /\ o.below < HoldFrames
  /\ Unheld(base, o.generated)
Watches(base, c) ==
  IF c.obs.stopped
  THEN Verdict(base, c.out, c.obs.capped) /\ (c.obs.capped => c.obs.generated = TailFrames)
  ELSE Watching(base, c.obs, c.out)

\* The signal has one verdict.
LEMMA OneVerdict ==
  ASSUME RatesSound, NEW base \in Nat, NEW m, NEW c, NEW n, NEW d,
         Verdict(base, m, c), Verdict(base, n, d)
  PROVE  m = n /\ c = d
<1>1. HoldFrames \in Nat /\ TailFrames \in Nat
  BY RenderAssumption DEF RatesSound, HoldFrames, TailFrames
<1>2. CASE c = TRUE /\ d = TRUE
  BY <1>2 DEF Verdict
<1>3. CASE c = FALSE /\ d = FALSE
  <2>1. PICK s \in Nat : /\ m = base + s /\ Hushed(base + s, HoldFrames)
                         /\ \A r \in Nat : r < s => ~Hushed(base + r, HoldFrames)
    BY <1>3 DEF Verdict
  <2>2. PICK t \in Nat : /\ n = base + t /\ Hushed(base + t, HoldFrames)
                         /\ \A r \in Nat : r < t => ~Hushed(base + r, HoldFrames)
    BY <1>3 DEF Verdict
  <2>3. s = t
    BY <2>1, <2>2
  <2> QED BY <1>3, <2>1, <2>2, <2>3
<1>4. ~(c = TRUE /\ d = FALSE)
  BY DEF Verdict, Unheld
<1>5. ~(c = FALSE /\ d = TRUE)
  BY DEF Verdict, Unheld
<1>6. c \in BOOLEAN /\ d \in BOOLEAN
  BY DEF Verdict
<1> QED BY <1>2, <1>3, <1>4, <1>5, <1>6

\* A silence that is shorter than the hold holds nothing.
LEMMA ShortQuiet ==
  ASSUME RatesSound, NEW base \in Nat, NEW n \in Nat, NEW q, QuietFor(base, n, q), q < HoldFrames,
         NEW s \in Nat, s + HoldFrames = n
  PROVE  ~Hushed(base + s, HoldFrames)
<1>1. HoldFrames \in Nat
  BY RenderAssumption DEF RatesSound, HoldFrames
<1>2. q \in Nat /\ q < n /\ (base + n - q - 1) \in setup.loud
  BY <1>1 DEF QuietFor
<1> DEFINE j == HoldFrames - q - 1
<1>3. j \in 0 .. HoldFrames - 1 /\ base + s + j = base + n - q - 1
  BY <1>1, <1>2
<1> QED BY <1>2, <1>3 DEF Hushed

\* The last of some numbers.
LEMMA MaxIsLast ==
  ASSUME NEW k \in Nat, NEW P \in SUBSET (1 .. k), P # {}
  PROVE  MaxSet(P) \in P /\ \A y \in P : y <= MaxSet(P)
<1>1. \E m \in P : \A y \in P : y <= m
  BY LastPlace
<1> QED BY <1>1 DEF MaxSet

\* The least place of some in a list is one of them and the first.
LEMMA MinIsFirst ==
  ASSUME NEW k \in Nat, NEW P \in SUBSET (1 .. k), P # {}
  PROVE  MinSet(P) \in P /\ \A y \in P : MinSet(P) <= y
<1>1. P \in SUBSET Nat
  OBVIOUS
<1>2. \E m \in P : \A y \in P : m <= y
  BY <1>1, LeastOf
<1> QED BY <1>2 DEF MinSet

\* The detector counts the frames since the last loud one.
LEMMA QuietCounts ==
  ASSUME NEW o, NEW base \in Nat, NEW n \in Nat, QuietFor(base, n, o.below), NEW k \in Nat \ {0}
  PROVE  QuietFor(base, n + k, SilentFor(o, base + n, k))
<1> DEFINE loud == {j \in 1 .. k : base + n + j - 1 \in setup.loud}
           q == SilentFor(o, base + n, k)
           b == o.below
<1>1. /\ b \in Nat /\ b <= n
      /\ \A j \in 1 .. b : (base + n - j) \notin setup.loud
      /\ b < n => (base + n - b - 1) \in setup.loud
  BY DEF QuietFor
<1>2. q = IF loud = {} THEN b + k ELSE k - MaxSet(loud)
  BY DEF SilentFor
<1>3. CASE loud = {}
  <2>1. q = b + k
    BY <1>2, <1>3
  <2>2. ASSUME NEW j \in 1 .. (b + k) PROVE (base + (n + k) - j) \notin setup.loud
    <3>1. CASE j <= k
      <4>1. k - j + 1 \in 1 .. k /\ base + n + (k - j + 1) - 1 = base + (n + k) - j
        BY <3>1
      <4> QED BY <1>3, <4>1
    <3>2. CASE j > k
      <4>1. j - k \in 1 .. b /\ base + n - (j - k) = base + (n + k) - j
        BY <1>1, <3>2
      <4> QED BY <1>1, <4>1
    <3> QED BY <1>1, <3>1, <3>2
  <2>3. b + k < n + k => b < n /\ base + (n + k) - (b + k) - 1 = base + n - b - 1
    BY <1>1
  <2> HIDE DEF q, loud, b
  <2> QED BY <1>1, <2>1, <2>2, <2>3 DEF QuietFor, q, b
<1>4. CASE loud # {}
  <2> DEFINE m == MaxSet(loud)
  <2>1. m \in loud /\ \A y \in loud : y <= m
    BY <1>4, MaxIsLast
  <2>2. m \in 1 .. k /\ base + n + m - 1 \in setup.loud
    BY <2>1
  <2>3. ASSUME NEW j \in 1 .. (k - m) PROVE (base + (n + k) - j) \notin setup.loud
    <3>1. k - j + 1 \in 1 .. k /\ base + n + (k - j + 1) - 1 = base + (n + k) - j
          /\ k - j + 1 > m
      BY <2>2
    <3>2. (k - j + 1) \notin loud
      <4> HIDE DEF m, loud
      <4> QED BY <2>1, <2>2, <3>1
    <3> QED BY <3>1, <3>2
  <2>4. q = k - m
    BY <1>2, <1>4
  <2> HIDE DEF q, loud, m
  <2>5. base + (n + k) - (k - m) - 1 = base + n + m - 1
    BY <2>2
  <2> QED BY <2>2, <2>3, <2>4, <2>5 DEF QuietFor, q
<1> QED BY <1>3, <1>4

\* A place the detector has passed in the middle of a block holds nothing, unless it found it.
LEMMA NoneWithin ==
  ASSUME RatesSound, NEW o, NEW base \in Nat, NEW n \in Nat, QuietFor(base, n, o.below),
         Unheld(base, n), NEW a \in Nat, NEW s \in Nat, s + HoldFrames <= n + a,
         \A k \in 1 .. a : k <= s + HoldFrames - n => k \notin Silences(o, base + n, a)
  PROVE  ~Hushed(base + s, HoldFrames)
<1>1. HoldFrames \in Nat
  BY RenderAssumption DEF RatesSound, HoldFrames
<1>2. CASE s + HoldFrames <= n
  BY <1>2 DEF Unheld
<1>3. CASE s + HoldFrames > n
  <2> DEFINE k == s + HoldFrames - n
             q == SilentFor(o, base + n, k)
  <2>1. k \in 1 .. a /\ k \in Nat \ {0} /\ n + k = s + HoldFrames
    BY <1>1, <1>3
  <2>2. QuietFor(base, n + k, q)
    BY <2>1, QuietCounts
  <2> HIDE DEF k
  <2>3. k \notin Silences(o, base + n, a)
    BY <2>1 DEF k
  <2>4. ~(q >= HoldFrames)
    BY <2>1, <2>3 DEF Silences, HoldFrames
  <2>5. q < HoldFrames
    BY <1>1, <2>2, <2>4 DEF QuietFor
  <2>6. n + k \in Nat
    BY <2>1
  <2> HIDE DEF q
  <2> QED BY <2>1, <2>2, <2>5, <2>6, ShortQuiet
<1> QED BY <1>1, <1>2, <1>3

\* What observing n frames after c makes of it.
Observed(base, c, n, d) ==
  /\ ObservationType(d.obs) /\ d.out \in Nat /\ d.obs.active = c.obs.active
  /\ d.obs.stopped => Verdict(base, d.out, d.obs.capped)
                      /\ (d.obs.capped => d.obs.generated = TailFrames)
  /\ ~d.obs.stopped => Watching(base, d.obs, d.out) /\ d.out = c.out + n

\* Past the protected frames, an observation counts, finds, or is cut by the cap.
LEMMA ObserveSound ==
  ASSUME RatesSound, NEW c, CollectorType(c), NEW base \in Nat, Watching(base, c.obs, c.out),
         ~c.obs.stopped, NEW n \in Nat
  PROVE  Observed(base, c, n, ObserveFrames(c.obs, c.out, n))
<1> DEFINE o == c.obs
           passed == Lesser(n, o.protected)
           first == c.out + passed
           allowed == Lesser(n - passed, Greater(TailFrames - o.generated, 0))
           found == Silences(o, first, allowed)
           generated == o.generated + allowed
           below == IF allowed = 0 THEN o.below ELSE SilentFor(o, first, allowed)
           stopped == found # {} \/ generated >= TailFrames
           capped == found = {} /\ generated >= TailFrames
           least == MinSet(found)
           out == IF found = {} THEN first + allowed ELSE first + least - SilentFor(o, first, least)
           d == ObserveFrames(c.obs, c.out, n)
<1> SUFFICES Observed(base, c, n, d)
  OBVIOUS
<1>1. /\ HoldFrames \in Nat \ {0} /\ TailFrames \in Nat
      /\ ObservationType(o) /\ c.out \in Nat
      /\ o.protected \in Nat /\ o.generated \in Nat /\ o.below \in Nat
  <2>1. Hold \in Nat \ {0} /\ OutputRate \in Nat \ {0} /\ MaxTail \in Nat
    BY RenderAssumption DEF RatesSound
  <2>2. Hold * OutputRate \in Nat \ {0} /\ MaxTail * OutputRate \in Nat
    BY <2>1
  <2> QED BY <2>2 DEF HoldFrames, TailFrames, CollectorType, ObservationType
<1>2. /\ c.out + o.protected = base + o.generated
      /\ o.protected > 0 => o.generated = 0
      /\ o.generated < TailFrames /\ ~o.capped
      /\ QuietFor(base, o.generated, o.below) /\ o.below < HoldFrames /\ Unheld(base, o.generated)
  BY DEF Watching
<1>3. /\ passed \in Nat /\ passed <= n /\ passed <= o.protected
      /\ passed = n \/ passed = o.protected
  BY <1>1 DEF Lesser
<1>4. /\ allowed \in Nat /\ allowed <= n - passed /\ generated <= TailFrames
      /\ allowed = n - passed \/ generated = TailFrames
      /\ first \in Nat
  BY <1>1, <1>2, <1>3 DEF Lesser, Greater
<1>5. /\ d.obs = [o EXCEPT !.protected = @ - passed, !.generated = generated, !.below = below,
                           !.stopped = stopped, !.capped = capped]
      /\ d.out = out
  BY DEF ObserveFrames, TailFrames
<1> HIDE DEF d, out, least, capped, stopped, below, generated, found, allowed, first, passed
<1>6. d.obs = [active |-> o.active, protected |-> o.protected - passed, generated |-> generated,
               below |-> below, stopped |-> stopped, capped |-> capped]
  <2> DEFINE a == o.active
             p == o.protected
             g == o.generated
             b == o.below
             s == o.stopped
             x == o.capped
             r == o.protected - passed
             o1 == [o EXCEPT !.protected = r]
             o2 == [o1 EXCEPT !.generated = generated]
             o3 == [o2 EXCEPT !.below = below]
             o4 == [o3 EXCEPT !.stopped = stopped]
             o5 == [o4 EXCEPT !.capped = capped]
  <2>1. o = [active |-> a, protected |-> p, generated |-> g, below |-> b, stopped |-> s, capped |-> x]
    BY <1>1 DEF ObservationType
  <2>2. d.obs = o5
    BY <1>5
  <2> HIDE DEF o5, o4, o3, o2, o1, r, a, p, g, b, s, x, o
  <2>3. o1 = [active |-> a, protected |-> r, generated |-> g, below |-> b, stopped |-> s, capped |-> x]
    BY <2>1 DEF o1
  <2>4. o2 = [active |-> a, protected |-> r, generated |-> generated, below |-> b, stopped |-> s,
              capped |-> x]
    BY <2>3 DEF o2
  <2>5. o3 = [active |-> a, protected |-> r, generated |-> generated, below |-> below, stopped |-> s,
              capped |-> x]
    BY <2>4 DEF o3
  <2>6. o4 = [active |-> a, protected |-> r, generated |-> generated, below |-> below,
              stopped |-> stopped, capped |-> x]
    BY <2>5 DEF o4
  <2>7. o5 = [active |-> a, protected |-> r, generated |-> generated, below |-> below,
              stopped |-> stopped, capped |-> capped]
    BY <2>6 DEF o5
  <2> QED BY <2>2, <2>7 DEF a, r
<1>7. CASE allowed = 0
  <2>1. found = {} /\ below = o.below /\ generated = o.generated
    BY <1>1, <1>7 DEF found, Silences, below, generated
  <2>2. ~stopped /\ ~capped /\ out = first
    BY <1>1, <1>2, <1>4, <1>7, <2>1 DEF stopped, capped, out
  <2>3. passed = n
    <3>1. o.generated \in Nat /\ o.generated < TailFrames /\ TailFrames \in Nat
      BY <1>1, <1>2
    <3>2. n - passed = 0
      BY <1>4, <1>7, <2>1, <3>1
    <3> QED BY <1>3, <3>2
  <2>4. stopped \in BOOLEAN /\ capped \in BOOLEAN
    BY DEF stopped, capped
  <2>5. ObservationType(d.obs) /\ d.out \in Nat
    BY <1>1, <1>3, <1>4, <1>5, <1>6, <2>1, <2>2, <2>4 DEF ObservationType
  <2>6. Watching(base, d.obs, d.out)
    <3>1. d.out = c.out + passed /\ d.obs.protected = o.protected - passed
          /\ d.obs.generated = o.generated /\ d.obs.below = o.below /\ ~d.obs.capped
      BY <1>5, <1>6, <2>1, <2>2 DEF first
    <3> HIDE DEF o
    <3> QED BY <1>1, <1>2, <1>3, <3>1 DEF Watching
  <2>7. ~d.obs.stopped /\ d.out = c.out + n /\ d.obs.active = c.obs.active
    BY <1>5, <1>6, <2>2, <2>3 DEF first
  <2> QED BY <2>5, <2>6, <2>7 DEF Observed
<1>8. CASE allowed # 0
  <2>1. /\ passed = o.protected /\ first = base + o.generated
        /\ allowed \in Nat \ {0} /\ generated = o.generated + allowed
    BY <1>1, <1>2, <1>3, <1>4, <1>8 DEF first, generated
  <2>2. below = SilentFor(o, base + o.generated, allowed) /\ QuietFor(base, generated, below)
    BY <1>1, <1>2, <1>8, <2>1, QuietCounts DEF below
  <2>3. found \in SUBSET (1 .. allowed)
    BY DEF found, Silences
  <2>4. stopped \in BOOLEAN /\ capped \in BOOLEAN /\ below \in Nat /\ generated \in Nat
    BY <1>1, <2>1, <2>2 DEF stopped, capped, QuietFor
  <2>5. CASE found = {}
    <3>1. allowed \notin found /\ below \in Nat
      BY <2>4, <2>5
    <3>2. below < HoldFrames
      <4>1. ~(SilentFor(o, first, allowed) >= HoldFrames)
        BY <2>1, <3>1 DEF found, Silences, HoldFrames
      <4> QED BY <1>1, <2>1, <2>2, <3>1, <4>1
    <3>3. Unheld(base, generated)
      <4> SUFFICES ASSUME NEW s \in Nat, s + HoldFrames <= generated
                   PROVE  ~Hushed(base + s, HoldFrames)
        BY DEF Unheld
      <4>1. Silences(o, base + o.generated, allowed) = {}
        BY <2>1, <2>5 DEF found
      <4> QED BY <1>1, <1>2, <2>1, <4>1, NoneWithin
    <3>4. out = base + generated
      BY <1>1, <1>4, <2>1, <2>5 DEF out
    <3>5. ObservationType(d.obs) /\ d.out \in Nat
      BY <1>1, <1>3, <1>5, <1>6, <2>1, <2>4, <3>4 DEF ObservationType
    <3>6. CASE generated >= TailFrames
      <4>1. generated = TailFrames /\ stopped = TRUE /\ capped = TRUE
        BY <1>1, <1>4, <2>4, <2>5, <3>6 DEF stopped, capped
      <4>2. Verdict(base, out, TRUE)
        BY <3>3, <3>4, <4>1 DEF Verdict
      <4>3. /\ d.obs.stopped /\ d.out = out /\ d.obs.capped = TRUE
            /\ d.obs.generated = TailFrames /\ d.obs.active = c.obs.active
        BY <1>5, <1>6, <4>1
      <4> QED BY <3>5, <4>2, <4>3 DEF Observed
    <3>7. CASE ~(generated >= TailFrames)
      <4>1. generated < TailFrames /\ ~stopped /\ ~capped /\ allowed = n - passed
        BY <1>1, <1>4, <2>4, <2>5, <3>7 DEF stopped, capped
      <4>2. out = c.out + n
        BY <1>1, <1>2, <1>3, <2>1, <3>4, <4>1
      <4>3. Watching(base, d.obs, d.out)
        <5>1. /\ d.out = base + generated /\ d.obs.protected = 0 /\ ~d.obs.capped
              /\ d.obs.generated = generated /\ d.obs.below = below
          BY <1>1, <1>5, <1>6, <2>1, <3>4, <4>1
        <5>2. /\ d.out + d.obs.protected = base + d.obs.generated /\ ~(d.obs.protected > 0)
              /\ d.obs.generated < TailFrames /\ d.obs.below < HoldFrames
          BY <2>4, <3>2, <4>1, <5>1
        <5>3. QuietFor(base, d.obs.generated, d.obs.below) /\ Unheld(base, d.obs.generated)
          BY <2>2, <3>3, <5>1
        <5> QED BY <5>1, <5>2, <5>3 DEF Watching
      <4>4. ~d.obs.stopped /\ d.out = out /\ d.obs.active = c.obs.active
        BY <1>5, <1>6, <4>1
      <4> QED BY <3>5, <4>2, <4>3, <4>4 DEF Observed
    <3> QED BY <3>6, <3>7
  <2>6. CASE found # {}
    <3> DEFINE q == SilentFor(o, base + o.generated, least)
               s == o.generated + least - q
    <3>1. least \in found /\ \A y \in found : least <= y
      BY <1>4, <2>3, <2>6, MinIsFirst DEF least
    <3>2. least \in 1 .. allowed /\ least \in Nat \ {0}
      BY <1>4, <2>3, <3>1
    <3>3. QuietFor(base, o.generated + least, q)
      BY <1>1, <1>2, <3>2, QuietCounts
    <3>4. q >= HoldFrames
      BY <2>1, <3>1 DEF found, Silences, HoldFrames
    <3>5. q \in Nat /\ q <= o.generated + least
          /\ \A j \in 1 .. q : (base + (o.generated + least) - j) \notin setup.loud
      BY <3>3 DEF QuietFor
    <3>6. out = base + o.generated + least - q
      BY <2>1, <2>6 DEF out
    <3> HIDE DEF q
    <3>7. s \in Nat /\ out = base + s /\ s + HoldFrames <= TailFrames
      BY <1>1, <1>4, <2>1, <3>2, <3>4, <3>5, <3>6
    <3>8. Hushed(base + s, HoldFrames)
      <4> SUFFICES ASSUME NEW j \in 0 .. HoldFrames - 1 PROVE (base + s + j) \notin setup.loud
        BY DEF Hushed
      <4> DEFINE i == q - j
      <4>1. i \in 1 .. q /\ base + (o.generated + least) - i = base + s + j
        BY <1>1, <3>2, <3>4, <3>5
      <4> QED BY <3>5, <4>1
    <3>9. ASSUME NEW r \in Nat, r < s PROVE ~Hushed(base + r, HoldFrames)
      <4>1. r + HoldFrames - o.generated < least
        BY <1>1, <3>2, <3>4, <3>5, <3>9
      <4>2. r + HoldFrames <= o.generated + allowed
        BY <1>1, <3>2, <4>1, <1>4
      <4>3. \A k \in 1 .. allowed : k <= r + HoldFrames - o.generated =>
              k \notin Silences(o, base + o.generated, allowed)
        <5> SUFFICES ASSUME NEW k \in 1 .. allowed, k <= r + HoldFrames - o.generated, k \in found
                     PROVE  FALSE
          BY <2>1 DEF found
        <5>1. least <= k
          BY <3>1
        <5> QED BY <1>1, <3>2, <4>1, <5>1
      <4> QED BY <1>1, <1>2, <1>4, <4>2, <4>3, NoneWithin
    <3>10. stopped = TRUE /\ capped = FALSE
      BY <2>6 DEF stopped, capped
    <3>11. Verdict(base, out, FALSE)
      BY <3>7, <3>8, <3>9 DEF Verdict
    <3>12. ObservationType(d.obs) /\ d.out \in Nat
      <4>1. out \in Nat
        BY <3>7
      <4> QED BY <1>1, <1>3, <1>5, <1>6, <2>1, <2>4, <4>1 DEF ObservationType
    <3>13. /\ d.obs.stopped /\ d.out = out /\ d.obs.capped = FALSE /\ d.obs.active = c.obs.active
      BY <1>5, <1>6, <3>10
    <3> QED BY <3>11, <3>12, <3>13 DEF Observed
  <2> QED BY <2>5, <2>6
<1> QED BY <1>7, <1>8

\* What collecting n frames makes of a collector that watches from a base, if it is
\* active at all.
Collected(base, c, n, d) ==
  /\ CollectorType(d) /\ d.obs.active = c.obs.active /\ d.truncated = c.truncated
  /\ c.obs.stopped => d = c
  /\ ~c.obs.active => d.obs = c.obs /\ d.out = c.out + n
  /\ c.obs.active => Watches(base, d) /\ (~d.obs.stopped => d.out = c.out + n)

\* Collected frames are kept or observed.
LEMMA CollectSound ==
  ASSUME RatesSound, NEW c, CollectorType(c), NEW n \in Nat, NEW base \in Nat,
         c.obs.stopped => c.obs.active, c.obs.active => Watches(base, c)
  PROVE  Collected(base, c, n, Collect(c, n))
<1> DEFINE d == Collect(c, n)
           o == c.obs
           out == c.out
           t == c.truncated
<1>1. c = [obs |-> o, out |-> out, truncated |-> t]
  BY DEF CollectorType
<1>2. out \in Nat /\ t \in BOOLEAN /\ ObservationType(o) /\ o.active \in BOOLEAN
  BY DEF CollectorType, ObservationType
<1>3. CASE o.stopped
  <2>1. d = c
    BY <1>3 DEF Collect
  <2> HIDE DEF d
  <2>2. Collected(base, c, n, d)
    BY <1>3, <2>1 DEF Watches, Collected
  <2> QED BY <2>2 DEF d
<1>4. CASE ~o.stopped /\ ~o.active
  <2>1. d = [c EXCEPT !.out = out + n]
    BY <1>4 DEF Collect
  <2> HIDE DEF o, out, t, d
  <2>2. d = [obs |-> o, out |-> out + n, truncated |-> t]
    BY <1>1, <2>1
  <2>3. CollectorType(d)
    BY <1>2, <2>2 DEF CollectorType
  <2>4. ~c.obs.stopped /\ ~c.obs.active /\ d.obs = c.obs /\ d.out = c.out + n
        /\ d.truncated = c.truncated
    BY <1>4, <2>2 DEF o, out, t
  <2>5. Collected(base, c, n, d)
    BY <2>3, <2>4 DEF Collected
  <2> QED BY <2>5 DEF d
<1>5. CASE ~o.stopped /\ o.active
  <2> DEFINE v == ObserveFrames(o, out, n)
             w == v.obs
             x == v.out
             e == [c EXCEPT !.obs = w]
  <2>1. d = [c EXCEPT !.obs = w, !.out = x]
    BY <1>5 DEF Collect
  <2> HIDE DEF v, w, x, o, out, t, d
  <2>2. e = [obs |-> w, out |-> out, truncated |-> t]
    BY <1>1
  <2> HIDE DEF e
  <2>3. [e EXCEPT !.out = x] = [obs |-> w, out |-> x, truncated |-> t]
    BY <2>2
  <2>4. d = [obs |-> w, out |-> x, truncated |-> t]
    BY <2>1, <2>3 DEF e
  <2>5. Watching(base, c.obs, c.out) /\ ~c.obs.stopped /\ c.obs.active
    BY <1>5 DEF Watches, o
  <2>6. Observed(base, c, n, v)
    BY <2>5, ObserveSound DEF v, o, out
  <2>7. /\ d.obs = v.obs /\ d.out = v.out /\ d.truncated = c.truncated
        /\ d = [obs |-> d.obs, out |-> d.out, truncated |-> d.truncated]
    BY <2>4 DEF w, x, t
  <2>8. CollectorType(d)
    BY <1>2, <2>6, <2>7 DEF CollectorType, Observed, t
  <2>9. Watches(base, d) /\ (~d.obs.stopped => d.out = c.out + n) /\ d.obs.active = c.obs.active
    BY <2>6, <2>7 DEF Observed, Watches
  <2>10. Collected(base, c, n, d)
    BY <2>5, <2>7, <2>8, <2>9 DEF Collected
  <2> QED BY <2>10 DEF d
<1> QED BY <1>3, <1>4, <1>5

-----------------------------------------------------------------------------
(* The inductive invariant.                                                *)

\* Source frames before stage i is drained; where an observation of its tail begins
\* to count; and what the resampler holds back then.
Before(i) == Programme + Declared(i - 1)
Base(i) == (IF Resampled THEN Rendered(Before(i)) ELSE Before(i)) + ProtectedFrames(i)
HeldAt(i) == IF Resampled THEN NearestOut(Before(i)) - Rendered(Before(i)) ELSE 0

\* The stages before k have finite tails; i is the first that has none.
Finite(k) == \A j \in 1 .. k - 1 : ~Unknown(Stages[j])
First(i) == i \in 1 .. All /\ Unknown(Stages[i]) /\ Finite(i)

\* Frames taken from the source stages.
Taken == IF Resampled THEN boundary.seen ELSE collector.out
Enough(i) == First(i) /\ Taken >= Before(i) + SourceLimit(i)

TimingType(t) ==
  /\ t = [stages |-> t.stages, limiter |-> t.limiter]
  /\ t.stages \in Seq(SourceStage) /\ t.limiter \in Nat
DrainType ==
  /\ drain = [stage |-> drain.stage, generated |-> drain.generated, limit |-> drain.limit,
              left |-> drain.left, started |-> drain.started, terminal |-> drain.terminal,
              open |-> drain.open]
  /\ {drain.stage, drain.generated, drain.limit} \subseteq Nat
  /\ drain.left \in Nat \cup {Endless}
  /\ {drain.started, drain.terminal, drain.open} \subseteq BOOLEAN
RenderTypeInv ==
  /\ RatesSound /\ Programme \in Nat
  /\ TimingType(timing) /\ TimingType(actual) /\ Len(actual.stages) = Len(timing.stages)
  /\ phase \in {"idle", "feed", "drain", "boundary", "limiter"}
  /\ block \in Nat /\ (Rendering => block # 0) /\ fed \in Nat
  /\ DrainType
  /\ boundary = [seen |-> boundary.seen, generated |-> boundary.generated]
  /\ boundary.seen \in Nat /\ boundary.generated \in Nat
  /\ CollectorType(collector)
  /\ {failed, changed, ranOut} \subseteq BOOLEAN /\ held \in Nat

DirectInv ==
  /\ direct = [ended |-> direct.ended, driven |-> direct.driven, calls |-> direct.calls,
               fed |-> direct.fed, out |-> direct.out, answer |-> direct.answer]
  /\ direct.fed \in Nat /\ direct.out = (IF Resampled THEN NearestOut(direct.fed) ELSE direct.fed)
  /\ direct.answer # "exceeded" /\ (Resampled /\ ~direct.driven => direct.fed = 0)

\* Where a render is, and that no stage exceeds what it was given.
FlowInv ==
  /\ phase = "feed" => drain = NoDrain /\ ~collector.obs.active /\ ~ranOut /\ fed <= Programme
  /\ phase = "drain" =>
       /\ drain.stage \in 1 .. All + 1 /\ (drain.open => drain.stage <= All)
       /\ ~drain.open => drain.generated = 0 /\ ~drain.terminal /\ ~drain.started
       /\ drain.open => drain.limit = SourceLimit(drain.stage)
       /\ drain.terminal => drain.left = 0
       /\ drain.started => Unknown(Stages[drain.stage]) /\ collector.obs.active
       /\ drain.open /\ ~changed =>
            LET s == Stages[drain.stage]
            IN IF Unknown(s) THEN drain.left = Endless
               ELSE drain.left \in Nat /\ drain.generated + drain.left = s.latency + s.tail
  /\ phase = "boundary" =>
       Resampled /\ boundary.generated <= NearestOut(boundary.seen) - Rendered(boundary.seen)
  /\ phase = "limiter" => boundary.generated <= actual.limiter
  /\ ~changed => timing = actual /\ ~failed

\* An observation knows where it is.
Watched ==
  /\ Stopped \/ collector.obs.capped => collector.obs.active
  /\ collector.obs.active =>
       \E base \in Nat :
         /\ Watches(base, collector)
         /\ ~changed => \E i \in 1 .. All : First(i) /\ base = Base(i) /\ held = HeldAt(i)

\* The report says what has not been seen.
ReportedInv ==
  Rendering =>
    /\ collector.truncated => ranOut
    /\ collector.obs.active /\ ~Stopped /\ ~collector.truncated =>
         phase = "drain" /\ drain.open /\ drain.started
    /\ ~collector.obs.active /\ ~changed => held = 0 /\ ~collector.truncated
AnsweredInv ==
  Done /\ collector.obs.active =>
    IF collector.truncated THEN ranOut \/ collector.obs.generated = TailFrames
    ELSE Stopped /\ ~collector.obs.capped

\* What has been collected of what was taken.
OutInv ==
  phase \in {"feed", "drain", "boundary"} /\ ~Stopped /\ Resampled =>
    collector.out = Rendered(boundary.seen)
                    + (IF phase = "boundary" THEN boundary.generated ELSE 0)
Counting == ~changed /\ ~Stopped
FedInv == phase = "feed" /\ Counting => Taken = fed
DrainedInv ==
  phase = "drain" /\ Counting =>
    IF ~collector.obs.active
    THEN /\ Taken = Before(drain.stage) + drain.generated
         /\ Finite(IF drain.open THEN drain.stage + 1 ELSE drain.stage)
    ELSE \/ First(drain.stage) /\ drain.open /\ Taken = Before(drain.stage) + drain.generated
         \/ \E i \in 1 .. drain.stage - 1 : Enough(i)
ResampledInv ==
  phase = "boundary" /\ Counting =>
    IF ~collector.obs.active THEN Taken = Before(All + 1) /\ Finite(All + 1)
    ELSE \E i \in 1 .. All : Enough(i)
LimitedInv ==
  phase = "limiter" /\ Counting =>
    /\ ~collector.obs.active /\ Finite(All + 1)
    /\ collector.out = NearestOut(Before(All + 1)) + boundary.generated
DoneInv ==
  Done /\ Counting =>
    ~collector.obs.active /\ ~collector.truncated /\ collector.out = Owed

Closed(r) ==
  /\ r = [frames |-> r.frames, truncated |-> r.truncated, ranOut |-> r.ranOut]
  /\ r.ranOut \in BOOLEAN
  /\ \/ \E i \in 1 .. All : \E capped \in BOOLEAN :
          First(i) /\ Verdict(Base(i), r.frames, capped) /\ (~r.ranOut => r.truncated = capped)
     \/ Finite(All + 1) /\ r.frames = Owed /\ r.truncated = FALSE
ResultsInv ==
  /\ changed => DOMAIN results = {}
  /\ \A b \in DOMAIN results : Closed(results[b])

RenderInv ==
  /\ RenderTypeInv /\ DirectInv /\ FlowInv /\ ResultsInv
  /\ Watched /\ ReportedInv /\ AnsweredInv
  /\ OutInv /\ FedInv /\ DrainedInv /\ ResampledInv /\ LimitedInv /\ DoneInv

\* The setup of a chain stands still, and a render keeps the timings it took.
LEMMA SetupFixed ==
  ASSUME setup' = setup
  PROVE  /\ Programme' = Programme /\ (Resampled' <=> Resampled) /\ (RatesSound' <=> RatesSound)
         /\ TailFrames' = TailFrames
         /\ \A n : NearestOut(n)' = NearestOut(n)
         /\ \A n : CeilOut(n)' = CeilOut(n)
         /\ \A n : Rendered(n)' = Rendered(n)
         /\ \A base, out, capped : Verdict(base, out, capped)' <=> Verdict(base, out, capped)
         /\ \A base, c : Watches(base, c)' <=> Watches(base, c)
<1> USE DEF SourceRate, OutputRate
<1>1. /\ Programme' = Programme /\ (Resampled' <=> Resampled) /\ (RatesSound' <=> RatesSound)
      /\ TailFrames' = TailFrames
  BY DEF Programme, Resampled, RatesSound, TailFrames
<1>2. (\A n : NearestOut(n)' = NearestOut(n)) /\ \A n : CeilOut(n)' = CeilOut(n)
  BY DEF NearestOut, CeilOut
<1>3. \A n : Rendered(n)' = Rendered(n)
  BY DEF Rendered, NearestOut, Greater
<1>4. \A base, out, capped : Verdict(base, out, capped)' <=> Verdict(base, out, capped)
  BY DEF Verdict, Hushed, Unheld, HoldFrames, TailFrames
<1>5. \A base, c : Watches(base, c)' <=> Watches(base, c)
  BY DEF Watches, Watching, QuietFor, Verdict, Hushed, Unheld, HoldFrames, TailFrames
<1> QED BY <1>1, <1>2, <1>3, <1>4, <1>5

\* What is derived from the rates, the stages and the block stays when they do.
LEMMA TimingFixed ==
  ASSUME setup' = setup, timing' = timing
  PROVE  /\ Stages' = Stages /\ All' = All /\ Owed' = Owed
         /\ \A i : Before(i)' = Before(i)
         /\ \A i : Base(i)' = Base(i)
         /\ \A i : HeldAt(i)' = HeldAt(i)
         /\ \A i : First(i)' <=> First(i)
         /\ \A i : Finite(i)' <=> Finite(i)
         /\ block' = block => \A i : SourceLimit(i)' = SourceLimit(i)
         /\ \A r : Closed(r)' <=> Closed(r)
<1>1. Stages' = Stages /\ All' = All
  BY DEF Stages, All
<1>2. \A i : Declared(i)' = Declared(i)
  BY <1>1 DEF Declared, Latencies, Tails, AddUp, All
<1>3. \A i : Before(i)' = Before(i)
  BY <1>2, SetupFixed DEF Before
<1>4. \A i : ProtectedFrames(i)' = ProtectedFrames(i)
  BY <1>1, <1>2, SetupFixed DEF ProtectedFrames
<1>5. \A i : Base(i)' = Base(i)
  BY <1>3, <1>4, SetupFixed DEF Base
<1>6. \A i : HeldAt(i)' = HeldAt(i)
  BY <1>3, SetupFixed DEF HeldAt
<1>7. (\A i : Finite(i)' <=> Finite(i)) /\ \A i : First(i)' <=> First(i)
  BY <1>1 DEF Finite, First, Unknown
<1>8. block' = block => \A i : SourceLimit(i)' = SourceLimit(i)
  BY <1>1, <1>4 DEF SourceLimit, SourceRate, OutputRate, Unknown
<1>9. Owed' = Owed
  BY <1>1, <1>2, SetupFixed DEF Owed
<1>10. \A r : Closed(r)' <=> Closed(r)
  BY <1>1, <1>5, <1>7, <1>9, SetupFixed DEF Closed
<1> QED BY <1>1, <1>3, <1>5, <1>6, <1>7, <1>8, <1>9, <1>10

\* What the stages declare.
LEMMA DeclaredAre ==
  ASSUME RatesSound, TimingType(timing), block \in Nat
  PROVE  /\ All \in Nat /\ Declared(0) = 0
         /\ \A k \in 0 .. All : Declared(k) \in Nat /\ Declared(k) <= Declared(All)
         /\ \A k \in 1 .. All :
              /\ Stages[k] \in SourceStage
              /\ ~Unknown(Stages[k]) =>
                   /\ Stages[k].tail \in Nat
                   /\ Declared(k) = Declared(k - 1) + Stages[k].latency + Stages[k].tail
              /\ ProtectedFrames(k) \in Nat /\ SourceLimit(k) \in Nat
         /\ Latencies[All] \in Nat /\ Tails[All] \in Nat
<1> DEFINE n == Len(Stages)
           l == [j \in 1 .. n |-> Stages[j].latency]
           t == [j \in 1 .. n |-> Greater(Stages[j].tail, 0)]
<1>1. Stages \in Seq(SourceStage) /\ n \in Nat /\ \A j \in 1 .. n : Stages[j] \in SourceStage
  BY DEF TimingType, Stages
<1>2. \A j \in 1 .. n : /\ Stages[j].latency \in Nat /\ Stages[j].tail \in Nat \cup {Endless}
                        /\ l[j] = Stages[j].latency /\ t[j] = Greater(Stages[j].tail, 0)
  BY <1>1 DEF SourceStage
<1>3. \A j \in 1 .. n : /\ l[j] \in Nat /\ t[j] \in Nat
                        /\ ~Unknown(Stages[j]) => Stages[j].tail \in Nat /\ t[j] = Stages[j].tail
  BY <1>2 DEF Greater, Endless, Unknown
<1> HIDE DEF l, t
<1>4. /\ Latencies = AddUp(l, n) /\ Tails = AddUp(t, n) /\ All = n
      /\ \A k : Declared(k) = Latencies[k] + Tails[k]
  BY DEF Latencies, Tails, All, Declared, l, t
<1>5. /\ Latencies[0] = 0
      /\ \A k \in 1 .. n : Latencies[k] = Latencies[k - 1] + l[k]
      /\ \A k \in 0 .. n : Latencies[k] \in Nat
      /\ \A j, k \in 0 .. n : j <= k => Latencies[j] <= Latencies[k]
  BY <1>1, <1>3, <1>4, Adding
<1>6. /\ Tails[0] = 0
      /\ \A k \in 1 .. n : Tails[k] = Tails[k - 1] + t[k]
      /\ \A k \in 0 .. n : Tails[k] \in Nat
      /\ \A j, k \in 0 .. n : j <= k => Tails[j] <= Tails[k]
  BY <1>1, <1>3, <1>4, Adding
<1>7. All \in Nat /\ 0 \in 0 .. n /\ n \in 0 .. n /\ All = n
  BY <1>1, <1>4
<1> HIDE DEF n
<1>8. /\ Declared(0) = 0 /\ Latencies[All] \in Nat /\ Tails[All] \in Nat
      /\ \A k \in 0 .. n : Declared(k) \in Nat /\ Declared(k) <= Declared(n)
  BY <1>4, <1>5, <1>6, <1>7
<1>9. ASSUME NEW k \in 1 .. n
      PROVE  /\ ~Unknown(Stages[k]) =>
                  /\ Stages[k].tail \in Nat
                  /\ Declared(k) = Declared(k - 1) + Stages[k].latency + Stages[k].tail
             /\ ProtectedFrames(k) \in Nat
             /\ SourceLimit(k) \in Nat
  <2>1. k \in Nat /\ k - 1 \in 0 .. n /\ k \in 0 .. n /\ n \in 0 .. n
    BY <1>7
  <2>2. ASSUME ~Unknown(Stages[k])
        PROVE  /\ Stages[k].tail \in Nat
               /\ Declared(k) = Declared(k - 1) + Stages[k].latency + Stages[k].tail
    <3>1. /\ Stages[k].tail \in Nat /\ t[k] = Stages[k].tail /\ l[k] = Stages[k].latency
          /\ Stages[k].latency \in Nat
      BY <1>2, <1>3, <2>2
    <3>2. /\ Latencies[k] = Latencies[k - 1] + l[k] /\ Tails[k] = Tails[k - 1] + t[k]
          /\ Latencies[k - 1] \in Nat /\ Tails[k - 1] \in Nat
      BY <1>5, <1>6, <2>1
    <3>3. Declared(k) = Latencies[k] + Tails[k] /\ Declared(k - 1) = Latencies[k - 1] + Tails[k - 1]
      BY <1>4
    <3> QED BY <3>1, <3>2, <3>3
  <2>3. Declared(All) - Declared(k - 1) \in Nat
    BY <1>7, <1>8, <2>1
  <2>4. timing.limiter \in Nat
    BY DEF TimingType
  <2>5. ProtectedFrames(k) \in Nat
    <3> DEFINE d == Declared(All) - Declared(k - 1)
    <3>1. CeilOut(d) \in Nat
      <4> HIDE DEF d
      <4> QED BY <2>3, Ceiling DEF d
    <3> QED BY <2>4, <3>1 DEF ProtectedFrames
  <2>6. SourceLimit(k) \in Nat
    <3>1. CASE Unknown(Stages[k])
      <4> DEFINE p == ProtectedFrames(k) * SourceRate
                 m == MaxTail * SourceRate
      <4>1. p \in Nat /\ m \in Nat
        BY <2>5, RenderAssumption DEF RatesSound
      <4>2. SourceLimit(k) = m + CeilDiv(p, OutputRate) + block
        BY <3>1 DEF SourceLimit
      <4>3. CeilDiv(p, OutputRate) \in Nat
        <5> HIDE DEF p
        <5> QED BY <4>1, RoundedUp DEF RatesSound
      <4> HIDE DEF p, m
      <4> QED BY <4>1, <4>2, <4>3
    <3>2. CASE ~Unknown(Stages[k])
      BY <1>2, <2>2, <3>2 DEF SourceLimit, Greater
    <3> QED BY <3>1, <3>2
  <2> QED BY <2>2, <2>5, <2>6
<1> QED BY <1>1, <1>4, <1>7, <1>8, <1>9 DEF n

\* The programme and the latencies of the stages before the next one.
LEMMA BeforeNext ==
  ASSUME NEW k \in Nat
  PROVE  Before(k + 1) = Programme + Declared(k)
<1> DEFINE m == k + 1
<1>1. m - 1 = k
  OBVIOUS
<1> HIDE DEF m
<1>2. Before(m) = Programme + Declared(m - 1)
  BY DEF Before
<1>3. Before(m) = Programme + Declared(k)
  BY <1>1, <1>2
<1> QED BY <1>3 DEF m

\* What is rendered before the finish of a resampler grows with what it has seen, and
\* is no more than it will have rendered after it.
LEMMA RenderedIs ==
  ASSUME RatesSound, NEW a \in Nat, NEW b \in Nat, a <= b
  PROVE  /\ Rendered(a) \in Nat /\ Rendered(b) \in Nat /\ NearestOut(a) \in Nat
         /\ Rendered(a) <= Rendered(b) /\ Rendered(a) <= NearestOut(a)
         /\ NearestOut(a) <= NearestOut(b)
<1> DEFINE x == Greater(a - Lookahead, 0)
           y == Greater(b - Lookahead, 0)
<1>1. x \in Nat /\ y - x \in Nat /\ a - x \in Nat /\ x + (y - x) = y /\ x + (a - x) = a /\ y \in Nat
  BY RenderAssumption DEF Greater
<1>2. Rendered(a) = NearestOut(x) /\ Rendered(b) = NearestOut(y)
  BY DEF Rendered
<1> HIDE DEF x, y
<1>3. NearestOut(x) <= NearestOut(y)
  <2>1. NearestOut(x) <= NearestOut(x + (y - x))
    BY <1>1, Roundings
  <2> QED BY <1>1, <2>1
<1>4. NearestOut(x) <= NearestOut(a)
  <2>1. NearestOut(x) <= NearestOut(x + (a - x))
    BY <1>1, Roundings
  <2> QED BY <1>1, <2>1
<1>5. NearestOut(x) \in Nat /\ NearestOut(y) \in Nat /\ NearestOut(a) \in Nat
  BY <1>1, Nearest
<1>6. NearestOut(a) <= NearestOut(b)
  <2>1. b - a \in Nat /\ a + (b - a) = b
    OBVIOUS
  <2>2. NearestOut(a) <= NearestOut(a + (b - a))
    BY <2>1, Roundings
  <2> QED BY <2>1, <2>2
<1> QED BY <1>2, <1>3, <1>4, <1>5, <1>6

\* The frames a render makes of the frames fed are at most the rounded conversion.
LEMMA RenderedAre ==
  ASSUME RatesSound, NEW a \in Nat
  PROVE  Rendered(a) \in Nat /\ NearestOut(a) \in Nat /\ Rendered(a) <= NearestOut(a)
<1>1. a <= a
  OBVIOUS
<1> QED BY <1>1, RenderedIs

\* What collecting keeps of an observation.
Grows(d) ==
  /\ CollectorType(d)
  /\ d.obs.active = collector.obs.active /\ d.truncated = collector.truncated
  /\ collector.obs.stopped => d = collector
  /\ ~collector.obs.active => d.obs = collector.obs
  /\ \A base \in Nat : collector.obs.active /\ Watches(base, collector) => Watches(base, d)

\* Collecting keeps what an observation has seen, and counts what it lets through.
LEMMA Collecting ==
  ASSUME RenderTypeInv, Watched, NEW n \in Nat, NEW d, d = Collect(collector, n)
  PROVE  Grows(d) /\ (~d.obs.stopped => ~collector.obs.stopped /\ d.out = collector.out + n)
<1> DEFINE c == collector
           e == Collect(c, n)
<1>1. RatesSound /\ CollectorType(c) /\ (c.obs.stopped => c.obs.active)
  BY DEF RenderTypeInv, Watched, Stopped
<1>2. \A base \in Nat : (c.obs.active => Watches(base, c)) => Collected(base, c, n, e)
  BY <1>1, CollectSound
<1>3. e = d
  OBVIOUS
<1> HIDE DEF c, e
<1>4. \E base \in Nat : Collected(base, c, n, d)
  <2>1. CASE c.obs.active
    BY <1>2, <1>3, <2>1 DEF Watched, c
  <2>2. CASE ~c.obs.active
    BY <1>2, <1>3, <2>2
  <2> QED BY <2>1, <2>2
<1>5. /\ CollectorType(d) /\ d.obs.active = c.obs.active /\ d.truncated = c.truncated
      /\ c.obs.stopped => d = c
      /\ ~c.obs.active => d.obs = c.obs /\ d.out = c.out + n
      /\ c.obs.active /\ ~d.obs.stopped => d.out = c.out + n
  BY <1>4 DEF Collected
<1>6. \A base \in Nat : c.obs.active /\ Watches(base, c) => Watches(base, d)
  BY <1>2, <1>3 DEF Collected
<1> QED BY <1>1, <1>5, <1>6 DEF Grows, c

\* An observation that has grown is still the one that began.
LEMMA WatchKept ==
  ASSUME Watched, Grows(collector'), setup' = setup, timing' = timing, changed => changed', held' = held
  PROVE  Watched'
<1>1. /\ collector'.obs.active = collector.obs.active
      /\ collector.obs.stopped => collector' = collector
      /\ ~collector.obs.active => collector'.obs = collector.obs
  BY DEF Grows
<1>2. collector'.obs.stopped \/ collector'.obs.capped => collector'.obs.active
  <2>1. CASE collector.obs.active
    BY <1>1, <2>1
  <2>2. CASE ~collector.obs.active
    BY <1>1, <2>2 DEF Watched, Stopped
  <2> QED BY <2>1, <2>2
<1>3. ASSUME collector'.obs.active
      PROVE  \E base \in Nat :
               /\ Watches(base, collector)'
               /\ changed' \/ \E i \in 1 .. All' : First(i)' /\ base = Base(i)' /\ held' = HeldAt(i)'
  <2>1. PICK base \in Nat :
          /\ Watches(base, collector)
          /\ ~changed => \E i \in 1 .. All : First(i) /\ base = Base(i) /\ held = HeldAt(i)
    BY <1>1, <1>3 DEF Watched
  <2>2. Watches(base, collector')
    BY <1>1, <1>3, <2>1 DEF Grows
  <2>3. Watches(base, collector)'
    BY <2>2, SetupFixed
  <2>4. changed' \/ \E i \in 1 .. All' : First(i)' /\ base = Base(i)' /\ held' = HeldAt(i)'
    BY <2>1, TimingFixed
  <2> QED BY <2>3, <2>4
<1> QED BY <1>2, <1>3 DEF Watched, Stopped

\* Source frames into the rate boundary.
LEMMA Pushing ==
  ASSUME RenderTypeInv, Watched, OutInv, phase \in {"feed", "drain"}, setup' = setup,
         NEW n \in Nat, Push(n)
  PROVE  /\ Grows(collector')
         /\ boundary' = [seen |-> boundary'.seen, generated |-> boundary'.generated]
         /\ boundary'.seen \in Nat /\ boundary'.generated = boundary.generated
         /\ ~Stopped' => ~Stopped /\ Taken' = Taken + n
                         /\ (Resampled => collector'.out = Rendered(boundary'.seen))
<1> DEFINE seen == IF Stopped \/ ~Resampled THEN boundary.seen ELSE boundary.seen + n
           m == IF Resampled THEN Rendered(seen) - Rendered(boundary.seen) ELSE n
<1>1. boundary' = [boundary EXCEPT !.seen = seen] /\ collector' = Collect(collector, m)
  BY DEF Push
<1>2. /\ RatesSound /\ CollectorType(collector) /\ boundary.seen \in Nat
      /\ boundary = [seen |-> boundary.seen, generated |-> boundary.generated]
  BY DEF RenderTypeInv
<1>3. seen \in Nat /\ boundary.seen <= seen
  BY <1>2
<1>4. boundary'.seen = seen /\ boundary'.generated = boundary.generated
      /\ boundary' = [seen |-> boundary'.seen, generated |-> boundary'.generated]
  BY <1>1, <1>2
<1>5. m \in Nat /\ Rendered(seen) \in Nat /\ Rendered(boundary.seen) \in Nat
  <2>1. /\ Rendered(boundary.seen) \in Nat /\ Rendered(seen) \in Nat
        /\ Rendered(boundary.seen) <= Rendered(seen)
    <3> HIDE DEF seen
    <3> QED BY <1>2, <1>3, RenderedIs
  <2> HIDE DEF seen
  <2> QED BY <2>1
<1>6. /\ Grows(collector')
      /\ ~collector'.obs.stopped => ~collector.obs.stopped /\ collector'.out = collector.out + m
  <2> HIDE DEF m
  <2> QED BY <1>1, <1>5, Collecting
<1>7. ASSUME ~Stopped'
      PROVE  ~Stopped /\ Taken' = Taken + n /\ (Resampled => collector'.out = Rendered(boundary'.seen))
  <2>1. ~Stopped /\ collector'.out = collector.out + m
    BY <1>6, <1>7 DEF Stopped
  <2>2. CASE Resampled
    <3>1. seen = boundary.seen + n /\ m = Rendered(seen) - Rendered(boundary.seen)
      BY <2>1, <2>2
    <3>2. Taken' = seen /\ Taken = boundary.seen
      BY <1>4, <2>2, SetupFixed DEF Taken
    <3>3. collector.out = Rendered(boundary.seen)
      <4>1. collector.out = Rendered(boundary.seen) + 0
        BY <2>1, <2>2 DEF OutInv
      <4> QED BY <1>5, <4>1
    <3> HIDE DEF seen, m
    <3> QED BY <1>4, <1>5, <2>1, <3>1, <3>2, <3>3
  <2>3. CASE ~Resampled
    BY <2>1, <2>3, SetupFixed DEF Taken
  <2> QED BY <2>1, <2>2, <2>3
<1> QED BY <1>3, <1>4, <1>6, <1>7

\* There is one first stage without an end.
LEMMA OneFirst ==
  ASSUME TimingType(timing), NEW i, First(i)
  PROVE  /\ ~Finite(All + 1)
         /\ \A j : First(j) => i = j
<1>1. All \in Nat /\ i \in 1 .. All /\ Unknown(Stages[i]) /\ Finite(i)
  BY DEF First, All, TimingType, Stages
<1>2. \A j : First(j) => j \in 1 .. All /\ Unknown(Stages[j]) /\ Finite(j)
  BY DEF First
<1>3. ~Finite(All + 1)
  BY <1>1 DEF Finite
<1>4. ASSUME NEW j, First(j) PROVE i = j
  <2>1. j \in 1 .. All /\ Unknown(Stages[j]) /\ Finite(j)
    BY <1>2, <1>4
  <2>2. ~(i < j)
    BY <1>1, <2>1 DEF Finite
  <2>3. ~(j < i)
    BY <1>1, <2>1 DEF Finite
  <2> QED BY <1>1, <2>1, <2>2, <2>3
<1> QED BY <1>3, <1>4

\* An observation that goes on has not kept all that a budget allows a source stage.
LEMMA Overrun ==
  ASSUME RatesSound, Programme \in Nat, TimingType(timing), block \in Nat,
         NEW i \in 1 .. All, First(i), NEW c, CollectorType(c), ~c.obs.stopped,
         Watches(Base(i), c), NEW taken \in Nat, taken >= Before(i) + SourceLimit(i)
  PROVE  c.out < NearestOut(taken)
<1> DEFINE a == Before(i)
           p == ProtectedFrames(i)
           k == i - 1
           from == IF Resampled THEN Rendered(a) ELSE a
           n == NearestOut(taken)
           g == c.obs.generated
           x == c.obs.protected
<1>1. /\ All \in Nat /\ p \in Nat /\ Unknown(Stages[i])
      /\ \A j \in 0 .. All : Declared(j) \in Nat
  BY DeclaredAre DEF First
<1>2. k \in 0 .. All
  BY <1>1
<1>3. a \in Nat
  BY <1>1, <1>2 DEF Before
<1>4. SourceLimit(i) = MaxTail * SourceRate + CeilDiv(p * SourceRate, OutputRate) + block
  BY <1>1 DEF SourceLimit
<1> HIDE DEF a, p, k
<1>5. taken >= a + MaxTail * SourceRate + CeilDiv(p * SourceRate, OutputRate) + block
  <2> DEFINE y == MaxTail * SourceRate
             z == CeilDiv(p * SourceRate, OutputRate)
  <2>1. y \in Nat
    BY RenderAssumption DEF RatesSound
  <2>2. z \in Nat
    <3>1. p * SourceRate \in Nat
      BY <1>1 DEF RatesSound
    <3> QED BY <3>1, RoundedUp DEF RatesSound
  <2>3. SourceLimit(i) = y + z + block
    BY <1>4
  <2> HIDE DEF y, z
  <2>4. taken >= a + y + z + block
    BY <1>3, <2>1, <2>2, <2>3 DEF a
  <2> QED BY <2>4 DEF y, z
<1>6. n >= NearestOut(a) + TailFrames + p
  <2>1. n >= NearestOut(a) + MaxTail * OutputRate + p
    BY <1>1, <1>3, <1>5, EnoughFrames, RenderAssumption
  <2>2. NearestOut(a) \in Nat /\ n \in Nat
    BY <1>3, Nearest
  <2>3. TailFrames \in Nat
    BY RenderAssumption DEF TailFrames, RatesSound
  <2> HIDE DEF n
  <2> QED BY <1>1, <2>1, <2>2, <2>3 DEF TailFrames
<1>7. from \in Nat /\ NearestOut(a) \in Nat /\ from <= NearestOut(a)
  <2>1. Rendered(a) \in Nat /\ NearestOut(a) \in Nat /\ Rendered(a) <= NearestOut(a)
    BY <1>3, RenderedIs
  <2>2. ~Resampled => NearestOut(a) = a
    BY <1>3, SameRate
  <2> QED BY <1>3, <2>1, <2>2
<1>8. Base(i) = from + p
  BY DEF Base, a, p
<1> HIDE DEF from
<1>9. /\ c.out + x = (from + p) + g /\ (x > 0 => g = 0) /\ g < TailFrames
  BY <1>8 DEF Watches, Watching
<1>10. c.out \in Nat /\ x \in Nat /\ g \in Nat /\ TailFrames \in Nat
  BY RenderAssumption DEF CollectorType, ObservationType, TailFrames, RatesSound
<1>11. n \in Nat
  BY Nearest
<1> HIDE DEF g, x, n
<1> QED BY <1>1, <1>6, <1>7, <1>9, <1>10, <1>11 DEF n

-----------------------------------------------------------------------------
(* Steps.                                                                  *)

\* What the history of renders and the direct calls say stands while it is left alone.
LEMMA Untouched ==
  ASSUME setup' = setup
  PROVE  /\ DirectInv /\ direct' = direct => DirectInv'
         /\ ResultsInv /\ <<timing, changed, results>>' = <<timing, changed, results>> => ResultsInv'
<1>1. DirectInv /\ direct' = direct => DirectInv'
  BY SetupFixed DEF DirectInv
<1>2. ASSUME ResultsInv, <<timing, changed, results>>' = <<timing, changed, results>>
      PROVE  ResultsInv'
  <2>1. \A r : Closed(r)' <=> Closed(r)
    BY <1>2, TimingFixed
  <2> QED BY <1>2, <2>1 DEF ResultsInv
<1> QED BY <1>1, <1>2

\* The programme goes in.
LEMMA FeedKeeps == ASSUME RenderInv, Feed PROVE RenderInv'
<1> DEFINE n == Lesser(block, Programme - fed)
<1>1. /\ phase = "feed" /\ fed < Programme /\ fed' = fed + n /\ Push(n)
      /\ UNCHANGED <<setup, actual, timing, phase, block, drain, direct, outcomes>>
  BY DEF Feed
<1>2. n \in Nat /\ fed + n <= Programme /\ Programme \in Nat /\ fed \in Nat
  BY <1>1 DEF RenderInv, RenderTypeInv, Lesser
<1> HIDE DEF n
<1>3. /\ Grows(collector')
      /\ boundary' = [seen |-> boundary'.seen, generated |-> boundary'.generated]
      /\ boundary'.seen \in Nat /\ boundary'.generated = boundary.generated
      /\ ~Stopped' => ~Stopped /\ Taken' = Taken + n
                      /\ (Resampled => collector'.out = Rendered(boundary'.seen))
  BY <1>1, <1>2, Pushing DEF RenderInv
<1>4. UNCHANGED <<failed, changed, ranOut, held, results>>
  BY <1>1 DEF outcomes
<1>5. RenderTypeInv'
  <2>1. CollectorType(collector')
    BY <1>3 DEF Grows
  <2>2. /\ DrainType' /\ TimingType(timing)' /\ TimingType(actual)'
        /\ Len(actual.stages)' = Len(timing.stages)' /\ RatesSound' /\ Programme' \in Nat
    BY <1>1, SetupFixed DEF RenderInv, RenderTypeInv, DrainType, TimingType
  <2>3. /\ phase' \in {"idle", "feed", "drain", "boundary", "limiter"}
        /\ block' \in Nat /\ (Rendering' => block' # 0) /\ fed' \in Nat
        /\ {failed', changed', ranOut'} \subseteq BOOLEAN /\ held' \in Nat
    BY <1>1, <1>2, <1>4 DEF RenderInv, RenderTypeInv, Rendering
  <2>4. boundary'.generated \in Nat
    BY <1>3 DEF RenderInv, RenderTypeInv
  <2> QED BY <1>3, <2>1, <2>2, <2>3, <2>4 DEF RenderTypeInv, CollectorType, ObservationType
<1>6. FlowInv'
  BY <1>1, <1>2, <1>3, <1>4, SetupFixed DEF RenderInv, FlowInv, Grows
<1>7. Watched'
  BY <1>1, <1>3, <1>4, WatchKept DEF RenderInv
<1>8. ReportedInv'
  BY <1>1, <1>3, <1>4 DEF RenderInv, FlowInv, ReportedInv, Rendering, Grows
<1>9. OutInv'
  <2>1. ASSUME ~Stopped', Resampled' PROVE collector'.out = Rendered(boundary.seen)' + 0
    <3>1. Rendered(boundary'.seen) \in Nat
      BY <1>3, RenderedIs DEF RenderInv, RenderTypeInv
    <3> QED BY <1>1, <1>3, <2>1, <3>1, SetupFixed
  <2> QED BY <1>1, <2>1 DEF OutInv
<1>10. FedInv'
  BY <1>1, <1>3, <1>4 DEF RenderInv, FedInv, Counting
<1>11. AnsweredInv' /\ DrainedInv' /\ ResampledInv' /\ LimitedInv' /\ DoneInv'
  BY <1>1 DEF AnsweredInv, DrainedInv, ResampledInv, LimitedInv, DoneInv, Done, Rendering
<1>12. DirectInv' /\ ResultsInv'
  BY <1>1, <1>4, Untouched DEF RenderInv
<1> QED BY <1>5, <1>6, <1>7, <1>8, <1>9, <1>10, <1>11, <1>12 DEF RenderInv

\* A finish call renders what is left, or what fits.
LEMMA FinishSourceKeeps == ASSUME RenderInv, FinishSource PROVE RenderInv'
<1> DEFINE capacity == Lesser(block, drain.limit - drain.generated)
           n == IF drain.left = Endless THEN capacity ELSE Lesser(capacity, drain.left)
           left == IF drain.left = Endless THEN Endless ELSE drain.left - n
           terminal == left = 0
           generated == drain.generated + n
<1>1. /\ phase = "drain" /\ drain.open /\ ~drain.terminal /\ drain.generated < drain.limit
      /\ drain.stage \in 1 .. Len(Stages) /\ Push(n)
      /\ drain' = [drain EXCEPT !.generated = generated, !.left = left, !.terminal = terminal]
      /\ UNCHANGED <<setup, actual, timing, phase, block, fed, direct, outcomes>>
  BY DEF FinishSource, DrainingStage
<1>2. n \in Nat /\ left \in Nat \cup {Endless} /\ (left = Endless <=> drain.left = Endless)
      /\ (drain.left # Endless => drain.left \in Nat /\ n + left = drain.left)
      /\ generated \in Nat /\ terminal \in BOOLEAN
  <2> DEFINE g == drain.generated
             l == drain.limit
             e == drain.left
  <2>1. g \in Nat /\ l \in Nat /\ g < l /\ e \in Nat \cup {Endless} /\ block \in Nat
    BY <1>1 DEF RenderInv, RenderTypeInv, DrainType
  <2> HIDE DEF g, l, e
  <2>2. capacity \in Nat
    BY <2>1 DEF Lesser, g, l
  <2> HIDE DEF capacity
  <2>3. n \in Nat /\ (e # Endless => e \in Nat /\ n <= e)
    BY <2>1, <2>2 DEF Lesser, e
  <2> HIDE DEF n
  <2>4. left = IF e = Endless THEN Endless ELSE e - n
    BY DEF e
  <2>5. left \in Nat \cup {Endless} /\ (left = Endless <=> e = Endless)
        /\ (e # Endless => e \in Nat /\ n + left = e)
    BY <2>1, <2>3, <2>4 DEF Endless
  <2>6. generated = g + n
    BY DEF g
  <2> QED BY <2>1, <2>3, <2>5, <2>6 DEF e
<1> HIDE DEF n, left
<1>3. /\ Grows(collector')
      /\ boundary' = [seen |-> boundary'.seen, generated |-> boundary'.generated]
      /\ boundary'.seen \in Nat /\ boundary'.generated = boundary.generated
      /\ ~Stopped' => ~Stopped /\ Taken' = Taken + n
                      /\ (Resampled => collector'.out = Rendered(boundary'.seen))
  BY <1>1, <1>2, Pushing DEF RenderInv
<1>4. UNCHANGED <<failed, changed, ranOut, held, results>>
  BY <1>1 DEF outcomes
<1>5. drain' = [stage |-> drain.stage, generated |-> generated, limit |-> drain.limit,
                left |-> left, started |-> drain.started, terminal |-> terminal, open |-> drain.open]
  <2> HIDE DEF generated, terminal
  <2> DEFINE d1 == [drain EXCEPT !.generated = generated]
             d2 == [d1 EXCEPT !.left = left]
             s == drain.stage
             l == drain.limit
             e == drain.left
             t == drain.started
             m == drain.terminal
             o == drain.open
  <2>1. drain = [stage |-> s, generated |-> drain.generated, limit |-> l,
                 left |-> e, started |-> t, terminal |-> m, open |-> o]
    BY DEF RenderInv, RenderTypeInv, DrainType
  <2>2. drain' = [d2 EXCEPT !.terminal = terminal]
    BY <1>1
  <2> HIDE DEF s, l, e, t, m, o
  <2>3. d1 = [stage |-> s, generated |-> generated, limit |-> l,
              left |-> e, started |-> t, terminal |-> m, open |-> o]
    BY <2>1
  <2> HIDE DEF d1
  <2>4. d2 = [stage |-> s, generated |-> generated, limit |-> l,
              left |-> left, started |-> t, terminal |-> m, open |-> o]
    BY <2>3
  <2> HIDE DEF d2
  <2>5. drain' = [stage |-> s, generated |-> generated, limit |-> l,
                  left |-> left, started |-> t, terminal |-> terminal, open |-> o]
    BY <2>2, <2>4
  <2> QED BY <2>5 DEF s, l, t, o
<1>6. /\ drain'.stage = drain.stage /\ drain'.generated = generated /\ drain'.limit = drain.limit
      /\ drain'.left = left /\ drain'.started = drain.started /\ drain'.terminal = terminal
      /\ drain'.open = drain.open
  BY <1>5
<1>7. DrainType'
  <2>1. drain.stage \in Nat /\ drain.limit \in Nat /\ drain.started \in BOOLEAN /\ drain.open \in BOOLEAN
    BY DEF RenderInv, RenderTypeInv, DrainType
  <2> HIDE DEF generated, terminal
  <2> QED BY <1>2, <1>5, <1>6, <2>1 DEF DrainType
<1>8. RenderTypeInv'
  BY <1>1, <1>3, <1>4, <1>7, SetupFixed
     DEF RenderInv, RenderTypeInv, TimingType, Grows, CollectorType, ObservationType, Rendering
<1>9. FlowInv'
  <2>1. /\ drain.stage \in 1 .. All + 1 /\ drain.stage <= All /\ drain.limit = SourceLimit(drain.stage)
        /\ drain.started => Unknown(Stages[drain.stage]) /\ collector.obs.active
        /\ ~changed => LET s == Stages[drain.stage]
                       IN IF Unknown(s) THEN drain.left = Endless
                          ELSE drain.left \in Nat /\ drain.generated + drain.left = s.latency + s.tail
        /\ ~changed => timing = actual /\ ~failed
    <3>1. FlowInv
      BY DEF RenderInv
    <3> USE <1>1, <3>1 DEF FlowInv
    <3>2. drain.stage \in 1 .. All + 1 /\ drain.stage <= All /\ drain.limit = SourceLimit(drain.stage)
      OBVIOUS
    <3>3. drain.started => Unknown(Stages[drain.stage]) /\ collector.obs.active
      OBVIOUS
    <3>4. ~changed => timing = actual /\ ~failed
      OBVIOUS
    <3>5. ~changed => LET s == Stages[drain.stage]
                      IN IF Unknown(s) THEN drain.left = Endless
                         ELSE drain.left \in Nat /\ drain.generated + drain.left = s.latency + s.tail
      OBVIOUS
    <3> QED BY ONLY <3>2, <3>3, <3>4, <3>5
  <2>2. Stages' = Stages /\ All' = All /\ SourceLimit(drain.stage)' = SourceLimit(drain.stage)
    BY <1>1, <1>6, TimingFixed
  <2>3. drain'.limit = SourceLimit(drain.stage)'
    BY <1>1, <1>6, <2>1, TimingFixed
  <2>4. ~changed => LET s == Stages[drain.stage]
                    IN IF Unknown(s) THEN left = Endless
                       ELSE left \in Nat /\ generated + left = s.latency + s.tail
    <3> DEFINE s == Stages[drain.stage]
               owes == s.latency + s.tail
    <3>1. CASE Unknown(s)
      BY <1>2, <2>1, <3>1
    <3>2. CASE ~Unknown(s)
      <4>1. ASSUME ~changed PROVE left \in Nat /\ generated + left = owes
        <5>1. drain.left \in Nat /\ drain.generated + drain.left = owes /\ drain.left # Endless
          BY <2>1, <3>2, <4>1 DEF Endless
        <5>2. n + left = drain.left /\ left # Endless /\ n \in Nat /\ drain.generated \in Nat
          BY <1>2, <5>1 DEF RenderInv, RenderTypeInv, DrainType
        <5> HIDE DEF owes
        <5> QED BY <1>2, <5>1, <5>2
      <4> QED BY <3>2, <4>1
    <3> QED BY <3>1, <3>2
  <2>5. Unknown(Stages[drain.stage])' <=> Unknown(Stages[drain.stage])
    BY <1>6, <2>2 DEF Unknown
  <2> HIDE DEF generated
  <2> QED BY <1>1, <1>3, <1>4, <1>6, <2>1, <2>2, <2>3, <2>4, <2>5 DEF FlowInv, Grows, Unknown
<1>10. Watched'
  BY <1>1, <1>3, <1>4, WatchKept DEF RenderInv
<1>11. ReportedInv'
  BY <1>1, <1>3, <1>4, <1>6 DEF RenderInv, ReportedInv, Rendering, Grows, Stopped
<1>12. OutInv'
  <2>1. ASSUME ~Stopped', Resampled' PROVE collector'.out = Rendered(boundary.seen)' + 0
    <3>1. Rendered(boundary'.seen) \in Nat
      BY <1>3, RenderedIs DEF RenderInv, RenderTypeInv
    <3> QED BY <1>1, <1>3, <2>1, <3>1, SetupFixed
  <2> QED BY <1>1, <2>1 DEF OutInv
<1>13. DrainedInv'
  <2> SUFFICES ASSUME Counting'
               PROVE  IF ~collector'.obs.active
                      THEN /\ Taken' = Before(drain.stage)' + drain'.generated
                           /\ Finite(drain.stage + 1)'
                      ELSE \/ First(drain.stage)' /\ Taken' = Before(drain.stage)' + drain'.generated
                           \/ \E i \in 1 .. drain'.stage - 1 : Enough(i)'
    BY <1>1, <1>6 DEF DrainedInv
  <2>1. Counting /\ Taken' = Taken + n
    BY <1>3, <1>4 DEF Counting
  <2>2. collector'.obs.active = collector.obs.active
    BY <1>3 DEF Grows
  <2>3. /\ Before(drain.stage)' = Before(drain.stage)
        /\ Finite(drain.stage + 1)' <=> Finite(drain.stage + 1)
        /\ First(drain.stage)' <=> First(drain.stage)
    BY <1>1, <1>6, TimingFixed
  <2>4. Taken \in Int /\ Before(drain.stage) \in Int /\ drain.generated \in Nat
    <3>1. Taken \in Nat
      BY DEF RenderInv, RenderTypeInv, CollectorType, Taken
    <3>2. Before(drain.stage) \in Nat
      <4>1. drain.stage - 1 \in 0 .. All /\ All \in Nat
        BY <1>1 DEF RenderInv, RenderTypeInv, TimingType, All, Stages
      <4>2. Declared(drain.stage - 1) \in Nat /\ Programme \in Nat
        BY <4>1, DeclaredAre DEF RenderInv, RenderTypeInv
      <4> QED BY <4>2 DEF Before
    <3> QED BY <3>1, <3>2 DEF RenderInv, RenderTypeInv, DrainType
  <2>5. CASE ~collector.obs.active
    BY <1>1, <1>2, <1>6, <2>1, <2>2, <2>3, <2>4, <2>5 DEF RenderInv, DrainedInv
  <2>6. CASE First(drain.stage) /\ Taken = Before(drain.stage) + drain.generated /\ collector.obs.active
    BY <1>2, <1>6, <2>1, <2>2, <2>3, <2>4, <2>6
  <2>7. CASE collector.obs.active /\ \E i \in 1 .. drain.stage - 1 : Enough(i)
    <3>1. PICK i \in 1 .. drain.stage - 1 : Enough(i)
      BY <2>7
    <3>2. Enough(i)'
      <4>1. First(i)' /\ Before(i)' = Before(i) /\ SourceLimit(i)' = SourceLimit(i)
        BY <1>1, <3>1, TimingFixed DEF Enough
      <4>2. Before(i) + SourceLimit(i) \in Nat
        <5>1. i \in 1 .. All /\ i - 1 \in 0 .. All
          BY <1>1 DEF RenderInv, RenderTypeInv, TimingType, All, Stages
        <5>2. Declared(i - 1) \in Nat /\ Programme \in Nat /\ SourceLimit(i) \in Nat
          BY <5>1, DeclaredAre DEF RenderInv, RenderTypeInv
        <5> QED BY <5>2 DEF Before
      <4>3. Taken' >= Before(i) + SourceLimit(i)
        BY <1>2, <2>1, <2>4, <3>1, <4>2 DEF Enough
      <4> QED BY <4>1, <4>3 DEF Enough
    <3> QED BY <1>6, <2>2, <2>7, <3>1, <3>2
  <2> QED BY <1>1, <2>1, <2>5, <2>6, <2>7 DEF RenderInv, DrainedInv
<1>14. AnsweredInv' /\ FedInv' /\ ResampledInv' /\ LimitedInv' /\ DoneInv'
  BY <1>1 DEF AnsweredInv, FedInv, ResampledInv, LimitedInv, DoneInv, Done, Rendering
<1>15. DirectInv' /\ ResultsInv'
  BY <1>1, <1>4, Untouched DEF RenderInv
<1> QED BY <1>8, <1>9, <1>10, <1>11, <1>12, <1>13, <1>14, <1>15 DEF RenderInv

\* An observation that nothing is fed to is still the one that began.
LEMMA WatchStands ==
  ASSUME Watched, collector'.obs = collector.obs, collector'.out = collector.out,
         setup' = setup, timing' = timing, changed => changed', held' = held
  PROVE  Watched'
<1>1. collector'.obs.stopped \/ collector'.obs.capped => collector'.obs.active
  BY DEF Watched, Stopped
<1>2. ASSUME collector'.obs.active
      PROVE  \E base \in Nat :
               /\ Watches(base, collector)'
               /\ changed' \/ \E i \in 1 .. All' : First(i)' /\ base = Base(i)' /\ held' = HeldAt(i)'
  <2>1. PICK base \in Nat :
          /\ Watches(base, collector)
          /\ ~changed => \E i \in 1 .. All : First(i) /\ base = Base(i) /\ held = HeldAt(i)
    BY <1>2 DEF Watched
  <2>2. Watches(base, collector')
    BY <2>1 DEF Watches
  <2>3. Watches(base, collector)'
    BY <2>2, SetupFixed
  <2>4. changed' \/ \E i \in 1 .. All' : First(i)' /\ base = Base(i)' /\ held' = HeldAt(i)'
    BY <2>1, TimingFixed
  <2> QED BY <2>3, <2>4
<1> QED BY <1>1, <1>2 DEF Watched, Stopped

\* What a budget has been used up stays used up.
LEMMA EnoughStands ==
  ASSUME setup' = setup, timing' = timing, block' = block, Taken' = Taken
  PROVE  \A i : Enough(i)' <=> Enough(i)
BY TimingFixed DEF Enough

\* A render begins with nothing.
LEMMA StartRenderKeeps ==
  ASSUME RenderInv, NEW n \in Blocks, StartRender(n) PROVE RenderInv'
<1>1. /\ phase = "idle" /\ phase' = "feed" /\ block' = n /\ fed' = 0 /\ timing' = actual
      /\ drain' = NoDrain /\ direct' = NotDriven /\ boundary' = NewBoundary
      /\ collector' = NewCollector
      /\ failed' = FALSE /\ changed' = FALSE /\ ranOut' = FALSE /\ held' = 0
      /\ setup' = setup /\ actual' = actual /\ results' = results
  BY DEF StartRender, ResetForRender
<1>2. n \in Nat /\ n # 0
  BY RenderAssumption
<1>3. /\ drain'.stage = 0 /\ drain'.generated = 0 /\ drain'.limit = 0 /\ drain'.left = 0
      /\ drain'.started = FALSE /\ drain'.terminal = FALSE /\ drain'.open = FALSE
      /\ drain' = [stage |-> 0, generated |-> 0, limit |-> 0, left |-> 0,
                   started |-> FALSE, terminal |-> FALSE, open |-> FALSE]
  BY <1>1 DEF NoDrain
<1>4. boundary' = [seen |-> 0, generated |-> 0] /\ boundary'.seen = 0 /\ boundary'.generated = 0
  BY <1>1 DEF NewBoundary
<1>5. /\ collector' = [obs |-> collector'.obs, out |-> 0, truncated |-> FALSE]
      /\ collector'.out = 0 /\ collector'.truncated = FALSE
      /\ collector'.obs = [active |-> FALSE, protected |-> 0, generated |-> 0, below |-> 0,
                           stopped |-> FALSE, capped |-> FALSE]
      /\ collector'.obs.active = FALSE /\ collector'.obs.stopped = FALSE
      /\ collector'.obs.capped = FALSE /\ collector'.obs.protected = 0
      /\ collector'.obs.generated = 0 /\ collector'.obs.below = 0
  BY <1>1 DEF NewCollector, NoObservation
<1>6. RatesSound /\ NearestOut(0) = 0 /\ 0 \in Nat
  BY Roundings DEF RenderInv, RenderTypeInv
<1>7. CollectorType(collector)'
  <2>1. ObservationType(collector'.obs)
    BY <1>5, <1>6 DEF ObservationType
  <2>2. collector'.out \in Nat /\ collector'.truncated \in BOOLEAN
        /\ collector' = [obs |-> collector'.obs, out |-> collector'.out, truncated |-> collector'.truncated]
    BY <1>5, <1>6
  <2> QED BY <2>1, <2>2 DEF CollectorType, ObservationType
<1>8. RenderTypeInv'
  <2>1. DrainType'
    BY <1>3 DEF DrainType
  <2>2. /\ TimingType(timing)' /\ TimingType(actual)' /\ Len(actual.stages)' = Len(timing.stages)'
        /\ RatesSound' /\ Programme' \in Nat
    BY <1>1, SetupFixed DEF RenderInv, RenderTypeInv, TimingType
  <2>3. /\ boundary' = [seen |-> boundary'.seen, generated |-> boundary'.generated]
        /\ boundary'.seen \in Nat /\ boundary'.generated \in Nat
    BY <1>4, <1>6
  <2>4. /\ phase' \in {"idle", "feed", "drain", "boundary", "limiter"}
        /\ block' \in Nat /\ (Rendering' => block' # 0) /\ fed' \in Nat
        /\ {failed', changed', ranOut'} \subseteq BOOLEAN /\ held' \in Nat
    BY <1>1, <1>2, <1>6
  <2> QED BY <1>7, <2>1, <2>2, <2>3, <2>4 DEF RenderTypeInv
<1>9. DirectInv'
  <2>1. (Resampled' <=> Resampled) /\ NearestOut(0)' = 0
    BY <1>1, <1>6, SetupFixed
  <2>2. /\ direct'.fed = 0 /\ direct'.out = 0 /\ direct'.answer = "none" /\ direct'.driven = FALSE
        /\ direct' = [ended |-> direct'.ended, driven |-> direct'.driven, calls |-> direct'.calls,
                      fed |-> direct'.fed, out |-> direct'.out, answer |-> direct'.answer]
    BY <1>1 DEF NotDriven
  <2>3. NearestOut(direct.fed)' = 0
    BY <1>1, <1>6, <2>2, SetupFixed
  <2> QED BY <2>1, <2>2, <2>3 DEF DirectInv
<1>10. FlowInv'
  BY <1>1, <1>5, SetupFixed DEF FlowInv, RenderInv, RenderTypeInv
<1>11. Watched'
  BY <1>5 DEF Watched, Stopped
<1>12. ReportedInv'
  BY <1>1, <1>5 DEF ReportedInv
<1>13. OutInv'
  <2>1. Rendered(0) = 0
    <3>1. Greater(0 - Lookahead, 0) = 0
      BY RenderAssumption DEF Greater
    <3> QED BY <1>6, <3>1 DEF Rendered
  <2>2. Rendered(boundary.seen)' = 0
    BY <1>1, <1>4, <2>1, SetupFixed
  <2> QED BY <1>1, <1>5, <2>2 DEF OutInv
<1>14. FedInv'
  BY <1>1, <1>4, <1>5 DEF FedInv, Taken
<1>15. AnsweredInv' /\ DrainedInv' /\ ResampledInv' /\ LimitedInv' /\ DoneInv'
  BY <1>1 DEF AnsweredInv, DrainedInv, ResampledInv, LimitedInv, DoneInv, Done, Rendering
<1>16. ResultsInv'
  <2>1. CASE changed
    BY <1>1, <2>1 DEF RenderInv, ResultsInv
  <2>2. CASE ~changed
    <3>1. timing' = timing
      BY <1>1, <2>2 DEF RenderInv, FlowInv
    <3>2. \A r : Closed(r)' <=> Closed(r)
      BY <1>1, <3>1, TimingFixed
    <3> QED BY <1>1, <3>2 DEF RenderInv, ResultsInv
  <2> QED BY <2>1, <2>2
<1> QED BY <1>8, <1>9, <1>10, <1>11, <1>12, <1>13, <1>14, <1>15, <1>16 DEF RenderInv

\* The whole programme has been taken when the drain begins.
LEMMA BeginDrainKeeps == ASSUME RenderInv, BeginDrain PROVE RenderInv'
<1>1. /\ phase = "feed" /\ fed = Programme /\ phase' = "drain"
      /\ drain' = [NoDrain EXCEPT !.stage = 1] /\ direct' = [direct EXCEPT !.ended = TRUE]
      /\ UNCHANGED <<setup, actual, timing, block, fed, boundary, collector, outcomes>>
  BY DEF BeginDrain
<1>2. UNCHANGED <<failed, changed, ranOut, held, results>>
  BY <1>1 DEF outcomes
<1>3. /\ drain'.stage = 1 /\ drain'.generated = 0 /\ drain'.limit = 0 /\ drain'.left = 0
      /\ drain'.started = FALSE /\ drain'.terminal = FALSE /\ drain'.open = FALSE
      /\ drain' = [stage |-> 1, generated |-> 0, limit |-> 0, left |-> 0,
                   started |-> FALSE, terminal |-> FALSE, open |-> FALSE]
  BY <1>1 DEF NoDrain
<1>4. /\ RatesSound /\ Programme \in Nat /\ TimingType(timing) /\ block \in Nat /\ All \in Nat
      /\ boundary.seen \in Nat /\ collector.out \in Nat /\ ~collector.obs.active /\ ~ranOut
  BY <1>1 DEF RenderInv, RenderTypeInv, TimingType, All, Stages, FlowInv, CollectorType
<1>5. RenderTypeInv'
  <2>1. DrainType'
    BY <1>3 DEF DrainType
  <2>2. /\ TimingType(timing)' /\ TimingType(actual)' /\ Len(actual.stages)' = Len(timing.stages)'
        /\ RatesSound' /\ Programme' \in Nat
    BY <1>1, SetupFixed DEF RenderInv, RenderTypeInv, TimingType
  <2>3. CollectorType(collector)'
    BY <1>1 DEF RenderInv, RenderTypeInv, CollectorType, ObservationType
  <2> QED BY <1>1, <1>2, <2>1, <2>2, <2>3 DEF RenderInv, RenderTypeInv, Rendering
<1>6. DirectInv'
  <2>1. DirectInv
    BY DEF RenderInv
  <2>2. /\ direct' = [ended |-> TRUE, driven |-> direct.driven, calls |-> direct.calls,
                      fed |-> direct.fed, out |-> direct.out, answer |-> direct.answer]
    BY <1>1, <2>1 DEF DirectInv
  <2>3. NearestOut(direct.fed)' = NearestOut(direct.fed)
    BY <1>1, <2>2, SetupFixed
  <2> QED BY <1>1, <2>1, <2>2, <2>3, SetupFixed DEF DirectInv
<1>7. FlowInv'
  <2>1. All' = All
    BY <1>1, TimingFixed
  <2>2. 1 \in 1 .. All + 1
    BY <1>4
  <2> QED BY <1>1, <1>2, <1>3, <2>1, <2>2 DEF RenderInv, FlowInv
<1>8. Watched'
  BY <1>1, <1>2, WatchStands DEF RenderInv
<1>9. ReportedInv'
  BY <1>1, <1>2, <1>4 DEF RenderInv, ReportedInv, Rendering
<1>10. OutInv'
  <2>1. Rendered(boundary.seen)' = Rendered(boundary.seen)
    BY <1>1, SetupFixed
  <2> QED BY <1>1, <2>1, SetupFixed DEF RenderInv, OutInv, Stopped
<1>11. DrainedInv'
  <2>1. ASSUME Counting' PROVE Taken' = Before(drain.stage)' + 0
    <3>1. Counting /\ Taken = fed
      BY <1>1, <1>2, <2>1 DEF RenderInv, FedInv, Counting, Stopped
    <3>2. Taken' = Taken
      BY <1>1, SetupFixed DEF Taken
    <3>3. Before(drain.stage)' = Before(1)
      BY <1>1, <1>3, TimingFixed
    <3>4. Before(1) = Programme
      BY <1>4, DeclaredAre DEF Before
    <3> QED BY <1>1, <1>4, <3>1, <3>2, <3>3, <3>4
  <2>2. Finite(drain.stage)'
    <3>1. Finite(1)
      BY DEF Finite
    <3> QED BY <1>1, <1>3, <3>1, TimingFixed
  <2> QED BY <1>1, <1>3, <1>4, <2>1, <2>2 DEF DrainedInv
<1>12. AnsweredInv' /\ FedInv' /\ ResampledInv' /\ LimitedInv' /\ DoneInv'
  BY <1>1 DEF AnsweredInv, FedInv, ResampledInv, LimitedInv, DoneInv, Done, Rendering
<1>13. ResultsInv'
  BY <1>1, <1>2, Untouched DEF RenderInv
<1> QED BY <1>5, <1>6, <1>7, <1>8, <1>9, <1>10, <1>11, <1>12, <1>13 DEF RenderInv

\* The drain moves on.
LEMMA NextStageIs ==
  ASSUME DrainType, NextStage
  PROVE  /\ drain'.stage = drain.stage + 1 /\ drain'.generated = 0 /\ drain'.limit = 0
         /\ drain'.left = 0 /\ drain'.started = FALSE /\ drain'.terminal = FALSE
         /\ drain'.open = FALSE /\ DrainType'
<1> DEFINE s == drain.stage + 1
<1>1. s \in Nat
  BY DEF DrainType
<1>2. drain' = [NoDrain EXCEPT !.stage = s]
  BY DEF NextStage
<1> HIDE DEF s
<1>3. drain' = [stage |-> s, generated |-> 0, limit |-> 0, left |-> 0,
                started |-> FALSE, terminal |-> FALSE, open |-> FALSE]
  BY <1>2 DEF NoDrain
<1>4. DrainType'
  BY <1>1, <1>3 DEF DrainType
<1> QED BY <1>3, <1>4 DEF s

\* A stopped observation takes nothing more.
LEMMA SkipStageKeeps == ASSUME RenderInv, SkipStage PROVE RenderInv'
<1>1. /\ phase = "drain" /\ drain.stage \in 1 .. Len(Stages) /\ Stopped /\ NextStage
      /\ UNCHANGED <<setup, actual, timing, phase, block, fed, boundary, direct, collector, outcomes>>
  BY DEF SkipStage, DrainingStage
<1>2. UNCHANGED <<failed, changed, ranOut, held, results>>
  BY <1>1 DEF outcomes
<1>3. /\ drain'.stage = drain.stage + 1 /\ drain'.generated = 0
      /\ drain'.started = FALSE /\ drain'.terminal = FALSE /\ drain'.open = FALSE /\ DrainType'
  BY <1>1, NextStageIs DEF RenderInv, RenderTypeInv
<1>4. collector.obs.active /\ collector.obs.stopped
  BY <1>1 DEF RenderInv, Watched, Stopped
<1>5. RenderTypeInv'
  <2>1. /\ TimingType(timing)' /\ TimingType(actual)' /\ Len(actual.stages)' = Len(timing.stages)'
        /\ RatesSound' /\ Programme' \in Nat
    BY <1>1, SetupFixed DEF RenderInv, RenderTypeInv, TimingType
  <2>2. CollectorType(collector)'
    BY <1>1 DEF RenderInv, RenderTypeInv, CollectorType, ObservationType
  <2> QED BY <1>1, <1>2, <1>3, <2>1, <2>2 DEF RenderInv, RenderTypeInv, Rendering
<1>6. FlowInv'
  <2>1. All' = All /\ All = Len(Stages) /\ All \in Nat
    BY <1>1, TimingFixed DEF All, RenderInv, RenderTypeInv, TimingType, Stages
  <2> QED BY <1>1, <1>2, <1>3, <2>1 DEF RenderInv, FlowInv
<1>7. Watched'
  BY <1>1, <1>2, WatchStands DEF RenderInv
<1>8. ReportedInv'
  BY <1>1, <1>2, <1>4 DEF RenderInv, ReportedInv, Rendering, Stopped
<1>9. OutInv' /\ DrainedInv' /\ AnsweredInv' /\ FedInv' /\ ResampledInv' /\ LimitedInv' /\ DoneInv'
  BY <1>1, <1>4 DEF OutInv, DrainedInv, AnsweredInv, FedInv, ResampledInv, LimitedInv, DoneInv,
                    Done, Rendering, Counting, Stopped
<1>10. DirectInv' /\ ResultsInv'
  BY <1>1, <1>2, Untouched DEF RenderInv
<1> QED BY <1>5, <1>6, <1>7, <1>8, <1>9, <1>10 DEF RenderInv

\* The first unknown tail begins an observation where the frames before it end.
LEMMA BeginStageKeeps == ASSUME RenderInv, BeginStage PROVE RenderInv'
<1> DEFINE i == drain.stage
           s == Stages[i]
           starts == Unknown(s) /\ ~collector.obs.active
           now == actual.stages[i]
           left == IF Unknown(now) THEN Endless ELSE now.latency + now.tail
           obs == [NoObservation EXCEPT !.active = TRUE, !.protected = ProtectedFrames(i)]
<1>1. /\ phase = "drain" /\ i \in 1 .. Len(Stages) /\ ~drain.open /\ ~(Unknown(s) /\ Stopped)
      /\ drain' = [drain EXCEPT !.open = TRUE, !.started = starts, !.limit = SourceLimit(i), !.left = left]
      /\ collector' = IF starts THEN [collector EXCEPT !.obs = obs] ELSE collector
      /\ held' = IF starts /\ Resampled
                 THEN NearestOut(boundary.seen) - Rendered(boundary.seen) ELSE held
      /\ UNCHANGED <<setup, actual, timing, phase, block, fed, boundary, direct, failed, changed,
                     ranOut, results>>
  BY DEF BeginStage, DrainingStage
<1>2. /\ RatesSound /\ Programme \in Nat /\ TimingType(timing) /\ block \in Nat /\ All \in Nat
      /\ All = Len(Stages) /\ i \in 1 .. All /\ i - 1 \in 0 .. All /\ boundary.seen \in Nat
      /\ CollectorType(collector) /\ collector.out \in Nat
  BY <1>1 DEF RenderInv, RenderTypeInv, TimingType, All, Stages, CollectorType
<1>3. /\ s \in SourceStage /\ ProtectedFrames(i) \in Nat
      /\ SourceLimit(i) \in Nat /\ Before(i) \in Nat
  <2>1. Declared(i - 1) \in Nat
    BY <1>2, DeclaredAre
  <2>2. Before(i) \in Nat
    BY <1>2, <2>1 DEF Before
  <2>3. \A k \in 1 .. All :
          Stages[k] \in SourceStage /\ ProtectedFrames(k) \in Nat /\ SourceLimit(k) \in Nat
    BY <1>2, DeclaredAre
  <2> HIDE DEF i
  <2> QED BY <1>2, <2>2, <2>3
<1>4. left \in Nat \cup {Endless} /\ (~changed /\ ~Unknown(s) => left \in Nat /\ left = s.latency + s.tail)
      /\ (~changed /\ Unknown(s) => left = Endless)
  <2>1. now \in SourceStage
    BY <1>1 DEF RenderInv, RenderTypeInv, TimingType, Stages
  <2>2. ~changed => now = s
    BY DEF RenderInv, FlowInv, Stages
  <2> HIDE DEF now, s
  <2> QED BY <2>1, <2>2 DEF Unknown, SourceStage, Endless
<1>5. starts \in BOOLEAN /\ (starts => Unknown(s) /\ ~collector.obs.active)
  OBVIOUS
<1>6. /\ obs = [active |-> TRUE, protected |-> ProtectedFrames(i), generated |-> 0, below |-> 0,
                stopped |-> FALSE, capped |-> FALSE]
      /\ obs.active = TRUE /\ obs.protected = ProtectedFrames(i) /\ obs.generated = 0 /\ obs.below = 0
      /\ obs.stopped = FALSE /\ obs.capped = FALSE
  <2> DEFINE p == ProtectedFrames(i)
             yes == TRUE
             no == FALSE
             o == [NoObservation EXCEPT !.active = yes]
  <2>1. NoObservation = [active |-> no, protected |-> 0, generated |-> 0, below |-> 0,
                         stopped |-> no, capped |-> no]
    BY DEF NoObservation
  <2>2. obs = [o EXCEPT !.protected = p]
    OBVIOUS
  <2> HIDE DEF p, yes, no
  <2>3. o = [active |-> yes, protected |-> 0, generated |-> 0, below |-> 0,
             stopped |-> no, capped |-> no]
    BY <2>1
  <2> HIDE DEF o, obs
  <2>4. obs = [active |-> yes, protected |-> p, generated |-> 0, below |-> 0,
               stopped |-> no, capped |-> no]
    BY <2>2, <2>3
  <2> QED BY <2>4 DEF p, yes, no
<1> HIDE DEF left, obs, starts
<1>7. starts => /\ collector' = [obs |-> obs, out |-> collector.out, truncated |-> collector.truncated]
                /\ collector'.obs = obs /\ collector'.out = collector.out
                /\ collector'.truncated = collector.truncated
  BY <1>1, <1>2 DEF CollectorType
<1>8. CollectorType(collector)'
  <2>1. ObservationType(obs)
    BY <1>3, <1>6 DEF ObservationType
  <2>2. starts => CollectorType(collector')
    BY <1>2, <1>7, <2>1 DEF CollectorType
  <2>3. ~starts => CollectorType(collector')
    BY <1>1, <1>2
  <2> QED BY <2>2, <2>3 DEF CollectorType, ObservationType
<1>9. /\ drain' = [stage |-> i, generated |-> drain.generated, limit |-> SourceLimit(i),
                   left |-> left, started |-> starts, terminal |-> drain.terminal, open |-> TRUE]
      /\ drain'.stage = i /\ drain'.generated = drain.generated /\ drain'.limit = SourceLimit(i)
      /\ drain'.left = left /\ drain'.started = starts /\ drain'.terminal = drain.terminal
      /\ drain'.open = TRUE
  <2> DEFINE g == drain.generated
             l == drain.limit
             e == drain.left
             t == drain.started
             m == drain.terminal
             o == drain.open
             k == SourceLimit(i)
             yes == TRUE
             d1 == [drain EXCEPT !.open = yes]
             d2 == [d1 EXCEPT !.started = starts]
             d3 == [d2 EXCEPT !.limit = k]
  <2>1. drain = [stage |-> i, generated |-> g, limit |-> l,
                 left |-> e, started |-> t, terminal |-> m, open |-> o]
    BY DEF RenderInv, RenderTypeInv, DrainType
  <2>2. drain' = [d3 EXCEPT !.left = left]
    BY <1>1
  <2> HIDE DEF g, l, e, t, m, o, k, i, yes
  <2>3. d1 = [stage |-> i, generated |-> g, limit |-> l,
              left |-> e, started |-> t, terminal |-> m, open |-> yes]
    BY <2>1
  <2> HIDE DEF d1
  <2>4. d2 = [stage |-> i, generated |-> g, limit |-> l,
              left |-> e, started |-> starts, terminal |-> m, open |-> yes]
    BY <2>3
  <2> HIDE DEF d2
  <2>5. d3 = [stage |-> i, generated |-> g, limit |-> k,
              left |-> e, started |-> starts, terminal |-> m, open |-> yes]
    BY <2>4
  <2> HIDE DEF d3
  <2>6. drain' = [stage |-> i, generated |-> g, limit |-> k,
                  left |-> left, started |-> starts, terminal |-> m, open |-> yes]
    BY <2>2, <2>5
  <2> QED BY <2>6 DEF i, g, k, m, yes
<1>10. drain.generated = 0 /\ drain.terminal = FALSE
  BY <1>1 DEF RenderInv, RenderTypeInv, FlowInv, DrainType
<1>11. starts /\ ~changed => /\ ~Stopped /\ Counting /\ Taken = Before(i) /\ First(i)
                             /\ collector.out = (IF Resampled THEN Rendered(boundary.seen) ELSE Taken)
  <2>1. ASSUME starts, ~changed
        PROVE  ~Stopped /\ Counting /\ Taken = Before(i) /\ First(i)
               /\ collector.out = (IF Resampled THEN Rendered(boundary.seen) ELSE Taken)
    <3>1. ~Stopped /\ ~collector.obs.active
      BY <1>5, <2>1 DEF RenderInv, Watched
    <3>2. Counting
      BY <2>1, <3>1 DEF Counting
    <3>3. Taken = Before(i) + drain.generated /\ Finite(i)
      BY <1>1, <3>1, <3>2 DEF RenderInv, DrainedInv
    <3>4. Taken = Before(i)
      BY <1>3, <1>10, <3>3
    <3>5. First(i)
      BY <1>2, <1>5, <2>1, <3>3 DEF First
    <3>6. collector.out = (IF Resampled THEN Rendered(boundary.seen) ELSE Taken)
      <4>1. CASE Resampled
        <5>1. collector.out = Rendered(boundary.seen) + 0
          BY <1>1, <3>1, <4>1 DEF RenderInv, OutInv
        <5>2. Rendered(boundary.seen) \in Nat
          BY <1>2, RenderedAre
        <5> QED BY <4>1, <5>1, <5>2
      <4>2. CASE ~Resampled
        BY <4>2 DEF Taken
      <4> QED BY <4>1, <4>2
    <3> QED BY <3>1, <3>2, <3>4, <3>5, <3>6
  <2> QED BY <2>1
<1>12. held' \in Nat /\ (~starts => held' = held)
       /\ (starts /\ ~changed => held' = HeldAt(i))
  <2>1. /\ NearestOut(boundary.seen) \in Nat /\ Rendered(boundary.seen) \in Nat
        /\ Rendered(boundary.seen) <= NearestOut(boundary.seen)
    BY <1>2, RenderedAre
  <2>2. held \in Nat
    BY DEF RenderInv, RenderTypeInv
  <2>3. ASSUME starts, ~changed PROVE held' = HeldAt(i)
    <3>1. CASE Resampled
      <4>1. boundary.seen = Before(i)
        BY <1>11, <2>3, <3>1 DEF Taken
      <4> QED BY <1>1, <2>3, <3>1, <4>1 DEF HeldAt
    <3>2. CASE ~Resampled
      <4>1. held = 0
        BY <1>1, <1>5, <2>3 DEF RenderInv, ReportedInv, Rendering
      <4> QED BY <1>1, <3>2, <4>1 DEF HeldAt
    <3> QED BY <3>1, <3>2
  <2>4. held' \in Nat
    <3> DEFINE x == NearestOut(boundary.seen)
               y == Rendered(boundary.seen)
    <3>1. held' = IF starts /\ Resampled THEN x - y ELSE held
      BY <1>1
    <3> HIDE DEF x, y
    <3> QED BY <2>1, <2>2, <3>1 DEF x, y
  <2> QED BY <1>1, <2>3, <2>4
<1>13. RenderTypeInv'
  <2>1. DrainType'
    <3>1. i \in Nat /\ drain.generated \in Nat
      BY DEF RenderInv, RenderTypeInv, DrainType
    <3> QED BY <1>3, <1>4, <1>5, <1>9, <1>10, <3>1 DEF DrainType
  <2>2. /\ TimingType(timing)' /\ TimingType(actual)' /\ Len(actual.stages)' = Len(timing.stages)'
        /\ RatesSound' /\ Programme' \in Nat
    BY <1>1, SetupFixed DEF RenderInv, RenderTypeInv, TimingType
  <2> QED BY <1>1, <1>8, <1>12, <2>1, <2>2 DEF RenderInv, RenderTypeInv, Rendering
<1>14. collector'.obs.active <=> starts \/ collector.obs.active
  BY <1>1, <1>6, <1>7 DEF CollectorType, ObservationType
<1>15. FlowInv'
  <2>1. All' = All /\ Stages' = Stages
    BY <1>1, TimingFixed
  <2>2. drain'.limit = SourceLimit(drain.stage)'
    BY <1>1, <1>9, TimingFixed
  <2>3. drain'.started => Unknown(Stages'[drain'.stage]) /\ collector'.obs.active
    BY <1>5, <1>9, <1>14, <2>1
  <2>4. ~changed' => IF Unknown(Stages'[drain'.stage]) THEN drain'.left = Endless
                     ELSE /\ drain'.left \in Nat
                          /\ drain'.generated + drain'.left
                             = Stages'[drain'.stage].latency + Stages'[drain'.stage].tail
    <3> DEFINE owes == s.latency + s.tail
    <3>1. Stages'[drain'.stage] = s /\ drain'.left = left /\ drain'.generated = 0
      BY <1>9, <1>10, <2>1
    <3>2. ASSUME ~changed, ~Unknown(s) PROVE left \in Nat /\ 0 + left = owes
      <4>1. left \in Nat /\ left = owes
        BY <1>4, <3>2
      <4> HIDE DEF owes
      <4> QED BY <4>1
    <3> QED BY <1>1, <1>4, <3>1, <3>2
  <2>5. drain'.stage \in 1 .. All' + 1 /\ drain'.stage <= All'
    BY <1>2, <1>9, <2>1
  <2>6. ~changed' => timing' = actual' /\ ~failed'
    BY <1>1 DEF RenderInv, FlowInv
  <2>7. phase' = "drain" /\ drain'.open /\ ~drain'.terminal
    BY <1>1, <1>9, <1>10
  <2> QED BY <2>2, <2>3, <2>4, <2>5, <2>6, <2>7 DEF FlowInv, Unknown
<1>16. Watched'
  <2>1. CASE ~starts
    BY <1>1, <1>12, <2>1, WatchStands DEF RenderInv
  <2>2. CASE starts
    <3> DEFINE base == collector.out + ProtectedFrames(i)
    <3>1. base \in Nat
      BY <1>2, <1>3
    <3>2. Watches(base, collector')
      <4>1. HoldFrames \in Nat /\ HoldFrames > 0 /\ TailFrames \in Nat /\ TailFrames > 0
        <5>1. OutputRate \in Nat \ {0} /\ Hold \in Nat \ {0} /\ MaxTail \in Nat \ {0}
          BY <1>2, RenderAssumption DEF RatesSound
        <5> QED BY <5>1 DEF HoldFrames, TailFrames
      <4>2. QuietFor(base, 0, 0)
        BY DEF QuietFor
      <4>3. Unheld(base, 0)
        BY <4>1 DEF Unheld
      <4>4. collector'.out + collector'.obs.protected = base + 0
        BY <1>2, <1>3, <1>6, <1>7, <2>2
      <4>5. Watching(base, collector'.obs, collector'.out)
        <5> HIDE DEF base
        <5> QED BY <1>6, <1>7, <2>2, <4>1, <4>2, <4>3, <4>4 DEF Watching
      <4>6. ~collector'.obs.stopped
        BY <1>6, <1>7, <2>2
      <4> QED BY <4>5, <4>6 DEF Watches
    <3>4. ~changed => base = Base(i)
      <4>1. ~changed /\ Resampled => collector.out = Rendered(Before(i))
        BY <1>11, <2>2 DEF Taken
      <4>2. ~changed /\ ~Resampled => collector.out = Before(i)
        BY <1>11, <2>2
      <4> QED BY <4>1, <4>2 DEF Base
    <3> HIDE DEF base
    <3>5. \E b \in Nat : /\ Watches(b, collector')
                         /\ ~changed => First(i) /\ b = Base(i) /\ held' = HeldAt(i)
      BY <1>11, <1>12, <2>2, <3>1, <3>2, <3>4
    <3>6. PICK b \in Nat : /\ Watches(b, collector')
                           /\ ~changed => First(i) /\ b = Base(i) /\ held' = HeldAt(i)
      BY <3>5
    <3>7. Watches(b, collector)'
      BY <1>1, <3>6, SetupFixed
    <3>8. ~changed' => \E j \in 1 .. All' : First(j)' /\ b = Base(j)' /\ held' = HeldAt(j)'
      BY <1>1, <1>2, <3>6, TimingFixed
    <3>9. collector'.obs.active
      BY <1>14, <2>2
    <3> QED BY <3>7, <3>8, <3>9 DEF Watched, Stopped
  <2> QED BY <2>1, <2>2
<1>17. ReportedInv'
  BY <1>1, <1>5, <1>7, <1>9, <1>12, <1>14 DEF RenderInv, ReportedInv, Rendering, Stopped
<1>18. collector'.out = collector.out /\ Taken' = Taken /\ (Stopped' => Stopped)
  <2>1. collector'.out = collector.out
    BY <1>1, <1>7
  <2>2. Taken' = Taken
    BY <1>1, <2>1, SetupFixed DEF Taken
  <2>3. Stopped' => Stopped
    BY <1>1, <1>6, <1>7 DEF Stopped
  <2> QED BY <2>1, <2>2, <2>3
<1>19. OutInv'
  <2>1. ASSUME ~Stopped', Resampled' PROVE collector'.out = Rendered(boundary.seen)' + 0
    <3>1. ~Stopped
      <4>1. starts => ~Stopped
        BY <1>5 DEF RenderInv, Watched
      <4> QED BY <1>1, <2>1, <4>1 DEF Stopped
    <3>2. Resampled /\ Rendered(boundary.seen)' = Rendered(boundary.seen)
      BY <1>1, <2>1, SetupFixed
    <3>3. collector.out = Rendered(boundary.seen) + 0
      BY <1>1, <3>1, <3>2 DEF RenderInv, OutInv
    <3> QED BY <1>18, <3>2, <3>3
  <2> QED BY <1>1, <2>1 DEF OutInv
<1>20. DrainedInv'
  <2> SUFFICES ASSUME Counting'
               PROVE  IF ~collector'.obs.active
                      THEN /\ Taken' = Before(drain.stage)' + drain'.generated
                           /\ Finite(drain.stage + 1)'
                      ELSE \/ First(drain.stage)' /\ Taken' = Before(drain.stage)' + drain'.generated
                           \/ \E j \in 1 .. drain'.stage - 1 : Enough(j)'
    BY <1>9 DEF DrainedInv
  <2>1. ~changed
    BY <1>1 DEF Counting
  <2>2. /\ Before(drain.stage)' = Before(i) /\ (First(drain.stage)' <=> First(i))
        /\ (Finite(drain.stage + 1)' <=> Finite(i + 1))
    BY <1>1, <1>9, TimingFixed
  <2>3. CASE starts
    BY <1>3, <1>9, <1>10, <1>11, <1>14, <1>18, <2>1, <2>2, <2>3
  <2>4. CASE ~starts
    <3>1. Counting
      BY <1>1, <2>1, <2>4 DEF Counting, Stopped
    <3>2. CASE ~collector.obs.active
      <4>1. Taken = Before(i) + drain.generated /\ Finite(i) /\ ~Unknown(s)
        BY <1>1, <2>4, <3>1, <3>2 DEF RenderInv, DrainedInv, starts
      <4>2. Finite(i + 1)
        BY <1>2, <4>1 DEF Finite
      <4> QED BY <1>9, <1>14, <1>18, <2>2, <2>4, <3>2, <4>1, <4>2
    <3>3. CASE collector.obs.active
      <4>1. PICK j \in 1 .. i - 1 : Enough(j)
        BY <1>1, <3>1, <3>3 DEF RenderInv, DrainedInv
      <4>2. Enough(j)'
        BY <1>1, <1>18, <4>1, EnoughStands
      <4> QED BY <1>9, <1>14, <3>3, <4>1, <4>2
    <3> QED BY <3>2, <3>3
  <2> QED BY <2>3, <2>4
<1>21. AnsweredInv' /\ FedInv' /\ ResampledInv' /\ LimitedInv' /\ DoneInv'
  BY <1>1 DEF AnsweredInv, FedInv, ResampledInv, LimitedInv, DoneInv, Done, Rendering
<1>22. DirectInv' /\ ResultsInv'
  BY <1>1, Untouched DEF RenderInv
<1> QED BY <1>13, <1>15, <1>16, <1>17, <1>19, <1>20, <1>21, <1>22 DEF RenderInv

\* A stage with a finite tail ends within its limit, one with an unknown tail only by
\* its budget or with the observation.
LEMMA EndOfStage ==
  ASSUME RenderInv, EndStage, ~changed
  PROVE  LET s == Stages[drain.stage]
         IN /\ drain.terminal <=> ~Unknown(s)
            /\ ~Unknown(s) => drain.generated = s.latency + s.tail
            /\ ExhaustedUnknown => Unknown(s) /\ ~Stopped /\ drain.generated >= SourceLimit(drain.stage)
<1> DEFINE i == drain.stage
           s == Stages[i]
           g == drain.generated
           owes == s.latency + s.tail
<1>1. /\ phase = "drain" /\ i \in 1 .. Len(Stages) /\ drain.open
      /\ drain.terminal \/ Halted \/ g >= drain.limit
  BY DEF EndStage, DrainingStage
<1>2. FlowInv
  BY DEF RenderInv
<1>3. /\ drain.limit = SourceLimit(i) /\ (drain.terminal => drain.left = 0)
      /\ IF Unknown(s) THEN drain.left = Endless
         ELSE drain.left \in Nat /\ g + drain.left = owes
  <2> USE <1>1, <1>2 DEF FlowInv
  <2>1. drain.limit = SourceLimit(i) /\ (drain.terminal => drain.left = 0)
    OBVIOUS
  <2>2. IF Unknown(s) THEN drain.left = Endless
        ELSE drain.left \in Nat /\ g + drain.left = owes
    OBVIOUS
  <2> QED BY ONLY <2>1, <2>2
<1>4. g \in Nat /\ block \in Nat /\ block # 0
  BY <1>1 DEF RenderInv, RenderTypeInv, DrainType, Rendering
<1>5. Unknown(s) => ~drain.terminal
  BY <1>3 DEF Endless
<1>6. ASSUME ~Unknown(s) PROVE drain.terminal /\ g = owes
  <2>1. drain.left \in Nat /\ g + drain.left = owes
    BY <1>3, <1>6
  <2>2. ~Halted
    BY <1>6 DEF Halted
  <2>3. drain.limit = Greater(owes + block, 1)
    BY <1>3, <1>6 DEF SourceLimit
  <2> HIDE DEF owes
  <2>4. drain.terminal
    BY <1>1, <1>4, <2>1, <2>2, <2>3 DEF Greater
  <2> QED BY <1>3, <1>4, <2>1, <2>4
<1>7. ASSUME ExhaustedUnknown
      PROVE  Unknown(s) /\ ~Stopped /\ g >= SourceLimit(i)
  BY <1>1, <1>3, <1>7 DEF ExhaustedUnknown, Halted
<1> QED BY <1>5, <1>6, <1>7

\* A stage ends.
LEMMA EndStageKeeps == ASSUME RenderInv, EndStage PROVE RenderInv'
<1> DEFINE i == drain.stage
           s == Stages[i]
           fails == ~drain.terminal /\ ~Unknown(s)
           ends == drain.started /\ drain.terminal /\ ~Stopped
           t == collector.truncated \/ collector.obs.capped
<1>1. /\ phase = "drain" /\ i \in 1 .. Len(Stages) /\ drain.open
      /\ drain.terminal \/ Halted \/ drain.generated >= drain.limit
      /\ UNCHANGED <<setup, actual, timing, block, fed, boundary, direct, changed, held, results>>
  BY DEF EndStage, DrainingStage
<1>2. fails => failed' = TRUE /\ phase' = "idle" /\ drain' = NoDrain /\ collector' = collector
               /\ ranOut' = ranOut
  BY DEF EndStage, FailRender
<1>3. ~fails => /\ NextStage /\ ranOut' = (ranOut \/ ExhaustedUnknown)
                /\ collector' = IF ExhaustedUnknown THEN [collector EXCEPT !.truncated = TRUE]
                                ELSE IF ends
                                THEN [collector EXCEPT !.obs = NoObservation, !.truncated = t]
                                ELSE collector
                /\ phase' = phase /\ failed' = failed
  BY DEF EndStage
<1>4. /\ RatesSound /\ Programme \in Nat /\ TimingType(timing) /\ block \in Nat /\ All \in Nat
      /\ All = Len(Stages) /\ i \in 1 .. All /\ boundary.seen \in Nat
      /\ CollectorType(collector) /\ collector.out \in Nat
      /\ collector = [obs |-> collector.obs, out |-> collector.out, truncated |-> collector.truncated]
      /\ collector.truncated \in BOOLEAN /\ collector.obs.capped \in BOOLEAN
      /\ {failed, changed, ranOut} \subseteq BOOLEAN
  BY <1>1 DEF RenderInv, RenderTypeInv, TimingType, All, Stages, CollectorType, ObservationType
<1>5. /\ drain.started => Unknown(s) /\ collector.obs.active
  BY <1>1 DEF RenderInv, FlowInv
<1>6. ~changed => /\ drain.terminal <=> ~Unknown(s)
                  /\ ~Unknown(s) => drain.generated = s.latency + s.tail
                  /\ ExhaustedUnknown => Unknown(s) /\ ~Stopped /\ drain.generated >= SourceLimit(i)
  BY EndOfStage
<1>7. ~fails => /\ drain'.stage = i + 1 /\ drain'.generated = 0
                /\ drain'.started = FALSE /\ drain'.terminal = FALSE /\ drain'.open = FALSE
                /\ DrainType'
  BY <1>3, NextStageIs DEF RenderInv, RenderTypeInv
<1>8. DrainType'
  <2>1. ASSUME fails PROVE DrainType'
    <3>1. drain' = [stage |-> 0, generated |-> 0, limit |-> 0, left |-> 0,
                    started |-> FALSE, terminal |-> FALSE, open |-> FALSE]
      BY <1>2, <2>1 DEF NoDrain
    <3>2. /\ drain'.stage = 0 /\ drain'.generated = 0 /\ drain'.limit = 0 /\ drain'.left = 0
          /\ drain'.started = FALSE /\ drain'.terminal = FALSE /\ drain'.open = FALSE
      BY <3>1
    <3> QED BY <3>1, <3>2 DEF DrainType
  <2> QED BY <1>7, <2>1
<1> HIDE DEF t
<1>9. CASE fails
  <2>1. changed
    BY <1>6, <1>9
  <2>2. RenderTypeInv'
    <3>1. /\ TimingType(timing)' /\ TimingType(actual)' /\ Len(actual.stages)' = Len(timing.stages)'
          /\ RatesSound' /\ Programme' \in Nat
      BY <1>1, SetupFixed DEF RenderInv, RenderTypeInv, TimingType
    <3>2. CollectorType(collector)'
      BY <1>2, <1>9 DEF RenderInv, RenderTypeInv, CollectorType, ObservationType
    <3> QED BY <1>1, <1>2, <1>8, <1>9, <3>1, <3>2 DEF RenderInv, RenderTypeInv, Rendering
  <2>3. FlowInv'
    BY <1>1, <1>2, <1>9, <2>1 DEF FlowInv
  <2>4. Watched'
    BY <1>1, <1>2, <1>9, WatchStands DEF RenderInv
  <2>5. ReportedInv' /\ AnsweredInv' /\ OutInv' /\ FedInv' /\ DrainedInv' /\ ResampledInv' /\ LimitedInv'
        /\ DoneInv'
    BY <1>2, <1>9 DEF ReportedInv, AnsweredInv, OutInv, FedInv, DrainedInv, ResampledInv, LimitedInv,
                      DoneInv, Done, Rendering
  <2>6. DirectInv' /\ ResultsInv'
    BY <1>1, Untouched DEF RenderInv
  <2> QED BY <2>2, <2>3, <2>4, <2>5, <2>6 DEF RenderInv
<1>10. CASE ~fails
  <2> DEFINE kept == /\ collector'.obs = collector.obs
                     /\ collector'.out = collector.out
                     /\ collector'.truncated = (collector.truncated \/ ExhaustedUnknown)
                     /\ ~ends \/ ExhaustedUnknown
             ended == /\ ends /\ ~ExhaustedUnknown
                      /\ collector'.obs = NoObservation /\ collector'.out = collector.out
                      /\ collector'.truncated = t
  <2>1. CollectorType(collector)' /\ (kept \/ ended)
    <3>1. CASE ExhaustedUnknown
      <4>1. collector' = [obs |-> collector.obs, out |-> collector.out, truncated |-> TRUE]
        BY <1>3, <1>4, <1>10, <3>1
      <4> QED BY <1>4, <3>1, <4>1 DEF CollectorType, ObservationType
    <3>2. CASE ~ExhaustedUnknown /\ ends
      <4> DEFINE none == NoObservation
                 out == collector.out
                 c1 == [collector EXCEPT !.obs = none]
      <4>1. collector' = [c1 EXCEPT !.truncated = t]
        BY <1>3, <1>10, <3>2
      <4> HIDE DEF none, out
      <4>2. c1 = [obs |-> none, out |-> out, truncated |-> collector.truncated]
        BY <1>4 DEF out
      <4> HIDE DEF c1
      <4>3. collector' = [obs |-> none, out |-> out, truncated |-> t]
        BY <4>1, <4>2
      <4>4. ObservationType(none)
        BY DEF none, NoObservation, ObservationType
      <4>5. t \in BOOLEAN
        BY DEF t
      <4>6. CollectorType(collector')
        BY <1>4, <4>3, <4>4, <4>5 DEF CollectorType, out
      <4>7. collector'.obs = NoObservation /\ collector'.out = collector.out /\ collector'.truncated = t
        BY <4>3 DEF none, out
      <4> QED BY <3>2, <4>6, <4>7 DEF CollectorType, ObservationType
    <3>3. CASE ~ExhaustedUnknown /\ ~ends
      <4>1. collector' = collector
        BY <1>3, <1>10, <3>3
      <4> QED BY <1>4, <3>3, <4>1 DEF CollectorType, ObservationType
    <3> QED BY <3>1, <3>2, <3>3
  <2>2. ended => /\ changed /\ ~collector'.obs.active /\ ~collector'.obs.stopped
                 /\ ~collector'.obs.capped /\ collector'.truncated = collector.truncated
    <3> SUFFICES ASSUME ended
                 PROVE  /\ changed /\ ~collector'.obs.active /\ ~collector'.obs.stopped
                        /\ ~collector'.obs.capped /\ collector'.truncated = collector.truncated
      OBVIOUS
    <3>1. changed
      BY <1>5, <1>6
    <3>2. collector.obs.active /\ ~collector.obs.stopped
      BY <1>5 DEF Stopped
    <3>3. ~collector.obs.capped
      BY <3>2 DEF RenderInv, Watched, Watches, Watching
    <3>4. t = collector.truncated
      BY <1>4, <3>3 DEF t
    <3>5. NoObservation.active = FALSE /\ NoObservation.stopped = FALSE /\ NoObservation.capped = FALSE
      BY DEF NoObservation
    <3> QED BY <3>1, <3>4, <3>5
  <2>3. phase' = "drain" /\ failed' = failed /\ collector'.out = collector.out /\ Taken' = Taken
    <3>1. phase' = "drain" /\ failed' = failed /\ collector'.out = collector.out
      BY <1>1, <1>3, <1>10, <2>1
    <3> QED BY <1>1, <3>1, SetupFixed DEF Taken
  <2> HIDE DEF kept, ended
  <2>4. RenderTypeInv'
    <3>1. /\ TimingType(timing)' /\ TimingType(actual)' /\ Len(actual.stages)' = Len(timing.stages)'
          /\ RatesSound' /\ Programme' \in Nat
      BY <1>1, SetupFixed DEF RenderInv, RenderTypeInv, TimingType
    <3>2. {failed', changed', ranOut'} \subseteq BOOLEAN
      BY <1>1, <1>3, <1>4, <1>10 DEF ExhaustedUnknown
    <3>3. /\ block' \in Nat /\ (Rendering' => block' # 0) /\ fed' \in Nat /\ held' \in Nat
          /\ boundary' = [seen |-> boundary'.seen, generated |-> boundary'.generated]
          /\ boundary'.seen \in Nat /\ boundary'.generated \in Nat
      BY <1>1 DEF RenderInv, RenderTypeInv, Rendering
    <3> QED BY <1>8, <2>1, <2>3, <3>1, <3>2, <3>3 DEF RenderTypeInv
  <2>5. FlowInv'
    <3>1. All' = All /\ i + 1 \in 1 .. All + 1
      BY <1>1, <1>4, TimingFixed
    <3>2. ~changed' => timing' = actual' /\ ~failed'
      BY <1>1, <2>3 DEF RenderInv, FlowInv
    <3> QED BY <1>7, <1>10, <2>3, <3>1, <3>2 DEF FlowInv
  <2>6. Watched'
    <3>1. CASE kept
      BY <1>1, <3>1, WatchStands DEF RenderInv, kept
    <3>2. CASE ended
      BY <2>2, <3>2 DEF Watched, Stopped
    <3> QED BY <2>1, <3>1, <3>2
  <2>7. ReportedInv'
    <3>1. ranOut' <=> ranOut \/ ExhaustedUnknown
      BY <1>3, <1>10
    <3>2. collector.truncated => ranOut
      BY <1>1 DEF RenderInv, ReportedInv, Rendering
    <3>3. collector'.truncated => ranOut'
      BY <2>1, <2>2, <3>1, <3>2 DEF kept
    <3>4. ~(collector'.obs.active /\ ~Stopped' /\ ~collector'.truncated)
      <4> SUFFICES ASSUME collector'.obs.active, ~Stopped', ~collector'.truncated PROVE FALSE
        OBVIOUS
      <4>1. kept
        BY <2>1, <2>2
      <4>2. collector.obs.active /\ ~Stopped /\ ~collector.truncated /\ ~ExhaustedUnknown /\ ~ends
        BY <4>1 DEF kept, Stopped
      <4>3. drain.started
        BY <1>1, <4>2 DEF RenderInv, ReportedInv, Rendering
      <4>4. Unknown(s) /\ ~drain.terminal /\ ~Halted
        BY <1>5, <4>2, <4>3 DEF Halted
      <4> QED BY <4>2, <4>4 DEF ExhaustedUnknown
    <3>5. ~collector'.obs.active /\ ~changed' => held' = 0 /\ ~collector'.truncated
      <4> SUFFICES ASSUME ~collector'.obs.active, ~changed PROVE held' = 0 /\ ~collector'.truncated
        BY <1>1
      <4>1. kept
        BY <2>1, <2>2
      <4>2. ~collector.obs.active
        BY <4>1 DEF kept
      <4>3. held = 0 /\ ~collector.truncated
        BY <1>1, <4>2 DEF RenderInv, ReportedInv, Rendering
      <4>4. Counting
        BY <4>2 DEF Counting, RenderInv, Watched
      <4>5. ~Unknown(s)
        <5>1. Finite(i + 1)
          BY <1>1, <4>2, <4>4 DEF RenderInv, DrainedInv
        <5> QED BY <1>4, <5>1 DEF Finite
      <4>6. ~ExhaustedUnknown
        BY <4>5 DEF ExhaustedUnknown
      <4> QED BY <1>1, <4>1, <4>3, <4>6 DEF kept
    <3> QED BY <3>3, <3>4, <3>5 DEF ReportedInv
  <2>8. OutInv'
    <3>1. ASSUME ~Stopped', Resampled' PROVE collector'.out = Rendered(boundary.seen)' + 0
      <4>1. ~Stopped
        <5>1. CASE kept
          BY <3>1, <5>1 DEF Stopped, kept
        <5>2. CASE ended
          BY <5>2 DEF ended
        <5> QED BY <2>1, <5>1, <5>2
      <4>2. Resampled /\ Rendered(boundary.seen)' = Rendered(boundary.seen)
        BY <1>1, <3>1, SetupFixed
      <4>3. collector.out = Rendered(boundary.seen) + 0
        BY <1>1, <4>1, <4>2 DEF RenderInv, OutInv
      <4> QED BY <2>3, <4>2, <4>3
    <3> QED BY <2>3, <3>1 DEF OutInv
  <2>9. DrainedInv'
    <3> SUFFICES ASSUME Counting'
                 PROVE  IF ~collector'.obs.active
                        THEN /\ Taken' = Before(drain.stage)' + 0
                             /\ Finite(drain.stage)'
                        ELSE \E j \in 1 .. drain'.stage - 1 : Enough(j)'
      BY <1>7, <1>10 DEF DrainedInv
    <3>1. ~changed /\ kept
      BY <1>1, <2>1, <2>2 DEF Counting
    <3>2. Counting /\ (collector'.obs.active <=> collector.obs.active)
      BY <3>1 DEF Counting, Stopped, kept
    <3>3. CASE ~collector.obs.active
      <4>1. Taken = Before(i) + drain.generated /\ Finite(i + 1)
        BY <1>1, <3>2, <3>3 DEF RenderInv, DrainedInv
      <4>2. ~Unknown(s)
        BY <1>4, <4>1 DEF Finite
      <4>3. drain.generated = s.latency + s.tail
        BY <1>6, <3>1, <4>2
      <4>4. Before(i + 1) = Before(i) + drain.generated + 0
        <5> DEFINE before == Declared(i - 1)
                   after == Declared(i)
        <5>1. /\ after = before + s.latency + s.tail
              /\ s.tail \in Nat /\ s \in SourceStage
          BY <1>4, <4>2, DeclaredAre
        <5>2. i - 1 \in 0 .. All
          BY <1>4
        <5>3. before \in Nat
          BY <1>4, <5>2, DeclaredAre
        <5>4. Before(i) = Programme + before /\ Before(i + 1) = Programme + after
          BY <1>4, BeforeNext DEF Before
        <5>5. s.latency \in Nat
          BY <5>1 DEF SourceStage
        <5> HIDE DEF before, after
        <5> QED BY <1>4, <4>3, <5>1, <5>3, <5>4, <5>5
      <4>5. Before(drain.stage)' = Before(i + 1) /\ (Finite(drain.stage)' <=> Finite(i + 1))
        BY <1>1, <1>7, <1>10, TimingFixed
      <4>6. Taken \in Nat
        BY <1>4 DEF Taken
      <4> QED BY <2>3, <3>2, <3>3, <4>1, <4>4, <4>5, <4>6
    <3>4. CASE collector.obs.active
      <4>1. \E j \in 1 .. i : Enough(j)
        <5>1. CASE \E j \in 1 .. i - 1 : Enough(j)
          BY <1>4, <5>1
        <5>2. CASE First(i) /\ Taken = Before(i) + drain.generated
          <6>1. Unknown(s) /\ ~Stopped
            BY <3>2, <5>2 DEF First, Counting
          <6>2. ExhaustedUnknown
            BY <1>6, <3>1, <6>1 DEF ExhaustedUnknown, Halted
          <6>3. drain.generated >= SourceLimit(i)
            BY <1>6, <3>1, <6>2
          <6>4. Taken >= Before(i) + SourceLimit(i)
            <7>1. i - 1 \in 0 .. All
              BY <1>4
            <7>2. Declared(i - 1) \in Nat /\ SourceLimit(i) \in Nat
              BY <1>4, <7>1, DeclaredAre
            <7>3. Before(i) \in Nat
              BY <1>4, <7>2 DEF Before
            <7>4. drain.generated \in Nat
              BY DEF RenderInv, RenderTypeInv, DrainType
            <7> QED BY <5>2, <6>3, <7>2, <7>3, <7>4
          <6>5. Enough(i)
            BY <5>2, <6>4 DEF Enough
          <6> QED BY <1>4, <6>5
        <5> QED BY <1>1, <3>2, <3>4, <5>1, <5>2 DEF RenderInv, DrainedInv
      <4>2. PICK j \in 1 .. i : Enough(j)
        BY <4>1
      <4>3. Enough(j)' /\ j \in 1 .. drain'.stage - 1
        BY <1>1, <1>4, <1>7, <1>10, <2>3, <4>2, EnoughStands
      <4> QED BY <3>2, <3>4, <4>3
    <3> QED BY <3>3, <3>4
  <2>10. AnsweredInv' /\ FedInv' /\ ResampledInv' /\ LimitedInv' /\ DoneInv'
    BY <2>3 DEF AnsweredInv, FedInv, ResampledInv, LimitedInv, DoneInv, Done, Rendering
  <2>11. DirectInv' /\ ResultsInv'
    BY <1>1, Untouched DEF RenderInv
  <2> QED BY <2>4, <2>5, <2>6, <2>7, <2>8, <2>9, <2>10, <2>11 DEF RenderInv
<1> QED BY <1>9, <1>10

\* After the last stage comes the rate boundary, or the limiter.
LEMMA EndDrainKeeps == ASSUME RenderInv, EndDrain PROVE RenderInv'
<1>1. /\ phase = "drain" /\ drain.stage > Len(Stages) /\ drain' = NoDrain
      /\ phase' = (IF Resampled THEN "boundary" ELSE "limiter")
      /\ boundary' = [boundary EXCEPT !.generated = 0]
      /\ UNCHANGED <<setup, actual, timing, block, fed, direct, collector, outcomes>>
  BY DEF EndDrain
<1>2. UNCHANGED <<failed, changed, ranOut, held, results>>
  BY <1>1 DEF outcomes
<1>3. /\ drain'.stage = 0 /\ drain'.generated = 0 /\ drain'.limit = 0 /\ drain'.left = 0
      /\ drain'.started = FALSE /\ drain'.terminal = FALSE /\ drain'.open = FALSE
      /\ drain' = [stage |-> 0, generated |-> 0, limit |-> 0, left |-> 0,
                   started |-> FALSE, terminal |-> FALSE, open |-> FALSE]
  BY <1>1 DEF NoDrain
<1>4. /\ RatesSound /\ Programme \in Nat /\ TimingType(timing) /\ block \in Nat /\ All \in Nat
      /\ All = Len(Stages) /\ boundary.seen \in Nat
      /\ CollectorType(collector) /\ collector.out \in Nat
      /\ boundary = [seen |-> boundary.seen, generated |-> boundary.generated]
  BY DEF RenderInv, RenderTypeInv, TimingType, All, Stages, CollectorType
<1>5. drain.stage = All + 1 /\ ~drain.open /\ drain.generated = 0
  <2>1. drain.stage \in 1 .. All + 1 /\ (drain.open => drain.stage <= All)
        /\ (~drain.open => drain.generated = 0)
    BY <1>1 DEF RenderInv, FlowInv
  <2> QED BY <1>1, <1>4, <2>1
<1>6. /\ boundary' = [seen |-> boundary.seen, generated |-> 0]
      /\ boundary'.seen = boundary.seen /\ boundary'.generated = 0
  BY <1>1, <1>4
<1>7. RenderTypeInv'
  <2>1. DrainType'
    BY <1>3 DEF DrainType
  <2>2. /\ TimingType(timing)' /\ TimingType(actual)' /\ Len(actual.stages)' = Len(timing.stages)'
        /\ RatesSound' /\ Programme' \in Nat
    BY <1>1, SetupFixed DEF RenderInv, RenderTypeInv, TimingType
  <2>3. CollectorType(collector)'
    BY <1>1 DEF RenderInv, RenderTypeInv, CollectorType, ObservationType
  <2>4. /\ phase' \in {"idle", "feed", "drain", "boundary", "limiter"}
        /\ block' \in Nat /\ (Rendering' => block' # 0) /\ fed' \in Nat
        /\ {failed', changed', ranOut'} \subseteq BOOLEAN /\ held' \in Nat
    BY <1>1, <1>2 DEF RenderInv, RenderTypeInv, Rendering
  <2> QED BY <1>4, <1>6, <2>1, <2>2, <2>3, <2>4 DEF RenderTypeInv
<1>8. FlowInv'
  <2>1. phase' = "boundary" => Resampled'
    BY <1>1, SetupFixed
  <2>2. 0 <= NearestOut(boundary.seen)' - Rendered(boundary.seen)'
    <3>1. /\ NearestOut(boundary.seen)' = NearestOut(boundary.seen)
          /\ Rendered(boundary.seen)' = Rendered(boundary.seen)
      BY <1>1, <1>6, SetupFixed
    <3>2. /\ Rendered(boundary.seen) \in Nat /\ NearestOut(boundary.seen) \in Nat
          /\ Rendered(boundary.seen) <= NearestOut(boundary.seen)
      BY <1>4, RenderedAre
    <3> QED BY <3>1, <3>2
  <2>3. 0 <= actual'.limiter
    BY <1>1 DEF RenderInv, RenderTypeInv, TimingType
  <2>4. ~changed' => timing' = actual' /\ ~failed'
    BY <1>1, <1>2 DEF RenderInv, FlowInv
  <2>5. phase' \notin {"feed", "drain"}
    BY <1>1
  <2> QED BY <1>6, <2>1, <2>2, <2>3, <2>4, <2>5 DEF FlowInv
<1>9. Watched'
  BY <1>1, <1>2, WatchStands DEF RenderInv
<1>10. ReportedInv'
  BY <1>1, <1>2, <1>5 DEF RenderInv, ReportedInv, Rendering, Stopped
<1>11. Taken' = Taken /\ (Stopped' <=> Stopped) /\ (Counting' <=> Counting)
  BY <1>1, <1>2, <1>6, SetupFixed DEF Taken, Stopped, Counting
<1>12. OutInv'
  <2>1. ASSUME ~Stopped', Resampled' PROVE collector'.out = Rendered(boundary.seen)' + 0
    <3>1. Resampled /\ Rendered(boundary.seen)' = Rendered(boundary.seen)
      BY <1>1, <1>6, <2>1, SetupFixed
    <3>2. collector.out = Rendered(boundary.seen) + 0
      BY <1>1, <1>11, <2>1, <3>1 DEF RenderInv, OutInv
    <3> QED BY <1>1, <3>1, <3>2
  <2> QED BY <1>6, <2>1 DEF OutInv
<1>13. Counting => IF ~collector.obs.active
                   THEN Taken = Before(All + 1) /\ Finite(All + 1)
                   ELSE \E i \in 1 .. All : Enough(i)
  <2> SUFFICES ASSUME Counting
               PROVE  IF ~collector.obs.active
                      THEN Taken = Before(All + 1) /\ Finite(All + 1)
                      ELSE \E i \in 1 .. All : Enough(i)
    OBVIOUS
  <2>1. CASE ~collector.obs.active
    <3>1. Taken = Before(All + 1) + 0 /\ Finite(All + 1)
      BY <1>1, <1>5, <2>1 DEF RenderInv, DrainedInv
    <3>2. Before(All + 1) \in Nat
      <4>1. All \in 0 .. All
        BY <1>4
      <4>2. Declared(All) \in Nat
        BY <1>4, <4>1, DeclaredAre
      <4>3. Before(All + 1) = Programme + Declared(All)
        BY <1>4, BeforeNext
      <4> QED BY <1>4, <4>2, <4>3
    <3> QED BY <2>1, <3>1, <3>2
  <2>2. CASE collector.obs.active
    <3>1. \E i \in 1 .. drain.stage - 1 : Enough(i)
      BY <1>1, <1>5, <2>2 DEF RenderInv, DrainedInv
    <3> QED BY <1>4, <1>5, <2>2, <3>1
  <2> QED BY <2>1, <2>2
<1>14. ResampledInv'
  <2>1. All' = All
    BY <1>1, TimingFixed
  <2>2. /\ Before(All + 1)' = Before(All + 1) /\ (Finite(All + 1)' <=> Finite(All + 1))
    BY <1>1, <2>1, TimingFixed
  <2>3. \A i : Enough(i)' <=> Enough(i)
    BY <1>1, <1>11, EnoughStands
  <2> QED BY <1>1, <1>11, <1>13, <2>1, <2>2, <2>3 DEF ResampledInv
<1>15. LimitedInv'
  <2> SUFFICES ASSUME phase' = "limiter", Counting'
               PROVE  /\ ~collector'.obs.active /\ Finite(All + 1)'
                      /\ collector'.out = NearestOut(Before(All + 1))' + 0
    BY <1>6 DEF LimitedInv
  <2>1. ~Resampled /\ Counting /\ collector' = collector /\ Taken = collector.out
    BY <1>1, <1>11 DEF Taken
  <2>2. ~collector.obs.active
    <3> SUFFICES ASSUME collector.obs.active PROVE FALSE
      OBVIOUS
    <3>1. PICK i \in 1 .. All : Enough(i)
      BY <1>13, <2>1
    <3>2. First(i) /\ Taken >= Before(i) + SourceLimit(i)
      BY <3>1 DEF Enough
    <3>3. Watches(Base(i), collector)
      BY <1>4, <2>1, <3>2, OneFirst DEF RenderInv, Watched, Counting
    <3>4. ~collector.obs.stopped
      BY <2>1 DEF Counting, Stopped
    <3>5. collector.out < NearestOut(collector.out)
      BY <1>4, <2>1, <3>1, <3>2, <3>3, <3>4, Overrun
    <3>6. NearestOut(collector.out) = collector.out
      BY <1>4, <2>1, SameRate
    <3> QED BY <1>4, <3>5, <3>6
  <2>3. Taken = Before(All + 1) /\ Finite(All + 1)
    BY <1>13, <2>1, <2>2
  <2>4. NearestOut(Before(All + 1)) = collector.out
    BY <1>4, <2>1, <2>3, SameRate
  <2>5. /\ NearestOut(Before(All + 1))' = NearestOut(Before(All + 1))
        /\ (Finite(All + 1)' <=> Finite(All + 1))
    BY <1>1, TimingFixed, SetupFixed
  <2> QED BY <1>4, <2>1, <2>2, <2>3, <2>4, <2>5
<1>16. AnsweredInv' /\ FedInv' /\ DrainedInv' /\ DoneInv'
  BY <1>1 DEF AnsweredInv, FedInv, DrainedInv, DoneInv, Done, Rendering
<1>17. DirectInv' /\ ResultsInv'
  BY <1>1, <1>2, Untouched DEF RenderInv
<1> QED BY <1>7, <1>8, <1>9, <1>10, <1>12, <1>14, <1>15, <1>16, <1>17 DEF RenderInv

\* The resampler ends within its limit, and then all frames it saw are out.
LEMMA FinishBoundaryKeeps == ASSUME RenderInv, FinishBoundary PROVE RenderInv'
<1> DEFINE all == NearestOut(boundary.seen)
           rendered == Rendered(boundary.seen)
           ceil == CeilOut(boundary.seen)
           g == boundary.generated
           limit == BoundaryLimit
           capacity == Lesser(block, limit - g)
           left == all - rendered - g
           n == Lesser(capacity, left)
           more == IF n < capacity THEN 0 ELSE g + n
<1>1. phase = "boundary" /\ UNCHANGED <<setup, actual, timing, block, fed, direct, changed, held, results>>
  BY DEF FinishBoundary
<1>2. /\ RatesSound /\ Programme \in Nat /\ TimingType(timing) /\ block \in Nat /\ block # 0 /\ All \in Nat
      /\ boundary.seen \in Nat /\ g \in Nat
      /\ CollectorType(collector) /\ collector.out \in Nat
      /\ boundary = [seen |-> boundary.seen, generated |-> boundary.generated]
  BY <1>1 DEF RenderInv, RenderTypeInv, TimingType, All, Stages, CollectorType, Rendering
<1>3. /\ all \in Nat /\ rendered \in Nat /\ ceil \in Nat /\ all <= ceil
      /\ Resampled /\ g <= all - rendered
  <2>1. all \in Nat /\ rendered \in Nat /\ ceil \in Nat
    BY <1>2, RenderedAre, Ceiling
  <2>2. all <= ceil
    BY <1>2, Roundings
  <2> QED BY <1>1, <2>1, <2>2 DEF RenderInv, FlowInv
<1>4. limit = Greater(ceil + 0 + block, 1)
  BY DEF BoundaryLimit, FinishFrameLimit
<1> HIDE DEF all, rendered, ceil, limit
<1>5. g < limit /\ limit \in Nat
  BY <1>2, <1>3, <1>4 DEF Greater
<1> HIDE DEF g
<1>6. capacity \in Nat /\ capacity > 0 /\ left \in Nat
  BY <1>2, <1>3, <1>5 DEF Lesser
<1> HIDE DEF capacity
<1>7. n \in Nat /\ n <= left /\ (n < capacity => n = left) /\ more \in Nat
  <2> HIDE DEF left
  <2> QED BY <1>2, <1>6 DEF Lesser
<1>8. /\ collector' = Collect(collector, n)
      /\ phase' = (IF n < capacity THEN "limiter" ELSE "boundary")
      /\ boundary' = [boundary EXCEPT !.generated = more]
      /\ UNCHANGED <<drain, failed, ranOut>>
  <2>1. ~(boundary.generated >= BoundaryLimit)
    BY <1>2, <1>5 DEF limit, g
  <2>2. /\ collector' = Collect(collector, n)
        /\ phase' = (IF n < capacity THEN "limiter" ELSE "boundary")
        /\ boundary' = [boundary EXCEPT !.generated = IF n < capacity THEN 0 ELSE @ + n]
        /\ UNCHANGED <<drain, failed, ranOut>>
    BY <2>1 DEF FinishBoundary, all, rendered, limit, g, capacity
  <2>3. boundary.generated = g
    BY DEF g
  <2> HIDE DEF n
  <2> QED BY <2>2, <2>3
<1> HIDE DEF n, more
<1>9. boundary' = [seen |-> boundary.seen, generated |-> more]
      /\ boundary'.seen = boundary.seen /\ boundary'.generated = more
  BY <1>2, <1>8
<1>10. Grows(collector') /\ (~collector'.obs.stopped => ~Stopped /\ collector'.out = collector.out + n)
  <2>1. Grows(collector')
        /\ (~collector'.obs.stopped => ~collector.obs.stopped /\ collector'.out = collector.out + n)
    BY <1>7, <1>8, Collecting DEF RenderInv
  <2> QED BY <2>1 DEF Stopped
<1>11. RenderTypeInv'
  <2>1. DrainType'
    BY <1>8 DEF RenderInv, RenderTypeInv, DrainType
  <2>2. /\ TimingType(timing)' /\ TimingType(actual)' /\ Len(actual.stages)' = Len(timing.stages)'
        /\ RatesSound' /\ Programme' \in Nat
    BY <1>1, SetupFixed DEF RenderInv, RenderTypeInv, TimingType
  <2>3. CollectorType(collector)'
    BY <1>10 DEF Grows, CollectorType, ObservationType
  <2>4. /\ phase' \in {"idle", "feed", "drain", "boundary", "limiter"}
        /\ block' \in Nat /\ (Rendering' => block' # 0) /\ fed' \in Nat
        /\ {failed', changed', ranOut'} \subseteq BOOLEAN /\ held' \in Nat
    BY <1>1, <1>8 DEF RenderInv, RenderTypeInv, Rendering
  <2> QED BY <1>2, <1>7, <1>9, <2>1, <2>2, <2>3, <2>4 DEF RenderTypeInv
<1>12. /\ NearestOut(boundary.seen)' = all /\ Rendered(boundary.seen)' = rendered
       /\ (Resampled' <=> Resampled) /\ All' = All
       /\ Before(All + 1)' = Before(All + 1) /\ (Finite(All + 1)' <=> Finite(All + 1))
       /\ NearestOut(Before(All + 1))' = NearestOut(Before(All + 1))
  <2>1. /\ NearestOut(boundary.seen)' = all /\ Rendered(boundary.seen)' = rendered
        /\ (Resampled' <=> Resampled)
    BY <1>1, <1>9, SetupFixed DEF all, rendered
  <2>2. /\ All' = All /\ Before(All + 1)' = Before(All + 1) /\ (Finite(All + 1)' <=> Finite(All + 1))
    BY <1>1, TimingFixed
  <2>3. NearestOut(Before(All + 1))' = NearestOut(Before(All + 1))
    BY <1>1, <2>2, SetupFixed
  <2> QED BY <2>1, <2>2, <2>3
<1>13. FlowInv'
  <2>1. more <= all - rendered
    BY <1>2, <1>3, <1>6, <1>7 DEF more, left
  <2>2. more = 0 \/ phase' = "boundary"
    BY <1>8 DEF more
  <2>3. 0 <= actual'.limiter
    BY <1>1 DEF RenderInv, RenderTypeInv, TimingType
  <2>4. ~changed' => timing' = actual' /\ ~failed'
    BY <1>1, <1>8 DEF RenderInv, FlowInv
  <2>5. phase' \notin {"feed", "drain"} /\ (phase' = "limiter" => more = 0)
    BY <1>8 DEF more
  <2> QED BY <1>3, <1>9, <1>12, <2>1, <2>3, <2>4, <2>5 DEF FlowInv
<1>14. Watched'
  BY <1>1, <1>10, WatchKept DEF RenderInv
<1>15. ReportedInv'
  <2>1. ReportedInv /\ Rendering
    BY <1>1 DEF RenderInv, Rendering
  <2>2. collector'.truncated = collector.truncated /\ collector'.obs.active = collector.obs.active
        /\ (~Stopped' => ~Stopped)
    BY <1>10 DEF Grows, Stopped
  <2> QED BY <1>1, <1>8, <2>1, <2>2 DEF ReportedInv
<1>16. ~Stopped => collector.out = rendered + g
  BY <1>1, <1>3 DEF RenderInv, OutInv, rendered, g
<1>17. OutInv'
  <2>1. ASSUME phase' = "boundary", ~Stopped' PROVE collector'.out = rendered + more
    <3>1. ~Stopped /\ collector'.out = collector.out + n /\ more = g + n
      BY <1>8, <1>10, <2>1 DEF Stopped, more
    <3> QED BY <1>2, <1>3, <1>7, <1>16, <3>1
  <2> QED BY <1>8, <1>9, <1>12, <2>1 DEF OutInv
<1>18. Counting' => Counting /\ collector'.out = collector.out + n
                    /\ (collector'.obs.active <=> collector.obs.active)
  BY <1>1, <1>10 DEF Counting, Stopped, Grows
<1>19. Taken' = Taken /\ Taken = boundary.seen
  BY <1>3, <1>9, <1>12 DEF Taken
<1>20. Counting => IF ~collector.obs.active
                   THEN Taken = Before(All + 1) /\ Finite(All + 1)
                   ELSE \E i \in 1 .. All : Enough(i)
  BY <1>1 DEF RenderInv, ResampledInv
<1>21. ResampledInv'
  <2>1. \A i : Enough(i)' <=> Enough(i)
    BY <1>1, <1>19, EnoughStands
  <2> QED BY <1>12, <1>18, <1>19, <1>20, <2>1 DEF ResampledInv
<1>22. LimitedInv'
  <2> SUFFICES ASSUME phase' = "limiter", Counting'
               PROVE  /\ ~collector.obs.active /\ Finite(All + 1)
                      /\ collector'.out = NearestOut(Before(All + 1)) + more
    BY <1>9, <1>12, <1>18 DEF LimitedInv
  <2>1. n = left /\ more = 0
    BY <1>7, <1>8 DEF more
  <2>2. Counting /\ collector'.out = all
    <3>1. Counting /\ collector'.out = collector.out + n /\ collector.out = rendered + g
      BY <1>16, <1>18 DEF Counting
    <3> QED BY <1>2, <1>3, <2>1, <3>1 DEF left
  <2>3. ~collector.obs.active
    <3> SUFFICES ASSUME collector.obs.active PROVE FALSE
      OBVIOUS
    <3>1. PICK i \in 1 .. All : Enough(i)
      BY <1>20, <2>2
    <3>2. First(i) /\ boundary.seen >= Before(i) + SourceLimit(i)
      BY <1>19, <3>1 DEF Enough
    <3>3. Watches(Base(i), collector) /\ Base(i) \in Nat
      BY <1>2, <2>2, <3>2, OneFirst DEF RenderInv, Watched, Counting
    <3>4. Watches(Base(i), collector') /\ CollectorType(collector')
      BY <1>10, <3>3 DEF Grows
    <3>5. ~collector'.obs.stopped
      BY DEF Counting, Stopped
    <3>6. collector'.out < NearestOut(boundary.seen)
      BY <1>2, <3>1, <3>2, <3>4, <3>5, Overrun
    <3> QED BY <1>3, <2>2, <3>6 DEF all
  <2>4. boundary.seen = Before(All + 1) /\ Finite(All + 1)
    BY <1>19, <1>20, <2>2, <2>3
  <2> QED BY <1>3, <2>1, <2>2, <2>3, <2>4 DEF all
<1>23. AnsweredInv' /\ FedInv' /\ DrainedInv' /\ DoneInv'
  BY <1>8 DEF AnsweredInv, FedInv, DrainedInv, DoneInv, Done, Rendering
<1>24. DirectInv' /\ ResultsInv'
  BY <1>1, Untouched DEF RenderInv
<1> QED BY <1>11, <1>13, <1>14, <1>15, <1>17, <1>21, <1>22, <1>23, <1>24 DEF RenderInv

\* The result of a render that ends with what it has collected, while no parameters
\* changed.
LEMMA Closing ==
  ASSUME RenderInv, phase = "limiter", ~changed, NEW n \in Nat, NEW after,
         after = Collect(collector, n), boundary.generated + n = actual.limiter
  PROVE  /\ ~after.obs.stopped => /\ ~after.obs.active /\ after.out = Owed
                                  /\ ~after.truncated /\ ~after.obs.capped
         /\ Closed(Result(after))
<1>1. /\ RatesSound /\ Programme \in Nat /\ TimingType(timing) /\ All \in Nat
      /\ boundary.generated \in Nat /\ CollectorType(collector) /\ ranOut \in BOOLEAN
  BY DEF RenderInv, RenderTypeInv, TimingType, All, Stages
<1>2. Grows(after)
      /\ (~after.obs.stopped => ~collector.obs.stopped /\ after.out = collector.out + n)
  BY Collecting DEF RenderInv
<1>3. /\ CollectorType(after) /\ after.truncated \in BOOLEAN /\ after.obs.capped \in BOOLEAN
      /\ after.obs.active = collector.obs.active /\ after.truncated = collector.truncated
      /\ ~collector.obs.active => after.obs = collector.obs
  BY <1>2 DEF Grows, CollectorType, ObservationType
<1>4. (after.truncated => ranOut) /\ (~collector.obs.active => ~collector.truncated)
  BY <1>3 DEF RenderInv, ReportedInv, Rendering
<1>5. ~collector.obs.active => ~collector.obs.stopped /\ ~collector.obs.capped
  BY DEF RenderInv, Watched, Stopped
<1>6. ASSUME ~collector.obs.stopped
      PROVE  /\ ~collector.obs.active /\ Finite(All + 1)
             /\ collector.out = NearestOut(Before(All + 1)) + boundary.generated
  BY <1>6 DEF RenderInv, LimitedInv, Counting, Stopped
<1>7. Owed = NearestOut(Before(All + 1)) + actual.limiter /\ NearestOut(Before(All + 1)) \in Nat
  <2>1. Before(All + 1) = Programme + Declared(All)
    BY <1>1, BeforeNext
  <2>2. timing = actual
    BY DEF RenderInv, FlowInv
  <2>3. Programme + Declared(All) \in Nat
    <3>1. All \in 0 .. All /\ block \in Nat
      BY <1>1 DEF RenderInv, RenderTypeInv
    <3>2. Declared(All) \in Nat
      BY <1>1, <3>1, DeclaredAre
    <3> QED BY <1>1, <3>2
  <2>4. NearestOut(Before(All + 1)) \in Nat
    BY <1>1, <2>1, <2>3, Nearest
  <2> QED BY <2>1, <2>2, <2>4 DEF Owed
<1>8. ASSUME ~after.obs.stopped
      PROVE  /\ ~after.obs.active /\ after.out = Owed /\ Finite(All + 1)
             /\ ~after.truncated /\ ~after.obs.capped
  <2>1. ~collector.obs.stopped /\ after.out = collector.out + n
    BY <1>2, <1>8
  <2>2. ~collector.obs.active /\ Finite(All + 1)
        /\ collector.out = NearestOut(Before(All + 1)) + boundary.generated
    BY <1>6, <2>1
  <2>3. after.out = Owed
    BY <1>1, <1>7, <2>1, <2>2
  <2> QED BY <1>3, <1>4, <1>5, <2>2, <2>3
<1> DEFINE r == Result(after)
<1>9. /\ r = [frames |-> r.frames, truncated |-> r.truncated, ranOut |-> r.ranOut]
      /\ r.frames = after.out /\ r.truncated = (after.truncated \/ after.obs.capped)
      /\ r.ranOut = ranOut
  BY DEF Result
<1> HIDE DEF r
<1>10. CASE after.obs.stopped
  <2>1. collector.obs.active
    BY <1>3, <1>5, <1>10
  <2>2. PICK base \in Nat : /\ Watches(base, collector)
                            /\ \E i \in 1 .. All : First(i) /\ base = Base(i) /\ held = HeldAt(i)
    BY <2>1 DEF RenderInv, Watched
  <2>3. PICK i \in 1 .. All : First(i) /\ base = Base(i)
    BY <2>2
  <2>4. Watches(base, after)
    BY <1>2, <2>1, <2>2 DEF Grows
  <2>5. Verdict(Base(i), r.frames, after.obs.capped)
    BY <1>9, <1>10, <2>3, <2>4 DEF Watches
  <2>6. ~r.ranOut => r.truncated = after.obs.capped
    BY <1>3, <1>4, <1>9
  <2> QED BY <1>1, <1>3, <1>9, <1>10, <2>3, <2>5, <2>6 DEF Closed, r
<1>11. CASE ~after.obs.stopped
  <2>1. r.frames = Owed /\ r.truncated = FALSE /\ Finite(All + 1)
    BY <1>3, <1>8, <1>9, <1>11
  <2> QED BY <1>1, <1>8, <1>9, <1>11, <2>1 DEF Closed, r
<1> QED BY <1>10, <1>11

\* The limiter ends within its limit, and with it the render.
LEMMA FinishLimiterKeeps == ASSUME RenderInv, FinishLimiter PROVE RenderInv'
<1> DEFINE g == boundary.generated
           limit == FinishFrameLimit(0, timing.limiter)
           capacity == Lesser(block, limit - g)
           n == Lesser(capacity, actual.limiter - g)
           more == g + n
           done == more = actual.limiter
           after == Collect(collector, n)
           t == after.truncated \/ after.obs.capped
<1>1. phase = "limiter" /\ UNCHANGED <<setup, actual, timing, block, fed, direct, changed, held>>
  BY DEF FinishLimiter
<1>2. /\ RatesSound /\ Programme \in Nat /\ TimingType(timing) /\ block \in Nat /\ block # 0 /\ All \in Nat
      /\ boundary.seen \in Nat /\ g \in Nat /\ timing.limiter \in Nat /\ actual.limiter \in Nat
      /\ CollectorType(collector) /\ g <= actual.limiter
      /\ boundary = [seen |-> boundary.seen, generated |-> boundary.generated]
      /\ Rendering /\ {failed, changed, ranOut} \subseteq BOOLEAN
  BY <1>1 DEF RenderInv, RenderTypeInv, TimingType, All, Stages, Rendering, FlowInv
<1>3. limit = Greater(0 + timing.limiter + block, 1)
  BY DEF FinishFrameLimit
<1> HIDE DEF limit
<1>4. limit \in Nat /\ (g >= limit => changed)
  <2>1. limit \in Nat /\ limit > timing.limiter
    BY <1>2, <1>3 DEF Greater
  <2>2. ~changed => timing = actual
    BY DEF RenderInv, FlowInv
  <2> QED BY <1>2, <2>1, <2>2
<1>5. g < limit => n \in Nat /\ more \in Nat /\ more <= actual.limiter
  <2> HIDE DEF g
  <2>1. g < limit => capacity \in Nat
    BY <1>2, <1>4 DEF Lesser
  <2> HIDE DEF capacity
  <2> QED BY <1>2, <2>1 DEF Lesser
<1>6. CASE g >= limit
  <2>1. /\ failed' = TRUE /\ phase' = "idle" /\ drain' = NoDrain
        /\ UNCHANGED <<collector, ranOut, boundary, results>>
    BY <1>6 DEF FinishLimiter, FailRender, limit
  <2>2. changed
    BY <1>4, <1>6
  <2>3. DrainType'
    <3>1. drain' = [stage |-> 0, generated |-> 0, limit |-> 0, left |-> 0,
                    started |-> FALSE, terminal |-> FALSE, open |-> FALSE]
      BY <2>1 DEF NoDrain
    <3>2. /\ drain'.stage = 0 /\ drain'.generated = 0 /\ drain'.limit = 0 /\ drain'.left = 0
          /\ drain'.started = FALSE /\ drain'.terminal = FALSE /\ drain'.open = FALSE
      BY <3>1
    <3> QED BY <3>1, <3>2 DEF DrainType
  <2>4. RenderTypeInv'
    <3>1. /\ TimingType(timing)' /\ TimingType(actual)' /\ Len(actual.stages)' = Len(timing.stages)'
          /\ RatesSound' /\ Programme' \in Nat
      BY <1>1, SetupFixed DEF RenderInv, RenderTypeInv, TimingType
    <3>2. CollectorType(collector)'
      BY <2>1 DEF RenderInv, RenderTypeInv, CollectorType, ObservationType
    <3> QED BY <1>1, <2>1, <2>3, <3>1, <3>2 DEF RenderInv, RenderTypeInv, Rendering
  <2>5. FlowInv'
    BY <1>1, <2>1, <2>2 DEF FlowInv
  <2>6. Watched'
    BY <1>1, <2>1, WatchStands DEF RenderInv
  <2>7. ReportedInv' /\ AnsweredInv' /\ OutInv' /\ FedInv' /\ DrainedInv' /\ ResampledInv' /\ LimitedInv'
        /\ DoneInv'
    BY <2>1 DEF ReportedInv, AnsweredInv, OutInv, FedInv, DrainedInv, ResampledInv, LimitedInv,
                DoneInv, Done, Rendering
  <2>8. DirectInv' /\ ResultsInv'
    BY <1>1, <2>1, Untouched DEF RenderInv
  <2> QED BY <2>4, <2>5, <2>6, <2>7, <2>8 DEF RenderInv
<1>7. CASE g < limit
  <2>1. /\ phase' = (IF done THEN "idle" ELSE "limiter")
        /\ boundary' = [boundary EXCEPT !.generated = more]
        /\ collector' = (IF done THEN [after EXCEPT !.truncated = Result(after).truncated] ELSE after)
        /\ results' = (IF done /\ ~changed
                       THEN [b \in DOMAIN results \cup {block} |->
                               IF b = block THEN Result(after) ELSE results[b]]
                       ELSE results)
        /\ UNCHANGED <<drain, failed, ranOut>>
    <3>1. ~(boundary.generated >= FinishFrameLimit(0, timing.limiter))
      BY <1>2, <1>4, <1>7 DEF limit
    <3> QED BY <3>1 DEF FinishLimiter, limit
  <2>2. n \in Nat /\ more \in Nat /\ more <= actual.limiter
    BY <1>5, <1>7
  <2> HIDE DEF n
  <2>3. Grows(after)
        /\ (~after.obs.stopped => ~collector.obs.stopped /\ after.out = collector.out + n)
    BY <2>2, Collecting DEF RenderInv
  <2>4. /\ CollectorType(after) /\ after.truncated \in BOOLEAN /\ after.obs.capped \in BOOLEAN
        /\ after = [obs |-> after.obs, out |-> after.out, truncated |-> after.truncated]
        /\ after.obs.active = collector.obs.active /\ after.truncated = collector.truncated
        /\ collector.obs.stopped => after = collector
        /\ ~collector.obs.active => after.obs = collector.obs
    BY <2>3 DEF Grows, CollectorType, ObservationType
  <2>5. Result(after).truncated = t
    BY DEF Result
  <2>6. ~done => collector' = after
    BY <2>1
  <2> HIDE DEF after
  <2>7. /\ collector'.obs = after.obs /\ collector'.out = after.out /\ CollectorType(collector)'
        /\ collector'.truncated = (IF done THEN t ELSE after.truncated)
    <3>1. CASE done
      <4>1. collector' = [after EXCEPT !.truncated = t]
        BY <2>1, <2>5, <3>1
      <4>2. t \in BOOLEAN
        BY <2>4
      <4> HIDE DEF t
      <4>3. collector' = [obs |-> after.obs, out |-> after.out, truncated |-> t]
        BY <2>4, <4>1
      <4> HIDE DEF done
      <4> QED BY <2>4, <3>1, <4>2, <4>3 DEF CollectorType, ObservationType
    <3>2. CASE ~done
      BY <2>4, <2>6, <3>2 DEF CollectorType, ObservationType
    <3> QED BY <3>1, <3>2
  <2>8. boundary' = [seen |-> boundary.seen, generated |-> more]
        /\ boundary'.seen = boundary.seen /\ boundary'.generated = more
    BY <1>2, <2>1
  <2> HIDE DEF more
  <2>9. RenderTypeInv'
    <3>1. /\ TimingType(timing)' /\ TimingType(actual)' /\ Len(actual.stages)' = Len(timing.stages)'
          /\ RatesSound' /\ Programme' \in Nat
      BY <1>1, SetupFixed DEF RenderInv, RenderTypeInv, TimingType
    <3>2. DrainType'
      BY <2>1 DEF RenderInv, RenderTypeInv, DrainType
    <3>3. /\ phase' \in {"idle", "feed", "drain", "boundary", "limiter"}
          /\ block' \in Nat /\ (Rendering' => block' # 0) /\ fed' \in Nat
          /\ {failed', changed', ranOut'} \subseteq BOOLEAN /\ held' \in Nat
      BY <1>1, <1>2, <2>1 DEF RenderInv, RenderTypeInv, Rendering
    <3> QED BY <1>2, <2>2, <2>7, <2>8, <3>1, <3>2, <3>3 DEF RenderTypeInv
  <2>10. FlowInv'
    <3>1. ~changed' => timing' = actual' /\ ~failed'
      BY <1>1, <2>1 DEF RenderInv, FlowInv
    <3>2. phase' \notin {"feed", "drain", "boundary"} /\ actual' = actual
      BY <1>1, <2>1
    <3> QED BY <2>2, <2>8, <3>1, <3>2 DEF FlowInv
  <2>11. Watched'
    <3>1. collector'.obs.stopped \/ collector'.obs.capped => collector'.obs.active
      <4>1. CASE collector.obs.active
        BY <2>4, <2>7, <4>1
      <4>2. CASE ~collector.obs.active
        BY <2>4, <2>7, <4>2 DEF RenderInv, Watched, Stopped
      <4> QED BY <4>1, <4>2
    <3>2. ASSUME collector'.obs.active
          PROVE  \E base \in Nat :
                   /\ Watches(base, collector)'
                   /\ changed' \/ \E i \in 1 .. All' : First(i)' /\ base = Base(i)' /\ held' = HeldAt(i)'
      <4>1. PICK base \in Nat :
              /\ Watches(base, collector)
              /\ ~changed => \E i \in 1 .. All : First(i) /\ base = Base(i) /\ held = HeldAt(i)
        BY <2>4, <2>7, <3>2 DEF RenderInv, Watched
      <4>2. Watches(base, after)
        BY <2>3, <2>4, <2>7, <3>2, <4>1 DEF Grows
      <4>3. Watches(base, collector')
        BY <2>7, <4>2 DEF Watches
      <4>4. Watches(base, collector)'
        BY <1>1, <4>3, SetupFixed
      <4>5. changed' \/ \E i \in 1 .. All' : First(i)' /\ base = Base(i)' /\ held' = HeldAt(i)'
        BY <1>1, <4>1, TimingFixed
      <4> QED BY <4>4, <4>5
    <3> QED BY <1>1, <3>1, <3>2 DEF Watched, Stopped
  <2>12. /\ collector.truncated => ranOut
         /\ ~(collector.obs.active /\ ~Stopped /\ ~collector.truncated)
         /\ ~collector.obs.active /\ ~changed => held = 0 /\ ~collector.truncated
    BY <1>1, <1>2 DEF RenderInv, ReportedInv
  <2>13. ~after.obs.stopped => ~Stopped
    BY <2>3 DEF Stopped
  <2>14. ReportedInv'
    <3>1. CASE done
      BY <2>1, <3>1 DEF ReportedInv, Rendering
    <3>2. CASE ~done
      BY <1>1, <2>1, <2>4, <2>7, <2>12, <2>13, <3>2 DEF ReportedInv, Rendering, Stopped
    <3> QED BY <3>1, <3>2
  <2>15. AnsweredInv'
    <3> SUFFICES ASSUME done, collector'.obs.active
                 PROVE  IF collector'.truncated THEN ranOut' \/ collector'.obs.generated = TailFrames'
                        ELSE Stopped' /\ ~collector'.obs.capped
      BY <2>1 DEF AnsweredInv, Done, Rendering
    <3>1. collector'.truncated = t /\ collector'.obs = after.obs
      BY <2>7
    <3>2. collector.obs.active
      BY <2>4, <3>1
    <3>3. PICK base \in Nat : Watches(base, collector)
      BY <3>2 DEF RenderInv, Watched
    <3>4. Watches(base, after)
      BY <2>3, <3>2, <3>3 DEF Grows
    <3>5. after.obs.capped => after.obs.generated = TailFrames
      BY <3>4 DEF Watches, Watching
    <3>6. TailFrames' = TailFrames
      BY <1>1, SetupFixed
    <3>7. ~after.truncated => after.obs.stopped
      BY <2>4, <2>12, <2>13, <3>2
    <3>8. after.truncated => ranOut'
      BY <2>1, <2>4, <2>12
    <3> QED BY <3>1, <3>5, <3>6, <3>7, <3>8 DEF Stopped
  <2>16. OutInv' /\ FedInv' /\ DrainedInv' /\ ResampledInv'
    BY <2>1 DEF OutInv, FedInv, DrainedInv, ResampledInv
  <2>17. LimitedInv'
    <3> SUFFICES ASSUME ~done, Counting'
                 PROVE  /\ ~collector'.obs.active /\ Finite(All + 1)'
                        /\ collector'.out = NearestOut(Before(All + 1))' + more
      BY <2>1, <2>8 DEF LimitedInv
    <3>1. Counting /\ after.out = collector.out + n
      BY <1>1, <2>3, <2>7 DEF Counting, Stopped
    <3>2. ~collector.obs.active /\ Finite(All + 1)
          /\ collector.out = NearestOut(Before(All + 1)) + g
      BY <1>1, <3>1 DEF RenderInv, LimitedInv
    <3>3. /\ Before(All + 1)' = Before(All + 1) /\ (Finite(All + 1)' <=> Finite(All + 1))
          /\ NearestOut(Before(All + 1))' = NearestOut(Before(All + 1))
      BY <1>1, TimingFixed, SetupFixed
    <3>4. NearestOut(Before(All + 1)) \in Nat
      <4>1. All \in 0 .. All
        BY <1>2
      <4>2. Declared(All) \in Nat
        BY <1>2, <4>1, DeclaredAre
      <4>3. Before(All + 1) = Programme + Declared(All)
        BY <1>2, BeforeNext
      <4>4. Before(All + 1) \in Nat
        BY <1>2, <4>2, <4>3
      <4> QED BY <1>2, <4>4, Nearest
    <3> QED BY <1>2, <2>2, <2>4, <2>7, <3>1, <3>2, <3>3, <3>4 DEF more
  <2>18. done /\ ~changed =>
           /\ ~after.obs.stopped => /\ ~after.obs.active /\ after.out = Owed
                                    /\ ~after.truncated /\ ~after.obs.capped
           /\ Closed(Result(after))
    <3>1. ASSUME done, ~changed
          PROVE  /\ ~after.obs.stopped => /\ ~after.obs.active /\ after.out = Owed
                                          /\ ~after.truncated /\ ~after.obs.capped
                 /\ Closed(Result(after))
      <4>1. boundary.generated + n = actual.limiter
        BY <3>1 DEF more
      <4>2. after = Collect(collector, n)
        BY DEF after
      <4> QED BY <1>1, <2>2, <3>1, <4>1, <4>2, Closing
    <3> QED BY <3>1
  <2>19. DoneInv'
    <3> SUFFICES ASSUME done, Counting'
                 PROVE  ~collector'.obs.active /\ ~collector'.truncated /\ collector'.out = Owed'
      BY <2>1 DEF DoneInv, Done, Rendering
    <3>1. ~changed /\ ~after.obs.stopped
      BY <1>1, <2>7 DEF Counting, Stopped
    <3>2. Owed' = Owed
      BY <1>1, TimingFixed
    <3> QED BY <2>7, <2>18, <3>1, <3>2
  <2>20. DirectInv'
    BY <1>1, Untouched DEF RenderInv
  <2>21. ResultsInv'
    <3>1. CASE done /\ ~changed
      <4>1. /\ DOMAIN results' = DOMAIN results \cup {block}
            /\ \A b \in DOMAIN results' : results'[b] = IF b = block THEN Result(after) ELSE results[b]
        BY <2>1, <3>1
      <4>2. Closed(Result(after)) /\ \A b \in DOMAIN results : Closed(results[b])
        BY <2>18, <3>1 DEF RenderInv, ResultsInv
      <4>3. \A b \in DOMAIN results' : Closed(results'[b])
        BY <4>1, <4>2
      <4>4. \A r : Closed(r)' <=> Closed(r)
        BY <1>1, TimingFixed
      <4>5. \A b \in DOMAIN results' : Closed(results[b])'
        BY <4>3, <4>4
      <4> QED BY <1>1, <3>1, <4>5 DEF ResultsInv
    <3>2. CASE ~(done /\ ~changed)
      <4>1. results' = results
        BY <2>1, <3>2
      <4> QED BY <1>1, <4>1, Untouched DEF RenderInv
    <3> QED BY <3>1, <3>2
  <2> QED BY <2>9, <2>10, <2>11, <2>14, <2>15, <2>16, <2>17, <2>19, <2>20, <2>21 DEF RenderInv
<1> QED BY <1>2, <1>4, <1>6, <1>7

\* What is left alone stands.
LEMMA RestKeeps == ASSUME RenderInv, UNCHANGED renderVars PROVE RenderInv'
<1>1. /\ UNCHANGED <<setup, actual, timing, phase, block, fed, drain, boundary, direct, collector>>
      /\ UNCHANGED <<failed, changed, ranOut, held, results>>
  BY DEF renderVars, outcomes
<1>2. /\ All' = All /\ Owed' = Owed /\ TailFrames' = TailFrames /\ (Resampled' <=> Resampled)
      /\ Taken' = Taken /\ (Stopped' <=> Stopped) /\ (Counting' <=> Counting) /\ (Done' <=> Done)
      /\ (Rendering' <=> Rendering)
      /\ Rendered(boundary.seen)' = Rendered(boundary.seen)
      /\ NearestOut(boundary.seen)' = NearestOut(boundary.seen)
      /\ NearestOut(Before(All + 1))' = NearestOut(Before(All + 1))
      /\ Before(drain.stage)' = Before(drain.stage) /\ Before(All + 1)' = Before(All + 1)
      /\ (Finite(All + 1)' <=> Finite(All + 1)) /\ (Finite(drain.stage)' <=> Finite(drain.stage))
      /\ (Finite(drain.stage + 1)' <=> Finite(drain.stage + 1))
      /\ (First(drain.stage)' <=> First(drain.stage))
      /\ SourceLimit(drain.stage)' = SourceLimit(drain.stage)
  <2>1. /\ All' = All /\ Owed' = Owed /\ TailFrames' = TailFrames /\ (Resampled' <=> Resampled)
    BY <1>1, SetupFixed, TimingFixed
  <2>2. /\ Taken' = Taken /\ (Stopped' <=> Stopped) /\ (Counting' <=> Counting) /\ (Done' <=> Done)
        /\ (Rendering' <=> Rendering)
    BY <1>1, <2>1 DEF Taken, Stopped, Counting, Done, Rendering
  <2>3. /\ Rendered(boundary.seen)' = Rendered(boundary.seen)
        /\ NearestOut(boundary.seen)' = NearestOut(boundary.seen)
    BY <1>1, SetupFixed
  <2>4. /\ Before(drain.stage)' = Before(drain.stage) /\ Before(All + 1)' = Before(All + 1)
        /\ (Finite(All + 1)' <=> Finite(All + 1)) /\ (Finite(drain.stage)' <=> Finite(drain.stage))
        /\ (Finite(drain.stage + 1)' <=> Finite(drain.stage + 1))
        /\ (First(drain.stage)' <=> First(drain.stage))
        /\ SourceLimit(drain.stage)' = SourceLimit(drain.stage)
    BY <1>1, <2>1, TimingFixed
  <2>5. NearestOut(Before(All + 1))' = NearestOut(Before(All + 1))
    BY <1>1, <2>4, SetupFixed
  <2> QED BY <2>1, <2>2, <2>3, <2>4, <2>5
<1>3. \A i : Enough(i)' <=> Enough(i)
  BY <1>1, <1>2, EnoughStands
<1>4. RenderTypeInv'
  <2>1. /\ TimingType(timing)' /\ TimingType(actual)' /\ Len(actual.stages)' = Len(timing.stages)'
        /\ RatesSound' /\ Programme' \in Nat
    BY <1>1, SetupFixed DEF RenderInv, RenderTypeInv, TimingType
  <2>2. CollectorType(collector)' /\ DrainType'
    BY <1>1 DEF RenderInv, RenderTypeInv, CollectorType, ObservationType, DrainType
  <2> QED BY <1>1, <1>2, <2>1, <2>2 DEF RenderInv, RenderTypeInv
<1>5. FlowInv'
  <2>1. Stages' = Stages
    BY <1>1, TimingFixed
  <2>2. FlowInv
    BY DEF RenderInv
  <2>3. /\ phase' = "feed" => drain' = NoDrain /\ ~collector'.obs.active /\ ~ranOut' /\ fed' <= Programme'
        /\ phase' = "boundary" =>
             Resampled' /\ boundary'.generated <= NearestOut(boundary.seen)' - Rendered(boundary.seen)'
        /\ phase' = "limiter" => boundary'.generated <= actual'.limiter
        /\ ~changed' => timing' = actual' /\ ~failed'
    BY <1>1, <1>2, <2>2, SetupFixed DEF FlowInv
  <2>4. phase' = "drain" =>
          /\ drain'.stage \in 1 .. All' + 1 /\ (drain'.open => drain'.stage <= All')
          /\ ~drain'.open => drain'.generated = 0 /\ ~drain'.terminal /\ ~drain'.started
          /\ drain'.open => drain'.limit = SourceLimit(drain.stage)'
          /\ drain'.terminal => drain'.left = 0
          /\ drain'.started => Unknown(Stages[drain.stage]) /\ collector'.obs.active
          /\ drain'.open /\ ~changed' =>
               LET s == Stages[drain.stage]
               IN IF Unknown(s) THEN drain'.left = Endless
                  ELSE drain'.left \in Nat /\ drain'.generated + drain'.left = s.latency + s.tail
    BY <1>1, <1>2, <2>2 DEF FlowInv
  <2> QED BY <1>1, <2>1, <2>3, <2>4 DEF FlowInv, Unknown
<1>6. Watched'
  BY <1>1, WatchStands DEF RenderInv
<1>7. ReportedInv' /\ AnsweredInv'
  BY <1>1, <1>2 DEF RenderInv, ReportedInv, AnsweredInv
<1>8. OutInv' /\ FedInv'
  BY <1>1, <1>2 DEF RenderInv, OutInv, FedInv
<1>9. DrainedInv'
  BY <1>1, <1>2, <1>3 DEF RenderInv, DrainedInv
<1>10. ResampledInv'
  BY <1>1, <1>2, <1>3 DEF RenderInv, ResampledInv
<1>11. LimitedInv'
  BY <1>1, <1>2 DEF RenderInv, LimitedInv
<1>12. DoneInv'
  BY <1>1, <1>2 DEF RenderInv, DoneInv
<1>13. DirectInv' /\ ResultsInv'
  BY <1>1, Untouched DEF RenderInv
<1> QED BY <1>4, <1>5, <1>6, <1>7, <1>8, <1>9, <1>10, <1>11, <1>12, <1>13 DEF RenderInv

\* With changed parameters nothing is promised but to end truthfully.
LEMMA ParametersChangeKeeps == ASSUME RenderInv, ParametersChange PROVE RenderInv'
<1>1. /\ phase \in {"feed", "drain"} /\ changed' = TRUE /\ results' = << >>
      /\ UNCHANGED <<setup, timing, phase, block, fed, drain, boundary, direct, collector,
                     failed, ranOut, held>>
      /\ \/ \E i \in drain.stage + 1 .. Len(Stages), s \in LiveStages :
              actual' = [actual EXCEPT !.stages[i] = s]
         \/ \E n \in Limiters : actual' = [actual EXCEPT !.limiter = n]
  BY DEF ParametersChange
<1>2. TimingType(actual)' /\ Len(actual.stages)' = Len(timing.stages)'
  <2> DEFINE x == actual.stages
             l == actual.limiter
  <2>1. /\ actual = [stages |-> x, limiter |-> l] /\ x \in Seq(SourceStage) /\ l \in Nat
        /\ Len(x) = Len(timing.stages) /\ drain.stage \in Nat
    BY DEF RenderInv, RenderTypeInv, TimingType, DrainType
  <2> HIDE DEF x, l
  <2>2. ASSUME NEW i \in drain.stage + 1 .. Len(Stages), NEW s \in LiveStages,
               actual' = [actual EXCEPT !.stages[i] = s]
        PROVE  TimingType(actual') /\ Len(actual'.stages) = Len(timing.stages)
    <3> DEFINE y == [x EXCEPT ![i] = s]
    <3>1. s \in SourceStage /\ i \in 1 .. Len(x)
      BY <2>1, RenderAssumption DEF Stages
    <3>2. y \in Seq(SourceStage) /\ Len(y) = Len(x)
      BY <2>1, <3>1
    <3>3. actual' = [stages |-> y, limiter |-> l]
      BY <2>1, <2>2
    <3> HIDE DEF y
    <3> QED BY <2>1, <3>2, <3>3 DEF TimingType
  <2>3. ASSUME NEW n \in Limiters, actual' = [actual EXCEPT !.limiter = n]
        PROVE  TimingType(actual') /\ Len(actual'.stages) = Len(timing.stages)
    <3>1. n \in Nat
      BY RenderAssumption
    <3>2. actual' = [stages |-> x, limiter |-> n]
      BY <2>1, <2>3
    <3> QED BY <2>1, <3>1, <3>2 DEF TimingType
  <2>4. TimingType(actual') /\ Len(actual'.stages) = Len(timing.stages)
    BY <1>1, <2>2, <2>3
  <2> QED BY <1>1, <2>4 DEF TimingType
<1>3. /\ All' = All /\ (Resampled' <=> Resampled) /\ Programme' = Programme /\ Stages' = Stages
      /\ Rendered(boundary.seen)' = Rendered(boundary.seen)
      /\ SourceLimit(drain.stage)' = SourceLimit(drain.stage)
  BY <1>1, SetupFixed, TimingFixed
<1>4. RenderTypeInv'
  <2>1. TimingType(timing)' /\ RatesSound' /\ Programme' \in Nat
    BY <1>1, SetupFixed DEF RenderInv, RenderTypeInv, TimingType
  <2>2. CollectorType(collector)' /\ DrainType'
    BY <1>1 DEF RenderInv, RenderTypeInv, CollectorType, ObservationType, DrainType
  <2> QED BY <1>1, <1>2, <2>1, <2>2 DEF RenderInv, RenderTypeInv, Rendering
<1>5. FlowInv'
  <2>1. FlowInv
    BY DEF RenderInv
  <2>2. phase' = "feed" => drain' = NoDrain /\ ~collector'.obs.active /\ ~ranOut' /\ fed' <= Programme'
    BY <1>1, <1>3, <2>1 DEF FlowInv
  <2>3. phase' = "drain" =>
          /\ drain'.stage \in 1 .. All' + 1 /\ (drain'.open => drain'.stage <= All')
          /\ ~drain'.open => drain'.generated = 0 /\ ~drain'.terminal /\ ~drain'.started
          /\ drain'.open => drain'.limit = SourceLimit(drain.stage)'
          /\ drain'.terminal => drain'.left = 0
          /\ drain'.started => Unknown(Stages[drain.stage]) /\ collector'.obs.active
    BY <1>1, <1>3, <2>1 DEF FlowInv
  <2> QED BY <1>1, <1>3, <2>2, <2>3 DEF FlowInv, Unknown
<1>6. Watched'
  BY <1>1, WatchStands DEF RenderInv
<1>7. ReportedInv' /\ AnsweredInv'
  BY <1>1 DEF RenderInv, ReportedInv, AnsweredInv, Done, Rendering, Stopped
<1>8. OutInv'
  BY <1>1, <1>3 DEF RenderInv, OutInv, Stopped
<1>9. FedInv' /\ DrainedInv' /\ ResampledInv' /\ LimitedInv' /\ DoneInv'
  BY <1>1 DEF FedInv, DrainedInv, ResampledInv, LimitedInv, DoneInv, Counting
<1>10. DirectInv'
  BY <1>1, Untouched DEF RenderInv
<1>11. ResultsInv'
  BY <1>1 DEF ResultsInv
<1> QED BY <1>4, <1>5, <1>6, <1>7, <1>8, <1>9, <1>10, <1>11 DEF RenderInv

\* A buffer before quantization comes out whole, or not at all.
LEMMA ProcessPreQuantizeKeeps == ASSUME RenderInv, ProcessPreQuantize PROVE RenderInv'
<1>1. /\ phase = "idle"
      /\ UNCHANGED <<setup, actual, timing, phase, block, fed, drain, collector, outcomes>>
  BY DEF ProcessPreQuantize
<1>2. UNCHANGED <<failed, changed, ranOut, held, results>>
  BY <1>1 DEF outcomes
<1>3. RatesSound /\ Programme \in Nat
  BY DEF RenderInv, RenderTypeInv
<1>4. PICK n \in {0, Programme} :
        LET answer == IF direct.ended THEN "refused"
                      ELSE IF Resampled THEN DriveBoundary(n) ELSE "ok"
        IN /\ direct' = [direct EXCEPT
                !.calls = @ + 1, !.answer = answer, !.driven = @ \/ (Resampled /\ ~direct.ended),
                !.fed = IF answer = "ok" THEN @ + n ELSE @,
                !.out = IF answer = "ok" THEN @ + (IF Resampled THEN NearestOut(n) ELSE n) ELSE @]
           /\ boundary' = [boundary EXCEPT !.seen = IF Resampled /\ answer = "ok" THEN @ + n ELSE @]
  BY DEF ProcessPreQuantize
<1> DEFINE answer == IF direct.ended THEN "refused"
                     ELSE IF Resampled THEN DriveBoundary(n) ELSE "ok"
           driven == direct.driven \/ (Resampled /\ ~direct.ended)
           calls == direct.calls + 1
           into == IF answer = "ok" THEN direct.fed + n ELSE direct.fed
           out == IF answer = "ok" THEN direct.out + (IF Resampled THEN NearestOut(n) ELSE n)
                  ELSE direct.out
           seen == IF Resampled /\ answer = "ok" THEN boundary.seen + n ELSE boundary.seen
<1>5. n \in Nat
  BY <1>3
<1>6. /\ direct = [ended |-> direct.ended, driven |-> direct.driven, calls |-> direct.calls,
                   fed |-> direct.fed, out |-> direct.out, answer |-> direct.answer]
      /\ direct.fed \in Nat /\ direct.out = (IF Resampled THEN NearestOut(direct.fed) ELSE direct.fed)
      /\ (Resampled /\ ~direct.driven => direct.fed = 0)
      /\ boundary = [seen |-> boundary.seen, generated |-> boundary.generated]
      /\ boundary.seen \in Nat /\ boundary.generated \in Nat
  BY DEF RenderInv, RenderTypeInv, DirectInv
<1>7. /\ direct' = [direct EXCEPT !.calls = calls, !.answer = answer, !.driven = driven,
                                  !.fed = into, !.out = out]
      /\ boundary' = [boundary EXCEPT !.seen = seen]
  BY <1>4
<1>8. answer # "exceeded"
      /\ (answer = "ok" /\ Resampled => ~direct.ended /\ (n = 0 \/ ~direct.driven))
  <2>1. NearestOut(n) \in Nat /\ Rendered(n) \in Nat /\ CeilOut(n) \in Nat /\ NearestOut(n) <= CeilOut(n)
    BY <1>3, <1>5, RenderedAre, Ceiling, Roundings
  <2>2. ~(NearestOut(n) - Rendered(n) >= CeilOut(n) + DefaultBlock)
    BY <2>1, RenderAssumption
  <2> QED BY <1>5, <2>2 DEF DriveBoundary
<1>9. NearestOut(0) = 0 /\ NearestOut(n) \in Nat
  BY <1>3, <1>5, Roundings, Nearest
<1> HIDE DEF answer, calls, driven
<1>10. /\ into \in Nat /\ out = (IF Resampled THEN NearestOut(into) ELSE into)
       /\ (Resampled /\ ~driven => into = 0)
       /\ seen \in Nat
  <2>1. seen \in Nat /\ into \in Nat
    BY <1>5, <1>6
  <2>2. CASE answer # "ok"
    <3>1. into = direct.fed /\ out = direct.out
      BY <2>2
    <3>2. ~driven => ~direct.driven
      BY DEF driven
    <3> QED BY <1>6, <2>1, <3>1, <3>2
  <2>3. CASE answer = "ok" /\ Resampled
    <3>1. driven
      BY <1>8, <2>3 DEF driven
    <3>2. out = NearestOut(into)
      <4>1. into = direct.fed + n /\ out = direct.out + NearestOut(n) /\ direct.out = NearestOut(direct.fed)
        BY <1>6, <2>3
      <4>2. direct.out \in Nat
        BY <1>3, <1>6, <4>1, Nearest
      <4>3. CASE n = 0
        <5>1. into = direct.fed
          BY <1>6, <4>1, <4>3
        <5>2. NearestOut(n) = 0
          BY <1>9, <4>3
        <5> HIDE DEF into, out
        <5> QED BY <4>1, <4>2, <5>1, <5>2
      <4>4. CASE n # 0
        <5>1. direct.fed = 0
          BY <1>6, <1>8, <2>3, <4>4
        <5>2. into = n /\ direct.out = 0
          BY <1>5, <1>9, <4>1, <5>1
        <5> HIDE DEF into, out
        <5> QED BY <1>9, <4>1, <5>2
      <4> QED BY <4>3, <4>4
    <3> QED BY <2>1, <2>3, <3>1, <3>2
  <2>4. CASE answer = "ok" /\ ~Resampled
    BY <1>6, <2>1, <2>4
  <2> QED BY <2>2, <2>3, <2>4
<1> HIDE DEF into, out, seen
<1>11. direct' = [ended |-> direct.ended, driven |-> driven, calls |-> calls,
                  fed |-> into, out |-> out, answer |-> answer]
  <2> DEFINE e == direct.ended
             d == direct.driven
             c == direct.calls
             f == direct.fed
             o == direct.out
             a == direct.answer
             d1 == [direct EXCEPT !.calls = calls]
             d2 == [d1 EXCEPT !.answer = answer]
             d3 == [d2 EXCEPT !.driven = driven]
             d4 == [d3 EXCEPT !.fed = into]
  <2>1. direct = [ended |-> e, driven |-> d, calls |-> c, fed |-> f, out |-> o, answer |-> a]
    BY <1>6
  <2>2. direct' = [d4 EXCEPT !.out = out]
    BY <1>7
  <2> HIDE DEF e, d, c, f, o, a
  <2>3. d1 = [ended |-> e, driven |-> d, calls |-> calls, fed |-> f, out |-> o, answer |-> a]
    BY <2>1
  <2> HIDE DEF d1
  <2>4. d2 = [ended |-> e, driven |-> d, calls |-> calls, fed |-> f, out |-> o, answer |-> answer]
    BY <2>3
  <2> HIDE DEF d2
  <2>5. d3 = [ended |-> e, driven |-> driven, calls |-> calls, fed |-> f, out |-> o, answer |-> answer]
    BY <2>4
  <2> HIDE DEF d3
  <2>6. d4 = [ended |-> e, driven |-> driven, calls |-> calls, fed |-> into, out |-> o, answer |-> answer]
    BY <2>5
  <2> HIDE DEF d4
  <2>7. direct' = [ended |-> e, driven |-> driven, calls |-> calls, fed |-> into, out |-> out,
                   answer |-> answer]
    BY <2>2, <2>6
  <2> QED BY <2>7 DEF e
<1>12. boundary' = [seen |-> seen, generated |-> boundary.generated]
  BY <1>6, <1>7
<1>13. DirectInv'
  <2>1. /\ direct'.ended = direct.ended /\ direct'.driven = driven /\ direct'.calls = calls
        /\ direct'.fed = into /\ direct'.out = out /\ direct'.answer = answer
    BY <1>11
  <2>2. (Resampled' <=> Resampled) /\ NearestOut(direct.fed)' = NearestOut(into)
    BY <1>1, <2>1, SetupFixed
  <2> QED BY <1>8, <1>10, <1>11, <2>1, <2>2 DEF DirectInv
<1>14. RenderTypeInv'
  <2>1. /\ TimingType(timing)' /\ TimingType(actual)' /\ Len(actual.stages)' = Len(timing.stages)'
        /\ RatesSound' /\ Programme' \in Nat
    BY <1>1, SetupFixed DEF RenderInv, RenderTypeInv, TimingType
  <2>2. CollectorType(collector)' /\ DrainType'
    BY <1>1 DEF RenderInv, RenderTypeInv, CollectorType, ObservationType, DrainType
  <2> QED BY <1>1, <1>2, <1>6, <1>10, <1>12, <2>1, <2>2 DEF RenderInv, RenderTypeInv, Rendering
<1>15. FlowInv'
  BY <1>1, <1>2 DEF RenderInv, FlowInv
<1>16. Watched'
  BY <1>1, <1>2, WatchStands DEF RenderInv
<1>17. TailFrames' = TailFrames /\ Owed' = Owed /\ (Done' <=> Done) /\ (Stopped' <=> Stopped)
       /\ (Counting' <=> Counting)
  BY <1>1, <1>2, SetupFixed, TimingFixed DEF Done, Rendering, Stopped, Counting
<1>18. ReportedInv' /\ AnsweredInv' /\ DoneInv'
  BY <1>1, <1>2, <1>17 DEF RenderInv, ReportedInv, AnsweredInv, DoneInv, Rendering
<1>19. OutInv' /\ FedInv' /\ DrainedInv' /\ ResampledInv' /\ LimitedInv'
  BY <1>1 DEF OutInv, FedInv, DrainedInv, ResampledInv, LimitedInv
<1>20. ResultsInv'
  BY <1>1, <1>2, Untouched DEF RenderInv
<1> QED BY <1>13, <1>14, <1>15, <1>16, <1>18, <1>19, <1>20 DEF RenderInv

\* A new chain has rendered nothing.
LEMMA InitRender == RenderInit => RenderInv
<1> SUFFICES ASSUME RenderInit PROVE RenderInv
  OBVIOUS
<1>1. /\ timing = actual /\ phase = "idle" /\ block = 0 /\ fed = 0
      /\ drain = NoDrain /\ boundary = NewBoundary
      /\ direct = NotDriven /\ collector = NewCollector
      /\ failed = FALSE /\ changed = FALSE /\ ranOut = FALSE /\ held = 0
      /\ results = << >>
  BY DEF RenderInit
<1>2. RatesSound /\ Programme \in Nat
  <2>1. setup.rates \in Ratios /\ setup.programme \in Programmes
    BY DEF RenderInit
  <2> QED BY <2>1, RenderAssumption DEF RatesSound, SourceRate, OutputRate, Programme
<1>3. TimingType(actual)
  <2>1. PICK chain \in Chains, limiter \in Limiters : actual = [stages |-> chain, limiter |-> limiter]
    BY DEF RenderInit
  <2> QED BY <2>1, RenderAssumption DEF TimingType
<1>4. DrainType
  <2>1. /\ drain.stage = 0 /\ drain.generated = 0 /\ drain.limit = 0 /\ drain.left = 0
        /\ drain.started = FALSE /\ drain.terminal = FALSE /\ drain.open = FALSE
        /\ drain = [stage |-> 0, generated |-> 0, limit |-> 0, left |-> 0,
                    started |-> FALSE, terminal |-> FALSE, open |-> FALSE]
    BY <1>1 DEF NoDrain
  <2> QED BY <2>1 DEF DrainType
<1>5. /\ collector = [obs |-> collector.obs, out |-> 0, truncated |-> FALSE]
      /\ collector.out = 0 /\ collector.truncated = FALSE
      /\ collector.obs = [active |-> FALSE, protected |-> 0, generated |-> 0, below |-> 0,
                          stopped |-> FALSE, capped |-> FALSE]
      /\ collector.obs.active = FALSE /\ collector.obs.stopped = FALSE
      /\ collector.obs.capped = FALSE /\ collector.obs.protected = 0
      /\ collector.obs.generated = 0 /\ collector.obs.below = 0
  BY <1>1 DEF NewCollector, NoObservation
<1>6. CollectorType(collector)
  <2>1. ObservationType(collector.obs)
    BY <1>5 DEF ObservationType
  <2>2. collector.out \in Nat /\ collector.truncated \in BOOLEAN
        /\ collector = [obs |-> collector.obs, out |-> collector.out, truncated |-> collector.truncated]
    <3>1. collector.out = 0 /\ collector.truncated = FALSE
      BY <1>5
    <3>2. collector = [obs |-> collector.obs, out |-> 0, truncated |-> FALSE]
      BY <1>5
    <3>3. collector = [obs |-> collector.obs, out |-> collector.out, truncated |-> collector.truncated]
      BY <3>1, <3>2, Zenon
    <3>4. collector.truncated \in BOOLEAN
      BY <3>1, Zenon
    <3>5. collector.out \in Nat
      BY <3>1
    <3> QED BY <3>3, <3>4, <3>5, Zenon
  <2> QED BY <2>1, <2>2 DEF CollectorType
<1>7. boundary = [seen |-> 0, generated |-> 0] /\ boundary.seen = 0 /\ boundary.generated = 0
  BY <1>1 DEF NewBoundary
<1>8. RenderTypeInv
  <2>1. /\ boundary = [seen |-> boundary.seen, generated |-> boundary.generated]
        /\ boundary.seen \in Nat /\ boundary.generated \in Nat
    BY <1>7
  <2>2. TimingType(timing) /\ Len(actual.stages) = Len(timing.stages)
    BY <1>1, <1>3
  <2>3. /\ phase \in {"idle", "feed", "drain", "boundary", "limiter"}
        /\ block \in Nat /\ ~Rendering /\ fed \in Nat
        /\ {failed, changed, ranOut} \subseteq BOOLEAN /\ held \in Nat
    BY <1>1 DEF Rendering
  <2> QED BY <1>2, <1>3, <1>4, <1>6, <2>1, <2>2, <2>3 DEF RenderTypeInv
<1>9. DirectInv
  <2>1. /\ direct.fed = 0 /\ direct.out = 0 /\ direct.answer = "none" /\ direct.driven = FALSE
        /\ direct = [ended |-> direct.ended, driven |-> direct.driven, calls |-> direct.calls,
                     fed |-> direct.fed, out |-> direct.out, answer |-> direct.answer]
    BY <1>1 DEF NotDriven
  <2>2. 0 \in Nat
    OBVIOUS
  <2>3. NearestOut(0) = 0
    BY <1>2, <2>2, Roundings
  <2> QED BY <2>1, <2>3 DEF DirectInv
<1>10. FlowInv
  BY <1>1 DEF FlowInv
<1>11. Watched
  BY <1>5 DEF Watched, Stopped
<1>12. ResultsInv
  BY <1>1 DEF ResultsInv
<1>13. ReportedInv /\ AnsweredInv /\ OutInv /\ FedInv /\ DrainedInv /\ ResampledInv /\ LimitedInv /\ DoneInv
  BY <1>1 DEF ReportedInv, AnsweredInv, OutInv, FedInv, DrainedInv, ResampledInv, LimitedInv, DoneInv,
              Done, Rendering
<1> QED BY <1>8, <1>9, <1>10, <1>11, <1>12, <1>13 DEF RenderInv

\* Every step of a render keeps the invariant.
LEMMA NextRender == RenderInv /\ [RenderNext]_renderVars => RenderInv'
<1> SUFFICES ASSUME RenderInv, [RenderNext]_renderVars PROVE RenderInv'
  OBVIOUS
<1>1. ASSUME NEW n \in Blocks, StartRender(n) PROVE RenderInv'
  BY <1>1, StartRenderKeeps
<1>2. CASE Feed BY <1>2, FeedKeeps
<1>3. CASE BeginDrain BY <1>3, BeginDrainKeeps
<1>4. CASE SkipStage BY <1>4, SkipStageKeeps
<1>5. CASE BeginStage BY <1>5, BeginStageKeeps
<1>6. CASE FinishSource BY <1>6, FinishSourceKeeps
<1>7. CASE EndStage BY <1>7, EndStageKeeps
<1>8. CASE EndDrain BY <1>8, EndDrainKeeps
<1>9. CASE FinishBoundary BY <1>9, FinishBoundaryKeeps
<1>10. CASE FinishLimiter BY <1>10, FinishLimiterKeeps
<1>11. CASE ParametersChange BY <1>11, ParametersChangeKeeps
<1>12. CASE ProcessPreQuantize BY <1>12, ProcessPreQuantizeKeeps
<1>13. CASE UNCHANGED renderVars BY <1>13, RestKeeps
<1> QED BY <1>1, <1>2, <1>3, <1>4, <1>5, <1>6, <1>7, <1>8, <1>9, <1>10, <1>11, <1>12, <1>13 DEF RenderNext, Render

\* What an observation has cut off is behind the frames it protects.
LEMMA ProtectedKept ==
  ASSUME RenderInv, ~changed, Stopped
  PROVE  collector.out + held >= Owed
<1>1. /\ RatesSound /\ Programme \in Nat /\ TimingType(timing) /\ block \in Nat /\ All \in Nat
      /\ timing.limiter \in Nat /\ collector.out \in Nat
  BY DEF RenderInv, RenderTypeInv, TimingType, All, Stages, CollectorType
<1>2. PICK base \in Nat : /\ Watches(base, collector)
                          /\ \E i \in 1 .. All : First(i) /\ base = Base(i) /\ held = HeldAt(i)
  BY DEF RenderInv, Watched
<1>3. PICK i \in 1 .. All : base = Base(i) /\ held = HeldAt(i)
  BY <1>2
<1> DEFINE before == Declared(i - 1)
           all == Declared(All)
           a == Before(i)
           rest == all - before
           near == NearestOut(a)
           ceil == CeilOut(rest)
           from == IF Resampled THEN Rendered(a) ELSE a
<1>4. before \in Nat /\ all \in Nat /\ rest \in Nat
  <2>1. i - 1 \in 0 .. All /\ All \in 0 .. All
    BY <1>1
  <2> QED BY <1>1, <2>1, DeclaredAre
<1>5. a = Programme + before /\ ProtectedFrames(i) = ceil + timing.limiter
  BY DEF Before, ProtectedFrames
<1>6. a \in Nat
  BY <1>1, <1>4, <1>5
<1>7. near \in Nat /\ ceil \in Nat /\ from \in Nat /\ held + from = near
  <2>1. near \in Nat /\ Rendered(a) \in Nat /\ Rendered(a) <= near
    BY <1>1, <1>6, RenderedAre
  <2>2. ceil \in Nat
    <3> HIDE DEF rest
    <3> QED BY <1>1, <1>4, Ceiling
  <2>3. CASE Resampled
    BY <1>3, <2>1, <2>2, <2>3 DEF HeldAt
  <2>4. CASE ~Resampled
    <3>1. near = a /\ held = 0
      BY <1>1, <1>3, <1>6, <2>4, SameRate DEF HeldAt
    <3> QED BY <1>6, <2>2, <2>4, <3>1
  <2> QED BY <2>3, <2>4
<1>8. Base(i) = from + (ceil + timing.limiter)
  BY <1>5 DEF Base
<1>9. NearestOut(a + rest) <= near + ceil
  <2> HIDE DEF rest
  <2> QED BY <1>1, <1>4, <1>6, Roundings
<1>10. a + rest = Programme + all
  BY <1>1, <1>4, <1>5
<1>11. Owed = NearestOut(a + rest) + timing.limiter /\ NearestOut(a + rest) \in Nat
  <2>1. Owed = NearestOut(Programme + all) + timing.limiter
    BY DEF Owed
  <2>2. a + rest \in Nat
    BY <1>4, <1>6
  <2> QED BY <1>1, <1>10, <2>1, <2>2, Nearest
<1>12. collector.out >= base
  <2>1. Verdict(base, collector.out, collector.obs.capped)
    BY <1>2 DEF Watches, Stopped
  <2>2. TailFrames \in Nat
    BY <1>1, RenderAssumption DEF RatesSound, TailFrames
  <2> QED BY <2>1, <2>2 DEF Verdict
<1>13. held \in Nat
  BY DEF RenderInv, RenderTypeInv
<1> HIDE DEF from, near, ceil, rest
<1> QED BY <1>1, <1>3, <1>7, <1>8, <1>9, <1>11, <1>12, <1>13

\* A render keeps what it is given, whatever it cuts.
LEMMA KeepsProgramme == RenderInv => RenderKeepsProgramme
<1> SUFFICES ASSUME RenderInv PROVE RenderKeepsProgramme
  OBVIOUS
<1>1. failed => changed
  BY DEF RenderInv, FlowInv
<1>2. /\ direct.out = (IF Resampled THEN NearestOut(direct.fed) ELSE direct.fed)
      /\ direct.answer # "exceeded"
  BY DEF RenderInv, DirectInv
<1>3. ASSUME Done, ~changed
      PROVE  /\ collector.out + held >= Owed
             /\ Compensated + held + 1 >= NearestOut(Programme + Tails[All])
  <2>1. /\ RatesSound /\ Programme \in Nat /\ TimingType(timing) /\ block \in Nat /\ All \in Nat
        /\ timing.limiter \in Nat /\ collector.out \in Nat /\ held \in Nat
    BY DEF RenderInv, RenderTypeInv, TimingType, All, Stages, CollectorType
  <2>2. Latencies[All] \in Nat /\ Tails[All] \in Nat
    BY <2>1, DeclaredAre
  <2> DEFINE lat == Latencies[All]
             tail == Tails[All]
             most == Programme + tail
             m == NearestOut(most)
             k == NearestOut(lat)
             all == NearestOut(most + lat)
             out == collector.out
  <2>3. Declared(All) = lat + tail
    BY DEF Declared
  <2>4. m \in Nat /\ k \in Nat /\ all \in Nat /\ m + k <= all + 1
    <3>1. most \in Nat /\ lat \in Nat /\ most + lat \in Nat
      BY <2>1, <2>2
    <3> HIDE DEF most, lat
    <3> QED BY <2>1, <3>1, Nearest, Roundings
  <2>5. Owed = all + timing.limiter
    <3>1. Programme + Declared(All) = most + lat
      BY <2>1, <2>2, <2>3
    <3> QED BY <3>1 DEF Owed
  <2>6. out + held >= Owed
    <3>1. CASE Stopped
      BY <1>3, <3>1, ProtectedKept
    <3>2. CASE ~Stopped
      <4>1. out = Owed
        BY <1>3, <3>2 DEF RenderInv, DoneInv, Counting
      <4> QED BY <2>1, <4>1
    <3> QED BY <3>1, <3>2
  <2>7. Compensated = out - Lesser(k + timing.limiter, out)
    BY DEF Compensated, LatencyFrames
  <2> HIDE DEF m, k, all, out, most, lat
  <2>8. Compensated + held + 1 >= m
    BY <2>1, <2>4, <2>5, <2>6, <2>7 DEF Lesser, out
  <2> QED BY <2>6, <2>8 DEF m, most, out
<1> QED BY <1>1, <1>2, <1>3 DEF RenderKeepsProgramme

\* Its report is the one the signal has.
LEMMA TruthfulReport == RenderInv => ReportIsTruthful
<1> SUFFICES ASSUME RenderInv PROVE ReportIsTruthful
  OBVIOUS
<1>1. RatesSound /\ TimingType(timing)
  BY DEF RenderInv, RenderTypeInv
<1>2. ASSUME Done, collector.obs.active
      PROVE  IF collector.truncated
             THEN ranOut \/ collector.obs.generated = MaxTail * OutputRate
             ELSE \A k \in 0 .. Hold * OutputRate - 1 : (collector.out + k) \notin setup.loud
  <2>1. IF collector.truncated THEN ranOut \/ collector.obs.generated = TailFrames
        ELSE Stopped /\ ~collector.obs.capped
    BY <1>2 DEF RenderInv, AnsweredInv
  <2>2. CASE collector.truncated
    BY <2>1, <2>2 DEF TailFrames
  <2>3. CASE ~collector.truncated
    <3>1. PICK base \in Nat : Watches(base, collector)
      BY <1>2 DEF RenderInv, Watched
    <3>2. Verdict(base, collector.out, collector.obs.capped) /\ ~collector.obs.capped
      BY <2>1, <2>3, <3>1 DEF Watches, Stopped
    <3>3. Hushed(collector.out, HoldFrames)
      BY <3>2 DEF Verdict
    <3> QED BY <2>3, <3>3 DEF Hushed, HoldFrames
  <2> QED BY <2>2, <2>3
<1>3. ASSUME NEW x \in DOMAIN results, NEW y \in DOMAIN results
      PROVE  /\ results[x].frames = results[y].frames
             /\ ~results[x].ranOut /\ ~results[y].ranOut => results[x] = results[y]
  <2> DEFINE p == results[x]
             q == results[y]
  <2>1. Closed(p) /\ Closed(q)
    BY DEF RenderInv, ResultsInv
  <2> HIDE DEF p, q
  <2>2. /\ p = [frames |-> p.frames, truncated |-> p.truncated, ranOut |-> p.ranOut]
        /\ q = [frames |-> q.frames, truncated |-> q.truncated, ranOut |-> q.ranOut]
        /\ p.ranOut \in BOOLEAN /\ q.ranOut \in BOOLEAN
    BY <2>1 DEF Closed
  <2>3. p.frames = q.frames /\ (~p.ranOut /\ ~q.ranOut => p.truncated = q.truncated)
    <3>1. CASE Finite(All + 1)
      <4>1. ~(\E i : First(i))
        BY <1>1, <3>1, OneFirst
      <4> QED BY <2>1, <4>1 DEF Closed
    <3>2. CASE ~Finite(All + 1)
      <4>1. PICK i \in 1 .. All : \E capped \in BOOLEAN :
              First(i) /\ Verdict(Base(i), p.frames, capped) /\ (~p.ranOut => p.truncated = capped)
        BY <2>1, <3>2 DEF Closed
      <4>2. PICK c \in BOOLEAN :
              First(i) /\ Verdict(Base(i), p.frames, c) /\ (~p.ranOut => p.truncated = c)
        BY <4>1
      <4>3. PICK j \in 1 .. All : \E capped \in BOOLEAN :
              First(j) /\ Verdict(Base(j), q.frames, capped) /\ (~q.ranOut => q.truncated = capped)
        BY <2>1, <3>2 DEF Closed
      <4>4. PICK d \in BOOLEAN :
              First(j) /\ Verdict(Base(j), q.frames, d) /\ (~q.ranOut => q.truncated = d)
        BY <4>3
      <4>5. i = j
        BY <1>1, <4>2, <4>4, OneFirst
      <4>6. Base(i) \in Nat
        <5>1. /\ Programme \in Nat /\ block \in Nat /\ All \in Nat
          BY <1>1 DEF RenderInv, RenderTypeInv, TimingType, All, Stages
        <5>2. i - 1 \in 0 .. All
          BY <5>1
        <5>3. Declared(i - 1) \in Nat /\ ProtectedFrames(i) \in Nat
          BY <1>1, <5>1, <5>2, DeclaredAre
        <5>4. Before(i) \in Nat
          BY <5>1, <5>3 DEF Before
        <5>5. Rendered(Before(i)) \in Nat
          BY <1>1, <5>4, RenderedAre
        <5> QED BY <5>3, <5>4, <5>5 DEF Base
      <4>7. p.frames = q.frames /\ c = d
        BY <1>1, <4>2, <4>4, <4>5, <4>6, OneVerdict
      <4> QED BY <4>2, <4>4, <4>7
    <3> QED BY <3>1, <3>2
  <2>4. ~p.ranOut /\ ~q.ranOut => p = q
    <3>1. ASSUME ~p.ranOut, ~q.ranOut PROVE p = q
      <4>1. p.ranOut = q.ranOut /\ p.frames = q.frames /\ p.truncated = q.truncated
        BY <2>2, <2>3, <3>1
      <4> QED BY <2>2, <4>1
    <3> QED BY <3>1
  <2> QED BY <2>3, <2>4 DEF p, q
<1> QED BY <1>2, <1>3 DEF ReportIsTruthful

\* The invariant of every render.
THEOREM RenderInvariant == RenderSpec => []RenderInv
BY InitRender, NextRender, PTL DEF RenderSpec

\* The energy policy cuts a tail of unknown length and nothing else, and no finish
\* limit is too small: `render_with_policy_and_block_frames`, for every chain of
\* stages, rates, look-ahead, block size, hold and cap.
THEOREM NothingElseIsCut == RenderSpec => []RenderKeepsProgramme
BY RenderInvariant, KeepsProgramme, PTL

\* A render reports truncation exactly when it met no silence, and frames and report
\* do not depend on the block size.
THEOREM ReportsAreTruthful == RenderSpec => []ReportIsTruthful
BY RenderInvariant, TruthfulReport, PTL
=============================================================================
