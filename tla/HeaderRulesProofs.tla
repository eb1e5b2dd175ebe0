------------------------- MODULE HeaderRulesProofs -------------------------
(* What the versionbits caches answer, for any block tree, any signals, any *)
(* median times and any deployments.                                        *)
EXTENDS HeaderRules, WellFoundedInduction, TLAPS

-----------------------------------------------------------------------------
(* Induction, with a set in the place of a predicate.                       *)

LEMMA Smallest ==
  ASSUME NEW S \in SUBSET Nat, S # {}
  PROVE  \E m \in S : \A k \in S : m <= k
<1>1. PICK m \in S : \A k \in S : ~(<<k, m>> \in OpToRel(<, Nat))
  BY NatLessThanWellFounded, WFMin, Zenon
<1>2. \A k \in S : ~(k < m)
  BY <1>1, Zenon DEF OpToRel
<1> QED BY <1>2

LEMMA Induction ==
  ASSUME NEW S, 0 \in S, \A n \in Nat : n \in S => n + 1 \in S
  PROVE  Nat \subseteq S
<1> SUFFICES ASSUME Nat \ S # {} PROVE FALSE
  BY Zenon
<1>1. PICK m \in Nat \ S : \A k \in Nat \ S : m <= k
  BY Smallest, Zenon
<1>2. m # 0 /\ m - 1 \in Nat
  BY <1>1
<1>3. m - 1 \in S
  BY <1>1, <1>2
<1> QED BY <1>1, <1>2, <1>3

-----------------------------------------------------------------------------
(* Multiples of a period.                                                   *)

LEMMA Rounding ==
  ASSUME NEW n \in Nat \ {0}, NEW x \in Nat
  PROVE  /\ x % n \in 0..(n - 1) /\ x % n <= x
         /\ (x - (x % n)) % n = 0
         /\ \A y \in Nat : y % n = 0 /\ y <= x => y <= x - (x % n)
<1> DEFINE q == x \div n
<1>1. q \in Nat /\ x % n \in 0..(n - 1) /\ x = q * n + (x % n)
  OBVIOUS
<1> HIDE DEF q
<1>2. q * n \in Nat /\ (q * n) % n = 0
  BY <1>1
<1>0. ASSUME NEW m \in Nat, NEW r \in 0..(n - 1), x = m + r
      PROVE  x - r = m /\ r <= x /\ x < m + n
  BY <1>0
<1>3. x - (x % n) = q * n /\ x % n <= x /\ x < q * n + n
  BY <1>0, <1>1, <1>2, Zenon
<1>4. (x - (x % n)) % n = 0
  BY Zenon, <1>2, <1>3
<1>5. ASSUME NEW y \in Nat, y % n = 0, y <= x PROVE y <= q * n
  <2> DEFINE p == y \div n
  <2>1. p \in Nat /\ y = p * n
    BY <1>5
  <2> HIDE DEF p
  <2>2. CASE p <= q
    BY <2>1, <2>2, <1>1
  <2>3. CASE p >= q + 1
    <3>1. p * n >= (q + 1) * n
      BY <2>1, <2>3, <1>1
    <3>2. (q + 1) * n = q * n + n
      BY <1>1
    <3> QED BY <3>1, <3>2, <2>1, <1>2, <1>3, <1>5
  <2> QED BY <2>1, <2>2, <2>3, <1>1
<1>6. \A y \in Nat : y % n = 0 /\ y <= x => y <= x - (x % n)
  BY Zenon, <1>3, <1>5
<1> QED BY Zenon, <1>1, <1>3, <1>4, <1>6

LEMMA Stepping ==
  ASSUME NEW n \in Nat \ {0}, NEW x \in Nat \ {0}, x % n = 0
  PROVE  /\ x - n \in Nat /\ (x - n) % n = 0
         /\ \A y \in Nat : y % n = 0 /\ y < x => y <= x - n
<1> DEFINE q == x \div n
<1>1. q \in Nat /\ x = q * n
  OBVIOUS
<1> HIDE DEF q
<1>2. q # 0 /\ q - 1 \in Nat
  BY <1>1
<1>3. x - n = (q - 1) * n
  BY <1>1, <1>2
<1>4. x - n \in Nat /\ (x - n) % n = 0
  <2> DEFINE p == q - 1
  <2>1. p \in Nat /\ x - n = p * n
    BY Zenon, <1>2, <1>3
  <2> HIDE DEF p
  <2>2. p * n \in Nat /\ (p * n) % n = 0
    BY <2>1
  <2> QED BY Zenon, <2>1, <2>2
<1>5. ASSUME NEW y \in Nat, y % n = 0, y < x PROVE y <= x - n
  <2> DEFINE p == y \div n
  <2>1. p \in Nat /\ y = p * n
    BY <1>5
  <2> HIDE DEF p
  <2>2. CASE p <= q - 1
    BY <2>1, <2>2, <1>2, <1>3
  <2>3. CASE p >= q
    BY <2>1, <2>3, <1>1, <1>5
  <2> QED BY <2>1, <2>2, <2>3, <1>1
<1> QED BY Zenon, <1>4, <1>5

LEMMA Multiples ==
  ASSUME NEW n \in Nat \ {0}, NEW x \in Nat \ {0}, NEW m \in Nat, x <= m
  PROVE  x % n = 0 <=> \E i \in 1..m : x = i * n
<1>1. ASSUME x % n = 0 PROVE \E i \in 1..m : x = i * n
  <2> DEFINE q == x \div n
  <2>1. q \in Nat /\ x = q * n
    BY <1>1
  <2> HIDE DEF q
  <2>2. q # 0
    BY <2>1
  <2>3. q <= q * n
    BY <2>1
  <2> QED BY <2>1, <2>2, <2>3
<1>2. ASSUME NEW i \in 1..m, x = i * n PROVE x % n = 0
  BY <1>2
<1> QED BY Zenon, <1>1, <1>2

-----------------------------------------------------------------------------
(* The block tree.                                                          *)

(* The ancestors of b are a chain, one at every height up to that of b.     *)
Chained(b) ==
  /\ Ancestors[b] \subseteq Block /\ b \in Ancestors[b]
  /\ \A c \in Ancestors[b] : Height[c] <= Height[b] /\ (Height[c] = Height[b] => c = b)
  /\ \A h \in 0..Height[b] : \E c \in Ancestors[b] : Height[c] = h
  /\ \A c \in Ancestors[b] : Ancestors[c] = {x \in Ancestors[b] : Height[x] <= Height[c]}

LEMMA AllChained ==
  \A b \in Block : Chained(b)
<1> DEFINE S == {n \in Nat : \A b \in Block : Height[b] = n => Chained(b)}
<1>1. ASSUME NEW b \in Block, Height[b] = 0 PROVE Chained(b)
  <2>1. b = Genesis
    BY <1>1, TreeAssumption
  <2>2. Ancestors[b] = {b}
    BY Zenon, <2>1, TreeAssumption
  <2> QED BY <1>1, <2>2 DEF Chained
<1>2. ASSUME NEW n \in Nat, n \in S, NEW b \in Block, Height[b] = n + 1
      PROVE  Chained(b)
  <2> DEFINE p == HashPrev[b]
  <2>1. b # Genesis
    BY <1>2, TreeAssumption
  <2>2. p \in Block /\ Height[b] = Height[p] + 1 /\ Ancestors[b] = {b} \cup Ancestors[p]
    BY Zenon, <2>1, TreeAssumption
  <2>3. Height[p] = n /\ Height \in [Block -> Nat]
    BY <1>2, <2>2, TreeAssumption
  <2>4. Chained(p)
    BY Zenon, <1>2, <2>2, <2>3
  <2> HIDE DEF p
  <2>5. Ancestors[b] \subseteq Block /\ b \in Ancestors[b]
    BY Zenon, <2>2, <2>4 DEF Chained
  <2>6. \A c \in Ancestors[p] : Height[c] <= n
    BY Zenon, <2>3, <2>4 DEF Chained
  <2>7. \A c \in Ancestors[b] : Height[c] <= Height[b] /\ (Height[c] = Height[b] => c = b)
    BY <2>2, <2>3, <2>5, <2>6, <1>2
  <2>8. ASSUME NEW h \in 0..Height[b] PROVE \E c \in Ancestors[b] : Height[c] = h
    <3>1. CASE h = n + 1
      BY Zenon, <3>1, <1>2, <2>5
    <3>2. CASE h # n + 1
      <4>1. h \in 0..Height[p]
        BY <3>2, <2>3, <1>2
      <4> QED BY Zenon, <4>1, <2>2, <2>4 DEF Chained
    <3> QED BY Zenon, <3>1, <3>2
  <2>9. ASSUME NEW c \in Ancestors[b]
        PROVE  Ancestors[c] = {x \in Ancestors[b] : Height[x] <= Height[c]}
    <3>1. CASE c = b
      BY Zenon, <3>1, <2>7
    <3>2. CASE c \in Ancestors[p]
      <4>1. Ancestors[c] = {x \in Ancestors[p] : Height[x] <= Height[c]}
        BY Zenon, <3>2, <2>4 DEF Chained
      <4>2. ~(Height[b] <= Height[c])
        BY <3>2, <2>3, <2>5, <2>6, <1>2
      <4> QED BY Zenon, <4>1, <4>2, <2>2
    <3> QED BY Zenon, <3>1, <3>2, <2>2
  <2> QED BY Zenon, <2>5, <2>7, <2>8, <2>9 DEF Chained
<1>3. 0 \in S
  BY Zenon, <1>1
<1>4. \A n \in Nat : n \in S => n + 1 \in S
  <2> SUFFICES ASSUME NEW n \in Nat, n \in S PROVE n + 1 \in S
    BY Zenon
  <2>1. \A b \in Block : Height[b] = n + 1 => Chained(b)
    BY Zenon, <1>2
  <2> QED BY <2>1
<1> HIDE DEF S
<1>5. Nat \subseteq S
  BY Zenon, <1>3, <1>4, Induction
<1> QED BY Zenon, <1>5, TreeAssumption DEF S

LEMMA OnePerHeight ==
  ASSUME NEW b \in Block, NEW c \in Ancestors[b], NEW d \in Ancestors[b],
         Height[c] = Height[d]
  PROVE  c = d
<1>1. c \in Block /\ d \in Ancestors[c]
  <2>1. c \in Block /\ d \in Block
    BY Zenon, AllChained DEF Chained
  <2>2. Height[d] <= Height[c]
    BY <2>1, TreeAssumption
  <2> QED BY <2>1, <2>2, AllChained DEF Chained
<1> QED BY Zenon, <1>1, AllChained DEF Chained

LEMMA GetAncestorIs ==
  ASSUME NEW b \in Block, NEW h \in Int, h <= Height[b]
  PROVE  /\ h < 0 => GetAncestor(b, h) = NoBlock
         /\ h >= 0 => GetAncestor(b, h) \in Ancestors[b] /\ Height[GetAncestor(b, h)] = h
<1>1. b # NoBlock /\ Height[b] \in Nat
  BY Zenon, TreeAssumption
<1>2. CASE h < 0
  BY <1>1, <1>2 DEF GetAncestor
<1>3. CASE h >= 0
  <2>1. \E c \in Ancestors[b] : Height[c] = h
    BY <1>1, <1>3, AllChained DEF Chained
  <2>2. GetAncestor(b, h) = CHOOSE c \in Ancestors[b] : Height[c] = h
    BY <1>1, <1>3 DEF GetAncestor
  <2> QED BY <2>1, <2>2, <1>3
<1> QED BY Zenon, <1>2, <1>3

-----------------------------------------------------------------------------
(* The periods.                                                             *)

(* The keys on the chain of b, NoBlock excepted.                            *)
KeysOf(b) == IF b = NoBlock THEN {} ELSE PeriodKeys \cap Ancestors[b]

LEMMA PeriodEndsAre ==
  ASSUME NEW b \in Block \cup {NoBlock}
  PROVE  PeriodEnds(b) = KeysOf(b)
<1>1. CASE b = NoBlock
  BY Zenon, <1>1 DEF PeriodEnds, KeysOf
<1>2. CASE b # NoBlock
  <2>1. b \in Block /\ Height[b] \in Nat /\ NoBlock \notin Ancestors[b]
    BY Zenon, <1>2, TreeAssumption
  <2>2. ASSUME NEW c \in Ancestors[b]
        PROVE  c \in PeriodKeys <=>
                 \E n \in 1..(Height[b] + 1) : Height[c] + 1 = n * nMinerConfirmationWindow
    <3>1. c \in Block /\ Height[c] \in Nat /\ Height[c] <= Height[b]
      BY Zenon, <2>1, TreeAssumption, AllChained DEF Chained
    <3>2. Height[c] + 1 \in Nat \ {0} /\ Height[b] + 1 \in Nat /\ Height[c] + 1 <= Height[b] + 1
      BY <3>1, <2>1
    <3>3. nMinerConfirmationWindow \in Nat \ {0}
      BY Zenon, ParamsAssumption
    <3>4. (Height[c] + 1) % nMinerConfirmationWindow = 0 <=>
            \E n \in 1..(Height[b] + 1) : Height[c] + 1 = n * nMinerConfirmationWindow
      BY Zenon, <3>2, <3>3, Multiples
    <3>5. c # NoBlock
      BY Zenon, <2>1
    <3> QED BY <3>1, <3>4, <3>5, Zenon DEF PeriodKeys
  <2>3. PeriodEnds(b) = {c \in Ancestors[b] :
          \E n \in 1..(Height[b] + 1) : Height[c] + 1 = n * nMinerConfirmationWindow}
    BY Zenon, <1>2 DEF PeriodEnds
  <2> QED BY <1>2, <2>2, <2>3, Zenon DEF KeysOf
<1> QED BY Zenon, <1>1, <1>2

LEMMA KeysOfType ==
  ASSUME NEW b \in Block, NEW k \in KeysOf(b)
  PROVE  /\ k \in Ancestors[b] /\ k \in Block /\ k # NoBlock /\ k \in PeriodKeys
         /\ Height[k] \in Nat /\ Height[k] <= Height[b]
         /\ (Height[k] + 1) % nMinerConfirmationWindow = 0
<1>1. b # NoBlock
  BY Zenon, TreeAssumption
<1>2. k \in PeriodKeys /\ k \in Ancestors[b]
  BY Zenon, <1>1 DEF KeysOf
<1>3. k \in Block /\ Height[k] <= Height[b]
  BY Zenon, <1>2, AllChained DEF Chained
<1>4. k # NoBlock /\ Height[k] \in Nat
  BY Zenon, <1>3, TreeAssumption
<1> QED BY Zenon, <1>2, <1>3, <1>4 DEF PeriodKeys

(* The block before the period of the block after b is the last key.        *)
LEMMA PeriodParentIs ==
  ASSUME NEW b \in Block
  PROVE  /\ PeriodParent(b) \in KeysOf(b) \cup {NoBlock}
         /\ \A j \in KeysOf(b) :
              PeriodParent(b) \in KeysOf(b) /\ Height[j] <= Height[PeriodParent(b)]
<1> DEFINE h == Height[b]
           x == h + 1
           r == x % nMinerConfirmationWindow
           k == GetAncestor(b, h - r)
<1>1. b # NoBlock /\ h \in Nat /\ nMinerConfirmationWindow \in Nat \ {0}
  BY Zenon, TreeAssumption, ParamsAssumption
<1>2. x \in Nat
  BY <1>1
<1>3. PeriodParent(b) = k
  BY Zenon, <1>1 DEF PeriodParent
<1> HIDE DEF x
<1>4. /\ r \in 0..(nMinerConfirmationWindow - 1) /\ r <= x
      /\ (x - r) % nMinerConfirmationWindow = 0
      /\ \A y \in Nat : y % nMinerConfirmationWindow = 0 /\ y <= x => y <= x - r
  BY Zenon, <1>1, <1>2, Rounding
<1> HIDE DEF r, h
<1>5. r \in Int /\ h - r \in Int /\ h - r <= h /\ x - r = (h - r) + 1
  BY <1>1, <1>4 DEF x
<1>6. /\ h - r < 0 => k = NoBlock
      /\ h - r >= 0 => k \in Ancestors[b] /\ Height[k] = h - r
  BY Zenon, <1>5, GetAncestorIs DEF h
<1>7. ASSUME NEW j \in KeysOf(b) PROVE Height[j] <= h - r
  <2>1. Height[j] \in Nat /\ Height[j] <= h /\ (Height[j] + 1) % nMinerConfirmationWindow = 0
    BY Zenon, KeysOfType DEF h
  <2>2. Height[j] + 1 \in Nat /\ Height[j] + 1 <= x
    BY <2>1, <1>1 DEF x
  <2>3. Height[j] + 1 <= x - r
    BY Zenon, <2>1, <2>2, <1>4
  <2> QED BY <2>1, <2>3, <1>1, <1>5
<1>8. ASSUME h - r >= 0 PROVE k \in KeysOf(b)
  <2>1. k \in Ancestors[b] /\ Height[k] = h - r
    BY Zenon, <1>6, <1>8
  <2>2. k \in Block
    BY Zenon, <2>1, AllChained DEF Chained
  <2>3. (Height[k] + 1) % nMinerConfirmationWindow = 0
    BY Zenon, <2>1, <1>4, <1>5
  <2> HIDE DEF k
  <2> QED BY Zenon, <2>1, <2>2, <2>3, <1>1 DEF KeysOf, PeriodKeys
<1>9. ASSUME NEW j \in KeysOf(b) PROVE k \in KeysOf(b) /\ Height[j] <= Height[k]
  <2>1. Height[j] <= h - r /\ Height[j] \in Nat
    BY Zenon, <1>7, KeysOfType
  <2>2. h - r >= 0
    BY <2>1, <1>5
  <2>3. k \in KeysOf(b) /\ Height[k] = h - r
    BY Zenon, <2>2, <1>6, <1>8
  <2> QED BY Zenon, <2>1, <2>3
<1>10. k \in KeysOf(b) \cup {NoBlock}
  BY <1>5, <1>6, <1>8
<1> QED BY Zenon, <1>3, <1>9, <1>10

(* The period before that of k ends with the key before k.                  *)
LEMMA PreviousPeriodIs ==
  ASSUME NEW k \in PeriodKeys \ {NoBlock}
  PROVE  LET p == PreviousPeriod(k) IN
         /\ k \in KeysOf(k)
         /\ p \in PeriodKeys /\ p # k
         /\ p # NoBlock => p \in Block /\ p \in Ancestors[k] /\ Height[p] < Height[k]
         /\ KeysOf(k) = KeysOf(p) \cup {k}
         /\ \A j \in KeysOf(p) : Height[j] < Height[k]
<1> DEFINE h == Height[k]
           x == h + 1
           n == nMinerConfirmationWindow
           p == PreviousPeriod(k)
<1>1. k \in Block /\ k # NoBlock /\ h \in Nat /\ n \in Nat \ {0}
  BY Zenon, TreeAssumption, ParamsAssumption DEF PeriodKeys
<1>2. x \in Nat \ {0} /\ x % n = 0
  BY <1>1 DEF PeriodKeys
<1>3. k \in KeysOf(k)
  BY Zenon, <1>1, AllChained DEF KeysOf, Chained
<1> HIDE DEF x
<1>4. /\ x - n \in Nat /\ (x - n) % n = 0
      /\ \A y \in Nat : y % n = 0 /\ y < x => y <= x - n
  BY Zenon, <1>1, <1>2, Stepping
<1>5. h - n \in Int /\ h - n <= h /\ h - n < h /\ x - n = (h - n) + 1
  BY <1>1 DEF x
<1>6. /\ h - n < 0 => p = NoBlock
      /\ h - n >= 0 => p \in Ancestors[k] /\ Height[p] = h - n
  <2>1. p = GetAncestor(k, h - n)
    BY Zenon DEF PreviousPeriod
  <2> HIDE DEF p
  <2> QED BY Zenon, <2>1, <1>1, <1>5, GetAncestorIs
<1> HIDE DEF p
<1>7. ASSUME NEW j \in KeysOf(k), j # k PROVE Height[j] \in Nat /\ Height[j] <= h - n
  <2>1. /\ j \in Ancestors[k] /\ Height[j] \in Nat /\ Height[j] <= h
        /\ (Height[j] + 1) % n = 0
    BY Zenon, <1>1, KeysOfType
  <2>2. Height[j] < h
    BY <2>1, <1>1, <1>7, AllChained DEF Chained
  <2>3. Height[j] + 1 \in Nat /\ Height[j] + 1 < x
    BY <2>1, <2>2, <1>1 DEF x
  <2>4. Height[j] + 1 <= x - n
    BY Zenon, <2>1, <2>3, <1>4
  <2> QED BY <2>1, <2>4, <1>1, <1>5
<1>8. CASE h - n < 0
  <2>1. p = NoBlock
    BY Zenon, <1>6, <1>8
  <2>2. KeysOf(p) = {}
    BY Zenon, <2>1 DEF KeysOf
  <2>3. KeysOf(k) = {k}
    BY <1>1, <1>3, <1>7, <1>8
  <2> QED BY Zenon, <2>1, <2>2, <2>3, <1>1, <1>3 DEF PeriodKeys, p
<1>9. CASE h - n >= 0
  <2>1. p \in Ancestors[k] /\ Height[p] = h - n
    BY Zenon, <1>6, <1>9
  <2>2. p \in Block /\ p # NoBlock
    BY <2>1, <1>1, TreeAssumption, AllChained DEF Chained
  <2>3. (Height[p] + 1) % n = 0
    BY Zenon, <2>1, <1>4, <1>5
  <2>4. p \in PeriodKeys
    BY Zenon, <2>2, <2>3 DEF PeriodKeys
  <2>5. Ancestors[p] = {c \in Ancestors[k] : Height[c] <= h - n}
    BY <2>1, <1>1, AllChained DEF Chained
  <2>6. KeysOf(p) \subseteq KeysOf(k) /\ k \notin KeysOf(p)
    BY <2>2, <2>5, <1>1, <1>5 DEF KeysOf
  <2>7. ASSUME NEW j \in KeysOf(k), j # k PROVE j \in KeysOf(p)
    <3>1. j \in Ancestors[k] /\ j \in PeriodKeys
      BY Zenon, <1>1, KeysOfType
    <3> QED BY Zenon, <3>1, <2>2, <2>5, <2>7, <1>7 DEF KeysOf
  <2>8. KeysOf(k) = KeysOf(p) \cup {k}
    BY Zenon, <1>3, <2>6, <2>7
  <2>9. ASSUME NEW j \in KeysOf(p) PROVE Height[j] < Height[k]
    <3>1. j # k
      BY Zenon, <2>6
    <3>2. Height[j] \in Nat /\ Height[j] <= h - n
      BY Zenon, <3>1, <2>6, <1>7
    <3> QED BY <3>2, <1>1, <1>5
  <2>10. Height[p] < Height[k] /\ p # k
    BY <2>1, <1>1, <1>5
  <2> QED BY Zenon, <2>1, <2>2, <2>4, <2>8, <2>9, <2>10, <1>3 DEF p
<1> QED BY <1>8, <1>9, <1>5

-----------------------------------------------------------------------------
(* What a history says of a rule.                                           *)

Rules == [start : Nat, timeout : Nat, meets : SUBSET Block]

Open(rule, b) == Begun(rule, KeysOf(b))

Locks(rule, b) == LockIns(rule, Open(rule, b))

LEMMA TimesAre ==
  ASSUME NEW rule \in Rules, mtp \in Times, NEW b \in Block
  PROVE  mtp[b] \in Nat /\ rule.start \in Nat /\ rule.timeout \in Nat
<1>1. mtp \in [Block -> Nat]
  BY Zenon, TimesAssumption
<1> QED BY Zenon, <1>1 DEF Rules

(* The state after a key k, told by the keys since the start time and those *)
(* of them that locked in.                                                  *)
LEMMA HistoryIs ==
  ASSUME NEW rule, NEW k \in PeriodKeys \ {NoBlock}
  PROVE  LET H == HistoryState(rule, k)
             E == Open(rule, k)
             L == Locks(rule, k)
             late == \E j \in E : mtp[j] >= rule.timeout
         IN  /\ E = {} => H = "defined"
             /\ E # {} /\ L = {k} => H = "lockedin"
             /\ E # {} /\ L \notin {{}, {k}} => H = "active"
             /\ E # {} /\ L = {} /\ late => H = "failed"
             /\ E # {} /\ L = {} /\ ~late => H = "started"
<1> DEFINE E == Open(rule, k)
           L == LockIns(rule, E)
           late == \E j \in E : mtp[j] >= rule.timeout
<1>1. k \in Block /\ k \in KeysOf(k) /\ PeriodEnds(k) = KeysOf(k)
  BY Zenon, PeriodEndsAre, PreviousPeriodIs DEF PeriodKeys
<1>2. E \subseteq KeysOf(k)
  BY Zenon DEF Open, Begun
<1>3. ASSUME E # {} PROVE LastOf(E) = k
  <2>1. \A c \in KeysOf(k) : Height[c] \in Nat /\ c \in Ancestors[k] /\ Height[c] <= Height[k]
    BY Zenon, <1>1, KeysOfType
  <2>2. PICK x \in KeysOf(k) : \A j \in KeysOf(k) : Height[j] >= Height[x] => mtp[j] >= rule.start
    BY Zenon, <1>3 DEF Open, Begun
  <2>3. \A j \in KeysOf(k) : Height[j] >= Height[k] => Height[j] >= Height[x]
    BY <2>1, <2>2, <1>1
  <2>4. k \in E
    BY Zenon, <2>2, <2>3, <1>1 DEF Open, Begun
  <2>5. \A b \in E : (\A c \in E : Height[c] <= Height[b]) => b = k
    <3> SUFFICES ASSUME NEW b \in E, \A c \in E : Height[c] <= Height[b] PROVE b = k
      BY Zenon
    <3>1. Height[k] <= Height[b] /\ Height[b] <= Height[k] /\ b \in Ancestors[k]
      BY Zenon, <2>1, <2>4, <1>2
    <3>2. Height[b] = Height[k]
      BY <3>1, <2>1, <1>1, <1>2
    <3> QED BY Zenon, <3>1, <3>2, <1>1, AllChained DEF Chained
  <2>6. \A c \in E : Height[c] <= Height[k]
    BY Zenon, <2>1, <1>2
  <2> HIDE DEF E
  <2> QED BY <2>4, <2>5, <2>6, Zenon DEF LastOf
<1>4. HistoryState(rule, k) =
        CASE E = {} -> "defined"
          [] E # {} /\ L = {LastOf(E)} -> "lockedin"
          [] L \notin {{}, {LastOf(E)}} -> "active"
          [] L = {} /\ late -> "failed"
          [] OTHER -> "started"
  BY <1>1, Zenon DEF HistoryState, Open
<1>5. E = {} => L = {} /\ ~late
  BY Zenon DEF LockIns
<1>6. Locks(rule, k) = L
  BY Zenon DEF Locks
<1> HIDE DEF L, late, E
<1>7. E = {} => HistoryState(rule, k) = "defined"
  BY <1>4, <1>5, Zenon
<1>8. ASSUME E # {}
      PROVE  /\ L = {k} => HistoryState(rule, k) = "lockedin"
             /\ L \notin {{}, {k}} => HistoryState(rule, k) = "active"
             /\ L = {} /\ late => HistoryState(rule, k) = "failed"
             /\ L = {} /\ ~late => HistoryState(rule, k) = "started"
  <2>1. HistoryState(rule, k) =
          CASE E = {} -> "defined"
            [] E # {} /\ L = {k} -> "lockedin"
            [] L \notin {{}, {k}} -> "active"
            [] L = {} /\ late -> "failed"
            [] OTHER -> "started"
    BY <1>3, <1>4, <1>8, Zenon
  <2> QED BY <2>1, <1>8
<1> QED BY <1>6, <1>7, <1>8, Zenon DEF E, late

LEMMA HistoryStart ==
  ASSUME NEW rule
  PROVE  /\ HistoryState(rule, NoBlock) = "defined"
         /\ Open(rule, NoBlock) = {} /\ Locks(rule, NoBlock) = {}
<1>1. PeriodEnds(NoBlock) = {} /\ KeysOf(NoBlock) = {}
  BY Zenon DEF PeriodEnds, KeysOf
<1>2. Begun(rule, {}) = {} /\ LockIns(rule, {}) = {}
  BY Zenon DEF Begun, LockIns
<1> QED BY Zenon, <1>1, <1>2 DEF HistoryState, Open, Locks

(* A key before the start time ends what has begun, any other adds itself.  *)
LEMMA OpenStep ==
  ASSUME NEW rule, NEW k \in PeriodKeys \ {NoBlock}
  PROVE  LET E == Open(rule, PreviousPeriod(k)) IN
         /\ \A j \in E : Height[j] \in Nat /\ Height[j] < Height[k]
         /\ Height[k] \in Nat /\ k \in Block
         /\ ~(mtp[k] >= rule.start) => Open(rule, k) = {}
         /\ mtp[k] >= rule.start => Open(rule, k) = E \cup {k}
<1> DEFINE p == PreviousPeriod(k)
           K == KeysOf(p)
<1>1. /\ KeysOf(k) = K \cup {k} /\ \A j \in K : Height[j] < Height[k]
      /\ k \in Block /\ Height[k] \in Nat
  BY Zenon, PreviousPeriodIs, TreeAssumption DEF PeriodKeys
<1>2. \A j \in K : Height[j] \in Nat
  <2>1. CASE p = NoBlock
    BY Zenon, <2>1 DEF KeysOf
  <2>2. CASE p # NoBlock
    <3>1. p \in Block
      BY Zenon, <2>2, PreviousPeriodIs
    <3> QED BY Zenon, <3>1, KeysOfType
  <2> QED BY Zenon, <2>1, <2>2
<1>3. Open(rule, p) = Begun(rule, K) /\ Open(rule, k) = Begun(rule, K \cup {k})
  BY Zenon, <1>1 DEF Open
<1> HIDE DEF K
<1>4. /\ \A j \in K : ~(Height[j] >= Height[k]) /\ Height[k] >= Height[j]
      /\ Height[k] >= Height[k]
  BY <1>1, <1>2
<1>5. Begun(rule, K) \subseteq K
  BY Zenon DEF Begun
<1>6. \A x \in K : x \in Begun(rule, K \cup {k}) <=> x \in Begun(rule, K) /\ mtp[k] >= rule.start
  BY <1>4, Zenon DEF Begun
<1>7. k \in Begun(rule, K \cup {k}) <=> mtp[k] >= rule.start
  BY <1>4, Zenon DEF Begun
<1>8. Begun(rule, K \cup {k}) \subseteq K \cup {k}
  BY Zenon DEF Begun
<1>9. /\ ~(mtp[k] >= rule.start) => Begun(rule, K \cup {k}) = {}
      /\ mtp[k] >= rule.start => Begun(rule, K \cup {k}) = Begun(rule, K) \cup {k}
  BY Zenon, <1>5, <1>6, <1>7, <1>8
<1> QED BY Zenon, <1>1, <1>2, <1>3, <1>5, <1>9

(* Whether a key locks in depends on the keys before it only.               *)
LocksIn(rule, k, before) ==
  /\ \A j \in before : mtp[j] < rule.timeout
  /\ mtp[k] < rule.timeout
  /\ before # {}
  /\ Cardinality(Window(k) \cap rule.meets) >= nRuleChangeActivationThreshold

LEMMA LocksStep ==
  ASSUME NEW rule, NEW k \in PeriodKeys \ {NoBlock}, mtp[k] >= rule.start
  PROVE  LET p == PreviousPeriod(k)
             E == Open(rule, p)
         IN  /\ Locks(rule, p) \subseteq E /\ k \notin E
             /\ Locks(rule, k) = Locks(rule, p) \cup (IF LocksIn(rule, k, E) THEN {k} ELSE {})
<1> DEFINE p == PreviousPeriod(k)
           E == Open(rule, p)
<1>1. /\ \A j \in E : Height[j] \in Nat /\ Height[j] < Height[k]
      /\ Height[k] \in Nat /\ Open(rule, k) = E \cup {k}
  BY Zenon, OpenStep
<1> HIDE DEF E
<1>2. /\ \A j \in E : ~(Height[k] <= Height[j]) /\ ~(Height[k] < Height[j]) /\ Height[j] <= Height[k]
      /\ Height[k] <= Height[k] /\ ~(Height[k] < Height[k]) /\ k \notin E
  BY <1>1
<1>3. Locks(rule, p) = LockIns(rule, E) /\ Locks(rule, k) = LockIns(rule, E \cup {k})
  BY Zenon, <1>1 DEF Locks, E
<1>4. LockIns(rule, E) \subseteq E
  BY Zenon DEF LockIns
<1>5. \A x \in E : x \in LockIns(rule, E \cup {k}) <=> x \in LockIns(rule, E)
  BY <1>2, Zenon DEF LockIns
<1>6. k \in LockIns(rule, E \cup {k}) <=> LocksIn(rule, k, E)
  BY <1>1, <1>2, Zenon DEF LockIns, LocksIn
<1>7. LockIns(rule, E \cup {k}) \subseteq E \cup {k}
  BY Zenon DEF LockIns
<1>8. LockIns(rule, E \cup {k}) = LockIns(rule, E) \cup (IF LocksIn(rule, k, E) THEN {k} ELSE {})
  BY Zenon, <1>4, <1>5, <1>6, <1>7
<1> QED BY Zenon, <1>2, <1>3, <1>4, <1>8 DEF E

LEMMA NextStateIs ==
  ASSUME NEW rule \in Rules, mtp \in Times, NEW k \in Block
  PROVE  LET N(state) == NextState(rule, state, k)
             enough == Cardinality(Window(k) \cap rule.meets) >= nRuleChangeActivationThreshold
         IN  /\ mtp[k] >= rule.timeout => N("defined") = "failed" /\ N("started") = "failed"
             /\ mtp[k] >= rule.start /\ mtp[k] < rule.timeout => N("defined") = "started"
             /\ mtp[k] < rule.timeout =>
                  N("started") = IF enough THEN "lockedin" ELSE "started"
             /\ N("lockedin") = "active" /\ N("active") = "active" /\ N("failed") = "failed"
<1> DEFINE enough == Cardinality(Window(k) \cap rule.meets) >= nRuleChangeActivationThreshold
<1>1. rule.start \in Nat /\ rule.timeout \in Nat /\ mtp[k] \in Nat
  BY Zenon, TimesAre
<1>2. \A state : NextState(rule, state, k) =
        CASE state = "defined" /\ mtp[k] >= rule.timeout -> "failed"
          [] state = "defined" /\ mtp[k] < rule.timeout /\ mtp[k] >= rule.start -> "started"
          [] state = "started" /\ mtp[k] >= rule.timeout -> "failed"
          [] state = "started" /\ mtp[k] < rule.timeout /\ enough -> "lockedin"
          [] state = "lockedin" -> "active"
          [] OTHER -> state
  BY Zenon DEF NextState
<1> HIDE DEF enough
<1>3. mtp[k] >= rule.timeout =>
        NextState(rule, "defined", k) = "failed" /\ NextState(rule, "started", k) = "failed"
  BY <1>1, <1>2
<1>4. mtp[k] >= rule.start /\ mtp[k] < rule.timeout => NextState(rule, "defined", k) = "started"
  BY <1>1, <1>2
<1>5. mtp[k] < rule.timeout =>
        NextState(rule, "started", k) = IF enough THEN "lockedin" ELSE "started"
  BY <1>1, <1>2
<1>6. /\ NextState(rule, "lockedin", k) = "active" /\ NextState(rule, "active", k) = "active"
      /\ NextState(rule, "failed", k) = "failed"
  BY Zenon, <1>2
<1> QED BY Zenon, <1>3, <1>4, <1>5, <1>6 DEF enough

(* The state after k follows from the one a period before, as GetStateFor   *)
(* computes it.                                                             *)
LEMMA HistoryStep ==
  ASSUME NEW rule \in Rules, mtp \in Times, NEW k \in PeriodKeys \ {NoBlock}
  PROVE  HistoryState(rule, k) =
           IF mtp[k] < rule.start THEN "defined"
           ELSE NextState(rule, HistoryState(rule, PreviousPeriod(k)), k)
<1> DEFINE p == PreviousPeriod(k)
           E == Open(rule, p)
           F == Open(rule, k)
           H == HistoryState(rule, k)
           G == HistoryState(rule, p)
           L == Locks(rule, k)
           M == Locks(rule, p)
           before == \E j \in E : mtp[j] >= rule.timeout
           late == \E j \in F : mtp[j] >= rule.timeout
<1>1. k \in Block /\ p \in PeriodKeys /\ mtp[k] \in Nat /\ rule.start \in Nat /\ rule.timeout \in Nat
  BY Zenon, PreviousPeriodIs, TimesAre DEF PeriodKeys
<1>2. /\ F = {} => H = "defined"
      /\ F # {} /\ L = {k} => H = "lockedin"
      /\ F # {} /\ L \notin {{}, {k}} => H = "active"
      /\ F # {} /\ L = {} /\ late => H = "failed"
      /\ F # {} /\ L = {} /\ ~late => H = "started"
  BY Zenon, HistoryIs
<1>3. /\ E = {} => G = "defined"
      /\ E # {} /\ M # {} => G \in {"lockedin", "active"}
      /\ E # {} /\ M = {} /\ before => G = "failed"
      /\ E # {} /\ M = {} /\ ~before => G = "started"
  <2>1. CASE p = NoBlock
    BY Zenon, <2>1, HistoryStart
  <2>2. CASE p # NoBlock
    <3>1. p \in PeriodKeys \ {NoBlock}
      BY Zenon, <1>1, <2>2
    <3> HIDE DEF p
    <3> QED BY Zenon, <3>1, HistoryIs
  <2> QED BY Zenon, <2>1, <2>2
<1>4. CASE mtp[k] < rule.start
  <2>1. ~(mtp[k] >= rule.start)
    BY <1>1, <1>4
  <2>2. F = {}
    BY Zenon, <2>1, OpenStep
  <2> QED BY Zenon, <2>2, <1>2, <1>4
<1>5. CASE ~(mtp[k] < rule.start)
  <2> DEFINE enough == Cardinality(Window(k) \cap rule.meets) >= nRuleChangeActivationThreshold
  <2>1. /\ mtp[k] >= rule.start /\ (mtp[k] >= rule.timeout \/ mtp[k] < rule.timeout)
        /\ ~(mtp[k] >= rule.timeout /\ mtp[k] < rule.timeout)
    BY <1>1, <1>5
  <2>2. /\ mtp[k] >= rule.timeout =>
             NextState(rule, "defined", k) = "failed" /\ NextState(rule, "started", k) = "failed"
        /\ mtp[k] >= rule.start /\ mtp[k] < rule.timeout => NextState(rule, "defined", k) = "started"
        /\ mtp[k] < rule.timeout =>
             NextState(rule, "started", k) = IF enough THEN "lockedin" ELSE "started"
        /\ NextState(rule, "lockedin", k) = "active" /\ NextState(rule, "active", k) = "active"
        /\ NextState(rule, "failed", k) = "failed"
    BY Zenon, <1>1, NextStateIs
  <2>3. F = E \cup {k}
    BY Zenon, <2>1, OpenStep
  <2>4. M \subseteq E /\ k \notin E /\ L = M \cup (IF LocksIn(rule, k, E) THEN {k} ELSE {})
    BY Zenon, <2>1, LocksStep
  <2>5. F # {} /\ (late <=> before \/ mtp[k] >= rule.timeout)
    BY Zenon, <2>3
  <2>6. \A j \in E : mtp[j] < rule.timeout <=> ~(mtp[j] >= rule.timeout)
    <3>1. \A j \in E : j \in Block
      <4>1. CASE p = NoBlock
        BY Zenon, <4>1, HistoryStart
      <4>2. CASE p # NoBlock
        <5>1. p \in Block
          BY Zenon, <4>2, <1>1 DEF PeriodKeys
        <5>2. E \subseteq KeysOf(p)
          BY Zenon DEF Open, Begun
        <5> QED BY Zenon, <5>1, <5>2, KeysOfType
      <4> QED BY Zenon, <4>1, <4>2
    <3>2. \A j \in E : mtp[j] \in Nat
      BY Zenon, <3>1, TimesAre
    <3> HIDE DEF E
    <3> QED BY <3>2, <1>1
  <2>7. LocksIn(rule, k, E) <=> ~before /\ mtp[k] < rule.timeout /\ E # {} /\ enough
    BY Zenon, <2>6 DEF LocksIn
  <2> SUFFICES H = NextState(rule, G, k)
    BY Zenon, <1>5
  <2> HIDE DEF enough, late, before, L, M, E, F, G, H, p
  <2>8. CASE E = {}
    <3>1. L = {} /\ ~before /\ G = "defined"
      BY Zenon, <2>4, <2>7, <2>8, <1>3 DEF before
    <3> QED BY Zenon, <3>1, <2>1, <2>2, <2>5, <1>2
  <2>9. CASE E # {} /\ M = {} /\ before
    BY Zenon, <2>2, <2>4, <2>5, <2>7, <2>9, <1>2, <1>3
  <2>10. CASE E # {} /\ M = {} /\ ~before
    <3>1. G = "started" /\ (LocksIn(rule, k, E) <=> mtp[k] < rule.timeout /\ enough)
      BY Zenon, <2>7, <2>10, <1>3
    <3>2. L = IF LocksIn(rule, k, E) THEN {k} ELSE {}
      BY Zenon, <2>4, <2>10
    <3>3. late <=> mtp[k] >= rule.timeout
      BY Zenon, <2>5, <2>10
    <3>4. CASE mtp[k] >= rule.timeout
      BY Zenon, <3>1, <3>2, <3>3, <3>4, <2>1, <2>2, <2>5, <1>2
    <3>5. CASE mtp[k] < rule.timeout
      BY Zenon, <3>1, <3>2, <3>3, <3>5, <2>1, <2>2, <2>5, <1>2
    <3> QED BY Zenon, <3>4, <3>5, <2>1
  <2>11. CASE E # {} /\ M # {}
    <3>1. L \notin {{}, {k}}
      BY Zenon, <2>4, <2>11
    <3> QED BY Zenon, <3>1, <2>2, <2>5, <2>11, <1>2, <1>3
  <2> QED BY Zenon, <2>8, <2>9, <2>10, <2>11
<1> QED BY Zenon, <1>4, <1>5

-----------------------------------------------------------------------------
(* The caches.                                                              *)

CacheOK(rule, c) ==
  DOMAIN c \subseteq PeriodKeys /\ \A k \in DOMAIN c : c[k] = HistoryState(rule, k)

(* GetStateFor computes the states of the history from any cache that holds *)
(* only such states.                                                        *)
LEMMA ComputedIs ==
  ASSUME NEW rule \in Rules, mtp \in Times, NEW c, CacheOK(rule, c)
  PROVE  Computed(rule, c) = [k \in PeriodKeys |-> HistoryState(rule, k)]
<1> DEFINE V(F, k) == IF k \in DOMAIN c THEN c[k]
                      ELSE IF WalkEnds(rule, c, k) THEN "defined"
                      ELSE NextState(rule, F[PreviousPeriod(k)], k)
           G == [k \in PeriodKeys |-> HistoryState(rule, k)]
           F == Computed(rule, c)
<1>1. F = CHOOSE S : S = [k \in PeriodKeys |-> V(S, k)]
  BY Zenon DEF Computed
<1>2. ASSUME NEW k \in PeriodKeys PROVE G[k] = V(G, k)
  <2>1. CASE k \in DOMAIN c
    BY Zenon, <2>1 DEF CacheOK
  <2>2. CASE k \notin DOMAIN c /\ k = NoBlock
    BY Zenon, <2>2, HistoryStart DEF WalkEnds
  <2>3. CASE k \notin DOMAIN c /\ k # NoBlock /\ mtp[k] < rule.start
    BY Zenon, <2>3, HistoryStep DEF WalkEnds
  <2>4. CASE k \notin DOMAIN c /\ k # NoBlock /\ ~(mtp[k] < rule.start)
    <3>1. V(G, k) = NextState(rule, G[PreviousPeriod(k)], k)
      BY Zenon, <2>4 DEF WalkEnds
    <3>2. PreviousPeriod(k) \in PeriodKeys
      BY Zenon, <2>4, PreviousPeriodIs
    <3>3. G[PreviousPeriod(k)] = HistoryState(rule, PreviousPeriod(k))
      BY Zenon, <3>2
    <3>4. HistoryState(rule, k) = NextState(rule, HistoryState(rule, PreviousPeriod(k)), k)
      BY Zenon, <2>4, HistoryStep
    <3>5. G[k] = HistoryState(rule, k)
      BY Zenon
    <3> QED BY <3>1, <3>3, <3>4, <3>5, Zenon
  <2> QED BY Zenon, <2>1, <2>2, <2>3, <2>4
<1>3. G = [k \in PeriodKeys |-> V(G, k)]
  BY <1>2, Zenon
<1>4. F = [k \in PeriodKeys |-> V(F, k)]
  <2> HIDE DEF F, G, V
  <2> QED BY <1>1, <1>3, Zenon
<1> HIDE DEF F
<1> DEFINE S == {n \in Nat : \A k \in PeriodKeys : k = NoBlock \/ Height[k] < n => F[k] = G[k]}
<1>5. F[NoBlock] = G[NoBlock]
  <2>1. NoBlock \in PeriodKeys
    BY Zenon DEF PeriodKeys
  <2>2. V(F, NoBlock) = V(G, NoBlock)
    BY Zenon DEF WalkEnds
  <2>3. F[NoBlock] = V(F, NoBlock)
    BY <2>1, <1>4, Zenon
  <2> QED BY <2>1, <2>2, <2>3, <1>2, Zenon
<1>6. 0 \in S
  <2>1. \A k \in PeriodKeys : k # NoBlock => Height[k] \in Nat
    BY Zenon, TreeAssumption DEF PeriodKeys
  <2> QED BY <2>1, <1>5
<1>7. ASSUME NEW n \in Nat, n \in S PROVE n + 1 \in S
  <2> SUFFICES ASSUME NEW k \in PeriodKeys, k # NoBlock, Height[k] < n + 1 PROVE F[k] = G[k]
    BY <1>5
  <2> DEFINE p == PreviousPeriod(k)
  <2>1. p \in PeriodKeys /\ (p # NoBlock => p \in Block /\ Height[p] < Height[k])
    BY Zenon, PreviousPeriodIs
  <2>2. k \in Block /\ Height[k] \in Nat /\ (p \in Block => Height[p] \in Nat)
    BY Zenon, TreeAssumption DEF PeriodKeys
  <2>3. p = NoBlock \/ Height[p] < n
    BY <2>1, <2>2
  <2>4. F[p] = G[p]
    BY Zenon, <2>1, <2>3, <1>7
  <2>5. V(F, k) = V(G, k)
    BY Zenon, <2>4
  <2>6. F[k] = V(F, k)
    BY <1>4, Zenon
  <2> QED BY <2>5, <2>6, <1>2, Zenon
<1> HIDE DEF S
<1>8. Nat \subseteq S
  BY Zenon, <1>6, <1>7, Induction
<1>9. ASSUME NEW k \in PeriodKeys PROVE F[k] = G[k]
  <2>1. CASE k = NoBlock
    BY Zenon, <2>1, <1>5
  <2>2. CASE k # NoBlock
    <3>1. Height[k] \in Nat
      BY Zenon, <2>2, TreeAssumption DEF PeriodKeys
    <3>2. Height[k] + 1 \in S /\ Height[k] < Height[k] + 1
      BY <3>1, <1>8
    <3> QED BY Zenon, <3>2 DEF S
  <2> QED BY Zenon, <2>1, <2>2
<1>10. F = [k \in PeriodKeys |-> F[k]]
  <2> DEFINE W == [k \in PeriodKeys |-> V(F, k)]
  <2>1. F = W
    BY Zenon, <1>4
  <2>2. DOMAIN W = PeriodKeys /\ \A k \in PeriodKeys : W[k] = V(F, k)
    BY Zenon
  <2>3. W = [k \in PeriodKeys |-> W[k]]
    BY Zenon
  <2> HIDE DEF W, V, G
  <2> QED BY <2>1, <2>3, Zenon
<1>11. F = [k \in PeriodKeys |-> HistoryState(rule, k)]
  BY Zenon, <1>9, <1>10
<1> QED BY Zenon, <1>11 DEF F

(* The keys of the period of a block are keys of the caches.                *)
LEMMA VisitedAre ==
  ASSUME NEW rule, NEW c, NEW b \in Block \cup {NoBlock}
  PROVE  PeriodParent(b) \in PeriodKeys /\ Visited(rule, c, b) \subseteq PeriodKeys
<1>1. PeriodParent(b) \in PeriodKeys
  <2>1. CASE b = NoBlock
    BY Zenon, <2>1 DEF PeriodParent, PeriodKeys
  <2>2. CASE b # NoBlock
    <3>1. PeriodParent(b) \in KeysOf(b) \cup {NoBlock}
      BY Zenon, <2>2, PeriodParentIs
    <3> QED BY Zenon, <3>1, <2>2, KeysOfType DEF PeriodKeys
  <2> QED BY Zenon, <2>1, <2>2
<1>2. Keys(PeriodParent(b)) \subseteq PeriodKeys
  BY Zenon DEF Keys, PeriodKeys
<1> QED BY Zenon, <1>1, <1>2 DEF Visited

(* The answer for the block after b is that of the history of b.            *)
LEMMA GetStateForIs ==
  ASSUME NEW rule \in Rules, mtp \in Times, NEW c, CacheOK(rule, c),
         NEW b \in Block \cup {NoBlock}
  PROVE  GetStateFor(rule, c, b) = HistoryState(rule, b)
<1> DEFINE k == PeriodParent(b)
<1>1. k \in PeriodKeys
  BY Zenon, VisitedAre
<1>2. GetStateFor(rule, c, b) = HistoryState(rule, k)
  BY Zenon, <1>1, ComputedIs DEF GetStateFor
<1>3. KeysOf(k) = KeysOf(b)
  <2>1. CASE b = NoBlock
    BY Zenon, <2>1 DEF PeriodParent
  <2>2. CASE b # NoBlock
    <3>1. /\ b \in Block /\ k \in KeysOf(b) \cup {NoBlock}
          /\ \A j \in KeysOf(b) : k \in KeysOf(b) /\ Height[j] <= Height[k]
      BY Zenon, <2>2, PeriodParentIs
    <3> HIDE DEF k
    <3>2. CASE k = NoBlock
      <4>1. NoBlock \notin KeysOf(b)
        BY Zenon, <3>1, KeysOfType
      <4> QED BY Zenon, <3>1, <3>2, <4>1 DEF KeysOf
    <3>3. CASE k \in KeysOf(b)
      <4>1. k \in Ancestors[b] /\ k # NoBlock
        BY Zenon, <3>1, <3>3, KeysOfType
      <4>2. Ancestors[k] = {x \in Ancestors[b] : Height[x] <= Height[k]}
        BY <3>1, <4>1, AllChained DEF Chained
      <4> QED BY <2>2, <3>1, <4>1, <4>2, Zenon DEF KeysOf
    <3> QED BY Zenon, <3>1, <3>2, <3>3
  <2> QED BY Zenon, <2>1, <2>2
<1>4. k \in Block \cup {NoBlock}
  BY Zenon, <1>1 DEF PeriodKeys
<1>5. PeriodEnds(k) = PeriodEnds(b)
  BY Zenon, <1>3, <1>4, PeriodEndsAre
<1>6. HistoryState(rule, k) = HistoryState(rule, b)
  BY <1>5, Zenon DEF HistoryState
<1> QED BY Zenon, <1>2, <1>6

LEMMA FilledIs ==
  ASSUME NEW rule \in Rules, mtp \in Times, NEW c, CacheOK(rule, c),
         NEW B \in SUBSET (Block \cup {NoBlock})
  PROVE  CacheOK(rule, Filled(rule, c, B))
<1> DEFINE D == DOMAIN c \cup UNION {Visited(rule, c, b) : b \in B}
<1>1. D \subseteq PeriodKeys
  BY VisitedAre DEF CacheOK
<1>2. Filled(rule, c, B) = [k \in D |-> Computed(rule, c)[k]]
  BY Zenon DEF Filled
<1> HIDE DEF D
<1>3. \A k \in D : Computed(rule, c)[k] = HistoryState(rule, k)
  BY Zenon, <1>1, ComputedIs
<1> QED BY Zenon, <1>1, <1>2, <1>3 DEF CacheOK

-----------------------------------------------------------------------------
(* The caches hold states of the history only, whatever is asked.           *)

IInv ==
  /\ known \subseteq Block /\ tip \in Block
  /\ mtp \in Times
  /\ DOMAIN cache = Deployment /\ DOMAIN warningcache = Bit
  /\ \A d \in Deployment : CacheOK(VersionBitsRule(d), cache[d])
  /\ \A bit \in Bit : CacheOK(HistoryWarningRule(bit), warningcache[bit])

LEMMA RulesAre ==
  /\ \A d \in Deployment : VersionBitsRule(d) \in Rules
  /\ \A bit \in Bit : HistoryWarningRule(bit) \in Rules
<1>1. ASSUME NEW d \in Deployment PROVE VersionBitsRule(d) \in Rules
  <2>1. nStartTime[d] \in Nat /\ nTimeout[d] \in Nat
    BY Zenon, ParamsAssumption
  <2> QED BY Zenon, <2>1 DEF VersionBitsRule, Rules
<1>2. ASSUME NEW bit \in Bit PROVE HistoryWarningRule(bit) \in Rules
  <2> DEFINE M == {b \in Block :
                /\ bit \in nVersion[b]
                /\ \A d \in Deployment :
                     DeploymentBit[d] = bit =>
                       HistoryState(VersionBitsRule(d), HashPrev[b]) \notin {"started", "lockedin"}}
  <2>1. M \subseteq Block
    BY Zenon
  <2>2. HistoryWarningRule(bit) = [start |-> 0, timeout |-> Never, meets |-> M]
    BY Zenon DEF HistoryWarningRule
  <2> HIDE DEF M
  <2> QED BY <2>1, <2>2, ParamsAssumption DEF Rules
<1> QED BY Zenon, <1>1, <1>2

(* What the warnings count is what the histories of the deployments say.    *)
LEMMA WarningRule ==
  ASSUME IInv, NEW bit \in Bit
  PROVE  WarningBitsRule(bit) = HistoryWarningRule(bit)
<1>1. ASSUME NEW b \in Block, NEW d \in Deployment
      PROVE  VersionBitsState(d, HashPrev[b]) = HistoryState(VersionBitsRule(d), HashPrev[b])
  <2>1. HashPrev[b] \in Block \cup {NoBlock}
    BY Zenon, TreeAssumption
  <2> QED BY Zenon, <2>1, GetStateForIs, RulesAre DEF IInv, VersionBitsState
<1>2. ASSUME NEW b \in Block
      PROVE  bit \notin ComputeBlockVersion(HashPrev[b]) <=>
               \A d \in Deployment : DeploymentBit[d] = bit =>
                 HistoryState(VersionBitsRule(d), HashPrev[b]) \notin {"started", "lockedin"}
  BY <1>1, Zenon DEF ComputeBlockVersion, VersionBitsMask
<1> QED BY <1>2, Zenon DEF WarningBitsRule, HistoryWarningRule

LEMMA CachesKept ==
  ASSUME mtp \in Times, UNCHANGED <<mtp, nVersion>>,
         known' \subseteq Block, tip' \in Block,
         DOMAIN cache' = Deployment, DOMAIN warningcache' = Bit,
         \A d \in Deployment : CacheOK(VersionBitsRule(d), cache'[d]),
         \A bit \in Bit : CacheOK(HistoryWarningRule(bit), warningcache'[bit])
  PROVE  IInv'
<1>1. \A bit \in Bit : HistoryWarningRule(bit)' = HistoryWarningRule(bit)
  <2>1. \A d \in Deployment, b \in Block :
          HistoryState(VersionBitsRule(d), HashPrev[b])' = HistoryState(VersionBitsRule(d), HashPrev[b])
    BY DEF HistoryState, Begun, LockIns, LastOf, PeriodEnds, Window, VersionBitsRule
  <2> QED BY <2>1 DEF HistoryWarningRule
<1>2. ASSUME NEW d \in Deployment PROVE CacheOK(VersionBitsRule(d), cache[d])'
  <2> DEFINE r == VersionBitsRule(d)
             D == cache'[d]
  <2>1. DOMAIN D \subseteq PeriodKeys /\ \A k \in DOMAIN D : D[k] = HistoryState(r, k)
    BY Zenon, <1>2 DEF CacheOK
  <2>2. \A k : HistoryState(VersionBitsRule(d), k)' = HistoryState(r, k)
    BY <1>2 DEF HistoryState, Begun, LockIns, LastOf, PeriodEnds, Window, VersionBitsRule
  <2>3. PeriodKeys' = PeriodKeys
    BY Zenon DEF PeriodKeys
  <2> QED BY <2>1, <2>2, <2>3, Zenon DEF CacheOK
<1>3. ASSUME NEW bit \in Bit PROVE CacheOK(HistoryWarningRule(bit), warningcache[bit])'
  <2> DEFINE r == HistoryWarningRule(bit)
             D == warningcache'[bit]
  <2>1. DOMAIN D \subseteq PeriodKeys /\ \A k \in DOMAIN D : D[k] = HistoryState(r, k)
    BY Zenon, <1>3 DEF CacheOK
  <2>2. \A k : HistoryState(HistoryWarningRule(bit), k)' = HistoryState(r, k)
    <3>1. HistoryWarningRule(bit)' = r
      BY Zenon, <1>1, <1>3
    <3> HIDE DEF r
    <3> QED BY <3>1 DEF HistoryState, Begun, LockIns, LastOf, PeriodEnds, Window
  <2>3. PeriodKeys' = PeriodKeys
    BY Zenon DEF PeriodKeys
  <2> QED BY <2>1, <2>2, <2>3, Zenon DEF CacheOK
<1> QED BY Zenon, <1>2, <1>3 DEF IInv

LEMMA EmptyOK ==
  ASSUME NEW rule
  PROVE  CacheOK(rule, Empty)
<1>1. DOMAIN Empty = {}
  BY Zenon DEF Empty
<1> QED BY Zenon, <1>1 DEF CacheOK

LEMMA InitCaches ==
  Init => IInv
<1> SUFFICES ASSUME Init PROVE IInv
  BY Zenon
<1>1. \A d \in Deployment : cache[d] = Empty
  BY Zenon DEF Init
<1>2. \A bit \in Bit : warningcache[bit] = Empty
  BY Zenon DEF Init
<1>3. /\ known \subseteq Block /\ tip \in Block /\ mtp \in Times
      /\ DOMAIN cache = Deployment /\ DOMAIN warningcache = Bit
  BY Zenon, TreeAssumption DEF Init
<1> QED BY Zenon, <1>1, <1>2, <1>3, EmptyOK DEF IInv

LEMMA AskedOK ==
  ASSUME IInv, NEW B \in SUBSET (Block \cup {NoBlock})
  PROVE  /\ DOMAIN Asked(B) = Deployment
         /\ \A d \in Deployment : CacheOK(VersionBitsRule(d), Asked(B)[d])
<1>1. \A d \in Deployment : CacheOK(VersionBitsRule(d), Filled(VersionBitsRule(d), cache[d], B))
  BY Zenon, FilledIs, RulesAre DEF IInv
<1> QED BY Zenon, <1>1 DEF Asked

(* The blocks UpdateTip looks up are blocks of the tree.                    *)
LEMMA CountedAre ==
  ASSUME NEW bit \in Bit, NEW b \in Block
  PROVE  Counted(bit, b) \subseteq Block
<1> DEFINE rule == WarningBitsRule(bit)
           c == warningcache[bit]
<1>1. ASSUME NEW j \in Visited(rule, c, b), ~WalkEnds(rule, c, j) PROVE Window(j) \subseteq Block
  <2>1. j \in PeriodKeys /\ j # NoBlock
    BY Zenon, <1>1, VisitedAre DEF WalkEnds
  <2>2. j \in Block
    BY Zenon, <2>1 DEF PeriodKeys
  <2> QED BY Zenon, <2>2, AllChained DEF Window, Chained
<1> QED BY <1>1, Zenon DEF Counted

LEMMA NextCaches ==
  IInv /\ [Next]_vars => IInv'
<1> SUFFICES ASSUME IInv, [Next]_vars PROVE IInv'
  BY Zenon
<1> USE DEF IInv
<1>1. ASSUME NEW b \in Block, AcceptUnchecked(b) PROVE IInv'
  BY Zenon, <1>1, CachesKept DEF AcceptUnchecked
<1>2. ASSUME NEW b \in Block, ContextualCheckBlockHeader(b) PROVE IInv'
  <2>1. known' \subseteq Block
    BY Zenon, <1>2 DEF ContextualCheckBlockHeader
  <2>2. UNCHANGED <<tip, nVersion, mtp, cache, warningcache>>
    BY Zenon, <1>2 DEF ContextualCheckBlockHeader
  <2> QED BY Zenon, <2>1, <2>2, CachesKept
<1>3. ASSUME NEW d \in Deployment, NEW b \in Block, AskVersionBits(d, b) PROVE IInv'
  <2> DEFINE c == Filled(VersionBitsRule(d), cache[d], {b})
  <2>1. CacheOK(VersionBitsRule(d), c)
    BY Zenon, <1>3, FilledIs, RulesAre
  <2>2. cache' = [cache EXCEPT ![d] = c] /\ UNCHANGED <<known, tip, nVersion, mtp, warningcache>>
    BY Zenon, <1>3 DEF AskVersionBits
  <2> HIDE DEF c
  <2>3. DOMAIN cache' = Deployment /\ \A e \in Deployment : cache'[e] = IF e = d THEN c ELSE cache[e]
    BY Zenon, <2>2
  <2>4. \A e \in Deployment : CacheOK(VersionBitsRule(e), cache'[e])
    BY Zenon, <2>1, <2>3
  <2> QED BY Zenon, <2>2, <2>3, <2>4, CachesKept
<1>4. ASSUME CreateNewBlock PROVE IInv'
  <2>1. cache' = Asked({tip}) /\ UNCHANGED <<known, tip, nVersion, mtp, warningcache>>
    BY Zenon, <1>4 DEF CreateNewBlock
  <2>2. /\ DOMAIN cache' = Deployment
        /\ \A d \in Deployment : CacheOK(VersionBitsRule(d), cache'[d])
    BY Zenon, <2>1, AskedOK
  <2> QED BY Zenon, <2>1, <2>2, CachesKept
<1>5. ASSUME NEW b \in Block, UpdateTipInDownload(b) PROVE IInv'
  BY Zenon, <1>5, CachesKept DEF UpdateTipInDownload
<1>6. ASSUME NEW b \in Block, UpdateTip(b) PROVE IInv'
  <2> DEFINE looked == LastBlocks(b) \cup UNION {Counted(bit, b) : bit \in Bit}
             B == {HashPrev[c] : c \in looked}
  <2>1. /\ cache' = Asked(B) /\ tip' = b
        /\ warningcache' = [bit \in Bit |-> Filled(WarningBitsRule(bit), warningcache[bit], {b})]
        /\ UNCHANGED <<known, nVersion, mtp>>
    BY Zenon, <1>6 DEF UpdateTip
  <2>2. looked \subseteq Block
    <3>1. LastBlocks(b) \subseteq Block
      BY Zenon, <1>6, AllChained DEF LastBlocks, Chained
    <3>2. \A bit \in Bit : Counted(bit, b) \subseteq Block
      BY Zenon, <1>6, CountedAre
    <3> QED BY Zenon, <3>1, <3>2
  <2> HIDE DEF looked
  <2>3. B \subseteq Block \cup {NoBlock}
    BY Zenon, <2>2, TreeAssumption
  <2> HIDE DEF B
  <2>4. /\ DOMAIN cache' = Deployment
        /\ \A d \in Deployment : CacheOK(VersionBitsRule(d), cache'[d])
    BY Zenon, <2>1, <2>3, AskedOK
  <2>5. ASSUME NEW bit \in Bit PROVE CacheOK(HistoryWarningRule(bit), warningcache'[bit])
    <3>1. warningcache'[bit] = Filled(HistoryWarningRule(bit), warningcache[bit], {b})
      BY Zenon, <2>1, WarningRule
    <3> QED BY Zenon, <3>1, <1>6, FilledIs, RulesAre
  <2>6. DOMAIN warningcache' = Bit
    BY Zenon, <2>1
  <2> QED BY Zenon, <2>1, <2>4, <2>5, <2>6, <1>6, CachesKept
<1>7. ASSUME Restart PROVE IInv'
  <2>1. /\ \A d \in Deployment : cache'[d] = Empty
        /\ \A bit \in Bit : warningcache'[bit] = Empty
        /\ DOMAIN cache' = Deployment /\ DOMAIN warningcache' = Bit
    BY Zenon, <1>7 DEF Restart
  <2>2. UNCHANGED <<known, tip, nVersion, mtp>>
    BY Zenon, <1>7 DEF Restart
  <2> QED BY Zenon, <2>1, <2>2, EmptyOK, CachesKept
<1>8. ASSUME UNCHANGED vars PROVE IInv'
  BY Zenon, <1>8, CachesKept DEF vars
<1> QED BY Zenon, <1>1, <1>2, <1>3, <1>4, <1>5, <1>6, <1>7, <1>8 DEF Next

(* For any tree, signals and deployments, any median times, also such as    *)
(* go back, and through restarts and reorganizations, the versionbits       *)
(* caches never change an answer: GetStateFor says of every known block,    *)
(* for every deployment and for the warnings of UpdateTip, what the history *)
(* of that block says.                                                      *)
THEOREM StatesAlwaysExact == Spec => []StatesExact
<1>1. IInv => StatesExact
  <2> SUFFICES ASSUME IInv PROVE StatesExact
    BY Zenon
  <2>1. \A d \in Deployment : \A b \in known \cup {NoBlock} :
          VersionBitsState(d, b) = HistoryState(VersionBitsRule(d), b)
    BY Zenon, GetStateForIs, RulesAre DEF IInv, VersionBitsState
  <2>2. ASSUME NEW bit \in Bit, NEW b \in known \cup {NoBlock}
        PROVE  GetStateFor(WarningBitsRule(bit), warningcache[bit], b) =
                 HistoryState(HistoryWarningRule(bit), b)
    <3>1. WarningBitsRule(bit) = HistoryWarningRule(bit)
      BY Zenon, WarningRule
    <3> QED BY Zenon, <3>1, GetStateForIs, RulesAre DEF IInv
  <2> QED BY Zenon, <2>1, <2>2 DEF StatesExact
<1> QED BY <1>1, InitCaches, NextCaches, PTL DEF Spec

-----------------------------------------------------------------------------
(* Since when a deployment is in its state.                                 *)

(* The keys on the chain of k from which on every key before k has state s; *)
(* G holds the states.                                                      *)
Run(G, s, k) ==
  {j \in KeysOf(k) : \A x \in KeysOf(k) : Height[j] <= Height[x] /\ x # k => G[x] = s}

Least(R) == CHOOSE j \in R : \A i \in R : Height[j] <= Height[i]

LEMMA LeastIs ==
  ASSUME NEW k \in Block, NEW R \in SUBSET KeysOf(k), R # {}
  PROVE  /\ Least(R) \in R /\ \A i \in R : Height[Least(R)] <= Height[i]
         /\ \A j \in R : (\A i \in R : Height[j] <= Height[i]) => j = Least(R)
<1>1. \A j \in R : Height[j] \in Nat /\ j \in Ancestors[k]
  BY Zenon, KeysOfType
<1>2. \E j \in R : \A i \in R : Height[j] <= Height[i]
  <2> DEFINE T == {Height[j] : j \in R}
  <2>1. T \subseteq Nat /\ T # {}
    BY Zenon, <1>1
  <2>2. PICK m \in T : \A h \in T : m <= h
    BY Zenon, <2>1, Smallest
  <2>3. PICK j \in R : Height[j] = m
    BY Zenon, <2>2
  <2> QED BY Zenon, <2>2, <2>3
<1>3. Least(R) \in R /\ \A i \in R : Height[Least(R)] <= Height[i]
  BY <1>2, Zenon DEF Least
<1>4. ASSUME NEW j \in R, \A i \in R : Height[j] <= Height[i] PROVE j = Least(R)
  <2>1. Height[j] = Height[Least(R)]
    BY <1>1, <1>3, <1>4
  <2> QED BY Zenon, <2>1, <1>1, <1>3, OnePerHeight
<1> QED BY Zenon, <1>3, <1>4

LEMMA RunStep ==
  ASSUME NEW G, NEW s, NEW k \in PeriodKeys \ {NoBlock}
  PROVE  LET p == PreviousPeriod(k) IN
         /\ k \in Run(G, s, k) /\ Run(G, s, k) \subseteq KeysOf(k)
         /\ p # NoBlock /\ G[p] = s => Least(Run(G, s, k)) = Least(Run(G, s, p))
         /\ ~(p # NoBlock /\ G[p] = s) => Least(Run(G, s, k)) = k
<1> DEFINE p == PreviousPeriod(k)
           R == Run(G, s, k)
<1>1. /\ k \in Block /\ k \in KeysOf(k) /\ p \in PeriodKeys
      /\ KeysOf(k) = KeysOf(p) \cup {k}
      /\ \A j \in KeysOf(p) : Height[j] < Height[k]
      /\ p # NoBlock => p \in Block /\ Height[p] < Height[k]
  BY Zenon, PreviousPeriodIs DEF PeriodKeys
<1>2. \A x \in KeysOf(k) : Height[x] \in Nat
  BY Zenon, <1>1, KeysOfType
<1>3. Height[k] \in Nat /\ \A x \in KeysOf(p) : ~(Height[k] <= Height[x])
  BY <1>1, <1>2
<1>4. k \in R /\ R \subseteq KeysOf(k)
  BY <1>1, <1>3, Zenon DEF Run
<1>5. ASSUME p # NoBlock, G[p] = s PROVE Least(R) = Least(Run(G, s, p))
  <2> DEFINE T == Run(G, s, p)
  <2>1. p \in PeriodKeys \ {NoBlock} /\ p \in KeysOf(p) /\ p \in Block
    BY Zenon, <1>1, <1>5, PreviousPeriodIs DEF PeriodKeys
  <2>2. T \subseteq R
    BY <1>1, <1>3, <1>5, Zenon DEF Run
  <2>3. R \subseteq T \cup {k}
    <3> SUFFICES ASSUME NEW j \in R, j # k PROVE j \in T
      BY Zenon
    <3>1. j \in KeysOf(p)
      BY Zenon, <1>1, <1>4
    <3>2. \A x \in KeysOf(p) : Height[j] <= Height[x] => G[x] = s
      <4> SUFFICES ASSUME NEW x \in KeysOf(p), Height[j] <= Height[x] PROVE G[x] = s
        BY Zenon
      <4>1. x \in KeysOf(k) /\ x # k
        BY <1>1, <1>2
      <4> QED BY Zenon, <4>1 DEF Run
    <3> QED BY Zenon, <3>1, <3>2 DEF Run
  <2>4. p \in T /\ T \subseteq KeysOf(p)
    <3>1. \A x \in KeysOf(p) : Height[p] <= Height[x] => x = p
      <4> SUFFICES ASSUME NEW x \in KeysOf(p), Height[p] <= Height[x] PROVE x = p
        BY Zenon
      <4>1. x \in Ancestors[p] /\ Height[x] <= Height[p] /\ Height[x] \in Nat /\ Height[p] \in Nat
        BY Zenon, <2>1, KeysOfType
      <4>2. Height[x] = Height[p]
        BY <4>1
      <4> QED BY Zenon, <4>1, <4>2, <2>1, AllChained DEF Chained
    <3> QED BY <3>1, <2>1, Zenon DEF Run
  <2>5. Least(T) \in T /\ \A i \in T : Height[Least(T)] <= Height[i]
    BY Zenon, <2>1, <2>4, LeastIs
  <2>6. Least(T) \in R
    BY Zenon, <2>2, <2>5
  <2>7. Height[Least(T)] <= Height[k]
    <3>1. Least(T) \in KeysOf(p) /\ Least(T) \in KeysOf(k)
      BY Zenon, <2>4, <2>5, <1>1
    <3> QED BY SMTT(15), <3>1, <1>1, <1>2, <1>3
  <2>8. \A i \in R : Height[Least(T)] <= Height[i]
    BY Zenon, <2>3, <2>5, <2>7
  <2> QED BY Zenon, <2>6, <2>8, <1>1, <1>4, LeastIs
<1>6. ASSUME ~(p # NoBlock /\ G[p] = s) PROVE Least(R) = k
  <2>1. R = {k}
    <3> SUFFICES ASSUME NEW j \in R, j # k PROVE FALSE
      BY Zenon, <1>4
    <3>1. j \in KeysOf(p)
      BY Zenon, <1>1, <1>4
    <3>2. p # NoBlock
      BY Zenon, <3>1 DEF KeysOf
    <3>3. p \in KeysOf(p) /\ p \in Block
      BY Zenon, <3>2, <1>1, PreviousPeriodIs
    <3>4. Height[j] <= Height[p]
      BY Zenon, <3>1, <3>3, KeysOfType
    <3>5. p \in KeysOf(k) /\ p # k
      BY <3>3, <1>1, <1>2
    <3>6. G[p] = s
      BY Zenon, <3>4, <3>5 DEF Run
    <3> QED BY Zenon, <3>2, <3>6, <1>6
  <2> HIDE DEF R
  <2> QED BY Zenon, <2>1, <1>1, <1>4, LeastIs
<1> QED BY Zenon, <1>4, <1>5, <1>6

LEMMA PeriodParentOfKey ==
  ASSUME NEW k \in PeriodKeys
  PROVE  PeriodParent(k) = k
<1>1. CASE k = NoBlock
  BY Zenon, <1>1 DEF PeriodParent
<1>2. CASE k # NoBlock
  <2>1. k \in Block /\ k \in KeysOf(k)
    BY Zenon, <1>2, PreviousPeriodIs DEF PeriodKeys
  <2>2. PeriodParent(k) \in KeysOf(k) /\ Height[k] <= Height[PeriodParent(k)]
    BY Zenon, <2>1, PeriodParentIs
  <2>3. /\ PeriodParent(k) \in Ancestors[k] /\ Height[PeriodParent(k)] <= Height[k]
        /\ Height[PeriodParent(k)] \in Nat /\ Height[k] \in Nat
    BY Zenon, <2>1, <2>2, KeysOfType
  <2>4. Height[PeriodParent(k)] = Height[k]
    BY <2>2, <2>3
  <2> QED BY Zenon, <2>1, <2>3, <2>4, AllChained DEF Chained
<1> QED BY Zenon, <1>1, <1>2

(* The walk back of GetStateSinceHeightFor ends at the first key of the run *)
(* of keys in the state it started from.                                    *)
LEMMA FirstIs ==
  ASSUME NEW G, NEW s
  PROVE  LET First[k \in PeriodKeys \ {NoBlock}] ==
               IF PreviousPeriod(k) # NoBlock /\ G[PeriodParent(PreviousPeriod(k))] = s
               THEN First[PreviousPeriod(k)] ELSE k
         IN  \A k \in PeriodKeys \ {NoBlock} : First[k] = Least(Run(G, s, k))
<1> DEFINE Q == PeriodKeys \ {NoBlock}
           V(F, k) == IF PreviousPeriod(k) # NoBlock /\ G[PeriodParent(PreviousPeriod(k))] = s
                      THEN F[PreviousPeriod(k)] ELSE k
           W == [k \in Q |-> Least(Run(G, s, k))]
           F == CHOOSE f : f = [k \in Q |-> V(f, k)]
<1>1. ASSUME NEW k \in Q PROVE W[k] = V(W, k)
  <2> DEFINE p == PreviousPeriod(k)
  <2>1. p \in PeriodKeys /\ PeriodParent(p) = p
    BY Zenon, PreviousPeriodIs, PeriodParentOfKey
  <2>2. /\ p # NoBlock /\ G[p] = s => Least(Run(G, s, k)) = Least(Run(G, s, p))
        /\ ~(p # NoBlock /\ G[p] = s) => Least(Run(G, s, k)) = k
    BY RunStep
  <2>3. p # NoBlock => W[p] = Least(Run(G, s, p))
    BY Zenon, <2>1
  <2>4. W[k] = Least(Run(G, s, k))
    BY Zenon
  <2>5. V(W, k) = IF p # NoBlock /\ G[p] = s THEN W[p] ELSE k
    BY Zenon, <2>1
  <2> HIDE DEF W, V, p
  <2> QED BY Zenon, <2>2, <2>3, <2>4, <2>5
<1>2. W = [k \in Q |-> V(W, k)]
  BY <1>1, Zenon
<1>3. F = [k \in Q |-> V(F, k)]
  <2> HIDE DEF W, V
  <2> QED BY <1>2, Zenon
<1> HIDE DEF F
<1> DEFINE S == {n \in Nat : \A k \in Q : Height[k] < n => F[k] = W[k]}
<1>4. \A k \in Q : k \in Block /\ Height[k] \in Nat
  BY Zenon, TreeAssumption DEF PeriodKeys
<1>5. 0 \in S
  BY SMTT(15), <1>4
<1>6. ASSUME NEW n \in Nat, n \in S PROVE n + 1 \in S
  <2> SUFFICES ASSUME NEW k \in Q, Height[k] < n + 1 PROVE F[k] = W[k]
    OBVIOUS
  <2> DEFINE p == PreviousPeriod(k)
  <2>1. p \in PeriodKeys /\ (p # NoBlock => Height[p] < Height[k])
    BY Zenon, PreviousPeriodIs
  <2>2. p # NoBlock => p \in Q /\ Height[p] < n
    BY <2>1, <1>4
  <2>3. p # NoBlock => F[p] = W[p]
    BY Zenon, <2>2, <1>6
  <2>4. V(F, k) = V(W, k)
    BY Zenon, <2>3
  <2>5. F[k] = V(F, k)
    BY <1>3, Zenon
  <2> QED BY <2>4, <2>5, <1>1, Zenon
<1> HIDE DEF S
<1>7. Nat \subseteq S
  BY Zenon, <1>5, <1>6, Induction
<1>8. ASSUME NEW k \in Q PROVE F[k] = Least(Run(G, s, k))
  <2>1. Height[k] \in Nat /\ Height[k] + 1 \in S /\ Height[k] < Height[k] + 1
    BY <1>4, <1>7
  <2> QED BY Zenon, <2>1 DEF S
<1> QED BY Zenon, <1>8 DEF F

(* For any tree, signals, times and deployments, whatever the cache holds   *)
(* and however the tip has moved: the height getblockchaininfo reports for  *)
(* a deployment is that of the first block since which the active chain has *)
(* been in the state of its tip.                                            *)
THEOREM SinceHeightAlwaysExact == Spec => []SinceHeightExact
<1>1. ASSUME IInv, NEW d \in Deployment
      PROVE  LET rule == VersionBitsRule(d)
             IN  GetStateSinceHeightFor(rule, cache[d], tip) =
                   IF HistoryState(rule, tip) = "defined" THEN 0
                   ELSE Min({Height[c] : c \in InState(rule, tip)}) + 1
  <2> DEFINE rule == VersionBitsRule(d)
             state == HistoryState(rule, tip)
             k == PeriodParent(tip)
             G == Computed(rule, cache[d])
             f == Least(Run(G, state, k))
             X == InState(rule, tip)
  <2>1. rule \in Rules /\ mtp \in Times /\ tip \in Block /\ CacheOK(rule, cache[d])
    BY Zenon, <1>1, RulesAre DEF IInv
  <2>2. k \in PeriodKeys /\ k \in KeysOf(tip) \cup {NoBlock}
    BY Zenon, <2>1, VisitedAre, PeriodParentIs
  <2>3. G[k] = state
    BY Zenon, <2>1, GetStateForIs DEF GetStateFor
  <2>4. G = [j \in PeriodKeys |-> HistoryState(rule, j)]
    BY Zenon, <2>1, ComputedIs
  <2>5. GetStateSinceHeightFor(rule, cache[d], tip) =
          IF state = "defined" THEN 0
          ELSE LET First[j \in PeriodKeys \ {NoBlock}] ==
                     IF PreviousPeriod(j) # NoBlock /\ G[PeriodParent(PreviousPeriod(j))] = state
                     THEN First[PreviousPeriod(j)] ELSE j
               IN  Height[First[k]] + 1
    <3>1. GetStateSinceHeightFor(rule, cache[d], tip) =
            IF G[k] = "defined" THEN 0
            ELSE LET First[j \in PeriodKeys \ {NoBlock}] ==
                       IF PreviousPeriod(j) # NoBlock /\ G[PeriodParent(PreviousPeriod(j))] = G[k]
                       THEN First[PreviousPeriod(j)] ELSE j
                 IN  Height[First[k]] + 1
      BY Zenon DEF GetStateSinceHeightFor, SinceHeight
    <3> HIDE DEF G, k, rule, state
    <3> QED BY Zenon, <2>3, <3>1
  <2>6. CASE state = "defined"
    BY Zenon, <2>5, <2>6
  <2>7. CASE state # "defined"
    <3>1. k \in PeriodKeys \ {NoBlock} /\ k \in KeysOf(tip)
      BY Zenon, <2>1, <2>2, <2>3, <2>4, <2>7, HistoryStart
    <3> HIDE DEF rule, state, k, G
    <3>2. GetStateSinceHeightFor(rule, cache[d], tip) = Height[f] + 1
      BY <2>5, <2>7, <3>1, FirstIs, Zenon
    <3>3. k \in Block /\ k # NoBlock /\ k \in Ancestors[tip] /\ HistoryState(rule, k) = state
      BY Zenon, <2>1, <2>3, <2>4, <3>1, KeysOfType
    <3>4. KeysOf(k) = KeysOf(tip)
      <4>1. \A j \in KeysOf(tip) : Height[j] <= Height[k]
        BY Zenon, <2>1, PeriodParentIs DEF k
      <4>2. Ancestors[k] = {x \in Ancestors[tip] : Height[x] <= Height[k]}
        BY <2>1, <3>3, AllChained DEF Chained
      <4>3. tip # NoBlock
        BY Zenon, <2>1, TreeAssumption
      <4> QED BY <3>3, <4>1, <4>2, <4>3, Zenon DEF KeysOf
    <3>5. Run(G, state, k) \subseteq KeysOf(k) /\ k \in Run(G, state, k)
      BY Zenon, <3>1, RunStep
    <3>6. f \in Run(G, state, k) /\ \A j \in Run(G, state, k) : Height[f] <= Height[j]
      BY Zenon, <3>3, <3>5, LeastIs
    <3> HIDE DEF f
    <3>7. f \in KeysOf(k) /\ f \in Ancestors[tip] /\ f \in Block /\ Height[f] \in Nat
      BY Zenon, <2>1, <3>4, <3>5, <3>6, KeysOfType
    <3>8. ASSUME NEW x \in Ancestors[tip]
          PROVE  LET q == PeriodParent(x)
                 IN  /\ x \in Block /\ Height[x] \in Nat
                     /\ KeysOf(x) = {j \in KeysOf(k) : Height[j] <= Height[x]}
                     /\ q \in KeysOf(x) \cup {NoBlock}
                     /\ \A j \in KeysOf(x) : q \in KeysOf(x) /\ Height[j] <= Height[q]
                     /\ HistoryState(rule, x) = HistoryState(rule, q)
                     /\ q \in PeriodKeys /\ G[q] = HistoryState(rule, q)
      <4> DEFINE q == PeriodParent(x)
      <4>1. x \in Block /\ Height[x] \in Nat
        BY Zenon, <2>1, TreeAssumption, AllChained DEF Chained
      <4>2. Ancestors[x] = {c \in Ancestors[tip] : Height[c] <= Height[x]}
        BY <2>1, AllChained DEF Chained
      <4>3. x # NoBlock /\ tip # NoBlock
        BY Zenon, <2>1, <4>1, TreeAssumption
      <4>4. KeysOf(x) = {j \in KeysOf(k) : Height[j] <= Height[x]}
        BY <3>4, <4>2, <4>3, Zenon DEF KeysOf
      <4>5. /\ q \in KeysOf(x) \cup {NoBlock} /\ q \in PeriodKeys
            /\ \A j \in KeysOf(x) : q \in KeysOf(x) /\ Height[j] <= Height[q]
        BY Zenon, <4>1, VisitedAre, PeriodParentIs
      <4>6. GetStateFor(rule, cache[d], x) = HistoryState(rule, x)
        BY Zenon, <2>1, <4>1, GetStateForIs
      <4>7. GetStateFor(rule, cache[d], x) = G[q]
        BY Zenon DEF GetStateFor, G
      <4>8. G[q] = HistoryState(rule, q)
        BY Zenon, <2>4, <4>5
      <4> QED BY Zenon, <4>1, <4>4, <4>5, <4>6, <4>7, <4>8
    <3>11. ASSUME NEW x \in Ancestors[tip], Height[x] >= Height[f] PROVE HistoryState(rule, x) = state
      <4> DEFINE q == PeriodParent(x)
      <4>1. /\ Height[x] \in Nat
            /\ KeysOf(x) = {j \in KeysOf(k) : Height[j] <= Height[x]}
            /\ \A j \in KeysOf(x) : q \in KeysOf(x) /\ Height[j] <= Height[q]
            /\ HistoryState(rule, x) = HistoryState(rule, q)
            /\ G[q] = HistoryState(rule, q)
        BY Zenon, <3>8
      <4> HIDE DEF q
      <4>2. Height[f] <= Height[x]
        BY <4>1, <3>7, <3>11
      <4>3. f \in KeysOf(x)
        BY Zenon, <4>1, <4>2, <3>7
      <4>4. q \in KeysOf(k) /\ Height[f] <= Height[q]
        BY Zenon, <4>1, <4>3
      <4>5. G[q] = state
        BY Zenon, <4>4, <3>6, <2>3 DEF Run
      <4> QED BY Zenon, <4>1, <4>5
    <3>12. f \in X
      BY Zenon, <3>7, <3>11 DEF InState, state
    <3>13. ASSUME NEW x \in X PROVE Height[f] <= Height[x] /\ Height[x] \in Nat
      <4> DEFINE q == PeriodParent(x)
      <4>1. /\ x \in Ancestors[tip]
            /\ \A y \in Ancestors[tip] : Height[y] >= Height[x] => HistoryState(rule, y) = state
        BY Zenon DEF InState, state
      <4>2. /\ x \in Block /\ Height[x] \in Nat
            /\ KeysOf(x) = {j \in KeysOf(k) : Height[j] <= Height[x]}
            /\ q \in KeysOf(x) \cup {NoBlock}
            /\ \A j \in KeysOf(x) : q \in KeysOf(x) /\ Height[j] <= Height[q]
            /\ HistoryState(rule, x) = HistoryState(rule, q)
        BY Zenon, <4>1, <3>8
      <4> HIDE DEF q
      <4>3. Height[x] >= Height[x]
        BY <4>2
      <4>4. HistoryState(rule, q) = state
        BY Zenon, <4>1, <4>2, <4>3
      <4>5. q \in KeysOf(x)
        BY Zenon, <4>2, <4>4, <2>7, HistoryStart
      <4>6. /\ q \in Ancestors[x] /\ q \in Block /\ q \in KeysOf(k)
            /\ Height[q] \in Nat /\ Height[q] <= Height[x]
        BY Zenon, <4>2, <4>5, KeysOfType
      <4>7. ASSUME NEW z \in KeysOf(k), Height[q] <= Height[z], z # k PROVE G[z] = state
        <5>1. z \in PeriodKeys /\ z \in Ancestors[tip] /\ Height[z] \in Nat
          BY Zenon, <2>1, <3>4, KeysOfType
        <5>2. G[z] = HistoryState(rule, z)
          BY Zenon, <5>1, <2>4
        <5>3. CASE Height[z] >= Height[x]
          BY Zenon, <5>1, <5>2, <5>3, <4>1
        <5>4. CASE Height[z] <= Height[x]
          <6>1. z \in KeysOf(x)
            BY Zenon, <5>4, <4>2
          <6>2. Height[z] <= Height[q]
            BY Zenon, <6>1, <4>2
          <6>3. Height[z] = Height[q]
            BY <6>2, <4>6, <4>7, <5>1
          <6>4. z \in Ancestors[x]
            BY Zenon, <6>1, <4>2, KeysOfType
          <6>5. z = q
            BY Zenon, <6>3, <6>4, <4>2, <4>6, OnePerHeight
          <6> QED BY Zenon, <6>5, <5>2, <4>4
        <5>5. Height[z] >= Height[x] \/ Height[z] <= Height[x]
          BY <5>1, <4>2
        <5> QED BY Zenon, <5>3, <5>4, <5>5
      <4>8. q \in Run(G, state, k)
        BY Zenon, <4>6, <4>7 DEF Run
      <4>9. Height[f] <= Height[q]
        BY Zenon, <4>8, <3>6
      <4> QED BY <4>2, <4>6, <4>9, <3>7
    <3>9. Min({Height[c] : c \in X}) = Height[f]
      <4> DEFINE Y == {Height[c] : c \in X}
      <4>1. Height[f] \in Y /\ \A y \in Y : y \in Nat /\ Height[f] <= y
        BY Zenon, <3>12, <3>13
      <4> HIDE DEF Y
      <4>2. \A y \in Y : (\A v \in Y : y <= v) => y = Height[f]
        BY <4>1
      <4>3. Min(Y) = Height[f]
        BY <4>1, <4>2, Zenon DEF Min
      <4> QED BY Zenon, <4>3 DEF Y
    <3> HIDE DEF X
    <3>10. GetStateSinceHeightFor(rule, cache[d], tip) = Min({Height[c] : c \in X}) + 1
      BY <3>2, <3>9, Zenon
    <3> QED BY <2>7, <3>10, Zenon DEF X, rule, state
  <2> QED BY Zenon, <2>6, <2>7
<1>2. IInv => SinceHeightExact
  BY Zenon, <1>1 DEF SinceHeightExact
<1> QED BY <1>2, InitCaches, NextCaches, PTL DEF Spec

=============================================================================
