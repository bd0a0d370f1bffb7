---------------------------- MODULE KHash_proofs ----------------------------
(***************************************************************************)
(* The inductive invariant of KHash, the safety properties that follow     *)
(* from it, and the refinement of HashMap.  The first part is about the    *)
(* operators of KHash and needs none of its steps: the sizes kh_resize     *)
(* chooses and the probe sequence k, k + 1, k + 1 + 2, ..., which visits   *)
(* every bucket of a table of 2^k buckets exactly once.                    *)
(***************************************************************************)
EXTENDS KHash, NatLemmas, FiniteSetTheorems

\* The sizes are numbers, and a table that is there has 4 buckets at least.
LEMMA PowersAreNat == \A n \in Powers : n \in Nat /\ n >= 4
BY DEF Powers

\* Quotient and remainder.
LEMMA Division ==
  ASSUME NEW a \in Nat, NEW n \in Nat \ {0}
  PROVE  /\ a \div n \in Nat
         /\ a % n \in 0..(n - 1)
         /\ a = (n * (a \div n)) + (a % n)
OBVIOUS

\* Equal remainders: the difference is a multiple.
LEMMA Congruent ==
  ASSUME NEW a \in Nat, NEW b \in Nat, a <= b, NEW n \in Nat \ {0}, a % n = b % n
  PROVE  \E q \in Nat : b - a = n * q
<1> DEFINE qa == a \div n
           qb == b \div n
           r == a % n
<1>a. qa \in Nat /\ r \in 0..(n - 1) /\ a = (n * qa) + r
  BY Division
<1>b. qb \in Nat /\ b = (n * qb) + r
  BY Division
<1> HIDE DEF qa, qb, r
<1>1. qa \in Nat /\ qb \in Nat /\ b - a = (n * qb) - (n * qa)
  <2>1. n * qa \in Nat /\ n * qb \in Nat
    BY <1>a, <1>b
  <2> QED BY <1>a, <1>b, <2>1
<1>2. b - a = n * (qb - qa)
  BY <1>1
<1>3. qb - qa >= 0
  <2> SUFFICES ASSUME qb < qa PROVE FALSE
    BY <1>1
  <2>1. PICK d \in Nat : qa = qb + 1 + d
    <3>1. qa - qb - 1 \in Nat /\ qa = qb + 1 + (qa - qb - 1)
      BY <1>1
    <3> QED BY <3>1
  <2>2. n * (qb - qa) = 0 - n - (n * d)
    BY <1>1, <2>1
  <2>3. n * d \in Nat
    BY <2>1
  <2> QED BY <1>2, <2>2, <2>3
<1> QED
  BY <1>1, <1>2, <1>3

\* A number is even or odd.
LEMMA EvenOrOdd ==
  ASSUME NEW a \in Nat
  PROVE  \E d \in Nat : a = 2 * d \/ a = (2 * d) + 1
<1>1. a \div 2 \in Nat /\ a % 2 \in 0..1 /\ a = (2 * (a \div 2)) + (a % 2)
  BY Division
<1> QED
  BY <1>1

Tri(s) == (s * (s + 1)) \div 2

\* The product in the closed form of the probe is even.
LEMMA Triangular ==
  ASSUME NEW s \in Nat
  PROVE  Tri(s) \in Nat /\ 2 * Tri(s) = s * (s + 1)
<1>1. \E c \in Nat : s * (s + 1) = 2 * c
  <2>1. PICK d \in Nat : s = 2 * d \/ s = (2 * d) + 1
    BY EvenOrOdd
  <2>2. CASE s = 2 * d
    <3>1. s * (s + 1) = 2 * (d * (s + 1)) /\ d * (s + 1) \in Nat
      BY <2>2
    <3> QED BY <3>1
  <2>3. CASE s = (2 * d) + 1
    <3>1. s + 1 = 2 * (d + 1)
      BY <2>3
    <3>2. s * (s + 1) = 2 * (s * (d + 1)) /\ s * (d + 1) \in Nat
      BY <3>1
    <3> QED BY <3>2
  <2> QED BY <2>1, <2>2, <2>3
<1>2. PICK c \in Nat : s * (s + 1) = 2 * c
  BY <1>1
<1>3. Tri(s) = (2 * c) \div 2
  BY <1>2 DEF Tri
<1> QED
  BY <1>2, <1>3

\* An odd factor does not help to be a multiple of M: half of the argument that
\* a power of two divides a product of an even and an odd number only if it
\* divides the even one.
DividesFactor(M) ==
  \A a \in Nat, c \in Nat, q \in Nat :
    a * ((2 * c) + 1) = M * q => \E p \in Nat : a = M * p

LEMMA FactorOfDouble ==
  ASSUME NEW M \in Nat \ {0}, DividesFactor(M)
  PROVE  DividesFactor(2 * M)
<1> SUFFICES ASSUME NEW a \in Nat, NEW c \in Nat, NEW q \in Nat,
                    a * ((2 * c) + 1) = (2 * M) * q
             PROVE  \E p \in Nat : a = (2 * M) * p
  BY DEF DividesFactor
<1>1. PICK d \in Nat : a = 2 * d \/ a = (2 * d) + 1
  BY EvenOrOdd
<1>2. a # (2 * d) + 1
  <2> SUFFICES ASSUME a = (2 * d) + 1 PROVE FALSE
    OBVIOUS
  <2>1. a * ((2 * c) + 1) = (2 * ((2 * (d * c)) + d + c)) + 1
    OBVIOUS
  <2>2. M * q \in Nat /\ d * c \in Nat /\ (2 * M) * q = 2 * (M * q)
    OBVIOUS
  <2> QED
    BY <2>1, <2>2
<1>3. d * ((2 * c) + 1) = M * q
  <2>1. a * ((2 * c) + 1) = 2 * (d * ((2 * c) + 1))
    BY <1>1, <1>2
  <2>2. (2 * M) * q = 2 * (M * q)
    OBVIOUS
  <2>3. M * q \in Nat /\ d * ((2 * c) + 1) \in Nat
    OBVIOUS
  <2> QED
    BY <2>1, <2>2, <2>3
<1>4. PICK p \in Nat : d = M * p
  BY <1>3 DEF DividesFactor
<1>5. a = (2 * M) * p
  BY <1>1, <1>2, <1>4
<1> QED
  BY <1>5

\* Every power of two has this property: else there would be a least one that
\* has not, and its half would have it.
LEMMA PowersDivideFactors ==
  ASSUME NEW n \in Powers
  PROVE  DividesFactor(2 * n)
<1> DEFINE Twos == {1, 2} \cup Powers \cup {2147483648}
           Bad == {M \in Twos : ~DividesFactor(M)}
<1>1. Twos \subseteq Nat \ {0}
  BY DEF Powers
<1>2. DividesFactor(1)
  <2> SUFFICES ASSUME NEW a \in Nat PROVE \E p \in Nat : a = 1 * p
    BY DEF DividesFactor
  <2>1. a = 1 * a
    OBVIOUS
  <2> QED BY <2>1
<1>3. \A M \in Twos : M = 1 \/ \E H \in Twos : M = 2 * H
  BY DEF Powers
<1>4. 2 * n \in Twos
  BY DEF Powers
<1> HIDE DEF Twos
<1>5. Bad = {}
  <2> SUFFICES ASSUME Bad # {} PROVE FALSE
    OBVIOUS
  <2>1. Bad \in SUBSET Nat
    BY <1>1
  <2>2. Min(Bad) \in Bad /\ \A y \in Bad : Min(Bad) <= y
    <3> HIDE DEF Bad
    <3> QED BY <2>1, MinNat
  <2>3. PICK M \in Twos : ~DividesFactor(M) /\ \A y \in Bad : M <= y
    BY <2>2
  <2>4. PICK H \in Twos : M = 2 * H
    BY <1>2, <1>3, <2>3
  <2>5. H < M
    BY <1>1, <2>4
  <2>6. DividesFactor(H)
    BY <1>1, <2>3, <2>5
  <2> QED
    BY <1>1, <2>3, <2>4, <2>6, FactorOfDouble
<1> QED
  BY <1>4, <1>5

\* Two of the first n triangular numbers never differ by a multiple of n.
LEMMA TrianglesDiffer ==
  ASSUME NEW n \in Powers, NEW r \in 0..(n - 1), NEW s \in 0..(n - 1), r < s,
         NEW q \in Nat, Tri(s) - Tri(r) = n * q
  PROVE  FALSE
<1>0. n \in Nat /\ n > 0
  BY DEF Powers
<1> DEFINE a == s - r
           b == s + r + 1
<1>1. a \in Nat /\ b \in Nat /\ 0 < a /\ a < 2 * n /\ 0 < b /\ b < 2 * n /\ a + b = (2 * s) + 1
  BY <1>0
<1>2. a * b = (2 * n) * q
  <2>1. (s * (s + 1)) - (r * (r + 1)) = 2 * (n * q)
    <3>1. Tri(s) \in Nat /\ Tri(r) \in Nat /\ 2 * Tri(s) = s * (s + 1) /\ 2 * Tri(r) = r * (r + 1)
      BY <1>0, Triangular
    <3> DEFINE x == n * q
               y == s * (s + 1)
               z == r * (r + 1)
    <3>2. x \in Nat /\ y \in Nat /\ z \in Nat
      BY <1>0
    <3>3. Tri(s) - Tri(r) = x /\ 2 * Tri(s) = y /\ 2 * Tri(r) = z
      BY <3>1
    <3> HIDE DEF x, y, z
    <3>4. y - z = 2 * x
      BY <3>1, <3>2, <3>3
    <3> QED BY <3>4 DEF x, y, z
  <2>2. (s * (s + 1)) - (r * (r + 1)) = (s - r) * (s + r + 1)
    BY <1>0
  <2>3. 2 * (n * q) = (2 * n) * q
    BY <1>0
  <2> QED BY <2>1, <2>2, <2>3
<1> HIDE DEF a, b
<1>3. \A x \in Nat, y \in Nat :
        /\ 0 < x /\ x < 2 * n
        /\ x * y = (2 * n) * q
        => \E c \in Nat : y = 2 * c
  <2> SUFFICES ASSUME NEW x \in Nat, NEW y \in Nat, 0 < x, x < 2 * n, x * y = (2 * n) * q,
                      NEW c \in Nat, y = (2 * c) + 1
               PROVE  FALSE
    BY EvenOrOdd
  <2>1. PICK p \in Nat : x = (2 * n) * p
    BY PowersDivideFactors DEF DividesFactor
  <2>2. CASE p = 0
    BY <1>0, <2>1, <2>2
  <2>3. CASE p > 0
    <3>1. PICK d \in Nat : p = d + 1
      <4>1. p - 1 \in Nat /\ p = (p - 1) + 1
        BY <2>3
      <4> QED BY <4>1
    <3>2. x = (2 * n) + ((2 * n) * d)
      BY <1>0, <2>1, <3>1
    <3>3. (2 * n) * d \in Nat
      BY <1>0
    <3> QED BY <1>0, <3>2, <3>3
  <2> QED BY <2>2, <2>3
<1>4. PICK c \in Nat : b = 2 * c
  BY <1>1, <1>2, <1>3
<1>5. b * a = (2 * n) * q
  BY <1>0, <1>1, <1>2
<1>6. PICK d \in Nat : a = 2 * d
  BY <1>1, <1>3, <1>5
<1> QED
  BY <1>1, <1>4, <1>6

-----------------------------------------------------------------------------
(***************************************************************************)
(* The probe sequence.                                                     *)
(***************************************************************************)
LEMMA BucketRange ==
  ASSUME hash_func \in [Keys -> Nat], NEW key \in Keys, NEW n \in Powers, NEW s \in Nat
  PROVE  Bucket(key, n, s) \in 0..(n - 1)
<1>1. hash_func[key] + Tri(s) \in Nat /\ n \in Nat \ {0}
  BY Triangular DEF Powers
<1> QED
  BY <1>1, Division DEF Bucket, Tri

\* The first n probes look at n different buckets.
LEMMA ProbesDiffer ==
  ASSUME hash_func \in [Keys -> Nat], NEW key \in Keys, NEW n \in Powers,
         NEW r \in 0..(n - 1), NEW s \in 0..(n - 1), r < s
  PROVE  Bucket(key, n, r) # Bucket(key, n, s)
<1> DEFINE h == hash_func[key]
<1>0. n \in Nat \ {0} /\ h \in Nat
  BY DEF Powers
<1>1. Tri(r) \in Nat /\ Tri(s) \in Nat /\ Tri(r) <= Tri(s)
  <2>1. Tri(s) \in Nat /\ Tri(r) \in Nat /\ 2 * Tri(s) = s * (s + 1) /\ 2 * Tri(r) = r * (r + 1)
    BY <1>0, Triangular
  <2>2. r * (r + 1) <= s * (s + 1)
    <3>1. PICK d \in Nat : s = r + d
      <4>1. s - r \in Nat /\ s = r + (s - r)
        BY <1>0
      <4> QED BY <4>1
    <3>2. s * (s + 1) = (r * (r + 1)) + (d * (r + s + 1))
      BY <1>0, <3>1
    <3>3. d * (r + s + 1) \in Nat /\ r * (r + 1) \in Nat
      BY <1>0, <3>1
    <3> QED BY <3>2, <3>3
  <2>3. r * (r + 1) \in Nat /\ s * (s + 1) \in Nat
    BY <1>0
  <2> QED BY <2>1, <2>2, <2>3
<1> SUFFICES ASSUME Bucket(key, n, r) = Bucket(key, n, s) PROVE FALSE
  OBVIOUS
<1>2. (h + Tri(r)) % n = (h + Tri(s)) % n
  BY DEF Bucket, Tri
<1> DEFINE x == h + Tri(r)
           y == h + Tri(s)
<1>a. x \in Nat /\ y \in Nat /\ x <= y /\ x % n = y % n
  BY <1>0, <1>1, <1>2
<1>b. y - x = Tri(s) - Tri(r)
  BY <1>0, <1>1
<1> HIDE DEF h, x, y
<1>3. PICK q \in Nat : y - x = n * q
  BY <1>0, <1>a, Congruent
<1>4. Tri(s) - Tri(r) = n * q
  BY <1>b, <1>3
<1> QED
  BY <1>4, TrianglesDiffer

\* So they look at every bucket: what ends the loops of kh_get, kh_put and
\* kh_resize as long as one bucket is empty.
LEMMA ProbesCover ==
  ASSUME hash_func \in [Keys -> Nat], NEW key \in Keys, NEW n \in Powers,
         NEW i \in 0..(n - 1)
  PROVE  \E s \in 0..(n - 1) : Bucket(key, n, s) = i
<1> DEFINE S == 0..(n - 1)
           f == [s \in S |-> Bucket(key, n, s)]
<1>0. n \in Nat \ {0} /\ S \subseteq Nat
  BY DEF Powers
<1>1. f \in [S -> S]
  BY <1>0, BucketRange
<1>2. \A r, s \in S : f[r] = f[s] => r = s
  <2> TAKE r, s \in S
  <2>1. r < s \/ s < r \/ r = s
    BY <1>0
  <2> QED BY <2>1, ProbesDiffer
<1>3. IsFiniteSet(S)
  BY <1>0, FS_Interval
<1> HIDE DEF S, f
<1>4. f \in Injection(S, S)
  BY <1>1, <1>2 DEF Injection, IsInjective
<1>5. f \in Surjection(S, S)
  BY <1>3, <1>4, FS_Injection
<1>6. PICK s \in S : f[s] = i
  BY <1>5 DEF Surjection, S
<1> QED
  BY <1>6 DEF S, f

-----------------------------------------------------------------------------
(***************************************************************************)
(* Where a probe ends.                                                     *)
(***************************************************************************)
\* The buckets before step s of the probe are not empty.
Filled(key, n, f, s) == \A r \in 0..(s - 1) : f[Bucket(key, n, r)] # "empty"

\* Bucket i can be reached by a probe for the key.
OnPath(key, n, f, i) == \E s \in 0..(n - 1) : Bucket(key, n, s) = i /\ Filled(key, n, f, s)

Holds(key, i) == flags[i] = "full" /\ keys[i] = key

\* What a lookup needs of the table: an empty bucket, every element on the path
\* of its key, and no key twice.
Searchable ==
  /\ hash_func \in [Keys -> Nat]
  /\ n_buckets \in Powers
  /\ flags \in [0..(n_buckets - 1) -> {"empty", "full", "del"}]
  /\ \E i \in 0..(n_buckets - 1) : flags[i] = "empty"
  /\ \A i \in 0..(n_buckets - 1) : flags[i] = "full" => OnPath(keys[i], n_buckets, flags, i)
  /\ \A a, b \in 0..(n_buckets - 1) :
       flags[a] = "full" /\ flags[b] = "full" /\ keys[a] = keys[b] => a = b

\* The probe stops at the key or at an empty bucket, and never by coming full
\* circle.
LEMMA ProbeStops ==
  ASSUME Searchable, NEW key \in Keys
  PROVE  /\ StopStep(key) \in 0..(n_buckets - 1)
         /\ LET i == Bucket(key, n_buckets, StopStep(key)) IN flags[i] = "empty" \/ Holds(key, i)
         /\ \A r \in 0..(StopStep(key) - 1) :
              LET i == Bucket(key, n_buckets, r) IN flags[i] # "empty" /\ ~Holds(key, i)
<1> DEFINE n == n_buckets
           B(s) == Bucket(key, n, s)
           Stop(s) == \/ flags[B(s)] = "empty"
                      \/ flags[B(s)] = "full" /\ keys[B(s)] = key
                      \/ s > 0 /\ B(s) = B(0)
           SS == {s \in 0..(2 * n - 1) : Stop(s)}
<1>0. n \in Powers /\ n \in Nat /\ n > 0 /\ hash_func \in [Keys -> Nat]
  BY DEF Searchable, Powers
<1>1. StopStep(key) = Min(SS)
  BY DEF StopStep
<1>2. PICK e \in 0..(n - 1) : flags[e] = "empty"
  BY DEF Searchable
<1>3. PICK s \in 0..(n - 1) : B(s) = e
  BY <1>0, <1>2, ProbesCover
<1>4. s \in SS
  BY <1>0, <1>2, <1>3
<1>5. SS \in SUBSET Nat /\ SS # {}
  BY <1>0, <1>4
<1>6. Min(SS) \in SS /\ \A y \in SS : Min(SS) <= y
  <2> HIDE DEF SS
  <2> QED BY <1>5, MinNat
<1>7. PICK m \in 0..(2 * n - 1) : m = Min(SS)
  BY <1>6
<1>8. Stop(m) /\ \A y \in SS : m <= y
  BY <1>6, <1>7
<1>9. m \in 0..(n - 1)
  BY <1>0, <1>3, <1>4, <1>8
<1>10. m > 0 => B(m) # B(0)
  BY <1>0, <1>9, ProbesDiffer
<1>11. \A r \in 0..(m - 1) : ~Stop(r)
  <2> SUFFICES ASSUME NEW r \in 0..(m - 1), Stop(r) PROVE FALSE
    OBVIOUS
  <2>1. r \in SS
    BY <1>0, <1>9
  <2> QED BY <1>0, <1>8, <1>9, <2>1
<1> QED
  BY <1>1, <1>7, <1>8, <1>9, <1>10, <1>11 DEF Holds

\* An element of the table is where the probe for its key stops.
LEMMA ProbeMeets ==
  ASSUME Searchable, NEW key \in Keys, NEW i \in 0..(n_buckets - 1), Holds(key, i)
  PROVE  Bucket(key, n_buckets, StopStep(key)) = i
<1> DEFINE n == n_buckets
           B(s) == Bucket(key, n, s)
<1>0. n \in Powers /\ n \in Nat /\ n > 0 /\ hash_func \in [Keys -> Nat]
  BY DEF Searchable, Powers
<1>1. PICK m \in 0..(n - 1) : m = StopStep(key)
  BY ProbeStops
<1>2. flags[B(m)] = "empty" \/ Holds(key, B(m))
  BY <1>1, ProbeStops
<1>3. \A r \in 0..(m - 1) : ~Holds(key, B(r))
  BY <1>1, ProbeStops
<1>4. PICK s \in 0..(n - 1) : B(s) = i /\ Filled(key, n, flags, s)
  BY DEF Searchable, Holds, OnPath
<1>5. m <= s
  BY <1>0, <1>3, <1>4
<1>6. m = s \/ flags[B(m)] # "empty"
  BY <1>0, <1>4, <1>5 DEF Filled
<1>7. CASE m = s
  BY <1>1, <1>4, <1>7
<1>8. CASE Holds(key, B(m))
  <2>1. B(m) \in 0..(n - 1)
    BY <1>0, BucketRange
  <2> QED BY <1>1, <1>8, <2>1 DEF Searchable, Holds
<1> QED
  BY <1>2, <1>6, <1>7, <1>8

\* kh_get, and Hash_Find with it: the element with the key, if there is one.
LEMMA Lookup ==
  ASSUME Searchable, NEW key \in Keys
  PROVE  \/ \E i \in 0..(n_buckets - 1) :
              Holds(key, i) /\ kh_get(key) = i /\ Hash_Find(key) = vals[i]
         \/ /\ \A i \in 0..(n_buckets - 1) : ~Holds(key, i)
            /\ kh_get(key) = n_buckets /\ Hash_Find(key) = NULL
<1> DEFINE n == n_buckets
           i == Bucket(key, n, StopStep(key))
<1>0. n \in Powers /\ n \in Nat /\ n > 0 /\ hash_func \in [Keys -> Nat]
  BY DEF Searchable, Powers
<1>1. StopStep(key) \in 0..(n - 1)
  BY ProbeStops
<1>2. i \in 0..(n - 1)
  BY <1>0, <1>1, BucketRange
<1>3. flags[i] = "empty" \/ Holds(key, i)
  BY ProbeStops
<1>4. kh_get(key) = IF Holds(key, i) THEN i ELSE n
  BY <1>0 DEF kh_get, Holds
<1>5. CASE Holds(key, i)
  BY <1>0, <1>2, <1>4, <1>5 DEF Hash_Find
<1>6. CASE ~Holds(key, i)
  BY <1>4, <1>6, ProbeMeets DEF Hash_Find
<1> QED
  BY <1>5, <1>6

\* kh_put: the bucket it chooses holds the key already, or no bucket does and
\* the one it chooses is free and on the path of the key.
LEMMA PutChoice ==
  ASSUME Searchable, NEW key \in Keys
  PROVE  /\ PutBucket(key) \in 0..(n_buckets - 1)
         /\ \/ Holds(key, PutBucket(key))
            \/ /\ \A i \in 0..(n_buckets - 1) : ~Holds(key, i)
               /\ flags[PutBucket(key)] # "full"
               /\ OnPath(key, n_buckets, flags, PutBucket(key))
<1> DEFINE n == n_buckets
           last == StopStep(key)
           i == Bucket(key, n, last)
           dels == {s \in 0..(last - 1) : flags[Bucket(key, n, s)] = "del"}
<1>0. n \in Powers /\ n \in Nat /\ n > 0 /\ hash_func \in [Keys -> Nat]
  BY DEF Searchable, Powers
<1>1. PICK m \in 0..(n - 1) : m = last
  BY ProbeStops
<1>2. i \in 0..(n - 1)
  BY <1>0, <1>1, BucketRange
<1>3. flags[i] = "empty" \/ Holds(key, i)
  BY ProbeStops
<1>4. Filled(key, n, flags, last)
  BY ProbeStops DEF Filled
<1>5. PutBucket(key) = IF Holds(key, i) \/ dels = {} THEN i ELSE Bucket(key, n, Max(dels))
  BY DEF PutBucket, Holds
<1>6. CASE Holds(key, i)
  BY <1>2, <1>5, <1>6
<1>7. CASE ~Holds(key, i) /\ dels = {}
  <2>1. \A b \in 0..(n - 1) : ~Holds(key, b)
    BY <1>7, ProbeMeets
  <2>2. OnPath(key, n, flags, i)
    BY <1>1, <1>4 DEF OnPath
  <2> QED BY <1>2, <1>3, <1>5, <1>7, <2>1, <2>2
<1>8. CASE ~Holds(key, i) /\ dels # {}
  <2>1. \A b \in 0..(n - 1) : ~Holds(key, b)
    BY <1>8, ProbeMeets
  <2>2. Max(dels) \in dels
    <3>1. dels \in SUBSET (0..m) /\ m \in Nat
      BY <1>0, <1>1
    <3>2. dels # {}
      BY <1>8
    <3> HIDE DEF dels
    <3> QED BY <3>1, <3>2, MaxNat
  <2>3. PICK d \in 0..(m - 1) : d = Max(dels) /\ flags[Bucket(key, n, d)] = "del"
    BY <1>1, <2>2
  <2>4. d \in 0..(n - 1) /\ Bucket(key, n, d) \in 0..(n - 1)
    BY <1>0, <1>1, <2>3, BucketRange
  <2>5. Filled(key, n, flags, d)
    BY <1>0, <1>1, <1>4, <2>3 DEF Filled
  <2>6. OnPath(key, n, flags, Bucket(key, n, d))
    BY <2>4, <2>5 DEF OnPath
  <2> QED BY <1>5, <1>8, <2>1, <2>3, <2>4, <2>6
<1> QED
  BY <1>6, <1>7, <1>8

\* The loop of kh_resize: the bucket it takes is free and on the path of the key,
\* and there is one as long as one of the new buckets is free.
LEMMA NewBucketChoice ==
  ASSUME hash_func \in [Keys -> Nat], NEW key \in Keys, new_n_buckets \in Powers
  PROVE  /\ \A i \in NewBucket(key) :
              /\ i \in 0..(new_n_buckets - 1)
              /\ new_flags[i] = "empty"
              /\ OnPath(key, new_n_buckets, new_flags, i)
         /\ (\E i \in 0..(new_n_buckets - 1) : new_flags[i] = "empty") => NewBucket(key) # {}
<1> DEFINE n == new_n_buckets
           B(s) == Bucket(key, n, s)
           free == {s \in 0..(2 * n - 1) : new_flags[B(s)] = "empty"}
<1>0. n \in Powers /\ n \in Nat /\ n > 0
  BY DEF Powers
<1>1. NewBucket(key) = {B(s) : s \in {s \in free : \A r \in free : s <= r}}
  BY DEF NewBucket
<1>2. ASSUME NEW i \in NewBucket(key)
      PROVE  i \in 0..(n - 1) /\ new_flags[i] = "empty" /\ OnPath(key, n, new_flags, i)
  <2>1. PICK s \in 0..(2 * n - 1) :
           i = B(s) /\ new_flags[i] = "empty" /\ \A r \in free : s <= r
    BY <1>1
  <2>2. i \in 0..(n - 1)
    BY <1>0, <2>1, BucketRange
  <2>3. PICK r \in 0..(n - 1) : B(r) = i
    BY <1>0, <2>2, ProbesCover
  <2>4. r \in free
    BY <1>0, <2>1, <2>3
  <2>5. s \in 0..(n - 1)
    BY <1>0, <2>1, <2>4
  <2>6. Filled(key, n, new_flags, s)
    <3> SUFFICES ASSUME NEW q \in 0..(s - 1), new_flags[B(q)] = "empty" PROVE FALSE
      BY DEF Filled
    <3>1. q \in free
      BY <1>0, <2>5
    <3> QED BY <1>0, <2>1, <2>5, <3>1
  <2> QED BY <2>1, <2>2, <2>5, <2>6 DEF OnPath
<1>3. ASSUME NEW i \in 0..(n - 1), new_flags[i] = "empty"
      PROVE  NewBucket(key) # {}
  <2>1. PICK r \in 0..(n - 1) : B(r) = i
    BY <1>0, <1>3, ProbesCover
  <2>2. r \in free
    BY <1>0, <1>3, <2>1
  <2>3. free \in SUBSET Nat /\ free # {}
    BY <1>0, <2>2
  <2>4. Min(free) \in free /\ \A y \in free : Min(free) <= y
    <3> HIDE DEF free
    <3> QED BY <2>3, MinNat
  <2> QED BY <1>1, <2>4
<1> QED
  BY <1>2, <1>3

-----------------------------------------------------------------------------
(***************************************************************************)
(* The sizes of the table.                                                 *)
(***************************************************************************)
\* A clearing keeps the number of buckets, a growth doubles it, and the first
\* insertion makes 4.
LEMMA Sizes ==
  /\ RoundUp(1) = 4
  /\ \A n \in Powers : RoundUp(n - 1) = n
  /\ \A n \in Powers : n < 1073741824 => RoundUp(n + 1) = 2 * n /\ 2 * n \in Powers
<1>1. RoundUp(1) = 4
  BY DEF RoundUp, Powers
<1>2. ASSUME NEW n \in Powers PROVE RoundUp(n - 1) = n
  BY DEF RoundUp, Powers
<1>3. ASSUME NEW n \in Powers, n < 1073741824 PROVE RoundUp(n + 1) = 2 * n /\ 2 * n \in Powers
  <2>1. 2 * n \in Powers /\ n \in Nat /\ n >= 4
    BY <1>3 DEF Powers
  <2>2. \A q \in Powers : q > n => q >= 2 * n
    BY DEF Powers
  <2>3. \A q \in Powers : q \in Nat /\ 2 * (q \div 2) = q
    BY DEF Powers
  <2>4. ASSUME NEW q \in Powers, q >= n + 1, q \div 2 < n + 1
        PROVE  q = 2 * n
    BY <2>1, <2>2, <2>3, <2>4
  <2>5. (2 * n) \div 2 = n
    BY <2>1
  <2> QED
    BY <2>1, <2>4, <2>5 DEF RoundUp
<1> QED
  BY <1>1, <1>2, <1>3

\* The load a table may have leaves a bucket empty, admits half of the buckets,
\* and grows with the table.
LEMMA Loads ==
  ASSUME NEW n \in Powers
  PROVE  /\ Upper(n) \in Nat /\ 0 < Upper(n) /\ Upper(n) < n
         /\ \A x \in Nat : n > 2 * x => x < Upper(n)
         /\ Upper(n) < Upper(2 * n)
<1>1. n \in Nat /\ n >= 4
  BY DEF Powers
<1> QED
  BY <1>1 DEF Upper

-----------------------------------------------------------------------------
(***************************************************************************)
(* The steps.                                                              *)
(***************************************************************************)
Rehashing == pc \in {"rehash", "place"}
Adding == pc \in {"resize", "rehash", "place", "put"}

Pairs == [key : Keys, val : Values]

\* What an insertion has in its hands, and where.
Framed ==
  /\ hash_func \in [Keys -> Nat]
  /\ failures \in Nat
  /\ IF Adding THEN arg \in Pairs ELSE arg = NoPair
  /\ IF pc = "place" THEN hand \in Pairs ELSE hand = NoPair

\* The sizes are powers of two, the load is what the size admits, and an
\* insertion goes to its bucket only when one more element is admitted.
Sized ==
  /\ n_buckets \in {0} \cup Powers
  /\ upper_bound = IF n_buckets = 0 THEN 0 ELSE Upper(n_buckets)
  /\ n_occupied <= upper_bound
  /\ pc = "put" => n_occupied < upper_bound
  /\ pc = "resize" => MustRehash
  /\ IF Rehashing THEN new_n_buckets \in Powers /\ size < Upper(new_n_buckets)
                  ELSE new_n_buckets = 0 /\ j = 0
  /\ 0..(Capacity - 1) \subseteq DOMAIN keys

\* The counters are what the buckets say.
Counted ==
  /\ size = Cardinality(Old) + Cardinality(New) + (IF pc = "place" THEN 1 ELSE 0)
  /\ ~Rehashing => n_occupied = Cardinality({i \in 0..(n_buckets - 1) : flags[i] # "empty"})

\* The loop of the rehash leaves no element behind.
Scanned == Rehashing => \A i \in 0..(j - 1) : flags[i] # "full"

Live == Old \cup New

\* The elements, the one in hand included, have different keys.
Distinct ==
  /\ Old \cap New = {}
  /\ \A i \in Live : keys[i] \in Keys /\ vals[i] \in Values
  /\ \A a, b \in Live : keys[a] = keys[b] => a = b
  /\ \A i \in Live : keys[i] # hand.key

\* The probe for the key of an element passes no empty bucket before it.
Reachable ==
  IF Rehashing
    THEN \A i \in New : OnPath(keys[i], new_n_buckets, new_flags, i)
    ELSE \A i \in Old : OnPath(keys[i], n_buckets, flags, i)

IInv == TypeOK /\ Framed /\ Sized /\ Counted /\ Scanned /\ Distinct /\ Reachable

-----------------------------------------------------------------------------
(***************************************************************************)
(* What follows from the invariant in one state.                           *)
(***************************************************************************)
LEMMA MaxOfTwo ==
  ASSUME NEW a \in Nat, NEW b \in Nat
  PROVE  Max({a, b}) = IF a <= b THEN b ELSE a
BY DEF Max

LEMMA CapacityIs ==
  ASSUME TypeOK, Sized
  PROVE  Capacity = (IF Rehashing THEN new_n_buckets ELSE n_buckets) /\ Capacity \in Nat
<1>1. CASE Rehashing
  <2>1. new_n_buckets \in Nat
    BY <1>1 DEF Sized, Powers
  <2>2. n_buckets \in Nat /\ n_buckets <= new_n_buckets
    BY <1>1 DEF TypeOK, Rehashing
  <2>3. Max({n_buckets, new_n_buckets}) = new_n_buckets
    BY <2>1, <2>2, MaxOfTwo
  <2> QED BY <1>1, <2>1, <2>3 DEF Rehashing, Capacity
<1>2. CASE ~Rehashing
  BY <1>2 DEF TypeOK, Rehashing, Capacity
<1> QED
  BY <1>1, <1>2

\* The sets that Counted counts are finite.
LEMMA FiniteBuckets ==
  ASSUME TypeOK, Sized
  PROVE  /\ IsFiniteSet(Old) /\ IsFiniteSet(New)
         /\ IsFiniteSet({i \in 0..(n_buckets - 1) : flags[i] # "empty"})
         /\ Cardinality(Old) \in Nat /\ Cardinality(New) \in Nat
         /\ New = {i \in 0..(new_n_buckets - 1) : new_flags[i] = "full"}
         /\ new_n_buckets \in Nat
<1>1. new_n_buckets \in Nat /\ n_buckets \in Nat
  <2>1. new_n_buckets \in Powers \/ new_n_buckets = 0
    BY DEF Sized
  <2>2. new_n_buckets \in Nat
    BY <2>1, PowersAreNat
  <2>3. n_buckets \in Nat
    BY DEF TypeOK
  <2> QED BY <2>2, <2>3
<1>2. IsFiniteSet(0..(n_buckets - 1)) /\ IsFiniteSet(0..(new_n_buckets - 1))
  BY <1>1, FS_Interval
<1>3. New = {i \in 0..(new_n_buckets - 1) : new_flags[i] = "full"}
  BY DEF New, TypeOK
<1>4. Old \in SUBSET (0..(n_buckets - 1)) /\ New \in SUBSET (0..(new_n_buckets - 1))
  BY <1>3 DEF Old
<1>5. {i \in 0..(n_buckets - 1) : flags[i] # "empty"} \in SUBSET (0..(n_buckets - 1))
  OBVIOUS
<1>6. IsFiniteSet(Old) /\ IsFiniteSet(New)
  BY <1>2, <1>4, FS_Subset
<1>7. IsFiniteSet({i \in 0..(n_buckets - 1) : flags[i] # "empty"})
  BY <1>2, <1>5, FS_Subset
<1> QED
  BY <1>1, <1>3, <1>6, <1>7, FS_CardinalityType

\* The number of elements is the number of keys that are stored.
LEMMA KeysOfElements ==
  ASSUME TypeOK, Framed, Sized, Counted, Distinct
  PROVE  /\ IsFiniteSet(Keys)
         /\ size = Cardinality({key \in Keys : (\E i \in Live : keys[i] = key) \/ hand.key = key})
         /\ size <= Cardinality(Keys)
<1> DEFINE K == {keys[i] : i \in Live}
           H == {key \in Keys : (\E i \in Live : keys[i] = key) \/ hand.key = key}
           f == [i \in Live |-> keys[i]]
<1>1. IsFiniteSet(Live) /\ Cardinality(Live) = Cardinality(Old) + Cardinality(New)
  <2>1. IsFiniteSet(Old) /\ IsFiniteSet(New) /\ Cardinality(Old) \in Nat /\ Cardinality(New) \in Nat
    BY FiniteBuckets
  <2>2. Cardinality(Old \cap New) = 0
    BY FS_EmptySet DEF Distinct
  <2>3. IsFiniteSet(Old \cup New)
        /\ Cardinality(Old \cup New) = Cardinality(Old) + Cardinality(New) - Cardinality(Old \cap New)
    BY <2>1, FS_Union
  <2> QED BY <2>1, <2>2, <2>3 DEF Live
<1>2. f \in Bijection(Live, K)
  <2>1. f \in [Live -> K] /\ \A y \in K : \E i \in Live : f[i] = y
    OBVIOUS
  <2>2. \A a, b \in Live : f[a] = f[b] => a = b
    BY DEF Distinct
  <2> QED BY <2>1, <2>2 DEF Bijection, Injection, Surjection, IsInjective
<1>3. IsFiniteSet(K) /\ Cardinality(K) = Cardinality(Live)
  <2> HIDE DEF f, K
  <2> QED BY <1>1, <1>2, FS_Bijection DEF ExistsBijection
<1>4. IsFiniteSet(H) /\ Cardinality(H) = size
  <2>1. CASE pc = "place"
    <3>1. H = K \cup {hand.key} /\ hand.key \notin K
      BY <2>1 DEF Framed, Pairs, Distinct
    <3>2. IsFiniteSet(K \cup {hand.key}) /\ Cardinality(K \cup {hand.key}) = Cardinality(K) + 1
      <4> HIDE DEF K
      <4> QED BY <1>3, <3>1, FS_AddElement
    <3> QED BY <1>1, <1>3, <2>1, <3>1, <3>2 DEF Counted
  <2>2. CASE pc # "place"
    <3>1. H = K
      BY <2>2, NullAssumption DEF Framed, NoPair, Distinct
    <3>2. size = Cardinality(Live)
      BY <1>1, <2>2, FiniteBuckets DEF Counted
    <3> QED BY <1>1, <1>3, <3>1, <3>2
  <2> QED BY <2>1, <2>2
<1>5. IsFiniteSet(Keys) /\ H \in SUBSET Keys
  BY KeysAssumption
<1> QED
  <2> HIDE DEF H
  <2>1. Cardinality(H) <= Cardinality(Keys)
    BY <1>5, FS_Subset
  <2> QED BY <1>4, <1>5, <2>1 DEF H

\* Outside of a rehash a bucket is empty, and the elements are at most as many as
\* the buckets that are not.
LEMMA Room ==
  ASSUME TypeOK, Sized, Counted, ~Rehashing
  PROVE  /\ n_buckets > 0 => \E i \in 0..(n_buckets - 1) : flags[i] = "empty"
         /\ size = Cardinality(Old) /\ size <= n_occupied
         /\ New = {}
<1> DEFINE Used == {i \in 0..(n_buckets - 1) : flags[i] # "empty"}
<1>1. New = {}
  BY FiniteBuckets DEF Sized
<1>2. Cardinality(New) = 0
  BY <1>1, FS_EmptySet
<1>3. size = Cardinality(Old)
  BY <1>2, FiniteBuckets DEF Counted, Rehashing
<1>4. IsFiniteSet(Used) /\ Old \in SUBSET Used /\ n_occupied = Cardinality(Used)
  BY FiniteBuckets DEF Old, Counted
<1>5. size <= n_occupied
  <2> HIDE DEF Used
  <2> QED BY <1>3, <1>4, FS_Subset
<1>6. ASSUME n_buckets > 0, ~\E i \in 0..(n_buckets - 1) : flags[i] = "empty"
      PROVE  FALSE
  <2>1. n_buckets \in Powers /\ n_buckets \in Nat
    BY <1>6 DEF Sized, TypeOK
  <2>2. Used = 0..(n_buckets - 1)
    BY <1>6
  <2>3. Cardinality(Used) = n_buckets
    <3>1. Cardinality(0..(n_buckets - 1)) = n_buckets
      BY <1>6, <2>1, FS_Interval
    <3> QED BY <2>2, <3>1
  <2>4. n_occupied <= Upper(n_buckets)
    BY <1>6 DEF Sized
  <2>5. Upper(n_buckets) \in Nat /\ Upper(n_buckets) < n_buckets
    BY <2>1, Loads
  <2> QED BY <1>4, <2>1, <2>3, <2>4, <2>5
<1> QED
  BY <1>1, <1>3, <1>5, <1>6

\* Every element is in the arrays.
LEMMA InBounds ==
  ASSUME IInv
  PROVE  Live \subseteq DOMAIN keys /\ Live \subseteq DOMAIN vals
<1>1. New \subseteq 0..(new_n_buckets - 1) /\ new_n_buckets \in Nat /\ n_buckets \in Nat
  BY FiniteBuckets DEF IInv, TypeOK
<1>2. Old \subseteq 0..(n_buckets - 1)
  BY DEF Old
<1>3. Live \subseteq 0..(Capacity - 1)
  <2>1. CASE Rehashing
    <3>1. Capacity = new_n_buckets /\ n_buckets <= new_n_buckets
      BY <2>1, CapacityIs DEF IInv, TypeOK, Rehashing
    <3> QED BY <1>1, <1>2, <3>1 DEF Live
  <2>2. CASE ~Rehashing
    <3>1. Capacity = n_buckets /\ New = {}
      BY <2>2, CapacityIs, Room DEF IInv
    <3> QED BY <1>2, <3>1 DEF Live
  <2> QED BY <2>1, <2>2
<1> QED
  BY <1>3 DEF IInv, Sized, TypeOK

\* So a table that is not being rehashed can be searched.
LEMMA CanSearch ==
  ASSUME TypeOK, Framed, Sized, Counted, Distinct, Reachable, ~Rehashing, n_buckets # 0
  PROVE  Searchable
<1>1. n_buckets \in Powers /\ n_buckets > 0
  BY DEF Sized, Powers
<1>2. \E i \in 0..(n_buckets - 1) : flags[i] = "empty"
  BY <1>1, Room
<1> QED
  BY <1>1, <1>2 DEF Searchable, TypeOK, Framed, Distinct, Reachable, Old, Live

-----------------------------------------------------------------------------
(***************************************************************************)
(* Every step keeps the invariant.                                         *)
(***************************************************************************)
\* A bucket that is no longer empty is in nobody's way.
LEMMA StaysOnPath ==
  ASSUME hash_func \in [Keys -> Nat], hash_func' = hash_func,
         NEW key \in Keys, NEW n \in Powers, NEW f, NEW g, NEW i,
         \A b \in 0..(n - 1) : f[b] # "empty" => g[b] # "empty",
         OnPath(key, n, f, i)
  PROVE  OnPath(key, n, g, i)'
<1>0. n \in Nat
  BY DEF Powers
<1>1. PICK s \in 0..(n - 1) : Bucket(key, n, s) = i /\ Filled(key, n, f, s)
  BY DEF OnPath
<1>2. \A r \in Nat : Bucket(key, n, r)' = Bucket(key, n, r)
  BY DEF Bucket
<1>3. \A r \in 0..(s - 1) : r \in Nat /\ Bucket(key, n, r) \in 0..(n - 1)
  BY <1>0, BucketRange
<1>4. Filled(key, n, g, s)'
  BY <1>1, <1>2, <1>3 DEF Filled
<1> QED
  BY <1>0, <1>1, <1>2, <1>4 DEF OnPath

LEMMA DeleteInv ==
  ASSUME IInv, NEW key \in Keys, Hash_Delete(key)
  PROVE  IInv'
<1> DEFINE x == kh_get(key)
<1>0. ~Rehashing /\ n_buckets # 0 /\ pc = "idle" /\ x # n_buckets
  BY DEF Hash_Delete, CanDelete, kh_get, Rehashing
<1>1. Searchable
  BY <1>0, CanSearch DEF IInv
<1>2. PICK d \in 0..(n_buckets - 1) : d = x /\ Holds(key, d)
  BY <1>0, <1>1, Lookup
<1>3. /\ flags' = [flags EXCEPT ![d] = "del"] /\ size' = size - 1
      /\ UNCHANGED <<hash_func, failures, n_buckets, n_occupied, upper_bound, keys, vals,
                     pc, arg, new_n_buckets, new_flags, j, hand>>
  BY <1>2 DEF Hash_Delete, locals
<1> HIDE DEF x
<1>4. /\ flags \in [0..(n_buckets - 1) -> {"empty", "full", "del"}]
      /\ flags' \in [0..(n_buckets - 1) -> {"empty", "full", "del"}]
      /\ \A b \in 0..(n_buckets - 1) : flags'[b] = IF b = d THEN "del" ELSE flags[b]
  BY <1>3 DEF IInv, TypeOK
<1>5. d \in Old /\ Old' = Old \ {d} /\ New' = New /\ New = {}
  BY <1>0, <1>2, <1>3, <1>4, Room DEF Old, New, Holds, IInv
<1>6. Capacity' = Capacity /\ Rehashing' = Rehashing /\ Adding' = Adding
  BY <1>3 DEF Capacity, Rehashing, Adding
<1>7. size \in Nat /\ size' \in Nat /\ size' = Cardinality(Old')
  <2>1. IsFiniteSet(Old) /\ Cardinality(Old) \in Nat
    BY FiniteBuckets DEF IInv
  <2>2. Cardinality(Old \ {d}) = Cardinality(Old) - 1 /\ Cardinality(Old \ {d}) \in Nat
    BY <1>5, <2>1, FS_RemoveElement, FS_CardinalityType
  <2>3. size = Cardinality(Old)
    BY <1>0, Room DEF IInv
  <2> QED BY <1>3, <1>5, <2>1, <2>2, <2>3
<1>a. TypeOK'
  BY <1>3, <1>4, <1>6, <1>7 DEF IInv, TypeOK
<1>b. Framed'
  BY <1>3, <1>6 DEF IInv, Framed
<1>c. Sized'
  BY <1>0, <1>3, <1>6 DEF IInv, Sized
<1>d. Counted'
  <2>1. {i \in 0..(n_buckets - 1) : flags[i] # "empty"}' = {i \in 0..(n_buckets - 1) : flags[i] # "empty"}
    BY <1>2, <1>3, <1>4 DEF Holds
  <2>2. Cardinality(New') = 0
    BY <1>5, FS_EmptySet
  <2> QED BY <1>0, <1>3, <1>6, <1>7, <2>1, <2>2 DEF IInv, Counted
<1>e. Scanned'
  BY <1>0, <1>6 DEF Scanned
<1>f. Distinct'
  BY <1>3, <1>5 DEF IInv, Distinct, Live
<1>g. Reachable'
  <2> SUFFICES ASSUME NEW i \in Old' PROVE OnPath(keys[i], n_buckets, flags, i)'
    BY <1>0, <1>6 DEF Reachable
  <2>1. i \in Old /\ keys[i] \in Keys /\ OnPath(keys[i], n_buckets, flags, i)
    BY <1>0, <1>5 DEF IInv, Reachable, Distinct, Live
  <2>2. PICK k \in Keys, n \in Powers, f \in {flags}, g \in {flags'} : k = keys[i] /\ n = n_buckets
    BY <1>1, <2>1 DEF Searchable
  <2>3. OnPath(k, n, g, i)'
    BY <1>1, <1>3, <1>4, <2>1, <2>2, <1>2, StaysOnPath DEF Searchable, Holds
  <2> QED BY <1>3, <2>2, <2>3
<1> QED
  BY <1>a, <1>b, <1>c, <1>d, <1>e, <1>f, <1>g DEF IInv

\* kh_put, when the table is full: the size it asks for can hold the elements, and
\* is the same as before or the next one.
LEMMA Growth ==
  ASSUME IInv, ~Rehashing, n_occupied >= upper_bound
  PROVE  /\ RoundUp(Requested) \in Powers
         /\ size < Upper(RoundUp(Requested))
         /\ \/ RoundUp(Requested) = n_buckets
            \/ RoundUp(Requested) = RoundUp(n_buckets + 1) /\ n_buckets < RoundUp(Requested)
<1>0. size \in Nat /\ n_occupied \in Nat /\ size <= n_occupied
  BY Room DEF IInv, TypeOK
<1>1. CASE n_buckets = 0
  <2>1. size = 0 /\ Requested = 1
    BY <1>0, <1>1 DEF IInv, Sized, Requested
  <2>2. RoundUp(1) = 4 /\ 4 \in Powers
    BY Sizes DEF Powers
  <2> QED BY <1>1, <2>1, <2>2, Loads
<1>2. CASE n_buckets \in Powers /\ n_buckets > 2 * size
  <2>1. RoundUp(Requested) = n_buckets
    BY <1>2, Sizes DEF Requested
  <2> QED BY <1>0, <1>2, <2>1, Loads
<1>3. CASE n_buckets \in Powers /\ ~(n_buckets > 2 * size)
  <2>1. n_buckets < 1073741824
    <3>1. size <= Cardinality(Keys) /\ Cardinality(Keys) \in Nat
      BY KeysOfElements, FS_CardinalityType DEF IInv
    <3>2. n_buckets \in Nat
      BY <1>3 DEF Powers
    <3> QED BY <1>0, <1>3, <3>1, <3>2, KeysAssumption
  <2>2. RoundUp(Requested) = RoundUp(n_buckets + 1)
    BY <1>3 DEF Requested
  <2>3. RoundUp(n_buckets + 1) = 2 * n_buckets /\ 2 * n_buckets \in Powers
    BY <1>3, <2>1, Sizes
  <2>4. upper_bound = Upper(n_buckets) /\ n_occupied <= upper_bound
    BY <1>3 DEF IInv, Sized, Powers
  <2>5. Upper(n_buckets) \in Nat /\ Upper(2 * n_buckets) \in Nat /\ Upper(n_buckets) < Upper(2 * n_buckets)
    BY <1>3, <2>3, Loads
  <2>6. n_buckets \in Nat /\ n_buckets > 0
    BY <1>3 DEF Powers
  <2> QED BY <1>0, <2>2, <2>3, <2>4, <2>5, <2>6
<1> QED
  BY <1>1, <1>2, <1>3 DEF IInv, Sized

\* A step that leaves the table as it is, outside of a rehash.
LEMMA TableKept ==
  ASSUME IInv, ~Rehashing, ~Rehashing',
         UNCHANGED <<hash_func, n_buckets, size, n_occupied, flags, new_flags>>,
         \A i \in 0..(n_buckets - 1) : keys'[i] = keys[i] /\ vals'[i] = vals[i],
         hand' = NoPair
  PROVE  Counted' /\ Scanned' /\ Distinct' /\ Reachable'
<1>1. Old' = Old /\ New' = New /\ New = {}
  BY Room DEF Old, New, IInv
<1>2. hand = NoPair /\ pc # "place" /\ pc' # "place"
  BY DEF IInv, Framed, Rehashing
<1>3. Counted'
  BY <1>1, <1>2 DEF IInv, Counted
<1>4. Scanned'
  BY DEF Scanned
<1>5. \A i \in Old : keys'[i] = keys[i] /\ vals'[i] = vals[i]
  BY DEF Old
<1>6. Distinct'
  BY <1>1, <1>2, <1>5 DEF IInv, Distinct, Live
<1>7. Reachable'
  <2> SUFFICES ASSUME NEW i \in Old PROVE OnPath(keys[i], n_buckets, flags, i)'
    BY <1>1 DEF Reachable
  <2>1. keys[i] \in Keys /\ OnPath(keys[i], n_buckets, flags, i) /\ hash_func \in [Keys -> Nat]
        /\ n_buckets \in Powers
    BY DEF IInv, Reachable, Distinct, Live, Framed, Sized, Old
  <2>2. PICK k \in Keys, n \in Powers, f \in {flags} : k = keys[i] /\ n = n_buckets
    BY <2>1
  <2>3. OnPath(k, n, f, i)'
    BY <2>1, <2>2, StaysOnPath
  <2> QED BY <1>5, <2>2, <2>3
<1> QED
  BY <1>3, <1>4, <1>6, <1>7

LEMMA AddInv ==
  ASSUME IInv, NEW key \in Keys, NEW value \in Values, Hash_Add(key, value)
  PROVE  IInv'
<1>1. /\ pc = "idle" /\ pc' = IF MustRehash THEN "resize" ELSE "put"
      /\ arg' = [key |-> key, val |-> value]
      /\ UNCHANGED <<hash_func, failures, n_buckets, size, n_occupied, upper_bound, flags, keys,
                     vals, new_n_buckets, new_flags, j, hand>>
  BY DEF Hash_Add, table
<1>2. ~Rehashing /\ ~Rehashing' /\ Adding' /\ pc' # "place"
  BY <1>1 DEF Rehashing, Adding
<1>3. Capacity' = Capacity
  BY <1>1 DEF Capacity
<1>4. hand = NoPair
  BY <1>1 DEF IInv, Framed
<1>5. TypeOK'
  BY <1>1, <1>2, <1>3 DEF IInv, TypeOK, Rehashing
<1>6. Framed'
  BY <1>1, <1>2, <1>4 DEF IInv, Framed, Pairs
<1>7. MustRehash' = MustRehash
  BY <1>1 DEF MustRehash, Requested
<1>8. ~MustRehash => n_occupied < upper_bound
  <2> SUFFICES ASSUME n_occupied >= upper_bound PROVE MustRehash
    <3>1. n_occupied \in Nat /\ upper_bound \in Nat
      BY DEF IInv, TypeOK
    <3> QED BY <3>1
  <2> QED BY <1>2, Growth DEF MustRehash
<1>9. Sized'
  BY <1>1, <1>2, <1>3, <1>7, <1>8 DEF IInv, Sized
<1>10. Counted' /\ Scanned' /\ Distinct' /\ Reachable'
  BY <1>1, <1>2, <1>4, TableKept
<1> QED
  BY <1>5, <1>6, <1>9, <1>10 DEF IInv

\* realloc keeps what the array holds, and gives it the length that is asked for
\* when the table grows.
LEMMA GrownArray ==
  ASSUME NEW a, NEW n, n_buckets \in Nat, n \in Nat
  PROVE  /\ n_buckets < n => /\ \A S : (\A i \in DOMAIN a : a[i] \in S \cup {NULL})
                                      => Grown(a, n) \in [0..(n - 1) -> S \cup {NULL}]
                             /\ \A i \in DOMAIN a \cap (0..(n_buckets - 1)) : Grown(a, n)[i] = a[i]
         /\ ~(n_buckets < n) => Grown(a, n) = a
BY DEF Grown

\* The arrays before and after kh_resize has allocated for n buckets.
LEMMA Allocated ==
  ASSUME TypeOK, Sized, ~Rehashing, NEW n \in Powers,
         \/ n = n_buckets
         \/ n = RoundUp(n_buckets + 1) /\ n_buckets < n
  PROVE  /\ \E m \in {n, RoundUp(n + 1)} : Grown(keys, n) \in [0..(m - 1) -> Keys \cup {NULL}]
         /\ \E m \in {n_buckets, RoundUp(n_buckets + 1)} :
              Grown(keys, n) \in [0..(m - 1) -> Keys \cup {NULL}]
         /\ Grown(vals, n) \in [0..(n - 1) -> Values \cup {NULL}]
         /\ 0..(n - 1) \subseteq DOMAIN Grown(keys, n)
         /\ \A i \in 0..(n_buckets - 1) : Grown(keys, n)[i] = keys[i] /\ Grown(vals, n)[i] = vals[i]
<1>0. n \in Nat /\ n_buckets \in Nat /\ Capacity = n_buckets
  BY CapacityIs DEF Powers, TypeOK
<1>1. PICK m \in {n_buckets, RoundUp(n_buckets + 1)} : keys \in [0..(m - 1) -> Keys \cup {NULL}]
  BY <1>0 DEF TypeOK
<1>2. vals \in [0..(n_buckets - 1) -> Values \cup {NULL}]
  BY <1>0 DEF TypeOK
<1>3. 0..(n_buckets - 1) \subseteq DOMAIN keys
  BY <1>0 DEF Sized
<1>4. CASE n = n_buckets
  <2>1. Grown(keys, n) = keys /\ Grown(vals, n) = vals
    BY <1>0, <1>4, GrownArray
  <2> QED BY <1>1, <1>2, <1>3, <1>4, <2>1
<1>5. CASE n = RoundUp(n_buckets + 1) /\ n_buckets < n
  <2>1. Grown(keys, n) \in [0..(n - 1) -> Keys \cup {NULL}]
    BY <1>0, <1>1, <1>5, GrownArray
  <2>2. Grown(vals, n) \in [0..(n - 1) -> Values \cup {NULL}]
    BY <1>0, <1>2, <1>5, GrownArray
  <2>3. \A i \in 0..(n_buckets - 1) : Grown(keys, n)[i] = keys[i]
    BY <1>0, <1>3, <1>5, GrownArray
  <2>4. \A i \in 0..(n_buckets - 1) : Grown(vals, n)[i] = vals[i]
    BY <1>0, <1>2, <1>5, GrownArray
  <2> QED BY <1>5, <2>1, <2>2, <2>3, <2>4
<1> QED
  BY <1>4, <1>5

LEMMA ResizeInv ==
  ASSUME IInv, Resize
  PROVE  IInv'
<1> DEFINE N == RoundUp(Requested)
<1>0. pc = "resize" /\ ~Rehashing /\ Rehashing' /\ Adding /\ Adding' /\ pc' = "rehash" /\ MustRehash
  BY DEF Resize, Rehashing, Adding, IInv, Sized
<1>1. PICK n \in Powers : /\ n = N /\ size < Upper(n)
                          /\ n = n_buckets \/ (n = RoundUp(n_buckets + 1) /\ n_buckets < n)
  BY <1>0, Growth DEF MustRehash
<1> HIDE DEF N
<1>2. /\ new_n_buckets' = n /\ new_flags' = [i \in 0..(n - 1) |-> "empty"] /\ j' = 0
      /\ keys' = Grown(keys, n) /\ vals' = Grown(vals, n)
      /\ UNCHANGED <<hash_func, failures, n_buckets, size, n_occupied, upper_bound, flags, arg, hand>>
  BY <1>1 DEF Resize, N
<1>3. /\ \E m \in {n, RoundUp(n + 1)} : keys' \in [0..(m - 1) -> Keys \cup {NULL}]
      /\ vals' \in [0..(n - 1) -> Values \cup {NULL}]
      /\ 0..(n - 1) \subseteq DOMAIN keys'
      /\ \A i \in 0..(n_buckets - 1) : keys'[i] = keys[i] /\ vals'[i] = vals[i]
  BY <1>0, <1>1, <1>2, Allocated DEF IInv
<1>4. n \in Nat /\ n_buckets \in Nat /\ n_buckets <= n
  BY <1>1 DEF IInv, TypeOK, Powers
<1>5. Capacity' = n
  <2>1. Max({n_buckets, n}) = n
    BY <1>4, MaxOfTwo
  <2> QED BY <1>0, <1>2, <2>1 DEF Capacity
<1>6. Old' = Old /\ New' = {} /\ New = {}
  BY <1>0, <1>2, Room DEF Old, New, IInv
<1>7. hand = NoPair
  BY <1>0 DEF IInv, Framed
<1>a. TypeOK'
  BY <1>0, <1>2, <1>3, <1>4, <1>5 DEF IInv, TypeOK
<1>b. Framed'
  BY <1>0, <1>2 DEF IInv, Framed
<1>c. Sized'
  BY <1>0, <1>1, <1>2, <1>3, <1>5 DEF IInv, Sized
<1>d. Counted'
  BY <1>0, <1>2, <1>6 DEF IInv, Counted
<1>e. Scanned'
  BY <1>2 DEF Scanned
<1>f. Distinct'
  <2>1. \A i \in Old : keys'[i] = keys[i] /\ vals'[i] = vals[i]
    BY <1>3 DEF Old
  <2> QED BY <1>2, <1>6, <2>1 DEF IInv, Distinct, Live
<1>g. Reachable'
  BY <1>0, <1>6 DEF Reachable
<1> QED
  BY <1>a, <1>b, <1>c, <1>d, <1>e, <1>f, <1>g DEF IInv

LEMMA ResizeFailsInv ==
  ASSUME IInv, ResizeFails
  PROVE  IInv'
<1> DEFINE N == RoundUp(Requested)
<1>0. /\ pc = "resize" /\ ~Rehashing /\ ~Rehashing' /\ ~Adding' /\ MustRehash
      /\ pc' \in {"idle", "dead"}
  BY DEF ResizeFails, Rehashing, Adding, IInv, Sized
<1>1. PICK n \in Powers : /\ n = N
                          /\ n = n_buckets \/ (n = RoundUp(n_buckets + 1) /\ n_buckets < n)
  BY <1>0, Growth DEF MustRehash
<1> HIDE DEF N
<1>2. /\ keys' \in {keys, Grown(keys, n)} /\ arg' = NoPair /\ failures' = failures + 1
      /\ UNCHANGED <<hash_func, n_buckets, size, n_occupied, upper_bound, flags, vals,
                     new_n_buckets, new_flags, j, hand>>
  BY <1>1 DEF ResizeFails, KeysAtFailure, N
<1>3. Capacity = n_buckets /\ Capacity' = n_buckets
  BY <1>0, <1>2 DEF Capacity, Rehashing
<1>4. /\ \E m \in {n_buckets, RoundUp(n_buckets + 1)} : keys' \in [0..(m - 1) -> Keys \cup {NULL}]
      /\ 0..(n_buckets - 1) \subseteq DOMAIN keys'
      /\ \A i \in 0..(n_buckets - 1) : keys'[i] = keys[i]
  <2>1. CASE keys' = keys
    BY <1>3, <2>1 DEF IInv, TypeOK, Sized
  <2>2. CASE keys' = Grown(keys, n)
    <3>1. n_buckets <= n /\ n \in Nat /\ n_buckets \in Nat
      BY <1>1 DEF IInv, TypeOK, Powers
    <3>2. 0..(n_buckets - 1) \subseteq 0..(n - 1)
      BY <3>1
    <3> QED BY <1>0, <1>1, <2>2, <3>2, Allocated DEF IInv
  <2> QED BY <1>2, <2>1, <2>2
<1>5. hand = NoPair
  BY <1>0 DEF IInv, Framed
<1>a. TypeOK'
  BY <1>0, <1>2, <1>3, <1>4 DEF IInv, TypeOK
<1>b. Framed'
  BY <1>0, <1>2, <1>5 DEF IInv, Framed, Rehashing
<1>c. Sized'
  BY <1>0, <1>2, <1>3, <1>4 DEF IInv, Sized
<1>d. Counted' /\ Scanned' /\ Distinct' /\ Reachable'
  BY <1>0, <1>2, <1>4, <1>5, TableKept
<1> QED
  BY <1>a, <1>b, <1>c, <1>d DEF IInv

LEMMA ScanInv ==
  ASSUME IInv, Scan
  PROVE  IInv'
<1>0. /\ pc = "rehash" /\ Rehashing /\ Rehashing' /\ Adding /\ Adding' /\ j' = j + 1
      /\ UNCHANGED <<hash_func, failures, n_buckets, size, n_occupied, upper_bound, keys, vals, arg,
                     new_n_buckets, new_flags>>
  BY DEF Scan, Rehashing, Adding
<1>1. j \in 0..(n_buckets - 1) /\ n_buckets \in Nat /\ j' \in 0..n_buckets /\ j \in Nat
  BY <1>0 DEF Scan, IInv, TypeOK
<1>2. Capacity' = Capacity
  BY <1>0 DEF Rehashing, Capacity
<1>3. New' = New
  BY <1>0 DEF New
<1>4. /\ flags' \in [0..(n_buckets - 1) -> {"empty", "full", "del"}]
      /\ flags'[j] # "full"
      /\ \A b \in 0..(n_buckets - 1) : b # j => flags'[b] = flags[b]
  BY <1>1 DEF Scan, IInv, TypeOK
<1>5. /\ \/ j \in Old /\ Old' = Old \ {j} /\ hand' = [key |-> keys[j], val |-> vals[j]] /\ pc' = "place"
         \/ Old' = Old /\ hand' = hand /\ pc' = "rehash"
  <2>1. CASE flags[j] = "full"
    BY <1>0, <1>1, <1>4, <2>1 DEF Scan, Old
  <2>2. CASE flags[j] # "full"
    BY <1>0, <1>1, <1>4, <2>2 DEF Scan, Old
  <2> QED BY <2>1, <2>2
<1>6. hand = NoPair
  BY <1>0 DEF IInv, Framed
<1>a. TypeOK'
  BY <1>0, <1>1, <1>2, <1>4, <1>5 DEF IInv, TypeOK
<1>b. Framed'
  BY <1>0, <1>5, <1>6 DEF IInv, Framed, Pairs, Distinct, Live
<1>c. Sized'
  BY <1>0, <1>2, <1>5 DEF IInv, Sized
<1>d. Counted'
  <2>1. IsFiniteSet(Old) /\ Cardinality(Old) \in Nat /\ Cardinality(New) \in Nat
    BY FiniteBuckets DEF IInv
  <2>2. j \in Old => Cardinality(Old \ {j}) = Cardinality(Old) - 1
    BY <2>1, FS_RemoveElement
  <2>3. size = Cardinality(Old) + Cardinality(New)
    BY <1>0, <2>1 DEF IInv, Counted
  <2>4. size' = Cardinality(Old') + Cardinality(New') + (IF pc' = "place" THEN 1 ELSE 0)
    <3>1. CASE j \in Old /\ Old' = Old \ {j} /\ pc' = "place"
      BY <1>0, <1>3, <2>1, <2>2, <2>3, <3>1
    <3>2. CASE Old' = Old /\ pc' = "rehash"
      BY <1>0, <1>3, <2>1, <2>3, <3>2
    <3> QED BY <1>5, <3>1, <3>2
  <2> QED BY <1>0, <2>4 DEF Counted
<1>e. Scanned'
  <2> SUFFICES ASSUME NEW i \in 0..((j + 1) - 1) PROVE flags'[i] # "full"
    BY <1>0 DEF Scanned
  <2>1. i = j \/ i \in 0..(j - 1)
    BY <1>1
  <2>2. i \in 0..(n_buckets - 1)
    BY <1>1, <2>1
  <2> QED BY <1>0, <1>4, <2>1, <2>2 DEF IInv, Scanned
<1>f. Distinct'
  <2>1. CASE j \in Old /\ Old' = Old \ {j} /\ hand' = [key |-> keys[j], val |-> vals[j]]
    <3>1. Live' = Live \ {j} /\ j \in Live /\ hand'.key = keys[j]
      BY <1>3, <2>1 DEF Live, IInv, Distinct
    <3> QED BY <1>0, <1>3, <2>1, <3>1 DEF IInv, Distinct
  <2>2. CASE Old' = Old /\ hand' = hand
    BY <1>0, <1>3, <2>2 DEF IInv, Distinct, Live
  <2> QED BY <1>5, <2>1, <2>2
<1>g. Reachable'
  <2> SUFFICES ASSUME NEW i \in New PROVE OnPath(keys[i], new_n_buckets, new_flags, i)'
    BY <1>0, <1>3 DEF Reachable
  <2>1. keys[i] \in Keys /\ OnPath(keys[i], new_n_buckets, new_flags, i) /\ hash_func \in [Keys -> Nat]
        /\ new_n_buckets \in Powers
    BY <1>0 DEF IInv, Reachable, Distinct, Live, Framed, Sized
  <2>2. PICK k \in Keys, n \in Powers, f \in {new_flags} : k = keys[i] /\ n = new_n_buckets
    BY <2>1
  <2>3. OnPath(k, n, f, i)'
    BY <1>0, <2>1, <2>2, StaysOnPath
  <2> QED BY <1>0, <2>2, <2>3
<1> QED
  BY <1>a, <1>b, <1>c, <1>d, <1>e, <1>f, <1>g DEF IInv

\* What a turn of the kick-out loop does: bucket i is taken by the element in
\* hand, and the element that was there, if it was still to be moved, comes in hand.
LEMMA PlaceEffect ==
  ASSUME IInv, Place
  PROVE  \E i \in 0..(new_n_buckets - 1) :
           /\ new_flags[i] = "empty" /\ i \in DOMAIN keys /\ i \in DOMAIN vals
           /\ OnPath(hand.key, new_n_buckets, new_flags, i)
           /\ new_flags' = [new_flags EXCEPT ![i] = "full"]
           /\ keys' = [keys EXCEPT ![i] = hand.key]
           /\ vals' = [vals EXCEPT ![i] = hand.val]
           /\ i \notin New /\ New' = New \cup {i}
           /\ \/ /\ i \in Old /\ Old' = Old \ {i} /\ pc' = "place"
                 /\ hand' = [key |-> keys[i], val |-> vals[i]]
                 /\ flags' = [flags EXCEPT ![i] = "del"]
              \/ /\ i \notin Old /\ Old' = Old /\ pc' = "rehash"
                 /\ hand' = NoPair /\ flags' = flags
<1>1. pc = "place" /\ Rehashing /\ hand.key \in Keys /\ new_n_buckets \in Powers /\ hash_func \in [Keys -> Nat]
  BY DEF Place, Rehashing, IInv, Framed, Sized, Pairs
<1>2. PICK i \in NewBucket(hand.key) :
        /\ new_flags' = [new_flags EXCEPT ![i] = "full"]
        /\ keys' = [keys EXCEPT ![i] = hand.key]
        /\ vals' = [vals EXCEPT ![i] = hand.val]
        /\ IF Kicks(i)
             THEN hand' = [key |-> keys[i], val |-> vals[i]] /\ flags' = Marked(i) /\ pc' = "place"
             ELSE hand' = NoPair /\ pc' = "rehash" /\ UNCHANGED flags
        /\ UNCHANGED <<n_buckets, new_n_buckets>>
  BY DEF Place
<1>3. PICK k \in Keys : k = hand.key
  BY <1>1
<1>4. i \in 0..(new_n_buckets - 1) /\ new_flags[i] = "empty" /\ OnPath(hand.key, new_n_buckets, new_flags, i)
  BY <1>1, <1>2, <1>3, NewBucketChoice
<1>5. Capacity = new_n_buckets /\ new_n_buckets \in Nat /\ n_buckets \in Nat
  BY <1>1, CapacityIs DEF IInv, TypeOK
<1>6. i \in DOMAIN keys /\ i \in DOMAIN vals
  BY <1>4, <1>5 DEF IInv, Sized, TypeOK
<1>7. i \notin New /\ New' = New \cup {i}
  <2>1. new_flags \in [0..(new_n_buckets - 1) -> {"empty", "full"}]
    BY DEF IInv, TypeOK
  <2> QED BY <1>2, <1>4, <2>1 DEF New
<1>8. flags \in [0..(n_buckets - 1) -> {"empty", "full", "del"}]
  BY DEF IInv, TypeOK
<1>9. CASE Kicks(i)
  <2>1. i \in Old
    BY <1>4, <1>5, <1>9 DEF Kicks, Old
  <2>2. flags' = [flags EXCEPT ![i] = "del"]
    BY <1>2, <1>9 DEF Marked
  <2>3. Old' = Old \ {i}
    BY <1>2, <1>8, <2>1, <2>2 DEF Old
  <2> QED BY <1>2, <1>4, <1>6, <1>7, <1>9, <2>1, <2>2, <2>3
<1>10. CASE ~Kicks(i)
  <2>1. i \notin Old
    BY <1>5, <1>10 DEF Kicks, Old
  <2>2. Old' = Old
    BY <1>2, <1>10 DEF Old
  <2> QED BY <1>2, <1>4, <1>6, <1>7, <1>10, <2>1, <2>2
<1> QED
  BY <1>9, <1>10

LEMMA PlaceInv ==
  ASSUME IInv, Place
  PROVE  IInv'
<1>0. /\ pc = "place" /\ Rehashing /\ hand \in Pairs
      /\ UNCHANGED <<hash_func, failures, n_buckets, size, n_occupied, upper_bound, arg,
                     new_n_buckets, j>>
  BY DEF Place, Rehashing, IInv, Framed
<1>1. PICK i \in 0..(new_n_buckets - 1) :
           /\ new_flags[i] = "empty" /\ i \in DOMAIN keys /\ i \in DOMAIN vals
           /\ OnPath(hand.key, new_n_buckets, new_flags, i)
           /\ new_flags' = [new_flags EXCEPT ![i] = "full"]
           /\ keys' = [keys EXCEPT ![i] = hand.key]
           /\ vals' = [vals EXCEPT ![i] = hand.val]
           /\ i \notin New /\ New' = New \cup {i}
           /\ \/ /\ i \in Old /\ Old' = Old \ {i} /\ pc' = "place"
                 /\ hand' = [key |-> keys[i], val |-> vals[i]]
                 /\ flags' = [flags EXCEPT ![i] = "del"]
              \/ /\ i \notin Old /\ Old' = Old /\ pc' = "rehash"
                 /\ hand' = NoPair /\ flags' = flags
  BY PlaceEffect
<1>2. Rehashing' /\ Adding' /\ Adding
  BY <1>0, <1>1 DEF Rehashing, Adding
<1>3. Capacity' = Capacity
  BY <1>0, <1>2 DEF Rehashing, Capacity
<1>4. hand.key \in Keys /\ hand.val \in Values
  BY <1>0 DEF Pairs
<1>5. /\ flags' \in [0..(n_buckets - 1) -> {"empty", "full", "del"}]
      /\ \A b \in 0..(n_buckets - 1) : flags[b] # "full" => flags'[b] # "full"
  BY <1>1 DEF IInv, TypeOK
<1>6. /\ new_flags' \in [0..(new_n_buckets - 1) -> {"empty", "full"}]
      /\ \A b \in 0..(new_n_buckets - 1) : new_flags[b] # "empty" => new_flags'[b] # "empty"
  BY <1>1 DEF IInv, TypeOK
<1>7. /\ DOMAIN keys' = DOMAIN keys /\ keys'[i] = hand.key /\ vals'[i] = hand.val
      /\ \A b \in DOMAIN keys : b # i => keys'[b] = keys[b]
      /\ \A b \in DOMAIN vals : b # i => vals'[b] = vals[b]
  BY <1>1
<1>8. Live \subseteq DOMAIN keys /\ Live \subseteq DOMAIN vals
  BY InBounds
<1>a. TypeOK'
  <2>1. PICK m \in {Capacity, RoundUp(Capacity + 1)} : keys \in [0..(m - 1) -> Keys \cup {NULL}]
    BY DEF IInv, TypeOK
  <2>2. keys' \in [0..(m - 1) -> Keys \cup {NULL}]
    BY <1>1, <1>4, <2>1
  <2>3. vals' \in [0..(Capacity - 1) -> Values \cup {NULL}]
    BY <1>1, <1>4 DEF IInv, TypeOK
  <2> QED BY <1>0, <1>1, <1>3, <1>5, <1>6, <2>1, <2>2, <2>3 DEF IInv, TypeOK
<1>b. Framed'
  BY <1>0, <1>1, <1>2 DEF IInv, Framed, Pairs, Distinct, Live
<1>c. Sized'
  BY <1>0, <1>1, <1>2, <1>3, <1>7 DEF IInv, Sized
<1>d. Counted'
  <2>1. IsFiniteSet(Old) /\ Cardinality(Old) \in Nat /\ IsFiniteSet(New) /\ Cardinality(New) \in Nat
    BY FiniteBuckets DEF IInv
  <2>2. i \in Old => Cardinality(Old \ {i}) = Cardinality(Old) - 1
    BY <2>1, FS_RemoveElement
  <2>3. Cardinality(New') = Cardinality(New) + 1
    BY <1>1, <2>1, FS_AddElement
  <2>4. size = Cardinality(Old) + Cardinality(New) + 1
    BY <1>0 DEF IInv, Counted
  <2>5. size' = Cardinality(Old') + Cardinality(New') + (IF pc' = "place" THEN 1 ELSE 0)
    <3>1. CASE i \in Old /\ Old' = Old \ {i} /\ pc' = "place"
      BY <1>0, <2>1, <2>2, <2>3, <2>4, <3>1
    <3>2. CASE Old' = Old /\ pc' = "rehash"
      BY <1>0, <2>1, <2>3, <2>4, <3>2
    <3> QED BY <1>1, <3>1, <3>2
  <2> QED BY <1>2, <2>5 DEF Counted
<1>e. Scanned'
  <2> SUFFICES ASSUME NEW b \in 0..(j - 1) PROVE flags'[b] # "full"
    BY <1>0 DEF Scanned
  <2>1. b \in 0..(n_buckets - 1)
    BY DEF IInv, TypeOK
  <2> QED BY <1>0, <1>5, <2>1 DEF IInv, Scanned
<1>f. Distinct'
  <2>1. /\ \A b \in Live : keys[b] \in Keys /\ vals[b] \in Values /\ keys[b] # hand.key
        /\ \A a, b \in Live : keys[a] = keys[b] => a = b
        /\ Old \cap New = {}
    BY DEF IInv, Distinct
  <2>2. Live' = Live \cup {i} /\ Old' \cap New' = {}
    BY <1>1, <2>1 DEF Live
  <2>3. \A b \in Live' : b = i \/ (b \in Live /\ keys'[b] = keys[b] /\ vals'[b] = vals[b])
    BY <1>7, <1>8, <2>2
  <2>4. \A b \in Live' : keys'[b] \in Keys /\ vals'[b] \in Values
    BY <1>4, <1>7, <2>1, <2>3
  <2>5. \A a, b \in Live' : keys'[a] = keys'[b] => a = b
    BY <1>7, <2>1, <2>3
  <2>6. \A b \in Live' : keys'[b] # hand'.key
    <3>1. CASE i \in Old /\ hand' = [key |-> keys[i], val |-> vals[i]]
      <4>1. hand'.key = keys[i] /\ i \in Live
        BY <3>1 DEF Live
      <4>2. keys'[i] # keys[i]
        BY <1>7, <2>1, <4>1
      <4>3. \A b \in Live : b # i => keys[b] # keys[i]
        BY <2>1, <4>1
      <4>4. ASSUME NEW b \in Live', b # i PROVE keys'[b] # keys[i]
        BY <2>3, <4>3, <4>4
      <4> QED BY <4>1, <4>2, <4>4
    <3>2. CASE hand' = NoPair
      BY <2>4, <3>2, NullAssumption DEF NoPair
    <3> QED BY <1>1, <3>1, <3>2
  <2> QED BY <2>2, <2>4, <2>5, <2>6 DEF Distinct
<1>g. Reachable'
  <2> SUFFICES ASSUME NEW b \in New' PROVE OnPath(keys[b], new_n_buckets, new_flags, b)'
    BY <1>2 DEF Reachable
  <2>1. hash_func \in [Keys -> Nat] /\ new_n_buckets \in Powers
    BY <1>0 DEF IInv, Framed, Sized
  <2>2. keys'[b] \in Keys /\ OnPath(keys'[b], new_n_buckets, new_flags, b)
    <3>1. CASE b = i
      BY <1>1, <1>4, <1>7, <3>1
    <3>2. CASE b # i
      <4>1. b \in New /\ b \in Live
        BY <1>1, <3>2 DEF Live
      <4>2. keys'[b] = keys[b]
        BY <1>7, <1>8, <3>2, <4>1
      <4> QED BY <1>0, <4>1, <4>2 DEF IInv, Reachable, Distinct
    <3> QED BY <3>1, <3>2
  <2>3. PICK k \in Keys, n \in Powers, f \in {new_flags}, g \in {new_flags'} :
           k = keys'[b] /\ n = new_n_buckets
    BY <2>1, <2>2
  <2>4. OnPath(k, n, g, b)'
    BY <1>0, <1>6, <2>1, <2>2, <2>3, StaysOnPath
  <2> QED BY <1>0, <2>3, <2>4
<1> QED
  BY <1>a, <1>b, <1>c, <1>d, <1>e, <1>f, <1>g DEF IInv

LEMMA FinishInv ==
  ASSUME IInv, Finish
  PROVE  IInv'
<1>0. /\ pc = "rehash" /\ Rehashing /\ ~Rehashing' /\ Adding /\ Adding' /\ pc' = "put"
      /\ j = n_buckets /\ n_buckets' = new_n_buckets /\ flags' = new_flags
      /\ n_occupied' = size /\ upper_bound' = Upper(new_n_buckets)
      /\ new_n_buckets' = 0 /\ new_flags' = Empty /\ j' = 0
      /\ UNCHANGED <<hash_func, failures, size, keys, vals, arg, hand>>
  BY DEF Finish, OccupiedAfter, Rehashing, Adding
<1>1. PICK n \in Powers : n = new_n_buckets /\ size < Upper(n)
  BY <1>0 DEF IInv, Sized
<1>2. n \in Nat /\ n # 0 /\ Upper(n) \in Nat /\ size \in Nat
  <2>1. n \in Nat /\ n # 0
    BY DEF Powers
  <2>2. Upper(n) \in Nat
    BY Loads
  <2> QED BY <2>1, <2>2 DEF IInv, TypeOK
<1>3. Capacity = n /\ Capacity' = n
  BY <1>0, <1>1, CapacityIs DEF IInv, Capacity
<1>4. new_flags \in [0..(n - 1) -> {"empty", "full"}]
  BY <1>1 DEF IInv, TypeOK
<1>5. Old = {}
  BY <1>0 DEF IInv, TypeOK, Scanned, Old
<1>6. Old' = New /\ New' = {}
  BY <1>0, <1>1, <1>4 DEF Old, New, Empty
<1>7. hand = NoPair
  BY <1>0 DEF IInv, Framed
<1>8. size = Cardinality(New) /\ Cardinality(Old) = 0
  <2>1. Cardinality(Old) = 0 /\ Cardinality(New) \in Nat
    BY <1>5, FS_EmptySet, FiniteBuckets DEF IInv
  <2> QED BY <1>0, <2>1 DEF IInv, Counted
<1>a. TypeOK'
  BY <1>0, <1>1, <1>2, <1>3, <1>4 DEF IInv, TypeOK, Empty
<1>b. Framed'
  BY <1>0 DEF IInv, Framed
<1>c. Sized'
  BY <1>0, <1>1, <1>2, <1>3 DEF IInv, Sized
<1>d. Counted'
  <2> DEFINE Used == {i \in 0..(n_buckets - 1) : flags[i] # "empty"}
  <2>1. Used' = New
    BY <1>0, <1>1, <1>4 DEF New
  <2>2. Cardinality(New') = 0
    BY <1>6, FS_EmptySet
  <2>3. size' = Cardinality(Old') + Cardinality(New')
    BY <1>0, <1>2, <1>6, <1>8, <2>2
  <2>4. n_occupied' = Cardinality(Used')
    BY <1>0, <1>8, <2>1
  <2> QED BY <1>0, <2>3, <2>4 DEF Counted
<1>e. Scanned'
  BY <1>0 DEF Scanned
<1>f. Distinct'
  <2>1. Live' = New /\ New \subseteq Live
    BY <1>6 DEF Live
  <2> QED BY <1>0, <1>6, <2>1 DEF IInv, Distinct
<1>g. Reachable'
  <2> SUFFICES ASSUME NEW i \in New PROVE OnPath(keys[i], n_buckets, flags, i)'
    BY <1>0, <1>6 DEF Reachable
  <2>1. keys[i] \in Keys /\ OnPath(keys[i], n, new_flags, i) /\ hash_func \in [Keys -> Nat]
    BY <1>0, <1>1 DEF IInv, Reachable, Distinct, Live, Framed
  <2>2. PICK k \in Keys, f \in {new_flags} : k = keys[i]
    BY <2>1
  <2>3. OnPath(k, n, f, i)'
    BY <1>0, <2>1, <2>2, StaysOnPath
  <2> QED BY <1>0, <1>1, <2>2, <2>3
<1> QED
  BY <1>a, <1>b, <1>c, <1>d, <1>e, <1>f, <1>g DEF IInv

\* What the rest of kh_put does: it overwrites the value of the key, or takes a
\* free bucket on the path of the key.
LEMMA PutEffect ==
  ASSUME IInv, PutSlot
  PROVE  \E x \in 0..(n_buckets - 1) :
           /\ x \in DOMAIN keys /\ x \in DOMAIN vals
           /\ vals' = [vals EXCEPT ![x] = arg.val]
           /\ flags' = [flags EXCEPT ![x] = "full"]
           /\ \/ /\ x \in Old /\ keys[x] = arg.key
                 /\ keys' = keys /\ size' = size /\ n_occupied' = n_occupied /\ Old' = Old
              \/ /\ x \notin Old /\ \A i \in Old : keys[i] # arg.key
                 /\ OnPath(arg.key, n_buckets, flags, x)
                 /\ keys' = [keys EXCEPT ![x] = arg.key]
                 /\ size' = size + 1 /\ Old' = Old \cup {x}
                 /\ n_occupied' = IF flags[x] = "empty" THEN n_occupied + 1 ELSE n_occupied
<1>0. pc = "put" /\ ~Rehashing /\ Adding /\ arg \in Pairs /\ n_buckets' = n_buckets
  BY DEF PutSlot, Rehashing, Adding, IInv, Framed
<1>1. n_buckets # 0
  <2>1. n_occupied < upper_bound /\ n_occupied \in Nat
    BY <1>0 DEF IInv, Sized, TypeOK
  <2> QED BY <2>1 DEF IInv, Sized
<1>2. Searchable
  BY <1>0, <1>1, CanSearch DEF IInv
<1>3. PICK k \in Keys : k = arg.key
  BY <1>0 DEF Pairs
<1>4. PICK x \in 0..(n_buckets - 1) : x = PutBucket(k)
  BY <1>2, PutChoice
<1>5. /\ keys' = IF flags[x] = "full" THEN keys ELSE [keys EXCEPT ![x] = arg.key]
      /\ vals' = [vals EXCEPT ![x] = arg.val]
      /\ flags' = [flags EXCEPT ![x] = "full"]
      /\ size' = IF flags[x] = "full" THEN size ELSE size + 1
      /\ n_occupied' = IF flags[x] = "empty" THEN n_occupied + 1 ELSE n_occupied
  BY <1>3, <1>4 DEF PutSlot
<1>6. \/ Holds(k, x)
      \/ (\A i \in 0..(n_buckets - 1) : ~Holds(k, i)) /\ flags[x] # "full" /\ OnPath(k, n_buckets, flags, x)
  BY <1>2, <1>4, PutChoice
<1>7. x \in DOMAIN keys /\ x \in DOMAIN vals
  <2>1. Capacity = n_buckets
    BY <1>0, CapacityIs DEF IInv
  <2> QED BY <2>1 DEF IInv, Sized, TypeOK
<1>8. flags \in [0..(n_buckets - 1) -> {"empty", "full", "del"}]
  BY DEF IInv, TypeOK
<1>9. CASE Holds(k, x)
  <2>1. x \in Old /\ keys[x] = arg.key /\ flags[x] = "full"
    BY <1>3, <1>9 DEF Holds, Old
  <2>2. Old' = Old
    BY <1>0, <1>5, <1>8, <2>1 DEF Old
  <2> QED BY <1>5, <1>7, <2>1, <2>2
<1>10. CASE (\A i \in 0..(n_buckets - 1) : ~Holds(k, i)) /\ flags[x] # "full" /\ OnPath(k, n_buckets, flags, x)
  <2>1. x \notin Old /\ \A i \in Old : keys[i] # arg.key
    BY <1>3, <1>10 DEF Holds, Old
  <2>2. Old' = Old \cup {x}
    BY <1>0, <1>5, <1>8 DEF Old
  <2> QED BY <1>3, <1>5, <1>7, <1>10, <2>1, <2>2
<1> QED
  BY <1>6, <1>9, <1>10

LEMMA PutInv ==
  ASSUME IInv, PutSlot
  PROVE  IInv'
<1>0. /\ pc = "put" /\ ~Rehashing /\ ~Rehashing' /\ Adding /\ ~Adding' /\ pc' = "idle" /\ arg' = NoPair
      /\ UNCHANGED <<hash_func, failures, n_buckets, upper_bound, new_n_buckets, new_flags, j, hand>>
  BY DEF PutSlot, Rehashing, Adding
<1>1. PICK x \in 0..(n_buckets - 1) :
           /\ x \in DOMAIN keys /\ x \in DOMAIN vals
           /\ vals' = [vals EXCEPT ![x] = arg.val]
           /\ flags' = [flags EXCEPT ![x] = "full"]
           /\ \/ /\ x \in Old /\ keys[x] = arg.key
                 /\ keys' = keys /\ size' = size /\ n_occupied' = n_occupied /\ Old' = Old
              \/ /\ x \notin Old /\ \A i \in Old : keys[i] # arg.key
                 /\ OnPath(arg.key, n_buckets, flags, x)
                 /\ keys' = [keys EXCEPT ![x] = arg.key]
                 /\ size' = size + 1 /\ Old' = Old \cup {x}
                 /\ n_occupied' = IF flags[x] = "empty" THEN n_occupied + 1 ELSE n_occupied
  BY PutEffect
<1>2. arg.key \in Keys /\ arg.val \in Values
  BY <1>0 DEF IInv, Framed, Pairs
<1>3. Capacity = n_buckets /\ Capacity' = n_buckets
  BY <1>0, CapacityIs DEF IInv, Rehashing, Capacity
<1>4. /\ flags' \in [0..(n_buckets - 1) -> {"empty", "full", "del"}]
      /\ \A b \in 0..(n_buckets - 1) : flags[b] # "empty" => flags'[b] # "empty"
  BY <1>1 DEF IInv, TypeOK
<1>5. New' = New /\ New = {} /\ hand = NoPair
  BY <1>0, Room DEF New, IInv, Framed
<1>6. n_occupied \in Nat /\ size \in Nat /\ upper_bound \in Nat /\ n_occupied < upper_bound
  BY <1>0 DEF IInv, TypeOK, Sized
<1>7. Old \subseteq DOMAIN keys /\ Old \subseteq DOMAIN vals
  BY <1>3 DEF IInv, Sized, TypeOK, Old
<1>a. TypeOK'
  <2>1. PICK m \in {Capacity, RoundUp(Capacity + 1)} : keys \in [0..(m - 1) -> Keys \cup {NULL}]
    BY DEF IInv, TypeOK
  <2>2. keys' \in [0..(m - 1) -> Keys \cup {NULL}]
    BY <1>1, <1>2, <2>1
  <2>3. vals' \in [0..(Capacity - 1) -> Values \cup {NULL}]
    BY <1>1, <1>2 DEF IInv, TypeOK
  <2>4. size' \in Nat /\ n_occupied' \in Nat
    BY <1>1, <1>6
  <2> QED BY <1>0, <1>3, <1>4, <2>1, <2>2, <2>3, <2>4 DEF IInv, TypeOK, Rehashing
<1>b. Framed'
  BY <1>0, <1>5 DEF IInv, Framed
<1>c. Sized'
  <2>1. n_occupied' <= upper_bound
    BY <1>1, <1>6
  <2>2. DOMAIN keys' = DOMAIN keys
    BY <1>1
  <2> QED BY <1>0, <1>3, <2>1, <2>2 DEF IInv, Sized
<1>d. Counted'
  <2> DEFINE Used == {i \in 0..(n_buckets - 1) : flags[i] # "empty"}
  <2>1. IsFiniteSet(Old) /\ IsFiniteSet(Used) /\ size = Cardinality(Old) /\ n_occupied = Cardinality(Used)
    BY <1>0, FiniteBuckets, Room DEF IInv, Counted
  <2>2. Used' = Used \cup {x} /\ (x \in Used <=> flags[x] # "empty")
    BY <1>0, <1>1, <1>4
  <2>3. x \in Old => x \in Used
    BY DEF Old
  <2>4. n_occupied' = Cardinality(Used')
    <3> HIDE DEF Used
    <3>1. Cardinality(Used \cup {x}) = IF x \in Used THEN Cardinality(Used) ELSE Cardinality(Used) + 1
      BY <2>1, FS_AddElement
    <3> QED BY <1>1, <2>1, <2>2, <2>3, <3>1
  <2>5. size' = Cardinality(Old')
    <3>1. x \notin Old => Cardinality(Old \cup {x}) = Cardinality(Old) + 1
      BY <2>1, FS_AddElement
    <3> QED BY <1>1, <2>1, <3>1
  <2>6. Cardinality(New') = 0
    BY <1>5, FS_EmptySet
  <2>7. size' = Cardinality(Old') + Cardinality(New')
    <3>1. size' \in Nat
      BY <1>1, <1>6
    <3> QED BY <2>5, <2>6, <3>1
  <2> QED BY <1>0, <2>4, <2>7 DEF Counted
<1>e. Scanned'
  BY <1>0 DEF Scanned
<1>f. Distinct'
  <2>1. /\ \A b \in Old : keys[b] \in Keys /\ vals[b] \in Values
        /\ \A a, b \in Old : keys[a] = keys[b] => a = b
    BY DEF IInv, Distinct, Live
  <2>2. Live' = Old' /\ Old' \cap New' = {}
    BY <1>5 DEF Live
  <2>3. \A b \in Old' :
          \/ b = x /\ keys'[b] = arg.key /\ vals'[b] = arg.val
          \/ b # x /\ b \in Old /\ keys'[b] = keys[b] /\ vals'[b] = vals[b]
    BY <1>1, <1>7
  <2>4. \A b \in Old' : keys'[b] \in Keys /\ vals'[b] \in Values
    BY <1>2, <2>1, <2>3
  <2>5. \A b \in Old : b # x => keys[b] # arg.key
    BY <1>1, <2>1
  <2>6. \A a, b \in Old' : keys'[a] = keys'[b] => a = b
    BY <2>1, <2>3, <2>5
  <2>7. \A b \in Old' : keys'[b] # hand'.key
    BY <1>0, <1>5, <2>4, NullAssumption DEF NoPair
  <2> QED BY <2>2, <2>4, <2>6, <2>7 DEF Distinct
<1>g. Reachable'
  <2> SUFFICES ASSUME NEW b \in Old' PROVE OnPath(keys[b], n_buckets, flags, b)'
    BY <1>0 DEF Reachable
  <2>1. hash_func \in [Keys -> Nat] /\ n_buckets \in Powers
    BY <1>1 DEF IInv, Framed, Sized
  <2>2. keys'[b] \in Keys /\ OnPath(keys'[b], n_buckets, flags, b)
    <3>1. CASE b \in Old /\ keys'[b] = keys[b]
      BY <1>0, <3>1 DEF IInv, Reachable, Distinct, Live
    <3>2. CASE b = x /\ keys'[b] = arg.key /\ OnPath(arg.key, n_buckets, flags, x)
      BY <1>2, <3>2
    <3> QED BY <1>1, <1>7, <3>1, <3>2
  <2>3. PICK k \in Keys, n \in Powers, f \in {flags}, g \in {flags'} : k = keys'[b] /\ n = n_buckets
    BY <2>1, <2>2
  <2>4. OnPath(k, n, g, b)'
    BY <1>0, <1>4, <2>1, <2>2, <2>3, StaysOnPath
  <2> QED BY <1>0, <2>3, <2>4
<1> QED
  BY <1>a, <1>b, <1>c, <1>d, <1>e, <1>f, <1>g DEF IInv

LEMMA FreeInv ==
  ASSUME IInv, Hash_Free
  PROVE  IInv'
<1>0. /\ pc = "idle" /\ pc' = "freed" /\ ~Rehashing /\ ~Rehashing' /\ ~Adding /\ ~Adding'
      /\ n_buckets' = 0 /\ size' = 0 /\ n_occupied' = 0 /\ upper_bound' = 0
      /\ flags' = Empty /\ keys' = Empty /\ vals' = Empty
      /\ UNCHANGED <<hash_func, failures, arg, new_n_buckets, new_flags, j, hand>>
  BY DEF Hash_Free, Rehashing, Adding
<1>1. Capacity' = 0
  BY <1>0 DEF Capacity
<1>2. new_n_buckets = 0 /\ j = 0 /\ hand = NoPair
  BY <1>0 DEF IInv, Sized, Framed, Rehashing
<1>3. Old' = {} /\ New' = {}
  <2>1. New = {}
    BY <1>0, Room DEF IInv
  <2> QED BY <1>0, <2>1 DEF Old, New
<1>4. {i \in 0..(n_buckets - 1) : flags[i] # "empty"}' = {}
  BY <1>0
<1>5. Cardinality({}) = 0
  BY FS_EmptySet
<1>a. TypeOK'
  BY <1>0, <1>1, <1>2 DEF IInv, TypeOK, Empty
<1>b. Framed'
  BY <1>0 DEF IInv, Framed
<1>c. Sized'
  BY <1>0, <1>1, <1>2 DEF Sized
<1>d. Counted'
  BY <1>0, <1>3, <1>4, <1>5 DEF Counted
<1>e. Scanned' /\ Distinct' /\ Reachable'
  BY <1>0, <1>3 DEF Scanned, Distinct, Reachable, Live
<1> QED
  BY <1>a, <1>b, <1>c, <1>d, <1>e DEF IInv

LEMMA InitInv == Init => IInv
<1> SUFFICES ASSUME Init PROVE IInv
  OBVIOUS
<1>0. /\ pc = "idle" /\ ~Rehashing /\ ~Adding /\ Capacity = 0
      /\ hash_func \in [Keys -> Nat]
  BY HashFuncsAssumption DEF Init, Rehashing, Adding, Capacity
<1>1. Old = {} /\ New = {}
  BY DEF Init, Old, New, Empty
<1>2. {i \in 0..(n_buckets - 1) : flags[i] # "empty"} = {}
  BY DEF Init
<1>3. Cardinality({}) = 0
  BY FS_EmptySet
<1>a. TypeOK
  BY <1>0 DEF Init, TypeOK, Empty
<1>b. Framed /\ Sized
  BY <1>0 DEF Init, Framed, Sized
<1>c. Counted
  BY <1>0, <1>1, <1>2, <1>3 DEF Init, Counted
<1>d. Scanned /\ Distinct /\ Reachable
  BY <1>0, <1>1 DEF Scanned, Distinct, Reachable, Live
<1> QED
  BY <1>a, <1>b, <1>c, <1>d DEF IInv

LEMMA StutterInv ==
  ASSUME IInv, UNCHANGED vars
  PROVE  IInv'
<1>1. UNCHANGED <<hash_func, failures, n_buckets, size, n_occupied, upper_bound, flags, keys, vals,
                  pc, arg, new_n_buckets, new_flags, j, hand>>
  BY DEF vars, table, locals
<1>2. Capacity' = Capacity /\ Old' = Old /\ New' = New /\ Live' = Live /\ Rehashing' = Rehashing
      /\ Adding' = Adding /\ MustRehash' = MustRehash
  BY <1>1 DEF Capacity, Old, New, Live, Rehashing, Adding, MustRehash, Requested
<1>3. TypeOK' /\ Framed' /\ Sized'
  BY <1>1, <1>2 DEF IInv, TypeOK, Framed, Sized
<1>4. Counted' /\ Scanned' /\ Distinct'
  BY <1>1, <1>2 DEF IInv, Counted, Scanned, Distinct
<1>5. Reachable'
  BY <1>1, <1>2 DEF IInv, Reachable, OnPath, Filled, Bucket
<1> QED
  BY <1>3, <1>4, <1>5 DEF IInv

LEMMA NextInv == IInv /\ [Next]_vars => IInv'
<1> SUFFICES ASSUME IInv, [Next]_vars PROVE IInv'
  OBVIOUS
<1>1. ASSUME NEW key \in Keys, Hash_Delete(key) PROVE IInv'
  BY <1>1, DeleteInv
<1>2. ASSUME NEW key \in Keys, NEW value \in Values, Hash_Add(key, value) PROVE IInv'
  BY <1>2, AddInv
<1>3. CASE Resize
  BY <1>3, ResizeInv
<1>4. CASE ResizeFails
  BY <1>4, ResizeFailsInv
<1>5. CASE Scan
  BY <1>5, ScanInv
<1>6. CASE Place
  BY <1>6, PlaceInv
<1>7. CASE Finish
  BY <1>7, FinishInv
<1>8. CASE PutSlot
  BY <1>8, PutInv
<1>9. CASE Hash_Free
  BY <1>9, FreeInv
<1>10. CASE Over
  BY <1>10, StutterInv DEF Over
<1>11. CASE UNCHANGED vars
  BY <1>11, StutterInv
<1> QED
  BY <1>1, <1>2, <1>3, <1>4, <1>5, <1>6, <1>7, <1>8, <1>9, <1>10, <1>11 DEF Next, AddStep

-----------------------------------------------------------------------------
(***************************************************************************)
(* The properties of the run.                                              *)
(***************************************************************************)
\* The inductive invariant: the bookkeeping of the table and of the rehash in
\* place (utils.c, khash.h) for any keys, any hash function and any failures.
THEOREM Invariance == Spec => []IInv
<1>1. Init => IInv
  BY InitInv
<1>2. IInv /\ [Next]_vars => IInv'
  BY NextInv
<1> QED
  BY <1>1, <1>2, PTL DEF Spec

\* The arrays have the lengths that the fields of kh_text_t say.
THEOREM TypeCorrect == Spec => []TypeOK
<1>1. IInv => TypeOK
  BY DEF IInv
<1> QED
  BY <1>1, Invariance, PTL

\* size and n_occupied are what the buckets say, and one bucket is always empty.
THEOREM CountersAreExact == Spec => []Accounting
<1>1. ASSUME IInv PROVE Accounting
  <2>1. CASE pc \in {"idle", "resize", "put"}
    <3>1. ~Rehashing
      BY <2>1 DEF Rehashing
    <3>2. n_buckets > 0 => \E i \in 0..(n_buckets - 1) : flags[i] = "empty"
      BY <1>1, <3>1, Room DEF IInv
    <3>3. size = Cardinality(Old)
      BY <1>1, <3>1, Room DEF IInv
    <3>4. n_occupied = Cardinality({i \in 0..(n_buckets - 1) : flags[i] # "empty"}) /\ n_occupied <= upper_bound
      BY <1>1, <3>1 DEF IInv, Counted, Sized
    <3> QED BY <2>1, <3>2, <3>3, <3>4 DEF Accounting
  <2>2. CASE pc \notin {"idle", "resize", "put"}
    BY <1>1, <2>2 DEF IInv, Counted, Accounting
  <2> QED BY <2>1, <2>2
<1>2. IInv => Accounting
  BY <1>1
<1> QED
  BY <1>2, Invariance, PTL

-----------------------------------------------------------------------------
(***************************************************************************)
(* What the table holds.                                                   *)
(***************************************************************************)
Has(key, v) ==
  \/ \E i \in Live : keys[i] = key /\ vals[i] = v
  \/ hand.key = key /\ hand.val = v

\* Stored, which the refinement mapping is made of, is at most one value.
LEMMA StoredIs ==
  ASSUME NEW key
  PROVE  Stored(key) = {v \in Stored(key) : Has(key, v)} /\ \A v : Has(key, v) => v \in Stored(key)
BY DEF Stored, Has, Live

LEMMA MapIs ==
  ASSUME IInv, NEW key \in Keys
  PROVE  /\ \A v : Has(key, v) => v \in Values /\ AbsMap[key] = v
         /\ (\A v : ~Has(key, v)) => AbsMap[key] = NULL
         /\ Stored(key) # {} <=> (\E i \in Live : keys[i] = key) \/ hand.key = key
<1>1. ASSUME NEW v, NEW w, Has(key, v), Has(key, w) PROVE v = w
  BY <1>1 DEF Has, IInv, Distinct
<1>2. ASSUME NEW v, Has(key, v) PROVE v \in Values
  BY <1>2, NullAssumption DEF Has, IInv, Distinct, Framed, Pairs, NoPair
<1>3. AbsMap[key] = IF Stored(key) = {} THEN NULL ELSE CHOOSE v \in Stored(key) : TRUE
  BY DEF AbsMap
<1>4. ASSUME NEW v, Has(key, v) PROVE AbsMap[key] = v
  <2>1. Stored(key) = {v}
    BY <1>1, <1>4, StoredIs
  <2> QED BY <1>3, <2>1
<1>5. (\A v : ~Has(key, v)) => AbsMap[key] = NULL
  <2>1. (\A v : ~Has(key, v)) => Stored(key) = {}
    BY StoredIs
  <2> QED BY <1>3, <2>1
<1>6. Stored(key) # {} <=> (\E i \in Live : keys[i] = key) \/ hand.key = key
  BY DEF Stored, Live
<1> QED
  BY <1>2, <1>4, <1>5, <1>6

\* No element is in two places, and size is the number of keys that are stored.
THEOREM KeysAreUnique == Spec => []NoDuplicateKey
<1>1. ASSUME IInv PROVE NoDuplicateKey
  <2> DEFINE H == {key \in Keys : (\E i \in Live : keys[i] = key) \/ hand.key = key}
  <2>1. size = Cardinality(H)
    BY <1>1, KeysOfElements DEF IInv
  <2>2. {key \in Keys : Stored(key) # {}} = H
    BY <1>1, MapIs
  <2> QED BY <1>1, <2>1, <2>2 DEF NoDuplicateKey, IInv, Distinct
<1>2. IInv => NoDuplicateKey
  BY <1>1
<1> QED
  BY <1>2, Invariance, PTL

\* Hash_Find returns what was stored: past tombstones and collisions, and
\* wherever the last rehash left the key.
THEOREM LookupsAgree == Spec => []LookupAgrees
<1>1. ASSUME IInv, pc = "idle", NEW key \in Keys PROVE Hash_Find(key) = AbsMap[key]
  <2>0. ~Rehashing /\ hand = NoPair
    BY <1>1 DEF Rehashing, IInv, Framed
  <2>1. Live = Old
    BY <1>1, <2>0, Room DEF IInv, Live
  <2>2. \A v : Has(key, v) <=> \E i \in 0..(n_buckets - 1) : Holds(key, i) /\ vals[i] = v
    BY <2>0, <2>1, NullAssumption DEF Has, Holds, Old, NoPair
  <2>3. CASE n_buckets = 0
    <3>1. \A v : ~Has(key, v)
      BY <2>2, <2>3
    <3>2. Hash_Find(key) = NULL
      BY <2>3 DEF Hash_Find, kh_get
    <3> QED BY <1>1, <3>1, <3>2, MapIs
  <2>4. CASE n_buckets # 0
    <3>1. Searchable
      BY <1>1, <2>0, <2>4, CanSearch DEF IInv
    <3>2. CASE \E i \in 0..(n_buckets - 1) : Holds(key, i) /\ Hash_Find(key) = vals[i]
      <4>1. Has(key, Hash_Find(key))
        BY <2>2, <3>2
      <4> QED BY <1>1, <4>1, MapIs
    <3>3. CASE (\A i \in 0..(n_buckets - 1) : ~Holds(key, i)) /\ Hash_Find(key) = NULL
      <4>1. \A v : ~Has(key, v)
        BY <2>2, <3>3
      <4> QED BY <1>1, <3>3, <4>1, MapIs
    <3> QED BY <3>1, <3>2, <3>3, Lookup
  <2> QED BY <2>3, <2>4
<1>2. IInv => LookupAgrees
  BY <1>1 DEF LookupAgrees
<1> QED
  BY <1>2, Invariance, PTL

\* The kick-out loop of kh_resize always finds a free bucket for the element in
\* hand: why its inner loop, which has no other exit, ends.
RehashFindsRoom == pc = "place" => NewBucket(hand.key) # {}

THEOREM RoomForEveryElement == Spec => []RehashFindsRoom
<1>1. ASSUME IInv, pc = "place" PROVE NewBucket(hand.key) # {}
  <2>0. Rehashing /\ hand.key \in Keys /\ hash_func \in [Keys -> Nat]
    BY <1>1 DEF Rehashing, IInv, Framed, Pairs
  <2>1. PICK n \in Powers : n = new_n_buckets /\ size < Upper(n)
    BY <2>0, <1>1 DEF IInv, Sized
  <2>2. n \in Nat /\ Upper(n) \in Nat /\ Upper(n) < n /\ n > 0
    BY PowersAreNat, Loads
  <2>3. PICK k \in Keys : k = hand.key
    BY <2>0
  <2>4. \E i \in 0..(n - 1) : new_flags[i] = "empty"
    <3> SUFFICES ASSUME \A i \in 0..(n - 1) : new_flags[i] # "empty" PROVE FALSE
      OBVIOUS
    <3>1. New = 0..(n - 1)
      BY <1>1, <2>1, FiniteBuckets DEF IInv, TypeOK
    <3>2. Cardinality(0..(n - 1)) = n
      BY <2>2, FS_Interval
    <3>3. Cardinality(Old) \in Nat /\ size \in Nat /\ size = Cardinality(Old) + Cardinality(New) + 1
      BY <1>1, FiniteBuckets DEF IInv, Counted, TypeOK
    <3> QED BY <2>1, <2>2, <3>1, <3>2, <3>3
  <2> QED BY <2>0, <2>1, <2>3, <2>4, NewBucketChoice
<1>2. IInv => RehashFindsRoom
  BY <1>1 DEF RehashFindsRoom
<1> QED
  BY <1>2, Invariance, PTL

-----------------------------------------------------------------------------
(***************************************************************************)
(* The refinement of HashMap: only PutSlot, Hash_Delete and Hash_Free      *)
(* change what the table holds.                                            *)
(***************************************************************************)
Kept == \A key \in Keys : \A v : Has(key, v)' <=> Has(key, v)

LEMMA MapSame ==
  ASSUME NEW key \in Keys, \A v : Has(key, v)' <=> Has(key, v)
  PROVE  AbsMap'[key] = AbsMap[key]
<1> DEFINE S == Stored(key)
           T == Stored(key)'
<1>1. \A v : v \in S <=> Has(key, v)
  BY StoredIs
<1>2. \A v : v \in T <=> Has(key, v)'
  BY DEF Stored, Has, Live
<1>3. S = T
  BY <1>1, <1>2
<1>4. AbsMap[key] = IF S = {} THEN NULL ELSE CHOOSE v \in S : TRUE
  BY DEF AbsMap
<1>5. AbsMap'[key] = IF T = {} THEN NULL ELSE CHOOSE v \in T : TRUE
  BY DEF AbsMap
<1> HIDE DEF S, T
<1> QED
  BY <1>3, <1>4, <1>5

LEMMA MapKept ==
  ASSUME Kept
  PROVE  AbsMap' = AbsMap
<1>1. ASSUME NEW key \in Keys PROVE AbsMap'[key] = AbsMap[key]
  BY MapSame DEF Kept
<1>2. AbsMap = [key \in Keys |-> AbsMap[key]] /\ AbsMap' = [key \in Keys |-> AbsMap'[key]]
  BY DEF AbsMap
<1> QED
  BY <1>1, <1>2

\* MapIs in the next state.
LEMMA MapIsNext ==
  ASSUME IInv', NEW key \in Keys
  PROVE  /\ \A v : Has(key, v)' => AbsMap'[key] = v
         /\ (\A v : ~Has(key, v)') => AbsMap'[key] = NULL
<1> DEFINE T == Stored(key)'
<1>1. ASSUME NEW v, NEW w, Has(key, v)', Has(key, w)' PROVE v = w
  BY <1>1 DEF Has, IInv, Distinct
<1>2. \A v : v \in T <=> Has(key, v)'
  BY DEF Stored, Has, Live
<1>3. AbsMap'[key] = IF T = {} THEN NULL ELSE CHOOSE v \in T : TRUE
  BY DEF AbsMap
<1> HIDE DEF T
<1>4. ASSUME NEW v, Has(key, v)' PROVE AbsMap'[key] = v
  <2>1. T = {v}
    BY <1>1, <1>2, <1>4
  <2> QED BY <1>3, <2>1
<1>5. (\A v : ~Has(key, v)') => AbsMap'[key] = NULL
  BY <1>2, <1>3
<1> QED
  BY <1>4, <1>5

LEMMA CallKeeps ==
  ASSUME IInv, NEW key \in Keys, NEW value \in Values, Hash_Add(key, value)
  PROVE  Kept
<1>1. Live' = Live /\ keys' = keys /\ vals' = vals /\ hand' = hand
  BY DEF Hash_Add, table, Live, Old, New
<1> QED
  BY <1>1 DEF Kept, Has

LEMMA ResizeKeeps ==
  ASSUME IInv, Resize \/ ResizeFails
  PROVE  Kept
<1>0. pc = "resize" /\ ~Rehashing /\ MustRehash
  BY DEF Resize, ResizeFails, Rehashing, IInv, Sized
<1>1. PICK n \in Powers : /\ n = RoundUp(Requested)
                          /\ n = n_buckets \/ (n = RoundUp(n_buckets + 1) /\ n_buckets < n)
  BY <1>0, Growth DEF MustRehash
<1>2. /\ flags' = flags /\ n_buckets' = n_buckets /\ hand' = hand
      /\ keys' \in {keys, Grown(keys, n)} /\ vals' \in {vals, Grown(vals, n)}
      /\ new_flags' = new_flags \/ new_flags' = [i \in 0..(n - 1) |-> "empty"]
  BY <1>1 DEF Resize, ResizeFails, KeysAtFailure
<1>3. \A i \in 0..(n_buckets - 1) : keys'[i] = keys[i] /\ vals'[i] = vals[i]
  BY <1>0, <1>1, <1>2, Allocated DEF IInv
<1>4. New = {} /\ New' = {}
  <2>1. New = {}
    BY <1>0, Room DEF IInv
  <2> QED BY <1>2, <2>1 DEF New
<1>5. Live' = Live /\ Live = Old
  BY <1>2, <1>4 DEF Live, Old
<1>6. \A i \in Live : keys'[i] = keys[i] /\ vals'[i] = vals[i]
  BY <1>3, <1>5 DEF Old
<1> QED
  BY <1>2, <1>5, <1>6 DEF Kept, Has

LEMMA ScanKeeps ==
  ASSUME IInv, Scan
  PROVE  Kept
<1>0. pc = "rehash" /\ hand = NoPair /\ keys' = keys /\ vals' = vals /\ New' = New
      /\ j \in 0..(n_buckets - 1) /\ n_buckets' = n_buckets
  BY DEF Scan, IInv, Framed, New, TypeOK
<1>1. \A key \in Keys : \A v : ~(hand.key = key /\ hand.val = v)
  BY <1>0, NullAssumption DEF NoPair
<1>2. CASE flags[j] = "full"
  <2>1. hand' = [key |-> keys[j], val |-> vals[j]] /\ flags' = [flags EXCEPT ![j] = "del"]
    BY <1>2 DEF Scan
  <2>2. j \in Old /\ Old' = Old \ {j}
    BY <1>0, <1>2, <2>1 DEF Old, IInv, TypeOK
  <2>3. Live' = Live \ {j} /\ j \in Live
    BY <1>0, <2>2 DEF Live, IInv, Distinct
  <2> QED BY <1>0, <1>1, <2>1, <2>3 DEF Kept, Has
<1>3. CASE flags[j] # "full"
  <2>1. hand' = hand /\ Old' = Old
    BY <1>0, <1>3 DEF Scan, Old
  <2> QED BY <1>0, <2>1 DEF Kept, Has, Live
<1> QED
  BY <1>2, <1>3

LEMMA PlaceKeeps ==
  ASSUME IInv, Place
  PROVE  Kept
<1>0. hand \in Pairs /\ pc = "place"
  BY DEF Place, IInv, Framed
<1>1. PICK i : /\ i \in DOMAIN keys /\ i \in DOMAIN vals
               /\ keys' = [keys EXCEPT ![i] = hand.key]
               /\ vals' = [vals EXCEPT ![i] = hand.val]
               /\ i \notin New /\ New' = New \cup {i}
               /\ \/ /\ i \in Old /\ Old' = Old \ {i}
                     /\ hand' = [key |-> keys[i], val |-> vals[i]]
                  \/ i \notin Old /\ Old' = Old /\ hand' = NoPair
  BY PlaceEffect
<1>2. Live' = Live \cup {i}
  BY <1>1 DEF Live
<1>3. \A b \in Live : b # i => keys'[b] = keys[b] /\ vals'[b] = vals[b]
  BY <1>1, InBounds
<1>4. keys'[i] = hand.key /\ vals'[i] = hand.val
  BY <1>1
<1>5. CASE i \in Old /\ hand' = [key |-> keys[i], val |-> vals[i]]
  <2>1. i \in Live
    BY <1>5 DEF Live
  <2> QED BY <1>2, <1>3, <1>4, <1>5, <2>1 DEF Kept, Has
<1>6. CASE i \notin Old /\ hand' = NoPair
  <2>1. i \notin Live
    BY <1>1, <1>6 DEF Live
  <2>2. \A key \in Keys : \A v : ~(hand'.key = key /\ hand'.val = v)
    BY <1>6, NullAssumption DEF NoPair
  <2> QED BY <1>2, <1>3, <1>4, <2>1, <2>2 DEF Kept, Has
<1> QED
  BY <1>1, <1>5, <1>6

LEMMA FinishKeeps ==
  ASSUME IInv, Finish
  PROVE  Kept
<1>1. n_buckets' = new_n_buckets /\ flags' = new_flags /\ new_flags' = Empty
      /\ keys' = keys /\ vals' = vals /\ hand' = hand
  BY DEF Finish
<1>2. Old = {}
  BY DEF Finish, IInv, TypeOK, Scanned, Old, Rehashing
<1>3. Old' = New /\ New' = {}
  BY <1>1, FiniteBuckets DEF IInv, Old, New, Empty
<1>4. Live' = Live
  BY <1>2, <1>3 DEF Live
<1> QED
  BY <1>1, <1>4 DEF Kept, Has

\* The insertion that runs, as HashMap sees it.
LEMMA AddingIs ==
  /\ \A p \in Pairs : p # NoPair /\ (IF p = NoPair THEN NULL ELSE p) = p /\ p # NULL
  /\ (IF NoPair = NoPair THEN NULL ELSE NoPair) = NULL
<1>1. ASSUME NEW p \in Pairs PROVE p # NoPair
  <2>1. p.key # NULL
    BY NullAssumption DEF Pairs
  <2> QED BY <2>1 DEF NoPair
<1> QED
  BY <1>1, NullAssumption DEF Pairs

\* PutSlot stores one value under one key.
LEMMA PutRefines ==
  ASSUME IInv, PutSlot
  PROVE  AbsMap' = [AbsMap EXCEPT ![arg.key] = arg.val]
<1>0. pc = "put" /\ ~Rehashing /\ arg \in Pairs /\ hand = NoPair /\ hand' = NoPair /\ New' = New /\ New = {}
  <2>1. pc = "put" /\ ~Rehashing
    BY DEF PutSlot, Rehashing
  <2>2. arg \in Pairs /\ hand = NoPair /\ hand' = hand /\ new_flags' = new_flags
    BY <2>1 DEF PutSlot, Rehashing, IInv, Framed, Adding
  <2> QED BY <2>1, <2>2, Room DEF IInv, New
<1>1. PICK x : /\ x \in DOMAIN keys /\ x \in DOMAIN vals
               /\ vals' = [vals EXCEPT ![x] = arg.val]
               /\ \/ x \in Old /\ keys[x] = arg.key /\ keys' = keys /\ Old' = Old
                  \/ /\ x \notin Old /\ \A i \in Old : keys[i] # arg.key
                     /\ keys' = [keys EXCEPT ![x] = arg.key] /\ Old' = Old \cup {x}
  BY PutEffect
<1>2. IInv'
  BY PutInv
<1>3. PICK k \in Keys, w \in Values : k = arg.key /\ w = arg.val
  BY <1>0 DEF Pairs
<1>4. \A key \in Keys : \A v :
        /\ Has(key, v) <=> \E i \in Old : keys[i] = key /\ vals[i] = v
        /\ Has(key, v)' <=> \E i \in Old' : keys'[i] = key /\ vals'[i] = v
  BY <1>0, NullAssumption DEF Has, Live, NoPair
<1>5. x \in Old' /\ keys'[x] = k /\ vals'[x] = w
  BY <1>1, <1>3
<1>6. Old \subseteq DOMAIN keys /\ Old \subseteq DOMAIN vals
  BY InBounds DEF Live
<1>7. /\ \A i \in Old' : i = x \/ (i \in Old /\ keys'[i] = keys[i] /\ vals'[i] = vals[i])
      /\ \A i \in Old : i = x \/ (i \in Old' /\ keys'[i] = keys[i] /\ vals'[i] = vals[i])
      /\ x \in Old => keys[x] = k
  BY <1>1, <1>3, <1>6
<1>8. ASSUME NEW key \in Keys, key # k
      PROVE  \A v : Has(key, v)' <=> Has(key, v)
  <2> SUFFICES ASSUME NEW v
               PROVE  (\E i \in Old' : keys'[i] = key /\ vals'[i] = v)
                        <=> (\E i \in Old : keys[i] = key /\ vals[i] = v)
    BY <1>4
  <2> QED BY <1>5, <1>7, <1>8
<1>9. Has(k, w)'
  BY <1>4, <1>5
<1>10. ASSUME NEW key \in Keys
       PROVE  AbsMap'[key] = IF key = k THEN w ELSE AbsMap[key]
  <2>1. AbsMap'[k] = w
    BY <1>2, <1>9, MapIsNext
  <2>2. key # k => AbsMap'[key] = AbsMap[key]
    BY <1>8, MapSame
  <2> QED BY <2>1, <2>2
<1>11. AbsMap = [key \in Keys |-> AbsMap[key]] /\ AbsMap' = [key \in Keys |-> AbsMap'[key]]
  BY DEF AbsMap
<1> QED
  BY <1>3, <1>10, <1>11

\* Hash_Delete forgets one key.
LEMMA DeleteRefines ==
  ASSUME IInv, NEW key \in Keys, Hash_Delete(key)
  PROVE  AbsMap' = [AbsMap EXCEPT ![key] = NULL]
<1>0. pc = "idle" /\ ~Rehashing /\ n_buckets # 0 /\ kh_get(key) # n_buckets /\ hand = NoPair /\ New = {}
  <2>1. pc = "idle" /\ ~Rehashing /\ n_buckets # 0 /\ kh_get(key) # n_buckets
    BY DEF Hash_Delete, CanDelete, kh_get, Rehashing
  <2> QED BY <2>1, Room DEF IInv, Framed
<1>1. Searchable
  BY <1>0, CanSearch DEF IInv
<1>2. PICK d \in 0..(n_buckets - 1) : d = kh_get(key) /\ Holds(key, d)
  BY <1>0, <1>1, Lookup
<1>3. flags' = [flags EXCEPT ![d] = "del"] /\ UNCHANGED <<n_buckets, keys, vals, new_flags, hand>>
  BY <1>2 DEF Hash_Delete, locals
<1>4. d \in Old /\ keys[d] = key /\ Old' = Old \ {d} /\ New' = {}
  BY <1>0, <1>2, <1>3 DEF Old, New, Holds, IInv, TypeOK
<1>5. \A k \in Keys : \A v :
        /\ Has(k, v) <=> \E i \in Old : keys[i] = k /\ vals[i] = v
        /\ Has(k, v)' <=> \E i \in Old \ {d} : keys[i] = k /\ vals[i] = v
  BY <1>0, <1>3, <1>4, NullAssumption DEF Has, Live, NoPair
<1>6. \A v : ~Has(key, v)'
  <2>1. \A i \in Old \ {d} : keys[i] # key
    BY <1>4 DEF IInv, Distinct, Live
  <2> QED BY <1>5, <2>1
<1>7. ASSUME NEW k \in Keys, k # key PROVE \A v : Has(k, v)' <=> Has(k, v)
  BY <1>4, <1>5, <1>7
<1>8. IInv'
  BY DeleteInv
<1>9. ASSUME NEW k \in Keys
      PROVE  AbsMap'[k] = IF k = key THEN NULL ELSE AbsMap[k]
  BY <1>6, <1>7, <1>8, MapIsNext, MapSame
<1>10. AbsMap = [k \in Keys |-> AbsMap[k]] /\ AbsMap' = [k \in Keys |-> AbsMap'[k]]
  BY DEF AbsMap
<1> QED
  BY <1>9, <1>10

\* Hash_Free leaves nothing.
LEMMA FreeRefines ==
  ASSUME IInv, Hash_Free
  PROVE  AbsMap' = [k \in Keys |-> NULL]
<1>1. IInv'
  BY FreeInv
<1>2. Live' = {} /\ hand' = NoPair
  <2>1. ~Rehashing /\ pc = "idle"
    BY DEF Hash_Free, Rehashing
  <2>2. New = {} /\ hand = NoPair
    BY <2>1, Room DEF IInv, Framed
  <2> QED BY <2>2 DEF Hash_Free, Live, Old, New
<1>3. ASSUME NEW key \in Keys PROVE AbsMap'[key] = NULL
  <2>1. \A v : ~Has(key, v)'
    BY <1>2, NullAssumption DEF Has, NoPair
  <2> QED BY <1>1, <2>1, MapIsNext
<1>4. AbsMap' = [k \in Keys |-> AbsMap'[k]]
  BY DEF AbsMap
<1> QED
  BY <1>3, <1>4

LEMMA InitRefines == Init => HM!Init
<1> SUFFICES ASSUME Init PROVE HM!Init
  OBVIOUS
<1>1. \A key \in Keys : Stored(key) = {}
  BY NullAssumption DEF Init, Stored, Old, New, Empty, NoPair
<1>2. AbsMap = [k \in Keys |-> NULL]
  BY <1>1 DEF AbsMap
<1> QED
  BY <1>2 DEF HM!Init, Init

LEMMA NextRefines == IInv /\ [Next]_vars => [HM!Next]_(HM!vars)
<1> SUFFICES ASSUME IInv, [Next]_vars PROVE HM!Next \/ UNCHANGED HM!vars
  OBVIOUS
<1>a. /\ Adding => arg \in Pairs /\ arg # NoPair /\ arg # NULL
      /\ ~Adding => arg = NoPair
  BY AddingIs DEF IInv, Framed
<1>1. ASSUME NEW key \in Keys, Hash_Delete(key) PROVE HM!Hash_Delete(key)
  <2>1. ~Adding /\ arg' = arg /\ failures' = failures
    BY <1>1 DEF Hash_Delete, Adding, locals
  <2> QED BY <1>1, <1>a, <2>1, DeleteRefines DEF HM!Hash_Delete
<1>2. ASSUME NEW key \in Keys, NEW value \in Values, Hash_Add(key, value) PROVE HM!Call(key, value)
  <2>1. ~Adding /\ arg' = [key |-> key, val |-> value] /\ failures' = failures
    BY <1>2 DEF Hash_Add, Adding
  <2>2. arg' \in Pairs
    BY <2>1 DEF Pairs
  <2>3. AbsMap' = AbsMap
    BY <1>2, CallKeeps, MapKept
  <2> QED BY <1>a, <2>1, <2>2, <2>3, AddingIs DEF HM!Call
<1>3. CASE Resize \/ Scan \/ Place \/ Finish
  <2>1. AbsMap' = AbsMap
    BY <1>3, ResizeKeeps, ScanKeeps, PlaceKeeps, FinishKeeps, MapKept
  <2>2. arg' = arg /\ failures' = failures
    BY <1>3 DEF Resize, Scan, Place, Finish
  <2> QED BY <2>1, <2>2 DEF HM!vars
<1>4. ASSUME ResizeFails PROVE HM!Fail
  <2>1. Adding /\ arg' = NoPair /\ failures' = failures + 1
    BY <1>4 DEF ResizeFails, Adding
  <2>2. AbsMap' = AbsMap
    BY <1>4, ResizeKeeps, MapKept
  <2> QED BY <1>a, <2>1, <2>2 DEF HM!Fail
<1>5. ASSUME PutSlot PROVE HM!Hash_Add
  <2>1. Adding /\ arg' = NoPair /\ failures' = failures
    BY <1>5 DEF PutSlot, Adding
  <2> QED BY <1>5, <1>a, <2>1, PutRefines DEF HM!Hash_Add
<1>6. ASSUME Hash_Free PROVE HM!Hash_Free
  <2>1. ~Adding /\ arg' = arg /\ failures' = failures
    BY <1>6 DEF Hash_Free, Adding
  <2> QED BY <1>6, <1>a, <2>1, FreeRefines DEF HM!Hash_Free
<1>7. CASE Over \/ UNCHANGED vars
  <2>1. UNCHANGED <<flags, n_buckets, new_flags, keys, vals, hand, arg, failures>>
    BY <1>7 DEF Over, vars, table, locals
  <2>2. Kept
    BY <2>1 DEF Kept, Has, Live, Old, New
  <2> QED BY <2>1, <2>2, MapKept DEF HM!vars
<1> QED
  BY <1>1, <1>2, <1>3, <1>4, <1>5, <1>6, <1>7 DEF Next, AddStep, HM!Next

\* The table of khash.h, used as utils.c uses it, is a map: an insertion changes
\* one key at its last step, the rehash before it nothing at any step.
THEOREM Refinement == Spec => ImplementsHashMap
<1>1. Init => HM!Init
  BY InitRefines
<1>2. IInv /\ [Next]_vars => [HM!Next]_(HM!vars)
  BY NextRefines
<1> QED
  BY <1>1, <1>2, Invariance, PTL DEF Spec, ImplementsHashMap, HM!Spec
=============================================================================
