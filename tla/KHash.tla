------------------------------- MODULE KHash -------------------------------
(***************************************************************************)
(* The open-addressing hash table of src/src/khash.h as src/src/utils.c    *)
(* uses it: triangular probing over a power-of-two number of buckets,      *)
(* tombstones, and a rehash in place that kicks elements out of their old  *)
(* buckets.                                                                *)
(*                                                                         *)
(* The table is used under prmutex, so only one operation runs at a time.  *)
(* Lookups and deletions are single steps; an insertion takes one step per *)
(* turn of the rehashing loops.  Any of the three allocations of kh_resize  *)
(* may fail.                                                               *)
(***************************************************************************)
EXTENDS Integers, FiniteSets, FiniteSetsExt

CONSTANTS
  Keys,        \* strings
  Values,      \* pointers
  NULL,        \* the null pointer
  HashFuncs,   \* the hash functions to consider, each from Keys to Nat
  MaxFailures  \* bound: failed allocations in a behaviour

ASSUME HashFuncsAssumption == HashFuncs \subseteq [Keys -> Nat]
ASSUME NullAssumption ==
  NULL \notin Keys /\ NULL \notin Values /\ NULL \notin [key : Keys, val : Values]
\* Fewer than 2^29 keys, so that a table never needs 2^31 buckets: kroundup32
\* would go on to 2^32, which a khint_t does not hold.
ASSUME KeysAssumption == IsFiniteSet(Keys) /\ Cardinality(Keys) < 536870912
ASSUME FailuresAssumption == MaxFailures \in Nat

VARIABLES
  hash_func,      \* the hash function, fixed by Init
  n_buckets, size, n_occupied, upper_bound,
  flags,          \* flags[i] : "empty", "full" or "del"
  keys, vals,     \* the buckets
  failures,       \* allocations that have failed
  pc,             \* where Hash_Add is; "dead": the program; "freed": the table
  arg,            \* the key and the value Hash_Add was called with
  new_n_buckets, new_flags, j,   \* locals of kh_resize
  hand            \* key and val of the kick-out loop

table == <<n_buckets, size, n_occupied, upper_bound, flags, keys, vals>>
locals == <<pc, arg, new_n_buckets, new_flags, j, hand>>
vars == <<hash_func, failures, table, locals>>

Empty == [i \in {} |-> NULL]
NoPair == [key |-> NULL, val |-> NULL]

\* (khint_t)(n * __ac_HASH_UPPER + 0.5)
Upper(n) == (77 * n + 50) \div 100

\* The sizes of a table: 2^2 to 2^30.  One of 2^31 is out of scope.
Powers ==
  {4, 8, 16, 32, 64, 128, 256, 512, 1024, 2048, 4096, 8192, 16384, 32768, 65536,
   131072, 262144, 524288, 1048576, 2097152, 4194304, 8388608, 16777216, 33554432,
   67108864, 134217728, 268435456, 536870912, 1073741824}

\* kroundup32, and at least 4 buckets.
RoundUp(n) == CHOOSE p \in Powers : p >= n /\ (p = 4 \/ p \div 2 < n)

\* The bucket that step s of a probe for `key` looks at: k + 1 + 2 + ... + s.
Bucket(key, n, s) == (hash_func[key] + (s * (s + 1)) \div 2) % n

\* Variant of StopStep: a tombstone ends the probe as an empty bucket does.
StopAtTombstone(key) ==
  Min({s \in 0..(2 * n_buckets - 1) :
         LET i == Bucket(key, n_buckets, s)
         IN \/ flags[i] # "full"
            \/ keys[i] = key
            \/ s > 0 /\ i = Bucket(key, n_buckets, 0)})

\* The probe of kh_get and kh_put: the step at which it stops, at an empty
\* bucket, at the key, or back where it began.
StopStep(key) ==
  Min({s \in 0..(2 * n_buckets - 1) :
         LET i == Bucket(key, n_buckets, s)
         IN \/ flags[i] = "empty"
            \/ flags[i] = "full" /\ keys[i] = key
            \/ s > 0 /\ i = Bucket(key, n_buckets, 0)})

\* kh_get: the bucket of the key, or n_buckets.
kh_get(key) ==
  IF n_buckets = 0 THEN 0
  ELSE LET i == Bucket(key, n_buckets, StopStep(key))
       IN IF flags[i] = "full" /\ keys[i] = key THEN i ELSE n_buckets

\* The bucket kh_put chooses: the last tombstone passed when the probe ends at
\* an empty bucket or comes full circle, else the bucket it ends at.
PutBucket(key) ==
  LET last == StopStep(key)
      i == Bucket(key, n_buckets, last)
      dels == {s \in 0..(last - 1) : flags[Bucket(key, n_buckets, s)] = "del"}
      present == flags[i] = "full" /\ keys[i] = key
  IN IF present \/ dels = {} THEN i ELSE Bucket(key, n_buckets, Max(dels))

\* A lookup changes nothing.
Hash_Find(key) == IF kh_get(key) # n_buckets THEN vals[kh_get(key)] ELSE NULL

-----------------------------------------------------------------------------

Init ==
  /\ hash_func \in HashFuncs
  /\ n_buckets = 0 /\ size = 0 /\ n_occupied = 0 /\ upper_bound = 0
  /\ flags = Empty /\ keys = Empty /\ vals = Empty
  /\ failures = 0
  /\ pc = "idle"
  /\ arg = NoPair
  /\ new_n_buckets = 0 /\ new_flags = Empty /\ j = 0
  /\ hand = NoPair

\* Variant of CanDelete: kh_del called for a key that is not there.
CanDeleteAny(x) == n_buckets > 0

CanDelete(x) == x # n_buckets

Hash_Delete(key) ==
  LET x == kh_get(key)
  IN /\ pc = "idle"
     /\ CanDelete(x)
     /\ flags' = [flags EXCEPT ![x] = "del"]
     /\ size' = size - 1
     /\ UNCHANGED <<hash_func, failures, n_buckets, n_occupied, upper_bound, keys,
                    vals, locals>>

\* The size kh_put asks kh_resize for: one that is rounded up to the same when
\* tombstones fill the table, the next one otherwise.  The table never shrinks.
Requested == IF n_buckets > 2 * size THEN n_buckets - 1 ELSE n_buckets + 1

\* The table is too full, and the new size is not too small for its elements.
MustRehash == n_occupied >= upper_bound /\ size < Upper(RoundUp(Requested))

\* kh_put up to the call of kh_resize.
Hash_Add(key, value) ==
  /\ pc = "idle"
  /\ arg' = [key |-> key, val |-> value]
  /\ pc' = IF MustRehash THEN "resize" ELSE "put"
  /\ UNCHANGED <<hash_func, failures, table, new_n_buckets, new_flags, j, hand>>

\* realloc to n elements, when the table grows.
Grown(a, n) ==
  IF n_buckets < n THEN [i \in 0..(n - 1) |-> IF i \in DOMAIN a THEN a[i] ELSE NULL] ELSE a

\* kh_resize up to its loop: an empty array of new flags, and longer arrays.
Resize ==
  LET n == RoundUp(Requested)
  IN /\ pc = "resize"
     /\ pc' = "rehash"
     /\ new_n_buckets' = n
     /\ new_flags' = [i \in 0..(n - 1) |-> "empty"]
     /\ j' = 0
     /\ keys' = Grown(keys, n)
     /\ vals' = Grown(vals, n)
     /\ UNCHANGED <<hash_func, failures, n_buckets, size, n_occupied, upper_bound,
                    flags, arg, hand>>

\* Variant of KeysAtFailure: the keys are moved without h->keys being set.
KeysLost(n) == {Empty}

\* The array of keys may have grown before the array of values cannot.
KeysAtFailure(n) == {keys, Grown(keys, n)}

\* malloc or realloc fails: kh_put gives n_buckets, and Hash_Add writes the value
\* behind the end of vals.  What that does is up to the allocator; with no array
\* at all it is a null pointer.
ResizeFails ==
  /\ pc = "resize"
  /\ failures < MaxFailures
  /\ failures' = failures + 1
  /\ keys' \in KeysAtFailure(RoundUp(Requested))
  /\ pc' \in (IF n_buckets = 0 THEN {"dead"} ELSE {"idle", "dead"})
  /\ arg' = NoPair
  /\ UNCHANGED <<hash_func, n_buckets, size, n_occupied, upper_bound, flags, vals,
                 new_n_buckets, new_flags, j, hand>>

\* One turn of the loop over the old buckets: take a live element in hand.
Scan ==
  /\ pc = "rehash"
  /\ j < n_buckets
  /\ j' = j + 1
  /\ IF flags[j] = "full"
       THEN /\ hand' = [key |-> keys[j], val |-> vals[j]]
            /\ flags' = [flags EXCEPT ![j] = "del"]
            /\ pc' = "place"
       ELSE UNCHANGED <<hand, flags, pc>>
  /\ UNCHANGED <<hash_func, failures, n_buckets, size, n_occupied, upper_bound, keys,
                 vals, arg, new_n_buckets, new_flags>>

\* Variant of NewBucket: `i + step` for `i + (++step)`.
NewBucketStays(key) ==
  {i \in {Bucket(key, new_n_buckets, 0)} : new_flags[i] = "empty"}

\* Where the probe among the new buckets ends: at the first bucket that is
\* still free, and nowhere when there is none.
NewBucket(key) ==
  LET free == {s \in 0..(2 * new_n_buckets - 1) :
                 new_flags[Bucket(key, new_n_buckets, s)] = "empty"}
  IN {Bucket(key, new_n_buckets, s) : s \in {s \in free : \A r \in free : s <= r}}

\* Variant of Kicks: an element in the way is overwritten, not kicked out.
KicksNever(i) == FALSE

Kicks(i) == i < n_buckets /\ flags[i] = "full"

\* Variant of Marked: the kicked out element stays marked in its old bucket.
MarkForgotten(i) == flags

Marked(i) == [flags EXCEPT ![i] = "del"]

\* One turn of the kick-out loop: the element in hand takes its bucket, and the
\* element that was waiting there, if any, is the next one in hand.
Place ==
  /\ pc = "place"
  /\ \E i \in NewBucket(hand.key) :
     /\ new_flags' = [new_flags EXCEPT ![i] = "full"]
     /\ keys' = [keys EXCEPT ![i] = hand.key]
     /\ vals' = [vals EXCEPT ![i] = hand.val]
     /\ IF Kicks(i)
          THEN /\ hand' = [key |-> keys[i], val |-> vals[i]]
               /\ flags' = Marked(i)
               /\ pc' = "place"
          ELSE /\ hand' = NoPair
               /\ pc' = "rehash"
               /\ UNCHANGED flags
     /\ UNCHANGED <<hash_func, failures, n_buckets, size, n_occupied, upper_bound, arg,
                    new_n_buckets, j>>

\* Variant of OccupiedAfter: the tombstones dropped by the rehash stay counted.
OccupiedKept == n_occupied

OccupiedAfter == size

\* The end of kh_resize: the tombstones are gone.
Finish ==
  /\ pc = "rehash"
  /\ j = n_buckets
  /\ n_buckets' = new_n_buckets
  /\ flags' = new_flags
  /\ n_occupied' = OccupiedAfter
  /\ upper_bound' = Upper(new_n_buckets)
  /\ new_n_buckets' = 0 /\ new_flags' = Empty /\ j' = 0
  /\ pc' = "put"
  /\ UNCHANGED <<hash_func, failures, size, keys, vals, arg, hand>>

\* The rest of kh_put, and kh_value(h, k) = value.
PutSlot ==
  /\ pc = "put"
  /\ \E x \in {PutBucket(arg.key)} :
     /\ keys' = IF flags[x] = "full" THEN keys ELSE [keys EXCEPT ![x] = arg.key]
     /\ vals' = [vals EXCEPT ![x] = arg.val]
     /\ flags' = [flags EXCEPT ![x] = "full"]
     /\ size' = IF flags[x] = "full" THEN size ELSE size + 1
     /\ n_occupied' = IF flags[x] = "empty" THEN n_occupied + 1 ELSE n_occupied
     /\ pc' = "idle"
     /\ arg' = NoPair
     /\ UNCHANGED <<hash_func, failures, n_buckets, upper_bound, new_n_buckets,
                    new_flags, j, hand>>

\* kh_destroy, at the end of the program.
Hash_Free ==
  /\ pc = "idle"
  /\ pc' = "freed"
  /\ n_buckets' = 0 /\ size' = 0 /\ n_occupied' = 0 /\ upper_bound' = 0
  /\ flags' = Empty /\ keys' = Empty /\ vals' = Empty
  /\ UNCHANGED <<hash_func, failures, arg, new_n_buckets, new_flags, j, hand>>

AddStep == Resize \/ ResizeFails \/ Scan \/ Place \/ Finish \/ PutSlot

\* Nothing is done to a table that is gone.
Over == pc \in {"freed", "dead"} /\ UNCHANGED vars

Next ==
  \/ \E key \in Keys :
       \/ Hash_Delete(key)
       \/ \E value \in Values : Hash_Add(key, value)
  \/ AddStep
  \/ Hash_Free
  \/ Over

Spec == Init /\ [][Next]_vars

\* An insertion that has begun runs on: nothing in it waits for anybody.
FairSpec == Spec /\ WF_vars(AddStep)

-----------------------------------------------------------------------------
(***************************************************************************)
(* Properties.                                                             *)
(***************************************************************************)
Capacity == IF pc \in {"rehash", "place"} THEN Max({n_buckets, new_n_buckets}) ELSE n_buckets

\* The arrays have the lengths that n_buckets and new_n_buckets say, the keys at
\* least that: a failed resize may have made their array longer.
TypeOK ==
  /\ n_buckets \in Nat /\ size \in Nat /\ n_occupied \in Nat /\ upper_bound \in Nat
  /\ flags \in [0..(n_buckets - 1) -> {"empty", "full", "del"}]
  /\ \E n \in {Capacity, RoundUp(Capacity + 1)} : keys \in [0..(n - 1) -> Keys \cup {NULL}]
  /\ vals \in [0..(Capacity - 1) -> Values \cup {NULL}]
  /\ pc \in {"idle", "resize", "rehash", "place", "put", "freed", "dead"}
  /\ new_flags \in [0..(new_n_buckets - 1) -> {"empty", "full"}]
  /\ j \in 0..n_buckets
  /\ pc \in {"rehash", "place"} => new_n_buckets >= n_buckets

Old == {i \in 0..(n_buckets - 1) : flags[i] = "full"}
New == {i \in DOMAIN new_flags : new_flags[i] = "full"}

\* The counters that decide when to grow agree with the buckets, and an empty
\* bucket is always left: without one the probes of kh_get and kh_put would only
\* end by coming full circle, and the one of kh_resize would not end.
Accounting ==
  /\ pc \in {"idle", "resize", "put"} =>
       /\ n_buckets > 0 => \E i \in 0..(n_buckets - 1) : flags[i] = "empty"
       /\ size = Cardinality(Old)
       /\ n_occupied = Cardinality({i \in 0..(n_buckets - 1) : flags[i] # "empty"})
       /\ n_occupied <= upper_bound
  /\ pc \in {"rehash", "place"} =>
       size = Cardinality(Old) + Cardinality(New) + (IF pc = "place" THEN 1 ELSE 0)

\* What the table holds for a key, also while it is being rehashed: in an old
\* bucket that still waits, in a new bucket or in hand.
Stored(key) ==
  {vals[i] : i \in {i \in Old \cup New : keys[i] = key}}
    \cup (IF hand.key = key THEN {hand.val} ELSE {})

\* No element is in two places: no bucket is both old and new, and no key is
\* stored twice, so that a deleted or an overwritten key cannot come back.
NoDuplicateKey ==
  /\ Old \cap New = {}
  /\ Cardinality({key \in Keys : Stored(key) # {}}) = size

AbsMap ==
  [key \in Keys |-> LET found == Stored(key)
                     IN IF found = {} THEN NULL ELSE CHOOSE v \in found : TRUE]

\* The probe finds what the table holds and nothing else, past tombstones and
\* collisions and wherever the last rehash left the key.
LookupAgrees == pc = "idle" => \A key \in Keys : Hash_Find(key) = AbsMap[key]

HM == INSTANCE HashMap
        WITH map <- AbsMap, adding <- IF arg = NoPair THEN NULL ELSE arg

\* The table is a map: an insertion changes one key at its last step, the rehash
\* before it loses and changes nothing at any step, and an insertion that finds
\* no memory leaves everything as it was.
ImplementsHashMap == HM!Spec

\* Every insertion ends: the rehash visits every bucket and each of its
\* kick-out chains finds a free bucket.
AddCompletes == arg # NoPair ~> arg = NoPair
=============================================================================
