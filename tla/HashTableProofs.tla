-------------------------- MODULE HashTableProofs ---------------------------
(***************************************************************************)
(* The chains of the hash table are right for every set of keys, every     *)
(* hash function and every size.                                           *)
(***************************************************************************)
EXTENDS HashTable, FiniteSetTheorems, TLAPS

(***************************************************************************)
(* A look-up has passed no entry that holds its key: i, if there is one,   *)
(* is in the bucket of the key, and no younger entry has that key.         *)
(***************************************************************************)
LookupSound ==
  pc = "lookup" =>
    /\ i = ERR_VAL => \A e \in Entries : keys[e] # key
    /\ i # ERR_VAL => /\ bucket_for(keys[i]) = bucket_for(key)
                      /\ \A e \in i + 1 .. size - 1 : keys[e] # key

\* At an overflow the look-up has found nothing and the arrays are full.
OverflowSound ==
  pc = "overflow" => size = key_cap /\ \A e \in Entries : keys[e] # key

\* What ht_init has set cannot change.
Stored == Ready => \A e \in Entries : keys[e] \in Key

\* Before ht_init nothing is allocated and nothing was called.
Fresh == pc = "init" => live = {} /\ op = "none"

IInv ==
  TypeOK /\ Fresh /\ AllOrNothing /\ Stored /\ ChainsExact /\ LookupSound /\ OverflowSound

-----------------------------------------------------------------------------
\* A bucket number is one of the table's.
LEMMA BucketInRange ==
  ASSUME bkt_cap \in Nat, bkt_cap > 0, NEW k \in Key
  PROVE  bucket_for(k) \in 0 .. bkt_cap - 1
<1>1. HashOf[k] \in Nat
  BY HashAssumption
<1>2. \A h \in Nat, c \in Nat : c > 0 => h % c \in 0 .. c - 1
  OBVIOUS
<1> QED
  BY <1>1, <1>2 DEF bucket_for

\* The indices of the running table.
LEMMA Sizes ==
  ASSUME TypeOK, Ready
  PROVE  /\ bkt_cap \in Nat /\ bkt_cap > 0 /\ key_cap \in Nat /\ size \in Nat
         /\ size <= key_cap
         /\ \A e \in Entries : e \in 0 .. key_cap - 1
  BY DEF TypeOK, Ready, Entries

LEMMA InitIInv == Init => IInv
<1> SUFFICES ASSUME Init PROVE IInv
  OBVIOUS
<1>1. bkt_cap \in Nat /\ key_cap \in Nat
  BY PowerAssumption DEF Init, factor2x
<1>2. pc = "init" /\ ~ Ready
  BY DEF Init, Ready
<1>3. key \in Key
  BY HashAssumption DEF Init
<1>4. TypeOK
  BY <1>1, <1>2, <1>3 DEF Init, TypeOK
<1>5. Fresh
  BY DEF Init, Fresh
<1> QED
  BY <1>2, <1>4, <1>5 DEF IInv, AllOrNothing, Stored, ChainsExact, LookupSound, OverflowSound, Ready

\* A failed ht_init frees what it allocated, whichever malloc failed.
LEMMA UnwindsAll ==
  ASSUME NEW m \in DOMAIN Block, MallocFails(m)
  PROVE  live' = {}
<1>1. DOMAIN Block = 1 .. 5
  BY DEF Block
<1>2. m \in {1, 2, 3, 4, 5}
  BY <1>1
<1>3. \A j \in {1, 2, 3, 4} :
        Block[j] = IF j = 1 THEN "ht" ELSE IF j = 2 THEN "keys" ELSE IF j = 3 THEN "vals" ELSE "bkts"
  BY DEF Block
<1>4. \A j \in 1 .. m - 1 : j \in {1, 2, 3, 4}
  BY <1>2
<1> QED
  BY <1>2, <1>3, <1>4 DEF MallocFails

LEMMA InitFails ==
  ASSUME IInv, TooBig \/ \E m \in DOMAIN Block : MallocFails(m)
  PROVE  IInv'
<1>1. pc = "init" /\ pc' = "null" /\ UNCHANGED <<caps, table, call, i, answer>>
  BY DEF TooBig, MallocFails
<1>2. live' = {}
  BY UnwindsAll DEF IInv, TooBig, Fresh
<1>3. TypeOK'
  BY <1>1, <1>2 DEF IInv, TypeOK, caps, table, call
<1> QED
  BY <1>1, <1>2, <1>3
     DEF IInv, Fresh, AllOrNothing, Stored, ChainsExact, LookupSound, OverflowSound, Ready

LEMMA InitSucceeds == ASSUME IInv, HtInit PROVE IInv'
<1>1. /\ pc = "init" /\ pc' = "idle" /\ size' = 0 /\ bkt_cap # 0
      /\ live' = {Block[j] : j \in DOMAIN Block}
      /\ UNCHANGED <<caps, call, i, answer>>
  BY DEF HtInit
<1>2. /\ bkt_cap \in Nat /\ key_cap \in Nat /\ bkt_cap > 0
      /\ bkt_cap' = bkt_cap /\ key_cap' = key_cap
  BY <1>1 DEF IInv, TypeOK, caps
<1>3. TypeOK'
  <2>1. /\ keys' \in [0 .. key_cap - 1 -> Key \cup {0}]
        /\ vals' \in [0 .. key_cap - 1 -> Val \cup {Garbage}]
        /\ bkts' \in [0 .. bkt_cap - 1 -> {ERR_VAL} \cup 0 .. key_cap - 1]
    BY DEF HtInit
  <2>2. next' \in [0 .. key_cap - 1 -> {ERR_VAL} \cup 0 .. key_cap - 1]
    BY <1>2 DEF HtInit
  <2> QED
    BY <1>1, <1>2, <2>1, <2>2 DEF IInv, TypeOK, call
<1>4. ChainsExact'
  <2>1. \A b \in 0 .. bkt_cap - 1 : bkts'[b] = ERR_VAL
    BY DEF HtInit
  <2>2. \A f \in 0 .. size' - 1 : FALSE
    BY <1>1
  <2> QED
    BY <1>1, <1>2, <2>1, <2>2 DEF ChainsExact, Youngest, Entries
<1>5. Stored'
  BY <1>1 DEF Stored, Entries
<1> QED
  BY <1>1, <1>3, <1>4, <1>5 DEF IInv, Fresh, AllOrNothing, LookupSound, OverflowSound, Ready

(***************************************************************************)
(* A step that leaves the table alone keeps the chains.                    *)
(***************************************************************************)
LEMMA SameTable ==
  ASSUME IInv, UNCHANGED <<live, caps, keys, bkts, next, size>>, Ready
  PROVE  ChainsExact' /\ Stored' /\ (Ready' => AllOrNothing')
         /\ \A k \in Key : bucket_for(k)' = bucket_for(k)
<1>1. ChainsExact'
  BY DEF IInv, ChainsExact, Ready, Youngest, bucket_for, Entries, caps
<1>2. Stored'
  BY DEF IInv, Stored, Entries
<1>3. Ready' => AllOrNothing'
  BY DEF IInv, AllOrNothing, Ready
<1>4. \A k \in Key : bucket_for(k)' = bucket_for(k)
  BY DEF bucket_for, caps
<1> QED
  BY <1>1, <1>2, <1>3, <1>4

LEMMA CallStep ==
  ASSUME IInv, NEW o \in {"put", "get"}, NEW k \in Key, NEW v \in Val \cup {Garbage},
         o = "put" => v \in Val, Call(o, k, v)
  PROVE  IInv'
<1>1. /\ pc = "idle" /\ pc' = "lookup" /\ op' = o /\ key' = k /\ val' = v
      /\ i' = bkts[bucket_for(k)] /\ UNCHANGED <<live, caps, table, answer>>
  BY DEF Call
<1>2. Ready /\ Ready'
  BY <1>1 DEF Ready
<1>3. bkt_cap \in Nat /\ bkt_cap > 0 /\ size \in Nat
  BY <1>2, Sizes DEF IInv
<1>4. bucket_for(k) \in 0 .. bkt_cap - 1
  BY <1>3, BucketInRange
<1>5. Youngest(i', bucket_for(k), size)
  BY <1>1, <1>2, <1>4 DEF IInv, ChainsExact
<1>6. i' \in {ERR_VAL} \cup 0 .. size - 1
  BY <1>3, <1>5 DEF Youngest
<1>7. TypeOK'
  BY <1>1, <1>2, <1>6 DEF IInv, TypeOK, caps, table
<1>8. ChainsExact' /\ Stored' /\ AllOrNothing' /\ bucket_for(k)' = bucket_for(k)
  BY <1>1, <1>2, SameTable DEF table
<1>9. LookupSound'
  <2>1. ASSUME i' = ERR_VAL
        PROVE  \A e \in 0 .. size - 1 : keys[e] # k
    BY <1>3, <1>5, <2>1 DEF Youngest, ERR_VAL
  <2>2. ASSUME i' # ERR_VAL
        PROVE  bucket_for(keys[i']) = bucket_for(k) /\ \A e \in i' + 1 .. size - 1 : keys[e] # k
    BY <1>3, <1>5, <2>2 DEF Youngest
  <2> QED
    BY <1>1, <2>1, <2>2 DEF LookupSound, table, caps, Entries, bucket_for
<1> QED
  BY <1>1, <1>7, <1>8, <1>9 DEF IInv, Fresh, OverflowSound

\* A range cut at one of its bounds.
LEMMA Below == \A a, c, d, e \in Int : e \in a + 1 .. d - 1 /\ e < c => e \in a + 1 .. c - 1
  OBVIOUS

LEMMA WalkStep == ASSUME IInv, Walk PROVE IInv'
<1>1. /\ pc = "lookup" /\ i # ERR_VAL /\ keys[i] # key /\ i' = next[i]
      /\ UNCHANGED <<pc, live, caps, table, call, answer>>
  BY DEF Walk
<1>2. Ready /\ Ready'
  BY <1>1 DEF Ready
<1>3. bkt_cap \in Nat /\ bkt_cap > 0 /\ size \in Nat /\ i \in 0 .. size - 1
  BY <1>1, <1>2, Sizes DEF IInv, TypeOK
<1> DEFINE b == bucket_for(keys[i])
<1>4. Youngest(next[i], b, i)
  BY <1>2, <1>3 DEF IInv, ChainsExact, Entries
<1>5. b = bucket_for(key) /\ \A e \in i + 1 .. size - 1 : keys[e] # key
  BY <1>1 DEF IInv, LookupSound
<1> HIDE DEF b
<1>6. i' \in {ERR_VAL} \cup 0 .. size - 1
  BY <1>1, <1>3, <1>4 DEF Youngest
<1>7. TypeOK'
  BY <1>1, <1>6 DEF IInv, TypeOK, caps, table, call
<1>8. ChainsExact' /\ Stored' /\ AllOrNothing'
  BY <1>1, <1>2, SameTable DEF table
<1>9. LookupSound'
  <2>1. ASSUME i' = ERR_VAL
        PROVE  \A e \in 0 .. size - 1 : keys[e] # key
    <3> TAKE e \in 0 .. size - 1
    <3>1. CASE e < i
      BY <1>1, <1>3, <1>4, <1>5, <2>1, <3>1 DEF Youngest, ERR_VAL
    <3>2. CASE e = i
      BY <1>1, <3>2
    <3>3. CASE e > i
      BY <1>3, <1>5, <3>3
    <3> QED
      BY <1>3, <3>1, <3>2, <3>3
  <2>2. ASSUME i' # ERR_VAL
        PROVE  bucket_for(keys[i']) = bucket_for(key) /\ \A e \in i' + 1 .. size - 1 : keys[e] # key
    <3>1. PICK j \in 0 .. i - 1 :
             /\ j = i' /\ bucket_for(keys[j]) = b
             /\ \A f \in j + 1 .. i - 1 : bucket_for(keys[f]) # b
      BY <1>1, <1>4, <2>2 DEF Youngest
    <3>2. ASSUME NEW e \in j + 1 .. size - 1
          PROVE  keys[e] # key
      <4>1. CASE e < i
        <5>1. e \in j + 1 .. i - 1
          <6>1. size \in Int /\ i \in Int
            BY <1>3
          <6>2. j \in Int
            BY <1>3, <3>1
          <6>3. e \in j + 1 .. size - 1
            OBVIOUS
          <6>4. e \in Int
            BY <6>1, <6>2
          <6> QED
            BY <4>1, <6>1, <6>2, <6>3, <6>4, Below
        <5> QED
          BY <1>5, <3>1, <5>1
      <4>2. CASE e = i
        BY <1>1, <4>2
      <4>3. CASE e > i
        BY <1>3, <1>5, <3>1, <4>3
      <4> QED
        BY <1>3, <3>1, <4>1, <4>2, <4>3
    <3> QED
      BY <1>5, <3>1, <3>2
  <2> QED
    BY <1>1, <2>1, <2>2 DEF LookupSound, table, caps, call, Entries, bucket_for
<1> QED
  BY <1>1, <1>7, <1>8, <1>9 DEF IInv, Fresh, OverflowSound

LEMMA FoundStep == ASSUME IInv, Found PROVE IInv'
<1>1. /\ pc = "lookup" /\ i # ERR_VAL /\ pc' = "idle"
      /\ UNCHANGED <<live, caps, keys, bkts, next, size, call, i>>
      /\ vals' = IF op = "put" THEN [vals EXCEPT ![i] = val] ELSE vals
  BY DEF Found, Return
<1>2. Ready /\ Ready'
  BY <1>1 DEF Ready
<1>3. vals' \in [0 .. key_cap - 1 -> Val \cup {Garbage}]
  BY <1>1, <1>2 DEF IInv, TypeOK, Ready
<1>4. TypeOK'
  BY <1>1, <1>2, <1>3 DEF IInv, TypeOK, caps, call
<1> QED
  BY <1>1, <1>2, <1>4, SameTable DEF IInv, Fresh, LookupSound, OverflowSound

LEMMA ReturnStep ==
  ASSUME IInv, NotFound \/ \E e \in ERR_VAL .. key_cap + 1 : GetValue(e)
  PROVE  IInv'
<1>1. /\ pc \in {"idle", "lookup"} /\ pc' = "idle" /\ op' \in {"get", "value"}
      /\ UNCHANGED <<live, caps, table, key, val>>
  BY DEF NotFound, GetValue, Return, call
<1>2. Ready /\ Ready'
  BY <1>1 DEF Ready
<1>3. TypeOK'
  BY <1>1, <1>2 DEF IInv, TypeOK, caps, table
<1> QED
  BY <1>1, <1>2, <1>3, SameTable DEF IInv, Fresh, LookupSound, OverflowSound, table

LEMMA OverflowStep == ASSUME IInv, Overflow PROVE IInv'
<1>1. /\ pc = "lookup" /\ i = ERR_VAL /\ pc' = "overflow" /\ size >= key_cap
      /\ UNCHANGED <<live, caps, table, call, i, answer>>
  BY DEF Overflow
<1>2. Ready /\ Ready'
  BY <1>1 DEF Ready
<1>3. TypeOK'
  BY <1>1, <1>2 DEF IInv, TypeOK, caps, table, call
<1>4. OverflowSound'
  BY <1>1, <1>2, Sizes DEF IInv, OverflowSound, LookupSound, table, caps, call, Entries
<1> QED
  BY <1>1, <1>2, <1>3, <1>4, SameTable DEF IInv, Fresh, LookupSound, table

(***************************************************************************)
(* Youngest with the array of keys made explicit, to speak of two states.  *)
(***************************************************************************)
InBucket(ks, c, f, b) == HashOf[ks[f]] % c = b

YoungestIn(ks, c, e, b, m) ==
  \/ e = ERR_VAL /\ \A f \in 0 .. m - 1 : ~ InBucket(ks, c, f, b)
  \/ /\ e \in 0 .. m - 1 /\ InBucket(ks, c, e, b)
     /\ \A f \in e + 1 .. m - 1 : ~ InBucket(ks, c, f, b)

\* Keys that are the same in both arrays have the same youngest entry.
LEMMA YoungestKept ==
  ASSUME NEW ks, NEW ls, NEW c, NEW b, NEW e, NEW m \in Nat,
         \A f \in 0 .. m - 1 : ks[f] = ls[f],
         YoungestIn(ks, c, e, b, m)
  PROVE  YoungestIn(ls, c, e, b, m)
<1>1. CASE e = ERR_VAL
  BY <1>1 DEF YoungestIn, InBucket, ERR_VAL
<1>2. CASE e \in 0 .. m - 1
  <2>1. \A f \in e + 1 .. m - 1 : f \in 0 .. m - 1
    BY <1>2
  <2> QED
    BY <1>2, <2>1 DEF YoungestIn, InBucket, ERR_VAL
<1> QED
  BY <1>1, <1>2 DEF YoungestIn

\* One entry more, of another bucket, changes nothing.
LEMMA YoungestSkips ==
  ASSUME NEW ks, NEW c, NEW b, NEW e, NEW m \in Nat,
         ~ InBucket(ks, c, m, b), YoungestIn(ks, c, e, b, m)
  PROVE  YoungestIn(ks, c, e, b, m + 1)
<1>1. \A f \in 0 .. m + 1 - 1 : f \in 0 .. m - 1 \/ f = m
  OBVIOUS
<1>2. CASE e = ERR_VAL
  BY <1>1, <1>2 DEF YoungestIn, ERR_VAL
<1>3. CASE e \in 0 .. m - 1
  <2>1. \A f \in e + 1 .. m + 1 - 1 : f \in e + 1 .. m - 1 \/ f = m
    BY <1>3
  <2> QED
    BY <1>3, <2>1 DEF YoungestIn, ERR_VAL
<1> QED
  BY <1>2, <1>3 DEF YoungestIn

LEMMA InsertStep == ASSUME IInv, Insert PROVE IInv'
<1> DEFINE s == size
           b == bucket_for(key)
<1>1. /\ pc = "lookup" /\ pc' = "idle" /\ i = ERR_VAL /\ op = "put" /\ s < key_cap
      /\ size' = s + 1
      /\ bkts' = [bkts EXCEPT ![b] = s] /\ next' = [next EXCEPT ![s] = bkts[b]]
      /\ keys' = [keys EXCEPT ![s] = key] /\ vals' = [vals EXCEPT ![s] = val]
      /\ UNCHANGED <<live, caps, call, i>>
  BY DEF Insert, Return
<1>2. Ready /\ Ready'
  BY <1>1 DEF Ready
<1>3. /\ bkt_cap \in Nat /\ bkt_cap > 0 /\ key_cap \in Nat /\ s \in Nat
      /\ s \in 0 .. key_cap - 1 /\ bkt_cap' = bkt_cap /\ key_cap' = key_cap
  BY <1>1, <1>2, Sizes DEF IInv, caps
<1>4. key \in Key /\ val \in Val /\ b \in 0 .. bkt_cap - 1
  BY <1>1, <1>3, BucketInRange DEF IInv, TypeOK
<1>5. /\ keys \in [0 .. key_cap - 1 -> Key \cup {0}]
      /\ vals \in [0 .. key_cap - 1 -> Val \cup {Garbage}]
      /\ next \in [0 .. key_cap - 1 -> {ERR_VAL} \cup 0 .. key_cap - 1]
      /\ bkts \in [0 .. bkt_cap - 1 -> {ERR_VAL} \cup 0 .. key_cap - 1]
  BY <1>2 DEF IInv, TypeOK, Ready
<1>6. TypeOK'
  <2>1. /\ keys' \in [0 .. key_cap - 1 -> Key \cup {0}]
        /\ vals' \in [0 .. key_cap - 1 -> Val \cup {Garbage}]
    BY <1>1, <1>4, <1>5
  <2>2. bkts[b] \in {ERR_VAL} \cup 0 .. key_cap - 1
    BY <1>4, <1>5
  <2>3. next' \in [0 .. key_cap - 1 -> {ERR_VAL} \cup 0 .. key_cap - 1]
    BY <1>1, <1>5, <2>2
  <2>4. bkts' \in [0 .. bkt_cap - 1 -> {ERR_VAL} \cup 0 .. key_cap - 1]
    BY <1>1, <1>3, <1>5
  <2> QED
    BY <1>1, <1>3, <2>1, <2>3, <2>4 DEF IInv, TypeOK, call
<1>7. keys'[s] = key /\ \A f \in 0 .. s - 1 : keys'[f] = keys[f]
  BY <1>1, <1>3, <1>5
<1>8. next'[s] = bkts[b] /\ \A f \in 0 .. s - 1 : next'[f] = next[f]
  BY <1>1, <1>3, <1>5
<1>9. bkts'[b] = s /\ \A c \in 0 .. bkt_cap - 1 : c # b => bkts'[c] = bkts[c]
  BY <1>1, <1>4, <1>5
<1>10. HashOf[key] % bkt_cap = b
  BY DEF bucket_for
<1>11. \A c \in 0 .. bkt_cap - 1 : YoungestIn(keys, bkt_cap, bkts[c], c, s)
  BY <1>2 DEF IInv, ChainsExact, Youngest, YoungestIn, InBucket, bucket_for
<1>12. \A e \in 0 .. s - 1 : YoungestIn(keys, bkt_cap, next[e], HashOf[keys[e]] % bkt_cap, e)
  BY <1>2 DEF IInv, ChainsExact, Youngest, YoungestIn, InBucket, bucket_for, Entries
<1> HIDE DEF b
<1>13. ASSUME NEW c \in 0 .. bkt_cap - 1
       PROVE  YoungestIn(keys', bkt_cap, bkts'[c], c, s + 1)
  <2>1. CASE c = b
    <3>1. s \in 0 .. s + 1 - 1 /\ s + 1 .. s + 1 - 1 = {}
      BY <1>3
    <3> QED
      BY <1>7, <1>9, <1>10, <2>1, <3>1 DEF YoungestIn, InBucket
  <2>2. CASE c # b
    <3>1. YoungestIn(keys', bkt_cap, bkts[c], c, s)
      BY <1>3, <1>7, <1>11, YoungestKept
    <3>2. ~ InBucket(keys', bkt_cap, s, c)
      BY <1>7, <1>10, <2>2 DEF InBucket
    <3> QED
      BY <1>3, <1>9, <2>2, <3>1, <3>2, YoungestSkips
  <2> QED
    BY <2>1, <2>2
<1>14. ASSUME NEW e \in 0 .. s
       PROVE  YoungestIn(keys', bkt_cap, next'[e], HashOf[keys'[e]] % bkt_cap, e)
  <2>1. \A f \in 0 .. e - 1 : keys[f] = keys'[f]
    BY <1>3, <1>7
  <2>2. CASE e = s
    <3>1. YoungestIn(keys, bkt_cap, bkts[b], b, s)
      BY <1>4, <1>11
    <3> QED
      BY <1>3, <1>7, <1>8, <1>10, <2>1, <2>2, <3>1, YoungestKept
  <2>3. CASE e < s
    <3>1. e \in 0 .. s - 1
      BY <1>3, <2>3
    <3> QED
      BY <1>7, <1>8, <1>12, <2>1, <3>1, YoungestKept
  <2> QED
    BY <1>3, <2>2, <2>3
<1>15. ASSUME NEW e \in 0 .. s, NEW f \in 0 .. s, keys'[e] = keys'[f]
       PROVE  e = f
  <2>1. \A g \in 0 .. s - 1 : keys[g] # key
    BY <1>1 DEF IInv, LookupSound, Entries
  <2>2. \A g, h \in 0 .. s - 1 : keys[g] = keys[h] => g = h
    BY <1>2 DEF IInv, ChainsExact, Entries
  <2> QED
    BY <1>3, <1>7, <1>15, <2>1, <2>2
<1>16. ChainsExact'
  <2>1. 0 .. size' - 1 = 0 .. s
    BY <1>1, <1>3
  <2> QED
    BY <1>1, <1>3, <1>13, <1>14, <1>15, <2>1
       DEF ChainsExact, Youngest, YoungestIn, InBucket, bucket_for, Entries
<1>17. Stored'
  <2>1. \A e \in 0 .. s - 1 : keys[e] \in Key
    BY <1>2 DEF IInv, Stored, Entries
  <2>2. \A e \in 0 .. size' - 1 : keys'[e] \in Key
    BY <1>1, <1>3, <1>4, <1>7, <2>1
  <2> QED
    BY <2>2 DEF Stored, Entries
<1> QED
  BY <1>1, <1>2, <1>6, <1>16, <1>17
     DEF IInv, Fresh, AllOrNothing, LookupSound, OverflowSound

-----------------------------------------------------------------------------
LEMMA StepIInv == IInv /\ [Next]_vars => IInv'
<1> SUFFICES ASSUME IInv, [Next]_vars PROVE IInv'
  OBVIOUS
<1>1. CASE \E k \in Key : GetEntry(k) \/ \E v \in Val : Put(k, v)
  BY <1>1, CallStep DEF GetEntry, Put
<1>2. CASE UNCHANGED vars
  BY <1>2 DEF vars, caps, table, call, IInv, TypeOK, Fresh, AllOrNothing, Stored,
     ChainsExact, LookupSound, OverflowSound, Ready, Youngest, bucket_for, Entries
<1> QED
  BY <1>1, <1>2, InitFails, InitSucceeds, WalkStep, FoundStep, ReturnStep, InsertStep,
     OverflowStep DEF Next, Step

LEMMA Invariance == Spec => []IInv
BY InitIInv, StepIInv, PTL DEF Spec

(***************************************************************************)
(* Every index of the table stays inside its array, for every set of keys, *)
(* hash function and size.                                                 *)
(***************************************************************************)
THEOREM HashTableTypeOK == Spec => []TypeOK
BY Invariance, PTL DEF IInv

(***************************************************************************)
(* The chain of each bucket holds exactly its entries, youngest first, and *)
(* no key has two entries.                                                 *)
(***************************************************************************)
THEOREM HashTableChains == Spec => []ChainsExact
BY Invariance, PTL DEF IInv

(***************************************************************************)
(* ht_init returns all of the table or nothing, and leaks nothing.         *)
(***************************************************************************)
THEOREM HashTableAllOrNothing == Spec => []AllOrNothing
BY Invariance, PTL DEF IInv

(***************************************************************************)
(* An entry number stays the entry of its key.                             *)
(***************************************************************************)
THEOREM HashTableEntriesStable == Spec => EntriesStable
<1>1. ASSUME IInv, Next, Ready, NEW e \in Entries
      PROVE  keys'[e] = keys[e] /\ size' > e
  <2>1. size \in Nat /\ e \in 0 .. key_cap - 1 /\ e < size
    BY <1>1, Sizes DEF IInv, Entries
  <2>2. keys \in [0 .. key_cap - 1 -> Key \cup {0}]
    BY <1>1 DEF IInv, TypeOK, Ready
  <2>3. CASE Insert
    BY <2>1, <2>2, <2>3 DEF Insert
  <2>4. CASE ~ Insert
    <3>1. UNCHANGED <<keys, size>>
      BY <1>1, <2>4 DEF Next, Step, Ready, TooBig, HtInit, MallocFails, GetEntry, Put, Call,
         Walk, Found, NotFound, Overflow, GetValue, table
    <3> QED
      BY <2>1, <3>1
  <2> QED
    BY <2>3, <2>4
<1>2. IInv /\ [Next]_vars => [Ready => \A e \in Entries : keys'[e] = keys[e] /\ size' > e]_vars
  BY <1>1
<1> QED
  BY Invariance, <1>2, PTL DEF Spec, EntriesStable

(***************************************************************************)
(* The arrays overflow only for a new key, and only when key_cap different *)
(* keys are there.                                                         *)
(***************************************************************************)
THEOREM HashTableOverflow == Spec => []OverflowOnlyWhenFull
<1>1. IInv => OverflowOnlyWhenFull
  <2> SUFFICES ASSUME IInv, pc = "overflow" PROVE OverflowOnlyWhenFull
    BY DEF OverflowOnlyWhenFull
  <2>1. Ready /\ size = key_cap /\ \A e \in Entries : keys[e] # key
    BY DEF Ready, IInv, OverflowSound
  <2>2. key_cap \in Nat
    BY <2>1, Sizes DEF IInv
  <2> DEFINE f == [e \in Entries |-> keys[e]]
             S == {keys[e] : e \in Entries}
  <2>3. f \in Bijection(Entries, S)
    <3>1. \A d, e \in Entries : keys[d] = keys[e] => d = e
      BY <2>1 DEF IInv, ChainsExact
    <3> QED
      BY <3>1 DEF Bijection, Injection, Surjection, IsInjective
  <2>4. IsFiniteSet(Entries) /\ Cardinality(Entries) = key_cap
    BY <2>1, <2>2, FS_Interval DEF Entries
  <2>5. Cardinality(S) = key_cap
    BY <2>3, <2>4, FS_Bijection DEF ExistsBijection
  <2> QED
    BY <2>1, <2>5 DEF OverflowOnlyWhenFull
<1> QED
  BY Invariance, <1>1, PTL

-----------------------------------------------------------------------------
\* The entry that holds a key is the one EntryOf chooses.
LEMMA OnlyOne ==
  ASSUME NEW E, NEW f, NEW k, NEW e \in E, f[e] = k, \A d \in E : f[d] = k => d = e
  PROVE  (CHOOSE d \in E : f[d] = k) = e
  OBVIOUS

\* What the map holds at a key, by its entry.
LEMMA MapAt ==
  ASSUME IInv, Ready, NEW k \in Key, NEW e \in Entries, keys[e] = k
  PROVE  Interned(k) /\ EntryOf(k) = e /\ Map[k] = vals[e]
<1>1. \A d \in Entries : keys[d] = k => d = e
  BY DEF IInv, ChainsExact
<1>2. EntryOf(k) = e
  BY <1>1, OnlyOne DEF EntryOf
<1> QED
  BY <1>2 DEF Interned, Map

LEMMA MapAtNext ==
  ASSUME IInv', Ready', NEW k \in Key, NEW e \in Entries', keys'[e] = k
  PROVE  Map'[k] = vals'[e]
<1>1. \A d \in Entries' : keys'[d] = k => d = e
  BY DEF IInv, ChainsExact
<1>2. EntryOf(k)' = e
  BY <1>1, OnlyOne DEF EntryOf
<1> QED
  BY <1>2 DEF Interned, Map

\* Nothing is seen of a step that neither stores nor returns.
LEMMA Unseen ==
  ASSUME UNCHANGED table, Ready' <=> Ready, Last' = None
  PROVE  D!Next
<1>1. Entries' = Entries
  BY DEF Entries, table
<1>2. Map' = Map
  BY <1>1 DEF Map, Interned, EntryOf, table
<1> QED
  BY <1>2 DEF D!Next, D!Forget

\* put of a key that is there changes the map there and nowhere else.
LEMMA FoundPuts ==
  ASSUME IInv, IInv', Found, op = "put"
  PROVE  D!Put(key, val) /\ key \in Key /\ val \in Val
<1>1. /\ Ready /\ Ready' /\ i \in Entries /\ keys[i] = key /\ key \in Key /\ val \in Val
      /\ Entries' = Entries /\ keys' = keys /\ vals' = [vals EXCEPT ![i] = val]
      /\ key' = key /\ val' = val /\ op' = op /\ pc' = "idle"
  BY DEF Found, Return, IInv, TypeOK, Ready, Entries, call
<1>2. vals'[i] = val /\ \A e \in Entries : e # i => vals'[e] = vals[e]
  BY <1>1, Sizes DEF IInv, TypeOK, Ready
<1>3. ASSUME NEW k \in Key
      PROVE  Map'[k] = IF k = key THEN val ELSE Map[k]
  <2>1. CASE k = key
    BY <1>1, <1>2, <2>1, MapAtNext
  <2>2. CASE k # key /\ Interned(k)
    <3>1. PICK e \in Entries : keys[e] = k
      BY <2>2 DEF Interned
    <3>2. Map[k] = vals[e] /\ Map'[k] = vals'[e] /\ e # i
      BY <1>1, <2>2, <3>1, MapAt, MapAtNext
    <3> QED
      BY <1>2, <2>2, <3>2
  <2>3. CASE ~ Interned(k)
    <3>1. k # key /\ ~ Interned(k)'
      BY <1>1, <2>3 DEF Interned
    <3> QED
      BY <2>3, <3>1 DEF Map
  <2> QED
    BY <2>1, <2>2, <2>3
<1>4. Map' = [Map EXCEPT ![key] = val]
  BY <1>3 DEF Map
<1>5. Last' = <<"put", key, val>>
  BY <1>1 DEF Last
<1> QED
  BY <1>1, <1>4, <1>5 DEF D!Put

\* So does put of a new one.
LEMMA InsertPuts ==
  ASSUME IInv, IInv', Insert
  PROVE  D!Put(key, val) /\ key \in Key /\ val \in Val
<1>1. /\ Ready /\ Ready' /\ key \in Key /\ val \in Val /\ size < key_cap /\ size' = size + 1
      /\ keys' = [keys EXCEPT ![size] = key] /\ vals' = [vals EXCEPT ![size] = val]
      /\ key' = key /\ val' = val /\ op' = op /\ op = "put" /\ pc' = "idle"
  BY DEF Insert, Return, IInv, TypeOK, Ready, call
<1>2. \A e \in Entries : keys[e] # key
  BY DEF Insert, IInv, LookupSound
<1>3. /\ keys'[size] = key /\ vals'[size] = val /\ size \in Entries'
      /\ \A e \in Entries : e \in Entries' /\ keys'[e] = keys[e] /\ vals'[e] = vals[e]
      /\ \A e \in Entries' : e # size => e \in Entries
  <2>1. size \in Nat /\ key_cap \in Nat
    BY <1>1, Sizes DEF IInv
  <2>2. keys \in [0 .. key_cap - 1 -> Key \cup {0}] /\ vals \in [0 .. key_cap - 1 -> Val \cup {Garbage}]
    BY <1>1 DEF IInv, TypeOK, Ready
  <2> QED
    BY <1>1, <2>1, <2>2 DEF Entries
<1>4. ASSUME NEW k \in Key
      PROVE  Map'[k] = IF k = key THEN val ELSE Map[k]
  <2>1. CASE k = key
    BY <1>1, <1>3, <2>1, MapAtNext
  <2>2. CASE k # key /\ Interned(k)
    <3>1. PICK e \in Entries : keys[e] = k
      BY <2>2 DEF Interned
    <3>2. Map[k] = vals[e]
      BY <1>1, <3>1, MapAt
    <3>3. Map'[k] = vals'[e]
      BY <1>1, <1>3, <3>1, MapAtNext
    <3> QED
      BY <1>3, <2>2, <3>2, <3>3
  <2>3. CASE k # key /\ ~ Interned(k)
    <3>1. ~ Interned(k)'
      BY <1>1, <1>3, <2>3 DEF Interned
    <3> QED
      BY <2>3, <3>1 DEF Map
  <2> QED
    BY <2>1, <2>2, <2>3
<1>5. Map' = [Map EXCEPT ![key] = val]
  BY <1>4 DEF Map
<1>6. Last' = <<"put", key, val>>
  BY <1>1 DEF Last
<1> QED
  BY <1>1, <1>5, <1>6 DEF D!Put

\* get returns what the map holds, or None.
LEMMA LookupGets ==
  ASSUME IInv, IInv', NotFound \/ (Found /\ op = "get")
  PROVE  D!Get(key) /\ key \in Key
<1>1. /\ Ready /\ Ready' /\ key \in Key /\ key' = key /\ op' = "get" /\ op = "get" /\ pc' = "idle"
      /\ UNCHANGED table
  BY DEF Found, NotFound, Return, IInv, TypeOK, Ready, call, table
<1>2. Entries' = Entries /\ Map' = Map
  BY <1>1 DEF Entries, Map, Interned, EntryOf, table
<1>3. Last' = <<"get", key, Map[key]>>
  <2>1. CASE NotFound
    <3>1. ~ Interned(key)
      BY <2>1 DEF NotFound, IInv, LookupSound, Interned
    <3>2. Map[key] = None
      BY <1>1, <3>1 DEF Map
    <3>3. answer'[2] = ERR_VAL
      BY <2>1 DEF NotFound, Return
    <3> QED
      BY <1>1, <3>2, <3>3 DEF Last
  <2>2. CASE Found
    <3>1. i \in Entries /\ keys[i] = key /\ i # ERR_VAL
      BY <2>2 DEF Found, IInv, TypeOK, Entries
    <3>2. Map[key] = vals[i]
      BY <1>1, <3>1, MapAt
    <3>3. answer'[2] = i /\ vals' = vals
      BY <1>1, <2>2 DEF Found, Return, table
    <3> QED
      BY <1>1, <3>1, <3>2, <3>3 DEF Last
  <2> QED
    BY <2>1, <2>2
<1> QED
  BY <1>1, <1>2, <1>3 DEF D!Get

\* A table that is being made stands for the empty map.
LEMMA Making ==
  ASSUME IInv, TooBig \/ HtInit \/ \E m \in DOMAIN Block : MallocFails(m)
  PROVE  UNCHANGED Map
<1>1. \A k \in Key : ~ Interned(k)
  BY DEF TooBig, HtInit, MallocFails, Interned, Ready
<1>2. \A k \in Key : ~ Interned(k)'
  <2>1. CASE HtInit
    <3>1. Entries' = {}
      BY <2>1 DEF HtInit, Entries
    <3> QED
      BY <3>1 DEF Interned
  <2>2. CASE ~ HtInit
    BY <2>2 DEF TooBig, MallocFails, Interned, Ready
  <2> QED
    BY <2>1, <2>2
<1> QED
  BY <1>1, <1>2 DEF Map

(***************************************************************************)
(* A hash table is a dictionary: put changes the map at its key and get    *)
(* returns what is there, for all keys, hash functions and sizes, up to    *)
(* and including the overflow.                                             *)
(***************************************************************************)
THEOREM HashTableIsDictionary == Spec => ImplementsDictionary
<1>1. Init => D!Init
  <2> SUFFICES ASSUME Init PROVE Map = [k \in Key |-> None] /\ Last = None
    BY DEF D!Init
  <2>1. pc = "init"
    BY DEF Init
  <2> QED
    BY <2>1 DEF Map, Last, Interned, Ready
<1>2. IInv /\ IInv' /\ [Next]_vars => [D!Next]_D!vars
  <2> SUFFICES ASSUME IInv, IInv', [Next]_vars PROVE D!Next \/ UNCHANGED <<Map, Last>>
    BY DEF D!vars
  <2>1. CASE TooBig \/ HtInit \/ \E m \in DOMAIN Block : MallocFails(m)
    <3>1. UNCHANGED Map
      BY <2>1, Making
    <3>2. Last' = None
      <4>1. op # "put" /\ op # "get" /\ op' = op
        BY <2>1 DEF TooBig, HtInit, MallocFails, call, IInv, Fresh
      <4> QED
        BY <4>1 DEF Last
    <3> QED
      BY <3>1, <3>2 DEF D!Next, D!Forget
  <2>2. CASE \E k \in Key : GetEntry(k) \/ \E v \in Val : Put(k, v)
    <3>1. UNCHANGED table /\ Ready /\ Ready' /\ Last' = None
      BY <2>2 DEF GetEntry, Put, Call, Ready, Last
    <3> QED
      BY <3>1, Unseen
  <2>3. CASE Walk \/ Overflow
    <3>1. UNCHANGED table /\ Ready /\ Ready' /\ Last' = None
      BY <2>3 DEF Walk, Overflow, Ready, Last
    <3> QED
      BY <3>1, Unseen
  <2>4. CASE Found /\ op = "put"
    BY <2>4, FoundPuts DEF D!Next
  <2>5. CASE Insert
    BY <2>5, InsertPuts DEF D!Next
  <2>6. CASE NotFound \/ (Found /\ op = "get")
    BY <2>6, LookupGets DEF D!Next
  <2>7. CASE \E e \in ERR_VAL .. key_cap + 1 : GetValue(e)
    <3>1. UNCHANGED table /\ Ready /\ Ready' /\ Last' = None
      BY <2>7 DEF GetValue, Return, Ready, Last, table
    <3> QED
      BY <3>1, Unseen
  <2>8. CASE UNCHANGED vars
    <3>1. Ready' = Ready /\ Entries' = Entries
      BY <2>8 DEF vars, Ready, Entries, table
    <3> QED
      BY <2>8, <3>1 DEF vars, table, call, Map, Last, Interned, EntryOf
  <2>9. Found => op \in {"put", "get"}
    BY DEF Found, IInv, TypeOK
  <2> QED
    BY <2>1, <2>2, <2>3, <2>4, <2>5, <2>6, <2>7, <2>8, <2>9 DEF Next, Step
<1> QED
  BY Invariance, <1>1, <1>2, PTL DEF Spec, ImplementsDictionary, D!Spec
=============================================================================
