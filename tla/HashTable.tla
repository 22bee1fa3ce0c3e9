----------------------------- MODULE HashTable ------------------------------
(***************************************************************************)
(* The chained hash table hash.01/hashtable.c with the load factor of its  *)
(* main.c.  Entries live in parallel arrays; a bucket holds the index of   *)
(* its youngest entry, next[] leads to the older ones.  rehash is empty,   *)
(* so that one entry more than key_cap is written behind the arrays.       *)
(***************************************************************************)
EXTENDS Integers, FiniteSets

CONSTANTS
  Key, Val,
  HashOf,      \* hash: the two halves of a key, xor-ed
  Exponents,   \* values of sz_exponent
  Garbage,     \* what malloc'ed or foreign memory holds
  None         \* no value: of the refinement below

ASSUME HashAssumption == Key \subseteq Int /\ Key # {} /\ HashOf \in [Key -> Nat]
ASSUME PowerAssumption == Exponents \subseteq Nat /\ \A e \in Exponents : 2 ^ e \in Nat \ {0}

ERR_VAL == -1
Missing == "0x80000000"

\* What ht_init allocates, in this order.
Block == <<"ht", "keys", "vals", "bkts", "next">>

ASSUME ValAssumption == Missing \notin Val /\ Garbage \notin Val \cup {Missing}

VARIABLES
  pc,
  live,         \* blocks allocated and not freed
  bkt_cap, key_cap,
  keys, vals, bkts, next, size,
  op, key, val, \* the running operation and its arguments
  i,            \* the entry it looks at
  answer        \* what the last operation returned

table == <<keys, vals, bkts, next, size>>
caps  == <<bkt_cap, key_cap>>
call  == <<op, key, val>>
vars  == <<pc, live, caps, table, call, i, answer>>

-----------------------------------------------------------------------------
\* & (cap - 1), cap being a power of two
bucket_for(k) == HashOf[k] % bkt_cap

\* bkt_cap is at most 2^24: the other branch of factor2x is never taken.
factor2x(n) == 2 * n

Entries == 0 .. size - 1

Init ==
  /\ pc = "init" /\ live = {}
  /\ \E e \in Exponents :
       bkt_cap = (IF e > 24 THEN 0 ELSE 2 ^ e)
  /\ key_cap = factor2x(bkt_cap)
  /\ keys = <<>> /\ vals = <<>> /\ bkts = <<>> /\ next = <<>> /\ size = 0
  /\ op = "none" /\ key \in {CHOOSE k \in Key : TRUE} /\ val = Garbage
  /\ i = ERR_VAL
  /\ answer = Garbage

\* sz_exponent > 24
TooBig ==
  /\ pc = "init" /\ bkt_cap = 0
  /\ pc' = "null"
  /\ UNCHANGED <<live, caps, table, call, i, answer>>

\* Mutant: err4 falls into err2, keeping vals.
MallocFailsLeaks(m) ==
  /\ pc = "init" /\ bkt_cap # 0
  /\ live' = IF m > 4 THEN {"vals"} ELSE {}
  /\ pc' = "null"
  /\ UNCHANGED <<caps, table, call, i, answer>>

\* The m-th malloc fails: the labels err4 .. err0 free what was allocated.
MallocFails(m) ==
  /\ pc = "init" /\ bkt_cap # 0
  /\ live' = {Block[j] : j \in 1 .. m - 1}
               \ ((IF m > 4 THEN {"bkts"} ELSE {}) \cup (IF m > 3 THEN {"vals"} ELSE {})
                    \cup (IF m > 2 THEN {"keys"} ELSE {}) \cup (IF m > 1 THEN {"ht"} ELSE {}))
  /\ pc' = "null"
  /\ UNCHANGED <<caps, table, call, i, answer>>

HtInit ==
  /\ pc = "init" /\ bkt_cap # 0
  /\ pc' = "idle"
  /\ live' = {Block[j] : j \in DOMAIN Block}
  /\ keys' = [e \in 0 .. key_cap - 1 |-> 0]
  /\ vals' = [e \in 0 .. key_cap - 1 |-> Garbage]
  /\ next' = [e \in 0 .. key_cap - 1 |-> 0]
  /\ bkts' = [b \in 0 .. bkt_cap - 1 |-> ERR_VAL]
  /\ size' = 0
  /\ UNCHANGED <<caps, call, i, answer>>

-----------------------------------------------------------------------------
Return(what) == pc' = "idle" /\ answer' = what

\* put and get_entry first look the key up in its bucket.
Call(o, k, v) ==
  /\ pc = "idle"
  /\ pc' = "lookup"
  /\ op' = o /\ key' = k /\ val' = v
  /\ i' = bkts[bucket_for(k)]
  /\ UNCHANGED <<live, caps, table, answer>>

Put(k, v)   == Call("put", k, v)
GetEntry(k) == Call("get", k, Garbage)

\* Mutant: an entry that has a successor is not compared.
WalkEarly ==
  /\ pc = "lookup" /\ i # ERR_VAL
  /\ keys[i] # key \/ next[i] # ERR_VAL
  /\ i' = next[i]
  /\ UNCHANGED <<pc, live, caps, table, call, answer>>

Walk ==
  /\ pc = "lookup" /\ i # ERR_VAL
  /\ keys[i] # key
  /\ i' = next[i]
  /\ UNCHANGED <<pc, live, caps, table, call, answer>>

\* Mutant: the value of a key that is there is not replaced.
FoundKept ==
  /\ pc = "lookup" /\ i # ERR_VAL /\ keys[i] = key
  /\ Return(<<"entry", i>>)
  /\ UNCHANGED <<live, caps, table, call, i>>

\* The key is there: put overwrites its value.
Found ==
  /\ pc = "lookup" /\ i # ERR_VAL /\ keys[i] = key
  /\ IF op = "put" THEN vals' = [vals EXCEPT ![i] = val] ELSE UNCHANGED vals
  /\ Return(<<"entry", i>>)
  /\ UNCHANGED <<live, caps, keys, bkts, next, size, call, i>>

\* get_entry of a key that is not there.
NotFound ==
  /\ pc = "lookup" /\ i = ERR_VAL /\ op = "get"
  /\ Return(<<"entry", ERR_VAL>>)
  /\ UNCHANGED <<live, caps, table, call, i>>

\* Mutant: the bucket is set before its old content is saved.
InsertSwapped ==
  /\ pc = "lookup" /\ i = ERR_VAL /\ op = "put" /\ size < key_cap
  /\ LET b == bucket_for(key)
     IN  bkts' = [bkts EXCEPT ![b] = size] /\ next' = [next EXCEPT ![size] = size]
  /\ keys' = [keys EXCEPT ![size] = key]
  /\ vals' = [vals EXCEPT ![size] = val]
  /\ size' = size + 1
  /\ Return(<<"entry", size>>)
  /\ UNCHANGED <<live, caps, call, i>>

\* Mutant: first_free is 0 instead of -1, and never reassigned.
InsertReused ==
  /\ pc = "lookup" /\ i = ERR_VAL /\ op = "put" /\ size < key_cap
  /\ LET b == bucket_for(key)
     IN  bkts' = [bkts EXCEPT ![b] = 0] /\ next' = [next EXCEPT ![0] = bkts[b]]
  /\ keys' = [keys EXCEPT ![0] = key]
  /\ vals' = [vals EXCEPT ![0] = val]
  /\ size' = size + 1
  /\ Return(<<"entry", 0>>)
  /\ UNCHANGED <<live, caps, call, i>>

(***************************************************************************)
(* put of a new key: it becomes the head of its bucket's chain.  Since     *)
(* nothing is ever removed, first_free stays -1 and next_unused is size.   *)
(***************************************************************************)
Insert ==
  /\ pc = "lookup" /\ i = ERR_VAL /\ op = "put" /\ size < key_cap
  /\ LET b == bucket_for(key)
     IN  bkts' = [bkts EXCEPT ![b] = size] /\ next' = [next EXCEPT ![size] = bkts[b]]
  /\ keys' = [keys EXCEPT ![size] = key]
  /\ vals' = [vals EXCEPT ![size] = val]
  /\ size' = size + 1
  /\ Return(<<"entry", size>>)
  /\ UNCHANGED <<live, caps, call, i>>

\* Mutant: the capacity is tested before the key is looked up.
OverflowFirst ==
  /\ pc = "lookup" /\ op = "put" /\ size >= key_cap
  /\ pc' = "overflow"
  /\ UNCHANGED <<live, caps, table, call, i, answer>>

\* The arrays are full, and rehash does nothing: the stores go astray.
Overflow ==
  /\ pc = "lookup" /\ i = ERR_VAL /\ op = "put" /\ size >= key_cap
  /\ pc' = "overflow"
  /\ UNCHANGED <<live, caps, table, call, i, answer>>

\* Every entry up to key_cap inclusive is looked up, used or not.
GetValue(e) ==
  /\ pc = "idle"
  /\ Return(<<"value", IF e = ERR_VAL \/ key_cap < e THEN Missing
                       ELSE IF e = key_cap THEN Garbage ELSE vals[e]>>)
  /\ op' = "value" /\ i' = e
  /\ UNCHANGED <<live, caps, table, key, val>>

Step == Walk \/ Found \/ NotFound \/ Insert \/ Overflow

Next ==
  \/ TooBig \/ HtInit \/ \E m \in DOMAIN Block : MallocFails(m)
  \/ \E k \in Key : GetEntry(k) \/ \E v \in Val : Put(k, v)
  \/ Step
  \/ \E e \in ERR_VAL .. key_cap + 1 : GetValue(e)

Spec == Init /\ [][Next]_vars

-----------------------------------------------------------------------------
\* Every variable has its type; the arrays keep the size they got in ht_init.
TypeOK ==
  /\ pc \in {"init", "null", "idle", "lookup", "overflow"}
  /\ live \subseteq {Block[j] : j \in DOMAIN Block}
  /\ bkt_cap \in Nat /\ key_cap \in Nat
  /\ op \in {"none", "put", "get", "value"} /\ key \in Key /\ val \in Val \cup {Garbage}
  /\ pc \in {"idle", "lookup", "overflow"} =>
       /\ bkt_cap > 0
       /\ size \in 0 .. key_cap
       /\ keys \in [0 .. key_cap - 1 -> Key \cup {0}]
       /\ vals \in [0 .. key_cap - 1 -> Val \cup {Garbage}]
       /\ next \in [0 .. key_cap - 1 -> {ERR_VAL} \cup 0 .. key_cap - 1]
       /\ bkts \in [0 .. bkt_cap - 1 -> {ERR_VAL} \cup 0 .. key_cap - 1]
  /\ pc = "lookup" => i \in {ERR_VAL} \cup 0 .. size - 1
  /\ pc = "lookup" => op \in {"put", "get"} /\ (op = "put" => val \in Val)

Ready == pc \in {"idle", "lookup", "overflow"}

(***************************************************************************)
(* e is the youngest entry of bucket b among the first m, or there is none *)
(* and e is ERR_VAL.                                                       *)
(***************************************************************************)
Youngest(e, b, m) ==
  \/ e = ERR_VAL /\ \A f \in 0 .. m - 1 : bucket_for(keys[f]) # b
  \/ /\ e \in 0 .. m - 1 /\ bucket_for(keys[e]) = b
     /\ \A f \in e + 1 .. m - 1 : bucket_for(keys[f]) # b

(***************************************************************************)
(* The chain of a bucket holds exactly the entries whose keys belong to    *)
(* it, youngest first; and no key has two entries.  (intern)               *)
(***************************************************************************)
ChainsExact ==
  Ready =>
    /\ \A b \in 0 .. bkt_cap - 1 : Youngest(bkts[b], b, size)
    /\ \A e \in Entries : Youngest(next[e], bucket_for(keys[e]), e)
    /\ \A e, f \in Entries : keys[e] = keys[f] => e = f

(***************************************************************************)
(* The arrays overflow only for a new key when as many different keys as   *)
(* the load factor admits are there.                                       *)
(***************************************************************************)
OverflowOnlyWhenFull ==
  pc = "overflow" => /\ \A e \in Entries : keys[e] # key
                     /\ Cardinality({keys[e] : e \in Entries}) = key_cap

(***************************************************************************)
(* ht_init either returns a table with all of its arrays or has freed      *)
(* whatever it had allocated.                                              *)
(***************************************************************************)
AllOrNothing ==
  /\ pc = "null" => live = {}
  /\ Ready => live = {Block[j] : j \in DOMAIN Block}

(***************************************************************************)
(* An entry number once handed out stays the entry of its key: it may be   *)
(* kept across later puts and passed to get_value.                         *)
(***************************************************************************)
EntriesStable ==
  [][Ready => \A e \in Entries : keys'[e] = keys[e] /\ size' > e]_vars

-----------------------------------------------------------------------------
\* The dictionary that a table stands for.
Interned(k) == Ready /\ \E e \in Entries : keys[e] = k
EntryOf(k)  == CHOOSE e \in Entries : keys[e] = k

Map == [k \in Key |-> IF Interned(k) THEN vals[EntryOf(k)] ELSE None]

\* get_entry's answer stands for get_value's: the caller asks for it next.
Last ==
  CASE pc = "idle" /\ op = "put" -> <<"put", key, val>>
    [] pc = "idle" /\ op = "get" ->
         <<"get", key, IF answer[2] = ERR_VAL THEN None ELSE vals[answer[2]]>>
    [] OTHER -> None

D == INSTANCE Dictionary WITH map <- Map, last <- Last

(***************************************************************************)
(* The hash table implements the dictionary: when put returns the map has  *)
(* the value at that key and is otherwise what it was, and get finds it.   *)
(***************************************************************************)
ImplementsDictionary == D!Spec
=============================================================================
