------------------------------ MODULE HashMap ------------------------------
(***************************************************************************)
(* hashmap.c, the hash map behind the BTF code, as operators on its state: *)
(* the number of buckets and the entries.  Entries with equal keys are in  *)
(* one bucket; chain lists all entries so that those of one key are in the *)
(* order of their bucket, which is all that a caller can see of it.        *)
(***************************************************************************)
EXTENDS Naturals, SequencesExt

Entry(key, value) == [key |-> key, value |-> value]

HashmapNew == [cap |-> 0, chain |-> <<>>]

\* more than 75% filled
NeedsToGrow(h) == h.cap = 0 \/ ((Len(h.chain) + 1) * 4) \div 3 > h.cap

\* hashmap_grow(): each entry goes to the head of its new bucket in turn
Grow(h) == [cap |-> IF h.cap = 0 THEN 4 ELSE 2 * h.cap, chain |-> Reverse(h.chain)]

\* hashmap_find_entry(), 0 if there is none
FindEntry(h, key) == SelectInSeq(h.chain, LAMBDA e : e.key = key)

\* The end of hashmap__insert(), and all of it with HASHMAP_APPEND.
HashmapAppend(h, key, value) ==
    LET g == IF NeedsToGrow(h) THEN Grow(h) ELSE h
    IN  [g EXCEPT !.chain = <<Entry(key, value)>> \o @]

\* HASHMAP_SET
HashmapSet(h, key, value) ==
    LET n == FindEntry(h, key)
    IN  IF n = 0 THEN HashmapAppend(h, key, value)
        ELSE [h EXCEPT !.chain[n] = Entry(key, value)]

HashmapHas(h, key) == FindEntry(h, key) # 0
HashmapFind(h, key) == h.chain[FindEntry(h, key)].value

\* hashmap__for_each_key_entry()
ForEachKey(h, key) ==
    LET es == SelectSeq(h.chain, LAMBDA e : e.key = key)
    IN  [n \in DOMAIN es |-> es[n].value]

=============================================================================
