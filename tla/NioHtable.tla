------------------------------ MODULE NioHtable ------------------------------
(***************************************************************************)
(* The hash table, c/src/common/nio_htable.c: an array of chains that is   *)
(* doubled when there are as many entries as chains.  The linked entries   *)
(* of a chain are the sequence of their keys, value and hash belong to the *)
(* key.  malloc does not fail here (nio_memory.c ends the program).        *)
(*                                                                         *)
(* The iterator of the table is a walk with a direction over the chains;   *)
(* each chain is walked forward, by iter_prev too.                         *)
(***************************************************************************)
EXTENDS Integers, FiniteSets, SequencesExt

CONSTANTS Keys, Values,
          Hash,      (* __def_hash_fn on the keys                          *)
          MinSize,   (* the least size of a new table, 13 in the code      *)
          NoKey      (* no entry                                           *)

ASSUME HtableAssumption ==
    Hash \in [Keys -> Nat] /\ MinSize \in Nat \ {0} /\ NoKey \notin Keys

VARIABLES data,    (* table->data: chain 0 is data[0], table->size in all  *)
          value,   (* the value of each entry, a function of its key       *)
          used,    (* table->used                                          *)
          status,  (* table->status                                        *)
          initSize,(* table->init_size                                     *)
          walk,    (* the iterator: its direction, i, size and entry       *)
          stay,    (* history: the entries there since the walk began      *)
          seen     (* history: what the walk has come to                   *)

htableVars == <<data, value, used, status, initSize, walk, stay, seen>>

\* size |= 1.
Odd(n) == IF n % 2 = 0 THEN n + 1 ELSE n

\* __nio_htable_size.
Empty(n) == [i \in 0..Odd(n) - 1 |-> <<>>]

Size == Cardinality(DOMAIN data)

AtLeast(n) == IF n < MinSize THEN MinSize ELSE n

NoWalk == [dir |-> 0, i |-> 0, size |-> 0, at |-> NoKey]

\* nio_htable_create.
HtableInit ==
    /\ initSize \in {0, MinSize + 1}
    /\ data = Empty(AtLeast(initSize))
    /\ value = [k \in {} |-> NoKey]
    /\ used = 0
    /\ status = "OK"
    /\ walk = NoWalk
    /\ stay = {}
    /\ seen = <<>>

-----------------------------------------------------------------------------
\* nio_htable_link: the new entry is the first of its chain.
Link(t, k) == [t EXCEPT ![Hash[k] % Cardinality(DOMAIN t)] = <<k>> \o @]

\* Slip: the entries keep the chains they had.
GrownInPlace(t) ==
    [i \in DOMAIN Empty(2 * Size) |-> IF i \in DOMAIN t THEN t[i] ELSE <<>>]

\* The entries, chain by chain.
AllOf(t) == FlattenSeq([i \in 1..Cardinality(DOMAIN t) |-> t[i - 1]])

\* nio_htable_grow: one after the other they are linked into the new array.
Regrown(t) ==
    LET grown[j \in 0..Len(AllOf(t))] ==
            IF j = 0 THEN Empty(2 * Cardinality(DOMAIN t)) ELSE Link(grown[j - 1], AllOf(t)[j])
    IN  grown
Grown(t) == Regrown(t)[Len(AllOf(t))]

\* The chain nio_htable_locate and nio_htable_delete look through.
Chain(t, k) == t[Hash[k] % Cardinality(DOMAIN t)]

\* Where the key is in its chain.
Spot(k) == CHOOSE i \in DOMAIN Chain(data, k) : Chain(data, k)[i] = k

\* nio_htable_locate and nio_htable_find.
Located(k) == k \in Range(Chain(data, k))

\* nio_htable_enter: the table grows before the key is looked for; a key that
\* is there keeps its value, and the entry is returned with a status.
HtableEnter(k, v) ==
    LET t == IF used >= Size THEN Grown(data) ELSE data
        new == k \notin Range(Chain(t, k))
    IN  /\ data' = IF new THEN Link(t, k) ELSE t
        /\ value' = [j \in DOMAIN value \cup {k} |-> IF j = k /\ new THEN v ELSE value[j]]
        /\ used' = used + IF new THEN 1 ELSE 0
        /\ status' = IF new THEN "OK" ELSE "DUPLEX_KEY"
        /\ stay' = IF t = data THEN stay ELSE {}
        /\ UNCHANGED <<initSize, walk, seen>>

\* nio_htable_delete and nio_htable_delete_entry.  A walk that stands at the
\* entry ends: what it would read next is freed.
HtableDelete(k) ==
    /\ Located(k)
    /\ data' = [data EXCEPT ![Hash[k] % Size] = RemoveAt(@, Spot(k))]
    /\ value' = [j \in DOMAIN value \ {k} |-> value[j]]
    /\ used' = used - 1
    /\ stay' = stay \ {k}
    /\ walk' = IF walk.at = k THEN NoWalk ELSE walk
    /\ seen' = IF walk.at = k THEN <<>> ELSE seen
    /\ UNCHANGED <<status, initSize>>

\* nio_htable_reset: every entry freed, and an array of the first size.
HtableReset ==
    /\ data' = Empty(AtLeast(initSize))
    /\ value' = [k \in {} |-> NoKey]
    /\ used' = 0
    /\ walk' = NoWalk
    /\ stay' = {}
    /\ seen' = <<>>
    /\ UNCHANGED <<status, initSize>>

-----------------------------------------------------------------------------
\* The first chain with an entry from i on in the direction d, below size; the
\* index that the loop ends with if there is none.
NextChain(i, d, size) ==
    LET In == {j \in DOMAIN data : j < size /\ data[j] # <<>> /\ (j - i) * d >= 0}
    IN  IF In = {} THEN IF d = 1 THEN size ELSE -1
        ELSE CHOOSE j \in In : \A l \in In : (l - j) * d >= 0

At(i) == IF i \in DOMAIN data /\ data[i] # <<>> THEN data[i][1] ELSE NoKey

\* nio_htable_iter_head and nio_htable_iter_tail.
WalkBegin(d) ==
    LET i == NextChain(IF d = 1 THEN 0 ELSE Size - 1, d, Size)
    IN  /\ walk' = [dir |-> d, i |-> i, size |-> Size, at |-> At(i)]
        /\ seen' = IF At(i) = NoKey THEN <<>> ELSE <<At(i)>>
        /\ stay' = DOMAIN value
        /\ UNCHANGED <<data, value, used, status, initSize>>

\* What follows the entry in its chain.
After(k) ==
    LET c == Chain(data, k)
    IN  IF Spot(k) < Len(c) THEN c[Spot(k) + 1] ELSE NoKey

\* Slip: the rest of the chain is passed over.
WalkStepChains ==
    /\ walk.at # NoKey
    /\ stay # {}
    /\ LET i == NextChain(walk.i + walk.dir, walk.dir, walk.size)
       IN  /\ walk' = [walk EXCEPT !.i = i, !.at = At(i)]
           /\ seen' = IF At(i) = NoKey THEN seen ELSE Append(seen, At(i))
    /\ UNCHANGED <<data, value, used, status, initSize, stay>>

\* nio_htable_iter_next and nio_htable_iter_prev, also nio_htable_walk and
\* nio_htable_list.  (When the table has grown meanwhile, nothing is said.)
WalkStep ==
    /\ walk.at # NoKey
    /\ stay # {}
    /\ LET a == After(walk.at)
           i == IF a # NoKey THEN walk.i
                ELSE NextChain(walk.i + walk.dir, walk.dir, walk.size)
           k == IF a # NoKey THEN a ELSE At(i)
       IN  /\ walk' = [walk EXCEPT !.i = i, !.at = k]
           /\ seen' = IF k = NoKey THEN seen ELSE Append(seen, k)
    /\ UNCHANGED <<data, value, used, status, initSize, stay>>

HtableNext ==
    \/ \E k \in Keys, v \in Values : HtableEnter(k, v)
    \/ \E k \in Keys : HtableDelete(k)
    \/ HtableReset
    \/ \E d \in {1, -1} : WalkBegin(d)
    \/ WalkStep

HtableSpec == HtableInit /\ [][HtableNext]_htableVars

-----------------------------------------------------------------------------
\* After any sequence of calls the table is the map of what was entered and not
\* deleted: each key is found and is in one chain once, through every growth;
\* and there are never more entries than chains.
HtableIsMap ==
    /\ \A k \in Keys : Located(k) <=> k \in DOMAIN value
    /\ \A i \in DOMAIN data :
          \A j \in DOMAIN data[i] : Hash[data[i][j]] % Size = i
    /\ used = Cardinality(DOMAIN value)
    /\ \A i \in DOMAIN data : IsInjective(data[i])
    /\ used <= Size /\ Size >= Odd(MinSize) /\ Size % 2 = 1

\* A walk in either direction, with entries made and deleted meanwhile, comes to
\* every entry that was there all the time, and to none twice, unless the table
\* has grown or the entry it stood at was deleted.
WalkIsWhole ==
    /\ IsInjective(seen)
    /\ walk.dir # 0 /\ walk.at = NoKey => stay \subseteq Range(seen)
=============================================================================
