------------------------------ MODULE NioArray ------------------------------
(***************************************************************************)
(* The growing array of pointers, c/src/common/nio_array.c: the poll and   *)
(* the select backend keep the files of a wait in one.                     *)
(*                                                                         *)
(* items[i + 1] is a->items[i], one for each place of the capacity; what   *)
(* is behind count is what earlier calls left there.  The objects are      *)
(* fresh: none is put in twice.  Each call notes itself in call, so that   *)
(* the list it should leave can be compared.                               *)
(***************************************************************************)
EXTENDS Integers, SequencesExt

CONSTANTS Objs,     (* the objects                                         *)
          Unit,     (* the step of the capacity, 16 in the code            *)
          InitSize, (* the argument of nio_array_create                    *)
          Bound,    (* a bound on the capacity                             *)
          Nothing   (* the pointer NULL                                    *)

ASSUME ArrayAssumption ==
    Unit \in Nat \ {0} /\ InitSize \in Nat \ {0} /\ Bound \in Nat /\ Nothing \notin Objs

VARIABLES items,   (* a->items                                             *)
          count,   (* a->count                                             *)
          freed,   (* history: the objects given to free_fn                *)
          call,    (* history: the latest call and its result              *)
          iter     (* the iterator: its index, and the entry it came to    *)

arrayVars == <<items, count, freed, call, iter>>

Capacity(a) == Len(a)

RoundUp(n) == ((n + Unit - 1) \div Unit) * Unit

\* nio_array_grow: the least capacity asked for is added, not reached, and
\* what is behind the count is cleared.
Grow(a, n) ==
    IF Capacity(a) >= n THEN a
    ELSE [i \in 1..Capacity(a) + RoundUp(n) |-> IF i <= count THEN a[i] ELSE Nothing]

NoIter == [i |-> -1, ptr |-> Nothing, dir |-> 0]

\* nio_array_create and nio_array_pre_append.
ArrayInit ==
    /\ items = [i \in 1..RoundUp(InitSize) |-> Nothing]
    /\ count = 0
    /\ freed = {}
    /\ call = [op |-> "create"]
    /\ iter = NoIter

Listed == SubSeq(items, 1, count)

\* The array becomes a with n entries; S was given to free_fn.
Leaves(a, n, S, c) ==
    /\ Capacity(a) <= Bound
    /\ items' = a
    /\ count' = n
    /\ freed' = freed \cup S
    /\ call' = c
    /\ UNCHANGED iter

Fresh == Objs \ (freed \cup Range(items))

\* The entries from i to j, if free_fn is given.
FreedOf(i, j, fn) == {items[k + 1] : k \in {k \in i..j : fn}} \ {Nothing}
Cleared(a, i, j, fn) ==
    [k \in DOMAIN a |-> IF fn /\ k - 1 \in i..j THEN Nothing ELSE a[k]]

-----------------------------------------------------------------------------
\* nio_array_append, which push_back calls.
AppendObj(o) ==
    LET a == IF count >= Capacity(items) THEN Grow(items, count + Unit) ELSE items
    IN  Leaves([a EXCEPT ![count + 1] = o], count + 1, {},
               [op |-> "insert", at |-> count, obj |-> o, ret |-> count])

\* The entries from position p on move up by one.
Inserted(a, p, o) ==
    [k \in DOMAIN a |-> CASE k - 1 = p -> o
                          [] k - 1 > p /\ k - 1 <= count -> a[k - 1]
                          [] OTHER -> a[k]]

\* nio_array_pred_insert at p and nio_array_succ_insert at p - 1 (after is 1):
\* the position named must hold an entry.
InsertObj(p, after, o) ==
    LET a == IF count >= Capacity(items) THEN Grow(items, count + 1) ELSE items
    IN  IF p - after \in 0..count - 1
        THEN Leaves(Inserted(a, p, o), count + 1, {},
                    [op |-> "insert", at |-> p, obj |-> o, ret |-> p])
        ELSE Leaves(items, count, {}, [op |-> "none", ret |-> -1])

\* nio_array_prepend and push_front, which lets the result go: an empty array
\* refuses the object.
PrependObj(o) == InsertObj(0, 0, o)

\* The pop_back method.
PopBack ==
    IF count <= 0 THEN Leaves(items, count, {}, [op |-> "none", ret |-> Nothing])
    ELSE Leaves(items, count - 1, {},
                [op |-> "remove", from |-> count - 1, to |-> count - 1, ret |-> items[count]])

\* Slip: the last entry is left where it is.
MovedDownShort(a, i, j, n) ==
    [k \in DOMAIN a |-> IF k - 1 >= i /\ k + j - i < n - 1 THEN a[k + j - i + 1] ELSE a[k]]

\* The entries behind position j move down to position i.
MovedDown(a, i, j, n) ==
    [k \in DOMAIN a |-> IF k - 1 >= i /\ k + j - i < n THEN a[k + j - i + 1] ELSE a[k]]

\* The pop_front method.
PopFront ==
    IF count <= 0 THEN Leaves(items, count, {}, [op |-> "none", ret |-> Nothing])
    ELSE Leaves(MovedDown(items, 0, 0, count), count - 1, {},
                [op |-> "remove", from |-> 0, to |-> 0, ret |-> items[1]])

\* nio_array_delete_idx: the entry is cleared whether it is freed or not.
DeleteIdx(p, fn) ==
    IF p \notin 0..count - 1
    THEN Leaves(items, count, {}, [op |-> "none", ret |-> -1])
    ELSE Leaves(MovedDown([items EXCEPT ![p + 1] = Nothing], p, p, count), count - 1,
                FreedOf(p, p, fn), [op |-> "remove", from |-> p, to |-> p, ret |-> 0])

\* nio_array_delete: the last entry takes the place.
DeleteSwap(p, fn) ==
    IF p \notin 0..count - 1
    THEN Leaves(items, count, {}, [op |-> "none", ret |-> -1])
    ELSE Leaves(IF count > 1 THEN [items EXCEPT ![p + 1] = items[count]] ELSE items,
                count - 1, FreedOf(p, p, fn), [op |-> "swap", at |-> p, ret |-> 0])

\* nio_array_delete_obj: an object that is not found is freed all the same.
DeleteObj(o, fn) ==
    LET S == {k \in 0..count - 1 : items[k + 1] = o}
        p == CHOOSE k \in S : \A j \in S : k <= j
        F == {x \in {o} : fn}
    IN  IF S = {} THEN Leaves(items, count, F, [op |-> "none", ret |-> -1])
        ELSE Leaves(MovedDown([items EXCEPT ![p + 1] = Nothing], p, p, count),
                    count - 1, F, [op |-> "remove", from |-> p, to |-> p, ret |-> 0])

\* nio_array_delete_range.  The end is cut to the last entry, the beginning is
\* not tested: beyond the end the count is lowered by a negative number.
DeleteRange(i, j, fn) ==
    LET max == count - 1
        k == IF j > max THEN max ELSE j
    IN  IF count <= 0 \/ i > j
        THEN Leaves(items, count, {}, [op |-> "none", ret |-> -1])
        ELSE Leaves(MovedDown(Cleared(items, i, k, fn), i, k, count),
                    count - (k - i + 1), FreedOf(i, k, fn),
                    [op |-> "remove", from |-> i, to |-> k, ret |-> 0])

\* nio_array_mv_idx: the entries from position i are moved down to position p.
MoveIdx(p, i, fn) ==
    IF count = 0 \/ p >= i \/ i >= count
    THEN Leaves(items, count, {}, [op |-> "none", ret |-> 0])
    ELSE Leaves(MovedDown(Cleared(items, p, i - 1, fn), p, i - 1, count),
                count - (i - p), FreedOf(p, i - 1, fn),
                [op |-> "remove", from |-> p, to |-> i - 1, ret |-> 0])

\* nio_array_clean.
Clean(fn) ==
    Leaves(Cleared(items, 0, count - 1, TRUE), 0, FreedOf(0, count - 1, fn),
           [op |-> "remove", from |-> 0, to |-> count - 1, ret |-> 0])

-----------------------------------------------------------------------------
\* The iterator methods; iter.dir is 0 when there is none.
IterBegin(d) ==
    LET i == IF d = 1 THEN 0 ELSE count - 1
    IN  /\ iter' = [i |-> i, dir |-> d,
                    ptr |-> IF count <= 0 THEN Nothing ELSE items[i + 1]]
        /\ UNCHANGED <<items, count, freed, call>>

\* Slip: the end of the array is not tested for.
IterStepUntested ==
    /\ iter.ptr # Nothing
    /\ LET i == iter.i + iter.dir
       IN  iter' = [iter EXCEPT !.i = i,
                       !.ptr = IF i < 0 \/ i >= Capacity(items) THEN Nothing ELSE items[i + 1]]
    /\ UNCHANGED <<items, count, freed, call>>

\* iter_next looks at the count, iter_prev does not.
IterStep ==
    /\ iter.ptr # Nothing
    /\ LET i == iter.i + iter.dir
       IN  iter' = [iter EXCEPT !.i = i,
                       !.ptr = IF i < 0 \/ (iter.dir = 1 /\ i >= count) THEN Nothing
                               ELSE items[i + 1]]
    /\ UNCHANGED <<items, count, freed, call>>

\* The positions a caller may give: any up to one behind the last.
Positions == 0..count

ArrayNext ==
    \/ \E o \in Fresh :
          AppendObj(o) \/ PrependObj(o) \/ \E p \in Positions, e \in {0, 1} : InsertObj(p, e, o)
    \/ PopBack \/ PopFront
    \/ \E fn \in BOOLEAN :
          \/ \E p \in Positions : DeleteIdx(p, fn) \/ DeleteSwap(p, fn)
          \/ \E o \in Objs \ freed : DeleteObj(o, fn)
          \/ \E i, j \in Positions : DeleteRange(i, j, fn) \/ MoveIdx(i, j, fn)
          \/ Clean(fn)
    \/ \E d \in {1, -1} : IterBegin(d)
    \/ IterStep

ArraySpec == ArrayInit /\ [][ArrayNext]_arrayVars

-----------------------------------------------------------------------------
\* The list q after the call c.
Meant(q, c) ==
    CASE c.op = "insert" -> InsertAt(q, c.at + 1, c.obj)
      [] c.op = "remove" -> SubSeq(q, 1, c.from) \o SubSeq(q, c.to + 2, Len(q))
      [] c.op = "swap" -> SubSeq([q EXCEPT ![c.at + 1] = q[Len(q)]], 1, Len(q) - 1)
      [] OTHER -> q

\* Whatever calls came before, each leaves the list without a hole: what is put
\* in stands where the result says, what is taken out is gone, the rest keeps
\* its order, and no entry is NULL, freed, or left over from an earlier call.
ArrayIsList ==
    [][/\ Listed' = Listed \/ Listed' = Meant(Listed, call')
       /\ call' # call /\ call'.op # "none" => Listed' = Meant(Listed, call')
       /\ Range(Listed') \cap (freed' \cup {Nothing}) = {}]_<<items, count, call>>

\* An iterator that goes forward only comes to entries of the list, whatever is
\* taken out meanwhile.  (Backward it may come to one left over.)
ForwardIsListed ==
    [][iter' # iter /\ iter'.dir = 1 /\ iter'.ptr # Nothing
          => iter'.ptr \in Range(Listed)]_iter
=============================================================================
