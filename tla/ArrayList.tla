----------------------------- MODULE ArrayList ------------------------------
(***************************************************************************)
(* util/array-list/array_list.c: a block of memory that doubles when it is *)
(* full, its items moved by memmove. The caller of array_list_add writes   *)
(* to the item it is given. Indexes are those of the code, from 0.         *)
(***************************************************************************)
EXTENDS Integers, Sequences, SequencesExt

CONSTANTS Values,    \* items, numbers that the comparator orders
          Cells,     \* bound: cells of memory that are looked at
          Rubbish    \* what is in memory nobody has written

ASSUME ValuesAssumption == Values \subseteq Int
ASSUME CellsAssumption == Cells \in Nat \ {0}

VARIABLES
    data,       \* the cells at list->data, also those past its end
    size,       \* list->size
    capacity,   \* list->capacity, -1 before array_list_init
    failed,     \* history: realloc has failed
    items       \* history: the sequence of items the calls stand for

arrayVars == <<data, size, capacity, failed, items>>

Blank == [i \in 0..(Cells - 1) |-> Rubbish]

ArrayInit == /\ data = Blank
             /\ size = 0
             /\ capacity = -1
             /\ failed = FALSE
             /\ items = <<>>

\* array_list_init
Make(n) == /\ capacity = -1
           /\ capacity' = n
           /\ size' = 0
           /\ UNCHANGED <<data, failed, items>>

\* array_list_deinit
Unmake == /\ capacity >= 0
          /\ capacity' = -1
          /\ size' = 0
          /\ data' = Blank
          /\ failed' = FALSE
          /\ items' = <<>>

\* ensure_capacity: the new capacity, n doubled until it is enough
Doubled(n, least) ==
    LET times[k \in 0..least] == IF k = 0 THEN n ELSE 2 * times[k - 1]
    IN  times[Min({k \in 0..least : times[k] >= least})]

\* mutant: the size is compared, not the size needed
NeedsMore(n) == capacity < n - 1
Needs(n) == capacity < n

Grown(n) == IF Needs(n) THEN Doubled(IF capacity > 0 THEN capacity ELSE 1, n) ELSE capacity

Memmove(to, from, n) == [i \in DOMAIN data |->
    IF i >= to /\ i < to + n THEN data[i - to + from] ELSE data[i]]

\* array_list_add(before), and the caller writes v; realloc may fail, and the
\* item is added all the same
Add(before, v) ==
    /\ capacity >= 0 /\ ~failed /\ before <= size /\ size < Cells - 1
    /\ \/ capacity' = Grown(size + 1) /\ UNCHANGED failed
       \/ Needs(size + 1) /\ failed' = TRUE /\ UNCHANGED capacity
    /\ LET at == IF before < 0 THEN size ELSE before
           moved == IF before < 0 THEN data ELSE Memmove(before + 1, before, size - before)
       IN  /\ data' = [moved EXCEPT ![at] = v]
           /\ items' = InsertAt(items, at + 1, v)
    /\ size' = size + 1

\* array_list_remove, which ignores an index out of range
\* mutant: the last item stays where it was
MovedDownShort(index) == Memmove(index, index + 1, size - index - 2)
MovedDown(index) == Memmove(index, index + 1, size - index - 1)

RemoveItem(index) ==
    /\ capacity >= 0 /\ ~failed
    /\ index \in 0..(size - 1)
    /\ data' = IF index < size - 1 THEN MovedDown(index) ELSE data
    /\ size' = size - 1
    /\ items' = RemoveAt(items, index + 1)
    /\ UNCHANGED <<capacity, failed>>

\* array_list_qsort: libc puts the first size items into some order that is sorted
Qsort == /\ capacity >= 0 /\ ~failed
         /\ \E p \in Bijection(1..size, 1..size) :
               /\ \A i \in 1..(size - 1) : data[p[i] - 1] <= data[p[i + 1] - 1]
               /\ data' = [i \in DOMAIN data |-> IF i < size THEN data[p[i + 1] - 1] ELSE data[i]]
               /\ items' = [i \in 1..size |-> items[p[i]]]
         /\ UNCHANGED <<size, capacity, failed>>

\* array_list_bsearch: of a sorted list, the place of some item that is equal
Bsearch(v) == LET at == {i \in 0..(size - 1) : data[i] = v}
              IN  IF at = {} THEN {-1} ELSE at

ArrayNext == \/ \E n \in 0..2 : Make(n)
             \/ \E before \in -1..size, v \in Values : Add(before, v)
             \/ \E index \in 0..size : RemoveItem(index)
             \/ Qsort
             \/ Unmake

ArraySpec == ArrayInit /\ [][ArrayNext]_arrayVars

-----------------------------------------------------------------------------
\* Through any sequence of calls the memory holds the items in their order, all
\* inside the block; a realloc that fails is the only way out of it, since
\* ensure_capacity does not tell array_list_add (lines 45 and 89).
MemoryHoldsItems ==
    /\ capacity >= 0 => [i \in 1..size |-> data[i - 1]] = items
    /\ ~failed => size <= capacity \/ capacity = -1
    /\ failed => size = capacity + 1
    /\ \A v \in Values : Bsearch(v) = {-1} <=> v \notin Range(items)

=============================================================================
