---------------------------- MODULE GridViewProofs ----------------------------
(***************************************************************************)
(* Theorems about GridView, for any numbers of columns, items and views,   *)
(* any sizes and scroll positions. Each operation on the views is shown to *)
(* keep what holds of them all (OneEach, FocusRight, Celled); the loops    *)
(* over items repeat one operation, whose fold is unrolled step by step;   *)
(* update_grid fills the window or leaves one without an item (FilledKept);*)
(* and each call and event keeps the invariant IInv.                       *)
(***************************************************************************)
EXTENDS GridView, SequenceTheorems, WellFoundedInduction, TLAPS

-----------------------------------------------------------------------------
(* Numbers and sequences                                                    *)

\* induction up to n, over the set of numbers where what is shown holds
LEMMA UpTo ==
  ASSUME NEW n \in Nat, NEW T, 0 \in T, \A k \in 0..n - 1 : k \in T => k + 1 \in T
  PROVE  \A k \in 0..n : k \in T
<1> DEFINE Out == {k \in 0..n : k \notin T}
<1> SUFFICES ASSUME Out # {} PROVE FALSE
    OBVIOUS
<1>1. Out \subseteq Nat
      OBVIOUS
<1>2. PICK m \in Out : \A k \in Out : <<k, m>> \notin OpToRel(<, Nat)
      BY <1>1, NatLessThanWellFounded, WFMin
<1>3. \A k \in Out : ~(k < m)
      BY <1>1, <1>2 DEF OpToRel
<1>4. m # 0 /\ m - 1 \in 0..n - 1 /\ m - 1 \notin Out
      BY <1>3
<1>5. m - 1 \in T
      BY <1>4
<1> QED BY <1>4, <1>5

\* a set of numbers has a least one
LEMMA LeastOf ==
  ASSUME NEW I \in SUBSET Nat, I # {}
  PROVE  Min(I) \in I /\ \A k \in I : Min(I) <= k
<1>1. PICK m \in I : \A k \in I : <<k, m>> \notin OpToRel(<, Nat)
      BY NatLessThanWellFounded, WFMin
<1>2. \A k \in I : ~(k < m)
      BY <1>1 DEF OpToRel
<1>3. \A k \in I : m <= k
      BY <1>2
<1> QED BY <1>3 DEF Min

\* a bounded set of numbers has a greatest one
LEMMA GreatestOf ==
  ASSUME NEW n \in Nat, NEW s \in SUBSET (0..n), s # {}
  PROVE  Max(s) \in s /\ \A k \in s : k <= Max(s)
<1> DEFINE I == {n - k : k \in s}
<1>1. I \in SUBSET Nat /\ I # {}
  <2>1. PICK k \in s : TRUE
        OBVIOUS
  <2>2. n - k \in I
        BY <2>1
  <2>3. \A k1 \in s : n - k1 \in Nat
        OBVIOUS
  <2> QED BY <2>2, <2>3
<1>2. Min(I) \in I /\ \A k \in I : Min(I) <= k
  <2> HIDE DEF I
  <2> QED BY <1>1, LeastOf
<1>3. PICK m \in s : Min(I) = n - m
      BY <1>2
<1>4. \A k \in s : n - k \in I
      OBVIOUS
<1> HIDE DEF I
<1>5. \A k \in s : n - m <= n - k
      BY <1>2, <1>3, <1>4
<1>6. \A k \in s : m >= k
      BY <1>5
<1>7. Max(s) \in s /\ \A k \in s : Max(s) >= k
      BY <1>6 DEF Max
<1>8. \A k \in s : k <= Max(s)
      BY <1>7
<1> QED BY <1>7, <1>8

\* the greatest of a set of numbers up to n that has n
LEMMA MaxIs == ASSUME NEW n \in Nat, NEW s \in SUBSET (1..n), n \in s PROVE Max(s) = n
<1>1. n \in s /\ \A y \in s : n >= y
      OBVIOUS
<1>2. Max(s) \in s /\ \A y \in s : Max(s) >= y
      BY <1>1 DEF Max
<1>3. PICK m \in s : m = Max(s) /\ \A y \in s : m >= y
      BY <1>2
<1>4. m \in 1..n /\ m >= n
      BY <1>3
<1> QED BY <1>3, <1>4

\* of two integers
LEMMA Two ==
  ASSUME NEW a \in Int, NEW b \in Int
  PROVE  /\ Max({a, b}) = IF a >= b THEN a ELSE b
         /\ Min({a, b}) = IF a <= b THEN a ELSE b
<1>1. \E x \in {a, b} : \A y \in {a, b} : x >= y
      OBVIOUS
<1>2. \E x \in {a, b} : \A y \in {a, b} : x <= y
      OBVIOUS
<1> QED BY <1>1, <1>2 DEF Max, Min

\* a sequence without its i-th element
LEMMA RemovedAt ==
  ASSUME NEW S, NEW s \in Seq(S), NEW i \in 1..Len(s)
  PROVE  /\ RemoveAt(s, i) \in Seq(S)
         /\ Len(RemoveAt(s, i)) = Len(s) - 1
         /\ \A k \in 1..Len(s) - 1 : RemoveAt(s, i)[k] = s[IF k < i THEN k ELSE k + 1]
<1> DEFINE a == SubSeq(s, 1, i - 1)
           b == SubSeq(s, i + 1, Len(s))
<1>1. a \in Seq(S) /\ Len(a) = i - 1 /\ \A k \in 1..i - 1 : a[k] = s[k]
      BY SubSeqProperties
<1>2. b \in Seq(S) /\ Len(b) = Len(s) - i /\ \A k \in 1..Len(s) - i : b[k] = s[i + k]
      BY SubSeqProperties
<1> HIDE DEF a, b
<1>3. /\ a \o b \in Seq(S) /\ Len(a \o b) = Len(a) + Len(b)
      /\ \A k \in 1..Len(a) + Len(b) : (a \o b)[k] = IF k <= Len(a) THEN a[k] ELSE b[k - Len(a)]
      BY <1>1, <1>2, ConcatProperties
<1>4. ASSUME NEW k \in 1..Len(s) - 1 PROVE (a \o b)[k] = s[IF k < i THEN k ELSE k + 1]
      BY <1>1, <1>2, <1>3
<1>5. Len(a \o b) = Len(s) - 1
      BY <1>1, <1>2, <1>3
<1>6. RemoveAt(s, i) = a \o b
      BY DEF RemoveAt, a, b
<1> QED BY <1>3, <1>4, <1>5, <1>6

\* a sequence with one more at its head
LEMMA Pushed ==
  ASSUME NEW S, NEW s \in Seq(S), NEW x \in S
  PROVE  /\ <<x>> \o s \in Seq(S)
         /\ Len(<<x>> \o s) = Len(s) + 1
         /\ (<<x>> \o s)[1] = x
         /\ \A k \in 1..Len(s) : (<<x>> \o s)[k + 1] = s[k]
OBVIOUS

\* rows and columns of positions are numbers
LEMMA Divided ==
  ASSUME NEW p \in Nat, NEW c \in Nat \ {0}
  PROVE  p \div c \in Nat /\ p % c \in Nat /\ p \div c <= p
OBVIOUS

-----------------------------------------------------------------------------
(* Grids                                                                    *)

Grids == [columns : Columns, rowHeight : RowHeights, items : 0..MaxItems, rows : 0..MaxItems,
          start : -1..MaxItems, end : -1..MaxItems, focused : -1..MaxItems - 1,
          later : Later \cup {-1}, height : Heights \cup {0}, scroll : Scrolls \cup {0},
          used : Seq(Node), failed : BOOLEAN, gone : SUBSET (0..MaxItems - 1), stale : 0..MaxItems]

\* what an operation on one item leaves as it is
Around(g) == <<g.columns, g.rowHeight, g.items, g.rows, g.start, g.end, g.focused, g.later,
               g.height, g.scroll, g.stale>>

OneEach(g) == \A i, j \in DOMAIN g.used : g.used[i].pos = g.used[j].pos => i = j
FocusRight(g) == \A i \in DOMAIN g.used : g.used[i].focus => g.used[i].pos = g.focused
Celled(g) == \A i \in DOMAIN g.used : g.used[i].cell = Cell(g, g.used[i].pos)

Frame(g) == <<g.columns, g.rowHeight, g.items, g.rows, g.start, g.end, g.later, g.height, g.scroll,
              g.stale>>

\* the bound of uint8_t row_idx is not met
ShortGrid == \A p \in 0..MaxItems - 1, c \in Columns : p \div c < 256

\* view_pool_node_by_position finds the first node there, or there is none
LEMMA NodeFound ==
  ASSUME NEW g, g.used \in Seq(Node), NEW p
  PROVE  /\ NodeAt(g, p) \in 0..Len(g.used)
         /\ NodeAt(g, p) = 0 => \A i \in DOMAIN g.used : g.used[i].pos # p
         /\ NodeAt(g, p) # 0 => /\ NodeAt(g, p) \in DOMAIN g.used
                                /\ g.used[NodeAt(g, p)].pos = p
                                /\ \A i \in 1..NodeAt(g, p) - 1 : g.used[i].pos # p
<1> DEFINE I == {i \in 1..Len(g.used) : g.used[i].pos = p}
<1>0. I \in SUBSET Nat
      OBVIOUS
<1>1. I # {} => Min(I) \in I /\ \A k \in I : Min(I) <= k
  <2> HIDE DEF I
  <2> QED BY <1>0, LeastOf
<1>2. NodeAt(g, p) = IF I # {} THEN Min(I) ELSE 0
      BY DEF NodeAt, SelectInSeq
<1>3. DOMAIN g.used = 1..Len(g.used) /\ Len(g.used) \in Nat
      OBVIOUS
<1>4. CASE I = {}
      BY <1>2, <1>3, <1>4
<1>5. CASE I # {}
  <2>1. PICK m \in I : NodeAt(g, p) = m /\ \A k \in I : m <= k
        BY <1>1, <1>2, <1>5
  <2>2. m \in 1..Len(g.used) /\ g.used[m].pos = p
        OBVIOUS
  <2>3. ASSUME NEW k \in 1..m - 1 PROVE g.used[k].pos # p
        BY <2>1, <2>2
  <2> QED BY <2>1, <2>2, <2>3, <1>3
<1> QED BY <1>4, <1>5

\* grid_recycle_item keeps what holds of every view
LEMMA Recycled ==
  ASSUME NEW g \in Grids, NEW p, NEW optional \in BOOLEAN
  PROVE  LET h == RecycleItem(g, p, optional)
         IN  /\ h \in Grids /\ Around(h) = Around(g) /\ h.gone = g.gone
             /\ OneEach(g) => OneEach(h)
             /\ FocusRight(g) => FocusRight(h)
             /\ Celled(g) => Celled(h)
<1> DEFINE i == NodeAt(g, p)
           h == RecycleItem(g, p, optional)
<1>1. CASE i = 0
  <2>1. h = [g EXCEPT !.failed = g.failed \/ ~optional]
        BY <1>1 DEF RecycleItem
  <2>2. h \in Grids /\ h.used = g.used /\ Around(h) = Around(g) /\ h.gone = g.gone
        BY <2>1 DEF Grids, Around
  <2> QED BY <2>2 DEF OneEach, FocusRight, Celled, Cell, Around
<1>2. CASE i # 0
  <2>1. g.used \in Seq(Node) /\ i \in 1..Len(g.used)
        BY <1>2, NodeFound DEF Grids
  <2>2. h = [g EXCEPT !.used = RemoveAt(g.used, i)]
        BY <1>2 DEF RecycleItem
  <2>3. /\ RemoveAt(g.used, i) \in Seq(Node)
        /\ Len(RemoveAt(g.used, i)) = Len(g.used) - 1
        /\ \A k \in 1..Len(g.used) - 1 : RemoveAt(g.used, i)[k] = g.used[IF k < i THEN k ELSE k + 1]
        BY <2>1, RemovedAt
  <2>4. h \in Grids /\ h.used = RemoveAt(g.used, i) /\ Around(h) = Around(g) /\ h.gone = g.gone
        BY <2>2, <2>3 DEF Grids, Around
  <2> DEFINE At(k) == IF k < i THEN k ELSE k + 1
  <2>5. /\ \A k \in DOMAIN h.used : At(k) \in DOMAIN g.used /\ h.used[k] = g.used[At(k)]
        /\ \A k, l \in DOMAIN h.used : At(k) = At(l) => k = l
    <3> HIDE DEF h
    <3>1. DOMAIN h.used = 1..Len(g.used) - 1 /\ DOMAIN g.used = 1..Len(g.used) /\ Len(g.used) \in Nat
          BY <2>1, <2>3, <2>4
    <3> QED BY <2>1, <2>3, <2>4, <3>1
  <2> HIDE DEF i, h, At
  <2>6. OneEach(g) => OneEach(h)
        BY <2>5 DEF OneEach
  <2>7. FocusRight(g) => FocusRight(h)
        BY <2>4, <2>5 DEF FocusRight, Around
  <2>8. Celled(g) => Celled(h)
        BY <2>4, <2>5 DEF Celled, Cell, Around
  <2> QED BY <2>4, <2>6, <2>7, <2>8 DEF h
<1> QED BY <1>1, <1>2

\* a cell is a row and a column
LEMMA CellType == ASSUME NEW g \in Grids, NEW p \in Nat PROVE Cell(g, p) \in Nat \X Nat
<1>1. g.columns \in Nat \ {0}
      BY SizesAssumption DEF Grids
<1>2. p \div g.columns \in Nat /\ p % g.columns \in Nat
      BY <1>1, Divided
<1> QED BY <1>2 DEF Cell

\* there is a view for the item; the first one found is bound to the data as it is
Has(g, p) == \E i \in DOMAIN g.used : g.used[i].pos = p
Fresh(g, p) == \E i \in DOMAIN g.used : /\ g.used[i].pos = p /\ g.used[i].bound
                                        /\ \A j \in 1..i - 1 : g.used[j].pos # p

\* NodeAt in terms of Has and Fresh
LEMMA HasNode ==
  ASSUME NEW g \in Grids, NEW p
  PROVE  /\ NodeAt(g, p) # 0 <=> Has(g, p)
         /\ NodeAt(g, p) # 0 => (g.used[NodeAt(g, p)].bound <=> Fresh(g, p))
<1>1. /\ g.used \in Seq(Node) /\ DOMAIN g.used = 1..Len(g.used) /\ Len(g.used) \in Nat
      BY DEF Grids
<1> DEFINE i == NodeAt(g, p)
<1>2. i = 0 => \A k \in DOMAIN g.used : g.used[k].pos # p
      BY <1>1, NodeFound
<1>3. i # 0 => i \in DOMAIN g.used /\ g.used[i].pos = p /\ \A k \in 1..i - 1 : g.used[k].pos # p
      BY <1>1, NodeFound
<1> HIDE DEF i
<1>4. i # 0 <=> Has(g, p)
      BY <1>1, <1>2, <1>3 DEF Has
<1>5. ASSUME i # 0, Fresh(g, p) PROVE g.used[i].bound
  <2>1. PICK j \in DOMAIN g.used : /\ g.used[j].pos = p /\ g.used[j].bound
                                   /\ \A k \in 1..j - 1 : g.used[k].pos # p
        BY <1>5 DEF Fresh
  <2>2. i = j
        BY <1>1, <1>3, <1>5, <2>1
  <2> QED BY <2>1, <2>2
<1>6. i # 0 /\ g.used[i].bound => Fresh(g, p)
      BY <1>3 DEF Fresh
<1> QED BY <1>4, <1>5, <1>6 DEF i

\* grid_obtain_item leaves a view bound to the data for its item, and changes nothing else:
\* the views stay one for each item, in their cells
LEMMA Obtained ==
  ASSUME NEW g \in Grids, NEW p \in 0..MaxItems - 1
  PROVE  LET h == ObtainItem(g, p)
         IN  /\ h \in Grids /\ Around(h) = Around(g) /\ h.failed = g.failed
             /\ OneEach(g) => OneEach(h)
             /\ FocusRight(g) => FocusRight(h)
             /\ Celled(g) => Celled(h)
             /\ Fresh(h, p) /\ Has(h, p)
             /\ \A q : q # p => /\ Has(h, q) <=> Has(g, q)
                                /\ Fresh(g, q) => Fresh(h, q)
                                /\ q \in h.gone <=> q \in g.gone
<1> DEFINE i == NodeAt(g, p)
           h == ObtainItem(g, p)
<1>0. g.used \in Seq(Node) /\ DOMAIN g.used = 1..Len(g.used) /\ Len(g.used) \in Nat
      BY DEF Grids
<1>1. CASE i = 0
  <2> DEFINE n == [pos |-> p, cell |-> Cell(g, p), bound |-> TRUE, focus |-> FALSE]
             u == <<n>> \o g.used
  <2>1. n \in Node
        BY CellType DEF Node
  <2>2. /\ n.pos = p /\ n.cell = Cell(g, p) /\ n.bound = TRUE /\ n.focus = FALSE
        OBVIOUS
  <2>3. h = [g EXCEPT !.used = u, !.gone = g.gone \ {p}]
        BY <1>1 DEF ObtainItem
  <2> HIDE DEF n
  <2>4. /\ u \in Seq(Node) /\ DOMAIN u = 1..Len(g.used) + 1 /\ u[1] = n
        /\ \A k \in 1..Len(g.used) : u[k + 1] = g.used[k]
        BY <2>1, <1>0, Pushed
  <2> HIDE DEF u
  <2>5. h \in Grids /\ h.used = u /\ Around(h) = Around(g) /\ h.failed = g.failed /\ h.gone = g.gone \ {p}
        BY <2>3, <2>4 DEF Grids, Around
  <2>6. \A k \in DOMAIN g.used : g.used[k].pos # p
        BY <1>0, <1>1, NodeFound
  <2> HIDE DEF h, i
  <2>7. \A k \in DOMAIN u : k # 1 => k - 1 \in DOMAIN g.used /\ u[k] = g.used[k - 1]
        BY <1>0, <2>4
  <2>8. OneEach(g) => OneEach(h)
    <3> SUFFICES ASSUME OneEach(g), NEW k \in DOMAIN u, NEW l \in DOMAIN u, u[k].pos = u[l].pos PROVE k = l
        BY <2>5 DEF OneEach
    <3>1. CASE k = 1 \/ l = 1
          BY <3>1, <2>2, <2>4, <2>6, <2>7
    <3>2. CASE k # 1 /\ l # 1
      <4>1. k - 1 = l - 1
            BY <3>2, <2>7 DEF OneEach
      <4> QED BY <4>1, <1>0, <2>4
    <3> QED BY <3>1, <3>2
  <2>9. FocusRight(g) => FocusRight(h)
        BY <2>2, <2>4, <2>5, <2>7 DEF FocusRight, Around
  <2>10. Celled(g) => Celled(h)
        BY <2>2, <2>4, <2>5, <2>7 DEF Celled, Cell, Around
  <2>11. Fresh(h, p) /\ Has(h, p)
        BY <1>0, <2>2, <2>4, <2>5 DEF Fresh, Has
  <2>12. ASSUME NEW q, q # p
         PROVE  /\ Has(h, q) <=> Has(g, q)
                /\ Fresh(g, q) => Fresh(h, q)
                /\ q \in h.gone <=> q \in g.gone
    <3>1. Has(h, q) <=> Has(g, q)
      <4>1. ASSUME NEW k \in DOMAIN u, u[k].pos = q PROVE Has(g, q)
        <5>1. k - 1 \in DOMAIN g.used /\ g.used[k - 1].pos = q
              BY <4>1, <2>2, <2>4, <2>7, <2>12
        <5> QED BY <5>1 DEF Has
      <4>2. ASSUME NEW k \in DOMAIN g.used, g.used[k].pos = q PROVE Has(h, q)
        <5>1. k + 1 \in DOMAIN u /\ u[k + 1].pos = q
              BY <4>2, <1>0, <2>4
        <5> QED BY <5>1, <2>5 DEF Has
      <4> QED BY <4>1, <4>2, <2>5 DEF Has
    <3>2. ASSUME Fresh(g, q) PROVE Fresh(h, q)
      <4>1. PICK k \in DOMAIN g.used : /\ g.used[k].pos = q /\ g.used[k].bound
                                       /\ \A j \in 1..k - 1 : g.used[j].pos # q
            BY <3>2 DEF Fresh
      <4>2. k + 1 \in DOMAIN u /\ u[k + 1].pos = q /\ u[k + 1].bound
            BY <1>0, <4>1, <2>4
      <4>3. ASSUME NEW j \in 1..k PROVE u[j].pos # q
        <5>1. CASE j = 1
              BY <5>1, <2>2, <2>4, <2>12
        <5>2. CASE j # 1
          <6>1. j - 1 \in 1..k - 1 /\ u[j] = g.used[j - 1]
                BY <5>2, <1>0, <2>4, <2>7
          <6> QED BY <6>1, <4>1
        <5> QED BY <5>1, <5>2
      <4> QED BY <1>0, <4>2, <4>3, <2>5 DEF Fresh
    <3> QED BY <3>1, <3>2, <2>5, <2>12
  <2> QED BY <2>5, <2>8, <2>9, <2>10, <2>11, <2>12 DEF h
<1>2. CASE i # 0
  <2> DEFINE u == [g.used EXCEPT ![i].bound = TRUE]
  <2>1. /\ i \in DOMAIN g.used /\ g.used[i].pos = p /\ \A k \in 1..i - 1 : g.used[k].pos # p
        BY <1>0, <1>2, NodeFound
  <2>2. h = [g EXCEPT !.used = u]
        BY <1>2 DEF ObtainItem
  <2> HIDE DEF i
  <2>3. /\ u \in Seq(Node) /\ DOMAIN u = DOMAIN g.used
        /\ \A k \in DOMAIN u : /\ u[k].pos = g.used[k].pos /\ u[k].cell = g.used[k].cell
                               /\ u[k].focus = g.used[k].focus
                               /\ u[k].bound = IF k = i THEN TRUE ELSE g.used[k].bound
    <3> DEFINE n == [g.used[i] EXCEPT !.bound = TRUE]
    <3>1. g.used[i] \in Node
          BY <1>0, <2>1
    <3>2. /\ n \in Node /\ n.pos = g.used[i].pos /\ n.cell = g.used[i].cell
          /\ n.focus = g.used[i].focus /\ n.bound = TRUE
          BY <3>1 DEF Node
    <3>3. u = [g.used EXCEPT ![i] = n]
          BY <1>0, <2>1
    <3> HIDE DEF n, u
    <3>4. u \in Seq(Node) /\ DOMAIN u = DOMAIN g.used /\ \A k \in DOMAIN u : u[k] = IF k = i THEN n ELSE g.used[k]
          BY <1>0, <2>1, <3>2, <3>3
    <3> QED BY <3>2, <3>4
  <2> HIDE DEF u
  <2>4. h \in Grids /\ h.used = u /\ Around(h) = Around(g) /\ h.failed = g.failed /\ h.gone = g.gone
        BY <2>2, <2>3 DEF Grids, Around
  <2> HIDE DEF h
  <2>5. OneEach(g) => OneEach(h)
        BY <2>3, <2>4 DEF OneEach
  <2>6. FocusRight(g) => FocusRight(h)
        BY <2>3, <2>4 DEF FocusRight, Around
  <2>7. Celled(g) => Celled(h)
        BY <2>3, <2>4 DEF Celled, Cell, Around
  <2>8. Fresh(h, p) /\ Has(h, p)
    <3>1. u[i].pos = p /\ u[i].bound = TRUE
          BY <2>1, <2>3
    <3>2. ASSUME NEW k \in 1..i - 1 PROVE u[k].pos # p
      <4>1. k \in DOMAIN u
            BY <1>0, <2>1, <2>3
      <4> QED BY <4>1, <2>1, <2>3
    <3> QED BY <3>1, <3>2, <2>1, <2>3, <2>4 DEF Fresh, Has
  <2>9. ASSUME NEW q PROVE Has(h, q) <=> Has(g, q)
        BY <2>3, <2>4 DEF Has
  <2>10. ASSUME NEW q, Fresh(g, q) PROVE Fresh(h, q)
    <3>1. PICK k \in DOMAIN g.used : /\ g.used[k].pos = q /\ g.used[k].bound
                                     /\ \A j \in 1..k - 1 : g.used[j].pos # q
          BY <2>10 DEF Fresh
    <3>2. k \in DOMAIN u /\ u[k].pos = q /\ u[k].bound
          BY <2>3, <3>1
    <3>3. ASSUME NEW j \in 1..k - 1 PROVE u[j].pos # q
      <4>1. j \in DOMAIN u
            BY <1>0, <2>3
      <4> QED BY <4>1, <2>3, <3>1
    <3> QED BY <2>4, <3>2, <3>3 DEF Fresh
  <2> QED BY <2>4, <2>5, <2>6, <2>7, <2>8, <2>9, <2>10 DEF h
<1> QED BY <1>1, <1>2

\* the focused position, and whether one view is told that it has the focus
SetFlag(g, f, i, b) == [g EXCEPT !.focused = f, !.used[i].focus = b]

\* one view is told of its focus: no other view changes, and this one in nothing else
LEMMA Flagged ==
  ASSUME NEW g \in Grids, NEW i \in DOMAIN g.used, NEW f \in -1..MaxItems - 1, NEW b \in BOOLEAN,
         NEW h, h = SetFlag(g, f, i, b)
  PROVE  /\ h \in Grids /\ Frame(h) = Frame(g) /\ h.focused = f
         /\ h.failed = g.failed /\ h.gone = g.gone
         /\ DOMAIN h.used = DOMAIN g.used
         /\ \A k \in DOMAIN g.used : /\ h.used[k].pos = g.used[k].pos
                                     /\ k # i => h.used[k].focus = g.used[k].focus
         /\ h.used[i].focus <=> b
         /\ OneEach(g) => OneEach(h)
         /\ Celled(g) => Celled(h)
         /\ \A q : (Has(h, q) <=> Has(g, q)) /\ (Fresh(g, q) => Fresh(h, q))
<1> DEFINE u == [g.used EXCEPT ![i].focus = b]
           n == [g.used[i] EXCEPT !.focus = b]
<1>1. g.used \in Seq(Node) /\ DOMAIN g.used = 1..Len(g.used) /\ Len(g.used) \in Nat /\ g.used[i] \in Node
      BY DEF Grids
<1>2. /\ n \in Node /\ n.pos = g.used[i].pos /\ n.cell = g.used[i].cell
      /\ n.bound = g.used[i].bound /\ n.focus = b
      BY <1>1 DEF Node
<1>3. u = [g.used EXCEPT ![i] = n]
      BY <1>1
<1>4. h = [g EXCEPT !.focused = f, !.used = u]
      BY DEF SetFlag
<1> HIDE DEF n, u
<1>5. u \in Seq(Node) /\ DOMAIN u = DOMAIN g.used /\ \A k \in DOMAIN u : u[k] = IF k = i THEN n ELSE g.used[k]
      BY <1>1, <1>2, <1>3
<1>6. \A k \in DOMAIN u : /\ u[k].pos = g.used[k].pos /\ u[k].cell = g.used[k].cell
                          /\ u[k].bound = g.used[k].bound
                          /\ k # i => u[k].focus = g.used[k].focus
      BY <1>2, <1>5
<1>7. /\ h \in Grids /\ h.used = u /\ Frame(h) = Frame(g) /\ h.focused = f
      /\ h.failed = g.failed /\ h.gone = g.gone
      BY <1>4, <1>5 DEF Grids, Frame
<1>8. OneEach(g) => OneEach(h)
      BY <1>5, <1>6, <1>7 DEF OneEach
<1>9. Celled(g) => Celled(h)
      BY <1>5, <1>6, <1>7 DEF Celled, Cell, Frame
<1>10. ASSUME NEW q PROVE Has(h, q) <=> Has(g, q)
       BY <1>5, <1>6, <1>7 DEF Has
<1>11. ASSUME NEW q, Fresh(g, q) PROVE Fresh(h, q)
  <2>1. PICK k \in DOMAIN g.used : /\ g.used[k].pos = q /\ g.used[k].bound
                                   /\ \A j \in 1..k - 1 : g.used[j].pos # q
        BY <1>11 DEF Fresh
  <2>2. k \in DOMAIN u /\ u[k].pos = q /\ u[k].bound
        BY <1>5, <1>6, <2>1
  <2>3. ASSUME NEW j \in 1..k - 1 PROVE u[j].pos # q
    <3>1. j \in DOMAIN u
          BY <1>1, <1>5
    <3> QED BY <3>1, <1>6, <2>1
  <2> QED BY <1>7, <2>2, <2>3 DEF Fresh
<1>12. u[i].focus <=> b
       BY <1>2, <1>5
<1> QED BY <1>5, <1>6, <1>7, <1>8, <1>9, <1>10, <1>11, <1>12

\* what lv_gridview.c keeps for an item of the window
Covered(g, q) == /\ Has(g, q) \/ q \in g.gone
                 /\ Has(g, q) /\ q < g.stale => Fresh(g, q)

\* afterwards no view has the focus, unless it is where it goes
LEMMA Unfocused ==
  ASSUME NEW g \in Grids, NEW p \in Int
  PROVE  LET h == Unfocus(g, p)
         IN  /\ h \in Grids /\ Frame(h) = Frame(g) /\ h.failed = g.failed /\ h.gone = g.gone
             /\ h.focused = -1 \/ h.focused = p
             /\ OneEach(g) => OneEach(h)
             /\ OneEach(g) /\ FocusRight(g) => FocusRight(h)
             /\ Celled(g) => Celled(h)
             /\ \A q : (Has(h, q) <=> Has(g, q)) /\ (Fresh(g, q) => Fresh(h, q))
<1> DEFINE i == NodeAt(g, g.focused)
           h == Unfocus(g, p)
<1>0. g.used \in Seq(Node) /\ g.focused \in -1..MaxItems - 1 /\ -1 \in -1..MaxItems - 1
      BY ItemsAssumption DEF Grids
<1>1. CASE g.focused < 0 \/ p = g.focused
  <2>1. h = g
        BY <1>1 DEF Unfocus
  <2> QED BY <1>0, <1>1, <2>1
<1>2. CASE ~(g.focused < 0 \/ p = g.focused) /\ i = 0
  <2>1. h = [g EXCEPT !.focused = -1]
        BY <1>2 DEF Unfocus
  <2>2. \A k \in DOMAIN g.used : g.used[k].pos # g.focused
        BY <1>0, <1>2, NodeFound
  <2>3. /\ h \in Grids /\ Frame(h) = Frame(g) /\ h.failed = g.failed /\ h.gone = g.gone
        /\ h.focused = -1 /\ h.used = g.used
        BY <1>0, <2>1 DEF Grids, Frame
  <2> HIDE DEF h
  <2> QED BY <2>2, <2>3 DEF OneEach, FocusRight, Celled, Cell, Frame, Has, Fresh, h
<1>3. CASE ~(g.focused < 0 \/ p = g.focused) /\ i # 0
  <2>1. h = SetFlag(g, -1, i, FALSE)
        BY <1>3 DEF Unfocus, SetFlag
  <2>2. i \in DOMAIN g.used /\ g.used[i].pos = g.focused
        BY <1>0, <1>3, NodeFound
  <2> HIDE DEF i, h
  <2>5. PICK b \in BOOLEAN : b = FALSE
        OBVIOUS
  <2>6. h = SetFlag(g, -1, i, b)
        BY <2>1, <2>5
  <2>3. /\ h \in Grids /\ Frame(h) = Frame(g) /\ h.focused = -1
        /\ h.failed = g.failed /\ h.gone = g.gone
        /\ DOMAIN h.used = DOMAIN g.used
        /\ \A k \in DOMAIN g.used : /\ h.used[k].pos = g.used[k].pos
                                    /\ k # i => h.used[k].focus = g.used[k].focus
        /\ ~h.used[i].focus
        /\ OneEach(g) => OneEach(h)
        /\ Celled(g) => Celled(h)
        /\ \A q : (Has(h, q) <=> Has(g, q)) /\ (Fresh(g, q) => Fresh(h, q))
        BY <1>0, <2>5, <2>6, <2>2, Flagged
  <2>4. OneEach(g) /\ FocusRight(g) => FocusRight(h)
        BY <2>2, <2>3 DEF OneEach, FocusRight
  <2> QED BY <2>3, <2>4 DEF h
<1> QED BY <1>1, <1>2, <1>3

\* a view in use gets the focus when no other has it
LEMMA FocusGiven ==
  ASSUME NEW g \in Grids, NEW p \in 0..MaxItems - 1, Has(g, p), g.focused = -1 \/ g.focused = p
  PROVE  LET h == GiveFocus(g, p)
         IN  /\ h \in Grids /\ Frame(h) = Frame(g) /\ h.failed = g.failed
             /\ OneEach(g) => OneEach(h)
             /\ FocusRight(g) => FocusRight(h)
             /\ Celled(g) => Celled(h)
             /\ \A q : Covered(g, q) => Covered(h, q)
<1> DEFINE i == NodeAt(g, p)
           h == GiveFocus(g, p)
<1>1. i \in DOMAIN g.used /\ g.used[i].pos = p
  <2>1. g.used \in Seq(Node)
        BY DEF Grids
  <2> QED BY <2>1, HasNode, NodeFound
<1>2. PICK b \in BOOLEAN : b = TRUE
      OBVIOUS
<1>3. h = SetFlag(g, p, i, b)
      BY <1>2 DEF GiveFocus, SetFlag
<1>4. p \in -1..MaxItems - 1
      OBVIOUS
<1> HIDE DEF i, h
<1>5. /\ h \in Grids /\ Frame(h) = Frame(g) /\ h.focused = p
      /\ h.failed = g.failed /\ h.gone = g.gone
      /\ DOMAIN h.used = DOMAIN g.used
      /\ \A k \in DOMAIN g.used : /\ h.used[k].pos = g.used[k].pos
                                  /\ k # i => h.used[k].focus = g.used[k].focus
      /\ OneEach(g) => OneEach(h)
      /\ Celled(g) => Celled(h)
      /\ \A q : (Has(h, q) <=> Has(g, q)) /\ (Fresh(g, q) => Fresh(h, q))
      BY <1>1, <1>3, <1>4, Flagged
<1>6. FocusRight(g) => FocusRight(h)
  <2> SUFFICES ASSUME FocusRight(g), NEW k \in DOMAIN g.used, h.used[k].focus PROVE g.used[k].pos = p
      BY <1>5 DEF FocusRight
  <2>1. CASE k = i
        BY <2>1, <1>1
  <2>2. CASE k # i
    <3>1. g.used[k].focus
          BY <2>2, <1>5
    <3>2. g.used[k].pos = g.focused /\ g.used[k] \in Node
          BY <3>1 DEF FocusRight, Grids
    <3> QED BY <3>2 DEF Node
  <2> QED BY <2>1, <2>2
<1>7. \A q : Covered(g, q) => Covered(h, q)
      BY <1>5 DEF Covered, Frame
<1> QED BY <1>5, <1>6, <1>7 DEF h

\* lv_gridview_focus moves the focus from one view to another, and unbinds none
LEMMA Focused ==
  ASSUME NEW g \in Grids, NEW p \in Int
  PROVE  LET h == Focus(g, p)
         IN  /\ h \in Grids /\ Frame(h) = Frame(g) /\ h.failed = g.failed
             /\ OneEach(g) => OneEach(h)
             /\ OneEach(g) /\ FocusRight(g) => FocusRight(h)
             /\ Celled(g) => Celled(h)
             /\ \A q : Covered(g, q) => Covered(h, q)
<1> DEFINE u == Unfocus(g, p)
           v == IF NodeAt(u, p) = 0 THEN ObtainItem(u, p) ELSE u
<1>1. /\ u \in Grids /\ Frame(u) = Frame(g) /\ u.failed = g.failed /\ u.gone = g.gone
      /\ u.focused = -1 \/ u.focused = p
      /\ OneEach(g) => OneEach(u)
      /\ OneEach(g) /\ FocusRight(g) => FocusRight(u)
      /\ Celled(g) => Celled(u)
      /\ \A q : (Has(u, q) <=> Has(g, q)) /\ (Fresh(g, q) => Fresh(u, q))
      BY Unfocused
<1>2. \A q : Covered(g, q) => Covered(u, q)
      BY <1>1 DEF Covered, Frame
<1>3. CASE p < 0 \/ p >= u.items
      BY <1>1, <1>2, <1>3 DEF Focus
<1>4. CASE ~(p < 0 \/ p >= u.items)
  <2>1. Focus(g, p) = GiveFocus(v, p)
        BY <1>4 DEF Focus
  <2>2. p \in 0..MaxItems - 1
        BY <1>1, <1>4, ItemsAssumption DEF Grids
  <2>3. /\ v \in Grids /\ Frame(v) = Frame(u) /\ v.focused = u.focused /\ v.failed = u.failed
        /\ Has(v, p)
        /\ OneEach(u) => OneEach(v)
        /\ FocusRight(u) => FocusRight(v)
        /\ Celled(u) => Celled(v)
        /\ \A q : Covered(u, q) => Covered(v, q)
    <3>1. CASE NodeAt(u, p) = 0
          BY <1>1, <2>2, <3>1, Obtained DEF Around, Frame, Covered
    <3>2. CASE NodeAt(u, p) # 0
          BY <1>1, <3>2, HasNode
    <3> QED BY <3>1, <3>2
  <2> HIDE DEF u, v
  <2> QED BY <1>1, <1>2, <2>1, <2>2, <2>3, FocusGiven
<1> QED BY <1>3, <1>4

\* a view is moved with its item, to the right cell unless its row is beyond uint8_t
LEMMA Moved ==
  ASSUME NEW g \in Grids, NEW p \in Int, NEW delta \in Int, p + delta \in 0..MaxItems - 1
  PROVE  LET h == MoveItem(g, p, delta)
         IN  /\ h \in Grids /\ Around(h) = Around(g)
             /\ ShortGrid /\ Celled(g) => Celled(h)
<1> DEFINE i == NodeAt(g, p)
           h == MoveItem(g, p, delta)
           q == p + delta
           cell == <<(q \div g.columns) % 256, q % g.columns>>
<1>0. /\ g.used \in Seq(Node) /\ DOMAIN g.used = 1..Len(g.used) /\ Len(g.used) \in Nat
      /\ g.columns \in Columns
      BY DEF Grids
<1>4. g.columns \in Nat \ {0}
      BY <1>0, SizesAssumption
<1>1. CASE h = RecycleItem(g, p, TRUE)
      BY <1>1, Recycled
<1>2. CASE h = g
      BY <1>2
<1>3. CASE i # 0 /\ h = [g EXCEPT !.used[i].pos = q, !.used[i].cell = cell]
  <2> DEFINE n == [g.used[i] EXCEPT !.pos = q, !.cell = cell]
             u == [g.used EXCEPT ![i] = n]
  <2>1. i \in DOMAIN g.used /\ g.used[i] \in Node
        BY <1>0, <1>3, NodeFound
  <2>2. q \in 0..MaxItems - 1
        OBVIOUS
  <2>3. (q \div g.columns) \in Nat /\ (q \div g.columns) % 256 \in Nat /\ q % g.columns \in Nat
        BY <1>4, <2>2, Divided
  <2>4. cell \in Nat \X Nat
        BY <2>3
  <2>5. ShortGrid => cell = Cell(g, q)
    <3>1. ShortGrid => q \div g.columns < 256
          BY <1>0, <2>2 DEF ShortGrid
    <3>2. ShortGrid => (q \div g.columns) % 256 = q \div g.columns
          BY <2>3, <3>1
    <3> QED BY <3>2 DEF Cell
  <2> HIDE DEF q, cell
  <2>6. n \in Node /\ n.pos = q /\ n.cell = cell
        BY <2>1, <2>2, <2>4 DEF Node
  <2>7. u = [g.used EXCEPT ![i] = n]
        OBVIOUS
  <2>8. h = [g EXCEPT !.used = u]
        BY <1>3, <2>1
  <2> HIDE DEF n, u, i
  <2>9. u \in Seq(Node) /\ DOMAIN u = DOMAIN g.used /\ \A k \in DOMAIN u : u[k] = IF k = i THEN n ELSE g.used[k]
        BY <1>0, <2>1, <2>6, <2>7
  <2>10. h \in Grids /\ h.used = u /\ Around(h) = Around(g)
        BY <2>8, <2>9 DEF Grids, Around
  <2> HIDE DEF h
  <2>11. ShortGrid /\ Celled(g) => Celled(h)
    <3> SUFFICES ASSUME ShortGrid, Celled(g), NEW k \in DOMAIN u PROVE u[k].cell = Cell(g, u[k].pos)
        BY <2>10 DEF Celled, Cell, Around
    <3> QED BY <2>5, <2>6, <2>9 DEF Celled
  <2> QED BY <2>10, <2>11 DEF h
<1> QED BY <1>1, <1>2, <1>3 DEF MoveItem

-----------------------------------------------------------------------------
(* The loops over items: an operation on one item after the other. A fold   *)
(* is the last of the grids that they go through.                           *)

Does(g, s) == IF s.kind = "recycle" THEN RecycleItem(g, s.item, s.with)
              ELSE IF s.kind = "obtain" THEN ObtainItem(g, s.item)
              ELSE MoveItem(g, s.item, s.with)

\* what the function inside FoldLeft is a fixed point of
Loop(f, g, steps, n) == [s \in SUBSET (1..n) |->
    IF s = {} THEN g ELSE Does(f[s \ {Max(s)}], steps[Max(s)])]
IsLoop(f, g, steps, n) == f = Loop(f, g, steps, n)
Runs(r, g, steps, n) == r[0] = g /\ \A k \in 1..n : r[k] = Does(r[k - 1], steps[k])

\* there is such a function: the steps up to k + 1 extend those up to k
LEMMA LoopExists ==
  ASSUME NEW g, NEW steps, NEW n \in Nat
  PROVE  \E f : f = Loop(f, g, steps, n)
<1> DEFINE T == {m \in 0..n : \E f : f = Loop(f, g, steps, m)}
<1>1. 0 \in T
  <2>1. [s \in SUBSET (1..0) |-> g] = Loop([s \in SUBSET (1..0) |-> g], g, steps, 0)
        BY DEF Loop
  <2> QED BY <2>1
<1>2. \A k \in 0..n - 1 : k \in T => k + 1 \in T
  <2> SUFFICES ASSUME NEW k \in 0..n - 1, NEW f, f = Loop(f, g, steps, k) PROVE k + 1 \in T
      OBVIOUS
  <2> DEFINE h == [s \in SUBSET (1..k + 1) |->
          IF k + 1 \in s THEN Does(f[s \ {k + 1}], steps[k + 1]) ELSE f[s]]
  <2> USE DEF Loop
  <2>1. ASSUME NEW s \in SUBSET (1..k + 1), k + 1 \in s
        PROVE  h[s] = Loop(h, g, steps, k + 1)[s]
    <3>1. Max(s) = k + 1
          BY <2>1, MaxIs
    <3>2. s \ {k + 1} \in SUBSET (1..k + 1) /\ k + 1 \notin s \ {k + 1}
          OBVIOUS
    <3>3. h[s \ {k + 1}] = f[s \ {k + 1}]
          BY <3>2
    <3> QED BY <2>1, <3>1, <3>3
  <2>2. ASSUME NEW s \in SUBSET (1..k + 1), k + 1 \notin s, s # {}
        PROVE  h[s] = Loop(h, g, steps, k + 1)[s]
    <3>1. s \in SUBSET (1..k)
          BY <2>2
    <3>2. \A t \in SUBSET (1..k) : h[t] = f[t]
          BY k + 1 \notin 1..k
    <3>3. s \ {Max(s)} \in SUBSET (1..k)
          BY <3>1
    <3>4. f[s] = Does(f[s \ {Max(s)}], steps[Max(s)])
          BY <3>1, <2>2
    <3> HIDE DEF h
    <3> QED BY <3>1, <3>2, <3>3, <3>4, <2>2
  <2>3. h[{}] = g
        BY {} \in SUBSET (1..k)
  <2>4. h = Loop(h, g, steps, k + 1)
    <3>1. \A s \in SUBSET (1..k + 1) : h[s] = Loop(h, g, steps, k + 1)[s]
          BY <2>1, <2>2, <2>3
    <3> QED BY <3>1
  <2> HIDE DEF h, Loop
  <2>5. k + 1 \in 0..n /\ \E e : e = Loop(e, g, steps, k + 1)
        BY <2>4
  <2> QED BY <2>5
<1> HIDE DEF T
<1>3. \A m \in 0..n : m \in T
      BY <1>1, <1>2, UpTo
<1> QED BY <1>3, n \in 0..n DEF T

\* the fixed point at 1..k is the grid after k steps
LEMMA LoopRuns ==
  ASSUME NEW g, NEW steps, NEW n \in Nat, NEW f, IsLoop(f, g, steps, n)
  PROVE  \E r : Runs(r, g, steps, n) /\ r[n] = f[1..n]
<1> DEFINE r == [k \in 0..n |-> f[1..k]]
<1>1. r[0] = g
  <2>1. 1..0 = {}
        OBVIOUS
  <2> QED BY <2>1 DEF Loop, IsLoop
<1>2. ASSUME NEW k \in 1..n PROVE r[k] = Does(r[k - 1], steps[k])
  <2>1. 1..k \in SUBSET (1..n) /\ 1..k # {}
        OBVIOUS
  <2>2. Max(1..k) = k
        BY MaxIs
  <2>3. (1..k) \ {k} = 1..k - 1
        OBVIOUS
  <2>4. f[1..k] = Does(f[1..k - 1], steps[k])
        BY <2>1, <2>2, <2>3 DEF Loop, IsLoop
  <2> QED BY <2>4
<1>3. r[n] = f[1..n]
      OBVIOUS
<1> HIDE DEF r
<1> QED BY <1>1, <1>2, <1>3 DEF Runs

\* RecycleAll goes through the items one after the other
LEMMA RecycleAllRuns ==
  ASSUME NEW g, NEW seq, NEW n \in Nat, DOMAIN seq = 1..n, NEW optional \in BOOLEAN
  PROVE  \E r : /\ r[0] = g
                /\ \A k \in 1..n : r[k] = RecycleItem(r[k - 1], seq[k], optional)
                /\ r[n] = RecycleAll(g, seq, optional)
<1> DEFINE steps == [k \in 1..n |-> [kind |-> "recycle", item |-> seq[k], with |-> optional]]
           Body(f) == [s \in SUBSET (1..n) |->
              IF s = {} THEN g ELSE RecycleItem(f[s \ {Max(s)}], seq[Max(s)], optional)]
           it == CHOOSE f : f = Body(f)
<1>1. ASSUME NEW f PROVE Body(f) = Loop(f, g, steps, n)
  <2>1. ASSUME NEW s \in SUBSET (1..n), s # {} PROVE Max(s) \in 1..n
    <3>1. s \in SUBSET (0..n)
          OBVIOUS
    <3> QED BY <2>1, <3>1, GreatestOf
  <2> QED BY <2>1 DEF Loop, Does
<1>2. RecycleAll(g, seq, optional) = it[1..n]
      BY DEF RecycleAll, FoldLeft, MapThenFoldSet
<1>3. \A h : \A k \in 1..n : Does(h, steps[k]) = RecycleItem(h, seq[k], optional)
      BY DEF Does
<1> HIDE DEF Body, steps
<1>4. \E f : f = Body(f)
      BY <1>1, LoopExists
<1>5. IsLoop(it, g, steps, n)
      BY <1>1, <1>4 DEF IsLoop
<1> HIDE DEF it
<1>6. PICK r : Runs(r, g, steps, n) /\ r[n] = it[1..n]
      BY <1>5, LoopRuns
<1> QED BY <1>2, <1>3, <1>6 DEF Runs

\* so does the fold of ObtainItem
LEMMA ObtainAllRuns ==
  ASSUME NEW g, NEW seq, NEW n \in Nat, DOMAIN seq = 1..n
  PROVE  \E r : /\ r[0] = g
                /\ \A k \in 1..n : r[k] = ObtainItem(r[k - 1], seq[k])
                /\ r[n] = FoldLeft(ObtainItem, g, seq)
<1> DEFINE steps == [k \in 1..n |-> [kind |-> "obtain", item |-> seq[k]]]
           Body(f) == [s \in SUBSET (1..n) |->
              IF s = {} THEN g ELSE ObtainItem(f[s \ {Max(s)}], seq[Max(s)])]
           it == CHOOSE f : f = Body(f)
<1>1. ASSUME NEW f PROVE Body(f) = Loop(f, g, steps, n)
  <2>1. ASSUME NEW s \in SUBSET (1..n), s # {} PROVE Max(s) \in 1..n
    <3>1. s \in SUBSET (0..n)
          OBVIOUS
    <3> QED BY <2>1, <3>1, GreatestOf
  <2> QED BY <2>1 DEF Loop, Does
<1>2. FoldLeft(ObtainItem, g, seq) = it[1..n]
      BY DEF FoldLeft, MapThenFoldSet
<1>3. \A h : \A k \in 1..n : Does(h, steps[k]) = ObtainItem(h, seq[k])
      BY DEF Does
<1> HIDE DEF Body, steps
<1>4. \E f : f = Body(f)
      BY <1>1, LoopExists
<1>5. IsLoop(it, g, steps, n)
      BY <1>1, <1>4 DEF IsLoop
<1> HIDE DEF it
<1>6. PICK r : Runs(r, g, steps, n) /\ r[n] = it[1..n]
      BY <1>5, LoopRuns
<1> QED BY <1>2, <1>3, <1>6 DEF Runs

MoveAll(g, seq, delta) == FoldLeft(LAMBDA acc, p : MoveItem(acc, p, delta), g, seq)

\* and that of MoveItem
LEMMA MoveAllRuns ==
  ASSUME NEW g, NEW seq, NEW n \in Nat, DOMAIN seq = 1..n, NEW delta \in Int
  PROVE  \E r : /\ r[0] = g
                /\ \A k \in 1..n : r[k] = MoveItem(r[k - 1], seq[k], delta)
                /\ r[n] = MoveAll(g, seq, delta)
<1> DEFINE steps == [k \in 1..n |-> [kind |-> "move", item |-> seq[k], with |-> delta]]
           Body(f) == [s \in SUBSET (1..n) |->
              IF s = {} THEN g ELSE MoveItem(f[s \ {Max(s)}], seq[Max(s)], delta)]
           it == CHOOSE f : f = Body(f)
<1>1. ASSUME NEW f PROVE Body(f) = Loop(f, g, steps, n)
  <2>1. ASSUME NEW s \in SUBSET (1..n), s # {} PROVE Max(s) \in 1..n
    <3>1. s \in SUBSET (0..n)
          OBVIOUS
    <3> QED BY <2>1, <3>1, GreatestOf
  <2> QED BY <2>1 DEF Loop, Does
<1>2. MoveAll(g, seq, delta) = it[1..n]
      BY DEF MoveAll, FoldLeft, MapThenFoldSet
<1>3. \A h : \A k \in 1..n : Does(h, steps[k]) = MoveItem(h, seq[k], delta)
      BY DEF Does
<1> HIDE DEF Body, steps
<1>4. \E f : f = Body(f)
      BY <1>1, LoopExists
<1>5. IsLoop(it, g, steps, n)
      BY <1>1, <1>4 DEF IsLoop
<1> HIDE DEF it
<1>6. PICK r : Runs(r, g, steps, n) /\ r[n] = it[1..n]
      BY <1>5, LoopRuns
<1> QED BY <1>2, <1>3, <1>6 DEF Runs

\* no items, no move
LEMMA MoveNone ==
  ASSUME NEW g, NEW seq, DOMAIN seq = 1..0, NEW delta \in Int
  PROVE  MoveAll(g, seq, delta) = g
<1>1. PICK r : /\ r[0] = g
               /\ \A k \in 1..0 : r[k] = MoveItem(r[k - 1], seq[k], delta)
               /\ r[0] = MoveAll(g, seq, delta)
      BY 0 \in Nat, MoveAllRuns
<1> QED BY <1>1

\* what recycling one item keeps, recycling many keeps
LEMMA RecycledAll ==
  ASSUME NEW g \in Grids, NEW seq, NEW n \in Nat, DOMAIN seq = 1..n, NEW optional \in BOOLEAN
  PROVE  LET h == RecycleAll(g, seq, optional)
         IN  /\ h \in Grids /\ Around(h) = Around(g) /\ h.gone = g.gone
             /\ OneEach(g) => OneEach(h)
             /\ FocusRight(g) => FocusRight(h)
             /\ Celled(g) => Celled(h)
<1>1. PICK r : /\ r[0] = g
               /\ \A k \in 1..n : r[k] = RecycleItem(r[k - 1], seq[k], optional)
               /\ r[n] = RecycleAll(g, seq, optional)
      BY RecycleAllRuns
<1> DEFINE Kept(h) == /\ h \in Grids /\ Around(h) = Around(g) /\ h.gone = g.gone
                      /\ OneEach(g) => OneEach(h)
                      /\ FocusRight(g) => FocusRight(h)
                      /\ Celled(g) => Celled(h)
           T == {k \in 0..n : Kept(r[k])}
<1>2. 0 \in T
      BY <1>1
<1>3. ASSUME NEW k \in 0..n - 1, k \in T PROVE k + 1 \in T
  <2>1. r[k + 1] = RecycleItem(r[k], seq[k + 1], optional)
        BY <1>1
  <2>2. Kept(r[k])
        BY <1>3
  <2>3. Kept(RecycleItem(r[k], seq[k + 1], optional))
        BY <2>2, Recycled
  <2> HIDE DEF Kept
  <2> QED BY <2>1, <2>3
<1> HIDE DEF T, Kept
<1>4. \A k \in 0..n : k \in T
      BY <1>2, <1>3, UpTo
<1>5. Kept(r[n])
      BY <1>4, n \in 0..n DEF T
<1> QED BY <1>1, <1>5 DEF Kept

\* every item bound has a view bound to the data then, those before it kept
LEMMA ObtainedAll ==
  ASSUME NEW g \in Grids, NEW seq, NEW n \in Nat, DOMAIN seq = 1..n,
         \A k \in 1..n : seq[k] \in 0..MaxItems - 1
  PROVE  LET h == FoldLeft(ObtainItem, g, seq)
         IN  /\ h \in Grids /\ Around(h) = Around(g) /\ h.failed = g.failed
             /\ OneEach(g) => OneEach(h)
             /\ FocusRight(g) => FocusRight(h)
             /\ Celled(g) => Celled(h)
             /\ \A k \in 1..n : Has(h, seq[k]) /\ Fresh(h, seq[k])
             /\ \A q : Covered(g, q) => Covered(h, q)
<1>1. PICK r : /\ r[0] = g
               /\ \A k \in 1..n : r[k] = ObtainItem(r[k - 1], seq[k])
               /\ r[n] = FoldLeft(ObtainItem, g, seq)
      BY ObtainAllRuns
<1> DEFINE Kept(h) == /\ h \in Grids /\ Around(h) = Around(g) /\ h.failed = g.failed
                      /\ OneEach(g) => OneEach(h)
                      /\ FocusRight(g) => FocusRight(h)
                      /\ Celled(g) => Celled(h)
                      /\ \A q : Covered(g, q) => Covered(h, q)
           Bound(k, h) == \A j \in 1..k : Has(h, seq[j]) /\ Fresh(h, seq[j])
           T == {k \in 0..n : Kept(r[k]) /\ Bound(k, r[k])}
<1>2. 0 \in T
      BY <1>1
<1>3. ASSUME NEW k \in 0..n - 1, k \in T PROVE k + 1 \in T
  <2> DEFINE h == ObtainItem(r[k], seq[k + 1])
  <2>1. r[k + 1] = h /\ seq[k + 1] \in 0..MaxItems - 1
        BY <1>1
  <2>2. Kept(r[k]) /\ Bound(k, r[k])
        BY <1>3
  <2>3. /\ h \in Grids /\ Around(h) = Around(r[k]) /\ h.failed = r[k].failed
        /\ OneEach(r[k]) => OneEach(h)
        /\ FocusRight(r[k]) => FocusRight(h)
        /\ Celled(r[k]) => Celled(h)
        /\ Fresh(h, seq[k + 1]) /\ Has(h, seq[k + 1])
        /\ \A q : q # seq[k + 1] => /\ Has(h, q) <=> Has(r[k], q)
                                    /\ Fresh(r[k], q) => Fresh(h, q)
                                    /\ q \in h.gone <=> q \in r[k].gone
        BY <2>1, <2>2, Obtained
  <2> HIDE DEF h
  <2>4. \A q : Covered(r[k], q) => Covered(h, q)
        BY <2>3 DEF Covered, Around
  <2>5. Kept(h)
        BY <2>2, <2>3, <2>4
  <2>6. ASSUME NEW j \in 1..k + 1 PROVE Has(h, seq[j]) /\ Fresh(h, seq[j])
    <3>1. j \in 1..k \/ j = k + 1
          OBVIOUS
    <3> QED BY <3>1, <2>2, <2>3
  <2> HIDE DEF Kept
  <2> QED BY <2>1, <2>5, <2>6
<1> HIDE DEF T, Kept
<1>4. \A k \in 0..n : k \in T
      BY <1>2, <1>3, UpTo
<1>5. Kept(r[n]) /\ Bound(n, r[n])
      BY <1>4, n \in 0..n DEF T
<1> QED BY <1>1, <1>5 DEF Kept

\* what moving one item keeps, moving many keeps
LEMMA MovedAll ==
  ASSUME NEW g \in Grids, NEW seq, NEW n \in Nat, DOMAIN seq = 1..n, NEW delta \in Int,
         \A k \in 1..n : seq[k] \in Int /\ seq[k] + delta \in 0..MaxItems - 1
  PROVE  LET h == MoveAll(g, seq, delta)
         IN  /\ h \in Grids /\ Around(h) = Around(g)
             /\ ShortGrid /\ Celled(g) => Celled(h)
<1>1. PICK r : /\ r[0] = g
               /\ \A k \in 1..n : r[k] = MoveItem(r[k - 1], seq[k], delta)
               /\ r[n] = MoveAll(g, seq, delta)
      BY MoveAllRuns
<1> DEFINE Kept(h) == /\ h \in Grids /\ Around(h) = Around(g)
                      /\ ShortGrid /\ Celled(g) => Celled(h)
           T == {k \in 0..n : Kept(r[k])}
<1>2. 0 \in T
      BY <1>1
<1>3. ASSUME NEW k \in 0..n - 1, k \in T PROVE k + 1 \in T
  <2>1. r[k + 1] = MoveItem(r[k], seq[k + 1], delta)
        BY <1>1
  <2>2. Kept(r[k])
        BY <1>3
  <2>3. seq[k + 1] \in Int /\ seq[k + 1] + delta \in 0..MaxItems - 1
        OBVIOUS
  <2>4. Kept(MoveItem(r[k], seq[k + 1], delta))
        BY <2>2, <2>3, Moved
  <2> HIDE DEF Kept
  <2> QED BY <2>1, <2>4
<1> HIDE DEF T, Kept
<1>4. \A k \in 0..n : k \in T
      BY <1>2, <1>3, UpTo
<1>5. Kept(r[n])
      BY <1>4, n \in 0..n DEF T
<1> QED BY <1>1, <1>5 DEF Kept

-----------------------------------------------------------------------------
(* The window of rows                                                       *)

\* Interval spelled out
LEMMA IntervalIs ==
  ASSUME NEW a \in Int, NEW b \in Int
  PROVE  LET n == IF b - a + 1 >= 0 THEN b - a + 1 ELSE 0
         IN  /\ n \in Nat /\ Interval(a, b) \in Seq(Int)
             /\ DOMAIN Interval(a, b) = 1..n
             /\ \A k \in 1..n : Interval(a, b)[k] = a + k - 1
<1>1. Max({b - a + 1, 0}) = IF b - a + 1 >= 0 THEN b - a + 1 ELSE 0
      BY Two
<1> DEFINE n == IF b - a + 1 >= 0 THEN b - a + 1 ELSE 0
<1>2. n \in Nat
      OBVIOUS
<1>3. Interval(a, b) = [k \in 1..n |-> a + k - 1]
      BY <1>1 DEF Interval
<1> HIDE DEF n
<1>4. [k \in 1..n |-> a + k - 1] \in Seq(Int)
      BY <1>2
<1> QED BY <1>2, <1>3, <1>4 DEF n

\* the first and the last position of rows from a to b
FirstOf(g, a) == (IF a >= 0 THEN a ELSE 0) * g.columns
LastOf(g, b) == (IF (b + 1) * g.columns <= g.items THEN (b + 1) * g.columns ELSE g.items) - 1

\* the positions of rows are an interval of items
LEMMA PositionsAre ==
  ASSUME NEW g \in Grids, NEW a \in Int, NEW b \in Int
  PROVE  /\ FirstOf(g, a) \in Nat /\ LastOf(g, b) \in Int /\ LastOf(g, b) <= MaxItems - 1
         /\ Positions(g, a, b) = Interval(FirstOf(g, a), LastOf(g, b))
<1>1. g.columns \in Columns /\ g.items \in 0..MaxItems
      BY DEF Grids
<1>2. g.columns \in Nat \ {0} /\ g.items \in Nat /\ g.items <= MaxItems
  <2>1. g.columns \in Nat \ {0}
        BY <1>1, SizesAssumption
  <2> QED BY <1>1, <2>1, ItemsAssumption
<1>3. b + 1 \in Int /\ (b + 1) * g.columns \in Int /\ g.items \in Int
      BY <1>2
<1>4. /\ Max({a, 0}) = IF a >= 0 THEN a ELSE 0
      /\ Min({(b + 1) * g.columns, g.items})
           = IF (b + 1) * g.columns <= g.items THEN (b + 1) * g.columns ELSE g.items
  <2>1. Max({a, 0}) = IF a >= 0 THEN a ELSE 0
        BY Two
  <2> DEFINE c == (b + 1) * g.columns
  <2>2. c \in Int
        BY <1>3
  <2> HIDE DEF c
  <2>3. Min({c, g.items}) = IF c <= g.items THEN c ELSE g.items
        BY <1>3, <2>2, Two
  <2> QED BY <2>1, <2>3 DEF c
<1>5. FirstOf(g, a) \in Nat
      BY <1>2 DEF FirstOf
<1> QED BY <1>2, <1>3, <1>4, <1>5, ItemsAssumption DEF FirstOf, LastOf, Positions

Layout(g) == <<g.columns, g.rowHeight, g.items, g.rows, g.height, g.scroll>>

\* every item in rows from a to b has a view as the window promises
Filled(g, a, b) == \A q \in FirstOf(g, a)..LastOf(g, b) : Covered(g, q)

\* the rows to keep are rows, or none
LEMMA RenderedRows ==
  ASSUME NEW g \in Grids
  PROVE  /\ RenderStart(g) \in -1..MaxItems
         /\ RenderStart(g) >= 0 => RenderEnd(g) \in -1..MaxItems
<1>1. g.rows \in 0..MaxItems
      BY DEF Grids
<1> DEFINE R == {i \in 0..g.rows - 1 :
                   g.scroll - PadTop - Extend(g) <= Pitch(g) * i + g.rowHeight}
           Q == {i \in RenderStart(g)..g.rows - 1 :
                   g.scroll + g.height + PadBottom + Extend(g) >= Pitch(g) * i}
<1>2. R \in SUBSET Nat /\ R \in SUBSET (0..MaxItems)
      BY <1>1, ItemsAssumption
<1>3. RenderStart(g) = IF R = {} THEN -1 ELSE Min(R)
      BY DEF RenderStart
<1>4. RenderEnd(g) = IF Q = {} THEN -1 ELSE Max(Q)
      BY DEF RenderEnd
<1> HIDE DEF R
<1>5. RenderStart(g) \in -1..MaxItems
  <2>1. R # {} => Min(R) \in R
        BY <1>2, LeastOf
  <2>2. R # {} => Min(R) \in 0..MaxItems
        BY <1>2, <2>1
  <2>3. -1 \in -1..MaxItems /\ \A x \in 0..MaxItems : x \in -1..MaxItems
        BY ItemsAssumption
  <2> QED BY <1>3, <2>2, <2>3
<1>6. RenderStart(g) >= 0 => Q \in SUBSET (0..MaxItems)
      BY <1>1, <1>5, ItemsAssumption
<1> HIDE DEF Q
<1>7. RenderStart(g) >= 0 => RenderEnd(g) \in -1..MaxItems
  <2> SUFFICES ASSUME RenderStart(g) >= 0 PROVE RenderEnd(g) \in -1..MaxItems
      OBVIOUS
  <2>1. Q # {} => Max(Q) \in Q
        BY <1>6, GreatestOf, ItemsAssumption
  <2> QED BY <1>4, <1>6, <2>1, ItemsAssumption
<1> QED BY <1>5, <1>7

\* positions are a sequence of integers
LEMMA PositionsSeq ==
  ASSUME NEW g \in Grids, NEW a \in Int, NEW b \in Int
  PROVE  Positions(g, a, b) \in Seq(Int)
<1>1. PICK lo \in Int, hi \in Int : Positions(g, a, b) = Interval(lo, hi)
      BY PositionsAre
<1>2. Interval(lo, hi) \in Seq(Int)
      BY IntervalIs
<1> QED BY <1>1, <1>2

\* what holds of the views alone, whatever else of the grid changes
LEMMA UsedSame ==
  ASSUME NEW g, NEW h, h.used = g.used
  PROVE  /\ OneEach(g) => OneEach(h)
         /\ \A q : (Has(h, q) <=> Has(g, q)) /\ (Fresh(h, q) <=> Fresh(g, q))
         /\ h.columns = g.columns /\ Celled(g) => Celled(h)
         /\ h.focused = g.focused /\ FocusRight(g) => FocusRight(h)
BY DEF OneEach, Has, Fresh, Celled, Cell, FocusRight

\* fill_rows leaves a view bound to the data for every item in the rows it is given, also when
\* it then moves the focus
LEMMA RowsFilled ==
  ASSUME NEW g \in Grids, NEW start \in -1..MaxItems, NEW end \in -1..MaxItems,
         start >= 0, end >= start
  PROVE  LET h == FillRows(g, start, end)
         IN  /\ h \in Grids /\ Layout(h) = Layout(g) /\ h.start = start /\ h.end = end
             /\ OneEach(g) => OneEach(h)
             /\ OneEach(g) /\ FocusRight(g) => FocusRight(h)
             /\ Celled(g) => Celled(h)
             /\ Filled(h, start, end)
<1> DEFINE out == Positions(g, g.start, start - 1) \o Positions(g, end + 1, g.end)
           in == Positions(g, start, end)
           g1 == RecycleAll(g, out, FALSE)
           g2 == FoldLeft(ObtainItem, g1, in)
           g3 == [g2 EXCEPT !.start = start, !.end = end, !.stale = MaxItems]
           g4 == [Focus(g3, g3.later) EXCEPT !.later = -1]
           h == FillRows(g, start, end)
<1>1. start \in Int /\ end \in Int /\ g.start \in Int /\ g.end \in Int
      BY ItemsAssumption DEF Grids
<1>2. h = IF g3.later < 0 \/ g3.later >= g3.items THEN g3 ELSE g4
  <2>1. h = IF start < 0 \/ end < start THEN g
            ELSE IF g3.later < 0 \/ g3.later >= g3.items THEN g3 ELSE g4
        BY DEF FillRows
  <2>2. ~(start < 0 \/ end < start)
        BY <1>1
  <2> HIDE DEF h, g3, g4
  <2> QED BY <2>1, <2>2
<1>3. PICK n \in Nat : DOMAIN out = 1..n
  <2>1. Positions(g, g.start, start - 1) \in Seq(Int)
        BY <1>1, PositionsSeq
  <2>2. Positions(g, end + 1, g.end) \in Seq(Int)
        BY <1>1, PositionsSeq
  <2>3. out \in Seq(Int)
        BY <2>1, <2>2
  <2> HIDE DEF out
  <2> QED BY <2>3
<1>4. PICK k \in Nat : /\ DOMAIN in = 1..k
                       /\ \A j \in 1..k : in[j] \in 0..MaxItems - 1
                       /\ \A q \in FirstOf(g, start)..LastOf(g, end) : \E j \in 1..k : in[j] = q
  <2> DEFINE a == FirstOf(g, start)
             b == LastOf(g, end)
             len == IF b - a + 1 >= 0 THEN b - a + 1 ELSE 0
  <2>1. a \in Nat /\ b \in Int /\ b <= MaxItems - 1 /\ in = Interval(a, b)
        BY <1>1, PositionsAre
  <2> HIDE DEF in, a, b
  <2>5. a \in Int
        BY <2>1
  <2>2. len \in Nat /\ DOMAIN in = 1..len /\ \A j \in 1..len : in[j] = a + j - 1
    <3>1. /\ len \in Nat /\ DOMAIN Interval(a, b) = 1..len
          /\ \A j \in 1..len : Interval(a, b)[j] = a + j - 1
          BY <2>5, <2>1, IntervalIs
    <3> QED BY <2>1, <3>1
  <2>3. \A j \in 1..len : in[j] \in 0..MaxItems - 1
        BY <2>1, <2>2, ItemsAssumption
  <2>4. ASSUME NEW q \in a..b PROVE \E j \in 1..len : in[j] = q
    <3>1. q - a + 1 \in 1..len /\ a + (q - a + 1) - 1 = q
          BY <2>1
    <3> QED BY <3>1, <2>2
  <2> HIDE DEF len
  <2> QED BY <2>2, <2>3, <2>4 DEF a, b
<1> HIDE DEF out
<1>5. /\ g1 \in Grids /\ Around(g1) = Around(g) /\ g1.gone = g.gone
      /\ OneEach(g) => OneEach(g1)
      /\ FocusRight(g) => FocusRight(g1)
      /\ Celled(g) => Celled(g1)
      BY <1>3, FALSE \in BOOLEAN, RecycledAll
<1> HIDE DEF g1, in
<1>6. /\ g2 \in Grids /\ Around(g2) = Around(g1)
      /\ OneEach(g1) => OneEach(g2)
      /\ FocusRight(g1) => FocusRight(g2)
      /\ Celled(g1) => Celled(g2)
      /\ \A j \in 1..k : Has(g2, in[j]) /\ Fresh(g2, in[j])
      BY <1>4, <1>5, ObtainedAll
<1> HIDE DEF g2
<1>7. /\ g3 \in Grids /\ Layout(g3) = Layout(g) /\ g3.start = start /\ g3.end = end
      /\ g3.used = g2.used /\ g3.focused = g2.focused /\ g3.columns = g2.columns
      /\ g3.items = g.items /\ g3.columns = g.columns
  <2>1. /\ g2 \in Grids /\ Layout(g2) = Layout(g) /\ g2.items = g.items /\ g2.columns = g.columns
        BY <1>5, <1>6 DEF Layout, Around
  <2>2. MaxItems \in 0..MaxItems
        BY ItemsAssumption
  <2>3. g3 \in Grids
        BY <2>1, <2>2 DEF Grids
  <2>4. /\ Layout(g3) = Layout(g2) /\ g3.start = start /\ g3.end = end
        /\ g3.used = g2.used /\ g3.focused = g2.focused /\ g3.columns = g2.columns
        /\ g3.items = g2.items
        BY <2>1 DEF Grids, Layout
  <2> QED BY <2>1, <2>3, <2>4
<1> HIDE DEF g3
<1>8. /\ OneEach(g) => OneEach(g3)
      /\ FocusRight(g) => FocusRight(g3)
      /\ Celled(g) => Celled(g3)
      /\ \A j \in 1..k : Has(g3, in[j]) /\ Fresh(g3, in[j])
      BY <1>5, <1>6, <1>7, UsedSame
<1>9. Filled(g3, start, end)
      BY <1>4, <1>7, <1>8 DEF Filled, Covered, FirstOf, LastOf
<1>10. CASE h = g3
       BY <1>7, <1>8, <1>9, <1>10
<1>11. CASE h = g4
  <2> DEFINE f == Focus(g3, g3.later)
  <2>1. g3.later \in Int
    <3>1. g3.later \in Later \cup {-1}
          BY <1>7 DEF Grids
    <3>2. Later \subseteq Int /\ -1 \in Int
          BY ItemsAssumption
    <3>3. \A x \in Later \cup {-1} : x \in Int
          BY <3>2
    <3> QED BY <3>1, <3>3
  <2>2. /\ f \in Grids /\ Frame(f) = Frame(g3)
        /\ OneEach(g3) => OneEach(f)
        /\ OneEach(g3) /\ FocusRight(g3) => FocusRight(f)
        /\ Celled(g3) => Celled(f)
        /\ \A q : Covered(g3, q) => Covered(f, q)
        BY <1>7, <2>1, Focused
  <2>3. g4 = [f EXCEPT !.later = -1]
        OBVIOUS
  <2> HIDE DEF f, g4
  <2>4. /\ g4 \in Grids /\ Layout(g4) = Layout(g3) /\ g4.start = g3.start /\ g4.end = g3.end
        /\ g4.used = f.used /\ g4.focused = f.focused /\ g4.columns = f.columns
        /\ g4.gone = f.gone /\ g4.stale = f.stale
        /\ g4.items = g3.items /\ g4.columns = g3.columns
        BY <2>2, <2>3 DEF Grids, Layout, Frame
  <2>5. /\ OneEach(f) => OneEach(g4)
        /\ FocusRight(f) => FocusRight(g4)
        /\ Celled(f) => Celled(g4)
        /\ \A q : Covered(f, q) => Covered(g4, q)
        BY <2>4, UsedSame DEF Covered
  <2>6. Filled(g4, start, end)
        BY <1>9, <2>2, <2>4, <2>5 DEF Filled, FirstOf, LastOf
  <2> HIDE DEF h
  <2> QED BY <1>7, <1>8, <1>11, <2>2, <2>4, <2>5, <2>6 DEF h
<1> HIDE DEF h, g4
<1> QED BY <1>2, <1>10, <1>11 DEF h

-----------------------------------------------------------------------------
(* Changes of the data                                                      *)

\* the sizes, one by one
LEMMA SizesAre ==
  /\ \A x \in Columns \cup RowHeights : x \in Nat \ {0}
  /\ \A x \in Heights \cup {0} : x \in Nat
  /\ \A x \in Scrolls \cup {0} : x \in Nat
  /\ PadRow \in Nat /\ PadTop \in Nat /\ PadBottom \in Nat
BY SizesAssumption

\* the estimate of the last visible position is an integer
LEMMA MaxItemEndType == ASSUME NEW g \in Grids PROVE MaxItemEnd(g) \in Int
<1>1. /\ g.columns \in Columns /\ g.rowHeight \in RowHeights
      /\ g.height \in Heights \cup {0}
      BY DEF Grids
<1>2. g.columns \in Nat \ {0} /\ g.rowHeight \in Nat \ {0} /\ g.height \in Nat /\ PadRow \in Nat
      BY <1>1, SizesAre
<1>3. Extend(g) \in Nat /\ Pitch(g) \in Nat \ {0}
      BY <1>2, Divided DEF Extend, Pitch
<1> DEFINE a == g.height + PadRow + Extend(g)
<1>4. a \in Nat
      BY <1>2, <1>3
<1> HIDE DEF a
<1>5. CeilDivide(a, Pitch(g)) \in Int
  <2>1. a + Pitch(g) - 1 \in Nat
        BY <1>3, <1>4
  <2> QED BY <1>3, <2>1, Divided DEF CeilDivide
<1>6. RenderStart(g) \in Int
      BY RenderedRows, ItemsAssumption
<1> QED BY <1>2, <1>5, <1>6 DEF MaxItemEnd, a

\* a change keeps views in their cells, and one at the end of the data, which moves none, keeps
\* them one for each item
LEMMA ChangeApplied ==
  ASSUME NEW g \in Grids, NEW c \in [start : Nat, remove : Nat, add : Nat],
         NEW expected \in 0..MaxItems,
         c.start + c.remove <= expected, expected + c.add - c.remove \in 0..MaxItems
  PROVE  LET h == ApplyChange(g, c, expected)
         IN  /\ h \in Grids /\ Around(h) = Around(g)
             /\ ShortGrid /\ Celled(g) => Celled(h)
             /\ c.start + c.remove = expected => /\ OneEach(g) => OneEach(h)
                                                 /\ FocusRight(g) => FocusRight(h)
<1> DEFINE h == ApplyChange(g, c, expected)
           delta == c.add - c.remove
           last == Min({expected - 1, MaxItemEnd(g)})
           removed == Interval(c.start, c.start + c.remove - 1)
           rest == Interval(c.start + c.remove, last)
           g1 == RecycleAll(g, removed, TRUE)
<1>1. /\ c.start \in Nat /\ c.remove \in Nat /\ c.add \in Nat /\ expected \in Int /\ MaxItems \in Nat
      /\ delta \in Int
      BY ItemsAssumption
<1>2. h = IF delta = 0 THEN g1 ELSE MoveAll(g1, Reverse(rest), delta)
      BY DEF ApplyChange, MoveAll
<1>3. last \in Int /\ last <= expected - 1
  <2> DEFINE a == expected - 1
             m == MaxItemEnd(g)
  <2>1. a \in Int /\ m \in Int
        BY <1>1, MaxItemEndType
  <2> HIDE DEF a, m
  <2>2. Min({a, m}) = IF a <= m THEN a ELSE m
        BY <2>1, Two
  <2>3. last = IF a <= m THEN a ELSE m
        BY <2>2 DEF a, m
  <2> QED BY <2>1, <2>3 DEF a
<1> HIDE DEF last
<1>4. PICK n \in Nat : DOMAIN removed = 1..n
  <2> DEFINE a == c.start
             b == c.start + c.remove - 1
  <2>1. a \in Int /\ b \in Int
        BY <1>1
  <2> HIDE DEF a, b
  <2>2. Interval(a, b) \in Seq(Int)
        BY <2>1, IntervalIs
  <2> QED BY <2>2 DEF a, b
<1> HIDE DEF removed
<1>5. /\ g1 \in Grids /\ Around(g1) = Around(g) /\ g1.gone = g.gone
      /\ OneEach(g) => OneEach(g1)
      /\ FocusRight(g) => FocusRight(g1)
      /\ Celled(g) => Celled(g1)
      BY <1>4, TRUE \in BOOLEAN, RecycledAll
<1> HIDE DEF g1
<1> DEFINE len == IF last - (c.start + c.remove) + 1 >= 0 THEN last - (c.start + c.remove) + 1 ELSE 0
           back == Reverse(rest)
<1>6. /\ len \in Nat /\ rest \in Seq(Int) /\ DOMAIN rest = 1..len
      /\ \A k \in 1..len : rest[k] = (c.start + c.remove) + k - 1
  <2>1. c.start + c.remove \in Int
        BY <1>1
  <2> QED BY <1>3, <2>1, IntervalIs
<1>7. /\ DOMAIN back = 1..len
      /\ \A k \in 1..len : back[k] = (c.start + c.remove) + (len - k + 1) - 1
  <2>1. Len(rest) = len
        BY <1>6
  <2>2. back = [k \in 1..len |-> rest[(len - k) + 1]]
        BY <2>1 DEF Reverse
  <2>3. \A k \in 1..len : (len - k) + 1 \in 1..len
        BY <1>6
  <2> HIDE DEF len, rest, back
  <2> QED BY <1>6, <2>2, <2>3
<1>8. ASSUME NEW k \in 1..len PROVE back[k] \in Int /\ back[k] + delta \in 0..MaxItems - 1
  <2> DEFINE b == back[k]
  <2>1. b = (c.start + c.remove) + (len - k + 1) - 1
        BY <1>7
  <2> HIDE DEF b, back, rest
  <2>2. len = last - (c.start + c.remove) + 1
        BY <1>1, <1>3
  <2> HIDE DEF len
  <2>3. b \in Int /\ c.start + c.remove <= b /\ b <= last
    <3>1. len \in Int /\ k \in Int /\ 1 <= k /\ k <= len
          BY <1>6
    <3> QED BY <1>1, <1>3, <2>1, <2>2, <3>1
  <2>4. b + delta \in Int /\ 0 <= b + delta /\ b + delta <= MaxItems - 1
        BY <1>1, <1>3, <2>3
  <2> QED BY <2>3, <2>4 DEF b
<1>9. c.start + c.remove = expected => len = 0
      BY <1>1, <1>3
<1> HIDE DEF len, back, rest
<1> DEFINE g2 == MoveAll(g1, back, delta)
<1>10. /\ g2 \in Grids /\ Around(g2) = Around(g1)
       /\ ShortGrid /\ Celled(g1) => Celled(g2)
  <2> HIDE DEF delta
  <2> QED BY <1>1, <1>5, <1>6, <1>7, <1>8, MovedAll
<1>11. len = 0 => g2 = g1
  <2>1. DOMAIN back = 1..len /\ delta \in Int
        BY <1>1, <1>7
  <2> HIDE DEF delta
  <2> QED BY <2>1, MoveNone
<1> HIDE DEF g2, h
<1>12. h = IF delta = 0 THEN g1 ELSE g2
       BY <1>2 DEF g2, back
<1> QED BY <1>5, <1>9, <1>10, <1>11, <1>12 DEF h

ChangeStep(acc, c) == [g |-> ApplyChange(acc.g, c, acc.expected),
                       expected |-> acc.expected + c.add - c.remove]
CountStep(acc, c) == acc + c.add - c.remove

\* an application reports no change, or one
LEMMA FoldNone ==
  ASSUME NEW base
  PROVE  FoldLeft(ChangeStep, base, <<>>) = base
<1> DEFINE Body(f) == [s \in SUBSET (DOMAIN <<>>) |->
              IF s = {} THEN base ELSE ChangeStep(f[s \ {Max(s)}], <<>>[Max(s)])]
           it == CHOOSE f : f = Body(f)
<1>1. FoldLeft(ChangeStep, base, <<>>) = it[DOMAIN <<>>]
      BY DEF FoldLeft, MapThenFoldSet
<1>2. DOMAIN <<>> = {} /\ SUBSET {} = {{}}
      OBVIOUS
<1> DEFINE e == [s \in {{}} |-> base]
<1>3. e = Body(e)
      BY <1>2
<1> HIDE DEF e
<1>4. it = Body(it)
      BY <1>3
<1> HIDE DEF it
<1>5. it[{}] = base
      BY <1>2, <1>4
<1> QED BY <1>1, <1>2, <1>5

LEMMA FoldOne ==
  ASSUME NEW base, NEW c
  PROVE  FoldLeft(ChangeStep, base, <<c>>) = ChangeStep(base, c)
<1> DEFINE Body(f) == [s \in SUBSET (DOMAIN <<c>>) |->
              IF s = {} THEN base ELSE ChangeStep(f[s \ {Max(s)}], <<c>>[Max(s)])]
           it == CHOOSE f : f = Body(f)
<1>1. FoldLeft(ChangeStep, base, <<c>>) = it[DOMAIN <<c>>]
      BY DEF FoldLeft, MapThenFoldSet
<1>2. DOMAIN <<c>> = {1} /\ <<c>>[1] = c /\ SUBSET {1} = {{}, {1}} /\ {1} \ {1} = {} /\ {1} # {}
      OBVIOUS
<1>3. Max({1}) = 1
      BY DEF Max
<1> DEFINE e == [s \in {{}, {1}} |-> IF s = {} THEN base ELSE ChangeStep(base, c)]
<1>4. e = Body(e)
      BY <1>2, <1>3
<1> HIDE DEF e
<1>5. it = Body(it)
      BY <1>4
<1> HIDE DEF it
<1>6. it[{}] = base /\ it[{1}] = ChangeStep(it[{}], c)
      BY <1>2, <1>3, <1>5
<1> QED BY <1>1, <1>2, <1>6

\* the count after one change
LEMMA CountOne ==
  ASSUME NEW base, NEW c
  PROVE  NewCount(base, <<c>>) = base + c.add - c.remove
<1> DEFINE Body(f) == [s \in SUBSET (DOMAIN <<c>>) |->
              IF s = {} THEN base ELSE CountStep(f[s \ {Max(s)}], <<c>>[Max(s)])]
           it == CHOOSE f : f = Body(f)
<1>1. NewCount(base, <<c>>) = it[DOMAIN <<c>>]
      BY DEF NewCount, CountStep, FoldLeft, MapThenFoldSet
<1>2. DOMAIN <<c>> = {1} /\ <<c>>[1] = c /\ SUBSET {1} = {{}, {1}} /\ {1} \ {1} = {} /\ {1} # {}
      OBVIOUS
<1>3. Max({1}) = 1
      BY DEF Max
<1> DEFINE e == [s \in {{}, {1}} |-> IF s = {} THEN base ELSE CountStep(base, c)]
<1>4. e = Body(e)
      BY <1>2, <1>3
<1> HIDE DEF e
<1>5. it = Body(it)
      BY <1>4
<1> HIDE DEF it
<1>6. it[{}] = base /\ it[{1}] = CountStep(it[{}], c)
      BY <1>2, <1>3, <1>5
<1> QED BY <1>1, <1>2, <1>6 DEF CountStep

\* the grid that update_grid fills the rows of: the changes are applied
Filling(g, d) == IF g.height <= 0 THEN g ELSE FillRows(d, RenderStart(g), RenderEnd(g))

\* update_grid without changes
LEMMA UpdateNone == ASSUME NEW g, NEW n PROVE UpdateGrid(g, <<>>, n) = Filling(g, g)
<1> DEFINE base == [g |-> g, expected |-> n]
           done == FoldLeft(ChangeStep, base, <<>>)
<1>1. UpdateGrid(g, <<>>, n)
        = IF g.height <= 0 THEN g ELSE FillRows(done.g, RenderStart(g), RenderEnd(g))
      BY DEF UpdateGrid, ChangeStep, FoldLeft, MapThenFoldSet
<1>2. done = base
  <2> HIDE DEF base
  <2> QED BY FoldNone
<1>3. done.g = g
  <2> HIDE DEF done
  <2> QED BY <1>2
<1> HIDE DEF done
<1> QED BY <1>1, <1>3 DEF Filling

\* update_grid with one change
LEMMA UpdateOne ==
  ASSUME NEW g, NEW c, NEW n
  PROVE  UpdateGrid(g, <<c>>, n) = Filling(g, ApplyChange(g, c, n))
<1> DEFINE base == [g |-> g, expected |-> n]
           done == FoldLeft(ChangeStep, base, <<c>>)
<1>1. UpdateGrid(g, <<c>>, n)
        = IF g.height <= 0 THEN g ELSE FillRows(done.g, RenderStart(g), RenderEnd(g))
      BY DEF UpdateGrid, ChangeStep, FoldLeft, MapThenFoldSet
<1>2. done = ChangeStep(base, c)
  <2> HIDE DEF base
  <2> QED BY FoldOne
<1>3. done.g = ApplyChange(g, c, n)
  <2> HIDE DEF done
  <2> QED BY <1>2 DEF ChangeStep
<1> HIDE DEF done
<1> QED BY <1>1, <1>3 DEF Filling

SafeChange(n, c) == /\ c \in [start : Nat, remove : Nat, add : Nat]
                    /\ c.start + c.remove <= n /\ n + c.add - c.remove \in 0..MaxItems

\* the change an application reports is within the data, at its end if it only reloads
LEMMA ChangesAre ==
  ASSUME NEW n \in 0..MaxItems, NEW changes \in Changes(n)
  PROVE  \E c : /\ changes = <<c>> /\ SafeChange(n, c)
                /\ mode = "reloads" => c.start + c.remove = n
<1>1. PICK c \in [start : 0..n, remove : 0..2, add : 0..2] :
            /\ changes = <<c>> /\ c.start + c.remove <= n /\ n + c.add - c.remove <= MaxItems
            /\ mode = "reloads" => c.start + c.remove = n
      BY DEF Changes
<1>2. c \in [start : Nat, remove : Nat, add : Nat]
      BY <1>1
<1>3. n + c.add - c.remove \in 0..MaxItems
  <2>1. c.start \in Nat /\ c.remove \in Nat /\ c.add \in Nat /\ n \in Nat /\ MaxItems \in Nat
        BY <1>2, ItemsAssumption
  <2> QED BY <1>1, <2>1
<1> QED BY <1>1, <1>2, <1>3 DEF SafeChange

\* the row is not above the visible area
Visible(g, i) == g.scroll - PadTop - Extend(g) <= Pitch(g) * i + g.rowHeight

\* the fields of a grid that rows are computed from
LEMMA GridSizes ==
  ASSUME NEW g \in Grids
  PROVE  /\ g.columns \in Nat \ {0} /\ g.rowHeight \in Nat \ {0} /\ g.height \in Nat
         /\ g.scroll \in Nat /\ g.rows \in Nat /\ g.items \in Nat
         /\ g.rows \in 0..MaxItems /\ g.items \in 0..MaxItems
         /\ g.start \in Int /\ g.end \in Int
         /\ Extend(g) \in Nat /\ Pitch(g) \in Nat \ {0} /\ Pitch(g) = g.rowHeight + PadRow
<1>1. /\ g.columns \in Columns /\ g.rowHeight \in RowHeights /\ g.height \in Heights \cup {0}
      /\ g.scroll \in Scrolls \cup {0} /\ g.rows \in 0..MaxItems /\ g.items \in 0..MaxItems
      /\ g.start \in Int /\ g.end \in Int
      BY DEF Grids
<1>2. /\ g.columns \in Nat \ {0} /\ g.rowHeight \in Nat \ {0} /\ g.height \in Nat
      /\ g.scroll \in Nat /\ PadRow \in Nat
      BY <1>1, SizesAre
<1>3. Extend(g) \in Nat /\ Pitch(g) \in Nat \ {0}
      BY <1>2, Divided DEF Extend, Pitch
<1> QED BY <1>1, <1>2, <1>3 DEF Pitch

\* the rows kept begin with the first that is not above the visible area
LEMMA StartVisible ==
  ASSUME NEW g \in Grids
  PROVE  /\ \A i \in 0..g.rows - 1 : Visible(g, i) => RenderStart(g) >= 0
         /\ RenderStart(g) >= 0 => /\ RenderStart(g) \in 0..g.rows - 1 /\ Visible(g, RenderStart(g))
                                   /\ \A i \in 0..RenderStart(g) - 1 : ~Visible(g, i)
<1> DEFINE R == {i \in 0..g.rows - 1 : Visible(g, i)}
<1>1. g.rows \in Nat
      BY GridSizes
<1>2. R \in SUBSET Nat
      BY <1>1
<1>3. RenderStart(g) = IF R = {} THEN -1 ELSE Min(R)
      BY DEF RenderStart, Visible
<1>4. R # {} => Min(R) \in R /\ \A i \in R : Min(R) <= i
  <2> HIDE DEF R
  <2> QED BY <1>2, LeastOf
<1>5. ASSUME R # {} PROVE /\ RenderStart(g) \in 0..g.rows - 1 /\ Visible(g, RenderStart(g))
                          /\ \A i \in 0..RenderStart(g) - 1 : ~Visible(g, i)
  <2>1. PICK m \in R : RenderStart(g) = m /\ \A i \in R : m <= i
        BY <1>3, <1>4, <1>5
  <2>2. m \in 0..g.rows - 1 /\ Visible(g, m)
        OBVIOUS
  <2>3. ASSUME NEW i \in 0..m - 1 PROVE ~Visible(g, i)
    <3>1. i \in 0..g.rows - 1 /\ ~(m <= i)
          BY <1>1, <2>2
    <3> QED BY <2>1, <3>1
  <2> QED BY <2>1, <2>2, <2>3
<1>6. RenderStart(g) >= 0 => R # {}
      BY <1>3
<1>7. \A i \in 0..g.rows - 1 : Visible(g, i) => R # {}
      OBVIOUS
<1> HIDE DEF R
<1> QED BY <1>1, <1>5, <1>6, <1>7

\* a row not above the visible area is followed by a row to end with
LEMMA EndVisible ==
  ASSUME NEW g \in Grids, RenderStart(g) >= 0, g.height >= PadRow
  PROVE  RenderEnd(g) \in RenderStart(g)..MaxItems
<1> DEFINE s == RenderStart(g)
           below == g.scroll + g.height + PadBottom + Extend(g)
           Q == {i \in s..g.rows - 1 : below >= Pitch(g) * i}
<1>1. /\ g.rowHeight \in Nat /\ g.height \in Nat /\ g.scroll \in Nat /\ g.rows \in 0..MaxItems
      /\ Extend(g) \in Nat /\ Pitch(g) \in Nat /\ Pitch(g) = g.rowHeight + PadRow
      /\ PadRow \in Nat /\ PadBottom \in Nat /\ PadTop \in Nat /\ MaxItems \in Nat
      BY GridSizes, SizesAre, ItemsAssumption
<1>2. s \in 0..g.rows - 1 /\ Visible(g, s) /\ \A i \in 0..s - 1 : ~Visible(g, i)
      BY StartVisible
<1>3. RenderEnd(g) = IF Q = {} THEN -1 ELSE Max(Q)
      BY DEF RenderEnd
<1> HIDE DEF s
<1>4. below >= Pitch(g) * s
  <2>1. CASE s = 0
        BY <1>1, <2>1
  <2>2. CASE s # 0
    <3>1. s - 1 \in 0..s - 1
          BY <1>1, <1>2, <2>2
    <3>2. ~Visible(g, s - 1)
          BY <1>2, <3>1
    <3>3. Pitch(g) * (s - 1) = Pitch(g) * s - Pitch(g)
          BY <1>1, <1>2
    <3> DEFINE t == Pitch(g) * s
    <3>4. t \in Int
          BY <1>1, <1>2
    <3>5. Pitch(g) * (s - 1) = t - Pitch(g)
          BY <3>3
    <3> HIDE DEF t
    <3>6. ~(g.scroll - PadTop - Extend(g) <= (t - Pitch(g)) + g.rowHeight)
          BY <3>2, <3>5 DEF Visible
    <3>7. below >= t
          BY <1>1, <3>4, <3>6
    <3> QED BY <3>7 DEF t
  <2> QED BY <2>1, <2>2
<1>5. s \in Q
      BY <1>1, <1>2, <1>4
<1>6. Q \in SUBSET (0..MaxItems) /\ Q \subseteq s..g.rows - 1
      BY <1>1, <1>2
<1> HIDE DEF Q
<1>7. Max(Q) \in Q /\ \A k \in Q : k <= Max(Q)
      BY <1>1, <1>5, <1>6, GreatestOf
<1>8. RenderEnd(g) = Max(Q)
      BY <1>3, <1>5
<1>9. Max(Q) \in s..g.rows - 1
      BY <1>6, <1>7
<1> QED BY <1>1, <1>2, <1>8, <1>9 DEF s

\* one column count for good, which rows of 256 and more do not break
FixedCells == ShortGrid /\ \A c, d \in Columns : c = d

Sound(m, g) == /\ g \in Grids /\ g.start <= g.end
               /\ m # "edits" => OneEach(g) /\ FocusRight(g)
               /\ FixedCells => Celled(g)

\* update_grid keeps the grid sound, whether it fills the rows or not
LEMMA FilledSound ==
  ASSUME NEW m, NEW g, NEW d, Sound(m, g), Sound(m, d), Around(d) = Around(g)
  PROVE  Sound(m, Filling(g, d)) /\ Layout(Filling(g, d)) = Layout(g)
<1> DEFINE h == Filling(g, d)
           s == RenderStart(g)
           e == RenderEnd(g)
<1>1. g \in Grids /\ d \in Grids /\ Layout(d) = Layout(g)
      BY DEF Sound, Around, Layout
<1>2. s \in -1..MaxItems /\ (s >= 0 => e \in -1..MaxItems) /\ MaxItems \in Nat
      BY <1>1, RenderedRows, ItemsAssumption
<1>3. h = IF g.height <= 0 THEN g ELSE FillRows(d, s, e)
      BY DEF Filling
<1> HIDE DEF h, s, e
<1>4. CASE g.height <= 0
      BY <1>3, <1>4 DEF h
<1>5. CASE ~(g.height <= 0) /\ (s < 0 \/ e < s)
  <2>1. h = d
        BY <1>3, <1>5 DEF FillRows
  <2> QED BY <1>1, <2>1 DEF h
<1>6. CASE ~(g.height <= 0) /\ ~(s < 0 \/ e < s)
  <2>1. h = FillRows(d, s, e)
        BY <1>3, <1>6
  <2>2. s >= 0 /\ e >= s /\ e \in -1..MaxItems
        BY <1>2, <1>6
  <2>3. /\ h \in Grids /\ Layout(h) = Layout(d) /\ h.start = s /\ h.end = e
        /\ OneEach(d) => OneEach(h)
        /\ OneEach(d) /\ FocusRight(d) => FocusRight(h)
        /\ Celled(d) => Celled(h)
        BY <1>1, <1>2, <2>1, <2>2, RowsFilled
  <2> QED BY <1>1, <2>2, <2>3 DEF Sound, h
<1> QED BY <1>4, <1>5, <1>6

\* LVGL laid the grid out at one size or another, not less than its paddings,
\* and one row height is configured for good
Steady == /\ 0 \notin Heights /\ \A h \in Heights : h >= PadRow + PadBottom
          /\ \A a, b \in RowHeights : a = b

Placed(g) == /\ g.items > 0 => g.items <= g.rows * g.columns
             /\ g.start >= 0 => g.height \in Heights /\ g.rows >= 1 /\ Visible(g, g.start)
Ready(g) == /\ g.items > 0 => g.items <= g.rows * g.columns
            /\ g.start >= 0 => /\ g.height \in Heights /\ g.rows >= 1
                               /\ Visible(g, g.start) \/ Visible(g, g.rows - 1)
Kept(g) == Placed(g) /\ (g.start >= 0 => Filled(g, g.start, g.end))

\* update_grid fills the rows, or there is no item in the window it leaves: when no row is
\* visible the window is past the last row, and the first visible row is never past the end
LEMMA FilledKept ==
  ASSUME Steady, NEW g \in Grids, NEW d \in Grids, Around(d) = Around(g), Ready(g)
  PROVE  Kept(Filling(g, d))
<1> DEFINE h == Filling(g, d)
           s == RenderStart(g)
           e == RenderEnd(g)
<1>1. /\ Layout(d) = Layout(g) /\ d.start = g.start /\ d.end = g.end
      /\ d.columns = g.columns /\ d.items = g.items /\ d.rows = g.rows /\ d.height = g.height
      BY DEF Around, Layout
<1>2. s \in -1..MaxItems /\ (s >= 0 => e \in -1..MaxItems) /\ MaxItems \in Nat
      BY RenderedRows, ItemsAssumption
<1>3. h = IF g.height <= 0 THEN g ELSE FillRows(d, s, e)
      BY DEF Filling
<1>4. /\ g.columns \in Nat \ {0} /\ g.height \in Nat /\ g.rows \in Nat /\ g.items \in Nat
      /\ g.start \in Int /\ g.end \in Int /\ PadRow \in Nat /\ PadBottom \in Nat
      BY GridSizes, SizesAre
<1>5. s >= 0 => s \in 0..g.rows - 1 /\ Visible(g, s)
      BY StartVisible
<1>6. \A i \in 0..g.rows - 1 : Visible(g, i) => s >= 0
      BY StartVisible
<1>7. g.height > 0 => g.height \in Heights /\ g.height >= PadRow
  <2>1. g.height \in Heights \cup {0} /\ \A x \in Heights : x \in Nat
        BY SizesAre DEF Grids
  <2> QED BY <1>4, <2>1 DEF Steady
<1>8. s >= 0 /\ g.height > 0 => e >= s
      BY <1>2, <1>4, <1>7, EndVisible
<1> HIDE DEF h, s, e
<1>9. CASE g.height <= 0
  <2>1. g.start < 0
        BY <1>4, <1>9 DEF Steady, Ready
  <2> QED BY <1>3, <1>4, <1>9, <2>1 DEF h, Kept, Placed, Ready
<1>10. CASE g.height > 0 /\ s >= 0
  <2>1. h = FillRows(d, s, e) /\ e >= s /\ e \in -1..MaxItems
        BY <1>2, <1>3, <1>4, <1>8, <1>10
  <2>2. Layout(h) = Layout(d) /\ h.start = s /\ h.end = e /\ Filled(h, s, e)
        BY <1>2, <1>10, <2>1, RowsFilled
  <2>3. Visible(h, s) /\ h.rows >= 1 /\ h.height \in Heights
        BY <1>1, <1>4, <1>5, <1>7, <1>10, <2>2 DEF Layout, Visible, Extend, Pitch
  <2>4. h.items > 0 => h.items <= h.rows * h.columns
        BY <1>1, <2>2 DEF Ready, Layout
  <2> QED BY <2>2, <2>3, <2>4 DEF Kept, Placed, h
<1>11. CASE g.height > 0 /\ s < 0
  <2>1. h = d
        BY <1>3, <1>4, <1>11 DEF FillRows
  <2>2. ASSUME g.start >= 0 PROVE Visible(g, g.start) /\ g.start >= g.rows
    <3>1. g.rows >= 1 /\ g.rows - 1 \in 0..g.rows - 1
          BY <1>4, <2>2 DEF Ready
    <3>2. ~Visible(g, g.rows - 1) /\ s \in Int
          BY <1>2, <1>6, <1>11, <3>1
    <3>3. Visible(g, g.start)
          BY <2>2, <3>2 DEF Ready
    <3>4. ~(g.start \in 0..g.rows - 1)
          BY <1>2, <1>6, <1>11, <3>3
    <3> QED BY <1>4, <2>2, <3>3, <3>4
  <2>3. ASSUME g.start >= 0 PROVE Filled(d, d.start, d.end)
    <3> DEFINE a == g.start * g.columns
               b == g.rows * g.columns
               c == (g.end + 1) * g.columns
    <3>1. a \in Int /\ b \in Int /\ c \in Int /\ b <= a
      <4>1. \A x, y, z \in Nat : x <= y => x * z <= y * z
            OBVIOUS
      <4>2. g.start \in Nat /\ g.columns \in Nat
            BY <1>4, <2>3
      <4> QED BY <1>4, <2>2, <2>3, <4>1, <4>2
    <3>2. FirstOf(d, d.start) = a
          BY <1>1, <2>3 DEF FirstOf
    <3>3. LastOf(d, d.end) = (IF c <= g.items THEN c ELSE g.items) - 1
          BY <1>1 DEF LastOf
    <3>4. g.items > 0 => g.items <= b
          BY DEF Ready
    <3>5. a >= 0
      <4>1. \A x, z \in Nat : x * z >= 0
            OBVIOUS
      <4>2. g.start \in Nat /\ g.columns \in Nat
            BY <1>4, <2>3
      <4> QED BY <4>1, <4>2
    <3> HIDE DEF a, b, c
    <3>6. LastOf(d, d.end) < FirstOf(d, d.start)
          BY <1>4, <3>1, <3>2, <3>3, <3>4, <3>5
    <3>7. LastOf(d, d.end) \in Int /\ FirstOf(d, d.start) \in Int
          BY <1>4, <3>1, <3>2, <3>3
    <3>8. FirstOf(d, d.start)..LastOf(d, d.end) = {}
          BY <3>6, <3>7
    <3> QED BY <3>8 DEF Filled
  <2>4. Placed(d)
    <3>1. d.start >= 0 => Visible(d, d.start)
          BY <1>1, <2>2 DEF Visible, Extend, Pitch, Around
    <3> QED BY <1>1, <3>1 DEF Placed, Ready
  <2> QED BY <1>1, <2>1, <2>3, <2>4 DEF Kept, h
<1> QED BY <1>2, <1>4, <1>9, <1>10, <1>11 DEF h

\* rows enough for the items, and not more than items
LEMMA Rounded ==
  ASSUME NEW n \in Nat \ {0}, NEW c \in Nat \ {0}
  PROVE  /\ CeilDivide(n, c) \in Nat /\ CeilDivide(n, c) >= 1 /\ CeilDivide(n, c) <= n
         /\ CeilDivide(n, c) * c >= n
BY DEF CeilDivide

\* what is placed does not depend on the views
LEMMA PlacedSame ==
  ASSUME NEW g, NEW h, Placed(g), Around(h) = Around(g)
  PROVE  Placed(h)
BY DEF Placed, Around, Visible, Extend, Pitch

\* a placed grid is ready
LEMMA PlacedReady == ASSUME NEW g, Placed(g) PROVE Ready(g)
BY DEF Placed, Ready

\* marking the views as not bound moves none of them
LEMMA UnboundSound ==
  ASSUME NEW m, NEW g, Sound(m, g)
  PROVE  LET h == Unbound(g)
         IN  /\ Sound(m, h) /\ Around(h) = Around(g) /\ h.gone = g.gone
             /\ \A q : Has(h, q) <=> Has(g, q)
<1> DEFINE u == [i \in DOMAIN g.used |-> [g.used[i] EXCEPT !.bound = FALSE]]
           h == Unbound(g)
<1>1. g \in Grids /\ g.used \in Seq(Node) /\ DOMAIN g.used = 1..Len(g.used) /\ Len(g.used) \in Nat
      BY DEF Sound, Grids
<1>2. h = [g EXCEPT !.used = u]
      BY DEF Unbound
<1>3. \A i \in DOMAIN g.used : /\ u[i] \in Node /\ u[i].pos = g.used[i].pos
                               /\ u[i].cell = g.used[i].cell /\ u[i].focus = g.used[i].focus
  <2> TAKE i \in DOMAIN g.used
  <2>1. g.used[i] \in Node
        BY <1>1
  <2> QED BY <2>1 DEF Node
<1>4. DOMAIN u = DOMAIN g.used
      OBVIOUS
<1>5. u \in Seq(Node)
  <2>1. u \in [1..Len(g.used) -> Node]
        BY <1>1, <1>3
  <2> HIDE DEF u
  <2> QED BY <1>1, <2>1
<1> HIDE DEF u
<1>6. h \in Grids /\ h.used = u /\ Around(h) = Around(g) /\ h.gone = g.gone
      /\ h.start = g.start /\ h.end = g.end /\ h.columns = g.columns /\ h.focused = g.focused
      BY <1>1, <1>2, <1>5 DEF Grids, Around
<1> HIDE DEF h
<1>7. /\ OneEach(g) => OneEach(h)
      /\ FocusRight(g) => FocusRight(h)
      /\ Celled(g) => Celled(h)
      /\ \A q : Has(h, q) <=> Has(g, q)
      BY <1>3, <1>4, <1>6 DEF OneEach, FocusRight, Celled, Cell, Has
<1> QED BY <1>6, <1>7 DEF Sound, h

\* clear_rows only takes views away
LEMMA ClearedSound ==
  ASSUME NEW m, NEW g, Sound(m, g)
  PROVE  Sound(m, ClearRows(g)) /\ Around(ClearRows(g)) = Around(g)
<1> DEFINE seq == Positions(g, g.start, g.end - 1)
           h == ClearRows(g)
<1>1. g \in Grids /\ g.start \in Int /\ g.end - 1 \in Int
      BY GridSizes DEF Sound
<1>2. seq \in Seq(Int)
      BY <1>1, PositionsSeq
<1> HIDE DEF seq
<1>3. PICK n \in Nat : DOMAIN seq = 1..n
      BY <1>2
<1>4. h = RecycleAll(g, seq, TRUE)
      BY DEF ClearRows, seq
<1> HIDE DEF h
<1>5. /\ h \in Grids /\ Around(h) = Around(g)
      /\ OneEach(g) => OneEach(h)
      /\ FocusRight(g) => FocusRight(h)
      /\ Celled(g) => Celled(h)
      BY <1>1, <1>3, <1>4, TRUE \in BOOLEAN, RecycledAll
<1>6. h.start = g.start /\ h.end = g.end
      BY <1>5 DEF Around
<1> QED BY <1>5, <1>6 DEF Sound, h

\* the data has n items now
Counted(g, n) == IF n = g.items THEN g ELSE RowCount([g EXCEPT !.items = n])

\* update_row_count makes the rows enough for the items
LEMMA RowsCounted ==
  ASSUME NEW m, NEW g, Sound(m, g)
  PROVE  LET h == RowCount(g)
         IN  /\ Sound(m, h) /\ h.items = g.items
             /\ (g.start >= 0 => g.height \in Heights /\ g.rows >= 1 /\ Visible(g, g.start)) => Ready(h)
<1> DEFINE r == IF g.items > 0 THEN CeilDivide(g.items, g.columns) ELSE g.rows
           h == RowCount(g)
<1>1. /\ g \in Grids /\ g.columns \in Nat \ {0} /\ g.items \in 0..MaxItems /\ g.rows \in 0..MaxItems
      /\ MaxItems \in Nat
      BY GridSizes, ItemsAssumption DEF Sound
<1>2. h = [g EXCEPT !.rows = r]
      BY DEF RowCount
<1>3. /\ r \in 0..MaxItems
      /\ g.items > 0 => g.items <= r * g.columns /\ r >= 1
      /\ ~(g.items > 0) => r = g.rows
  <2>1. CASE g.items > 0
    <3>1. g.items \in Nat \ {0}
          BY <1>1, <2>1
    <3>2. /\ r \in Nat /\ r >= 1 /\ r <= g.items /\ r * g.columns >= g.items
          BY <1>1, <2>1, <3>1, Rounded
    <3> DEFINE p == r * g.columns
    <3>3. p \in Int
          BY <1>1, <3>2
    <3> HIDE DEF r, p
    <3>4. p >= g.items
          BY <3>2 DEF p
    <3>5. g.items <= p
          BY <1>1, <3>3, <3>4
    <3> QED BY <1>1, <2>1, <3>2, <3>5 DEF p
  <2>2. CASE ~(g.items > 0)
        BY <1>1, <2>2
  <2> QED BY <2>1, <2>2
<1> HIDE DEF r
<1>4. /\ h \in Grids /\ h.used = g.used /\ h.start = g.start /\ h.end = g.end /\ h.rows = r
      /\ h.columns = g.columns /\ h.focused = g.focused /\ h.items = g.items
      /\ h.height = g.height /\ h.scroll = g.scroll /\ h.rowHeight = g.rowHeight
      BY <1>1, <1>2, <1>3 DEF Grids
<1> HIDE DEF h
<1>5. Sound(m, h)
      BY <1>4, UsedSame DEF Sound
<1>6. \A i : Visible(h, i) <=> Visible(g, i)
      BY <1>4 DEF Visible, Extend, Pitch
<1>7. (g.start >= 0 => g.height \in Heights /\ g.rows >= 1 /\ Visible(g, g.start)) => Ready(h)
      BY <1>3, <1>4, <1>6 DEF Ready
<1> QED BY <1>4, <1>5, <1>7 DEF h

\* a new number of items makes the grid ready for an update
LEMMA CountedSound ==
  ASSUME NEW m, NEW g, Sound(m, g), NEW n \in 0..MaxItems
  PROVE  LET h == Counted(g, n)
         IN  Sound(m, h) /\ h.items = n /\ (Placed(g) => Ready(h))
<1>1. CASE n = g.items
      BY <1>1, PlacedReady DEF Counted
<1>2. CASE n # g.items
  <2> DEFINE f == [g EXCEPT !.items = n]
             h == RowCount(f)
  <2>1. g \in Grids
        BY DEF Sound
  <2>2. /\ f \in Grids /\ f.used = g.used /\ f.start = g.start /\ f.end = g.end /\ f.rows = g.rows
        /\ f.columns = g.columns /\ f.focused = g.focused /\ f.items = n
        /\ f.height = g.height /\ f.scroll = g.scroll /\ f.rowHeight = g.rowHeight
        BY <2>1 DEF Grids
  <2>3. Counted(g, n) = h
        BY <1>2 DEF Counted
  <2> HIDE DEF f
  <2>4. Sound(m, f)
        BY <2>2, UsedSame DEF Sound
  <2>5. \A i : Visible(f, i) <=> Visible(g, i)
        BY <2>2 DEF Visible, Extend, Pitch
  <2>6. Placed(g) => (f.start >= 0 => f.height \in Heights /\ f.rows >= 1 /\ Visible(f, f.start))
        BY <2>2, <2>5 DEF Placed
  <2>7. Sound(m, h) /\ h.items = f.items /\ (Placed(g) => Ready(h))
        BY <2>4, <2>6, RowsCounted
  <2> HIDE DEF h
  <2> QED BY <2>2, <2>3, <2>7
<1> QED BY <1>1, <1>2

-----------------------------------------------------------------------------
(* The calls and events                                                     *)

Good(m, g) == Sound(m, g) /\ (Steady => Kept(g))
IInv == mode \in Modes /\ Good(mode, grid)

\* update_grid on a sound grid that is ready
LEMMA FilledGood ==
  ASSUME NEW m, NEW g, NEW d, Sound(m, g), Sound(m, d), Around(d) = Around(g), Steady => Ready(g)
  PROVE  Good(m, Filling(g, d))
<1>1. g \in Grids /\ d \in Grids
      BY DEF Sound
<1> QED BY <1>1, FilledSound, FilledKept DEF Good

\* the new grid has no window
LEMMA InitGood == Init => IInv
<1> SUFFICES ASSUME Init PROVE IInv
    OBVIOUS
<1>1. PICK c \in Columns, h \in RowHeights :
        grid = [columns |-> c, rowHeight |-> h, items |-> 0, rows |-> 0,
                start |-> -1, end |-> -1, focused |-> -1, later |-> -1, height |-> 0,
                scroll |-> 0, used |-> <<>>, failed |-> FALSE,
                gone |-> {}, stale |-> MaxItems]
      BY DEF Init
<1>2. MaxItems \in Nat /\ -1 \in -1..MaxItems /\ -1 \in -1..MaxItems - 1
      BY ItemsAssumption
<1>3. /\ grid.columns = c /\ grid.rowHeight = h /\ grid.items = 0 /\ grid.rows = 0
      /\ grid.start = -1 /\ grid.end = -1 /\ grid.used = <<>>
      BY <1>1
<1>4. grid \in Grids
      BY <1>1, <1>2 DEF Grids
<1>5. DOMAIN grid.used = {}
      BY <1>3
<1>6. OneEach(grid) /\ FocusRight(grid) /\ Celled(grid)
      BY <1>5 DEF OneEach, FocusRight, Celled
<1>7. Sound(mode, grid)
      BY <1>3, <1>4, <1>6 DEF Sound
<1>8. Kept(grid)
      BY <1>3 DEF Kept, Placed
<1> QED BY <1>7, <1>8 DEF IInv, Good, Init

\* lv_gridview_set_data: the views are scrapped, and the window filled again
LEMMA SetDataGood ==
  ASSUME IInv, NEW n \in 0..MaxItems, SetData(n)
  PROVE  IInv'
<1> DEFINE g1 == Unbound(ClearRows(grid))
           g2 == Counted(g1, n)
<1>1. grid' = UpdateGrid(g2, <<>>, n) /\ mode' = mode
      BY DEF SetData, Do, Counted
<1>2. Sound(mode, grid) /\ (Steady => Placed(grid))
      BY DEF IInv, Good, Kept
<1>3. Sound(mode, g1) /\ (Placed(grid) => Placed(g1))
  <2> DEFINE g0 == ClearRows(grid)
  <2>1. Sound(mode, g0) /\ Around(g0) = Around(grid)
        BY <1>2, ClearedSound
  <2> HIDE DEF g0
  <2>2. Sound(mode, Unbound(g0)) /\ Around(Unbound(g0)) = Around(g0)
        BY <2>1, UnboundSound
  <2> QED BY <2>1, <2>2, PlacedSame DEF g0
<1> HIDE DEF g1
<1>4. Sound(mode, g2) /\ (Placed(g1) => Ready(g2))
      BY <1>3, CountedSound
<1> HIDE DEF g2
<1>5. Good(mode, UpdateGrid(g2, <<>>, n))
      BY <1>2, <1>3, <1>4, FilledGood, UpdateNone
<1> QED BY <1>1, <1>5 DEF IInv

\* lv_gridview_set_data_advanced: the views are moved with their items, and the window filled
LEMMA SetDataAdvancedGood ==
  ASSUME IInv, SetDataAdvanced
  PROVE  IInv'
<1> DEFINE g1 == Unbound(grid)
<1>1. /\ grid.items \in 0..MaxItems /\ grid \in Grids /\ Sound(mode, grid) /\ mode \in Modes
      /\ Steady => Placed(grid)
      BY DEF IInv, Good, Sound, Kept, Grids
<1>2. PICK changes \in Changes(grid.items) :
           /\ grid' = UpdateGrid(Counted(g1, NewCount(grid.items, changes)), changes, grid.items)
           /\ mode' = mode
      BY DEF SetDataAdvanced, Do, Counted
<1>3. PICK c : /\ changes = <<c>> /\ SafeChange(grid.items, c)
               /\ mode = "reloads" => c.start + c.remove = grid.items
      BY <1>1, ChangesAre
<1>4. mode # "edits" => mode = "reloads"
      BY <1>1, ModesAssumption DEF SetDataAdvanced
<1> DEFINE n == grid.items + c.add - c.remove
           g2 == Counted(g1, n)
           d == ApplyChange(g2, c, grid.items)
<1>5. Sound(mode, g1) /\ (Placed(grid) => Placed(g1))
      BY <1>1, UnboundSound, PlacedSame
<1>6. n \in 0..MaxItems
      BY <1>3 DEF SafeChange
<1> HIDE DEF g1
<1>7. NewCount(grid.items, changes) = n
      BY <1>3, CountOne
<1> HIDE DEF n
<1>8. Sound(mode, g2) /\ (Placed(g1) => Ready(g2))
      BY <1>5, <1>6, CountedSound
<1>9. grid' = Filling(g2, d)
      BY <1>2, <1>3, <1>7, UpdateOne
<1> HIDE DEF g2
<1>10. /\ d \in Grids /\ Around(d) = Around(g2)
       /\ ShortGrid /\ Celled(g2) => Celled(d)
       /\ c.start + c.remove = grid.items => /\ OneEach(g2) => OneEach(d)
                                             /\ FocusRight(g2) => FocusRight(d)
  <2>1. g2 \in Grids
        BY <1>8 DEF Sound
  <2> HIDE DEF d
  <2>2. /\ c \in [start : Nat, remove : Nat, add : Nat] /\ c.start + c.remove <= grid.items
        /\ grid.items + c.add - c.remove \in 0..MaxItems
        BY <1>3 DEF SafeChange
  <2> QED BY <1>1, <2>1, <2>2, ChangeApplied DEF d
<1> HIDE DEF d
<1>11. Sound(mode, d)
  <2>1. d.start = g2.start /\ d.end = g2.end
        BY <1>10 DEF Around
  <2> QED BY <1>3, <1>4, <1>8, <1>10, <2>1 DEF Sound, FixedCells
<1>12. Good(mode, Filling(g2, d))
       BY <1>1, <1>5, <1>8, <1>10, <1>11, FilledGood
<1> QED BY <1>1, <1>2, <1>9, <1>12 DEF IInv

\* LV_EVENT_SIZE_CHANGED: the first row of the window stays visible
LEMMA ResizeGood ==
  ASSUME IInv, NEW h \in Heights, Resize(h)
  PROVE  IInv'
<1> DEFINE g == [grid EXCEPT !.height = h]
<1>1. grid' = Filling(g, g) /\ mode' = mode
      BY UpdateNone DEF Resize, Do
<1>2. grid \in Grids /\ Sound(mode, grid) /\ (Steady => Placed(grid))
      BY DEF IInv, Good, Sound, Kept
<1>3. /\ g \in Grids /\ g.used = grid.used /\ g.start = grid.start /\ g.end = grid.end
      /\ g.rows = grid.rows /\ g.columns = grid.columns /\ g.focused = grid.focused
      /\ g.items = grid.items /\ g.height = h /\ g.scroll = grid.scroll
      /\ g.rowHeight = grid.rowHeight
      BY <1>2 DEF Grids
<1> HIDE DEF g
<1>4. Sound(mode, g)
      BY <1>2, <1>3, UsedSame DEF Sound
<1>5. Placed(grid) => Ready(g)
      BY <1>3 DEF Placed, Ready, Visible, Extend, Pitch
<1>6. Good(mode, Filling(g, g))
      BY <1>2, <1>4, <1>5, FilledGood
<1> QED BY <1>1, <1>6 DEF IInv

\* lv_gridview_set_config: other columns scrap the views, another row height fills nothing
LEMMA SetConfigGood ==
  ASSUME IInv, NEW c \in Columns, NEW h \in RowHeights, SetConfig(c, h)
  PROVE  IInv'
<1>1. grid \in Grids /\ Sound(mode, grid) /\ (Steady => Kept(grid) /\ Placed(grid))
      BY DEF IInv, Good, Sound, Kept
<1>2. grid.columns \in Columns /\ grid.rowHeight \in RowHeights
      BY <1>1 DEF Grids
<1>3. CASE c = grid.columns
  <2> DEFINE g == [grid EXCEPT !.columns = c, !.rowHeight = h]
  <2>1. grid' = g /\ mode' = mode
        BY <1>3 DEF SetConfig, Do
  <2>2. /\ g \in Grids /\ g.used = grid.used /\ g.start = grid.start /\ g.end = grid.end
        /\ g.columns = grid.columns /\ g.focused = grid.focused
        BY <1>1, <1>3 DEF Grids
  <2>3. Steady => g = grid
    <3>1. Steady => h = grid.rowHeight
          BY <1>2 DEF Steady
    <3> QED BY <1>1, <1>3, <3>1 DEF Grids
  <2> HIDE DEF g
  <2>4. Sound(mode, g)
        BY <1>1, <2>2, UsedSame DEF Sound
  <2>5. Good(mode, g)
        BY <1>1, <2>3, <2>4 DEF Good
  <2> QED BY <2>1, <2>5 DEF IInv
<1>4. CASE c # grid.columns
  <2> DEFINE g1 == ClearRows(grid)
             g2 == [g1 EXCEPT !.columns = c, !.rowHeight = h]
             g3 == RowCount(g2)
  <2>1. grid' = Filling(g3, g3) /\ mode' = mode
        BY <1>4, UpdateNone DEF SetConfig, Do
  <2>2. Sound(mode, g1) /\ Around(g1) = Around(grid)
        BY <1>1, ClearedSound
  <2>3. ~FixedCells
        BY <1>2, <1>4 DEF FixedCells
  <2> HIDE DEF g1
  <2>4. g1 \in Grids /\ g1.rowHeight = grid.rowHeight
        BY <2>2 DEF Sound, Around
  <2>5. /\ g2 \in Grids /\ g2.used = g1.used /\ g2.start = g1.start /\ g2.end = g1.end
        /\ g2.rows = g1.rows /\ g2.focused = g1.focused
        /\ g2.height = g1.height /\ g2.scroll = g1.scroll /\ g2.rowHeight = h
        BY <2>4 DEF Grids
  <2> HIDE DEF g2
  <2>6. OneEach(g1) => OneEach(g2)
        BY <2>5 DEF OneEach
  <2>7. FocusRight(g1) => FocusRight(g2)
        BY <2>5 DEF FocusRight
  <2>8. Sound(mode, g2)
        BY <2>2, <2>3, <2>5, <2>6, <2>7 DEF Sound
  <2>9. Steady => Placed(g1) /\ h = g1.rowHeight
        BY <1>1, <1>2, <2>2, <2>4, PlacedSame DEF Steady
  <2>10. Steady => (g2.start >= 0 => g2.height \in Heights /\ g2.rows >= 1 /\ Visible(g2, g2.start))
         BY <2>5, <2>9 DEF Placed, Visible, Extend, Pitch
  <2>11. Sound(mode, g3) /\ (Steady => Ready(g3))
         BY <2>8, <2>10, RowsCounted
  <2> HIDE DEF g3
  <2>12. Good(mode, Filling(g3, g3))
         BY <2>11, FilledGood
  <2> QED BY <2>1, <2>12 DEF IInv
<1> QED BY <1>3, <1>4

\* LV_EVENT_SCROLL: the last row is visible, as LVGL bounds the scroll
LEMMA ScrollGood ==
  ASSUME IInv, NEW y \in Scrolls, Scroll(y)
  PROVE  IInv'
<1> DEFINE g == [grid EXCEPT !.scroll = y]
<1>1. grid' = Filling(g, g) /\ mode' = mode /\ grid.height > 0
      BY UpdateNone DEF Scroll, Do
<1>2. grid \in Grids /\ Sound(mode, grid) /\ (Steady => Placed(grid))
      BY DEF IInv, Good, Sound, Kept
<1>3. /\ g \in Grids /\ g.used = grid.used /\ g.start = grid.start /\ g.end = grid.end
      /\ g.rows = grid.rows /\ g.columns = grid.columns /\ g.focused = grid.focused
      /\ g.items = grid.items /\ g.height = grid.height /\ g.scroll = y
      /\ g.rowHeight = grid.rowHeight
      BY <1>2 DEF Grids
<1> HIDE DEF g
<1>4. Sound(mode, g)
      BY <1>2, <1>3, UsedSame DEF Sound
<1>5. /\ grid.rows \in Nat /\ grid.rowHeight \in Nat /\ grid.height \in Nat /\ Extend(grid) \in Nat
      /\ Pitch(grid) \in Nat /\ Pitch(grid) = grid.rowHeight + PadRow
      /\ PadRow \in Nat /\ PadTop \in Nat /\ PadBottom \in Nat /\ y \in Nat
      BY <1>2, GridSizes, SizesAre
<1>6. ASSUME Steady, grid.rows >= 1 PROVE Visible(g, g.rows - 1)
  <2> DEFINE p == grid.rows * Pitch(grid)
             most == p + PadTop + PadBottom - grid.height
  <2>1. Pitch(grid) * (grid.rows - 1) = p - Pitch(grid)
        BY <1>5
  <2>2. p \in Nat /\ p >= Pitch(grid)
    <3>1. \A i \in Nat, x \in Nat : i >= 1 => i * x \in Nat /\ i * x >= x
          OBVIOUS
    <3> QED BY <1>5, <1>6, <3>1
  <2>3. y <= Max({0, most})
        BY DEF Scroll
  <2> HIDE DEF p
  <2>4. most \in Int
        BY <1>5, <2>2
  <2>5. y <= (IF 0 >= most THEN 0 ELSE most)
    <3> HIDE DEF most
    <3> QED BY <2>3, <2>4, Two
  <2>6. grid.height >= PadRow + PadBottom
    <3>1. grid.height \in Heights
          BY <1>1, <1>2, <1>5 DEF Grids
    <3> QED BY <1>6, <3>1 DEF Steady
  <2>7. y - PadTop - Extend(grid) <= (p - Pitch(grid)) + grid.rowHeight
        BY <1>5, <2>2, <2>5, <2>6
  <2>8. Extend(g) = Extend(grid) /\ Pitch(g) = Pitch(grid)
        BY <1>3 DEF Extend, Pitch
  <2> QED BY <1>3, <2>1, <2>7, <2>8 DEF Visible
<1>7. Steady => Ready(g)
      BY <1>2, <1>3, <1>6 DEF Placed, Ready
<1>8. Good(mode, Filling(g, g))
      BY <1>4, <1>7, FilledGood
<1> QED BY <1>1, <1>8 DEF IInv

\* lv_gridview_focus binds no view to older data
LEMMA FocusGood ==
  ASSUME IInv, NEW p \in Int, Do(Focus(grid, p))
  PROVE  IInv'
<1> DEFINE h == Focus(grid, p)
<1>1. grid' = h /\ mode' = mode
      BY DEF Do
<1>2. grid \in Grids /\ Sound(mode, grid) /\ (Steady => Kept(grid))
      BY DEF IInv, Good, Sound
<1>3. /\ h \in Grids /\ Frame(h) = Frame(grid)
      /\ OneEach(grid) => OneEach(h)
      /\ OneEach(grid) /\ FocusRight(grid) => FocusRight(h)
      /\ Celled(grid) => Celled(h)
      /\ \A q : Covered(grid, q) => Covered(h, q)
      BY <1>2, Focused
<1> HIDE DEF h
<1>4. /\ h.start = grid.start /\ h.end = grid.end /\ h.columns = grid.columns
      /\ h.items = grid.items /\ h.rows = grid.rows /\ h.rowHeight = grid.rowHeight
      /\ h.height = grid.height /\ h.scroll = grid.scroll
      BY <1>3 DEF Frame
<1>5. Sound(mode, h)
      BY <1>2, <1>3, <1>4 DEF Sound
<1>6. Kept(grid) => Kept(h)
      BY <1>3, <1>4 DEF Kept, Placed, Visible, Extend, Pitch, Filled, FirstOf, LastOf
<1> QED BY <1>1, <1>2, <1>5, <1>6 DEF IInv, Good

\* key_cb moves the focus to an integer position
LEMMA KeyGood ==
  ASSUME IInv, NEW o \in {-grid.columns, -1, 1, grid.columns}, NEW k \in BOOLEAN, Key(o, k)
  PROVE  IInv'
<1> DEFINE index == IF grid.focused < 0 THEN grid.start * grid.columns ELSE grid.focused + o
           last == grid.items - 1
           to == IF k THEN Max({0, Min({index, last})}) ELSE index
<1>1. Do(Focus(grid, to))
      BY DEF Key
<1>2. index \in Int /\ last \in Int
  <2>1. grid \in Grids
        BY DEF IInv, Good, Sound
  <2>2. grid.columns \in Int /\ grid.start \in Int /\ grid.items \in Int /\ grid.focused \in Int
        BY <2>1, GridSizes DEF Grids
  <2> QED BY <2>2
<1> HIDE DEF index, last
<1>3. Min({index, last}) \in Int
      BY <1>2, Two
<1> DEFINE least == Min({index, last})
<1>4. Max({0, least}) \in Int
  <2> HIDE DEF least
  <2> QED BY <1>3, Two DEF least
<1>5. to \in Int
      BY <1>2, <1>4
<1> HIDE DEF to
<1> QED BY <1>1, <1>5, FocusGood

\* lv_gridview_focus_when_available only notes the position
LEMMA FocusWhenAvailableGood ==
  ASSUME IInv, NEW p \in Later, FocusWhenAvailable(p)
  PROVE  IInv'
<1> DEFINE h == [grid EXCEPT !.later = p]
<1>1. grid' = h /\ mode' = mode
      BY DEF FocusWhenAvailable, Do
<1>2. grid \in Grids /\ Sound(mode, grid) /\ (Steady => Kept(grid))
      BY DEF IInv, Good, Sound
<1>3. /\ h \in Grids /\ h.used = grid.used /\ h.focused = grid.focused
      /\ h.gone = grid.gone /\ h.stale = grid.stale
      /\ h.start = grid.start /\ h.end = grid.end /\ h.columns = grid.columns
      /\ h.items = grid.items /\ h.rows = grid.rows /\ h.rowHeight = grid.rowHeight
      /\ h.height = grid.height /\ h.scroll = grid.scroll
      BY <1>2 DEF Grids
<1> HIDE DEF h
<1>4. Sound(mode, h)
      BY <1>2, <1>3, UsedSame DEF Sound
<1>5. \A q : Covered(grid, q) => Covered(h, q)
      BY <1>3, UsedSame DEF Covered
<1>6. Kept(grid) => Kept(h)
      BY <1>3, <1>5 DEF Kept, Placed, Visible, Extend, Pitch, Filled, FirstOf, LastOf
<1> QED BY <1>1, <1>2, <1>4, <1>6 DEF IInv, Good

\* the data changes in place: from the first position on nothing is promised until it is bound
LEMMA TouchGood ==
  ASSUME IInv, Touch
  PROVE  IInv'
<1> DEFINE g == Unbound(grid)
           h == [g EXCEPT !.stale = 0]
<1>1. grid' = h /\ mode' = mode
      BY DEF Touch, Do
<1>2. grid \in Grids /\ Sound(mode, grid) /\ (Steady => Kept(grid))
      BY DEF IInv, Good, Sound
<1>3. /\ Sound(mode, g) /\ Around(g) = Around(grid) /\ g.gone = grid.gone
      /\ \A q : Has(g, q) <=> Has(grid, q)
      BY <1>2, UnboundSound
<1> HIDE DEF g
<1>4. g \in Grids /\ 0 \in 0..MaxItems
      BY <1>3, ItemsAssumption DEF Sound
<1>5. /\ h \in Grids /\ h.used = g.used /\ h.focused = g.focused
      /\ h.gone = g.gone /\ h.stale = 0
      /\ h.start = g.start /\ h.end = g.end /\ h.columns = g.columns
      /\ h.items = g.items /\ h.rows = g.rows /\ h.rowHeight = g.rowHeight
      /\ h.height = g.height /\ h.scroll = g.scroll
      BY <1>4 DEF Grids
<1> HIDE DEF h
<1>6. Sound(mode, h)
      BY <1>3, <1>5, UsedSame DEF Sound
<1>7. /\ h.start = grid.start /\ h.end = grid.end /\ h.columns = grid.columns
      /\ h.items = grid.items /\ h.rows = grid.rows /\ h.rowHeight = grid.rowHeight
      /\ h.height = grid.height /\ h.scroll = grid.scroll
      BY <1>3, <1>5 DEF Around
<1>8. ASSUME NEW q \in Nat, Covered(grid, q) PROVE Covered(h, q)
  <2>1. Has(h, q) <=> Has(grid, q)
        BY <1>3, <1>5, UsedSame
  <2>2. q \in h.gone <=> q \in grid.gone
        BY <1>3, <1>5
  <2>3. ~(q < h.stale)
        BY <1>5
  <2> QED BY <1>8, <2>1, <2>2, <2>3 DEF Covered
<1>9. Kept(grid) => Kept(h)
  <2>1. Placed(grid) => Placed(h)
        BY <1>7 DEF Placed, Visible, Extend, Pitch
  <2>2. /\ grid.end \in Int /\ FirstOf(grid, grid.start) \in Nat /\ LastOf(grid, grid.end) \in Int
        BY <1>2, GridSizes, PositionsAre
  <2>3. \A q \in FirstOf(grid, grid.start)..LastOf(grid, grid.end) : q \in Nat
        BY <2>2
  <2>4. FirstOf(h, h.start) = FirstOf(grid, grid.start) /\ LastOf(h, h.end) = LastOf(grid, grid.end)
        BY <1>7 DEF FirstOf, LastOf
  <2> QED BY <1>7, <1>8, <2>1, <2>3, <2>4 DEF Kept, Filled
<1> QED BY <1>1, <1>2, <1>6, <1>9 DEF IInv, Good

\* lv_gridview_rebind_item binds a view that is in use
LEMMA RebindItemGood ==
  ASSUME IInv, NEW p \in 0..MaxItems - 1, RebindItem(p)
  PROVE  IInv'
<1> DEFINE h == ObtainItem(grid, p)
<1>1. grid' = h /\ mode' = mode
      BY DEF RebindItem, Do
<1>2. grid \in Grids /\ Sound(mode, grid) /\ (Steady => Kept(grid))
      BY DEF IInv, Good, Sound
<1>3. /\ h \in Grids /\ Around(h) = Around(grid)
      /\ OneEach(grid) => OneEach(h)
      /\ FocusRight(grid) => FocusRight(h)
      /\ Celled(grid) => Celled(h)
      /\ Fresh(h, p) /\ Has(h, p)
      /\ \A q : q # p => /\ Has(h, q) <=> Has(grid, q)
                         /\ Fresh(grid, q) => Fresh(h, q)
                         /\ q \in h.gone <=> q \in grid.gone
      BY <1>2, Obtained
<1> HIDE DEF h
<1>4. /\ h.start = grid.start /\ h.end = grid.end /\ h.columns = grid.columns
      /\ h.items = grid.items /\ h.stale = grid.stale
      BY <1>3 DEF Around
<1>5. Sound(mode, h)
      BY <1>2, <1>3, <1>4 DEF Sound
<1>6. \A q : Covered(grid, q) => Covered(h, q)
      BY <1>3, <1>4 DEF Covered
<1>7. Kept(grid) => Kept(h)
      BY <1>3, <1>4, <1>6, PlacedSame DEF Kept, Filled, FirstOf, LastOf
<1> QED BY <1>1, <1>2, <1>5, <1>7 DEF IInv, Good

\* item_delete_cb takes out the one view of the item
LEMMA DeleteItemGood ==
  ASSUME IInv, NEW i \in DOMAIN grid.used, DeleteItem(i)
  PROVE  IInv'
<1> DEFINE u == RemoveAt(grid.used, i)
           p == grid.used[i].pos
           h == [grid EXCEPT !.used = u, !.gone = grid.gone \cup {p}]
           At(k) == IF k < i THEN k ELSE k + 1
<1>1. grid' = h /\ mode' = mode /\ mode = "rebinds"
      BY DEF DeleteItem, Do
<1>2. grid \in Grids /\ Sound(mode, grid) /\ (Steady => Kept(grid))
      BY DEF IInv, Good, Sound
<1>3. /\ grid.used \in Seq(Node) /\ DOMAIN grid.used = 1..Len(grid.used) /\ Len(grid.used) \in Nat
      /\ i \in 1..Len(grid.used)
      BY <1>2 DEF Grids
<1>4. /\ u \in Seq(Node) /\ DOMAIN u = 1..Len(grid.used) - 1
      /\ \A k \in 1..Len(grid.used) - 1 : u[k] = grid.used[At(k)]
  <2>1. /\ u \in Seq(Node) /\ Len(u) = Len(grid.used) - 1
        /\ \A k \in 1..Len(grid.used) - 1 : u[k] = grid.used[IF k < i THEN k ELSE k + 1]
        BY <1>3, RemovedAt
  <2> HIDE DEF u
  <2> QED BY <1>3, <2>1
<1>5. p \in 0..MaxItems - 1
  <2>1. grid.used[i] \in Node
        BY <1>3
  <2> QED BY <2>1 DEF Node
<1> HIDE DEF u
<1>6. /\ h \in Grids /\ h.used = u /\ Around(h) = Around(grid) /\ h.gone = grid.gone \cup {p}
      BY <1>2, <1>4, <1>5 DEF Grids, Around
<1> HIDE DEF h
<1>7. /\ h.start = grid.start /\ h.end = grid.end /\ h.columns = grid.columns
      /\ h.items = grid.items /\ h.stale = grid.stale /\ h.focused = grid.focused
      BY <1>6 DEF Around
<1>8. /\ \A k \in DOMAIN u : At(k) \in DOMAIN grid.used /\ u[k] = grid.used[At(k)] /\ At(k) # i
      /\ \A k, l \in DOMAIN u : At(k) = At(l) => k = l
      BY <1>3, <1>4
<1>9. OneEach(grid) /\ FocusRight(grid)
      BY <1>1, <1>2 DEF Sound
<1>10. \A k \in DOMAIN grid.used : k # i => \E l \in DOMAIN u : At(l) = k
  <2> SUFFICES ASSUME NEW k \in DOMAIN grid.used, k # i PROVE \E l \in DOMAIN u : At(l) = k
      OBVIOUS
  <2>1. CASE k < i
    <3>1. k \in DOMAIN u /\ At(k) = k
          BY <1>3, <1>4, <2>1
    <3> QED BY <3>1
  <2>2. CASE ~(k < i)
    <3>1. k - 1 \in DOMAIN u /\ At(k - 1) = k
          BY <1>3, <1>4, <2>2
    <3> QED BY <3>1
  <2> QED BY <2>1, <2>2
<1> HIDE DEF At
<1>11. OneEach(h) /\ FocusRight(h) /\ (Celled(grid) => Celled(h))
       BY <1>6, <1>7, <1>8, <1>9 DEF OneEach, FocusRight, Celled, Cell
<1>12. Sound(mode, h)
       BY <1>2, <1>6, <1>7, <1>11 DEF Sound
<1>13. ASSUME NEW q, Covered(grid, q) PROVE Covered(h, q)
  <2>1. CASE q = p
    <3>1. ~Has(h, q)
      <4> SUFFICES ASSUME NEW k \in DOMAIN u, u[k].pos = p PROVE FALSE
          BY <1>6, <2>1 DEF Has
      <4> QED BY <1>8, <1>9 DEF OneEach
    <3> QED BY <1>6, <2>1, <3>1 DEF Covered
  <2>2. CASE q # p
    <3>1. ASSUME NEW k \in DOMAIN grid.used, grid.used[k].pos = q
          PROVE  \E l \in DOMAIN u : u[l] = grid.used[k]
          BY <1>8, <1>10, <2>2, <3>1
    <3>2. Has(grid, q) <=> Has(h, q)
          BY <1>6, <1>8, <3>1 DEF Has
    <3>3. ASSUME Fresh(grid, q) PROVE Fresh(h, q)
      <4>1. PICK k \in DOMAIN grid.used : grid.used[k].pos = q /\ grid.used[k].bound
            BY <3>3 DEF Fresh
      <4>2. PICK l \in DOMAIN u : u[l].pos = q /\ u[l].bound
            BY <3>1, <4>1
      <4>3. ASSUME NEW j \in 1..l - 1 PROVE u[j].pos # q
        <5>1. j \in DOMAIN u /\ j # l
              BY <1>3, <1>4
        <5> QED BY <1>6, <1>11, <4>2, <5>1 DEF OneEach
      <4> QED BY <1>6, <4>2, <4>3 DEF Fresh
    <3> QED BY <1>6, <1>7, <1>13, <3>2, <3>3 DEF Covered
  <2> QED BY <2>1, <2>2
<1>14. Kept(grid) => Kept(h)
       BY <1>6, <1>7, <1>13, PlacedSame DEF Kept, Filled, FirstOf, LastOf
<1> QED BY <1>1, <1>2, <1>12, <1>14 DEF IInv, Good

\* lv_gridview_rebind binds the items before the first without a view
LEMMA RebindGood ==
  ASSUME IInv, Rebind
  PROVE  IInv'
<1> DEFINE a == FirstOf(grid, grid.start)
           b == LastOf(grid, grid.end)
           len == IF b - a + 1 >= 0 THEN b - a + 1 ELSE 0
           window == Positions(grid, grid.start, grid.end)
           missing == {k \in DOMAIN window : NodeAt(grid, window[k]) = 0} \cup {Len(window) + 1}
           stop == Min(missing)
           seq == SubSeq(window, 1, stop - 1)
           g == FoldLeft(ObtainItem, grid, seq)
           stale == IF stop > Len(window) THEN MaxItems ELSE Max({g.stale, window[stop]})
           h == [g EXCEPT !.stale = stale]
<1>1. grid' = h /\ mode' = mode
      BY DEF Rebind, Do
<1>2. /\ grid \in Grids /\ Sound(mode, grid) /\ (Steady => Kept(grid)) /\ MaxItems \in Nat
      /\ grid.stale \in 0..MaxItems
      BY ItemsAssumption DEF IInv, Good, Sound, Grids
<1>3. a \in Nat /\ b \in Int /\ b <= MaxItems - 1 /\ window = Interval(a, b)
      BY <1>2, GridSizes, PositionsAre
<1> HIDE DEF a, b, window
<1>4. /\ len \in Nat /\ window \in Seq(Int) /\ DOMAIN window = 1..len /\ Len(window) = len
      /\ \A k \in 1..len : window[k] = a + k - 1
  <2>1. a \in Int
        BY <1>3
  <2>2. /\ len \in Nat /\ Interval(a, b) \in Seq(Int) /\ DOMAIN Interval(a, b) = 1..len
        /\ \A k \in 1..len : Interval(a, b)[k] = a + k - 1
        BY <1>3, <2>1, IntervalIs
  <2> HIDE DEF len
  <2>3. Len(Interval(a, b)) = len
        BY <2>2
  <2> QED BY <1>3, <2>2, <2>3
<1>5. \A k \in 1..len : window[k] \in 0..MaxItems - 1
      BY <1>2, <1>3, <1>4
<1>6. \A q \in a..b : q - a + 1 \in 1..len
      BY <1>3
<1> HIDE DEF len
<1>7. stop \in 1..len + 1
  <2>1. missing \in SUBSET Nat /\ len + 1 \in missing /\ missing \subseteq 1..len + 1
        BY <1>4
  <2> HIDE DEF missing
  <2> QED BY <2>1, LeastOf
<1> HIDE DEF stop
<1>8. /\ stop - 1 \in Nat /\ DOMAIN seq = 1..stop - 1
      /\ \A k \in 1..stop - 1 : seq[k] = window[k] /\ seq[k] \in 0..MaxItems - 1
  <2>1. stop - 1 \in Nat /\ stop - 1 <= len
        BY <1>4, <1>7
  <2>2. seq \in Seq(Int) /\ Len(seq) = stop - 1 /\ \A k \in 1..stop - 1 : seq[k] = window[k]
        BY <1>4, <2>1, SubSeqProperties
  <2> HIDE DEF seq
  <2>3. DOMAIN seq = 1..stop - 1
        BY <2>1, <2>2
  <2> QED BY <1>4, <1>5, <2>1, <2>2, <2>3
<1> HIDE DEF seq
<1>9. /\ g \in Grids /\ Around(g) = Around(grid)
      /\ OneEach(grid) => OneEach(g)
      /\ FocusRight(grid) => FocusRight(g)
      /\ Celled(grid) => Celled(g)
      /\ \A k \in 1..stop - 1 : Has(g, seq[k]) /\ Fresh(g, seq[k])
      /\ \A q : Covered(grid, q) => Covered(g, q)
      BY <1>2, <1>8, ObtainedAll
<1> HIDE DEF g
<1>10. g.stale = grid.stale /\ g.stale \in 0..MaxItems
       BY <1>2, <1>9 DEF Around
<1>11. /\ stale \in 0..MaxItems
       /\ \A q \in a..b : q < stale => q < g.stale \/ q - a + 1 \in 1..stop - 1
  <2>1. CASE stop > len
    <3>1. stop - 1 = len /\ stale = MaxItems
          BY <1>4, <1>7, <2>1
    <3> QED BY <1>2, <1>6, <3>1
  <2>2. CASE ~(stop > len)
    <3>1. stop \in 1..len /\ window[stop] = a + stop - 1
          BY <1>4, <1>7, <2>2
    <3>2. window[stop] \in 0..MaxItems - 1
          BY <1>5, <3>1
    <3> DEFINE w == window[stop]
               t == g.stale
    <3>3. w \in Int /\ t \in Int /\ stale = Max({t, w})
          BY <1>2, <1>4, <1>10, <2>2, <3>2
    <3> HIDE DEF stale, w, t
    <3>4. stale = IF t >= w THEN t ELSE w
          BY <3>3, Two
    <3>5. stale \in 0..MaxItems
          BY <1>2, <1>10, <3>2, <3>4 DEF w, t
    <3>6. \A q \in a..b : q < w => q - a + 1 \in 1..stop - 1
          BY <1>3, <3>1 DEF w
    <3> QED BY <3>3, <3>4, <3>5, <3>6 DEF t
  <2> QED BY <1>4, <1>7, <2>1, <2>2
<1> HIDE DEF stale
<1>12. /\ h \in Grids /\ h.used = g.used /\ h.focused = g.focused
       /\ h.gone = g.gone /\ h.stale = stale
       /\ h.start = g.start /\ h.end = g.end /\ h.columns = g.columns
       /\ h.items = g.items /\ h.rows = g.rows /\ h.rowHeight = g.rowHeight
       /\ h.height = g.height /\ h.scroll = g.scroll
       BY <1>9, <1>11 DEF Grids
<1> HIDE DEF h
<1>13. /\ h.start = grid.start /\ h.end = grid.end /\ h.columns = grid.columns
       /\ h.items = grid.items /\ h.rows = grid.rows /\ h.rowHeight = grid.rowHeight
       /\ h.height = grid.height /\ h.scroll = grid.scroll
       BY <1>9, <1>12 DEF Around
<1>14. Sound(mode, h)
       BY <1>2, <1>9, <1>12, <1>13, UsedSame DEF Sound
<1>15. ASSUME NEW q \in a..b, Covered(grid, q) PROVE Covered(h, q)
  <2>1. Covered(g, q)
        BY <1>9, <1>15
  <2>2. (Has(h, q) <=> Has(g, q)) /\ (Fresh(h, q) <=> Fresh(g, q))
        BY <1>12, UsedSame
  <2>3. ASSUME q - a + 1 \in 1..stop - 1 PROVE Fresh(g, q)
    <3> DEFINE k == q - a + 1
    <3>1. k \in 1..stop - 1 /\ a + k - 1 = q
          BY <1>3, <2>3
    <3> HIDE DEF k
    <3>2. k \in 1..len
          BY <1>4, <1>7, <3>1
    <3>3. seq[k] = q
          BY <1>4, <1>8, <3>1, <3>2
    <3> QED BY <1>9, <3>1, <3>3
  <2>4. q < stale => q < g.stale \/ Fresh(g, q)
        BY <1>11, <2>3
  <2> QED BY <1>12, <2>1, <2>2, <2>4 DEF Covered
<1>16. Kept(grid) => Kept(h)
  <2>1. Placed(grid) => Placed(h)
        BY <1>13 DEF Placed, Visible, Extend, Pitch
  <2>2. FirstOf(h, h.start) = a /\ LastOf(h, h.end) = b
        BY <1>13 DEF FirstOf, LastOf, a, b
  <2>3. Filled(grid, grid.start, grid.end) => Filled(h, h.start, h.end)
        BY <1>15, <2>2 DEF Filled, a, b
  <2> QED BY <1>13, <2>1, <2>3 DEF Kept
<1> QED BY <1>1, <1>2, <1>14, <1>16 DEF IInv, Good

\* every step keeps the grid sound
LEMMA NextGood == IInv /\ [Next]_vars => IInv'
<1> SUFFICES ASSUME IInv, [Next]_vars PROVE IInv'
    OBVIOUS
<1>1. ASSUME NEW n \in 0..MaxItems, SetData(n) PROVE IInv'
      BY <1>1, SetDataGood
<1>2. CASE SetDataAdvanced
      BY <1>2, SetDataAdvancedGood
<1>3. CASE Touch
      BY <1>3, TouchGood
<1>4. CASE Rebind
      BY <1>4, RebindGood
<1>5. ASSUME NEW p \in 0..MaxItems - 1, RebindItem(p) PROVE IInv'
      BY <1>5, RebindItemGood
<1>6. ASSUME NEW i \in DOMAIN grid.used, DeleteItem(i) PROVE IInv'
      BY <1>6, DeleteItemGood
<1>7. ASSUME NEW c \in Columns, NEW h \in RowHeights, SetConfig(c, h) PROVE IInv'
      BY <1>7, SetConfigGood
<1>8. ASSUME NEW h \in Heights, Resize(h) PROVE IInv'
      BY <1>8, ResizeGood
<1>9. ASSUME NEW y \in Scrolls, Scroll(y) PROVE IInv'
      BY <1>9, ScrollGood
<1>10. ASSUME NEW p \in -1..MaxItems, FocusCall(p) PROVE IInv'
  <2>1. p \in Int
        OBVIOUS
  <2> QED BY <1>10, <2>1, FocusGood DEF FocusCall
<1>11. ASSUME NEW p \in Later, FocusWhenAvailable(p) PROVE IInv'
       BY <1>11, FocusWhenAvailableGood
<1>12. ASSUME NEW o \in {-grid.columns, -1, 1, grid.columns}, NEW k \in BOOLEAN, Key(o, k)
       PROVE  IInv'
       BY <1>12, KeyGood
<1>13. CASE Halted \/ UNCHANGED vars
       BY <1>13 DEF Halted, vars, IInv
<1> QED BY <1>1, <1>2, <1>3, <1>4, <1>5, <1>6, <1>7, <1>8, <1>9, <1>10, <1>11, <1>12, <1>13 DEF Next

\* The grid stays sound through every call and event, for any sizes, positions and number of items.
THEOREM Invariance == Spec => []IInv
BY InitGood, NextGood, PTL DEF Spec

\* Positions, rows, counts and the window stay within the data.
THEOREM TypeCorrect == Spec => []TypeOK
<1>1. IInv => TypeOK
  <2> SUFFICES ASSUME IInv PROVE TypeOK
      OBVIOUS
  <2>1. grid \in Grids /\ grid.start <= grid.end
        BY DEF IInv, Good, Sound
  <2>2. /\ grid.start \in -1..MaxItems /\ grid.end \in -1..MaxItems /\ MaxItems \in Nat
        BY <2>1, ItemsAssumption DEF Grids
  <2>3. grid.end \in grid.start..MaxItems
        BY <2>1, <2>2
  <2> QED BY <2>1, <2>3 DEF TypeOK, Grids
<1> QED BY <1>1, Invariance, PTL

\* No two views stand for one item, unless the application changes its data elsewhere than at
\* its end: what is put to use was looked for first, and a deleted or recycled view is out.
THEOREM OneViewEachSafe == Spec => []OneViewEach
<1>1. IInv => OneViewEach
      BY DEF IInv, Good, Sound, OneEach, OneViewEach
<1> QED BY <1>1, Invariance, PTL

\* At most one view has the focus, that of the focused item, in the same modes.
THEOREM OneFocusedSafe == Spec => []OneFocused
<1>1. IInv => OneFocused
      BY DEF IInv, Good, Sound, FocusRight, OneFocused, Used
<1> QED BY <1>1, Invariance, PTL

\* Every view is in the cell of its position, with one number of columns for good (clear_rows
\* leaves the last row of the window where it was) and fewer than 256 rows (uint8_t row_idx).
THEOREM CellsRightSafe ==
  ASSUME FixedCells
  PROVE  Spec => []CellsRight
<1>1. IInv => CellsRight
      BY DEF IInv, Good, Sound, Celled, CellsRight, Used
<1> QED BY <1>1, Invariance, PTL

\* Every item in the window has a view bound to the data, but for those deleted and what
\* lv_gridview_rebind leaves out, once LVGL has laid the grid out: no call or event makes
\* update_grid return before it fills a window with an item in it.
THEOREM WindowFilledSafe ==
  ASSUME Steady
  PROVE  Spec => []WindowFilled
<1>1. IInv => WindowFilled
  <2> SUFFICES ASSUME IInv, grid.start >= 0, NEW p \in Window
               PROVE  /\ NodeAt(grid, p) # 0 \/ p \in grid.gone
                      /\ NodeAt(grid, p) # 0 /\ p < grid.stale => grid.used[NodeAt(grid, p)].bound
      BY DEF WindowFilled
  <2>1. grid \in Grids /\ Filled(grid, grid.start, grid.end)
        BY DEF IInv, Good, Kept, Sound
  <2> DEFINE a == FirstOf(grid, grid.start)
             b == LastOf(grid, grid.end)
             len == IF b - a + 1 >= 0 THEN b - a + 1 ELSE 0
             s == Positions(grid, grid.start, grid.end)
  <2>2. a \in Int /\ b \in Int /\ s = Interval(a, b)
        BY <2>1, GridSizes, PositionsAre
  <2>3. PICK i \in DOMAIN s : p = s[i]
        BY DEF Window
  <2> HIDE DEF a, b, s
  <2>4. i \in 1..len /\ p = a + i - 1 /\ len \in Nat
        BY <2>2, <2>3, IntervalIs
  <2>5. p \in a..b
        BY <2>2, <2>4
  <2>6. Covered(grid, p)
        BY <2>1, <2>5 DEF Filled, a, b
  <2> QED BY <2>1, <2>6, HasNode DEF Covered
<1> QED BY <1>1, Invariance, PTL

===============================================================================
