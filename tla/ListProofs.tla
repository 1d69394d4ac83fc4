------------------------------ MODULE ListProofs ------------------------------
(***************************************************************************)
(* Theorems about LinkedList, for any finite number of nodes with any      *)
(* keys, and about ArrayList, for any items. LinksInv ties the links of    *)
(* every node to its place in the sequence; from it follows where a walk   *)
(* along next gets to (Walked), hence what each of the functions that walk *)
(* finds, and each operation keeps it. ArrayInv ties the cells of memory   *)
(* to the sequence, and the capacity to its length.                        *)
(***************************************************************************)
EXTENDS LinkedList, ArrayList, SequenceTheorems, FiniteSetTheorems, TLAPS

-----------------------------------------------------------------------------
(* LinkedList: the invariant                                                *)

\* the i-th node of a sequence, the null pointer before the first and after the last
At(c, i) == IF i \in 1..Len(c) THEN c[i] ELSE NoNode

Typed == /\ nodes \in SUBSET Nodes
         /\ next \in [Nodes -> Nodes \cup {NoNode}]
         /\ prev \in [Nodes -> Nodes \cup {NoNode}]
         /\ content \in Seq(nodes)

Distinct == \A i, j \in 1..Len(content) : content[i] = content[j] => i = j

\* the links of the list's nodes
Linked == /\ head = At(content, 1)
          /\ \A i \in 1..Len(content) : /\ next[content[i]] = At(content, i + 1)
                                        /\ prev[content[i]] = At(content, i - 1)

\* and those of nodes in no list
Cleared == \A n \in nodes : /\ \A i \in 1..Len(content) : content[i] # n
                            => next[n] = NoNode /\ prev[n] = NoNode

LinksInv == Typed /\ Distinct /\ Linked /\ Cleared

-----------------------------------------------------------------------------
(* Numbers and sequences                                                    *)

\* induction over the natural numbers where what is shown holds
LEMMA AllOf ==
  ASSUME NEW T, 0 \in T, \A k \in Nat : k \in T => k + 1 \in T
  PROVE  \A k \in Nat : k \in T
<1> DEFINE Out == {k \in Nat : k \notin T}
<1> SUFFICES ASSUME Out # {} PROVE FALSE
    OBVIOUS
<1>1. PICK m \in Out : \A k \in Out : <<k, m>> \notin OpToRel(<, Nat)
      BY NatLessThanWellFounded, WFMin
<1>2. \A k \in Out : ~(k < m)
      BY <1>1 DEF OpToRel
<1>3. m # 0 /\ m - 1 \in Nat /\ m - 1 \notin Out
      BY <1>2
<1>4. m - 1 \in T
      BY <1>3
<1> QED BY <1>3, <1>4

\* a set of natural numbers has a least one
LEMMA LeastOf ==
  ASSUME NEW I \in SUBSET Nat, I # {}
  PROVE  Min(I) \in I /\ \A k \in I : Min(I) <= k
<1>1. PICK m \in I : \A k \in I : <<k, m>> \notin OpToRel(<, Nat)
      BY NatLessThanWellFounded, WFMin
<1>2. \A k \in I : ~(k < m)
      BY <1>1 DEF OpToRel
<1>3. \A k \in I : m <= k
      BY <1>2
<1> QED BY <1>3 DEF Min

\* the parts of a sequence before and after its i-th element
LEMMA Parts ==
  ASSUME NEW S, NEW s \in Seq(S), NEW i \in 1..Len(s) + 1, NEW j \in 1..Len(s) + 1
  PROVE  /\ SubSeq(s, 1, i - 1) \in Seq(S) /\ Len(SubSeq(s, 1, i - 1)) = i - 1
         /\ \A k \in 1..i - 1 : SubSeq(s, 1, i - 1)[k] = s[k]
         /\ SubSeq(s, j, Len(s)) \in Seq(S) /\ Len(SubSeq(s, j, Len(s))) = Len(s) + 1 - j
         /\ \A k \in 1..Len(s) + 1 - j : SubSeq(s, j, Len(s))[k] = s[j + k - 1]
<1>1. /\ SubSeq(s, 1, i - 1) \in Seq(S) /\ Len(SubSeq(s, 1, i - 1)) = i - 1
      /\ \A k \in 1..i - 1 : SubSeq(s, 1, i - 1)[k] = s[k]
      BY SubSeqProperties
<1>2. /\ SubSeq(s, j, Len(s)) \in Seq(S) /\ Len(SubSeq(s, j, Len(s))) = Len(s) + 1 - j
      /\ \A k \in 1..Len(s) + 1 - j : SubSeq(s, j, Len(s))[k] = s[j + k - 1]
      BY SubSeqProperties
<1> QED BY <1>1, <1>2

\* a sequence without its i-th element
LEMMA RemovedAt ==
  ASSUME NEW S, NEW s \in Seq(S), NEW i \in 1..Len(s)
  PROVE  /\ RemoveAt(s, i) \in Seq(S)
         /\ Len(RemoveAt(s, i)) = Len(s) - 1
         /\ \A k \in 1..Len(s) - 1 : RemoveAt(s, i)[k] = s[IF k < i THEN k ELSE k + 1]
<1> DEFINE a == SubSeq(s, 1, i - 1)
           b == SubSeq(s, i + 1, Len(s))
<1>1. a \in Seq(S) /\ Len(a) = i - 1 /\ \A k \in 1..i - 1 : a[k] = s[k]
      BY Parts
<1>2. b \in Seq(S) /\ Len(b) = Len(s) - i /\ \A k \in 1..Len(s) - i : b[k] = s[i + k]
      BY SubSeqProperties
<1>3. RemoveAt(s, i) = a \o b
      BY DEF RemoveAt
<1> HIDE DEF a, b
<1>4. /\ a \o b \in Seq(S) /\ Len(a \o b) = Len(a) + Len(b)
      /\ \A k \in 1..Len(a) + Len(b) : (a \o b)[k] = IF k <= Len(a) THEN a[k] ELSE b[k - Len(a)]
      BY <1>1, <1>2, ConcatProperties
<1>5. \A k \in 1..Len(s) - 1 : (a \o b)[k] = s[IF k < i THEN k ELSE k + 1]
      BY <1>1, <1>2, <1>4
<1>6. Len(a \o b) = Len(s) - 1
      BY <1>1, <1>2, <1>4
<1> QED BY <1>3, <1>4, <1>5, <1>6

\* a sequence with one more element, at i
LEMMA InsertedAt ==
  ASSUME NEW S, NEW s \in Seq(S), NEW i \in 1..Len(s) + 1, NEW e \in S
  PROVE  /\ InsertAt(s, i, e) \in Seq(S)
         /\ Len(InsertAt(s, i, e)) = Len(s) + 1
         /\ \A k \in 1..Len(s) + 1 : InsertAt(s, i, e)[k] =
               IF k < i THEN s[k] ELSE IF k = i THEN e ELSE s[k - 1]
<1> DEFINE a == SubSeq(s, 1, i - 1)
           b == SubSeq(s, i, Len(s))
           c == Append(a, e)
<1>1. a \in Seq(S) /\ Len(a) = i - 1 /\ \A k \in 1..i - 1 : a[k] = s[k]
      BY Parts
<1>2. /\ b \in Seq(S) /\ Len(b) = Len(s) + 1 - i
      /\ \A k \in 1..Len(s) + 1 - i : b[k] = s[i + k - 1]
      BY Parts
<1>3. InsertAt(s, i, e) = c \o b
  <2> HIDE DEF a, b
  <2>1. Append(a, e) = a \o <<e>>
        BY <1>1, AppendIsConcat
  <2> QED BY <2>1 DEF InsertAt, a, b
<1> HIDE DEF a, b
<1>4. /\ c \in Seq(S) /\ Len(c) = i /\ c[i] = e /\ \A k \in 1..i - 1 : c[k] = s[k]
  <2>1. /\ c \in Seq(S) /\ Len(c) = Len(a) + 1 /\ c[Len(a) + 1] = e
        /\ \A k \in 1..Len(a) : c[k] = a[k]
        BY <1>1, AppendProperties
  <2> QED BY <1>1, <2>1
<1> HIDE DEF c
<1>5. /\ c \o b \in Seq(S) /\ Len(c \o b) = Len(c) + Len(b)
      /\ \A k \in 1..Len(c) + Len(b) : (c \o b)[k] = IF k <= Len(c) THEN c[k] ELSE b[k - Len(c)]
      BY <1>2, <1>4, ConcatProperties
<1>6. Len(c \o b) = Len(s) + 1
      BY <1>2, <1>4, <1>5
<1>7. ASSUME NEW k \in 1..Len(s) + 1
      PROVE  (c \o b)[k] = IF k < i THEN s[k] ELSE IF k = i THEN e ELSE s[k - 1]
      BY <1>2, <1>4, <1>5
<1> QED BY <1>3, <1>5, <1>6, <1>7

-----------------------------------------------------------------------------
(* Walking along a list                                                     *)

\* after i steps from the head one is at the node after the first i
LEMMA Walked == LinksInv => \A i \in Nat : Nth(head, i) = At(content, i + 1)
<1> SUFFICES ASSUME LinksInv PROVE \A i \in Nat : Nth(head, i) = At(content, i + 1)
    OBVIOUS
<1> DEFINE Body(f) == [i \in Nat |-> IF i = 0 THEN head ELSE After(f[i - 1])]
           node == CHOOSE f : f = Body(f)
           w == [i \in Nat |-> At(content, i + 1)]
           T == {i \in Nat : node[i] = w[i]}
<1>1. Len(content) \in Nat /\ \A i \in 1..Len(content) : content[i] \in nodes /\ content[i] # NoNode
      BY NodesAssumption, ElementOfSeq, LenProperties DEF LinksInv, Typed
<1>2. \A i \in Nat \ {0} : After(w[i - 1]) = w[i]
  <2> TAKE i \in Nat \ {0}
  <2>1. i - 1 \in Nat
        OBVIOUS
  <2>2. CASE i \in 1..Len(content)
        BY <1>1, <2>1, <2>2 DEF LinksInv, Linked, At, After
  <2>3. CASE i \notin 1..Len(content)
        BY <1>1, <2>1, <2>3 DEF At, After
  <2> QED BY <2>2, <2>3
<1>3. w = Body(w)
  <2>1. \A i \in Nat : w[i] = IF i = 0 THEN head ELSE After(w[i - 1])
        BY <1>2 DEF LinksInv, Linked
  <2> HIDE DEF w
  <2>2. w = [i \in Nat |-> w[i]]
        BY DEF w
  <2> QED BY <2>1, <2>2
<1>4. Walk(head) = node
      BY DEF Walk
<1> HIDE DEF w
<1>5. node = Body(node)
      BY <1>3
<1> HIDE DEF node
<1>6. 0 \in T
      BY <1>3, <1>5
<1>7. ASSUME NEW k \in Nat, k \in T PROVE k + 1 \in T
  <2>1. node[k + 1] = After(node[k])
        BY <1>5
  <2>2. w[k + 1] = After(w[k])
        BY <1>3
  <2> QED BY <2>1, <2>2, <1>7
<1> HIDE DEF T
<1>8. \A i \in Nat : i \in T
      BY <1>6, <1>7, AllOf
<1> QED BY <1>4, <1>8 DEF T, w, Nth

\* the sequence has at most as many elements as there are nodes, and len counts them
LEMMA LengthIs ==
  LinksInv => /\ Cardinality(Nodes) \in Nat
              /\ Len(content) \in 0..Cardinality(Nodes)
              /\ Length(head) = Len(content)
<1> SUFFICES ASSUME LinksInv
             PROVE  /\ Cardinality(Nodes) \in Nat
                    /\ Len(content) \in 0..Cardinality(Nodes)
                    /\ Length(head) = Len(content)
    OBVIOUS
<1>1. Len(content) \in Nat /\ \A i \in 1..Len(content) : content[i] \in Nodes /\ content[i] # NoNode
      BY NodesAssumption, ElementOfSeq, LenProperties DEF LinksInv, Typed
<1>2. Cardinality(Nodes) \in Nat
      BY NodesAssumption, FS_CardinalityType
<1>3. Len(content) <= Cardinality(Nodes)
  <2> DEFINE f == [i \in 1..Len(content) |-> content[i]]
  <2>1. f \in Injection(1..Len(content), Nodes)
        BY <1>1 DEF Injection, IsInjective, LinksInv, Distinct
  <2>2. Cardinality(1..Len(content)) <= Cardinality(Nodes)
        BY <2>1, NodesAssumption, FS_Injection
  <2>3. Cardinality(1..Len(content)) = Len(content)
    <3>1. Len(content) \in Int /\ 1 \in Int
          BY <1>1
    <3>2. Cardinality(1..Len(content)) = IF 1 > Len(content) THEN 0 ELSE Len(content) - 1 + 1
          BY <3>1, FS_Interval
    <3> QED BY <1>1, <3>2
  <2> QED BY <2>2, <2>3
<1>4. Nth(head, Len(content)) = NoNode /\ \A j \in 0..Len(content) - 1 : Nth(head, j) # NoNode
      BY <1>1, Walked DEF At
<1>5. \A i \in 0..Cardinality(Nodes) :
         Nth(head, i) = NoNode /\ (\A j \in 0..i - 1 : Nth(head, j) # NoNode) => i = Len(content)
      BY <1>1, <1>2, <1>4
<1>6. Length(head) = Len(content)
      BY <1>1, <1>2, <1>3, <1>4, <1>5 DEF Length
<1> QED BY <1>1, <1>2, <1>3, <1>6

\* the nodes one walks over are the sequence
LEMMA ForwardIs ==
  LinksInv => /\ Forward(head) = content
              /\ \A i \in 1..Len(content) : Nth(head, i - 1) = content[i]
<1> SUFFICES ASSUME LinksInv
             PROVE  /\ Forward(head) = content
                    /\ \A i \in 1..Len(content) : Nth(head, i - 1) = content[i]
    OBVIOUS
<1>1. content \in Seq(nodes) /\ Len(content) \in Nat
      BY LenProperties DEF LinksInv, Typed
<1>2. \A i \in 1..Len(content) : Nth(head, i - 1) = content[i]
      BY <1>1, Walked DEF At
<1>3. content = [i \in 1..Len(content) |-> content[i]]
      BY <1>1
<1>4. Forward(head) = content
      BY <1>1, <1>2, <1>3, LengthIs DEF Forward
<1> QED BY <1>2, <1>4

\* The functions that walk find what the sequence has: index any of its nodes and
\* no other, find_by one for which the function returns 0.
LEMMA Found ==
  ASSUME LinksInv, NEW n \in Nodes
  PROVE  /\ IndexOf(head, n) = -1 <=> n \notin Range(content)
         /\ n \in Range(content) => Key[FindBy(head, Key[n])] = Key[n]
<1>1. /\ DOMAIN content = 1..Len(content) /\ Len(content) \in Nat
      /\ Forward(head) = content
      /\ \A i \in 1..Len(content) : Nth(head, i - 1) = content[i]
      BY ForwardIs, LenProperties DEF LinksInv, Typed
<1>2. n \in Range(content) <=> \E i \in 1..Len(content) : content[i] = n
      BY <1>1 DEF Range
<1>3. IndexOf(head, n) = -1 <=> n \notin Range(content)
  <2> DEFINE at == {i \in 1..Len(content) : content[i] = n}
  <2>1. IndexOf(head, n) = IF at = {} THEN -1 ELSE Min(at) - 1
        BY <1>1 DEF IndexOf
  <2>2. at # {} => Min(at) \in 1..Len(content)
    <3>1. at \in SUBSET Nat
          BY <1>1
    <3> QED BY <3>1, LeastOf
  <2>3. at = {} <=> n \notin Range(content)
        BY <1>2
  <2> HIDE DEF at
  <2> QED BY <1>1, <2>1, <2>2, <2>3
<1>4. ASSUME n \in Range(content) PROVE Key[FindBy(head, Key[n])] = Key[n]
  <2> DEFINE at == {i \in 1..Len(content) : Key[content[i]] = Key[n]}
  <2>1. FindBy(head, Key[n]) = IF at = {} THEN NoNode ELSE Nth(head, Min(at) - 1)
        BY <1>1 DEF FindBy
  <2>2. at # {}
        BY <1>2, <1>4
  <2>3. Min(at) \in at
    <3>1. at \in SUBSET Nat
          BY <1>1
    <3> QED BY <2>2, <3>1, LeastOf
  <2>4. Nth(head, Min(at) - 1) = content[Min(at)]
        BY <1>1, <2>3
  <2> QED BY <2>1, <2>2, <2>3, <2>4
<1> QED BY <1>3, <1>4

\* the invariant says what the property asks
LEMMA Holds == LinksInv => LinksHoldContent
<1> SUFFICES ASSUME LinksInv PROVE LinksHoldContent
    OBVIOUS
<1>1. Len(content) \in Nat /\ DOMAIN content = 1..Len(content) /\ content \in Seq(nodes)
      BY LenProperties DEF LinksInv, Typed
<1>2. \A i \in 1..Len(content) : content[i] \in nodes
      BY <1>1, ElementOfSeq
<1>3. NoNode \in {Nth(head, i) : i \in 0..Cardinality(Nodes)}
  <2>1. Nth(head, Len(content)) = NoNode
        BY <1>1, Walked DEF At
  <2> QED BY <2>1, LengthIs
<1>4. head # NoNode => prev[head] = NoNode
      BY <1>1 DEF LinksInv, Linked, At
<1>5. \A i \in 1..(Len(content) - 1) : prev[content[i + 1]] = content[i]
      BY <1>1 DEF LinksInv, Linked, At
<1>6. Range(content) \subseteq nodes
      BY <1>1, <1>2 DEF Range
<1>7. \A n \in Nodes : /\ IndexOf(head, n) = -1 <=> n \notin Range(content)
                       /\ n \in Range(content) => Key[FindBy(head, Key[n])] = Key[n]
      BY Found
<1> QED BY <1>3, <1>4, <1>5, <1>6, <1>7, ForwardIs DEF LinksHoldContent

-----------------------------------------------------------------------------
(* The operations keep it                                                   *)

\* what each of them needs to know of the nodes in the list
LEMMA Facts ==
  LinksInv => /\ Len(content) \in Nat /\ DOMAIN content = 1..Len(content)
              /\ \A i \in 1..Len(content) : content[i] \in nodes \cap Nodes /\ content[i] # NoNode
              /\ head = NoNode <=> Len(content) = 0
              /\ \A n \in nodes : n \in Nodes /\ n # NoNode
              /\ \A n : n \in Range(content) <=> \E i \in 1..Len(content) : content[i] = n
<1> SUFFICES ASSUME LinksInv
             PROVE  /\ Len(content) \in Nat /\ DOMAIN content = 1..Len(content)
                    /\ \A i \in 1..Len(content) : content[i] \in nodes \cap Nodes /\ content[i] # NoNode
                    /\ head = NoNode <=> Len(content) = 0
                    /\ \A n \in nodes : n \in Nodes /\ n # NoNode
                    /\ \A n : n \in Range(content) <=> \E i \in 1..Len(content) : content[i] = n
    OBVIOUS
<1>1. Len(content) \in Nat /\ DOMAIN content = 1..Len(content)
      BY LenProperties DEF LinksInv, Typed
<1>2. \A n \in nodes : n \in Nodes /\ n # NoNode
      BY NodesAssumption DEF LinksInv, Typed
<1>3. \A i \in 1..Len(content) : content[i] \in nodes \cap Nodes /\ content[i] # NoNode
      BY <1>1, <1>2, ElementOfSeq DEF LinksInv, Typed
<1>4. head = NoNode <=> Len(content) = 0
      BY <1>1, <1>3 DEF LinksInv, Linked, At
<1>5. \A n : n \in Range(content) <=> \E i \in 1..Len(content) : content[i] = n
      BY <1>1 DEF Range
<1> QED BY <1>1, <1>2, <1>3, <1>4, <1>5

\* a sequence whose elements are in another set is one over that set
LEMMA SeqWithin ==
  ASSUME NEW S, NEW T, NEW s \in Seq(S), \A i \in 1..Len(s) : s[i] \in T
  PROVE  s \in Seq(T)
<1>1. Len(s) \in Nat /\ s = [i \in 1..Len(s) |-> s[i]]
      BY LenProperties
<1>2. [i \in 1..Len(s) |-> s[i]] \in [1..Len(s) -> T]
      OBVIOUS
<1> QED BY <1>1, <1>2, SeqDef

\* A node that is allocated is new to the sequence and has no links.
LEMMA NewKeeps == ASSUME LinksInv, NEW n \in Nodes, NewNode(n) PROVE LinksInv'
<1> USE DEF NewNode
<1>1. n \notin nodes /\ content' = content /\ head' = head
      OBVIOUS
<1>2. \A i \in 1..Len(content) : content[i] # n
      BY <1>1, Facts
<1>3. Typed'
  <2>1. content \in Seq(nodes')
        BY Facts, SeqWithin DEF LinksInv, Typed
  <2> QED BY <2>1 DEF LinksInv, Typed
<1>4. Distinct'
      BY <1>1 DEF LinksInv, Distinct
<1>5. \A m \in Nodes : m # n => next'[m] = next[m] /\ prev'[m] = prev[m]
      BY DEF LinksInv, Typed
<1>6. Linked'
      BY <1>1, <1>2, <1>5, Facts DEF LinksInv, Linked, At
<1>7. Cleared'
  <2> SUFFICES ASSUME NEW m \in nodes', \A i \in 1..Len(content) : content[i] # m
               PROVE  next'[m] = NoNode /\ prev'[m] = NoNode
      BY <1>1 DEF Cleared
  <2>1. CASE m = n
        BY <2>1 DEF LinksInv, Typed
  <2>2. CASE m # n
        BY <2>2, <1>5, Facts DEF LinksInv, Cleared
  <2> QED BY <2>1, <2>2
<1> QED BY <1>3, <1>4, <1>6, <1>7 DEF LinksInv

\* append goes to the last node, whose next is null, and links the two.
LEMMA AppendKeeps == ASSUME LinksInv, NEW n \in Nodes, AppendNode(n) PROVE LinksInv'
<1> DEFINE L == Len(content)
<1>1. L \in Nat /\ n \in nodes /\ \A i \in 1..L : content[i] # n
      BY Facts DEF AppendNode, Outside
<1>2. /\ content' \in Seq(nodes) /\ Len(content') = L + 1
      /\ \A i \in 1..L : content'[i] = content[i]
      /\ content'[L + 1] = n
      BY <1>1, AppendProperties DEF AppendNode, LinksInv, Typed
<1>3. next[n] = NoNode /\ prev[n] = NoNode
      BY <1>1 DEF LinksInv, Cleared
<1>4. nodes' = nodes
      BY DEF AppendNode
<1>5. Distinct'
      BY <1>1, <1>2 DEF LinksInv, Distinct
<1>6. CASE L = 0
  <2>1. head' = n /\ next' = next /\ prev' = prev
        BY <1>6, Facts DEF AppendNode
  <2>2. Typed'
        BY <1>2, <1>4, <2>1 DEF LinksInv, Typed
  <2>3. Linked'
        BY <1>2, <1>3, <1>6, <2>1 DEF Linked, At
  <2>4. Cleared'
        BY <1>1, <1>2, <1>4, <1>6, <2>1 DEF LinksInv, Cleared
  <2> QED BY <1>5, <2>2, <2>3, <2>4 DEF LinksInv
<1>7. CASE L # 0
  <2>1. Top(head) = content[L] /\ content[L] \in Nodes
        BY <1>1, <1>7, Facts, LengthIs, ForwardIs DEF Top
  <2>2. head' = head /\ next' = [next EXCEPT ![content[L]] = n] /\ prev' = [prev EXCEPT ![n] = content[L]]
        BY <1>7, <2>1, Facts DEF AppendNode
  <2>3. /\ next'[content[L]] = n /\ \A m \in Nodes : m # content[L] => next'[m] = next[m]
        /\ prev'[n] = content[L] /\ \A m \in Nodes : m # n => prev'[m] = prev[m]
        BY <2>1, <2>2 DEF LinksInv, Typed
  <2>4. Typed'
        BY <1>1, <1>2, <1>4, <2>1, <2>2 DEF LinksInv, Typed
  <2>5. ASSUME NEW i \in 1..L
        PROVE  next'[content[i]] = At(content', i + 1) /\ prev'[content[i]] = At(content', i - 1)
    <3>1. content[i] = content[L] <=> i = L
          BY <1>1, <1>7 DEF LinksInv, Distinct
    <3>2. next[content[i]] = At(content, i + 1) /\ prev[content[i]] = At(content, i - 1)
          BY DEF LinksInv, Linked
    <3>3. content[i] \in Nodes /\ content[i] # n
          BY <1>1, Facts
    <3> QED BY <1>1, <1>2, <2>3, <3>1, <3>2, <3>3 DEF At
  <2>6. next'[n] = NoNode /\ prev'[n] = content[L]
        BY <1>1, <1>3, <1>7, <2>3
  <2>7. Linked'
        BY <1>1, <1>2, <1>7, <2>2, <2>5, <2>6 DEF LinksInv, Linked, At
  <2>8. Cleared'
    <3> SUFFICES ASSUME NEW m \in nodes, \A i \in 1..L + 1 : content'[i] # m
                 PROVE  next'[m] = NoNode /\ prev'[m] = NoNode
        BY <1>2, <1>4 DEF Cleared
    <3>1. m # n /\ \A i \in 1..L : content[i] # m
          BY <1>1, <1>2
    <3> QED BY <1>1, <1>7, <2>3, <3>1, Facts DEF LinksInv, Cleared
  <2> QED BY <1>5, <2>4, <2>7, <2>8 DEF LinksInv
<1> QED BY <1>6, <1>7

\* sortedinsert stops after the nodes that are smaller, which come first.
LEMMA PlaceIs ==
  ASSUME LinksInv, NEW n \in Nodes, NEW k \in 0..Len(content),
         \A i \in 1..Len(content) : Key[content[i]] < Key[n] <=> i <= k
  PROVE  Place(n) = k
<1> DEFINE L == Len(content)
           stops == {i \in 0..L : i < L => Key[Nth(head, i)] >= Key[n]}
<1>1. L \in Nat /\ Length(head) = L /\ \A i \in 0..L - 1 : Nth(head, i) = content[i + 1]
      BY Facts, LengthIs, Walked DEF At
<1>2. \A i \in 1..L : Key[content[i]] \in Int /\ Key[n] \in Int
      BY Facts, KeyAssumption
<1>3. Place(n) = Min(stops)
      BY <1>1 DEF Place
<1>4. \A i \in 0..L : i \in stops <=> i >= k
      BY <1>1, <1>2
<1>5. k \in stops /\ \A i \in stops : k <= i
      BY <1>1, <1>4
<1>6. stops \in SUBSET Nat
      BY <1>1
<1> HIDE DEF stops
<1>7. Min(stops) \in stops /\ \A i \in stops : Min(stops) <= i
      BY <1>5, <1>6, LeastOf
<1>8. Min(stops) \in Nat /\ Min(stops) <= k /\ k <= Min(stops)
      BY <1>5, <1>6, <1>7
<1> QED BY <1>1, <1>3, <1>8

\* It links the node between the one before that place and the one at it.
LEMMA InsertKeeps == ASSUME LinksInv, NEW n \in Nodes, SortedInsert(n) PROVE LinksInv'
<1> DEFINE L == Len(content)
<1>1. L \in Nat /\ n \in nodes /\ \A i \in 1..L : content[i] # n
      BY Facts DEF SortedInsert, Outside
<1>2. PICK k \in 0..L : /\ \A i \in 1..L : Key[content[i]] < Key[n] <=> i <= k
                        /\ content' = InsertAt(content, k + 1, n)
      BY DEF SortedInsert
<1>3. Place(n) = k
      BY <1>2, PlaceIs
<1>4. /\ content' \in Seq(nodes) /\ Len(content') = L + 1
      /\ \A i \in 1..L + 1 : content'[i] =
            IF i < k + 1 THEN content[i] ELSE IF i = k + 1 THEN n ELSE content[i - 1]
  <2>1. k + 1 \in 1..L + 1 /\ content \in Seq(nodes)
        BY <1>1 DEF LinksInv, Typed
  <2> DEFINE new == InsertAt(content, k + 1, n)
  <2>2. /\ new \in Seq(nodes) /\ Len(new) = L + 1
        /\ \A i \in 1..L + 1 : new[i] =
              IF i < k + 1 THEN content[i] ELSE IF i = k + 1 THEN n ELSE content[i - 1]
    <3> HIDE DEF new
    <3> QED BY <1>1, <2>1, InsertedAt DEF new
  <2> HIDE DEF new
  <2>3. content' = new
        BY <1>2 DEF new
  <2> QED BY <2>2, <2>3
<1>5. nodes' = nodes /\ next[n] = NoNode /\ prev[n] = NoNode
      BY <1>1 DEF SortedInsert, LinksInv, Cleared
<1>6. Distinct'
  <2> SUFFICES ASSUME NEW i \in 1..L + 1, NEW j \in 1..L + 1, content'[i] = content'[j] PROVE i = j
      BY <1>4 DEF Distinct
  <2> DEFINE old(p) == IF p < k + 1 THEN p ELSE p - 1
  <2>1. \A p \in 1..L + 1 : p # k + 1 => old(p) \in 1..L /\ content'[p] = content[old(p)]
        BY <1>1, <1>4
  <2>2. content'[k + 1] = n
        BY <1>1, <1>4
  <2>3. i = k + 1 <=> j = k + 1
    <3>1. ASSUME NEW p \in 1..L + 1, p # k + 1 PROVE content'[p] # n
      <4> HIDE DEF old
      <4> QED BY <1>1, <2>1, <3>1
    <3> QED BY <2>2, <3>1
  <2>4. i # k + 1 => old(i) = old(j)
        BY <2>1, <2>3 DEF LinksInv, Distinct
  <2> QED BY <1>1, <2>3, <2>4
<1>7. /\ \A i \in 1..k : content'[i] = content[i]
      /\ content'[k + 1] = n
      /\ \A i \in k + 1..L : content'[i + 1] = content[i]
      BY <1>1, <1>4
<1>8. n \in Nodes /\ n # NoNode /\ \A i \in 1..L : content[i] \in Nodes /\ content[i] # NoNode
      BY <1>1, Facts
\* what the three cases of the code come to
<1>9. /\ next' \in [Nodes -> Nodes \cup {NoNode}] /\ prev' \in [Nodes -> Nodes \cup {NoNode}]
      /\ head' = IF k = 0 THEN n ELSE head
      /\ next'[n] = At(content, k + 1)
      /\ prev'[n] = At(content, k)
      /\ \A m \in Nodes \ {n} : /\ next'[m] = IF k > 0 /\ m = content[k] THEN n ELSE next[m]
                                /\ prev'[m] = IF k < L /\ m = content[k + 1] THEN n ELSE prev[m]
  <2>1. CASE L = 0
    <3>1. head' = n /\ next' = next /\ prev' = prev /\ k = 0
          BY <1>2, <2>1, Facts DEF SortedInsert
    <3> QED BY <1>5, <2>1, <3>1 DEF LinksInv, Typed, At
  <2>2. CASE L > 0 /\ k = 0
    <3>1. head = content[1] /\ head # NoNode
          BY <1>1, <1>8, <2>2 DEF LinksInv, Linked, At
    <3>2. /\ head' = n /\ next' = [next EXCEPT ![n] = head] /\ prev' = [prev EXCEPT ![head] = n]
          BY <1>3, <2>2, <3>1 DEF SortedInsert
    <3>3. content[1] \in Nodes /\ content[1] # n
          BY <1>1, <1>8, <2>2
    <3> QED BY <1>1, <1>5, <2>2, <3>1, <3>2, <3>3 DEF LinksInv, Typed, At
  <2>3. CASE L > 0 /\ k > 0
    <3>1. Nth(head, Place(n) - 1) = content[k]
          BY <1>1, <1>3, <2>3, ForwardIs
    <3>2. next[content[k]] = At(content, k + 1)
          BY <1>1, <2>3 DEF LinksInv, Linked
    <3>3. /\ head' = head
          /\ next' = [next EXCEPT ![n] = next[content[k]], ![content[k]] = n]
          /\ prev' = [m \in Nodes |-> IF m = n THEN content[k]
                                      ELSE IF m = next[content[k]] THEN n ELSE prev[m]]
          BY <1>1, <1>3, <2>3, <3>1, Facts DEF SortedInsert
    <3>4. content[k] \in Nodes /\ content[k] # n
          BY <1>1, <1>8, <2>3
    <3>5. At(content, k) = content[k] /\ At(content, k + 1) \in Nodes \cup {NoNode}
          BY <1>1, <1>8, <2>3 DEF At
    <3>6. \A m \in Nodes : m = At(content, k + 1) <=> k < L /\ m = content[k + 1]
          BY <1>1, <2>3, NodesAssumption DEF At
    <3>7. /\ next'[n] = At(content, k + 1)
          /\ \A m \in Nodes \ {n} : next'[m] = IF m = content[k] THEN n ELSE next[m]
          /\ next' \in [Nodes -> Nodes \cup {NoNode}]
          BY <3>2, <3>3, <3>4, <3>5 DEF LinksInv, Typed
    <3>8. /\ prev'[n] = content[k]
          /\ \A m \in Nodes \ {n} : prev'[m] = IF k < L /\ m = content[k + 1] THEN n ELSE prev[m]
          /\ prev' \in [Nodes -> Nodes \cup {NoNode}]
          BY <3>2, <3>3, <3>4, <3>6 DEF LinksInv, Typed
    <3> QED BY <2>3, <3>3, <3>5, <3>7, <3>8
  <2> QED BY <1>1, <2>1, <2>2, <2>3
<1>10. Typed'
      BY <1>4, <1>5, <1>9 DEF LinksInv, Typed
<1>11. ASSUME NEW i \in 1..L
       PROVE  /\ next'[content[i]] = IF i = k THEN n ELSE At(content, i + 1)
              /\ prev'[content[i]] = IF i = k + 1 THEN n ELSE At(content, i - 1)
  <2>1. \A j \in 1..L : content[i] = content[j] <=> i = j
        BY DEF LinksInv, Distinct
  <2>2. next[content[i]] = At(content, i + 1) /\ prev[content[i]] = At(content, i - 1)
        BY DEF LinksInv, Linked
  <2>3. content[i] \in Nodes \ {n}
        BY <1>1, <1>8
  <2>4. (k > 0 /\ content[i] = content[k]) <=> i = k
        BY <1>1, <2>1
  <2>5. (k < L /\ content[i] = content[k + 1]) <=> i = k + 1
        BY <1>1, <2>1
  <2> QED BY <1>9, <2>2, <2>3, <2>4, <2>5
<1>12. /\ head' = At(content', 1)
       /\ \A i \in 1..L + 1 : /\ next'[content'[i]] = At(content', i + 1)
                              /\ prev'[content'[i]] = At(content', i - 1)
  <2>1. head' = At(content', 1)
        BY <1>1, <1>4, <1>7, <1>9 DEF LinksInv, Linked, At
  <2>2. \A j \in Int : At(content', j) = IF j <= k THEN At(content, j)
                                         ELSE IF j = k + 1 THEN n ELSE At(content, j - 1)
        BY <1>1, <1>4, <1>7 DEF At
  <2>3. ASSUME NEW i \in 1..k
        PROVE  next'[content'[i]] = At(content', i + 1) /\ prev'[content'[i]] = At(content', i - 1)
    <3>1. content'[i] = content[i] /\ i \in 1..L /\ i # k + 1
          BY <1>1, <1>7
    <3>2. At(content', i - 1) = At(content, i - 1)
          BY <1>1, <2>2
    <3>3. At(content', i + 1) = IF i = k THEN n ELSE At(content, i + 1)
          BY <1>1, <2>2
    <3> QED BY <1>11, <3>1, <3>2, <3>3
  <2>4. next'[n] = At(content', k + 2) /\ prev'[n] = At(content', k)
        BY <1>1, <1>9, <2>2
  <2>5. ASSUME NEW i \in k + 1..L
        PROVE  next'[content'[i + 1]] = At(content', i + 2) /\ prev'[content'[i + 1]] = At(content', i)
        BY <1>1, <1>7, <1>11, <2>2
  <2>6. ASSUME NEW i \in 1..L + 1
        PROVE  next'[content'[i]] = At(content', i + 1) /\ prev'[content'[i]] = At(content', i - 1)
    <3>1. CASE i <= k
          BY <1>1, <2>3, <3>1
    <3>2. CASE i = k + 1
          BY <1>1, <1>7, <2>4, <3>2
    <3>3. CASE i > k + 1
      <4>1. i - 1 \in k + 1..L /\ (i - 1) + 1 = i /\ (i - 1) + 2 = i + 1
            BY <1>1, <3>3
      <4> QED BY <2>5, <4>1
    <3> QED BY <1>1, <3>1, <3>2, <3>3
  <2> QED BY <2>1, <2>6
<1>13. Linked'
       BY <1>4, <1>12 DEF Linked
<1>14. Cleared'
  <2> SUFFICES ASSUME NEW m \in nodes, \A i \in 1..L + 1 : content'[i] # m
               PROVE  next'[m] = NoNode /\ prev'[m] = NoNode
      BY <1>4, <1>5 DEF Cleared
  <2>1. m # n /\ m \in Nodes
        BY <1>1, <1>7, Facts
  <2>2. ASSUME NEW i \in 1..L PROVE content[i] # m
    <3>1. CASE i <= k
          BY <1>1, <1>7, <3>1
    <3>2. CASE i > k
      <4>1. i \in k + 1..L /\ i + 1 \in 1..L + 1
            BY <1>1, <3>2
      <4> QED BY <1>7, <4>1
    <3> QED BY <1>1, <3>1, <3>2
  <2>3. next[m] = NoNode /\ prev[m] = NoNode
        BY <2>2 DEF LinksInv, Cleared
  <2> QED BY <1>1, <1>9, <2>1, <2>2, <2>3
<1> QED BY <1>6, <1>10, <1>13, <1>14 DEF LinksInv

\* Without a node its neighbours are linked, and the head follows when it was first.
LEMMA RemoveKeeps == ASSUME LinksInv, NEW n \in Nodes, RemoveNode(n) PROVE LinksInv'
<1> DEFINE L == Len(content)
<1>1. PICK k \in 1..L : content[k] = n /\ content' = RemoveAt(content, k)
      BY Facts DEF RemoveNode
<1>2. L \in Nat /\ nodes' = nodes \ {n} /\ n \in nodes
      BY <1>1, Facts DEF RemoveNode
<1>3. /\ Len(content') = L - 1 /\ content' \in Seq(nodes)
      /\ \A i \in 1..L - 1 : content'[i] = content[IF i < k THEN i ELSE i + 1]
  <2> DEFINE new == RemoveAt(content, k)
  <2>1. /\ new \in Seq(nodes) /\ Len(new) = L - 1
        /\ \A i \in 1..L - 1 : new[i] = content[IF i < k THEN i ELSE i + 1]
    <3> HIDE DEF new
    <3> QED BY RemovedAt DEF new, LinksInv, Typed
  <2> HIDE DEF new
  <2>2. content' = new
        BY <1>1 DEF new
  <2> QED BY <2>1, <2>2
<1>4. \A i, j \in 1..L : content[i] = content[j] <=> i = j
      BY DEF LinksInv, Distinct
<1>5. /\ \A i \in 1..L : content[i] \in nodes \cap Nodes /\ content[i] # NoNode
      /\ head = content[1]
      BY <1>1, <1>2, Facts DEF LinksInv, Linked, At
<1>6. /\ \A i \in 1..k - 1 : content'[i] = content[i]
      /\ \A i \in k + 1..L : content'[i - 1] = content[i]
  <2>1. ASSUME NEW i \in k + 1..L PROVE content'[i - 1] = content[i]
    <3>1. i - 1 \in 1..L - 1 /\ ~(i - 1 < k) /\ (i - 1) + 1 = i
          BY <1>1, <1>2
    <3> QED BY <1>3, <3>1
  <2> QED BY <1>1, <1>2, <1>3, <2>1
<1>7. \A i \in 1..L - 1 : content'[i] # n
      BY <1>1, <1>2, <1>3, <1>4
<1>8. Typed'
  <2>1. \A i \in 1..L - 1 : content'[i] \in nodes'
        BY <1>2, <1>3, <1>7, ElementOfSeq
  <2>2. content' \in Seq(nodes')
        BY <1>3, <2>1, SeqWithin
  <2>3. next' \in [Nodes -> Nodes \cup {NoNode}] /\ prev' \in [Nodes -> Nodes \cup {NoNode}]
        BY DEF RemoveNode, Unlink, LinksInv, Typed
  <2> QED BY <1>2, <2>2, <2>3 DEF LinksInv, Typed
<1>9. Distinct'
  <2> SUFFICES ASSUME NEW i \in 1..L - 1, NEW j \in 1..L - 1, content'[i] = content'[j] PROVE i = j
      BY <1>3 DEF Distinct
  <2>1. \A p \in 1..L - 1 : (IF p < k THEN p ELSE p + 1) \in 1..L
        BY <1>1, <1>2
  <2>2. (IF i < k THEN i ELSE i + 1) = (IF j < k THEN j ELSE j + 1)
        BY <1>3, <1>4, <2>1
  <2> QED BY <1>1, <1>2, <2>2
<1>10. /\ next[n] = At(content, k + 1) /\ prev[n] = At(content, k - 1)
       /\ prev[n] # NoNode <=> k > 1
       /\ next[n] # NoNode <=> k < L
  <2>1. next[n] = At(content, k + 1) /\ prev[n] = At(content, k - 1)
        BY <1>1 DEF LinksInv, Linked
  <2> QED BY <1>1, <1>2, <1>5, <2>1 DEF At
\* what the branches of the code come to
<1>11. /\ head' = IF k = 1 THEN At(content, 2) ELSE head
       /\ \A m \in Nodes : /\ next'[m] = IF k > 1 /\ m = content[k - 1] THEN At(content, k + 1) ELSE next[m]
                           /\ prev'[m] = IF k < L /\ m = content[k + 1] THEN At(content, k - 1) ELSE prev[m]
  <2>1. head' = IF k = 1 THEN At(content, 2) ELSE head
        BY <1>1, <1>2, <1>10 DEF RemoveNode, Unlink
  <2>2. k > 1 => prev[n] = content[k - 1] /\ content[k - 1] \in Nodes
        BY <1>1, <1>2, <1>5, <1>10 DEF At
  <2>3. k < L => next[n] = content[k + 1] /\ content[k + 1] \in Nodes
        BY <1>1, <1>2, <1>5, <1>10 DEF At
  <2>4. next' = IF k > 1 THEN [next EXCEPT ![content[k - 1]] = At(content, k + 1)] ELSE next
        BY <1>10, <2>2 DEF RemoveNode, Unlink
  <2>5. prev' = IF k < L THEN [prev EXCEPT ![content[k + 1]] = At(content, k - 1)] ELSE prev
        BY <1>10, <2>3 DEF RemoveNode, Unlink
  <2>6. next \in [Nodes -> Nodes \cup {NoNode}] /\ prev \in [Nodes -> Nodes \cup {NoNode}]
        BY DEF LinksInv, Typed
  <2>7. ASSUME NEW m \in Nodes
        PROVE  next'[m] = IF k > 1 /\ m = content[k - 1] THEN At(content, k + 1) ELSE next[m]
        BY <2>2, <2>4, <2>6
  <2>8. ASSUME NEW m \in Nodes
        PROVE  prev'[m] = IF k < L /\ m = content[k + 1] THEN At(content, k - 1) ELSE prev[m]
        BY <2>3, <2>5, <2>6
  <2> QED BY <2>1, <2>7, <2>8
<1>12. ASSUME NEW i \in 1..L, i # k
       PROVE  /\ next'[content[i]] = IF i = k - 1 THEN At(content, k + 1) ELSE At(content, i + 1)
              /\ prev'[content[i]] = IF i = k + 1 THEN At(content, k - 1) ELSE At(content, i - 1)
  <2>1. next[content[i]] = At(content, i + 1) /\ prev[content[i]] = At(content, i - 1)
        BY DEF LinksInv, Linked
  <2>2. (k > 1 /\ content[i] = content[k - 1]) <=> i = k - 1
        BY <1>1, <1>2, <1>4
  <2>3. (k < L /\ content[i] = content[k + 1]) <=> i = k + 1
        BY <1>1, <1>2, <1>4
  <2> DEFINE m == content[i]
  <2>4. m \in Nodes
        BY <1>5
  <2>5. next'[m] = IF k > 1 /\ m = content[k - 1] THEN At(content, k + 1) ELSE next[m]
        BY <1>11, <2>4
  <2>6. prev'[m] = IF k < L /\ m = content[k + 1] THEN At(content, k - 1) ELSE prev[m]
        BY <1>11, <2>4
  <2> QED BY <2>1, <2>2, <2>3, <2>5, <2>6
<1>13. \A j \in Int : At(content', j) = IF j < k THEN At(content, j) ELSE At(content, j + 1)
  <2> SUFFICES ASSUME NEW j \in Int
               PROVE At(content', j) = IF j < k THEN At(content, j) ELSE At(content, j + 1)
      OBVIOUS
  <2>1. CASE j \in 1..L - 1
        BY <1>1, <1>2, <1>3, <2>1 DEF At
  <2>2. CASE j \notin 1..L - 1
        BY <1>1, <1>2, <1>3, <2>2 DEF At
  <2> QED BY <2>1, <2>2
<1>14. Linked'
  <2>1. head' = At(content', 1)
        BY <1>1, <1>2, <1>11, <1>13 DEF LinksInv, Linked
  <2>2. ASSUME NEW i \in 1..L - 1
        PROVE  next'[content'[i]] = At(content', i + 1) /\ prev'[content'[i]] = At(content', i - 1)
    <3>1. CASE i < k
      <4>1. i \in 1..L /\ i # k /\ content'[i] = content[i] /\ i - 1 < k
            BY <1>1, <1>2, <1>6, <3>1
      <4>2. At(content', i + 1) = IF i = k - 1 THEN At(content, k + 1) ELSE At(content, i + 1)
        <5>1. At(content', i + 1) = IF i + 1 < k THEN At(content, i + 1) ELSE At(content, (i + 1) + 1)
              BY <1>13
        <5>2. i + 1 < k <=> i # k - 1
              BY <1>1, <3>1
        <5>3. i = k - 1 => (i + 1) + 1 = k + 1
              BY <1>1
        <5> QED BY <5>1, <5>2, <5>3
      <4>3. At(content', i - 1) = At(content, i - 1)
            BY <1>1, <1>13, <4>1
      <4> QED BY <1>1, <1>12, <4>1, <4>2, <4>3
    <3>2. CASE i >= k
      <4> DEFINE j == i + 1
      <4>1. j \in 1..L /\ j # k /\ j # k - 1 /\ content'[i] = content[j]
            BY <1>1, <1>2, <1>3, <3>2
      <4>2. At(content', i + 1) = At(content, j + 1)
            BY <1>1, <1>13, <3>2
      <4>3. At(content', i - 1) = IF j = k + 1 THEN At(content, k - 1) ELSE At(content, j - 1)
        <5>1. At(content', i - 1) = IF i - 1 < k THEN At(content, i - 1) ELSE At(content, (i - 1) + 1)
              BY <1>13
        <5>2. i - 1 < k <=> j = k + 1
              BY <1>1, <3>2
        <5>3. (i - 1) + 1 = j - 1 /\ (j = k + 1 => i - 1 = k - 1)
              BY <1>1
        <5> QED BY <5>1, <5>2, <5>3
      <4> HIDE DEF j
      <4> QED BY <1>12, <4>1, <4>2, <4>3
    <3> QED BY <1>1, <1>2, <3>1, <3>2
  <2> QED BY <1>3, <2>1, <2>2 DEF Linked
<1>15. Cleared'
  <2> SUFFICES ASSUME NEW m \in nodes \ {n}, \A i \in 1..L - 1 : content'[i] # m
               PROVE  next'[m] = NoNode /\ prev'[m] = NoNode
      BY <1>2, <1>3 DEF Cleared
  <2>1. ASSUME NEW i \in 1..L PROVE content[i] # m
    <3>1. CASE i < k
          BY <1>1, <1>2, <1>6, <3>1
    <3>2. CASE i = k
          BY <1>1, <3>2
    <3>3. CASE i > k
      <4>1. i \in k + 1..L /\ i - 1 \in 1..L - 1
            BY <1>1, <1>2, <3>3
      <4> QED BY <1>6, <4>1
    <3> QED BY <1>1, <1>2, <3>1, <3>2, <3>3
  <2>2. next[m] = NoNode /\ prev[m] = NoNode
        BY <2>1 DEF LinksInv, Cleared
  <2>3. m \in Nodes /\ (k > 1 => content[k - 1] # m) /\ (k < L => content[k + 1] # m)
        BY <1>1, <1>2, <2>1, Facts
  <2>4. next'[m] = next[m]
        BY <1>11, <2>3
  <2>5. prev'[m] = prev[m]
        BY <1>11, <2>3
  <2> QED BY <2>2, <2>4, <2>5
<1> QED BY <1>8, <1>9, <1>14, <1>15 DEF LinksInv

\* queue_poll takes the first, whose links it clears.
LEMMA PollKeeps == ASSUME LinksInv, PollHead PROVE LinksInv'
<1> DEFINE L == Len(content)
           n == content[1]
<1>1. L \in Nat /\ L > 0 /\ head = n /\ n \in Nodes /\ n \in nodes /\ nodes' = nodes
  <2>1. L \in Nat /\ L > 0
        BY Facts DEF PollHead
  <2> QED BY <2>1, Facts DEF PollHead, LinksInv, Linked, At
<1>2. /\ content' \in Seq(nodes) /\ Len(content') = L - 1
      /\ \A i \in 1..L - 1 : content'[i] = content[i + 1]
  <2>1. content \in Seq(nodes) /\ content # <<>>
        BY <1>1 DEF LinksInv, Typed
  <2>2. content' = Tail(content)
        BY DEF PollHead
  <2> QED BY <2>1, <2>2, HeadTailProperties
<1>3. \A i, j \in 1..L : content[i] = content[j] <=> i = j
      BY DEF LinksInv, Distinct
<1>4. \A i \in 1..L : content[i] \in Nodes /\ content[i] # NoNode
      BY Facts
<1>5. next[n] = At(content, 2)
      BY <1>1 DEF LinksInv, Linked
<1>6. /\ head' = At(content, 2)
      /\ \A m \in Nodes : /\ next'[m] = IF m = n THEN NoNode ELSE next[m]
                          /\ prev'[m] = IF m \in {n, At(content, 2)} THEN NoNode ELSE prev[m]
  <2>1. ASSUME NEW m \in Nodes PROVE next'[m] = IF m = n THEN NoNode ELSE next[m]
        BY <1>1 DEF PollHead, LinksInv, Typed
  <2>2. ASSUME NEW m \in Nodes
        PROVE  prev'[m] = IF m \in {n, At(content, 2)} THEN NoNode ELSE prev[m]
        BY <1>1, <1>5 DEF PollHead
  <2>3. head' = At(content, 2)
        BY <1>1, <1>5 DEF PollHead
  <2> QED BY <2>1, <2>2, <2>3
<1>7. Typed'
  <2>1. next' \in [Nodes -> Nodes \cup {NoNode}] /\ prev' \in [Nodes -> Nodes \cup {NoNode}]
        BY DEF PollHead, LinksInv, Typed
  <2> QED BY <1>1, <1>2, <2>1 DEF LinksInv, Typed
<1>8. Distinct'
  <2> SUFFICES ASSUME NEW i \in 1..L - 1, NEW j \in 1..L - 1, content'[i] = content'[j] PROVE i = j
      BY <1>2 DEF Distinct
  <2>1. i + 1 \in 1..L /\ j + 1 \in 1..L
        BY <1>1
  <2>2. content[i + 1] = content[j + 1]
        BY <1>2
  <2>3. i + 1 = j + 1
        BY <1>3, <2>1, <2>2
  <2> QED BY <2>3
<1>9. ASSUME NEW i \in 2..L
      PROVE  /\ next'[content[i]] = At(content, i + 1)
             /\ prev'[content[i]] = IF i = 2 THEN NoNode ELSE At(content, i - 1)
  <2>1. next[content[i]] = At(content, i + 1) /\ prev[content[i]] = At(content, i - 1)
        BY <1>1 DEF LinksInv, Linked
  <2>2. content[i] # n /\ (content[i] = At(content, 2) <=> i = 2)
        BY <1>1, <1>3 DEF At
  <2> DEFINE m == content[i]
  <2>3. m \in Nodes
        BY <1>1, <1>4
  <2>4. next'[m] = IF m = n THEN NoNode ELSE next[m]
        BY <1>6, <2>3
  <2>5. prev'[m] = IF m \in {n, At(content, 2)} THEN NoNode ELSE prev[m]
        BY <1>6, <2>3
  <2> QED BY <2>1, <2>2, <2>4, <2>5
<1>10. \A j \in Int : At(content', j) = IF j < 1 THEN NoNode ELSE At(content, j + 1)
       BY <1>1, <1>2 DEF At
<1>11. Linked'
  <2>1. ASSUME NEW i \in 1..L - 1
        PROVE  next'[content'[i]] = At(content', i + 1) /\ prev'[content'[i]] = At(content', i - 1)
    <3>1. i + 1 \in 2..L /\ content'[i] = content[i + 1]
          BY <1>1, <1>2
    <3>2. At(content', i + 1) = At(content, (i + 1) + 1)
          BY <1>10
    <3>3. At(content', i - 1) = IF i + 1 = 2 THEN NoNode ELSE At(content, (i + 1) - 1)
          BY <1>10
    <3> QED BY <1>9, <3>1, <3>2, <3>3
  <2>2. head' = At(content', 1)
        BY <1>6, <1>10
  <2> QED BY <1>2, <2>1, <2>2 DEF Linked
<1>12. Cleared'
  <2> SUFFICES ASSUME NEW m \in nodes, \A i \in 1..L - 1 : content'[i] # m
               PROVE  next'[m] = NoNode /\ prev'[m] = NoNode
      BY <1>1, <1>2 DEF Cleared
  <2>1. m \in Nodes
        BY Facts
  <2>2. CASE m = n
    <3>1. next'[m] = IF m = n THEN NoNode ELSE next[m]
          BY <1>6, <2>1
    <3>2. prev'[m] = IF m \in {n, At(content, 2)} THEN NoNode ELSE prev[m]
          BY <1>6, <2>1
    <3> QED BY <2>2, <3>1, <3>2
  <2>3. CASE m # n
    <3>1. ASSUME NEW i \in 1..L PROVE content[i] # m
      <4>1. CASE i = 1
            BY <2>3, <4>1
      <4>2. CASE i > 1
        <5>1. i - 1 \in 1..L - 1 /\ (i - 1) + 1 = i
              BY <1>1, <4>2
        <5> QED BY <1>2, <5>1
      <4> QED BY <1>1, <4>1, <4>2
    <3>2. next[m] = NoNode /\ prev[m] = NoNode
          BY <3>1 DEF LinksInv, Cleared
    <3>3. next'[m] = IF m = n THEN NoNode ELSE next[m]
          BY <1>6, <2>1
    <3>4. prev'[m] = IF m \in {n, At(content, 2)} THEN NoNode ELSE prev[m]
          BY <1>6, <2>1
    <3> QED BY <2>3, <3>2, <3>3, <3>4
  <2> QED BY <2>2, <2>3
<1> QED BY <1>7, <1>8, <1>11, <1>12 DEF LinksInv

\* free reaches every node of the list and no other.
LEMMA FreeKeeps == ASSUME LinksInv, FreeAll PROVE LinksInv'
<1>1. /\ nodes' = nodes \ Range(content) /\ head' = NoNode /\ content' = <<>>
      /\ next' = next /\ prev' = prev
      BY ForwardIs DEF FreeAll
<1>2. Len(content') = 0 /\ content' \in Seq(nodes')
      BY <1>1, EmptySeq
<1>3. Typed' /\ Distinct' /\ Linked'
      BY <1>1, <1>2 DEF LinksInv, Typed, Distinct, Linked, At
<1>4. Cleared'
  <2> SUFFICES ASSUME NEW m \in nodes, m \notin Range(content)
               PROVE  next[m] = NoNode /\ prev[m] = NoNode
      BY <1>1 DEF Cleared
  <2>1. \A i \in 1..Len(content) : content[i] # m
        BY Facts
  <2> QED BY <2>1 DEF LinksInv, Cleared
<1> QED BY <1>3, <1>4 DEF LinksInv

-----------------------------------------------------------------------------
(* LinkedList: the theorems                                                 *)

\* After any sequence of calls the invariant holds, whatever the nodes and keys.
THEOREM LinksInvariance == ListSpec => []LinksInv
<1>1. ListInit => LinksInv
  <2> SUFFICES ASSUME ListInit PROVE LinksInv
      OBVIOUS
  <2>1. content \in Seq(nodes) /\ Len(content) = 0
        BY EmptySeq DEF ListInit
  <2> QED BY <2>1 DEF ListInit, LinksInv, Typed, Distinct, Linked, Cleared, At
<1>2. LinksInv /\ [ListNext]_listVars => LinksInv'
  <2> SUFFICES ASSUME LinksInv, [ListNext]_listVars PROVE LinksInv'
      OBVIOUS
  <2>1. ASSUME NEW n \in Nodes, NewNode(n) PROVE LinksInv'
        BY <2>1, NewKeeps
  <2>2. ASSUME NEW n \in Nodes, AppendNode(n) PROVE LinksInv'
        BY <2>2, AppendKeeps
  <2>3. ASSUME NEW n \in Nodes, SortedInsert(n) PROVE LinksInv'
        BY <2>3, InsertKeeps
  <2>4. ASSUME NEW n \in Nodes, RemoveNode(n) PROVE LinksInv'
        BY <2>4, RemoveKeeps
  <2>5. CASE PollHead
        BY <2>5, PollKeeps
  <2>6. CASE FreeAll
        BY <2>6, FreeKeeps
  <2>7. CASE UNCHANGED listVars
        BY <2>7 DEF listVars, LinksInv, Typed, Distinct, Linked, Cleared, At
  <2> QED BY <2>1, <2>2, <2>3, <2>4, <2>5, <2>6, <2>7 DEF ListNext
<1> QED BY <1>1, <1>2, PTL DEF ListSpec

\* The links hold the sequence that the calls stand for, in both directions, for
\* any finite number of nodes: what Executor and GridView take a list to be.
THEOREM LinksHoldContentSafe == ListSpec => []LinksHoldContent
<1>1. LinksInv => LinksHoldContent
      BY Holds
<1> QED BY <1>1, LinksInvariance, PTL

-----------------------------------------------------------------------------
(* ArrayList: the invariant, its steps and the theorem                      *)

\* The items are in the cells, as many as the size says, and the block is large
\* enough unless it could not be made larger for the last of them.
ArrayInv == /\ data \in [0..Cells - 1 -> Values \cup {Rubbish}]
            /\ size \in 0..Cells - 1
            /\ capacity \in Int /\ capacity >= -1 /\ failed \in BOOLEAN
            /\ capacity = -1 => size = 0 /\ failed = FALSE
            /\ items \in Seq(Values) /\ Len(items) = size
            /\ \A i \in 1..size : items[i] = data[i - 1]
            /\ capacity >= 0 /\ failed = FALSE => size <= capacity
            /\ failed = TRUE => size = capacity + 1

\* doubling a positive number often enough reaches any other
LEMMA DoubledIsEnough ==
  ASSUME NEW n \in Nat \ {0}, NEW least \in Nat
  PROVE  Doubled(n, least) \in Nat /\ Doubled(n, least) >= least
<1> DEFINE Times(f, m) == [k \in 0..m |-> IF k = 0 THEN n ELSE 2 * f[k - 1]]
           T == {m \in Nat : \E f : f = Times(f, m)}
           times == CHOOSE f : f = Times(f, least)
           enough == {k \in 0..least : times[k] >= least}
<1>1. 0 \in T
  <2>1. [k \in 0..0 |-> n] = Times([k \in 0..0 |-> n], 0)
        OBVIOUS
  <2> QED BY <2>1
<1>2. ASSUME NEW m \in Nat, m \in T PROVE m + 1 \in T
  <2>1. PICK f : f = Times(f, m)
        BY <1>2
  <2> DEFINE g == [k \in 0..m + 1 |-> IF k = m + 1 THEN 2 * f[m] ELSE f[k]]
  <2>2. \A k \in 0..m : f[k] = IF k = 0 THEN n ELSE 2 * f[k - 1]
        BY <2>1
  <2>3. \A k \in 0..m + 1 : g[k] = IF k = 0 THEN n ELSE 2 * g[k - 1]
        BY <2>2
  <2>4. g = Times(g, m + 1)
    <3>1. g = [k \in 0..m + 1 |-> g[k]]
          OBVIOUS
    <3> HIDE DEF g
    <3> QED BY <2>3, <3>1
  <2> HIDE DEF g, Times
  <2> QED BY <2>4
<1> HIDE DEF T
<1>3. least \in T
      BY <1>1, <1>2, AllOf
<1>4. times = Times(times, least)
  <2> HIDE DEF Times
  <2> QED BY <1>3 DEF T
<1>5. Doubled(n, least) = times[Min(enough)]
      BY DEF Doubled
<1> HIDE DEF times
<1>6. \A k \in 0..least : times[k] = IF k = 0 THEN n ELSE 2 * times[k - 1]
      BY <1>4
<1> DEFINE U == {m \in Nat : m <= least => times[m] \in Nat /\ times[m] >= m + 1}
<1>7. 0 \in U
      BY <1>6
<1>8. ASSUME NEW m \in Nat, m \in U PROVE m + 1 \in U
  <2>1. m + 1 <= least => times[m + 1] = 2 * times[m] /\ times[m] \in Nat /\ times[m] >= m + 1
        BY <1>6, <1>8
  <2> QED BY <2>1
<1> HIDE DEF U
<1>9. \A m \in Nat : m \in U
      BY <1>7, <1>8, AllOf
<1>10. \A k \in 0..least : times[k] \in Nat /\ times[k] >= k + 1
       BY <1>9 DEF U
<1>11. least \in enough /\ enough \in SUBSET Nat
       BY <1>10
<1>12. Min(enough) \in enough
  <2> HIDE DEF enough
  <2> QED BY <1>11, LeastOf
<1> QED BY <1>5, <1>10, <1>12

\* array_list_add and array_list_remove move the items behind the place by one.
LEMMA AddKeeps ==
  ASSUME ArrayInv, NEW before \in -1..size, NEW v \in Values, Add(before, v)
  PROVE  ArrayInv'
<1> DEFINE at == IF before < 0 THEN size ELSE before
<1>1. /\ capacity \in Nat /\ failed = FALSE /\ size \in Nat /\ Cells \in Nat
      /\ size < Cells - 1 /\ size <= capacity
      /\ size' = size + 1 /\ at \in 0..size
      BY CellsAssumption DEF ArrayInv, Add
<1>2. /\ capacity' \in Int /\ capacity' >= 0 /\ failed' \in BOOLEAN
      /\ failed' = FALSE => size' <= capacity'
      /\ failed' = TRUE => size' = capacity' + 1
  <2>1. CASE capacity' = Grown(size + 1) /\ UNCHANGED failed
    <3>1. CASE Needs(size + 1)
      <4>1. capacity' = Doubled(IF capacity > 0 THEN capacity ELSE 1, size + 1)
            BY <2>1, <3>1 DEF Grown
      <4>2. capacity' \in Nat /\ capacity' >= size + 1
        <5>1. (IF capacity > 0 THEN capacity ELSE 1) \in Nat \ {0} /\ size + 1 \in Nat
              BY <1>1
        <5>2. /\ Doubled(IF capacity > 0 THEN capacity ELSE 1, size + 1) \in Nat
              /\ Doubled(IF capacity > 0 THEN capacity ELSE 1, size + 1) >= size + 1
              BY <5>1, DoubledIsEnough
        <5> QED BY <4>1, <5>2
      <4>3. failed' = FALSE
            BY <1>1, <2>1
      <4>4. capacity' \in Int /\ capacity' >= 0 /\ size' <= capacity'
            BY <1>1, <4>2
      <4> QED BY <4>3, <4>4
    <3>2. CASE ~Needs(size + 1)
      <4>1. capacity' = capacity /\ ~(capacity < size + 1)
            BY <2>1, <3>2 DEF Grown, Needs
      <4>2. failed' = FALSE
            BY <1>1, <2>1
      <4>3. capacity' \in Int /\ capacity' >= 0 /\ size' <= capacity'
            BY <1>1, <4>1
      <4> QED BY <4>2, <4>3
    <3> QED BY <3>1, <3>2
  <2>2. CASE Needs(size + 1) /\ failed' = TRUE /\ UNCHANGED capacity
        BY <1>1, <2>2 DEF Needs
  <2> QED BY <2>1, <2>2 DEF Add
<1>3. /\ items' \in Seq(Values) /\ Len(items') = size + 1
      /\ \A k \in 1..size + 1 : items'[k] =
            IF k < at + 1 THEN items[k] ELSE IF k = at + 1 THEN v ELSE items[k - 1]
  <2> DEFINE place == at + 1
             new == InsertAt(items, place, v)
  <2>1. items \in Seq(Values) /\ Len(items) = size /\ place \in 1..Len(items) + 1
        BY <1>1 DEF ArrayInv
  <2>2. /\ new \in Seq(Values) /\ Len(new) = size + 1
        /\ \A k \in 1..size + 1 : new[k] =
              IF k < place THEN items[k] ELSE IF k = place THEN v ELSE items[k - 1]
    <3> HIDE DEF new, place
    <3>1. /\ InsertAt(items, place, v) \in Seq(Values)
          /\ Len(InsertAt(items, place, v)) = Len(items) + 1
          /\ \A k \in 1..Len(items) + 1 : InsertAt(items, place, v)[k] =
                IF k < place THEN items[k] ELSE IF k = place THEN v ELSE items[k - 1]
      <4> DEFINE P(S, s, i, e) == /\ InsertAt(s, i, e) \in Seq(S)
                                  /\ Len(InsertAt(s, i, e)) = Len(s) + 1
                                  /\ \A k \in 1..Len(s) + 1 : InsertAt(s, i, e)[k] =
                                        IF k < i THEN s[k] ELSE IF k = i THEN e ELSE s[k - 1]
      <4>1. \A S : \A s \in Seq(S) : \A i \in 1..Len(s) + 1 : \A e \in S : P(S, s, i, e)
            BY InsertedAt
      <4>2. P(Values, items, place, v)
        <5> HIDE DEF P
        <5> QED BY <2>1, <4>1
      <4> QED BY <4>2
    <3> QED BY <2>1, <3>1 DEF new
  <2>3. items' = new
        BY DEF Add
  <2> HIDE DEF new
  <2> QED BY <2>2, <2>3
<1>4. /\ data' \in [0..Cells - 1 -> Values \cup {Rubbish}]
      /\ \A i \in 0..size : data'[i] =
            IF i = at THEN v ELSE IF i < at THEN data[i] ELSE data[i - 1]
  <2>1. /\ data \in [0..Cells - 1 -> Values \cup {Rubbish}]
        /\ \A i \in 0..size : i \in 0..Cells - 1
        BY <1>1, CellsAssumption DEF ArrayInv
  <2>2. CASE before < 0
    <3>1. data' = [data EXCEPT ![size] = v] /\ at = size
          BY <2>2 DEF Add
    <3> QED BY <1>1, <2>1, <3>1
  <2>3. CASE before >= 0
    <3>1. data' = [Memmove(before + 1, before, size - before) EXCEPT ![before] = v] /\ at = before
          BY <2>3 DEF Add
    <3> DEFINE moved == Memmove(before + 1, before, size - before)
    <3>2. moved = [i \in 0..Cells - 1 |-> IF i >= before + 1 /\ i < size + 1 THEN data[i - 1] ELSE data[i]]
      <4>1. \A i \in 0..Cells - 1 : /\ (before + 1) + (size - before) = size + 1
                                    /\ (i - (before + 1)) + before = i - 1
            BY <1>1
      <4>2. DOMAIN data = 0..Cells - 1
            BY <2>1
      <4> QED BY <4>1, <4>2 DEF Memmove
    <3> HIDE DEF moved
    <3>3. data' = [moved EXCEPT ![before] = v]
          BY <3>1 DEF moved
    <3>4. moved \in [0..Cells - 1 -> Values \cup {Rubbish}]
      <4>1. \A i \in 0..Cells - 1 : i >= before + 1 => i - 1 \in 0..Cells - 1
            BY <1>1, <2>3
      <4> QED BY <2>1, <3>2, <4>1
    <3>5. ASSUME NEW i \in 0..size
          PROVE  data'[i] = IF i = at THEN v ELSE IF i < at THEN data[i] ELSE data[i - 1]
      <4>1. data'[i] = IF i = before THEN v ELSE moved[i]
            BY <2>1, <3>3, <3>4
      <4>2. moved[i] = IF i >= before + 1 /\ i < size + 1 THEN data[i - 1] ELSE data[i]
            BY <2>1, <3>2
      <4> QED BY <1>1, <2>3, <3>1, <4>1, <4>2
    <3> QED BY <3>1, <3>3, <3>4, <3>5
  <2> QED BY <1>1, <2>2, <2>3
<1>5. ASSUME NEW i \in 1..size' PROVE items'[i] = data'[i - 1]
  <2>1. i \in 1..size + 1 /\ i - 1 \in 0..size
        BY <1>1
  <2>2. items'[i] = IF i < at + 1 THEN items[i] ELSE IF i = at + 1 THEN v ELSE items[i - 1]
        BY <1>3, <2>1
  <2>3. data'[i - 1] = IF i - 1 = at THEN v ELSE IF i - 1 < at THEN data[i - 1] ELSE data[(i - 1) - 1]
        BY <1>4, <2>1
  <2>4. i < at + 1 => items[i] = data[i - 1]
        BY <1>1, <2>1 DEF ArrayInv
  <2>5. i > at + 1 => items[i - 1] = data[(i - 1) - 1]
    <3>1. i > at + 1 => i - 1 \in 1..size
          BY <1>1, <2>1
    <3> QED BY <3>1 DEF ArrayInv
  <2> HIDE DEF at
  <2> QED BY <1>1, <2>1, <2>2, <2>3, <2>4, <2>5
<1>6. size' \in 0..Cells - 1 /\ capacity' >= -1 /\ ~(capacity' = -1)
      BY <1>1, <1>2
<1> QED BY <1>1, <1>2, <1>3, <1>4, <1>5, <1>6 DEF ArrayInv

LEMMA RemoveItemKeeps ==
  ASSUME ArrayInv, NEW index \in 0..size, RemoveItem(index)
  PROVE  ArrayInv'
<1>1. /\ index \in 0..size - 1 /\ size \in Nat /\ Cells \in Nat /\ size < Cells
      /\ failed = FALSE /\ capacity >= 0
      /\ size' = size - 1 /\ UNCHANGED <<capacity, failed>>
      /\ data \in [0..Cells - 1 -> Values \cup {Rubbish}]
      BY CellsAssumption DEF ArrayInv, RemoveItem
<1>2. /\ items' \in Seq(Values) /\ Len(items') = size - 1
      /\ \A k \in 1..size - 1 : items'[k] = items[IF k < index + 1 THEN k ELSE k + 1]
  <2> DEFINE new == RemoveAt(items, index + 1)
  <2>1. items \in Seq(Values) /\ Len(items) = size /\ index + 1 \in 1..size
        BY <1>1 DEF ArrayInv
  <2>2. /\ new \in Seq(Values) /\ Len(new) = size - 1
        /\ \A k \in 1..size - 1 : new[k] = items[IF k < index + 1 THEN k ELSE k + 1]
    <3> HIDE DEF new
    <3> QED BY <2>1, RemovedAt DEF new
  <2>3. items' = new
        BY DEF RemoveItem
  <2> HIDE DEF new
  <2> QED BY <2>2, <2>3
<1>3. data' = [i \in 0..Cells - 1 |-> IF i >= index /\ i < size - 1 THEN data[i + 1] ELSE data[i]]
  <2>1. DOMAIN data = 0..Cells - 1 /\ data = [i \in 0..Cells - 1 |-> data[i]]
        BY <1>1
  <2>2. CASE index < size - 1
    <3>1. data' = Memmove(index, index + 1, size - index - 1)
          BY <2>2 DEF RemoveItem, MovedDown
    <3>2. \A i \in 0..Cells - 1 : /\ index + (size - index - 1) = size - 1
                                  /\ (i - index) + (index + 1) = i + 1
          BY <1>1
    <3> QED BY <2>1, <3>1, <3>2 DEF Memmove
  <2>3. CASE ~(index < size - 1)
    <3>1. data' = data
          BY <2>3 DEF RemoveItem
    <3>2. \A i \in 0..Cells - 1 : ~(i >= index /\ i < size - 1)
          BY <1>1, <2>3
    <3> QED BY <2>1, <3>1, <3>2
  <2> QED BY <2>2, <2>3
<1>4. data' \in [0..Cells - 1 -> Values \cup {Rubbish}]
  <2>1. \A i \in 0..Cells - 1 : i < size - 1 => i + 1 \in 0..Cells - 1
        BY <1>1
  <2> QED BY <1>1, <1>3, <2>1
<1>5. ASSUME NEW i \in 1..size' PROVE items'[i] = data'[i - 1]
  <2>1. i \in 1..size - 1 /\ i - 1 \in 0..Cells - 1 /\ i + 1 \in 1..size /\ i \in 1..size
        BY <1>1
  <2>2. items'[i] = items[IF i < index + 1 THEN i ELSE i + 1]
        BY <1>2, <2>1
  <2>3. data'[i - 1] = IF i - 1 >= index THEN data[(i - 1) + 1] ELSE data[i - 1]
        BY <1>1, <1>3, <2>1
  <2>4. items[i] = data[i - 1] /\ items[i + 1] = data[(i + 1) - 1]
        BY <2>1 DEF ArrayInv
  <2> QED BY <1>1, <2>1, <2>2, <2>3, <2>4
<1> QED BY <1>1, <1>2, <1>4, <1>5 DEF ArrayInv

\* qsort puts every item somewhere else within the size.
LEMMA QsortKeeps == ASSUME ArrayInv, Qsort PROVE ArrayInv'
<1>1. PICK p \in Bijection(1..size, 1..size) :
         /\ data' = [i \in DOMAIN data |-> IF i < size THEN data[p[i + 1] - 1] ELSE data[i]]
         /\ items' = [i \in 1..size |-> items[p[i]]]
      BY DEF Qsort
<1>2. p \in [1..size -> 1..size]
      BY <1>1 DEF Bijection, Injection
<1>3. /\ size \in Nat /\ Cells \in Nat /\ size < Cells /\ DOMAIN data = 0..Cells - 1
      /\ data \in [0..Cells - 1 -> Values \cup {Rubbish}]
      /\ UNCHANGED <<size, capacity, failed>>
      BY CellsAssumption DEF ArrayInv, Qsort
<1>4. \A i \in 1..size : p[i] \in 1..size /\ items[p[i]] \in Values
      BY <1>2, ElementOfSeq DEF ArrayInv
<1>5. items' \in Seq(Values) /\ Len(items') = size
  <2>1. items' \in [1..size -> Values]
        BY <1>1, <1>4
  <2> QED BY <1>3, <2>1
<1>6. data' \in [0..Cells - 1 -> Values \cup {Rubbish}]
  <2>1. \A i \in 0..Cells - 1 : i < size => p[i + 1] - 1 \in 0..Cells - 1
        BY <1>3, <1>4
  <2> QED BY <1>1, <1>3, <2>1
<1>7. ASSUME NEW i \in 1..size PROVE items'[i] = data'[i - 1]
  <2>1. i - 1 \in 0..Cells - 1 /\ i - 1 < size /\ (i - 1) + 1 = i
        BY <1>3
  <2>2. data'[i - 1] = data[p[i] - 1]
        BY <1>1, <1>3, <2>1
  <2>3. items[p[i]] = data[p[i] - 1]
        BY <1>4 DEF ArrayInv
  <2> QED BY <1>1, <2>2, <2>3
<1> QED BY <1>3, <1>5, <1>6, <1>7 DEF ArrayInv

\* The memory of an array list holds its items through any sequence of calls, for
\* any amount of memory, and only a realloc that fails lets it go past its block.
THEOREM MemoryHoldsItemsSafe == ArraySpec => []MemoryHoldsItems
<1>1. ArrayInit => ArrayInv
  <2> SUFFICES ASSUME ArrayInit PROVE ArrayInv
      OBVIOUS
  <2>1. items \in Seq(Values) /\ Len(items) = 0
        BY EmptySeq DEF ArrayInit
  <2>2. /\ data \in [0..Cells - 1 -> Values \cup {Rubbish}] /\ 0 \in 0..Cells - 1
        BY CellsAssumption DEF ArrayInit, Blank
  <2>3. size = 0 /\ capacity = -1 /\ failed = FALSE
        BY DEF ArrayInit
  <2>4. size \in 0..Cells - 1 /\ capacity \in Int /\ capacity >= -1 /\ 1..size = {} /\ ~(capacity >= 0)
        BY <2>2, <2>3
  <2>5. failed \in BOOLEAN /\ ~(failed = TRUE)
        BY <2>3
  <2> QED BY <2>1, <2>2, <2>3, <2>4, <2>5 DEF ArrayInv
<1>2. ArrayInv /\ [ArrayNext]_arrayVars => ArrayInv'
  <2> SUFFICES ASSUME ArrayInv, [ArrayNext]_arrayVars PROVE ArrayInv'
      OBVIOUS
  <2>1. ASSUME NEW n \in 0..2, Make(n) PROVE ArrayInv'
        BY <2>1, CellsAssumption DEF Make, ArrayInv
  <2>2. ASSUME NEW before \in -1..size, NEW v \in Values, Add(before, v) PROVE ArrayInv'
        BY <2>2, AddKeeps
  <2>3. ASSUME NEW index \in 0..size, RemoveItem(index) PROVE ArrayInv'
        BY <2>3, RemoveItemKeeps
  <2>4. CASE Qsort
        BY <2>4, QsortKeeps
  <2>5. CASE Unmake
    <3>1. items' \in Seq(Values) /\ Len(items') = 0
          BY <2>5, EmptySeq DEF Unmake
    <3>2. data' \in [0..Cells - 1 -> Values \cup {Rubbish}] /\ 0 \in 0..Cells - 1
          BY <2>5, CellsAssumption DEF Unmake, Blank
    <3>3. size' = 0 /\ capacity' = -1 /\ failed' = FALSE
          BY <2>5 DEF Unmake
    <3>4. /\ size' \in 0..Cells - 1 /\ capacity' \in Int /\ capacity' >= -1 /\ ~(capacity' >= 0)
          /\ 1..size' = {}
          BY <3>2, <3>3
    <3>5. failed' \in BOOLEAN /\ ~(failed' = TRUE)
          BY <3>3
    <3> QED BY <3>1, <3>2, <3>3, <3>4, <3>5 DEF ArrayInv
  <2>6. CASE UNCHANGED arrayVars
        BY <2>6 DEF arrayVars, ArrayInv
  <2> QED BY <2>1, <2>2, <2>3, <2>4, <2>5, <2>6 DEF ArrayNext
<1>3. ArrayInv => MemoryHoldsItems
  <2> SUFFICES ASSUME ArrayInv PROVE MemoryHoldsItems
      OBVIOUS
  <2>1. size \in Nat /\ items = [i \in 1..size |-> items[i]] /\ DOMAIN items = 1..size
        BY CellsAssumption DEF ArrayInv
  <2>2. [i \in 1..size |-> data[i - 1]] = items
        BY <2>1 DEF ArrayInv
  <2>3. ~failed => size <= capacity \/ capacity = -1
        BY DEF ArrayInv
  <2>4. failed => size = capacity + 1
        BY DEF ArrayInv
  <2>5. ASSUME NEW v \in Values PROVE Bsearch(v) = {-1} <=> v \notin Range(items)
    <3> DEFINE at == {i \in 0..(size - 1) : data[i] = v}
    <3>1. Bsearch(v) = IF at = {} THEN {-1} ELSE at
          BY DEF Bsearch
    <3>2. -1 \notin at
          BY <2>1
    <3>3. at = {} <=> v \notin Range(items)
      <4>1. ASSUME NEW i \in at PROVE v \in Range(items)
        <5>1. i + 1 \in 1..size /\ (i + 1) - 1 = i
              BY <2>1
        <5>2. items[i + 1] = data[i]
              BY <2>2, <5>1
        <5> QED BY <2>1, <5>1, <5>2 DEF Range
      <4>2. ASSUME v \in Range(items) PROVE at # {}
        <5>1. PICK i \in 1..size : items[i] = v
              BY <2>1, <4>2 DEF Range
        <5>2. i - 1 \in at
              BY <2>1, <2>2, <5>1
        <5> QED BY <5>2
      <4> QED BY <4>1, <4>2
    <3> HIDE DEF at
    <3> QED BY <3>1, <3>2, <3>3
  <2> QED BY <2>2, <2>3, <2>4, <2>5 DEF MemoryHoldsItems
<1> QED BY <1>1, <1>2, <1>3, PTL DEF ArraySpec

=============================================================================
