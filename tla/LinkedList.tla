----------------------------- MODULE LinkedList -----------------------------
(***************************************************************************)
(* util/linked-list/linked_list.h with LINKEDLIST_DOUBLE, and the one      *)
(* operation executor.c has of its own on such a list, queue_poll. A list  *)
(* is the pointer to its first node; the nodes hold the links.             *)
(***************************************************************************)
EXTENDS Integers, Sequences, SequencesExt, FiniteSets

CONSTANTS Nodes,    \* addresses of nodes
          Key,      \* what the comparator looks at, for each node
          NoNode    \* the null pointer

ASSUME NodesAssumption == IsFiniteSet(Nodes) /\ NoNode \notin Nodes
ASSUME KeyAssumption == Key \in [Nodes -> Int]

VARIABLES
    head,     \* the pointer the owner of the list keeps
    next,     \* node->next
    prev,     \* node->prev
    nodes,    \* allocated nodes
    content   \* history: the sequence the operations stand for

listVars == <<head, next, prev, nodes, content>>

ListInit == /\ head = NoNode
            /\ next = [n \in Nodes |-> NoNode]
            /\ prev = [n \in Nodes |-> NoNode]
            /\ nodes = {}
            /\ content = <<>>

\* the i-th node from a head, along next; NoNode past the end
After(n) == IF n = NoNode THEN NoNode ELSE next[n]
Walk(p) == LET node[i \in Nat] == IF i = 0 THEN p ELSE After(node[i - 1]) IN node
Nth(p, i) == Walk(p)[i]

\* len, on a list without a cycle; the nodes in order; top; index
Length(p) == CHOOSE i \in 0..Cardinality(Nodes) :
                /\ Nth(p, i) = NoNode
                /\ \A j \in 0..(i - 1) : Nth(p, j) # NoNode
Forward(p) == [i \in 1..Length(p) |-> Nth(p, i - 1)]
Top(p) == IF p = NoNode THEN NoNode ELSE Nth(p, Length(p) - 1)
IndexOf(p, n) == LET at == {i \in DOMAIN Forward(p) : Forward(p)[i] = n}
                 IN  IF at = {} THEN -1 ELSE Min(at) - 1

\* find_by: the first node for which the function returns 0
FindBy(p, key) == LET at == {i \in DOMAIN Forward(p) : Key[Forward(p)[i]] = key}
                  IN  IF at = {} THEN NoNode ELSE Nth(p, Min(at) - 1)

Outside == {n \in nodes : n \notin Range(content)}

\* new, which clears both links
NewNode(n) == /\ n \in Nodes \ nodes
              /\ nodes' = nodes \cup {n}
              /\ next' = [next EXCEPT ![n] = NoNode]
              /\ prev' = [prev EXCEPT ![n] = NoNode]
              /\ UNCHANGED <<head, content>>

\* append
AppendNode(n) == /\ n \in Outside
                 /\ IF head = NoNode
                    THEN head' = n /\ UNCHANGED <<next, prev>>
                    ELSE /\ next' = [next EXCEPT ![Top(head)] = n]
                         /\ prev' = [prev EXCEPT ![n] = Top(head)]
                         /\ UNCHANGED head
                 /\ content' = Append(content, n)
                 /\ UNCHANGED nodes

\* where the loop of sortedinsert stops: at the first node that is not smaller
Place(n) == Min({i \in 0..Length(head) : i < Length(head) => Key[Nth(head, i)] >= Key[n]})

\* sortedinsert, into a list in order: after the nodes that are smaller, before
\* those that are equal to it
SortedInsert(n) ==
    /\ n \in Outside
    /\ \A i \in 1..(Len(content) - 1) : Key[content[i]] <= Key[content[i + 1]]
    /\ LET current == Nth(head, Place(n) - 1)
       IN  \/ /\ head = NoNode
              /\ head' = n
              /\ UNCHANGED <<next, prev>>
           \/ /\ head # NoNode /\ Place(n) = 0
              /\ head' = n
              /\ next' = [next EXCEPT ![n] = head]
              /\ prev' = [prev EXCEPT ![head] = n]
           \/ /\ head # NoNode /\ Place(n) > 0
              /\ next' = [next EXCEPT ![n] = next[current], ![current] = n]
              /\ prev' = [m \in Nodes |-> IF m = n THEN current
                                          ELSE IF m = next[current] THEN n ELSE prev[m]]
              /\ UNCHANGED head
    /\ \E k \in 0..Len(content) :
          /\ \A i \in 1..Len(content) : Key[content[i]] < Key[n] <=> i <= k
          /\ content' = InsertAt(content, k + 1, n)
    /\ UNCHANGED nodes

\* remove of a node of the list, which its owner then frees
\* mutant: the next node goes on pointing at the one removed
UnlinkForwardOnly(n) ==
    /\ IF prev[n] # NoNode THEN next' = [next EXCEPT ![prev[n]] = next[n]] /\ UNCHANGED head
       ELSE head' = next[n] /\ UNCHANGED next
    /\ UNCHANGED prev
Unlink(n) ==
    /\ IF prev[n] # NoNode THEN next' = [next EXCEPT ![prev[n]] = next[n]] /\ UNCHANGED head
       ELSE head' = next[n] /\ UNCHANGED next
    /\ prev' = IF next[n] # NoNode THEN [prev EXCEPT ![next[n]] = prev[n]] ELSE prev

RemoveNode(n) == /\ Unlink(n)
                 /\ \E i \in DOMAIN content : /\ content[i] = n
                                              /\ content' = RemoveAt(content, i)
                 /\ nodes' = nodes \ {n}

\* queue_poll: the head is taken off with its links cleared, to be appended again
PollHead == /\ head # NoNode
            /\ head' = next[head]
            /\ prev' = [m \in Nodes |-> IF m \in {head, next[head]} THEN NoNode ELSE prev[m]]
            /\ next' = [next EXCEPT ![head] = NoNode]
            /\ content' = Tail(content)
            /\ UNCHANGED nodes

\* free of the whole list
FreeAll == /\ head # NoNode
           /\ nodes' = nodes \ Range(Forward(head))
           /\ head' = NoNode
           /\ content' = <<>>
           /\ UNCHANGED <<next, prev>>

ListNext == \/ \E n \in Nodes : NewNode(n) \/ AppendNode(n) \/ SortedInsert(n) \/ RemoveNode(n)
            \/ PollHead
            \/ FreeAll

ListSpec == ListInit /\ [][ListNext]_listVars

-----------------------------------------------------------------------------
\* Through any sequence of calls the links hold the sequence they stand for, in
\* both directions, sorted where it is built by sortedinsert; no node is lost,
\* left in a cycle, or freed while it can still be reached.
LinksHoldContent ==
    LET reached == {Nth(head, i) : i \in 0..Cardinality(Nodes)}
    IN  /\ NoNode \in reached
        /\ Forward(head) = content
        /\ head # NoNode => prev[head] = NoNode
        /\ \A i \in 1..(Len(content) - 1) : prev[content[i + 1]] = content[i]
        /\ Range(content) \subseteq nodes
        /\ \A n \in Nodes : /\ IndexOf(head, n) = -1 <=> n \notin Range(content)
                            /\ n \in Range(content) => Key[FindBy(head, Key[n])] = Key[n]

=============================================================================
