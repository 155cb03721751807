------------------------------ MODULE ListHead ------------------------------
(***************************************************************************)
(* The circular lists of include/list.h on a memory m of links: m.next and *)
(* m.prev give the neighbours of every node.  NULL is no node, but page 0  *)
(* is mapped and writable, so a store through it goes through unnoticed.   *)
(***************************************************************************)
EXTENDS Integers, Sequences

CONSTANTS
    Nodes,      \* list heads and the list_head of every entry
    NULL        \* none of them

SetNext(m, n, to) == [m EXCEPT !.next = [x \in Nodes |-> IF x = n THEN to ELSE @[x]]]
SetPrev(m, n, to) == [m EXCEPT !.prev = [x \in Nodes |-> IF x = n THEN to ELSE @[x]]]

\* The value read through n; what lies at page 0 is not a node.
NextOf(m, n) == IF n \in Nodes THEN m.next[n] ELSE NULL
PrevOf(m, n) == IF n \in Nodes THEN m.prev[n] ELSE NULL

INIT_LIST_HEAD == [next |-> [n \in Nodes |-> n], prev |-> [n \in Nodes |-> n]]

\* __list_add(new, prev, next): four stores, in this order.
AddBetween(m, new, before, after) ==
    SetNext(SetPrev(SetNext(SetPrev(m, after, new), new, after), new, before), before, new)

list_add_tail(m, new, head) == AddBetween(m, new, PrevOf(m, head), head)

\* __list_del(prev, next).
Bypass(m, before, after) == SetNext(SetPrev(m, after, before), before, after)

list_del(m, n) ==
    SetPrev(SetNext(Bypass(m, PrevOf(m, n), NextOf(m, n)), n, NULL), n, NULL)

\* The links spell the ring of head and then, in this order, the entries of s.
Spells(m, head, s) ==
    LET ring == <<head>> \o s
    IN  \A i \in 1..Len(ring) :
            LET after == ring[IF i = Len(ring) THEN 1 ELSE i + 1]
            IN  m.next[ring[i]] = after /\ m.prev[after] = ring[i]

=============================================================================
