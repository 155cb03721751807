----------------------------- MODULE HeapProofs -----------------------------
(***************************************************************************)
(* Proofs about Heap, for every size of the heap, of the header and of the *)
(* requests.                                                               *)
(*                                                                         *)
(* Tiling, UsedIsLent and LentFits are inductive together: a split or a    *)
(* merge keeps the tiling because the block it works on ends where its     *)
(* next begins; kfree works on a block of the list because a pointer lent  *)
(* is always a block in use.  PayloadsDisjoint follows.                    *)
(***************************************************************************)
EXTENDS Heap, WellFoundedInduction, TLAPS

Inv == TypeOK /\ Tiling /\ UsedIsLent /\ LentFits

-----------------------------------------------------------------------------
\* Rounding to a multiple of the alignment never makes a request smaller.
LEMMA AlignedCovers ==
    ASSUME NEW size \in Nat
    PROVE  Aligned(size) \in Nat /\ Aligned(size) >= size
<1> DEFINE q == (size + (Align - 1)) \div Align
<1> DEFINE r == (size + (Align - 1)) % Align
<1>1. Align \in Nat /\ Align > 0 /\ size + (Align - 1) \in Nat
  BY HeapAssumption
<1>2. q \in Nat /\ r \in 0..Align - 1 /\ size + (Align - 1) = Align * q + r
  BY <1>1
<1> HIDE DEF q, r
<1>3. q * Align = Align * q /\ q * Align \in Nat
  BY <1>1, <1>2
<1>4. q * Align >= size
  BY <1>1, <1>2, <1>3
<1> QED
  BY <1>3, <1>4 DEF Aligned, q

(***************************************************************************)
(* What a caller may write to follows from the inductive invariant: the    *)
(* bytes lent lie in the block of their own, and blocks do not overlap.    *)
(***************************************************************************)
LEMMA InvGivesDisjoint == Inv => PayloadsDisjoint
<1> SUFFICES ASSUME Inv, NEW ptr \in DOMAIN lent
             PROVE  /\ ptr + lent[ptr] <= HeapSize
                    /\ \A other \in DOMAIN lent : ptr < other => ptr + lent[ptr] <= other
                    /\ \A b \in Starts : ~(ptr - Header < b /\ b < ptr + lent[ptr])
  BY DEF PayloadsDisjoint
<1> USE HeapAssumption DEF Inv
<1> DEFINE block == ptr - Header
<1>1. /\ block \in Starts /\ block \in Nat /\ ptr \in Nat /\ lent[ptr] \in Nat
      /\ blocks[block].size \in Nat /\ blocks[block].size >= lent[ptr]
  BY DEF TypeOK, UsedIsLent, LentFits, HeapBlock
<1>2. ptr + lent[ptr] <= End(block) /\ End(block) \in Nat
  BY <1>1 DEF End
<1>3. \A b \in Starts : block < b => End(block) <= b
  BY <1>1 DEF Tiling
<1>4. \A b \in Starts : b \in Nat /\ End(b) \in Nat /\ b <= End(b)
  BY DEF TypeOK, End, HeapBlock
<1>5. End(block) <= HeapSize
  BY <1>1 DEF Tiling
<1>6. \A other \in DOMAIN lent : other - Header \in Starts /\ other \in Nat
  BY DEF TypeOK, UsedIsLent
<1>7. ASSUME NEW other \in DOMAIN lent, ptr < other PROVE ptr + lent[ptr] <= other
  <2>1. End(block) <= other - Header
    BY <1>1, <1>3, <1>6, <1>7
  <2> QED
    BY <2>1, <1>1, <1>2, <1>6
<1>8. ASSUME NEW b \in Starts PROVE ~(block < b /\ b < ptr + lent[ptr])
  BY <1>1, <1>2, <1>3, <1>4, <1>8
<1> QED
  BY <1>1, <1>2, <1>5, <1>7, <1>8

-----------------------------------------------------------------------------
\* heap_init makes one free block of the whole heap.
LEMMA InitInv == Init => Inv
<1> SUFFICES ASSUME Init PROVE Inv
  OBVIOUS
<1> USE HeapAssumption DEF Init
<1>1. Starts = {0} /\ DOMAIN lent = {}
  BY DEF Starts
<1>2. blocks[0] = [size |-> HeapSize - Header, is_free |-> TRUE, next |-> Nil]
  OBVIOUS
<1>3. End(0) = HeapSize
  BY <1>2 DEF End
<1>4. TypeOK
  BY <1>1, <1>2 DEF TypeOK, HeapBlock, Nil
<1>5. Tiling
  BY <1>1, <1>2, <1>3 DEF Tiling
<1> QED
  BY <1>1, <1>2, <1>4, <1>5 DEF Inv, UsedIsLent, LentFits

(***************************************************************************)
(* Splitting a free block that is large enough keeps the tiling: the new   *)
(* header lies inside the old block and both parts end where they should.  *)
(***************************************************************************)
LEMMA SplitPreserves ==
    ASSUME Inv, NEW block \in Starts, blocks[block].is_free,
           NEW request \in Nat, CanSplit(block, Aligned(request)),
           Split(block, Aligned(request)), Lend(block + Header, request)
    PROVE  Inv'
<1> USE HeapAssumption DEF Inv
<1> DEFINE size == Aligned(request)
<1> DEFINE new_block == block + Header + size
<1>1. size \in Nat /\ size >= request
  BY AlignedCovers
<1>2. /\ block \in Nat
      /\ blocks[block] \in HeapBlock
      /\ blocks[block].size \in Nat /\ blocks[block].next \in Int
      /\ blocks[block].size > size + Header + MinSplit
  BY DEF TypeOK, HeapBlock, CanSplit
<1> HIDE DEF size
<1>3. /\ new_block \in Nat /\ block < new_block /\ new_block < End(block)
      /\ End(block) = block + Header + blocks[block].size /\ End(block) \in Nat
  BY <1>1, <1>2 DEF End
<1>4. \A b \in Starts : b \in Nat /\ End(b) \in Nat /\ b < End(b) /\ blocks[b] \in HeapBlock
  BY DEF TypeOK, HeapBlock, End
<1>5. new_block \notin Starts
  BY <1>2, <1>3, <1>4 DEF Tiling
<1>6. blocks' = [b \in Starts \cup {new_block} |->
            IF b = block
            THEN [size |-> size, is_free |-> FALSE, next |-> new_block]
            ELSE IF b = new_block
            THEN [size |-> blocks[block].size - size - Header, is_free |-> TRUE,
                  next |-> blocks[block].next]
            ELSE blocks[b]]
  BY DEF Split, size
<1> HIDE DEF new_block
<1>7. /\ Starts' = Starts \cup {new_block}
      /\ blocks'[block] = [size |-> size, is_free |-> FALSE, next |-> new_block]
      /\ blocks'[new_block] = [size |-> blocks[block].size - size - Header,
                               is_free |-> TRUE, next |-> blocks[block].next]
      /\ \A b \in Starts \ {block} : blocks'[b] = blocks[b]
  BY <1>3, <1>5, <1>6 DEF Starts
<1>8. /\ End(block)' = new_block
      /\ End(new_block)' = End(block)
      /\ \A b \in Starts \ {block} : End(b)' = End(b)
  BY <1>1, <1>2, <1>3, <1>7 DEF End, new_block
<1>9. /\ DOMAIN lent' = DOMAIN lent \cup {block + Header}
      /\ lent'[block + Header] = request
      /\ \A p \in DOMAIN lent \ {block + Header} : lent'[p] = lent[p]
  BY DEF Lend
<1>10. block + Header \notin DOMAIN lent
  <2>1. (block + Header) - Header = block
    BY <1>2
  <2> QED
    BY <2>1 DEF UsedIsLent
<1>11. TypeOK'
  <2>1. \A b \in Starts' : b \in Nat /\ blocks'[b] \in HeapBlock
    <3>1. blocks'[block] \in HeapBlock
      BY <1>1, <1>3, <1>7 DEF HeapBlock
    <3>2. blocks[block].size - size - Header \in Nat
      BY <1>1, <1>2
    <3>3. blocks'[new_block] \in HeapBlock
      BY <3>2, <1>2, <1>7 DEF HeapBlock
    <3> QED
      BY <3>1, <3>3, <1>2, <1>3, <1>4, <1>7
  <2>2. blocks' \in [Starts' -> HeapBlock]
    BY <2>1, <1>6, <1>7
  <2>3. DOMAIN lent' \subseteq Nat /\ lent' \in [DOMAIN lent' -> Nat]
    BY <1>2, <1>9 DEF TypeOK, Lend
  <2> QED
    BY <2>1, <2>2, <2>3 DEF TypeOK
<1>12. Tiling'
  <2>1. 0 \in Starts'
    BY <1>7 DEF Tiling
  <2>2. ASSUME NEW b \in Starts'
        PROVE  IF blocks'[b].next = Nil THEN End(b)' = HeapSize
               ELSE blocks'[b].next \in Starts' /\ End(b)' = blocks'[b].next
    <3>1. CASE b = block
      BY <3>1, <1>3, <1>7, <1>8 DEF Nil
    <3>2. CASE b = new_block
      BY <3>2, <1>7, <1>8 DEF Tiling
    <3>3. CASE b \in Starts \ {block}
      BY <3>3, <1>7, <1>8 DEF Tiling
    <3> QED
      BY <2>2, <3>1, <3>2, <3>3, <1>7
  <2>3. \A b \in Starts' : End(b)' <= HeapSize
    BY <1>3, <1>7, <1>8 DEF Tiling
  <2>4. ASSUME NEW b \in Starts', NEW c \in Starts', b < c PROVE End(b)' <= c
    <3>1. CASE b \in Starts /\ c \in Starts
      <4>1. End(b) <= c
        BY <3>1, <2>4 DEF Tiling
      <4> QED
        BY <4>1, <3>1, <1>3, <1>4, <1>8
    <3>2. CASE b = new_block /\ c \in Starts
      <4>a. c \in Nat /\ block \in Nat /\ new_block \in Nat /\ block < new_block /\ new_block < c
        BY <3>2, <2>4, <1>2, <1>3, <1>4
      <4>1. block < c
        BY <4>a
      <4> QED
        BY <4>1, <3>2, <1>8 DEF Tiling
    <3>3. CASE c = new_block /\ b \in Starts \ {block}
      <4>1. b < block
        <5>1. b < block \/ block < b
          BY <3>3, <1>2, <1>4
        <5>2. ASSUME block < b PROVE FALSE
          BY <5>2, <3>3, <2>4, <1>3, <1>4 DEF Tiling
        <5> QED
          BY <5>1, <5>2
      <4>2. End(b) <= block
        BY <4>1, <3>3 DEF Tiling
      <4> QED
        BY <4>2, <3>3, <1>2, <1>3, <1>4, <1>8
    <3>4. CASE c = new_block /\ b = block
      BY <3>4, <1>3, <1>8
    <3>5. CASE b = new_block /\ c = new_block
      BY <3>5, <2>4, <1>3
    <3> QED
      BY <2>4, <3>1, <3>2, <3>3, <3>4, <3>5, <1>7
  <2> QED
    BY <2>1, <2>2, <2>3, <2>4 DEF Tiling
<1>13. \A p \in DOMAIN lent : p \in Nat /\ p - Header \in Starts /\ p - Header # block
  <2> TAKE p \in DOMAIN lent
  <2>1. p \in Nat /\ p - Header \in Starts
    BY DEF TypeOK, UsedIsLent
  <2> QED
    BY <2>1, <1>2, <1>10
<1>14. UsedIsLent'
  <2>1. (block + Header) - Header = block
    BY <1>2
  <2>2. \A p \in DOMAIN lent' : p - Header \in Starts' /\ ~blocks'[p - Header].is_free
    BY <2>1, <1>7, <1>9, <1>13 DEF UsedIsLent
  <2>3. \A b \in Starts' : ~blocks'[b].is_free => b + Header \in DOMAIN lent'
    BY <1>7, <1>9 DEF UsedIsLent
  <2> QED
    BY <2>2, <2>3 DEF UsedIsLent
<1>15. LentFits'
  <2>1. (block + Header) - Header = block
    BY <1>2
  <2> SUFFICES ASSUME NEW p \in DOMAIN lent'
               PROVE  /\ blocks'[p - Header].size >= lent'[p]
                      /\ blocks'[p - Header].size <= Aligned(lent'[p]) + Header + MinSplit
    BY DEF LentFits, Aligned
  <2>2. CASE p = block + Header
    BY <2>1, <2>2, <1>1, <1>7, <1>9 DEF size
  <2>3. CASE p \in DOMAIN lent \ {block + Header}
    BY <2>3, <1>7, <1>9, <1>13 DEF LentFits
  <2> QED
    BY <2>2, <2>3, <1>9
<1> QED
  BY <1>11, <1>12, <1>14, <1>15

(***************************************************************************)
(* Taking a block whole changes no boundary; at most a header and MinSplit *)
(* bytes more than the aligned size are lent.                              *)
(***************************************************************************)
LEMMA WholePreserves ==
    ASSUME Inv, NEW block \in Starts, blocks[block].is_free,
           NEW request \in Nat, blocks[block].size >= Aligned(request),
           ~CanSplit(block, Aligned(request)),
           TakeWhole(block), Lend(block + Header, request)
    PROVE  Inv'
<1> USE HeapAssumption DEF Inv
<1>1. Aligned(request) \in Nat /\ Aligned(request) >= request
  BY AlignedCovers
<1>2. block \in Nat /\ blocks[block] \in HeapBlock /\ blocks[block].size \in Nat
  BY DEF TypeOK, HeapBlock
<1>3. /\ blocks' = [blocks EXCEPT ![block].is_free = FALSE]
      /\ blocks \in [Starts -> HeapBlock]
  BY DEF TakeWhole, TypeOK
<1>4. /\ Starts' = Starts
      /\ blocks'[block].size = blocks[block].size
      /\ blocks'[block].next = blocks[block].next
      /\ ~blocks'[block].is_free
      /\ \A b \in Starts \ {block} : blocks'[b] = blocks[b]
  BY <1>2, <1>3 DEF Starts, HeapBlock
<1>5. \A b \in Starts : blocks'[b].size = blocks[b].size /\ blocks'[b].next = blocks[b].next
  BY <1>4
<1>6. \A b \in Starts : End(b)' = End(b)
  BY <1>5 DEF End
<1>7. /\ DOMAIN lent' = DOMAIN lent \cup {block + Header}
      /\ lent'[block + Header] = request
      /\ \A p \in DOMAIN lent \ {block + Header} : lent'[p] = lent[p]
  BY DEF Lend
<1>8. (block + Header) - Header = block
  BY <1>2
<1>9. \A p \in DOMAIN lent : p - Header \in Starts \ {block}
  BY DEF UsedIsLent
<1>10. TypeOK'
  <2>1. blocks' \in [Starts' -> HeapBlock]
    BY <1>3, <1>4 DEF HeapBlock
  <2>2. DOMAIN lent' \subseteq Nat /\ lent' \in [DOMAIN lent' -> Nat]
    BY <1>2, <1>7 DEF TypeOK, Lend
  <2> QED
    BY <2>1, <2>2, <1>4 DEF TypeOK
<1>11. Tiling'
  BY <1>4, <1>5, <1>6 DEF Tiling
<1>12. UsedIsLent'
  BY <1>4, <1>7, <1>8, <1>9 DEF UsedIsLent
<1>13. LentFits'
  <2> SUFFICES ASSUME NEW p \in DOMAIN lent'
               PROVE  /\ blocks'[p - Header].size >= lent'[p]
                      /\ blocks'[p - Header].size <= Aligned(lent'[p]) + Header + MinSplit
    BY DEF LentFits, Aligned
  <2>1. CASE p = block + Header
    <3>1. blocks[block].size <= Aligned(request) + Header + MinSplit
      BY <1>1, <1>2 DEF CanSplit
    <3> QED
      BY <2>1, <3>1, <1>1, <1>2, <1>4, <1>7, <1>8
  <2>2. CASE p \in DOMAIN lent \ {block + Header}
    BY <2>2, <1>4, <1>7, <1>9 DEF LentFits
  <2> QED
    BY <2>1, <2>2, <1>7
<1> QED
  BY <1>10, <1>11, <1>12, <1>13

-----------------------------------------------------------------------------
(***************************************************************************)
(* kfree without a merge: the block stays where it is and no caller has it *)
(* any more.                                                               *)
(***************************************************************************)
LEMMA ReleasePreserves ==
    ASSUME Inv, NEW ptr \in DOMAIN lent, Release(ptr - Header),
           lent' = [p \in DOMAIN lent \ {ptr} |-> lent[p]]
    PROVE  Inv'
<1> USE HeapAssumption DEF Inv
<1> DEFINE block == ptr - Header
<1>1. ptr \in Nat /\ block \in Starts /\ block \in Nat /\ blocks[block] \in HeapBlock
  BY DEF TypeOK, UsedIsLent
<1>2. /\ blocks' = [blocks EXCEPT ![block].is_free = TRUE]
      /\ blocks \in [Starts -> HeapBlock]
  BY DEF Release, TypeOK
<1>3. block + Header = ptr
  BY <1>1
<1> HIDE DEF block
<1>4. /\ Starts' = Starts
      /\ blocks'[block].size = blocks[block].size
      /\ blocks'[block].next = blocks[block].next
      /\ blocks'[block].is_free
      /\ \A b \in Starts \ {block} : blocks'[b] = blocks[b]
  BY <1>1, <1>2 DEF Starts, HeapBlock
<1>5. \A b \in Starts : blocks'[b].size = blocks[b].size /\ blocks'[b].next = blocks[b].next
  BY <1>4
<1>6. \A b \in Starts : End(b)' = End(b)
  BY <1>5 DEF End
<1>7. \A p \in DOMAIN lent' : p \in DOMAIN lent /\ lent'[p] = lent[p] /\ p # ptr
  OBVIOUS
<1>8. \A p \in DOMAIN lent' : p - Header \in Starts \ {block}
  <2> TAKE p \in DOMAIN lent'
  <2>1. p \in Nat /\ p - Header \in Starts /\ p # ptr
    BY <1>7 DEF TypeOK, UsedIsLent
  <2> QED
    BY <2>1, <1>1, <1>3
<1>9. TypeOK'
  BY <1>2, <1>4, <1>7 DEF TypeOK, HeapBlock
<1>10. Tiling'
  BY <1>4, <1>5, <1>6 DEF Tiling
<1>11. UsedIsLent'
  <2>1. \A b \in Starts : ~blocks'[b].is_free => b \in Nat /\ b # block /\ b + Header \in DOMAIN lent
    BY <1>4 DEF UsedIsLent, TypeOK
  <2>2. \A b \in Starts : ~blocks'[b].is_free => b + Header # ptr
    BY <2>1, <1>1, <1>3
  <2>3. \A p \in DOMAIN lent' : p - Header \in Starts' /\ ~blocks'[p - Header].is_free
    BY <1>4, <1>7, <1>8 DEF UsedIsLent
  <2> QED
    BY <2>1, <2>2, <2>3, <1>4 DEF UsedIsLent
<1>12. LentFits'
  <2> SUFFICES ASSUME NEW p \in DOMAIN lent'
               PROVE  /\ blocks'[p - Header].size >= lent'[p]
                      /\ blocks'[p - Header].size <= Aligned(lent'[p]) + Header + MinSplit
    BY DEF LentFits, Aligned
  <2> QED
    BY <1>4, <1>7, <1>8 DEF LentFits
<1> QED
  BY <1>9, <1>10, <1>11, <1>12

(***************************************************************************)
(* kfree with a merge: the block takes over the bytes and the next of a    *)
(* free block that begins where it ends, and that nobody else points to.   *)
(***************************************************************************)
LEMMA MergePreserves ==
    ASSUME Inv, NEW ptr \in DOMAIN lent, MergesWithNext(ptr - Header), Merge(ptr - Header),
           lent' = [p \in DOMAIN lent \ {ptr} |-> lent[p]]
    PROVE  Inv'
<1> USE HeapAssumption DEF Inv
<1> DEFINE block == ptr - Header
<1> DEFINE after == blocks[block].next
<1>1. ptr \in Nat /\ block \in Starts /\ block \in Nat
  BY DEF TypeOK, UsedIsLent
<1>2. after # Nil /\ blocks[after].is_free
  BY DEF MergesWithNext
<1>3. after \in Starts /\ End(block) = after
  BY <1>1, <1>2 DEF Tiling
<1>4. \A b \in Starts :
        /\ b \in Nat /\ blocks[b] \in HeapBlock
        /\ blocks[b].size \in Nat /\ blocks[b].next \in Int
        /\ End(b) \in Nat /\ b < End(b) /\ End(b) = b + Header + blocks[b].size
  BY DEF TypeOK, HeapBlock, End
<1>5. block < after
  BY <1>1, <1>3, <1>4
<1>6. blocks' = [b \in Starts \ {after} |->
            IF b = block
            THEN [size |-> blocks[block].size + Header + blocks[after].size,
                  is_free |-> TRUE, next |-> blocks[after].next]
            ELSE blocks[b]]
  BY DEF Merge
<1>7. block + Header = ptr
  BY <1>1
<1>e. blocks[block].next = after
  OBVIOUS
<1> HIDE DEF block, after
<1>8. /\ Starts' = Starts \ {after}
      /\ block \in Starts' /\ block # after
      /\ blocks'[block] = [size |-> blocks[block].size + Header + blocks[after].size,
                           is_free |-> TRUE, next |-> blocks[after].next]
      /\ \A b \in Starts' \ {block} : blocks'[b] = blocks[b]
  BY <1>1, <1>3, <1>4, <1>5, <1>6 DEF Starts
<1>9. /\ End(block)' = End(after)
      /\ \A b \in Starts' \ {block} : End(b)' = End(b)
  <2>1. End(block)' = block + Header + (blocks[block].size + Header + blocks[after].size)
    BY <1>8 DEF End
  <2>2. End(after) = after + Header + blocks[after].size
    BY DEF End
  <2>3. after = block + Header + blocks[block].size
    BY <1>1, <1>3, <1>4
  <2>4. blocks[block].size \in Nat /\ blocks[after].size \in Nat
    BY <1>1, <1>3, <1>4
  <2>5. End(block)' = End(after)
    BY <2>1, <2>2, <2>3, <2>4, <1>1
  <2> QED
    BY <2>5, <1>8 DEF End
<1>10. \A p \in DOMAIN lent' : p \in DOMAIN lent /\ lent'[p] = lent[p] /\ p # ptr
  OBVIOUS
<1>11. \A p \in DOMAIN lent' : p - Header \in Starts' \ {block}
  <2> TAKE p \in DOMAIN lent'
  <2>1. p \in Nat /\ p - Header \in Starts /\ ~blocks[p - Header].is_free /\ p # ptr
    BY <1>10 DEF TypeOK, UsedIsLent
  <2>2. p - Header # block
    BY <2>1, <1>1, <1>7
  <2> QED
    BY <2>1, <2>2, <1>2, <1>8
<1>12. TypeOK'
  <2>1. blocks'[block] \in HeapBlock
    <3>1. blocks[block].size + Header + blocks[after].size \in Nat /\ blocks[after].next \in Int
      BY <1>1, <1>3, <1>4
    <3> QED
      BY <3>1, <1>8 DEF HeapBlock
  <2>2. \A b \in Starts' : b \in Nat /\ blocks'[b] \in HeapBlock
    BY <2>1, <1>4, <1>8
  <2>3. blocks' \in [Starts' -> HeapBlock]
    BY <2>2, <1>6, <1>8
  <2>4. DOMAIN lent' \subseteq Nat /\ lent' \in [DOMAIN lent' -> Nat]
    BY <1>10 DEF TypeOK
  <2> QED
    BY <2>2, <2>3, <2>4 DEF TypeOK
<1>13. Tiling'
  <2>1. 0 \in Starts'
    BY <1>1, <1>5, <1>8 DEF Tiling
  <2>2. ASSUME NEW b \in Starts'
        PROVE  IF blocks'[b].next = Nil THEN End(b)' = HeapSize
               ELSE blocks'[b].next \in Starts' /\ End(b)' = blocks'[b].next
    <3>1. CASE b = block
      <4>1. blocks[after].next # after
        BY <1>3, <1>4, <1>5, <1>1 DEF Tiling, Nil
      <4> QED
        BY <3>1, <4>1, <1>3, <1>8, <1>9 DEF Tiling
    <3>2. CASE b # block
      <4>1. End(b) # after
        <5>1. b < block \/ block < b
          BY <3>2, <1>1, <1>4, <1>8
        <5>2. CASE b < block
          <6>1. End(b) <= block
            BY <5>2, <1>1, <1>8 DEF Tiling
          <6> QED
            BY <6>1, <1>1, <1>3, <1>4, <1>5, <1>8
        <5>3. CASE block < b
          <6>1. after <= b
            BY <5>3, <1>1, <1>3, <1>8 DEF Tiling
          <6> QED
            BY <6>1, <1>3, <1>4, <1>8
        <5> QED
          BY <5>1, <5>2, <5>3
      <4> QED
        BY <3>2, <4>1, <1>8, <1>9 DEF Tiling
    <3> QED
      BY <3>1, <3>2
  <2>3. \A b \in Starts' : End(b)' <= HeapSize
    BY <1>3, <1>8, <1>9 DEF Tiling
  <2>4. ASSUME NEW b \in Starts', NEW c \in Starts', b < c PROVE End(b)' <= c
    <3>1. CASE b = block
      <4>1. after <= c
        BY <3>1, <2>4, <1>1, <1>3, <1>8 DEF Tiling
      <4>2. after < c
        BY <4>1, <1>3, <1>4, <1>8
      <4> QED
        BY <4>2, <3>1, <1>3, <1>8, <1>9 DEF Tiling
    <3>2. CASE b # block
      BY <3>2, <2>4, <1>8, <1>9 DEF Tiling
    <3> QED
      BY <3>1, <3>2
  <2> QED
    BY <2>1, <2>2, <2>3, <2>4 DEF Tiling
<1>14. UsedIsLent'
  <2>1. \A b \in Starts' : ~blocks'[b].is_free => b \in Nat /\ b # block /\ b + Header \in DOMAIN lent
    BY <1>4, <1>8 DEF UsedIsLent
  <2>2. \A b \in Starts' : ~blocks'[b].is_free => b + Header # ptr
    BY <2>1, <1>1, <1>7
  <2>3. \A p \in DOMAIN lent' : p - Header \in Starts' /\ ~blocks'[p - Header].is_free
    BY <1>8, <1>10, <1>11 DEF UsedIsLent
  <2> QED
    BY <2>1, <2>2, <2>3 DEF UsedIsLent
<1>15. LentFits'
  <2> SUFFICES ASSUME NEW p \in DOMAIN lent'
               PROVE  /\ blocks'[p - Header].size >= lent'[p]
                      /\ blocks'[p - Header].size <= Aligned(lent'[p]) + Header + MinSplit
    BY DEF LentFits, Aligned
  <2> QED
    BY <1>8, <1>10, <1>11 DEF LentFits
<1> QED
  BY <1>12, <1>13, <1>14, <1>15

-----------------------------------------------------------------------------
\* A set of addresses that is not empty has a lowest one.
LEMMA LowestExists ==
    ASSUME NEW S, S \subseteq Nat, S # {}
    PROVE  \E b \in S : \A c \in S : b <= c
<1> DEFINE R == {ss \in Nat \X Nat : ss[1] < ss[2]}
<1>1. IsWellFoundedOn(R, Nat)
  BY NatLessThanWellFounded DEF OpToRel
<1>2. \A y, z \in Nat : y < z => <<y, z>> \in R
  OBVIOUS
<1> HIDE DEF R
<1>3. PICK b \in S : \A c \in S : ~(<<c, b>> \in R)
  BY <1>1, WFMin
<1>4. \A c \in S : ~(c < b)
  BY <1>2, <1>3, Zenon
<1>5. \A c \in S : b <= c
  BY <1>4
<1> QED
  BY <1>5

\* The block kmalloc's walk stops at is free and large enough.
LEMMA FirstFitFits ==
    ASSUME TypeOK, NEW size \in Nat, Fits(size) # {}
    PROVE  FirstFit(size) \in Fits(size)
<1>1. Fits(size) \subseteq Nat
  BY DEF Fits, TypeOK
<1> QED
  BY <1>1, LowestExists DEF FirstFit

\* No call of kmalloc or kfree breaks the invariant.
LEMMA NextInv == Inv /\ [Next]_vars => Inv'
<1> SUFFICES ASSUME Inv, [Next]_vars PROVE Inv'
  OBVIOUS
<1>0. ASSUME UNCHANGED vars PROVE Inv'
  BY <1>0 DEF vars, Inv, TypeOK, Tiling, UsedIsLent, LentFits, Starts, End
<1>1. ASSUME NEW size \in Sizes, kmalloc(size) PROVE Inv'
  <2>1. size \in Nat /\ Aligned(size) \in Nat
    BY HeapAssumption, AlignedCovers
  <2>2. CASE Fits(Aligned(size)) # {} /\ Allocate(FirstFit(Aligned(size)), size)
    <3> DEFINE block == FirstFit(Aligned(size))
    <3>1. block \in Fits(Aligned(size))
      BY <2>1, <2>2, FirstFitFits DEF Inv
    <3> HIDE DEF block
    <3>2. block \in Starts /\ blocks[block].is_free /\ blocks[block].size >= Aligned(size)
      BY <3>1 DEF Fits
    <3>3. Allocate(block, size)
      BY <2>2 DEF block
    <3> QED
      BY <2>1, <3>2, <3>3, SplitPreserves, WholePreserves DEF Allocate
  <2> QED
    BY <1>0, <1>1, <2>2 DEF kmalloc
<1>2. ASSUME NEW ptr \in DOMAIN lent, kfree(ptr) PROVE Inv'
  BY <1>2, MergePreserves, ReleasePreserves DEF kfree
<1> QED
  BY <1>0, <1>1, <1>2 DEF Next

(***************************************************************************)
(* After any sequence of kmalloc and kfree the list tiles the heap, the    *)
(* used blocks are those callers hold, and each is as large as was asked.  *)
(***************************************************************************)
THEOREM HeapSafe == Spec => []Inv
  BY InitInv, NextInv, PTL DEF Spec

\* Headers and history have their types throughout.
THEOREM HeapTypeOK == Spec => []TypeOK
<1>1. Inv => TypeOK
  BY DEF Inv
<1> QED
  BY <1>1, HeapSafe, PTL

\* The list of kernel/memory.c always tiles the heap.
THEOREM HeapTiling == Spec => []Tiling
<1>1. Inv => Tiling
  BY DEF Inv
<1> QED
  BY <1>1, HeapSafe, PTL

\* The blocks marked used are exactly the ones callers of kmalloc hold.
THEOREM HeapUsedIsLent == Spec => []UsedIsLent
<1>1. Inv => UsedIsLent
  BY DEF Inv
<1> QED
  BY <1>1, HeapSafe, PTL

\* A caller gets at least what it asked for and wastes a bounded amount.
THEOREM HeapLentFits == Spec => []LentFits
<1>1. Inv => LentFits
  BY DEF Inv
<1> QED
  BY <1>1, HeapSafe, PTL

\* Bytes lent to two callers never overlap each other or a header.
THEOREM HeapPayloadsDisjoint == Spec => []PayloadsDisjoint
  BY InvGivesDisjoint, HeapSafe, PTL


-----------------------------------------------------------------------------
(***************************************************************************)
(* The loop of kmalloc.  Ahead(b, size) is the answer without the loop:    *)
(* the lowest block at or behind b that fits.  It satisfies the loop's     *)
(* equation, so the recursive function exists; and no other function does, *)
(* because a highest block where they differ would lead to one behind it.  *)
(***************************************************************************)
FitsFrom(b, size) == {block \in Fits(size) : b <= block}

Ahead(b, size) ==
    IF b = Nil \/ FitsFrom(b, size) = {} THEN Nil
    ELSE CHOOSE block \in FitsFrom(b, size) : \A other \in FitsFrom(b, size) : block <= other

LoopStep(walk, b, size) ==
    IF b = Nil THEN Nil
    ELSE IF blocks[b].is_free /\ blocks[b].size >= size THEN b
    ELSE walk[blocks[b].next]

LEMMA AheadIsLowest ==
    ASSUME TypeOK, NEW b \in Starts, NEW size, FitsFrom(b, size) # {}
    PROVE  /\ Ahead(b, size) \in FitsFrom(b, size)
           /\ \A other \in FitsFrom(b, size) : Ahead(b, size) <= other
           /\ b \in Nat /\ b # Nil
<1>1. FitsFrom(b, size) \subseteq Nat /\ b \in Nat
  BY DEF TypeOK, FitsFrom, Fits
<1>2. \E block \in FitsFrom(b, size) : \A other \in FitsFrom(b, size) : block <= other
  BY <1>1, LowestExists
<1>3. b # Nil
  BY <1>1 DEF Nil
<1> QED
  BY <1>1, <1>2, <1>3 DEF Ahead

LEMMA AheadSteps ==
    ASSUME Inv, NEW b \in Starts, NEW size
    PROVE  /\ b \in Nat /\ b < HeapSize
           /\ blocks[b].next \in Starts \cup {Nil}
           /\ blocks[b].next # Nil => b < blocks[b].next
           /\ Ahead(b, size) = IF blocks[b].is_free /\ blocks[b].size >= size THEN b
                               ELSE Ahead(blocks[b].next, size)
<1> DEFINE next == blocks[b].next
<1>1. TypeOK /\ Tiling
  BY DEF Inv
<1>2. /\ b \in Nat /\ Starts \subseteq Nat /\ Header \in Nat \ {0} /\ HeapSize \in Nat
      /\ \A c \in Starts : c \in Nat /\ blocks[c].size \in Nat /\ End(c) \in Nat /\ c < End(c)
  BY <1>1, HeapAssumption DEF TypeOK, HeapBlock, End
<1>3. /\ IF next = Nil THEN End(b) = HeapSize ELSE next \in Starts /\ End(b) = next
      /\ End(b) <= HeapSize
      /\ \A c \in Starts : End(c) <= HeapSize /\ (b < c => End(b) <= c)
  BY <1>1 DEF Tiling
<1> HIDE DEF next
<1>4. b < HeapSize /\ next \in Starts \cup {Nil} /\ (next # Nil => b < next)
  BY <1>2, <1>3
<1>5. \A c \in Starts : b < c => next # Nil /\ next <= c
  BY <1>2, <1>3
<1>6. b # Nil
  BY <1>2 DEF Nil
<1> DEFINE here == blocks[b].is_free /\ blocks[b].size >= size
<1>7. CASE here
  <2>1. b \in FitsFrom(b, size)
    BY <1>2, <1>7 DEF FitsFrom, Fits
  <2>2. Ahead(b, size) \in FitsFrom(b, size) /\ Ahead(b, size) <= b
    BY <2>1, <1>1, AheadIsLowest
  <2>3. Ahead(b, size) = b
    <3> DEFINE a == Ahead(b, size)
    <3>1. a \in Starts /\ b <= a /\ a <= b
      BY <2>2 DEF FitsFrom, Fits
    <3> HIDE DEF a
    <3>2. a \in Nat /\ b \in Nat
      BY <3>1, <1>2
    <3>3. a = b
      BY <3>1, <3>2
    <3> QED
      BY <3>3 DEF a
  <2> QED
    BY <2>3, <1>4, <1>2, <1>7 DEF next
<1>8. CASE ~here
  <2>1. \A c \in FitsFrom(b, size) : c \in Starts /\ c # b /\ b < c /\ next # Nil /\ next <= c
    BY <1>2, <1>5, <1>8 DEF FitsFrom, Fits
  <2>2. next # Nil => FitsFrom(next, size) = FitsFrom(b, size)
    <3> SUFFICES ASSUME next # Nil PROVE FitsFrom(next, size) = FitsFrom(b, size)
      OBVIOUS
    <3>1. next \in Nat /\ b < next
      BY <1>2, <1>4
    <3>2. ASSUME NEW c \in FitsFrom(next, size) PROVE b <= c
      <4>1. c \in Starts /\ next <= c
        BY DEF FitsFrom, Fits
      <4>2. c \in Nat /\ b \in Nat
        BY <4>1, <1>2
      <4> QED
        BY <4>1, <4>2, <3>1
    <3> QED
      BY <2>1, <3>2 DEF FitsFrom
  <2>3. Ahead(b, size) = Ahead(next, size)
    <3>1. CASE next = Nil
      <4>1. FitsFrom(b, size) = {}
        BY <2>1, <3>1
      <4> QED
        BY <3>1, <4>1 DEF Ahead
    <3>2. CASE next # Nil
      BY <2>2, <3>2, <1>6 DEF Ahead
    <3> QED
      BY <3>1, <3>2
  <2> QED
    BY <2>3, <1>2, <1>4, <1>8 DEF next
<1> QED
  BY <1>7, <1>8

LEMMA WalkIsAhead ==
    ASSUME Inv, NEW size
    PROVE  Walk(size) = Ahead(0, size)
<1> DEFINE Satisfies(walk) == walk = [b \in Starts \cup {Nil} |-> LoopStep(walk, b, size)]
           answer == [b \in Starts \cup {Nil} |-> Ahead(b, size)]
<1>1. Starts \subseteq Nat /\ 0 \in Starts /\ HeapSize \in Nat
  BY HeapAssumption DEF Inv, TypeOK, Tiling
<1>2. Satisfies(answer)
  <2> DEFINE again == [b \in Starts \cup {Nil} |-> LoopStep(answer, b, size)]
  <2>1. ASSUME NEW b \in Starts \cup {Nil} PROVE answer[b] = again[b]
    <3>1. CASE b = Nil
      BY <3>1 DEF Ahead, LoopStep
    <3>2. CASE b # Nil
      <4>1. b \in Starts
        BY <3>2
      <4>2. answer[blocks[b].next] = Ahead(blocks[b].next, size)
        BY <4>1, AheadSteps
      <4>3. again[b] = LoopStep(answer, b, size) /\ answer[b] = Ahead(b, size)
        BY <4>1
      <4> HIDE DEF answer, again
      <4> QED
        BY <3>2, <4>1, <4>2, <4>3, AheadSteps DEF LoopStep
    <3> QED
      BY <3>1, <3>2
  <2>2. answer = again
    BY <2>1
  <2> QED
    BY <2>2
<1>3. PICK walk : Satisfies(walk) /\ Walk(size) = walk[0]
  <2>1. Walk(size) = (CHOOSE walk : Satisfies(walk))[0]
    BY DEF Walk, LoopStep
  <2> HIDE DEF Satisfies
  <2> QED
    BY <2>1, <1>2
<1>4. \A b \in Starts \cup {Nil} : walk[b] = LoopStep(walk, b, size)
  BY <1>3
<1> DEFINE wrong == {b \in Starts : walk[b] # Ahead(b, size)}
<1>5. wrong = {}
  <2> SUFFICES ASSUME wrong # {} PROVE FALSE
    OBVIOUS
  <2> DEFINE left == {HeapSize - b : b \in wrong}
  <2>1. left \subseteq Nat /\ left # {}
    BY <1>1, AheadSteps
  <2>2. PICK b \in wrong : \A c \in wrong : HeapSize - b <= HeapSize - c
    <3>1. PICK n \in left : \A m \in left : n <= m
      BY <2>1, LowestExists
    <3>2. PICK b \in wrong : n = HeapSize - b
      OBVIOUS
    <3>3. \A c \in wrong : HeapSize - b <= HeapSize - c
      BY <3>1, <3>2
    <3> QED
      BY <3>3
  <2>3. b \in Starts /\ walk[b] # Ahead(b, size)
    OBVIOUS
  <2> DEFINE next == blocks[b].next
  <2>4. /\ b \in Nat /\ next \in Starts \cup {Nil} /\ (next # Nil => b < next)
        /\ Ahead(b, size) = IF blocks[b].is_free /\ blocks[b].size >= size THEN b ELSE Ahead(next, size)
    BY <2>3, AheadSteps
  <2>5. walk[b] = IF blocks[b].is_free /\ blocks[b].size >= size THEN b ELSE walk[next]
    BY <2>3, <2>4, <1>1, <1>4 DEF LoopStep, Nil
  <2> HIDE DEF next
  <2>6. next # Nil /\ next \notin wrong => walk[next] = Ahead(next, size)
    BY <2>4
  <2>7. next # Nil => next \notin wrong
    <3> SUFFICES ASSUME next # Nil, next \in wrong PROVE FALSE
      OBVIOUS
    <3>1. HeapSize - b <= HeapSize - next /\ next \in Nat
      BY <2>2, <1>1
    <3> QED
      BY <3>1, <2>4, <1>1
  <2>8. next = Nil => walk[next] = Ahead(next, size)
    BY <1>4 DEF LoopStep, Ahead
  <2> QED
    BY <2>3, <2>4, <2>5, <2>6, <2>7, <2>8
<1> QED
  BY <1>1, <1>3, <1>5

(***************************************************************************)
(* kmalloc's loop ends, finds a block whenever the list has one that fits, *)
(* and then the one at the lowest address (memory.c:31-50).                *)
(***************************************************************************)
THEOREM HeapWalkFindsFirstFit == Spec => []WalkFindsFirstFit
<1>1. Inv => WalkFindsFirstFit
  <2> SUFFICES ASSUME Inv, NEW size \in Sizes
               PROVE  Walk(Aligned(size)) = IF Fits(Aligned(size)) = {} THEN Nil
                                            ELSE FirstFit(Aligned(size))
    BY DEF WalkFindsFirstFit
  <2> DEFINE want == Aligned(size)
  <2>1. 0 # Nil /\ FitsFrom(0, want) = Fits(want)
    BY DEF Inv, TypeOK, FitsFrom, Fits, Nil
  <2>2. Walk(want) = Ahead(0, want)
    BY WalkIsAhead
  <2> HIDE DEF want
  <2>3. Ahead(0, want) = IF Fits(want) = {} THEN Nil ELSE FirstFit(want)
    <3> DEFINE S == Fits(want)
    <3>1. FirstFit(want) = CHOOSE block \in S : \A other \in S : block <= other
      BY DEF FirstFit
    <3>2. Ahead(0, want) = IF 0 = Nil \/ S = {} THEN Nil
                           ELSE CHOOSE block \in S : \A other \in S : block <= other
      <4> DEFINE T == FitsFrom(0, want)
      <4>1. Ahead(0, want) = IF 0 = Nil \/ T = {} THEN Nil
                             ELSE CHOOSE block \in T : \A other \in T : block <= other
        BY DEF Ahead
      <4>2. T = S
        BY <2>1
      <4> HIDE DEF S, T
      <4> QED
        BY <4>1, <4>2
    <3> HIDE DEF S
    <3>3. 0 # Nil
      BY <2>1
    <3>4. Ahead(0, want) = IF S = {} THEN Nil ELSE FirstFit(want)
      BY <3>1, <3>2, <3>3
    <3> QED
      BY <3>4 DEF S
  <2> QED
    BY <2>2, <2>3 DEF want
<1> QED
  BY <1>1, HeapSafe, PTL

=============================================================================
