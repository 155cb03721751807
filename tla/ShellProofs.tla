---------------------------- MODULE ShellProofs ----------------------------
(***************************************************************************)
(* Proofs about the console, for every size of the keyboard's ring, of the *)
(* command buffer, of the history and of the screen, and for any number of *)
(* keys pressed.                                                           *)
(***************************************************************************)
EXTENDS Shell, SequenceTheorems, WellFoundedInduction, TLAPS

-----------------------------------------------------------------------------
(***************************************************************************)
(* Arithmetic of the ring's indices.                                       *)
(***************************************************************************)
\* A remainder is determined by being one.
LEMMA RemainderUnique ==
    ASSUME NEW b \in Nat \ {0}, NEW q \in Int, NEW r \in 0..b - 1, NEW p \in Int, NEW s \in 0..b - 1,
           b * q + r = b * p + s
    PROVE  q = p /\ r = s
<1>1. b * (q - p) = s - r
  OBVIOUS
<1>2. q - p >= 1 => b * (q - p) >= b
  OBVIOUS
<1>3. q - p <= -1 => b * (q - p) <= -b
  OBVIOUS
<1>4. q - p = 0
  BY <1>1, <1>2, <1>3
<1> QED
  BY <1>4

\* What the remainder of the ring indices is.
LEMMA RemainderFacts ==
    ASSUME NEW b \in Nat \ {0}, NEW a \in Int
    PROVE  /\ a % b \in 0..b - 1
           /\ a \div b \in Int
           /\ a = b * (a \div b) + (a % b)
OBVIOUS

\* Numbers that differ by a multiple of b have the same remainder.
LEMMA SameRemainder ==
    ASSUME NEW b \in Nat \ {0}, NEW a \in Int, NEW c \in Int, NEW m \in Int, a = c + b * m
    PROVE  a % b = c % b
<1> DEFINE q == a \div b
<1> DEFINE r == a % b
<1> DEFINE p == c \div b
<1> DEFINE s == c % b
<1>1. r \in 0..b - 1 /\ q \in Int /\ a = b * q + r
  BY RemainderFacts
<1>2. s \in 0..b - 1 /\ p \in Int /\ c = b * p + s
  BY RemainderFacts
<1> HIDE DEF q, r, p, s
<1>3. p + m \in Int /\ b * q + r = b * (p + m) + s
  BY <1>1, <1>2
<1>4. r = s
  BY <1>1, <1>2, <1>3, RemainderUnique, ZenonT(60)
<1> QED
  BY <1>4 DEF r, s

\* An index of the ring is advanced by advancing what it is a remainder of.
LEMMA NextRemainder ==
    ASSUME NEW b \in Nat \ {0}, NEW a \in Int, NEW i \in Int
    PROVE  ((a % b) + i) % b = (a + i) % b
<1> DEFINE q == a \div b
<1> DEFINE r == a % b
<1>1. r \in 0..b - 1 /\ q \in Int /\ a = b * q + r
  BY RemainderFacts
<1> HIDE DEF q, r
<1>2. a + i \in Int /\ r + i \in Int /\ a + i = (r + i) + b * q
  BY <1>1
<1>3. (a + i) % b = (r + i) % b
  BY <1>1, <1>2, SameRemainder
<1> QED
  BY <1>3 DEF r

\* The distance between two indices is that between what they stand for.
LEMMA RemainderDifference ==
    ASSUME NEW b \in Nat \ {0}, NEW a \in Int, NEW c \in Int
    PROVE  ((a % b) - (c % b)) % b = (a - c) % b
<1> DEFINE q == a \div b
<1> DEFINE r == a % b
<1> DEFINE p == c \div b
<1> DEFINE s == c % b
<1>1. r \in 0..b - 1 /\ q \in Int /\ a = b * q + r
  BY RemainderFacts
<1>2. s \in 0..b - 1 /\ p \in Int /\ c = b * p + s
  BY RemainderFacts
<1> HIDE DEF q, r, p, s
<1>3. q - p \in Int /\ a - c \in Int /\ r - s \in Int /\ a - c = (r - s) + b * (q - p)
  BY <1>1, <1>2
<1>4. (a - c) % b = (r - s) % b
  BY <1>3, SameRemainder
<1> QED
  BY <1>4 DEF r, s

\* Fewer than b apart, different numbers have different remainders.
LEMMA DistinctRemainders ==
    ASSUME NEW b \in Nat \ {0}, NEW a \in Int, NEW c \in Int, a < c, c < a + b
    PROVE  a % b # c % b
<1> SUFFICES ASSUME a % b = c % b PROVE FALSE
  OBVIOUS
<1> DEFINE q == a \div b
<1> DEFINE p == c \div b
<1> DEFINE r == a % b
<1>1. q \in Int /\ r \in 0..b - 1 /\ a = b * q + r
  BY RemainderFacts
<1>2. p \in Int /\ c = b * p + r
  BY RemainderFacts
<1> HIDE DEF q, p, r
<1>3. c - a = b * (p - q)
  BY <1>1, <1>2
<1>4. p - q >= 1 => b * (p - q) >= b
  BY <1>1, <1>2
<1>5. p - q <= 0 => b * (p - q) <= 0
  BY <1>1, <1>2
<1> QED
  BY <1>1, <1>2, <1>3, <1>4, <1>5

-----------------------------------------------------------------------------
(***************************************************************************)
(* The keyboard's ring.                                                    *)
(***************************************************************************)
Chars == {"a", "A", "enter", "backspace", "up", "down"}

(***************************************************************************)
(* The indices are the numbers of characters put in and taken out, modulo  *)
(* the size, and the last BufferSize characters typed are in their slots.  *)
(***************************************************************************)
RingInv ==
    /\ ring \in [0..BufferSize - 1 -> Chars \cup {None}]
    /\ typed \in Seq(Chars)
    /\ reads \in Nat /\ reads <= Len(typed)
    /\ buffer_end = Len(typed) % BufferSize
    /\ buffer_start = reads % BufferSize
    /\ \A j \in 1..Len(typed) :
          j > Len(typed) - BufferSize => ring[(j - 1) % BufferSize] = typed[j]

\* Put overwrites the oldest of the last BufferSize characters.
LEMMA PutKeepsRing ==
    ASSUME RingInv, NEW char \in Chars, Put(char), UNCHANGED <<buffer_start, reads>>
    PROVE  RingInv'
<1> DEFINE n == Len(typed)
<1>0. BufferSize \in Nat \ {0}
  BY KeyboardAssumption
<1>1. /\ typed \in Seq(Chars) /\ n \in Nat /\ reads \in Nat /\ reads <= n
      /\ buffer_end = n % BufferSize
  BY LenProperties DEF RingInv
<1>2. /\ typed' \in Seq(Chars) /\ Len(typed') = n + 1 /\ typed'[n + 1] = char
      /\ \A j \in 1..n : typed'[j] = typed[j]
  BY <1>1, AppendProperties DEF Put
<1>3. buffer_end \in 0..BufferSize - 1
  BY <1>0, <1>1, RemainderFacts
<1>4. /\ ring' \in [0..BufferSize - 1 -> Chars \cup {None}]
      /\ ring'[buffer_end] = char
      /\ \A i \in 0..BufferSize - 1 : i # buffer_end => ring'[i] = ring[i]
  BY <1>3 DEF Put, RingInv
<1>5. buffer_end' = (n + 1) % BufferSize
  <2>1. ((n % BufferSize) + 1) % BufferSize = (n + 1) % BufferSize
    <3>1. n \in Int /\ 1 \in Int
      BY <1>1
    <3> QED
      BY <3>1, <1>0, NextRemainder, Zenon
  <2> QED
    BY <2>1, <1>1 DEF Put
<1>6. ASSUME NEW j \in 1..n + 1, j > n + 1 - BufferSize
      PROVE  ring'[(j - 1) % BufferSize] = typed'[j]
  <2>1. CASE j = n + 1
    <3>1. j - 1 = n
      BY <2>1, <1>1
    <3> QED
      BY <2>1, <3>1, <1>1, <1>2, <1>4
  <2>2. CASE j # n + 1
    <3>1. /\ j \in 1..n /\ j > n - BufferSize /\ j - 1 \in Int
          /\ j - 1 < n /\ n < (j - 1) + BufferSize
      BY <2>2, <1>0, <1>1, <1>6
    <3>2. (j - 1) % BufferSize # n % BufferSize /\ (j - 1) % BufferSize \in 0..BufferSize - 1
      <4>1. n \in Int
        BY <1>1
      <4>2. (j - 1) % BufferSize # n % BufferSize
        BY <4>1, <3>1, <1>0, DistinctRemainders, Zenon
      <4>3. (j - 1) % BufferSize \in 0..BufferSize - 1
        BY <3>1, <1>0, RemainderFacts, Zenon
      <4> QED
        BY <4>2, <4>3
    <3>3. ring[(j - 1) % BufferSize] = typed[j]
      BY <3>1 DEF RingInv
    <3> QED
      BY <3>1, <3>2, <3>3, <1>1, <1>2, <1>4
  <2> QED
    BY <2>1, <2>2
<1>7. /\ reads' \in Nat /\ reads' <= Len(typed') /\ buffer_start' = reads' % BufferSize
  BY <1>1, <1>2 DEF RingInv
<1>8. buffer_end' = Len(typed') % BufferSize
  BY <1>2, <1>5
<1>9. \A j \in 1..Len(typed') :
         j > Len(typed') - BufferSize => ring'[(j - 1) % BufferSize] = typed'[j]
  <2> TAKE j \in 1..Len(typed')
  <2> HAVE j > Len(typed') - BufferSize
  <2>0. Len(typed') = n + 1
    BY <1>2
  <2>1. j \in 1..n + 1 /\ j > n + 1 - BufferSize
    BY <2>0, <1>0, <1>1
  <2> QED
    BY <2>1, <1>6
<1> QED
  BY <1>2, <1>4, <1>7, <1>8, <1>9 DEF RingInv

\* A key that yields a character yields one of the characters.
LEMMA AsciiChars ==
    ASSUME NEW code, Ascii(code) # None
    PROVE  Ascii(code) \in Chars
<1>1. CASE extended_mode
  BY <1>1 DEF Ascii, Chars
<1>2. CASE ~extended_mode /\ code = "letter"
  BY <1>2 DEF Ascii, Chars
<1>3. CASE ~extended_mode /\ code \in {"enter", "backspace"}
  BY <1>3 DEF Ascii, Chars
<1>4. CASE ~extended_mode /\ code # "letter" /\ code \notin {"enter", "backspace"}
  BY <1>4 DEF Ascii
<1> QED
  BY <1>1, <1>2, <1>3, <1>4

\* keyboard_getchar finds a character only if one was put in since.
LEMMA GetKeepsRing ==
    ASSUME RingInv, keyboard_getchar
    PROVE  RingInv'
<1> DEFINE n == Len(typed)
<1>0. BufferSize \in Nat \ {0}
  BY KeyboardAssumption
<1>1. /\ typed \in Seq(Chars) /\ n \in Nat /\ reads \in Nat /\ reads <= n
      /\ buffer_end = n % BufferSize /\ buffer_start = reads % BufferSize
  BY LenProperties DEF RingInv
<1>2. reads # n
  BY <1>1 DEF keyboard_getchar, keyboard_available
<1>3. buffer_start' = (reads + 1) % BufferSize
  <2>1. ((reads % BufferSize) + 1) % BufferSize = (reads + 1) % BufferSize
    <3>1. reads \in Int /\ 1 \in Int
      BY <1>1
    <3> QED
      BY <3>1, <1>0, NextRemainder, Zenon
  <2> QED
    BY <2>1, <1>1 DEF keyboard_getchar
<1>4. reads' = reads + 1 /\ UNCHANGED <<ring, typed, buffer_end>>
  BY DEF keyboard_getchar
<1>5. reads' \in Nat /\ reads' <= n
  BY <1>1, <1>2, <1>4
<1> QED
  BY <1>3, <1>4, <1>5 DEF RingInv

\* Every step keeps the keyboard ring's invariant.
LEMMA RingKept == RingInv /\ [Next]_vars => RingInv'
<1> SUFFICES ASSUME RingInv, [Next]_vars PROVE RingInv'
  OBVIOUS
<1>1. ASSUME UNCHANGED <<ring, buffer_start, buffer_end, typed, reads>> PROVE RingInv'
  BY <1>1 DEF RingInv
<1>2. CASE keyboard_handler
  <2>1. UNCHANGED <<buffer_start, reads>>
    BY <1>2 DEF keyboard_handler
  <2>2. CASE Unchanged
    BY <1>1, <2>1, <2>2 DEF Unchanged
  <2>3. ASSUME NEW code, Ascii(code) # None, Put(Ascii(code)) PROVE RingInv'
    BY <2>1, <2>3, AsciiChars, PutKeepsRing
  <2> QED
    BY <1>2, <2>2, <2>3 DEF keyboard_handler
<1>3. ASSUME NEW key \in Keys, Press(key) PROVE RingInv'
  BY <1>1, <1>3 DEF Press
<1>4. CASE shell_run
  BY <1>4, GetKeepsRing DEF shell_run
<1>5. CASE UNCHANGED vars
  BY <1>1, <1>5 DEF vars
<1> QED
  BY <1>2, <1>3, <1>4, <1>5 DEF Next

\* What the invariant says of the characters not read yet.
LEMMA UnreadNewest == RingInv => RingHoldsNewest
<1> SUFFICES ASSUME RingInv PROVE RingHoldsNewest
  OBVIOUS
<1> DEFINE n == Len(typed)
<1> DEFINE unread == (n - reads) % BufferSize
<1>0. BufferSize \in Nat \ {0}
  BY KeyboardAssumption
<1>1. /\ n \in Nat /\ reads \in Nat /\ reads <= n /\ n - reads \in Int
      /\ buffer_end = n % BufferSize /\ buffer_start = reads % BufferSize
  BY LenProperties DEF RingInv
<1>2. (buffer_end - buffer_start) % BufferSize = unread
  <2>1. n \in Int /\ reads \in Int
    BY <1>1
  <2>2. ((n % BufferSize) - (reads % BufferSize)) % BufferSize = (n - reads) % BufferSize
    BY <2>1, <1>0, RemainderDifference, Zenon
  <2> QED
    BY <2>2, <1>1
<1> DEFINE q == (n - reads) \div BufferSize
<1>3. unread \in 0..BufferSize - 1 /\ q \in Int /\ n - reads = BufferSize * q + unread
  BY <1>0, <1>1, RemainderFacts
<1> HIDE DEF unread, q, n
<1>4. unread <= n
  <2>1. q >= 0
    <3>1. q <= -1 => BufferSize * q <= -BufferSize
      BY <1>0, <1>3
    <3> QED
      BY <3>1, <1>0, <1>1, <1>3
  <2>2. BufferSize * q >= 0
    BY <2>1, <1>0, <1>3
  <2> QED
    BY <2>2, <1>0, <1>1, <1>3
<1>5. ASSUME NEW i \in 1..unread
      PROVE  ring[(buffer_start + i - 1) % BufferSize] = typed[n - unread + i]
  <2> DEFINE j == n - unread + i
  <2>1. j \in 1..n /\ j > n - BufferSize
    BY <1>0, <1>1, <1>3, <1>4
  <2>2. ring[(j - 1) % BufferSize] = typed[j]
    BY <2>1 DEF RingInv, n
  <2>3. j - 1 = (reads + (i - 1)) + BufferSize * q
    BY <1>0, <1>1, <1>3
  <2>4. (j - 1) % BufferSize = (reads + (i - 1)) % BufferSize
    <3>1. j - 1 \in Int /\ reads + (i - 1) \in Int
      BY <1>1, <1>3
    <3> HIDE DEF j
    <3> QED
      BY <3>1, <2>3, <1>0, <1>3, SameRemainder
  <2>5. (buffer_start + (i - 1)) % BufferSize = (reads + (i - 1)) % BufferSize
    <3>1. i - 1 \in Int /\ reads \in Int
      BY <1>1, <1>3
    <3>2. ((reads % BufferSize) + (i - 1)) % BufferSize = (reads + (i - 1)) % BufferSize
      BY <3>1, <1>0, NextRemainder, Zenon
    <3> QED
      BY <3>2, <1>1
  <2>6. buffer_start + (i - 1) = buffer_start + i - 1
    <3>1. buffer_start \in Int
      BY <1>0, <1>1, RemainderFacts
    <3> QED
      BY <3>1, <1>3
  <2> QED
    BY <2>2, <2>4, <2>5, <2>6
<1> QED
  BY <1>2, <1>5 DEF RingHoldsNewest, unread, n

(***************************************************************************)
(* The ring of drivers/keyboard.c, which the handler fills without a test  *)
(* for being full, gives keyboard_getchar the newest characters in order,  *)
(* and loses characters only BufferSize at a time.                         *)
(***************************************************************************)
THEOREM ShellRingHoldsNewest == Spec => []RingHoldsNewest
<1>1. Init => RingInv
  <2> SUFFICES ASSUME Init PROVE RingInv
    OBVIOUS
  <2>0. BufferSize \in Nat \ {0}
    BY KeyboardAssumption
  <2>1. /\ ring \in [0..BufferSize - 1 -> Chars \cup {None}] /\ typed = <<>> /\ reads = 0
        /\ buffer_end = 0 /\ buffer_start = 0
    BY DEF Init, KeyboardInit
  <2>2. 0 % BufferSize = 0
    BY <2>0
  <2> QED
    BY <2>0, <2>1, <2>2 DEF RingInv
<1>2. RingInv /\ [Next]_vars => RingInv'
  BY RingKept
<1> QED
  BY <1>1, <1>2, UnreadNewest, PTL DEF Spec


-----------------------------------------------------------------------------
(***************************************************************************)
(* The line and the history.                                               *)
(***************************************************************************)
Lines == {l \in Seq({"a", "A"}) : Len(l) < CmdBufferSize}

(***************************************************************************)
(* The history ends where the lines entered end, and holds as many of them *)
(* as it can.                                                              *)
(***************************************************************************)
HistoryInv ==
    /\ line \in Lines
    /\ entered \in Seq(Lines) /\ history \in Seq(Lines)
    /\ Len(history) = IF Len(entered) < HistorySize THEN Len(entered) ELSE HistorySize
    /\ \A i \in 1..Len(history) : history[i] = entered[Len(entered) - Len(history) + i]
    /\ history_idx \in 0..Len(history)

\* The line may change alone.
LEMMA LineChanges ==
    ASSUME HistoryInv, line' \in Lines, history_idx' \in 0..Len(history), UNCHANGED <<history, entered>>
    PROVE  HistoryInv'
BY DEF HistoryInv

\* The empty line is a line.
LEMMA EmptyLine == <<>> \in Lines
<1>1. CmdBufferSize \in Nat \ {0}
  BY ShellAssumption
<1> QED
  BY <1>1, EmptySeq DEF Lines

\* shell_add_history: appended while there is room, then shifted.
LEMMA EnterKeepsHistory ==
    ASSUME HistoryInv, EnterLine
    PROVE  HistoryInv'
<1>0. /\ line \in Lines /\ entered \in Seq(Lines) /\ history \in Seq(Lines)
      /\ Len(history) = IF Len(entered) < HistorySize THEN Len(entered) ELSE HistorySize
      /\ \A i \in 1..Len(history) : history[i] = entered[Len(entered) - Len(history) + i]
      /\ Len(history) \in Nat /\ Len(entered) \in Nat
  BY LenProperties DEF HistoryInv
<1>1. HistorySize \in Nat \ {0}
  BY ShellAssumption
<1>2. /\ line' = <<>> /\ line' \in Lines /\ history' = shell_add_history(line)
      /\ history_idx' = Len(history')
      /\ entered' = IF line = <<>> THEN entered ELSE Append(entered, line)
  BY EmptyLine DEF EnterLine
<1>3. CASE line = <<>>
  <2>1. history' = history /\ entered' = entered
    BY <1>2, <1>3 DEF shell_add_history
  <2> QED
    BY <2>1, <1>0, <1>2 DEF HistoryInv
<1>4. CASE line # <<>>
  <2>1. /\ entered' \in Seq(Lines) /\ Len(entered') = Len(entered) + 1
        /\ entered'[Len(entered) + 1] = line
        /\ \A i \in 1..Len(entered) : entered'[i] = entered[i]
    BY <1>0, <1>2, <1>4, AppendProperties
  <2>2. CASE Len(history) < HistorySize
    <3>1. history' = Append(history, line)
      BY <1>2, <1>4, <2>2 DEF shell_add_history
    <3>2. /\ history' \in Seq(Lines) /\ Len(history') = Len(history) + 1
          /\ history'[Len(history) + 1] = line
          /\ \A i \in 1..Len(history) : history'[i] = history[i]
      BY <3>1, <1>0, AppendProperties
    <3>3. Len(history) = Len(entered)
      BY <1>0, <1>1, <2>2
    <3>4. \A i \in 1..Len(history) + 1 : history'[i] = entered'[i]
      BY <3>2, <3>3, <2>1, <1>0
    <3>5. Len(history') = Len(entered') /\ Len(entered') <= HistorySize
      BY <3>2, <3>3, <2>1, <2>2, <1>0, <1>1
    <3>6. \A i \in 1..Len(history') : history'[i] = entered'[Len(entered') - Len(history') + i]
      BY <3>2, <3>4, <3>5, <1>0
    <3>7. Len(history') = IF Len(entered') < HistorySize THEN Len(entered') ELSE HistorySize
      BY <3>5, <1>0, <1>1, <2>1
    <3>8. history_idx' \in 0..Len(history')
      BY <1>0, <1>2, <3>2
    <3> QED
      BY <3>2, <3>6, <3>7, <3>8, <2>1, <1>2 DEF HistoryInv
  <2>3. CASE ~(Len(history) < HistorySize)
    <3>0. Len(history) = HistorySize /\ Len(entered) >= HistorySize
      BY <2>3, <1>0, <1>1
    <3> DEFINE t == Tail(history)
    <3>1. history' = Append(t, line)
      BY <1>2, <1>4, <2>3 DEF shell_add_history
    <3>2. /\ t \in Seq(Lines) /\ Len(t) = Len(history) - 1
          /\ \A i \in 1..Len(t) : t[i] = history[i + 1]
      <4>1. history # <<>>
        BY <3>0, <1>1
      <4> QED
        BY <4>1, <1>0, HeadTailProperties
    <3> HIDE DEF t
    <3>3. /\ history' \in Seq(Lines) /\ Len(history') = Len(history)
          /\ history'[Len(history)] = line
          /\ \A i \in 1..Len(history) - 1 : history'[i] = history[i + 1]
      <4>1. /\ history' \in Seq(Lines) /\ Len(history') = Len(t) + 1
            /\ history'[Len(t) + 1] = line
            /\ \A i \in 1..Len(t) : history'[i] = t[i]
        BY <3>1, <3>2, <1>0, AppendProperties
      <4>2. Len(t) + 1 = Len(history)
        BY <3>2, <1>0
      <4> QED
        BY <4>1, <4>2, <3>2, <1>0
    <3>4. ASSUME NEW i \in 1..Len(history)
          PROVE  history'[i] = entered'[Len(entered') - Len(history') + i]
      <4> DEFINE e == Len(entered) + 1 - Len(history) + i
      <4>1. Len(entered') - Len(history') + i = e
        BY <2>1, <3>3
      <4>2. CASE i = Len(history)
        <5>1. e = Len(entered) + 1
          BY <4>2, <1>0
        <5> QED
          BY <4>1, <4>2, <5>1, <2>1, <3>3
      <4>3. CASE i # Len(history)
        <5>1. i \in 1..Len(history) - 1 /\ i + 1 \in 1..Len(history)
          BY <4>3, <1>0
        <5>2. e = Len(entered) - Len(history) + (i + 1) /\ e \in 1..Len(entered)
          BY <5>1, <3>0, <1>0, <1>1
        <5>3. history[i + 1] = entered[Len(entered) - Len(history) + (i + 1)]
          BY <5>1, <1>0
        <5> QED
          BY <4>1, <5>1, <5>2, <5>3, <2>1, <3>3
      <4> QED
        BY <4>2, <4>3
    <3>5. Len(history') = IF Len(entered') < HistorySize THEN Len(entered') ELSE HistorySize
      BY <3>0, <3>3, <2>1, <1>0, <1>1
    <3>6. history_idx' \in 0..Len(history')
      BY <1>0, <1>2, <3>3
    <3>7. \A i \in 1..Len(history') : history'[i] = entered'[Len(entered') - Len(history') + i]
      BY <3>3, <3>4
    <3> QED
      BY <3>3, <3>5, <3>6, <3>7, <2>1, <1>2 DEF HistoryInv
  <2> QED
    BY <2>2, <2>3
<1> QED
  BY <1>3, <1>4

\* An arrow key puts a line of the history, or none, on the command line.
LEMMA ShowKeepsHistory ==
    ASSUME HistoryInv, NEW idx \in 0..Len(history), Show(idx)
    PROVE  HistoryInv'
<1>1. CASE idx = Len(history)
  <2>1. line' = <<>>
    BY <1>1 DEF Show
  <2> QED
    BY <2>1, EmptyLine, LineChanges DEF Show
<1>2. CASE idx # Len(history)
  <2>1. history \in Seq(Lines) /\ idx + 1 \in 1..Len(history)
    BY <1>2, LenProperties DEF HistoryInv
  <2>2. line' = history[idx + 1]
    BY <1>2 DEF Show
  <2>3. line' \in Lines
    BY <2>1, <2>2, ElementOfSeq
  <2> QED
    BY <2>3, LineChanges DEF Show
<1> QED
  BY <1>1, <1>2

\* Every step keeps the history's invariant.
LEMMA HistoryIsKept == HistoryInv /\ [Next]_vars => HistoryInv'
<1> SUFFICES ASSUME HistoryInv, [Next]_vars PROVE HistoryInv'
  OBVIOUS
<1>0. /\ line \in Lines /\ history \in Seq(Lines) /\ Len(history) \in Nat
      /\ history_idx \in 0..Len(history)
  BY LenProperties DEF HistoryInv
<1>1. ASSUME UNCHANGED shellVars PROVE HistoryInv'
  BY <1>1 DEF shellVars, HistoryInv
<1>2. CASE EraseChar
  <2>1. CASE line = <<>>
    <3>1. line' = line /\ UNCHANGED <<history, history_idx, entered>>
      BY <1>2, <2>1 DEF EraseChar
    <3> QED
      BY <3>1, <1>0, LineChanges
  <2>2. CASE line # <<>>
    <3>1. line' = SubSeq(line, 1, Len(line) - 1) /\ UNCHANGED <<history, history_idx, entered>>
      BY <1>2, <2>2 DEF EraseChar, Front
    <3>2. line \in Seq({"a", "A"}) /\ Len(line) \in Nat /\ Len(line) < CmdBufferSize /\ Len(line) # 0
      BY <1>0, <2>2, EmptySeq, LenProperties DEF Lines
    <3>3. \A i \in 1..Len(line) - 1 : line[i] \in {"a", "A"}
      BY <3>2, ElementOfSeq
    <3>4. /\ line' \in Seq({"a", "A"})
          /\ Len(line') = IF 1 <= Len(line) - 1 THEN (Len(line) - 1) - 1 + 1 ELSE 0
      BY <3>1, <3>2, <3>3, SubSeqProperties
    <3>5. line' \in Lines
      BY <3>2, <3>4, ShellAssumption DEF Lines
    <3> QED
      BY <3>1, <3>5, <1>0, LineChanges
  <2> QED
    BY <2>1, <2>2
<1>3. CASE Older
  <2>1. ASSUME history_idx > 0, Show(history_idx - 1) PROVE HistoryInv'
    BY <2>1, <1>0, ShowKeepsHistory
  <2> QED
    BY <1>3, <1>1, <2>1 DEF Older
<1>4. CASE Newer
  <2>1. ASSUME history_idx < Len(history), Show(history_idx + 1) PROVE HistoryInv'
    BY <2>1, <1>0, ShowKeepsHistory
  <2> QED
    BY <1>4, <1>1, <2>1 DEF Newer
<1>5. CASE InsertChar
  <2>1. ASSUME Room, line' = Append(line, NextChar), UNCHANGED <<history, history_idx, entered>>
        PROVE  HistoryInv'
    <3>1. NextChar \in {"a", "A"}
      BY <1>5 DEF InsertChar
    <3>2. /\ line \in Seq({"a", "A"}) /\ Len(line) \in Nat /\ Len(line) < CmdBufferSize - 1
          /\ CmdBufferSize \in Nat
      BY <2>1, <1>0, LenProperties, ShellAssumption DEF Room, Lines
    <3>3. line' \in Seq({"a", "A"}) /\ Len(line') = Len(line) + 1
      BY <2>1, <3>1, <3>2, AppendProperties
    <3>4. line' \in Lines
      BY <3>2, <3>3 DEF Lines
    <3> QED
      BY <2>1, <3>4, <1>0, LineChanges
  <2> QED
    BY <1>5, <1>1, <2>1 DEF InsertChar
<1>6. CASE UNCHANGED vars
  BY <1>1, <1>6 DEF vars, shellVars
<1> QED
  BY <1>1, <1>2, <1>3, <1>4, <1>5, <1>6, EnterKeepsHistory DEF Next, shell_run

\* The history's invariant holds of every state.
LEMMA HistoryInvariant == Spec => []HistoryInv
<1>1. Init => HistoryInv
  <2> SUFFICES ASSUME Init PROVE HistoryInv
    OBVIOUS
  <2>1. HistorySize \in Nat \ {0}
    BY ShellAssumption
  <2> QED
    BY <2>1, EmptyLine, EmptySeq DEF Init, HistoryInv
<1>2. HistoryInv /\ [Next]_vars => HistoryInv'
  BY HistoryIsKept
<1> QED
  BY <1>1, <1>2, PTL DEF Spec

\* The invariant says what the history property says.
LEMMA LastLines == HistoryInv => HistoryKept
<1> SUFFICES ASSUME HistoryInv PROVE HistoryKept
  OBVIOUS
<1> DEFINE n == Len(entered)
<1> DEFINE from == Max({1, n - HistorySize + 1})
<1> DEFINE last == SubSeq(entered, from, n)
<1>0. /\ entered \in Seq(Lines) /\ history \in Seq(Lines) /\ n \in Nat /\ Len(history) \in Nat
      /\ Len(history) = IF n < HistorySize THEN n ELSE HistorySize
      /\ \A i \in 1..Len(history) : history[i] = entered[n - Len(history) + i]
      /\ HistorySize \in Nat \ {0}
  BY LenProperties, ShellAssumption DEF HistoryInv
<1>1. from = n - Len(history) + 1
  <2> DEFINE m == n - Len(history) + 1
  <2> DEFINE S == {1, n - HistorySize + 1}
  <2>1. m \in S /\ \A y \in S : m >= y
    <3>1. CASE n < HistorySize
      <4>1. m = 1 /\ n - HistorySize + 1 \in Int /\ n - HistorySize + 1 <= 1
        BY <3>1, <1>0
      <4> HIDE DEF m
      <4> QED
        BY <4>1
    <3>2. CASE ~(n < HistorySize)
      <4>1. m = n - HistorySize + 1 /\ m >= 1
        BY <3>2, <1>0
      <4> QED
        BY <4>1
    <3> QED
      BY <3>1, <3>2
  <2>2. \A x \in S : (\A y \in S : x >= y) => x = m
    BY <2>1, <1>0
  <2> QED
    BY <2>1, <2>2 DEF Max
<1> HIDE DEF from
<1>2. from \in 1..n + 1
  BY <1>0, <1>1
<1>3. \A i \in from..n : entered[i] \in Lines
  BY <1>0, <1>2, ElementOfSeq
<1>4. /\ last \in Seq(Lines)
      /\ Len(last) = IF from <= n THEN n - from + 1 ELSE 0
      /\ \A i \in 1..n - from + 1 : last[i] = entered[from + i - 1]
  BY <1>0, <1>2, <1>3, SubSeqProperties
<1> HIDE DEF last
<1>5. Len(last) = Len(history) /\ \A i \in 1..Len(history) : last[i] = history[i]
  <2>1. n - from + 1 = Len(history)
    BY <1>0, <1>1
  <2>2. Len(last) = Len(history)
    BY <2>1, <1>0, <1>2, <1>4
  <2>3. ASSUME NEW i \in 1..Len(history) PROVE last[i] = history[i]
    <3>0. i \in 1..n - from + 1
      BY <2>1
    <3>1. from + i - 1 = n - Len(history) + i
      BY <1>0, <1>1
    <3>2. last[i] = entered[from + i - 1]
      BY <3>0, <1>4
    <3> QED
      BY <3>1, <3>2, <1>0
  <2> QED
    BY <2>2, <2>3
<1>6. history = last
  BY <1>0, <1>4, <1>5, SeqEqual
<1> QED
  BY <1>6 DEF HistoryKept, HistoryInv, Lines, last, from

(***************************************************************************)
(* The history of shell.c is the last HISTORY_SIZE lines entered, no line  *)
(* outgrows cmd_buffer, by typing or by strcpy from the history, and       *)
(* history_idx never leaves the history.                                   *)
(***************************************************************************)
THEOREM ShellHistoryKept == Spec => []HistoryKept
BY HistoryInvariant, LastLines, PTL


-----------------------------------------------------------------------------
(***************************************************************************)
(* Induction, for sets of numbers.                                         *)
(***************************************************************************)
Smaller == {p \in Nat \X Nat : p[1] < p[2]}

LEMMA SmallestExists ==
    ASSUME NEW S, S \subseteq Nat, S # {}
    PROVE  \E n \in S : \A m \in S : n <= m
<1>1. IsWellFoundedOn(Smaller, Nat)
  BY NatLessThanWellFounded DEF OpToRel, Smaller
<1>2. PICK n \in S : \A m \in S : ~(<<m, n>> \in Smaller)
  BY <1>1, WFMin
<1>3. ASSUME NEW m \in S PROVE n <= m
  <2>1. n \in Nat /\ m \in Nat /\ <<m, n>> \in Nat \X Nat
    OBVIOUS
  <2>2. ~(<<m, n>>[1] < <<m, n>>[2])
    BY <2>1, <1>2 DEF Smaller
  <2> QED
    BY <2>1, <2>2
<1> QED
  BY <1>3

LEMMA SetInduction ==
    ASSUME NEW S, 0 \in S, \A n \in Nat : n \in S => n + 1 \in S
    PROVE  \A n \in Nat : n \in S
<1> SUFFICES ASSUME Nat \ S # {} PROVE FALSE
  OBVIOUS
<1>1. PICK n \in Nat \ S : \A m \in Nat \ S : n <= m
  BY SmallestExists
<1>2. n # 0 /\ n - 1 \in Nat
  BY <1>1
<1>3. n - 1 \in S
  BY <1>1, <1>2
<1> QED
  BY <1>1, <1>2, <1>3

-----------------------------------------------------------------------------
(***************************************************************************)
(* The screen.  The cursor's place as a number, and what the last n        *)
(* characters before it are.                                               *)
(***************************************************************************)
Cursor(s) == s.row * VgaWidth + s.column

Good(s) ==
    /\ s = [cell |-> s.cell, row |-> s.row, column |-> s.column]
    /\ s.cell = [i \in 0..VgaWidth * VgaHeight - 1 |-> s.cell[i]]
    /\ s.row \in 0..VgaHeight - 1 /\ s.column \in 0..VgaWidth - 1

\* The characters of text from place from to place to are those before the cursor.
Behind(s, text, from, to) ==
    /\ to - from + 1 <= Cursor(s)
    /\ \A i \in from..to : s.cell[Cursor(s) - (to - i) - 1] = text[i]

\* The command buffer fits the rows that scrolling leaves, so there are two rows.
LEMMA ScreenHasRows == VgaWidth \in Nat \ {0} /\ VgaHeight \in Nat \ {0}
<1>1. VgaWidth \in Nat \ {0} /\ VgaHeight \in Nat /\ CmdBufferSize >= 1
      /\ CmdBufferSize \in Nat /\ CmdBufferSize <= VgaWidth * (VgaHeight - 1)
  BY ShellAssumption
<1>2. VgaHeight = 0 => VgaWidth * (VgaHeight - 1) = -VgaWidth
  BY <1>1
<1> QED
  BY <1>1, <1>2

\* Rows, columns and places.
LEMMA Places ==
    ASSUME NEW row \in 0..VgaHeight - 1, NEW column \in 0..VgaWidth - 1
    PROVE  /\ row * VgaWidth + column \in 0..VgaWidth * VgaHeight - 1
           /\ row * VgaWidth + VgaWidth = (row + 1) * VgaWidth
           /\ row + 1 < VgaHeight =>
                 (row + 1) * VgaWidth \in 0..VgaWidth * VgaHeight - 1
           /\ (VgaHeight - 1) * VgaWidth = VgaWidth * VgaHeight - VgaWidth
           /\ VgaWidth * (VgaHeight - 1) = VgaWidth * VgaHeight - VgaWidth
           /\ row + 1 = VgaHeight => (row + 1) * VgaWidth = VgaWidth * VgaHeight
           /\ row * VgaWidth \in Nat
           /\ VgaWidth * VgaHeight \in Nat /\ VgaWidth \in Nat \ {0} /\ VgaHeight \in Nat \ {0}
<1>1. VgaWidth \in Nat \ {0} /\ VgaHeight \in Nat \ {0} /\ row \in Nat /\ column \in Nat
  BY ShellAssumption
<1>2. (VgaHeight - 1) * VgaWidth = VgaWidth * VgaHeight - VgaWidth
      /\ VgaWidth * (VgaHeight - 1) = VgaWidth * VgaHeight - VgaWidth
      /\ VgaWidth * VgaHeight \in Nat
  BY <1>1
<1>3. row * VgaWidth + VgaWidth = (row + 1) * VgaWidth /\ row * VgaWidth \in Nat
  BY <1>1
<1>4. ((VgaHeight - 1) - row) * VgaWidth \in Nat
  BY <1>1
<1>5. ((VgaHeight - 1) - row) * VgaWidth = (VgaHeight - 1) * VgaWidth - row * VgaWidth
  BY <1>1
<1>6. row + 1 < VgaHeight => /\ ((VgaHeight - 1) - (row + 1)) * VgaWidth \in Nat
                             /\ ((VgaHeight - 1) - (row + 1)) * VgaWidth
                                  = (VgaHeight - 1) * VgaWidth - (row + 1) * VgaWidth
  BY <1>1
<1>7. row + 1 = VgaHeight => (row + 1) * VgaWidth = VgaWidth * VgaHeight
  BY <1>1
<1> DEFINE a == row * VgaWidth
           b == VgaWidth * VgaHeight
           c == (VgaHeight - 1) * VgaWidth
           d == (row + 1) * VgaWidth
<1>8. /\ a + column \in 0..b - 1
      /\ row + 1 < VgaHeight => d \in 0..b - 1
  <2>1. a \in Nat /\ b \in Nat /\ c = b - VgaWidth /\ a + VgaWidth = d /\ c - a \in Nat
        /\ (row + 1 < VgaHeight => c - d \in Nat)
    BY <1>2, <1>3, <1>4, <1>5, <1>6
  <2> HIDE DEF a, b, c, d
  <2> QED
    BY <2>1, <1>1
<1> QED
  BY <1>1, <1>2, <1>3, <1>7, <1>8

\* A screen whose cursor may be in front of the row below the last one.
Loose(w) ==
    /\ w = [cell |-> w.cell, row |-> w.row, column |-> w.column]
    /\ w.cell = [i \in 0..VgaWidth * VgaHeight - 1 |-> w.cell[i]]
    /\ w.row \in 0..VgaHeight /\ w.column \in 0..VgaWidth - 1
    /\ w.row = VgaHeight => w.column = 0

Settled(w) == IF w.row >= VgaHeight THEN vga_scroll(w) ELSE w

\* The fields of a screen.
LEMMA FieldsOf ==
    ASSUME NEW w, NEW cell, NEW row, NEW column, w = [cell |-> cell, row |-> row, column |-> column]
    PROVE  w.cell = cell /\ w.row = row /\ w.column = column
OBVIOUS

\* Scrolling brings the cursor back and takes the text along.
LEMMA ScrollSettles ==
    ASSUME NEW w, Loose(w)
    PROVE  /\ Good(Settled(w))
           /\ \A text : \A from, to \in Int :
                 (Behind(w, text, from, to) /\ to - from + 1 <= VgaWidth * VgaHeight - VgaWidth)
                    => Behind(Settled(w), text, from, to)
<1> DEFINE N == VgaWidth * VgaHeight
<1>1. VgaWidth \in Nat \ {0} /\ VgaHeight \in Nat \ {0} /\ N \in Nat
      /\ (VgaHeight - 1) * VgaWidth = N - VgaWidth /\ VgaHeight * VgaWidth = N
  <2>1. VgaWidth \in Nat \ {0} /\ VgaHeight \in Nat \ {0}
    BY ShellAssumption
  <2>2. VgaHeight - 1 \in 0..VgaHeight - 1 /\ 0 \in 0..VgaWidth - 1 /\ (VgaHeight - 1) + 1 = VgaHeight
    BY <2>1
  <2> QED
    BY <2>1, <2>2, Places
<1>2. CASE w.row < VgaHeight
  <2>1. Settled(w) = w
    BY <1>1, <1>2 DEF Settled, Loose
  <2>2. w.row \in 0..VgaHeight - 1
    BY <1>1, <1>2 DEF Loose
  <2>3. Good(w)
    BY <2>2 DEF Good, Loose
  <2> QED
    BY <2>1, <2>3
<1>3. CASE ~(w.row < VgaHeight)
  <2>1. w.row = VgaHeight /\ w.column = 0
    BY <1>1, <1>3 DEF Loose
  <2> DEFINE cells == [i \in 0..N - 1 |-> IF i + VgaWidth \in 0..N - 1 THEN w.cell[i + VgaWidth] ELSE " "]
             r == Settled(w)
  <2>2. DOMAIN w.cell = 0..N - 1
    BY DEF Loose
  <2>3. r = [cell |-> cells, row |-> VgaHeight - 1, column |-> 0]
    <3>1. r = vga_scroll(w)
      BY <2>1, <1>1 DEF Settled
    <3>2. w = [cell |-> w.cell, row |-> VgaHeight, column |-> 0]
      BY <2>1 DEF Loose
    <3>3. vga_scroll(w) = [w EXCEPT !.cell = cells, !.row = VgaHeight - 1]
      BY <2>2 DEF vga_scroll, Blank
    <3> HIDE DEF cells, r
    <3>4. [w EXCEPT !.cell = cells, !.row = VgaHeight - 1]
            = [cell |-> cells, row |-> VgaHeight - 1, column |-> 0]
      <4> DEFINE v == [w EXCEPT !.cell = cells]
      <4>1. v = [cell |-> cells, row |-> VgaHeight, column |-> 0]
        BY <3>2
      <4> HIDE DEF v
      <4>2. [v EXCEPT !.row = VgaHeight - 1] = [cell |-> cells, row |-> VgaHeight - 1, column |-> 0]
        BY <4>1
      <4> QED
        BY <4>2 DEF v
    <3> QED
      BY <3>1, <3>3, <3>4
  <2>a. r.row = VgaHeight - 1 /\ r.column = 0 /\ r.cell = cells
    <3> HIDE DEF cells, r
    <3> QED
      BY <2>3, FieldsOf
  <2>4. cells = [i \in 0..N - 1 |-> cells[i]]
    OBVIOUS
  <2>5. Good(r)
    <3> HIDE DEF cells, r
    <3> QED
      BY <1>1, <2>3, <2>4 DEF Good
  <2>6. Cursor(r) = N - VgaWidth /\ Cursor(w) = N
    <3> HIDE DEF cells, r, N
    <3>2. (VgaHeight - 1) * VgaWidth + 0 = N - VgaWidth /\ VgaHeight * VgaWidth + 0 = N
      BY <1>1
    <3> QED
      BY <2>a, <3>2, <2>1 DEF Cursor
  <2>7. ASSUME NEW text, NEW from \in Int, NEW to \in Int,
               Behind(w, text, from, to), to - from + 1 <= N - VgaWidth
        PROVE  Behind(r, text, from, to)
    <3>1. ASSUME NEW i \in from..to
          PROVE  r.cell[(N - VgaWidth) - (to - i) - 1] = text[i]
      <4> DEFINE p == (N - VgaWidth) - (to - i) - 1
      <4>0. N \in Nat /\ VgaWidth \in Nat \ {0} /\ from \in Int /\ to \in Int /\ to - from + 1 <= N - VgaWidth
        BY <1>1, <2>7
      <4>1. p \in 0..N - 1 /\ p + VgaWidth \in 0..N - 1 /\ p + VgaWidth = N - (to - i) - 1
        <5> HIDE DEF N
        <5> QED
          BY <4>0, <3>1
      <4>2. w.cell[N - (to - i) - 1] = text[i]
        BY <2>6, <2>7, <3>1 DEF Behind
      <4>3. r.cell = cells
        <5> HIDE DEF cells, r
        <5> QED
          BY <2>a
      <4> HIDE DEF p, N, r
      <4>4. cells[p] = w.cell[p + VgaWidth]
        BY <4>1
      <4> QED
        BY <4>1, <4>2, <4>3, <4>4 DEF p
    <3> HIDE DEF r, N
    <3> QED
      BY <3>1, <2>6, <2>7 DEF Behind
  <2> QED
    BY <2>5, <2>7
<1> QED
  BY <1>2, <1>3, <1>1 DEF Loose


\* A character that is none of the three controls goes into the cursor's cell.
LEMMA LetterWritten ==
    ASSUME NEW s, Good(s), NEW c, c \notin {"newline", "return", "backspace"}
    PROVE  /\ Loose(Wrap(Write(s, c)))
           /\ Cursor(Wrap(Write(s, c))) = Cursor(s) + 1
           /\ Wrap(Write(s, c)).cell = [s.cell EXCEPT ![Cursor(s)] = c]
<1> DEFINE N == VgaWidth * VgaHeight
           cell == s.cell
           row == s.row
           column == s.column
           cells == [cell EXCEPT ![row * VgaWidth + column] = c]
           v == Write(s, c)
           w == Wrap(v)
<1>1. row \in 0..VgaHeight - 1 /\ column \in 0..VgaWidth - 1 /\ s = [cell |-> cell, row |-> row, column |-> column]
      /\ cell = [i \in 0..N - 1 |-> cell[i]]
  BY DEF Good
<1>2. VgaWidth \in Nat \ {0} /\ VgaHeight \in Nat \ {0} /\ row * VgaWidth \in Nat
      /\ row * VgaWidth + VgaWidth = (row + 1) * VgaWidth
  BY <1>1, Places
<1>3. v = [cell |-> cells, row |-> row, column |-> column + 1]
  <2>1. v = vga_putchar_at([s EXCEPT !.column = column + 1], c, column, row)
    BY DEF Write
  <2>2. [s EXCEPT !.column = column + 1] = [cell |-> cell, row |-> row, column |-> column + 1]
    <3>1. s = [cell |-> cell, row |-> row, column |-> column]
      BY DEF Good
    <3> HIDE DEF cell, row, column
    <3> QED
      BY ONLY <3>1
  <2> HIDE DEF v, cell, row, column
  <2> QED
    BY <2>1, <2>2 DEF vga_putchar_at
<1>4. cells = [i \in 0..N - 1 |-> cells[i]]
  <2> HIDE DEF cell, row, column
  <2> QED
    BY <1>1
<1> HIDE DEF v, cells, cell, row, column, N
<1>5. CASE column + 1 < VgaWidth
  <2>1. w = v
    BY <1>1, <1>2, <1>3, <1>5 DEF Wrap
  <2>2. w = [cell |-> cells, row |-> row, column |-> column + 1]
    BY <2>1, <1>3
  <2> HIDE DEF w
  <2>3. w.cell = cells /\ w.row = row /\ w.column = column + 1
    BY <2>2, FieldsOf
  <2>4. Loose(w)
    BY <2>2, <2>3, <1>1, <1>2, <1>4, <1>5, SMTT(30) DEF Loose, N
  <2>5. Cursor(w) = row * VgaWidth + column + 1
    BY <2>3, <1>1, <1>2 DEF Cursor
  <2> QED
    BY <2>3, <2>4, <2>5 DEF w, v, cells, cell, row, column, Cursor
<1>6. CASE ~(column + 1 < VgaWidth)
  <2>1. column + 1 = VgaWidth
    BY <1>1, <1>2, <1>6, SMTT(30)
  <2>2. w = [cell |-> cells, row |-> row + 1, column |-> 0]
    <3>1. w = [v EXCEPT !.column = 0, !.row = @ + 1]
      BY <1>1, <1>2, <1>3, <2>1 DEF Wrap
    <3> DEFINE u == [v EXCEPT !.column = 0]
    <3>2. u = [cell |-> cells, row |-> row, column |-> 0]
      BY <1>3
    <3>3. w = [u EXCEPT !.row = @ + 1]
      BY <3>1
    <3> HIDE DEF u, w
    <3> QED
      BY <3>2, <3>3
  <2> HIDE DEF w
  <2>3. w.cell = cells /\ w.row = row + 1 /\ w.column = 0
    BY <2>2, FieldsOf
  <2>4. Loose(w)
    BY <2>2, <2>3, <1>1, <1>2, <1>4, SMTT(30) DEF Loose, N
  <2>5. Cursor(w) = row * VgaWidth + column + 1
    BY <2>1, <2>3, <1>1, <1>2 DEF Cursor
  <2> QED
    BY <2>3, <2>4, <2>5 DEF w, v, cells, cell, row, column, Cursor
<1> QED
  BY <1>5, <1>6 DEF w, v


\* A backspace behind column 0 blanks the cell before the cursor and goes there.
LEMMA BackspaceWritten ==
    ASSUME NEW s, Good(s), s.column # 0
    PROVE  /\ Good(vga_putchar(s, "backspace"))
           /\ Cursor(vga_putchar(s, "backspace")) = Cursor(s) - 1
           /\ vga_putchar(s, "backspace").cell = [s.cell EXCEPT ![Cursor(s) - 1] = " "]
<1> DEFINE N == VgaWidth * VgaHeight
           cell == s.cell
           row == s.row
           column == s.column
           cells == [cell EXCEPT ![row * VgaWidth + (column - 1)] = " "]
           v == Write(s, "backspace")
<1>0. s = [cell |-> cell, row |-> row, column |-> column]
  BY DEF Good
<1>1. row \in 0..VgaHeight - 1 /\ column \in 0..VgaWidth - 1 /\ column # 0
      /\ cell = [i \in 0..N - 1 |-> cell[i]]
  BY DEF Good
<1>2. VgaWidth \in Nat \ {0} /\ VgaHeight \in Nat \ {0} /\ row * VgaWidth \in Nat
  BY <1>1, Places
<1>3. v = [cell |-> cells, row |-> row, column |-> column - 1]
  <2>1. v = vga_putchar_at([s EXCEPT !.column = column - 1], " ", column - 1, row)
    <3>1. column > 0
      BY <1>1, <1>2
    <3> QED
      BY <3>1 DEF Write, Blank
  <2>2. [s EXCEPT !.column = column - 1] = [cell |-> cell, row |-> row, column |-> column - 1]
    <3> HIDE DEF cell, row, column
    <3> QED
      BY ONLY <1>0
  <2> HIDE DEF v, cell, row, column
  <2> QED
    BY <2>1, <2>2 DEF vga_putchar_at
<1>4. cells = [i \in 0..N - 1 |-> cells[i]]
  <2> HIDE DEF cell, row, column
  <2> QED
    BY <1>1
<1> HIDE DEF v, cells, cell, row, column, N
<1>5. v.cell = cells /\ v.row = row /\ v.column = column - 1
  BY <1>3, FieldsOf
<1>6. vga_putchar(s, "backspace") = v
  <2>1. Wrap(v) = v
    BY <1>1, <1>2, <1>5 DEF Wrap
  <2>2. ~(v.row >= VgaHeight)
    BY <1>1, <1>2, <1>5
  <2> QED
    BY <2>1, <2>2 DEF vga_putchar, v
<1>7. Good(v)
  <2>1. column - 1 \in 0..VgaWidth - 1
    BY <1>1, <1>2
  <2> QED
    BY <2>1, <1>1, <1>3, <1>4, <1>5 DEF Good, N
<1>8. Cursor(v) = Cursor(s) - 1 /\ row * VgaWidth + (column - 1) = Cursor(s) - 1
  <2> DEFINE above == row * VgaWidth
  <2>1. Cursor(v) = above + (column - 1)
    BY <1>5 DEF Cursor
  <2>2. Cursor(s) = above + column
    BY DEF Cursor, row, column
  <2>3. above \in Nat /\ column \in Int
    BY <1>1, <1>2
  <2> HIDE DEF above
  <2>4. above + (column - 1) = (above + column) - 1
    BY <2>3
  <2> QED
    BY <2>1, <2>2, <2>4 DEF above
<1> QED
  BY <1>5, <1>6, <1>7, <1>8 DEF cells, cell

\* Whatever is put, the screen stays one.
LEMMA PutStaysGood ==
    ASSUME NEW s, Good(s), NEW c
    PROVE  Good(vga_putchar(s, c))
<1> DEFINE cell == s.cell
           row == s.row
           column == s.column
           v == Write(s, c)
<1>0. s = [cell |-> cell, row |-> row, column |-> column]
  BY DEF Good
<1>1. row \in 0..VgaHeight - 1 /\ column \in 0..VgaWidth - 1
      /\ cell = [i \in 0..VgaWidth * VgaHeight - 1 |-> cell[i]]
  BY DEF Good
<1>2. VgaWidth \in Nat \ {0} /\ VgaHeight \in Nat \ {0}
  BY ShellAssumption
<1>3. ASSUME Loose(Wrap(v)) PROVE Good(vga_putchar(s, c))
  BY <1>3, ScrollSettles DEF vga_putchar, Settled
<1>4. ASSUME NEW r \in 0..VgaHeight, NEW k \in 0..VgaWidth - 1, r = VgaHeight => k = 0,
             v = [cell |-> cell, row |-> r, column |-> k]
      PROVE  Loose(Wrap(v))
  <2> HIDE DEF v, cell
  <2>1. v.cell = cell /\ v.row = r /\ v.column = k
    BY <1>4, FieldsOf
  <2>2. Wrap(v) = v
    BY <2>1, <1>2, <1>4 DEF Wrap
  <2> QED
    BY <1>1, <1>4, <2>1, <2>2 DEF Loose
<1>5. CASE c = "newline"
  <2> DEFINE u == [s EXCEPT !.column = 0]
  <2>1. v = [u EXCEPT !.row = @ + 1]
    BY <1>5 DEF Write
  <2>2. u = [cell |-> cell, row |-> row, column |-> 0]
    <3> HIDE DEF cell, row, column
    <3> QED
      BY ONLY <1>0
  <2> HIDE DEF u, v, cell, row, column
  <2>3. v = [cell |-> cell, row |-> row + 1, column |-> 0]
    BY <2>1, <2>2
  <2>4. row + 1 \in 0..VgaHeight /\ 0 \in 0..VgaWidth - 1
    BY <1>1, <1>2
  <2> QED
    BY <2>3, <2>4, <1>3, <1>4
<1>6. CASE c = "return"
  <2>1. v = [s EXCEPT !.column = 0]
    BY <1>6 DEF Write
  <2> HIDE DEF v, cell, row, column
  <2>2. v = [cell |-> cell, row |-> row, column |-> 0]
    BY <2>1, <1>0
  <2>3. row \in 0..VgaHeight /\ 0 \in 0..VgaWidth - 1
    BY <1>1, <1>2
  <2> QED
    BY <2>2, <2>3, <1>3, <1>4
<1>7. CASE c = "backspace" /\ s.column # 0
  BY <1>7, BackspaceWritten
<1>8. CASE c = "backspace" /\ s.column = 0
  <2>1. v = [cell |-> cell, row |-> row, column |-> column]
    BY <1>0, <1>8 DEF Write
  <2>2. row \in 0..VgaHeight /\ (row = VgaHeight => column = 0)
    BY <1>1, <1>2
  <2> HIDE DEF v, cell, row, column
  <2> QED
    BY <2>1, <2>2, <1>1, <1>3, <1>4
<1>9. CASE c \notin {"newline", "return", "backspace"}
  BY <1>9, <1>3, LetterWritten
<1> QED
  BY <1>5, <1>6, <1>7, <1>8, <1>9

\* A letter put behind a text makes it one longer, if scrolling leaves room.
LEMMA LetterPut ==
    ASSUME NEW s, Good(s), NEW c \in {"a", "A"}, NEW text, NEW from \in Int, NEW to \in Int,
           from <= to, text[to] = c, Behind(s, text, from, to - 1),
           to - from + 1 <= VgaWidth * VgaHeight - VgaWidth
    PROVE  Behind(vga_putchar(s, c), text, from, to)
<1> DEFINE w == Wrap(Write(s, c))
<1>1. Loose(w) /\ Cursor(w) = Cursor(s) + 1 /\ w.cell = [s.cell EXCEPT ![Cursor(s)] = c]
  BY LetterWritten
<1>2. Cursor(s) \in 0..VgaWidth * VgaHeight - 1 /\ DOMAIN s.cell = 0..VgaWidth * VgaHeight - 1
  BY Places DEF Good, Cursor
<1> HIDE DEF w
<1>3. Behind(w, text, from, to)
  <2>1. to - from + 1 <= Cursor(w)
    BY <1>1, <1>2 DEF Behind
  <2>2. ASSUME NEW i \in from..to PROVE w.cell[Cursor(w) - (to - i) - 1] = text[i]
    <3>1. CASE i = to
      <4>1. Cursor(w) - (to - i) - 1 = Cursor(s)
        BY <1>1, <1>2, <3>1
      <4> QED
        BY <4>1, <3>1, <1>1, <1>2
    <3>2. CASE i # to
      <4>1. i \in from..to - 1
        BY <3>2
      <4>2. Cursor(w) - (to - i) - 1 = Cursor(s) - ((to - 1) - i) - 1
        BY <1>1, <1>2
      <4>3. s.cell[Cursor(s) - ((to - 1) - i) - 1] = text[i]
        BY <4>1 DEF Behind
      <4>4. Cursor(s) - ((to - 1) - i) - 1 \in 0..VgaWidth * VgaHeight - 1
            /\ Cursor(s) - ((to - 1) - i) - 1 # Cursor(s)
        <5> DEFINE p == Cursor(s)
                   N == VgaWidth * VgaHeight
        <5>1. (to - 1) - from + 1 <= p /\ p \in 0..N - 1
          BY <1>2 DEF Behind
        <5>2. N \in Nat
          BY ShellAssumption
        <5> HIDE DEF p, N
        <5>3. p - ((to - 1) - i) - 1 \in 0..N - 1 /\ p - ((to - 1) - i) - 1 # p
          BY <4>1, <5>1, <5>2
        <5> QED
          BY <5>3 DEF p, N
      <4> QED
        BY <4>2, <4>3, <4>4, <1>1, <1>2
    <3> QED
      BY <3>1, <3>2
  <2> QED
    BY <2>1, <2>2 DEF Behind
<1>4. vga_putchar(s, c) = Settled(w)
  BY DEF vga_putchar, Settled, w
<1> QED
  BY <1>1, <1>3, <1>4, ScrollSettles


(***************************************************************************)
(* vga_print.  Its recursive function exists by induction over the         *)
(* characters; the screens in between are screens, and the letters that    *)
(* end a text are behind the cursor when it has been printed.              *)
(***************************************************************************)
Printed(after, s, text, k) ==
    after = [n \in 0..k |-> IF n = 0 THEN s ELSE vga_putchar(after[n - 1], text[n])]

LEMMA PrintExists ==
    ASSUME NEW s, NEW text, Len(text) \in Nat
    PROVE  \E after : Printed(after, s, text, Len(text)) /\ vga_print(s, text) = after[Len(text)]
<1> DEFINE S == {k \in Nat : \E after : Printed(after, s, text, k)}
<1>1. 0 \in S
  <2>1. Printed([n \in 0..0 |-> s], s, text, 0)
    BY DEF Printed
  <2> QED
    BY <2>1
<1>2. ASSUME NEW k \in Nat, k \in S PROVE k + 1 \in S
  <2>1. PICK f : Printed(f, s, text, k)
    BY <1>2
  <2> DEFINE g == [n \in 0..k + 1 |-> IF n = k + 1 THEN vga_putchar(f[k], text[n]) ELSE f[n]]
             h == [n \in 0..k + 1 |-> IF n = 0 THEN s ELSE vga_putchar(g[n - 1], text[n])]
  <2>2. ASSUME NEW n \in 0..k + 1 PROVE g[n] = h[n]
    <3>1. CASE n = k + 1
      BY <3>1
    <3>2. CASE n # k + 1
      BY <3>2, <2>1 DEF Printed
    <3> QED
      BY <3>1, <3>2
  <2>3. g = h
    BY <2>2
  <2>4. Printed(g, s, text, k + 1)
    BY <2>3 DEF Printed
  <2> QED
    BY <2>4
<1>3. \E after : Printed(after, s, text, Len(text))
  <2> HIDE DEF S
  <2>1. Len(text) \in S
    BY <1>1, <1>2, SetInduction
  <2> QED
    BY <2>1 DEF S
<1>4. vga_print(s, text) = (CHOOSE after : Printed(after, s, text, Len(text)))[Len(text)]
  BY DEF vga_print, Printed
<1> QED
  BY <1>3, <1>4

LEMMA PrintShows ==
    ASSUME NEW s, Good(s), NEW text, Len(text) \in Nat, NEW from \in 1..Len(text) + 1,
           \A i \in from..Len(text) : text[i] \in {"a", "A"},
           Len(text) - from + 1 <= VgaWidth * VgaHeight - VgaWidth
    PROVE  /\ Good(vga_print(s, text))
           /\ Behind(vga_print(s, text), text, from, Len(text))
<1> DEFINE n == Len(text)
<1>1. PICK after : Printed(after, s, text, n) /\ vga_print(s, text) = after[n]
  BY PrintExists
<1> DEFINE Holds(k) == Good(after[k]) /\ (k >= from - 1 => Behind(after[k], text, from, k))
           S == {k \in Nat : k <= n => Holds(k)}
<1>2. \A t : Good(t) => Cursor(t) \in Nat
  BY Places DEF Good, Cursor
<1>3. ASSUME NEW t, Good(t), NEW k \in Nat, k <= from - 1, k >= from - 1 PROVE Behind(t, text, from, k)
  <2>1. k - from + 1 = 0 /\ Cursor(t) \in Nat /\ from..k = {}
    BY <1>2, <1>3
  <2> QED
    BY <2>1 DEF Behind
<1>4. 0 \in S
  <2>1. after[0] = s
    BY <1>1 DEF Printed
  <2> QED
    BY <2>1, <1>3
<1>5. ASSUME NEW k \in Nat, k \in S PROVE k + 1 \in S
  <2> SUFFICES ASSUME k + 1 <= n PROVE Holds(k + 1)
    OBVIOUS
  <2>1. Holds(k)
    BY <1>5
  <2>2. after[k + 1] = vga_putchar(after[k], text[k + 1])
    BY <1>1 DEF Printed
  <2>3. Good(after[k + 1])
    BY <2>1, <2>2, PutStaysGood
  <2>4. ASSUME k + 1 >= from - 1 PROVE Behind(after[k + 1], text, from, k + 1)
    <3>1. CASE k + 1 = from - 1
      BY <3>1, <2>3, <1>3
    <3>2. CASE k + 1 # from - 1
      <4>1. k >= from - 1 /\ k + 1 \in from..n /\ from \in Int /\ k + 1 \in Int /\ (k + 1) - 1 = k
            /\ from <= k + 1
        BY <2>4, <3>2
      <4>2. (k + 1) - from + 1 <= VgaWidth * VgaHeight - VgaWidth
        <5> DEFINE N == VgaWidth * VgaHeight - VgaWidth
        <5>1. n - from + 1 <= N /\ N \in Int
          BY ShellAssumption
        <5> HIDE DEF N
        <5> QED
          BY <4>1, <5>1 DEF N
      <4>3. Behind(after[k], text, from, (k + 1) - 1) /\ Good(after[k])
        BY <2>1, <4>1
      <4>4. text[k + 1] \in {"a", "A"}
        BY <4>1
      <4> HIDE DEF Holds, S
      <4> QED
        BY <2>2, <4>1, <4>2, <4>3, <4>4, LetterPut
    <3> QED
      BY <3>1, <3>2
  <2> QED
    BY <2>3, <2>4
<1> HIDE DEF Holds
<1>6. n \in S
  <2> HIDE DEF S
  <2> QED
    BY <1>4, <1>5, SetInduction
<1>7. Holds(n)
  BY <1>6
<1>8. n >= from - 1
  OBVIOUS
<1> QED
  BY <1>1, <1>7, <1>8 DEF Holds

\* The same when the letters are a sequence of their own at the end.
LEMMA PrintedBehind ==
    ASSUME NEW s, Good(s), NEW T, NEW front \in Seq(T), NEW l \in Lines
    PROVE  /\ Good(vga_print(s, front \o l))
           /\ Behind(vga_print(s, front \o l), l, 1, Len(l))
<1> DEFINE text == front \o l
           from == Len(front) + 1
           n == Len(l)
           m == Len(front)
           U == T \cup {"a", "A"}
<1>1. /\ front \in Seq(U) /\ l \in Seq(U) /\ n \in Nat /\ m \in Nat /\ n < CmdBufferSize
      /\ \A i \in 1..n : l[i] \in {"a", "A"}
  <2>1. l \in Seq({"a", "A"}) /\ n < CmdBufferSize
    BY DEF Lines
  <2> QED
    BY <2>1, SeqMonotonic, LenProperties, ElementOfSeq
<1>2. Len(text) = m + n /\ \A i \in 1..m + n : text[i] = IF i <= m THEN front[i] ELSE l[i - m]
  BY <1>1, ConcatProperties
<1> HIDE DEF text, m, n
<1>3. from \in 1..Len(text) + 1 /\ Len(text) - from + 1 = n /\ Len(text) \in Nat
  BY <1>1, <1>2 DEF m
<1>4. ASSUME NEW i \in 1..n PROVE i + m \in from..Len(text) /\ text[i + m] = l[i]
  BY <1>1, <1>2 DEF m
<1>5. \A i \in from..Len(text) : text[i] \in {"a", "A"}
  <2> TAKE i \in from..Len(text)
  <2>1. i - m \in 1..n /\ (i - m) + m = i
    BY <1>1, <1>2 DEF m
  <2> QED
    BY <2>1, <1>1, <1>4
<1>6. n <= VgaWidth * VgaHeight - VgaWidth
  <2>1. CmdBufferSize \in Nat /\ CmdBufferSize <= VgaWidth * (VgaHeight - 1)
        /\ VgaWidth \in Nat \ {0} /\ VgaHeight \in Nat
    BY ShellAssumption
  <2>2. VgaWidth * (VgaHeight - 1) = VgaWidth * VgaHeight - VgaWidth /\ VgaWidth * VgaHeight \in Int
    BY <2>1
  <2> QED
    BY <2>1, <2>2, <1>1
<1> DEFINE t == vga_print(s, text)
<1>7. Good(t) /\ Behind(t, text, from, Len(text))
  <2> HIDE DEF from
  <2> QED
    BY <1>3, <1>5, <1>6, PrintShows
<1>8. Cursor(t) \in Int
  BY <1>7, Places DEF Good, Cursor
<1> HIDE DEF t
<1>9. Behind(t, l, 1, n)
  <2>1. n - 1 + 1 <= Cursor(t)
    BY <1>1, <1>3, <1>7 DEF Behind
  <2>2. ASSUME NEW i \in 1..n PROVE t.cell[Cursor(t) - (n - i) - 1] = l[i]
    <3>1. t.cell[Cursor(t) - (Len(text) - (i + m)) - 1] = text[i + m]
      BY <1>4, <1>7 DEF Behind
    <3>2. Len(text) - (i + m) = n - i
      BY <1>1, <1>2
    <3> QED
      BY <3>1, <3>2, <1>4
  <2> QED
    BY <2>1, <2>2 DEF Behind
<1> QED
  BY <1>7, <1>9 DEF t, text, n


\* Any text leaves a screen.
LEMMA PrintStaysGood ==
    ASSUME NEW s, Good(s), NEW text, Len(text) \in Nat
    PROVE  Good(vga_print(s, text))
<1>1. Len(text) + 1 \in 1..Len(text) + 1 /\ Len(text) + 1..Len(text) = {}
      /\ Len(text) - (Len(text) + 1) + 1 = 0
  OBVIOUS
<1>2. 0 <= VgaWidth * VgaHeight - VgaWidth
  <2>1. VgaWidth * (VgaHeight - 1) \in Nat
    BY ScreenHasRows
  <2>2. VgaWidth * (VgaHeight - 1) = VgaWidth * VgaHeight - VgaWidth
    BY ScreenHasRows
  <2> QED
    BY <2>1, <2>2
<1> QED
  BY <1>1, <1>2, PrintShows

\* Nothing is behind the cursor of any screen.
LEMMA EmptyBehind ==
    ASSUME NEW s, Good(s)
    PROVE  Behind(s, <<>>, 1, Len(<<>>))
<1>1. Cursor(s) \in Nat
  BY Places DEF Good, Cursor
<1>2. Len(<<>>) = 0 /\ 1..0 = {}
  BY EmptySeq
<1> QED
  BY <1>1, <1>2 DEF Behind

\* The cleared screen is one.
LEMMA ClearIsGood == Good(vga_clear)
<1> DEFINE cells == [i \in 0..VgaWidth * VgaHeight - 1 |-> Blank]
<1>1. vga_clear = [cell |-> cells, row |-> 0, column |-> 0]
  BY DEF vga_clear
<1>2. cells = [i \in 0..VgaWidth * VgaHeight - 1 |-> cells[i]]
  OBVIOUS
<1>3. VgaWidth \in Nat \ {0} /\ VgaHeight \in Nat \ {0}
  BY ScreenHasRows
<1> HIDE DEF cells
<1>4. vga_clear.cell = cells /\ vga_clear.row = 0 /\ vga_clear.column = 0
  BY <1>1, FieldsOf
<1> QED
  BY <1>1, <1>2, <1>3, <1>4 DEF Good

\* A function on 1..k is a sequence.
LEMMA FunctionIsSeq ==
    ASSUME NEW T, NEW k \in Nat, NEW f \in [1..k -> T]
    PROVE  f \in Seq(T)
OBVIOUS

\* What shell_refresh_line prints before the line.
LEMMA RedrawShows ==
    ASSUME NEW s, Good(s), NEW l \in Lines
    PROVE  /\ Good(shell_refresh_line(s, l))
           /\ Behind(shell_refresh_line(s, l), l, 1, Len(l))
<1> DEFINE T == STRING \cup {"return", " "}
           ret == <<"return">>
           spaces == [i \in 1..VgaWidth - 2 |-> Blank]
           front == ret \o spaces \o ret \o RedrawPrompt
<1>1. ret \in Seq(T)
  OBVIOUS
<1>2. spaces \in Seq(T)
  <2>1. VgaWidth \in Nat \ {0}
    BY ShellAssumption
  <2> DEFINE k == IF VgaWidth = 1 THEN 0 ELSE VgaWidth - 2
  <2>2. k \in Nat /\ 1..VgaWidth - 2 = 1..k
    BY <2>1
  <2>3. spaces \in [1..k -> T]
    <3> HIDE DEF k
    <3> QED
      BY <2>2 DEF Blank
  <2> HIDE DEF k, spaces, T
  <2> QED
    BY <2>2, <2>3, FunctionIsSeq
<1>3. RedrawPrompt \in Seq(T)
  <2>1. RedrawPrompt \in Seq(STRING)
    BY ShellAssumption
  <2> QED
    BY <2>1, SeqMonotonic
<1>4. front \in Seq(T)
  <2> HIDE DEF ret, spaces, T
  <2>1. ret \o spaces \in Seq(T)
    BY <1>1, <1>2, ConcatProperties
  <2>2. (ret \o spaces) \o ret \in Seq(T)
    BY <2>1, <1>1, ConcatProperties
  <2> QED
    BY <2>2, <1>3, ConcatProperties
<1>5. shell_refresh_line(s, l) = vga_print(s, front \o l)
  BY DEF shell_refresh_line
<1> HIDE DEF front, T
<1> QED
  BY <1>4, <1>5, PrintedBehind

-----------------------------------------------------------------------------
(***************************************************************************)
(* The line is behind the cursor, unless a backspace went astray.          *)
(***************************************************************************)
ScreenInv ==
    /\ Good(screen)
    /\ ~astray => Behind(screen, line, 1, Len(line))

\* The empty line and the prompt.
LEMMA EnterKeepsScreen ==
    ASSUME ScreenInv, EnterLine
    PROVE  ScreenInv'
<1>1. PICK after \in shell_execute_command(vga_putchar(screen, "newline"), line) :
          screen' = vga_print(after, Prompt)
  BY DEF EnterLine
<1>2. Good(vga_clear)
  BY ClearIsGood
<1>3. Good(after)
  <2>1. Good(vga_putchar(screen, "newline"))
    BY PutStaysGood DEF ScreenInv
  <2>2. Good(vga_putchar(vga_putchar(screen, "newline"), "newline"))
    BY <2>1, PutStaysGood
  <2>3. after = vga_putchar(vga_putchar(screen, "newline"), "newline") \/ after = vga_clear
    BY <1>1 DEF shell_execute_command
  <2> QED
    BY <2>2, <2>3, <1>2
<1>4. Len(Prompt) \in Nat
  BY ShellAssumption, LenProperties
<1>5. Good(screen')
  BY <1>1, <1>3, <1>4, PrintStaysGood
<1>6. line' = <<>>
  BY DEF EnterLine
<1>7. Behind(screen', line', 1, Len(line'))
  BY <1>5, <1>6, EmptyBehind
<1> QED
  BY <1>5, <1>7 DEF ScreenInv, Good, Behind, Cursor

\* A backspace takes the last letter from the line and from the screen.
LEMMA EraseKeepsScreen ==
    ASSUME ScreenInv, HistoryInv, EraseChar
    PROVE  ScreenInv'
<1> DEFINE n == Len(line)
<1>1. CASE line = <<>>
  <2>1. line' = line /\ screen' = screen /\ (~astray' => ~astray)
    BY <1>1 DEF EraseChar
  <2> QED
    BY <2>1 DEF ScreenInv, Good, Behind, Cursor
<1>2. CASE line # <<>> /\ screen.column = 0
  <2>1. screen' = vga_putchar(screen, "backspace") /\ astray'
    BY <1>2 DEF EraseChar
  <2>2. Good(screen')
    BY <2>1, PutStaysGood DEF ScreenInv
  <2> QED
    BY <2>1, <2>2 DEF ScreenInv, Good
<1>3. CASE line # <<>> /\ screen.column # 0
  <2>1. screen' = vga_putchar(screen, "backspace") /\ (~astray' => ~astray) /\ line' = Front(line)
    BY <1>3 DEF EraseChar
  <2>2. /\ Good(screen') /\ Cursor(screen') = Cursor(screen) - 1
        /\ screen'.cell = [screen.cell EXCEPT ![Cursor(screen) - 1] = " "]
    BY <2>1, <1>3, BackspaceWritten DEF ScreenInv
  <2>3. n \in Nat \ {0} /\ line \in Seq({"a", "A"})
    BY <1>3, EmptySeq, LenProperties DEF HistoryInv, Lines
  <2>4. Len(line') = n - 1 /\ \A i \in 1..n - 1 : line'[i] = line[i]
    <3>1. \A i \in 1..n - 1 : line[i] \in {"a", "A"}
      BY <2>3, ElementOfSeq
    <3>2. line' = SubSeq(line, 1, n - 1)
      BY <2>1 DEF Front
    <3>3. Len(line') = (IF 1 <= n - 1 THEN (n - 1) - 1 + 1 ELSE 0)
          /\ \A i \in 1..(n - 1) - 1 + 1 : line'[i] = line[1 + i - 1]
      BY <2>3, <3>1, <3>2, SubSeqProperties
    <3> DEFINE m == Len(line')
    <3>4. m = n - 1
      <4> HIDE DEF m, n
      <4> QED
        BY <3>3, <2>3 DEF m
    <3>5. ASSUME NEW i \in 1..n - 1 PROVE line'[i] = line[i]
      <4> HIDE DEF n
      <4>1. i \in 1..(n - 1) - 1 + 1 /\ 1 + i - 1 = i
        BY <2>3
      <4> QED
        BY <4>1, <3>3
    <3> QED
      BY <3>4, <3>5
  <2>5. ASSUME ~astray PROVE Behind(screen', line', 1, Len(line'))
    <3>1. /\ n <= Cursor(screen) /\ Cursor(screen) \in 0..VgaWidth * VgaHeight - 1
          /\ DOMAIN screen.cell = 0..VgaWidth * VgaHeight - 1
          /\ \A i \in 1..n : screen.cell[Cursor(screen) - (n - i) - 1] = line[i]
      <4>1. n - 1 + 1 = n
        BY <2>3
      <4> QED
        BY <2>5, <4>1, Places DEF ScreenInv, Behind, Good, Cursor
    <3> DEFINE c == Cursor(screen)
               N == VgaWidth * VgaHeight
    <3>2. N \in Nat
      BY ShellAssumption
    <3> HIDE DEF c, N
    <3>3. ASSUME NEW i \in 1..n - 1 PROVE screen'.cell[(c - 1) - ((n - 1) - i) - 1] = line'[i]
      <4>1. (c - 1) - ((n - 1) - i) - 1 = c - (n - i) - 1 /\ i \in 1..n
            /\ c - (n - i) - 1 # c - 1 /\ c - (n - i) - 1 \in 0..N - 1
        BY <3>1, <3>2, <2>3 DEF c, N
      <4>2. screen.cell[c - (n - i) - 1] = line[i] /\ line'[i] = line[i]
        BY <4>1, <3>1, <2>4 DEF c
      <4> QED
        BY <4>1, <4>2, <2>2, <3>1 DEF c, N
    <3>4. (n - 1) - 1 + 1 <= c - 1
      BY <2>3, <3>1 DEF c
    <3> QED
      BY <3>3, <3>4, <2>2, <2>4 DEF Behind, c
  <2> QED
    BY <2>1, <2>2, <2>5 DEF ScreenInv, Good, Behind, Cursor
<1> QED
  BY <1>1, <1>2, <1>3


\* A letter typed goes behind the line on the screen too.
LEMMA InsertKeepsScreen ==
    ASSUME ScreenInv, HistoryInv, Room, NextChar \in {"a", "A"}, line' = Append(line, NextChar),
           screen' = vga_putchar(screen, NextChar), astray' = astray
    PROVE  ScreenInv'
<1> DEFINE n == Len(line)
           c == NextChar
<1>1. /\ line \in Seq({"a", "A"}) /\ n \in Nat /\ n < CmdBufferSize - 1
  BY LenProperties DEF HistoryInv, Lines, Room
<1>2. /\ Len(line') = n + 1 /\ line'[n + 1] = c
      /\ \A i \in 1..n : line'[i] = line[i]
  BY <1>1, AppendProperties
<1>3. Good(screen) /\ Good(screen')
  BY PutStaysGood DEF ScreenInv
<1>4. ASSUME ~astray PROVE Behind(screen', line', 1, n + 1)
  <2>1. Behind(screen, line, 1, n)
    BY <1>4 DEF ScreenInv
  <2>2. Behind(screen, line', 1, n)
    BY <2>1, <1>2 DEF Behind
  <2>3. (n + 1) - 1 + 1 <= VgaWidth * VgaHeight - VgaWidth
    <3>1. CmdBufferSize \in Nat /\ CmdBufferSize <= VgaWidth * (VgaHeight - 1)
      BY ShellAssumption
    <3>2. VgaWidth * (VgaHeight - 1) = VgaWidth * VgaHeight - VgaWidth
          /\ VgaWidth * (VgaHeight - 1) \in Int
      BY ScreenHasRows
    <3> QED
      BY <3>1, <3>2, <1>1
  <2>4. 1 \in Int /\ n + 1 \in Int /\ 1 <= n + 1 /\ (n + 1) - 1 = n
    BY <1>1
  <2> DEFINE text == line'
             s == screen
  <2>5. Good(s) /\ c \in {"a", "A"} /\ text[n + 1] = c /\ Behind(s, text, 1, (n + 1) - 1)
    BY <1>2, <1>3, <2>2, <2>4
  <2> HIDE DEF n, text, c, s
  <2>6. Behind(vga_putchar(s, c), text, 1, n + 1)
    BY <2>3, <2>4, <2>5, LetterPut
  <2> QED
    BY <2>6 DEF text, c, s
<1> QED
  BY <1>2, <1>3, <1>4 DEF ScreenInv, Good, Behind, Cursor

\* Every step keeps the line behind the cursor.
LEMMA ScreenIsKept == ScreenInv /\ HistoryInv /\ HistoryInv' /\ [Next]_vars => ScreenInv'
<1> SUFFICES ASSUME ScreenInv, HistoryInv, HistoryInv', [Next]_vars PROVE ScreenInv'
  OBVIOUS
<1>1. ASSUME UNCHANGED shellVars PROVE ScreenInv'
  BY <1>1 DEF shellVars, ScreenInv, Good, Behind, Cursor
<1>2. ASSUME NEW idx \in 0..Len(history), Show(idx) PROVE ScreenInv'
  <2>1. screen' = shell_refresh_line(screen, line') /\ Good(screen) /\ line' \in Lines
    BY <1>2 DEF Show, ScreenInv, HistoryInv
  <2>2. Good(screen') /\ Behind(screen', line', 1, Len(line'))
    <3> DEFINE l == line'
               s == screen
    <3>1. Good(shell_refresh_line(s, l)) /\ Behind(shell_refresh_line(s, l), l, 1, Len(l))
      <4>1. Good(s) /\ l \in Lines
        BY <2>1
      <4> HIDE DEF l, s
      <4> QED
        BY <4>1, RedrawShows
    <3> QED
      BY <3>1, <2>1
  <2> QED
    BY <2>2 DEF ScreenInv, Good, Behind, Cursor
<1>3. history_idx \in 0..Len(history) /\ Len(history) \in Nat
  BY LenProperties DEF HistoryInv
<1>4. CASE Older
  <2>1. history_idx > 0 => history_idx - 1 \in 0..Len(history)
    BY <1>3
  <2> QED
    BY <1>4, <1>1, <1>2, <2>1 DEF Older
<1>5. CASE Newer
  <2>1. history_idx < Len(history) => history_idx + 1 \in 0..Len(history)
    BY <1>3
  <2> QED
    BY <1>5, <1>1, <1>2, <2>1 DEF Newer
<1>6. CASE InsertChar
  BY <1>6, <1>1, InsertKeepsScreen DEF InsertChar
<1>7. CASE UNCHANGED vars
  BY <1>1, <1>7 DEF vars, shellVars
<1> QED
  BY <1>1, <1>4, <1>5, <1>6, <1>7, EnterKeepsScreen, EraseKeepsScreen DEF Next, shell_run

(***************************************************************************)
(* However the line of shell_run wraps, scrolls, is erased, replaced from  *)
(* the history or left behind by a command that clears the screen, what    *)
(* stands before the cursor of vga.c is that line, as long as no backspace *)
(* was typed with the cursor in column 0.                                  *)
(***************************************************************************)
THEOREM ShellScreenShowsLine == Spec => []ScreenShowsLine
<1>1. Init => ScreenInv
  <2> SUFFICES ASSUME Init PROVE ScreenInv
    OBVIOUS
  <2>1. screen = vga_print(vga_clear, Prompt) /\ line = <<>>
    BY DEF Init
  <2>2. Len(Prompt) \in Nat
    BY ShellAssumption, LenProperties
  <2>3. Good(screen)
    BY <2>1, <2>2, ClearIsGood, PrintStaysGood
  <2> QED
    BY <2>1, <2>3, EmptyBehind DEF ScreenInv
<1>2. ScreenInv /\ HistoryInv /\ HistoryInv' /\ [Next]_vars => ScreenInv'
  BY ScreenIsKept
<1>3. ScreenInv /\ HistoryInv => ScreenShowsLine
  <2> SUFFICES ASSUME ScreenInv, HistoryInv, ~astray PROVE
        \A k \in 1..Len(line) :
           /\ Cursor(screen) - Len(line) + k - 1 \in DOMAIN screen.cell
           /\ screen.cell[Cursor(screen) - Len(line) + k - 1] = line[k]
    BY DEF ScreenShowsLine, Cursor
  <2> TAKE k \in 1..Len(line)
  <2> DEFINE n == Len(line)
             c == Cursor(screen)
             N == VgaWidth * VgaHeight
  <2>1. /\ n \in Nat /\ c \in 0..N - 1 /\ DOMAIN screen.cell = 0..N - 1
        /\ n - 1 + 1 <= c /\ screen.cell[c - (n - k) - 1] = line[k]
    BY Places, LenProperties DEF ScreenInv, HistoryInv, Lines, Good, Behind, Cursor
  <2>2. N \in Nat
    BY ScreenHasRows
  <2> HIDE DEF n, c, N
  <2>3. c - n + k - 1 = c - (n - k) - 1 /\ c - n + k - 1 \in 0..N - 1
    BY <2>1, <2>2 DEF n
  <2> QED
    BY <2>1, <2>3 DEF n, c
<1> QED
  BY <1>1, <1>2, <1>3, HistoryInvariant, PTL DEF Spec


-----------------------------------------------------------------------------
(***************************************************************************)
(* The keys.  For each key, after how many of its codes a code is taken    *)
(* for an extended one, because of an E0 of the key's own or because of    *)
(* one the key before left behind; after how many shift counts as held;    *)
(* and the code that types its character.                                  *)
(***************************************************************************)
OwnE0 == [letter |-> {}, enter |-> {}, backspace |-> {}, up |-> {1, 3}, down |-> {1, 3},
          numlock_up |-> {1, 2, 3, 5, 7, 8}, capital |-> {}]
LeftE0 == [letter |-> {0}, enter |-> {0}, backspace |-> {0}, up |-> {0}, down |-> {0},
           numlock_up |-> {0}, capital |-> {0, 1}]
HeldShift == [letter |-> {}, enter |-> {}, backspace |-> {}, up |-> {}, down |-> {},
              numlock_up |-> {2, 3, 4, 5, 6, 7}, capital |-> {1, 2, 3}]
TypingCode == [letter |-> 1, enter |-> 1, backspace |-> 1, up |-> 2, down |-> 2,
               numlock_up |-> 4, capital |-> 2]

\* The key before left an E0 that nothing has taken.
Stale(keys) == Len(keys) > 0 /\ keys[Len(keys)] = "numlock_up"

\* The handler has seen p codes of key, pressed after the keys before.
Seen(before, key, p) ==
    /\ pressed = Append(before, key)
    /\ sending = SubSeq(Codes[key], p + 1, Len(Codes[key]))
    /\ extended_mode = (p \in OwnE0[key] \/ (Stale(before) /\ p \in LeftE0[key]))
    /\ shift_pressed = (p \in HeldShift[key])
    /\ typed = IF p < TypingCode[key] THEN Intended(before) ELSE Intended(pressed)

KeyInv ==
    \/ /\ pressed = <<>> /\ sending = <<>> /\ typed = <<>>
       /\ extended_mode = FALSE /\ shift_pressed = FALSE
    \/ \E before \in Seq(Keys), key \in Keys : \E p \in 0..Len(Codes[key]) : Seen(before, key, p)

(***************************************************************************)
(* Intended.  Its recursive function exists by induction over the keys,    *)
(* and one more key adds at most its character.                            *)
(***************************************************************************)
Meaning(first, keys, k) ==
    first = [n \in 0..k |-> IF n = 0 THEN <<>>
                            ELSE IF Eaten(keys, n) THEN first[n - 1]
                            ELSE Append(first[n - 1], Meant[keys[n]])]

LEMMA MeaningExists ==
    ASSUME NEW keys, Len(keys) \in Nat
    PROVE  \E first : Meaning(first, keys, Len(keys)) /\ Intended(keys) = first[Len(keys)]
<1> DEFINE S == {k \in Nat : \E first : Meaning(first, keys, k)}
<1>1. 0 \in S
  <2>1. Meaning([n \in 0..0 |-> <<>>], keys, 0)
    BY DEF Meaning
  <2> QED
    BY <2>1
<1>2. ASSUME NEW k \in Nat, k \in S PROVE k + 1 \in S
  <2>1. PICK f : Meaning(f, keys, k)
    BY <1>2
  <2> DEFINE Next1(n, before) == IF Eaten(keys, n) THEN before ELSE Append(before, Meant[keys[n]])
             g == [n \in 0..k + 1 |-> IF n = k + 1 THEN Next1(n, f[k]) ELSE f[n]]
             h == [n \in 0..k + 1 |-> IF n = 0 THEN <<>> ELSE Next1(n, g[n - 1])]
  <2>0. f = [n \in 0..k |-> IF n = 0 THEN <<>> ELSE Next1(n, f[n - 1])]
    BY <2>1 DEF Meaning
  <2>2. ASSUME NEW n \in 0..k + 1 PROVE g[n] = h[n]
    <3> HIDE DEF Next1
    <3>1. CASE n = k + 1
      BY <3>1
    <3>2. CASE n # k + 1
      BY <3>2, <2>0
    <3> QED
      BY <3>1, <3>2
  <2>3. g = h
    <3> HIDE DEF Next1
    <3> QED
      BY <2>2
  <2>4. Meaning(g, keys, k + 1)
    BY <2>3 DEF Meaning
  <2> QED
    BY <2>4
<1>3. \E first : Meaning(first, keys, Len(keys))
  <2> HIDE DEF S
  <2>1. Len(keys) \in S
    BY <1>1, <1>2, SetInduction
  <2> QED
    BY <2>1 DEF S
<1>4. Intended(keys) = (CHOOSE first : Meaning(first, keys, Len(keys)))[Len(keys)]
  BY DEF Intended, Meaning
<1> QED
  BY <1>3, <1>4

LEMMA IntendedNone == Intended(<<>>) = <<>>
<1>1. Len(<<>>) = 0
  BY EmptySeq
<1>2. PICK first : Meaning(first, <<>>, 0) /\ Intended(<<>>) = first[0]
  BY <1>1, MeaningExists
<1> QED
  BY <1>2 DEF Meaning

\* The keys that type behind an E0 too.
Arrows == {"up", "down", "numlock_up"}

LEMMA IntendedNext ==
    ASSUME NEW keys \in Seq(Keys), NEW key \in Keys
    PROVE  Intended(Append(keys, key)) =
              IF Stale(keys) /\ key \notin Arrows THEN Intended(keys)
              ELSE Append(Intended(keys), Meant[key])
<1> DEFINE n == Len(keys)
           more == Append(keys, key)
<1>1. n \in Nat /\ Len(more) = n + 1 /\ more[n + 1] = key /\ \A i \in 1..n : more[i] = keys[i]
  BY AppendProperties, LenProperties
<1> HIDE DEF more, n
<1>2. PICK f : Meaning(f, keys, n) /\ Intended(keys) = f[n]
  BY <1>1, MeaningExists DEF n
<1>3. PICK g : Meaning(g, more, n + 1) /\ Intended(more) = g[n + 1]
  BY <1>1, MeaningExists
<1> DEFINE S == {i \in Nat : i <= n => f[i] = g[i]}
<1>4. 0 \in S
  BY <1>1, <1>2, <1>3 DEF Meaning
<1>5. ASSUME NEW i \in Nat, i \in S PROVE i + 1 \in S
  <2> SUFFICES ASSUME i + 1 <= n PROVE f[i + 1] = g[i + 1]
    OBVIOUS
  <2>1. f[i] = g[i] /\ i + 1 \in 0..n /\ i + 1 \in 0..n + 1 /\ i + 1 # 0 /\ (i + 1) - 1 = i
    BY <1>1, <1>5
  <2>2. keys[i + 1] = more[i + 1] /\ Eaten(keys, i + 1) = Eaten(more, i + 1)
    <3>1. i + 1 \in 1..n /\ (i + 1 > 1 => (i + 1) - 1 \in 1..n)
      BY <1>1
    <3> QED
      BY <3>1, <1>1 DEF Eaten
  <2>3. f[i + 1] = IF Eaten(keys, i + 1) THEN f[i] ELSE Append(f[i], Meant[keys[i + 1]])
    BY <1>2, <2>1 DEF Meaning
  <2>4. g[i + 1] = IF Eaten(more, i + 1) THEN g[i] ELSE Append(g[i], Meant[more[i + 1]])
    BY <1>3, <2>1 DEF Meaning
  <2> QED
    BY <2>1, <2>2, <2>3, <2>4
<1>6. f[n] = g[n]
  <2> HIDE DEF S
  <2>1. n \in S
    BY <1>1, <1>4, <1>5, SetInduction
  <2> QED
    BY <2>1, <1>1 DEF S
<1>7. g[n + 1] = IF Eaten(more, n + 1) THEN g[n] ELSE Append(g[n], Meant[key])
  <2>1. n + 1 \in 0..n + 1 /\ n + 1 # 0 /\ (n + 1) - 1 = n
    BY <1>1
  <2> QED
    BY <1>1, <1>3, <2>1 DEF Meaning
<1>8. Eaten(more, n + 1) <=> Stale(keys) /\ key \notin Arrows
  <2>1. n + 1 > 1 <=> n > 0
    BY <1>1
  <2>2. n > 0 => more[(n + 1) - 1] = keys[n]
    BY <1>1
  <2> QED
    BY <2>1, <2>2, <1>1 DEF Eaten, Stale, Arrows, n
<1> QED
  BY <1>2, <1>3, <1>6, <1>7, <1>8 DEF more

(***************************************************************************)
(* One code of a key.                                                      *)
(***************************************************************************)
CodeNames == {"letter", "enter", "backspace", "up", "down", "E0", "shift", "unshift", "break"}

LEMMA CodesAreSeqs ==
    ASSUME NEW key \in Keys
    PROVE  Codes[key] \in Seq(CodeNames) /\ Len(Codes[key]) \in Nat
<1>1. CASE key \in {"letter", "enter", "backspace"}
  <2>1. Codes[key] = <<key, "break">>
    BY <1>1 DEF Codes
  <2> QED
    BY <2>1, <1>1, LenProperties DEF CodeNames
<1>2. CASE key \in {"up", "down"}
  <2>1. Codes[key] = <<"E0", key, "E0", "break">>
    BY <1>2 DEF Codes
  <2> QED
    BY <2>1, <1>2, LenProperties DEF CodeNames
<1>3. CASE key = "numlock_up"
  <2>1. Codes[key] = <<"E0", "shift", "E0", "up", "E0", "break", "E0", "unshift">>
    BY <1>3 DEF Codes
  <2> QED
    BY <2>1, LenProperties DEF CodeNames
<1>4. CASE key = "capital"
  <2>1. Codes[key] = <<"shift", "letter", "break", "unshift">>
    BY <1>4 DEF Codes
  <2> QED
    BY <2>1, LenProperties DEF CodeNames
<1>5. key \in {"letter", "enter", "backspace", "up", "down", "numlock_up", "capital"}
  BY DEF Keys, Codes
<1> QED
  BY <1>1, <1>2, <1>3, <1>4, <1>5

LEMMA CodeTaken ==
    ASSUME NEW key \in Keys, NEW p \in 0..Len(Codes[key]),
           sending = SubSeq(Codes[key], p + 1, Len(Codes[key]))
    PROVE  /\ sending = <<>> <=> p = Len(Codes[key])
           /\ p < Len(Codes[key]) => /\ Head(sending) = Codes[key][p + 1]
                                     /\ Tail(sending) = SubSeq(Codes[key], (p + 1) + 1, Len(Codes[key]))
<1> DEFINE C == Codes[key]
<1>1. C \in Seq(CodeNames) /\ Len(C) \in Nat
  BY CodesAreSeqs
<1> HIDE DEF C
<1>2. CASE p = Len(C)
  <2>1. sending = <<>>
    BY <1>1, <1>2, SubSeqEmpty DEF C
  <2> QED
    BY <2>1, <1>1, <1>2 DEF C
<1>3. CASE p # Len(C)
  <2>1. p + 1 \in 1..Len(C) /\ Len(C) \in p + 1..Len(C)
    BY <1>1, <1>3 DEF C
  <2>2. Head(sending) = C[p + 1] /\ Tail(sending) = SubSeq(C, (p + 1) + 1, Len(C))
    BY <2>1, <1>1, HeadTailOfSubSeq DEF C
  <2>3. sending # <<>>
    <3>1. \A i \in p + 1..Len(C) : C[i] \in CodeNames
      BY <1>1, <2>1, ElementOfSeq
    <3>2. Len(sending) = IF p + 1 <= Len(C) THEN Len(C) - (p + 1) + 1 ELSE 0
      BY <3>1, <2>1, <1>1, SubSeqProperties DEF C
    <3>3. Len(sending) # 0
      BY <3>2, <2>1, <1>1
    <3> QED
      BY <3>3, EmptySeq
  <2> QED
    BY <2>2, <2>3, <1>3 DEF C
<1> QED
  BY <1>2, <1>3 DEF C


\* What the tables say of the next code, and what the handler makes of it.
Extended(key, p, stale) == p \in OwnE0[key] \/ (stale /\ p \in LeftE0[key])
Controls == {"E0", "shift", "unshift", "break"}

NextCodeFits(key, p, stale, code) ==
    /\ Extended(key, p + 1, stale) <=>
          code = "E0" \/ (Extended(key, p, stale) /\ code \in {"shift", "unshift"})
    /\ p + 1 \in HeldShift[key] <=> code = "shift" \/ (p \in HeldShift[key] /\ code # "unshift")
    /\ code \in Controls <=> p + 1 # TypingCode[key]
    /\ p + 1 = TypingCode[key] /\ key \in Arrows =>
          Extended(key, p, stale) /\ code \in {"up", "down"} /\ code = Meant[key]
    /\ p + 1 = TypingCode[key] /\ key \notin Arrows =>
          /\ Extended(key, p, stale) <=> stale
          /\ code \notin {"up", "down"}
          /\ code = "letter" => Meant[key] = IF p \in HeldShift[key] THEN "A" ELSE "a"
          /\ code # "letter" => code \in {"enter", "backspace"} /\ code = Meant[key]

LEMMA NextCodeDoes ==
    ASSUME NEW key \in Keys, NEW p \in 0..Len(Codes[key]), p < Len(Codes[key]), NEW stale \in BOOLEAN
    PROVE  NextCodeFits(key, p, stale, Codes[key][p + 1])
<1>0. key \in {"letter", "enter", "backspace", "up", "down", "numlock_up", "capital"}
  BY DEF Keys, Codes
<1>1. CASE key = "letter"
  <2>1. Codes[key] = <<"letter", "break">>
    BY <1>1 DEF Codes
  <2>2. /\ OwnE0[key] = {} /\ LeftE0[key] = {0} /\ HeldShift[key] = {}
        /\ TypingCode[key] = 1 /\ Meant[key] = "a"
    BY <1>1 DEF OwnE0, LeftE0, HeldShift, TypingCode, Meant
  <2>3. p \in 0..1
    BY <2>1
  <2>4. CASE p = 0
    <3>1. p + 1 = 1 /\ Codes[key][p + 1] = "letter"
      BY <2>1, <2>4
    <3> QED
      BY <3>1, <2>2, <2>4, <1>1 DEF NextCodeFits, Extended, Controls, Arrows
  <2>5. CASE p = 1
    <3>1. p + 1 = 2 /\ Codes[key][p + 1] = "break"
      BY <2>1, <2>5
    <3> QED
      BY <3>1, <2>2, <2>5, <1>1 DEF NextCodeFits, Extended, Controls, Arrows
  <2> QED
    BY <2>3, <2>4, <2>5
<1>2. CASE key = "enter"
  <2>1. Codes[key] = <<"enter", "break">>
    BY <1>2 DEF Codes
  <2>2. /\ OwnE0[key] = {} /\ LeftE0[key] = {0} /\ HeldShift[key] = {}
        /\ TypingCode[key] = 1 /\ Meant[key] = "enter"
    BY <1>2 DEF OwnE0, LeftE0, HeldShift, TypingCode, Meant
  <2>3. p \in 0..1
    BY <2>1
  <2>4. CASE p = 0
    <3>1. p + 1 = 1 /\ Codes[key][p + 1] = "enter"
      BY <2>1, <2>4
    <3> QED
      BY <3>1, <2>2, <2>4, <1>2 DEF NextCodeFits, Extended, Controls, Arrows
  <2>5. CASE p = 1
    <3>1. p + 1 = 2 /\ Codes[key][p + 1] = "break"
      BY <2>1, <2>5
    <3> QED
      BY <3>1, <2>2, <2>5, <1>2 DEF NextCodeFits, Extended, Controls, Arrows
  <2> QED
    BY <2>3, <2>4, <2>5
<1>3. CASE key = "backspace"
  <2>1. Codes[key] = <<"backspace", "break">>
    BY <1>3 DEF Codes
  <2>2. /\ OwnE0[key] = {} /\ LeftE0[key] = {0} /\ HeldShift[key] = {}
        /\ TypingCode[key] = 1 /\ Meant[key] = "backspace"
    BY <1>3 DEF OwnE0, LeftE0, HeldShift, TypingCode, Meant
  <2>3. p \in 0..1
    BY <2>1
  <2>4. CASE p = 0
    <3>1. p + 1 = 1 /\ Codes[key][p + 1] = "backspace"
      BY <2>1, <2>4
    <3> QED
      BY <3>1, <2>2, <2>4, <1>3 DEF NextCodeFits, Extended, Controls, Arrows
  <2>5. CASE p = 1
    <3>1. p + 1 = 2 /\ Codes[key][p + 1] = "break"
      BY <2>1, <2>5
    <3> QED
      BY <3>1, <2>2, <2>5, <1>3 DEF NextCodeFits, Extended, Controls, Arrows
  <2> QED
    BY <2>3, <2>4, <2>5
<1>4. CASE key = "up"
  <2>1. Codes[key] = <<"E0", "up", "E0", "break">>
    BY <1>4 DEF Codes
  <2>2. /\ OwnE0[key] = {1, 3} /\ LeftE0[key] = {0} /\ HeldShift[key] = {}
        /\ TypingCode[key] = 2 /\ Meant[key] = "up"
    BY <1>4 DEF OwnE0, LeftE0, HeldShift, TypingCode, Meant
  <2>3. p \in 0..3
    BY <2>1
  <2>4. CASE p = 0
    <3>1. p + 1 = 1 /\ Codes[key][p + 1] = "E0"
      BY <2>1, <2>4
    <3> QED
      BY <3>1, <2>2, <2>4, <1>4 DEF NextCodeFits, Extended, Controls, Arrows
  <2>5. CASE p = 1
    <3>1. p + 1 = 2 /\ Codes[key][p + 1] = "up"
      BY <2>1, <2>5
    <3> QED
      BY <3>1, <2>2, <2>5, <1>4 DEF NextCodeFits, Extended, Controls, Arrows
  <2>6. CASE p = 2
    <3>1. p + 1 = 3 /\ Codes[key][p + 1] = "E0"
      BY <2>1, <2>6
    <3> QED
      BY <3>1, <2>2, <2>6, <1>4 DEF NextCodeFits, Extended, Controls, Arrows
  <2>7. CASE p = 3
    <3>1. p + 1 = 4 /\ Codes[key][p + 1] = "break"
      BY <2>1, <2>7
    <3> QED
      BY <3>1, <2>2, <2>7, <1>4 DEF NextCodeFits, Extended, Controls, Arrows
  <2> QED
    BY <2>3, <2>4, <2>5, <2>6, <2>7
<1>5. CASE key = "down"
  <2>1. Codes[key] = <<"E0", "down", "E0", "break">>
    BY <1>5 DEF Codes
  <2>2. /\ OwnE0[key] = {1, 3} /\ LeftE0[key] = {0} /\ HeldShift[key] = {}
        /\ TypingCode[key] = 2 /\ Meant[key] = "down"
    BY <1>5 DEF OwnE0, LeftE0, HeldShift, TypingCode, Meant
  <2>3. p \in 0..3
    BY <2>1
  <2>4. CASE p = 0
    <3>1. p + 1 = 1 /\ Codes[key][p + 1] = "E0"
      BY <2>1, <2>4
    <3> QED
      BY <3>1, <2>2, <2>4, <1>5 DEF NextCodeFits, Extended, Controls, Arrows
  <2>5. CASE p = 1
    <3>1. p + 1 = 2 /\ Codes[key][p + 1] = "down"
      BY <2>1, <2>5
    <3> QED
      BY <3>1, <2>2, <2>5, <1>5 DEF NextCodeFits, Extended, Controls, Arrows
  <2>6. CASE p = 2
    <3>1. p + 1 = 3 /\ Codes[key][p + 1] = "E0"
      BY <2>1, <2>6
    <3> QED
      BY <3>1, <2>2, <2>6, <1>5 DEF NextCodeFits, Extended, Controls, Arrows
  <2>7. CASE p = 3
    <3>1. p + 1 = 4 /\ Codes[key][p + 1] = "break"
      BY <2>1, <2>7
    <3> QED
      BY <3>1, <2>2, <2>7, <1>5 DEF NextCodeFits, Extended, Controls, Arrows
  <2> QED
    BY <2>3, <2>4, <2>5, <2>6, <2>7
<1>6. CASE key = "numlock_up"
  <2>1. Codes[key] = <<"E0", "shift", "E0", "up", "E0", "break", "E0", "unshift">>
    BY <1>6 DEF Codes
  <2>2. /\ OwnE0[key] = {1, 2, 3, 5, 7, 8} /\ LeftE0[key] = {0} /\ HeldShift[key] = {2, 3, 4, 5, 6, 7}
        /\ TypingCode[key] = 4 /\ Meant[key] = "up"
    BY <1>6 DEF OwnE0, LeftE0, HeldShift, TypingCode, Meant
  <2>3. p \in 0..7
    BY <2>1
  <2>4. CASE p = 0
    <3>1. p + 1 = 1 /\ Codes[key][p + 1] = "E0"
      BY <2>1, <2>4
    <3> QED
      BY <3>1, <2>2, <2>4, <1>6 DEF NextCodeFits, Extended, Controls, Arrows
  <2>5. CASE p = 1
    <3>1. p + 1 = 2 /\ Codes[key][p + 1] = "shift"
      BY <2>1, <2>5
    <3> QED
      BY <3>1, <2>2, <2>5, <1>6 DEF NextCodeFits, Extended, Controls, Arrows
  <2>6. CASE p = 2
    <3>1. p + 1 = 3 /\ Codes[key][p + 1] = "E0"
      BY <2>1, <2>6
    <3> QED
      BY <3>1, <2>2, <2>6, <1>6 DEF NextCodeFits, Extended, Controls, Arrows
  <2>7. CASE p = 3
    <3>1. p + 1 = 4 /\ Codes[key][p + 1] = "up"
      BY <2>1, <2>7
    <3> QED
      BY <3>1, <2>2, <2>7, <1>6 DEF NextCodeFits, Extended, Controls, Arrows
  <2>8. CASE p = 4
    <3>1. p + 1 = 5 /\ Codes[key][p + 1] = "E0"
      BY <2>1, <2>8
    <3> QED
      BY <3>1, <2>2, <2>8, <1>6 DEF NextCodeFits, Extended, Controls, Arrows
  <2>9. CASE p = 5
    <3>1. p + 1 = 6 /\ Codes[key][p + 1] = "break"
      BY <2>1, <2>9
    <3> QED
      BY <3>1, <2>2, <2>9, <1>6 DEF NextCodeFits, Extended, Controls, Arrows
  <2>10. CASE p = 6
    <3>1. p + 1 = 7 /\ Codes[key][p + 1] = "E0"
      BY <2>1, <2>10
    <3> QED
      BY <3>1, <2>2, <2>10, <1>6 DEF NextCodeFits, Extended, Controls, Arrows
  <2>11. CASE p = 7
    <3>1. p + 1 = 8 /\ Codes[key][p + 1] = "unshift"
      BY <2>1, <2>11
    <3> QED
      BY <3>1, <2>2, <2>11, <1>6 DEF NextCodeFits, Extended, Controls, Arrows
  <2> QED
    BY <2>3, <2>4, <2>5, <2>6, <2>7, <2>8, <2>9, <2>10, <2>11
<1>7. CASE key = "capital"
  <2>1. Codes[key] = <<"shift", "letter", "break", "unshift">>
    BY <1>7 DEF Codes
  <2>2. /\ OwnE0[key] = {} /\ LeftE0[key] = {0, 1} /\ HeldShift[key] = {1, 2, 3}
        /\ TypingCode[key] = 2 /\ Meant[key] = "A"
    BY <1>7 DEF OwnE0, LeftE0, HeldShift, TypingCode, Meant
  <2>3. p \in 0..3
    BY <2>1
  <2>4. CASE p = 0
    <3>1. p + 1 = 1 /\ Codes[key][p + 1] = "shift"
      BY <2>1, <2>4
    <3> QED
      BY <3>1, <2>2, <2>4, <1>7 DEF NextCodeFits, Extended, Controls, Arrows
  <2>5. CASE p = 1
    <3>1. p + 1 = 2 /\ Codes[key][p + 1] = "letter"
      BY <2>1, <2>5
    <3> QED
      BY <3>1, <2>2, <2>5, <1>7 DEF NextCodeFits, Extended, Controls, Arrows
  <2>6. CASE p = 2
    <3>1. p + 1 = 3 /\ Codes[key][p + 1] = "break"
      BY <2>1, <2>6
    <3> QED
      BY <3>1, <2>2, <2>6, <1>7 DEF NextCodeFits, Extended, Controls, Arrows
  <2>7. CASE p = 3
    <3>1. p + 1 = 4 /\ Codes[key][p + 1] = "unshift"
      BY <2>1, <2>7
    <3> QED
      BY <3>1, <2>2, <2>7, <1>7 DEF NextCodeFits, Extended, Controls, Arrows
  <2> QED
    BY <2>3, <2>4, <2>5, <2>6, <2>7
<1> QED
  BY <1>0, <1>1, <1>2, <1>3, <1>4, <1>5, <1>6, <1>7


\* What the handler does with one code.
LEMMA HandlerDoes ==
    ASSUME NEW code, keyboard_handler, code = Head(sending),
           extended_mode \in BOOLEAN, shift_pressed \in BOOLEAN
    PROVE  /\ sending' = Tail(sending) /\ pressed' = pressed
           /\ extended_mode' = (code = "E0" \/ (extended_mode /\ code \in {"shift", "unshift"}))
           /\ shift_pressed' = (code = "shift" \/ (shift_pressed /\ code # "unshift"))
           /\ typed' = IF code \in Controls \/ Ascii(code) = None THEN typed
                       ELSE Append(typed, Ascii(code))
<1>1. sending' = Tail(sending) /\ pressed' = pressed
  BY DEF keyboard_handler
<1>2. CASE code = "E0"
  <2>1. extended_mode' = TRUE /\ shift_pressed' = shift_pressed /\ typed' = typed
    BY <1>2 DEF keyboard_handler, Unchanged
  <2> QED
    BY <2>1, <1>1, <1>2 DEF Controls
<1>3. CASE code = "shift"
  <2>1. extended_mode' = extended_mode /\ shift_pressed' = TRUE /\ typed' = typed
    BY <1>3 DEF keyboard_handler, Unchanged
  <2> QED
    BY <2>1, <1>1, <1>3 DEF Controls
<1>4. CASE code = "unshift"
  <2>1. extended_mode' = extended_mode /\ shift_pressed' = FALSE /\ typed' = typed
    BY <1>4 DEF keyboard_handler, Unchanged
  <2> QED
    BY <2>1, <1>1, <1>4 DEF Controls
<1>5. CASE code = "break"
  <2>1. extended_mode' = FALSE /\ shift_pressed' = shift_pressed /\ typed' = typed
    BY <1>5 DEF keyboard_handler, Unchanged
  <2> QED
    BY <2>1, <1>1, <1>5 DEF Controls
<1>6. CASE code \notin Controls
  <2>1. /\ extended_mode' = FALSE /\ shift_pressed' = shift_pressed
        /\ \/ Ascii(code) = None /\ Unchanged
           \/ Ascii(code) # None /\ Put(Ascii(code))
    BY <1>6 DEF keyboard_handler, Controls
  <2>2. typed' = IF Ascii(code) = None THEN typed ELSE Append(typed, Ascii(code))
    BY <2>1 DEF Unchanged, Put
  <2> QED
    BY <2>1, <2>2, <1>1, <1>6 DEF Controls
<1> QED
  BY <1>2, <1>3, <1>4, <1>5, <1>6 DEF Controls

\* One code further.
LEMMA SeenNext ==
    ASSUME NEW before \in Seq(Keys), NEW key \in Keys, NEW p \in 0..Len(Codes[key]),
           Seen(before, key, p), keyboard_handler
    PROVE  p + 1 \in 0..Len(Codes[key]) /\ Seen(before, key, p + 1)'
<1> DEFINE code == Codes[key][p + 1]
           stale == Stale(before)
<1>1. /\ p < Len(Codes[key]) /\ Head(sending) = code
      /\ Tail(sending) = SubSeq(Codes[key], (p + 1) + 1, Len(Codes[key]))
  <2>1. sending # <<>>
    BY DEF keyboard_handler
  <2>2. Len(Codes[key]) \in Nat
    BY CodesAreSeqs
  <2> QED
    BY <2>1, <2>2, CodeTaken, SMTT(30) DEF Seen
<1>2. stale \in BOOLEAN
  BY DEF Stale
<1>3. NextCodeFits(key, p, stale, code)
  BY <1>1, <1>2, NextCodeDoes
<1>4. /\ extended_mode = Extended(key, p, stale) /\ extended_mode \in BOOLEAN
      /\ shift_pressed = (p \in HeldShift[key]) /\ shift_pressed \in BOOLEAN
  BY DEF Seen, Extended
<1> HIDE DEF code, stale
<1>5. /\ sending' = Tail(sending) /\ pressed' = pressed
      /\ extended_mode' = (code = "E0" \/ (extended_mode /\ code \in {"shift", "unshift"}))
      /\ shift_pressed' = (code = "shift" \/ (shift_pressed /\ code # "unshift"))
      /\ typed' = IF code \in Controls \/ Ascii(code) = None THEN typed
                  ELSE Append(typed, Ascii(code))
  BY <1>1, <1>4, HandlerDoes
<1>6. extended_mode' = Extended(key, p + 1, stale) /\ shift_pressed' = (p + 1 \in HeldShift[key])
  <2>1. extended_mode' <=> Extended(key, p + 1, stale)
    BY <1>3, <1>4, <1>5 DEF NextCodeFits
  <2>2. shift_pressed' <=> p + 1 \in HeldShift[key]
    BY <1>3, <1>4, <1>5 DEF NextCodeFits
  <2>3. extended_mode' \in BOOLEAN /\ shift_pressed' \in BOOLEAN
    BY <1>5
  <2>4. Extended(key, p + 1, stale) \in BOOLEAN /\ (p + 1 \in HeldShift[key]) \in BOOLEAN
    BY DEF Extended
  <2> QED
    BY <2>1, <2>2, <2>3, <2>4
<1>7. /\ pressed = Append(before, key)
      /\ typed = IF p < TypingCode[key] THEN Intended(before) ELSE Intended(pressed)
  BY DEF Seen
<1>8. TypingCode[key] \in Nat
  BY DEF TypingCode, Keys, Codes
<1>9. typed' = IF p + 1 < TypingCode[key] THEN Intended(before) ELSE Intended(pressed)
  <2>1. CASE p + 1 # TypingCode[key]
    <3>1. typed' = typed
      BY <2>1, <1>3, <1>5 DEF NextCodeFits
    <3>2. p < TypingCode[key] <=> p + 1 < TypingCode[key]
      BY <2>1, <1>8
    <3> QED
      BY <3>1, <3>2, <1>7
  <2>2. CASE p + 1 = TypingCode[key]
    <3>1. typed = Intended(before)
      BY <2>2, <1>7, <1>8
    <3>2. Intended(pressed) = IF stale /\ key \notin Arrows THEN Intended(before)
                              ELSE Append(Intended(before), Meant[key])
      BY <1>7, IntendedNext DEF stale
    <3>3. code \notin Controls
      BY <2>2, <1>3 DEF NextCodeFits
    <3>4. Ascii(code) = IF stale /\ key \notin Arrows THEN None ELSE Meant[key]
      <4>1. CASE key \in Arrows
        BY <4>1, <2>2, <1>3, <1>4 DEF NextCodeFits, Ascii
      <4>2. CASE key \notin Arrows /\ stale
        BY <4>2, <2>2, <1>3, <1>4 DEF NextCodeFits, Ascii
      <4>3. CASE key \notin Arrows /\ ~stale
        BY <4>3, <2>2, <1>3, <1>4 DEF NextCodeFits, Ascii
      <4> QED
        BY <4>1, <4>2, <4>3
    <3>5. Meant[key] # None
      BY DEF Meant, Keys, Codes, None
    <3>6. typed' = Intended(pressed)
      BY <3>1, <3>2, <3>3, <3>4, <3>5, <1>5
    <3>7. ~(p + 1 < TypingCode[key])
      BY <2>2
    <3> QED
      BY <3>6, <3>7
  <2> QED
    BY <2>1, <2>2
<1>10. p + 1 \in 0..Len(Codes[key])
  BY <1>1, CodesAreSeqs
<1>11. sending' = SubSeq(Codes[key], (p + 1) + 1, Len(Codes[key]))
  BY <1>1, <1>5
<1>12. Seen(before, key, p + 1)'
  BY <1>5, <1>6, <1>7, <1>9, <1>11 DEF Seen, Extended, stale
<1> QED
  BY <1>10, <1>12

\* Behind its last code a key has typed, shift is up, and only NumLock leaves an E0.
LEMMA LastCode ==
    ASSUME NEW key \in Keys
    PROVE  /\ Len(Codes[key]) >= TypingCode[key]
           /\ Len(Codes[key]) \notin HeldShift[key] /\ Len(Codes[key]) \notin LeftE0[key]
           /\ Len(Codes[key]) \in OwnE0[key] <=> key = "numlock_up"
<1>0. key \in {"letter", "enter", "backspace", "up", "down", "numlock_up", "capital"}
  BY DEF Keys, Codes
<1>1. CASE key = "letter"
  <2>1. Len(Codes[key]) = 2
    BY <1>1 DEF Codes
  <2> QED
    BY <2>1, <1>1 DEF TypingCode, HeldShift, LeftE0, OwnE0
<1>2. CASE key = "enter"
  <2>1. Len(Codes[key]) = 2
    BY <1>2 DEF Codes
  <2> QED
    BY <2>1, <1>2 DEF TypingCode, HeldShift, LeftE0, OwnE0
<1>3. CASE key = "backspace"
  <2>1. Len(Codes[key]) = 2
    BY <1>3 DEF Codes
  <2> QED
    BY <2>1, <1>3 DEF TypingCode, HeldShift, LeftE0, OwnE0
<1>4. CASE key = "up"
  <2>1. Len(Codes[key]) = 4
    BY <1>4 DEF Codes
  <2> QED
    BY <2>1, <1>4 DEF TypingCode, HeldShift, LeftE0, OwnE0
<1>5. CASE key = "down"
  <2>1. Len(Codes[key]) = 4
    BY <1>5 DEF Codes
  <2> QED
    BY <2>1, <1>5 DEF TypingCode, HeldShift, LeftE0, OwnE0
<1>6. CASE key = "numlock_up"
  <2>1. Len(Codes[key]) = 8
    BY <1>6 DEF Codes
  <2> QED
    BY <2>1, <1>6 DEF TypingCode, HeldShift, LeftE0, OwnE0
<1>7. CASE key = "capital"
  <2>1. Len(Codes[key]) = 4
    BY <1>7 DEF Codes
  <2> QED
    BY <2>1, <1>7 DEF TypingCode, HeldShift, LeftE0, OwnE0
<1> QED
  BY <1>0, <1>1, <1>2, <1>3, <1>4, <1>5, <1>6, <1>7

\* A key behind the codes of the last one.
LEMMA PressSeen ==
    ASSUME KeyInv, NEW key \in Keys, Press(key)
    PROVE  KeyInv'
<1>1. /\ sending = <<>> /\ pressed' = Append(pressed, key) /\ sending' = Codes[key]
      /\ UNCHANGED <<shift_pressed, extended_mode, typed>>
  BY DEF Press
<1>2. /\ pressed \in Seq(Keys) /\ typed = Intended(pressed)
      /\ shift_pressed = FALSE /\ extended_mode = Stale(pressed)
  <2>1. CASE pressed = <<>> /\ typed = <<>> /\ extended_mode = FALSE /\ shift_pressed = FALSE
    <3>1. pressed \in Seq(Keys) /\ Len(pressed) = 0
      BY <2>1, EmptySeq
    <3>2. Stale(pressed) = FALSE
      <4>1. ~(Len(pressed) > 0)
        BY <3>1
      <4> QED
        BY <4>1 DEF Stale
    <3> QED
      BY <3>1, <3>2, <2>1, IntendedNone
  <2>2. ASSUME NEW before \in Seq(Keys), NEW last \in Keys, NEW p \in 0..Len(Codes[last]), Seen(before, last, p)
        PROVE  /\ pressed \in Seq(Keys) /\ typed = Intended(pressed)
               /\ shift_pressed = FALSE /\ extended_mode = Stale(pressed)
    <3>1. p = Len(Codes[last])
      BY <1>1, <2>2, CodeTaken DEF Seen
    <3>2. /\ pressed \in Seq(Keys) /\ Len(pressed) = Len(before) + 1
          /\ pressed[Len(before) + 1] = last /\ Len(before) \in Nat
      BY <2>2, AppendProperties, LenProperties DEF Seen
    <3>3. Stale(pressed) <=> last = "numlock_up"
      BY <3>2 DEF Stale
    <3>4. /\ Len(Codes[last]) >= TypingCode[last]
          /\ Len(Codes[last]) \notin HeldShift[last] /\ Len(Codes[last]) \notin LeftE0[last]
          /\ Len(Codes[last]) \in OwnE0[last] <=> last = "numlock_up"
      BY LastCode
    <3>5. typed = IF p < TypingCode[last] THEN Intended(before) ELSE Intended(pressed)
      BY <2>2 DEF Seen
    <3>6. ~(p < TypingCode[last])
      BY <3>1, <3>4, CodesAreSeqs, SMTT(30) DEF TypingCode, Keys, Codes
    <3>7. extended_mode = (p \in OwnE0[last] \/ (Stale(before) /\ p \in LeftE0[last]))
          /\ shift_pressed = (p \in HeldShift[last])
      BY <2>2 DEF Seen
    <3>8. shift_pressed = FALSE
      <4>1. p \notin HeldShift[last]
        BY <3>1, <3>4
      <4>2. (p \in HeldShift[last]) = FALSE
        BY <4>1
      <4> QED
        BY <4>2, <3>7
    <3>9. (p \in OwnE0[last] \/ (Stale(before) /\ p \in LeftE0[last])) <=> Stale(pressed)
      BY <3>1, <3>3, <3>4
    <3>10. Stale(pressed) \in BOOLEAN
      BY DEF Stale
    <3> QED
      BY <3>2, <3>5, <3>6, <3>7, <3>8, <3>9, <3>10
  <2> QED
    BY <2>1, <2>2 DEF KeyInv
<1>3. /\ Codes[key] = SubSeq(Codes[key], 0 + 1, Len(Codes[key])) /\ 0 \in 0..Len(Codes[key])
  BY CodesAreSeqs, SubSeqFull
<1>4. /\ 0 \notin OwnE0[key] /\ 0 \in LeftE0[key] /\ 0 \notin HeldShift[key] /\ 0 < TypingCode[key]
  BY DEF OwnE0, LeftE0, HeldShift, TypingCode, Keys, Codes
<1>5. PICK before : before = pressed
  OBVIOUS
<1>6. Seen(before, key, 0)'
  <2>1. extended_mode' = (0 \in OwnE0[key] \/ (Stale(before) /\ 0 \in LeftE0[key]))
    <3>1. Stale(before) \in BOOLEAN
      BY DEF Stale
    <3> QED
      BY <3>1, <1>1, <1>2, <1>4, <1>5
  <2>2. shift_pressed' = (0 \in HeldShift[key])
    <3>1. (0 \in HeldShift[key]) = FALSE
      BY <1>4
    <3> QED
      BY <3>1, <1>1, <1>2
  <2>3. typed' = Intended(before) /\ pressed' = Append(before, key)
        /\ sending' = SubSeq(Codes[key], 0 + 1, Len(Codes[key]))
    BY <1>1, <1>2, <1>3, <1>5
  <2> QED
    BY <2>1, <2>2, <2>3, <1>4 DEF Seen
<1> QED
  BY <1>2, <1>3, <1>5, <1>6 DEF KeyInv


\* Every step keeps track of the keys.
LEMMA KeysKept == KeyInv /\ [Next]_vars => KeyInv'
<1> SUFFICES ASSUME KeyInv, [Next]_vars PROVE KeyInv'
  OBVIOUS
<1>1. ASSUME UNCHANGED <<pressed, sending, typed, extended_mode, shift_pressed>> PROVE KeyInv'
  BY <1>1 DEF KeyInv, Seen
<1>2. CASE keyboard_handler
  <2>1. sending # <<>>
    BY <1>2 DEF keyboard_handler
  <2>2. PICK before \in Seq(Keys), key \in Keys : \E p \in 0..Len(Codes[key]) : Seen(before, key, p)
    BY <2>1 DEF KeyInv
  <2>3. PICK p \in 0..Len(Codes[key]) : Seen(before, key, p)
    BY <2>2
  <2>4. p + 1 \in 0..Len(Codes[key]) /\ Seen(before, key, p + 1)'
    BY <1>2, <2>3, SeenNext
  <2> QED
    BY <2>4 DEF KeyInv
<1>3. ASSUME NEW key \in Keys, Press(key) PROVE KeyInv'
  BY <1>3, PressSeen
<1>4. CASE shell_run
  BY <1>1, <1>4 DEF shell_run, keyboard_getchar
<1>5. CASE UNCHANGED vars
  BY <1>1, <1>5 DEF vars
<1> QED
  BY <1>2, <1>3, <1>4, <1>5 DEF Next

\* What the invariant says when the controller is idle.
LEMMA KeysHaveTyped == KeyInv => KeysTyped
<1> SUFFICES ASSUME KeyInv, sending = <<>> PROVE typed = Intended(pressed)
  BY DEF KeysTyped
<1>1. CASE pressed = <<>> /\ typed = <<>>
  BY <1>1, IntendedNone
<1>2. ASSUME NEW before \in Seq(Keys), NEW key \in Keys, NEW p \in 0..Len(Codes[key]), Seen(before, key, p)
      PROVE  typed = Intended(pressed)
  <2>1. p = Len(Codes[key])
    BY <1>2, CodeTaken DEF Seen
  <2>2. ~(p < TypingCode[key])
    <3>1. TypingCode[key] \in Nat
      BY DEF TypingCode, Keys, Codes
    <3>2. Len(Codes[key]) \in Nat
      BY CodesAreSeqs
    <3> QED
      BY <2>1, <3>1, <3>2, LastCode
  <2> QED
    BY <1>2, <2>2 DEF Seen
<1> QED
  BY <1>1, <1>2 DEF KeyInv

(***************************************************************************)
(* Every key types its character once and in order, whatever codes of      *)
(* shift, E0 and release keyboard_handler sees in between; only the key    *)
(* after an arrow key with NumLock on is taken for an extended one.        *)
(***************************************************************************)
THEOREM ShellKeysTyped == Spec => []KeysTyped
<1>1. Init => KeyInv
  BY DEF Init, KeyboardInit, KeyInv
<1>2. KeyInv /\ [Next]_vars => KeyInv'
  BY KeysKept
<1> QED
  BY <1>1, <1>2, KeysHaveTyped, PTL DEF Spec


=============================================================================
