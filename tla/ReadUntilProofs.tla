-------------------------- MODULE ReadUntilProofs --------------------------
(***************************************************************************)
(* Proofs about ReadUntil, for every chunking of every stream.             *)
(***************************************************************************)
EXTENDS ReadUntil, SequenceTheorems, WellFoundedInduction, TLAPS

-----------------------------------------------------------------------------
(* Sequences and offsets *)

\* What dropping n elements leaves.
LEMMA DropProperties ==
  ASSUME NEW S, NEW q \in Seq(S), NEW n \in 0..Len(q)
  PROVE  /\ Drop(q, n) \in Seq(S)
         /\ Len(Drop(q, n)) = Len(q) - n
         /\ \A i \in 1..Len(q) - n : Drop(q, n)[i] = q[i + n]
<1>1. Len(q) \in Nat /\ \A i \in n + 1..Len(q) : q[i] \in S
  BY LenProperties, ElementOfSeq
<1>2. /\ SubSeq(q, n + 1, Len(q)) \in Seq(S)
      /\ Len(SubSeq(q, n + 1, Len(q))) = IF n + 1 <= Len(q) THEN Len(q) - (n + 1) + 1 ELSE 0
      /\ \A i \in 1..Len(q) - (n + 1) + 1 : SubSeq(q, n + 1, Len(q))[i] = q[n + 1 + i - 1]
  BY <1>1, SubSeqProperties
<1> QED BY <1>1, <1>2 DEF Drop

\* Dropping nothing changes nothing.
LEMMA DropZero ==
  ASSUME NEW S, NEW q \in Seq(S)
  PROVE  Drop(q, 0) = q
BY SubSeqFull DEF Drop

\* Dropping from the front commutes with appending at the back.
LEMMA DropConcat ==
  ASSUME NEW S, NEW q \in Seq(S), NEW d \in Seq(S), NEW n \in 0..Len(q)
  PROVE  Drop(q \o d, n) = Drop(q, n) \o d
<1>1. Len(q) \in Nat /\ Len(d) \in Nat
  BY LenProperties
<1>2. /\ q \o d \in Seq(S)
      /\ Len(q \o d) = Len(q) + Len(d)
      /\ \A i \in 1..Len(q) + Len(d) : (q \o d)[i] = IF i <= Len(q) THEN q[i] ELSE d[i - Len(q)]
  BY ConcatProperties
<1> DEFINE cat  == q \o d
           left == Drop(cat, n)
           tail == Drop(q, n)
<1>3. /\ cat \in Seq(S)
      /\ Len(cat) = Len(q) + Len(d)
      /\ n \in 0..Len(cat)
  BY <1>1, <1>2
<1>4. /\ left \in Seq(S)
      /\ Len(left) = Len(q) + Len(d) - n
      /\ \A i \in 1..Len(q) + Len(d) - n : left[i] = (q \o d)[i + n]
  <2> HIDE DEF cat
  <2>1. /\ left \in Seq(S)
        /\ Len(left) = Len(cat) - n
        /\ \A i \in 1..Len(cat) - n : left[i] = cat[i + n]
    BY <1>3, DropProperties
  <2> QED BY <1>3, <2>1 DEF cat
<1>5. /\ tail \in Seq(S)
      /\ Len(tail) = Len(q) - n
      /\ \A i \in 1..Len(q) - n : tail[i] = q[i + n]
  BY DropProperties
<1> HIDE DEF left, tail
<1>6. /\ tail \o d \in Seq(S)
      /\ Len(tail \o d) = Len(tail) + Len(d)
      /\ \A i \in 1..Len(tail) + Len(d) : (tail \o d)[i] = IF i <= Len(tail) THEN tail[i] ELSE d[i - Len(tail)]
  BY <1>5, ConcatProperties
<1>7. ASSUME NEW i \in 1..Len(left) PROVE left[i] = (tail \o d)[i]
  <2>1. i + n \in 1..Len(q) + Len(d) /\ i \in 1..Len(tail) + Len(d)
    BY <1>1, <1>4, <1>5
  <2>2. CASE i <= Len(q) - n
    BY <1>1, <1>2, <1>4, <1>5, <1>6, <2>1, <2>2
  <2>3. CASE ~(i <= Len(q) - n)
    <3>1. i + n - Len(q) = i - Len(tail)
      BY <1>1, <1>5
    <3> QED BY <1>1, <1>2, <1>4, <1>5, <1>6, <2>1, <2>3, <3>1
  <2> QED BY <2>2, <2>3
<1>8. Len(left) = Len(tail \o d)
  BY <1>1, <1>4, <1>5, <1>6
<1>9. left = tail \o d
  BY <1>4, <1>6, <1>7, <1>8, SeqEqual
<1> QED BY <1>9 DEF left, tail, cat

\* Dropping twice is dropping once.
LEMMA DropDrop ==
  ASSUME NEW S, NEW q \in Seq(S), NEW n \in 0..Len(q), NEW k \in 0..Len(q) - n
  PROVE  Drop(Drop(q, n), k) = Drop(q, n + k)
<1>1. Len(q) \in Nat /\ n + k \in 0..Len(q)
  BY LenProperties
<1> DEFINE inner == Drop(q, n)
           left  == Drop(inner, k)
           right == Drop(q, n + k)
<1>2. /\ inner \in Seq(S)
      /\ Len(inner) = Len(q) - n
      /\ \A i \in 1..Len(q) - n : inner[i] = q[i + n]
  BY DropProperties
<1>3. k \in 0..Len(inner)
  BY <1>1, <1>2
<1> HIDE DEF inner
<1>4. /\ left \in Seq(S)
      /\ Len(left) = Len(inner) - k
      /\ \A i \in 1..Len(inner) - k : left[i] = inner[i + k]
  BY <1>2, <1>3, DropProperties
<1>5. /\ right \in Seq(S)
      /\ Len(right) = Len(q) - (n + k)
      /\ \A i \in 1..Len(q) - (n + k) : right[i] = q[i + (n + k)]
  BY <1>1, DropProperties
<1> HIDE DEF left, right
<1>6. Len(left) = Len(right)
  BY <1>1, <1>2, <1>4, <1>5
<1>7. ASSUME NEW i \in 1..Len(left) PROVE left[i] = right[i]
  <2>1. i \in 1..Len(inner) - k /\ i + k \in 1..Len(q) - n /\ i \in 1..Len(q) - (n + k)
    BY <1>1, <1>2, <1>4
  <2>2. i + k + n = i + (n + k)
    BY <1>1, <2>1
  <2> QED BY <1>2, <1>4, <1>5, <2>1, <2>2
<1>8. left = right
  BY <1>4, <1>5, <1>6, <1>7, SeqEqual
<1> QED BY <1>8 DEF left, right, inner

\* The order of the naturals, as the relation the library's theorem speaks of.
LEMMA LessThanIsRelated ==
  ASSUME NEW i \in Nat, NEW j \in Nat, j < i
  PROVE  <<j, i>> \in OpToRel(<, Nat)
BY Zenon DEF OpToRel

\* A set of offsets that is not empty has a least member.
LEMMA LeastProperties ==
  ASSUME NEW T, T \subseteq Nat, T # {}
  PROVE  Least(T) \in T /\ \A j \in T : Least(T) <= j
<1>1. PICK i \in T : \A j \in T : ~(<<j, i>> \in OpToRel(<, Nat))
  BY WFMin, NatLessThanWellFounded, Zenon
<1>2. ASSUME NEW j \in T PROVE ~(j < i)
  BY <1>1, LessThanIsRelated, Zenon
<1>3. ASSUME NEW j \in T PROVE i <= j
  BY <1>2
<1> QED BY <1>3 DEF Least

-----------------------------------------------------------------------------
(* The window *)

\* What push_without_matching may assume of a matcher, and keeps.
MatcherOK(m) ==
  /\ m \in [buffer : Seq(Bytes), head : 0..MaxBuffer, search_start : Nat]
  /\ m.head <= Len(m.buffer)
  /\ Len(live(m)) <= MaxBuffer

\* How many bytes the window drops when n more arrive.
Dropped(m, n) == saturating_sub(Len(live(m)) + n, MaxBuffer)

\* A saturating difference is a natural number, and which one.
LEMMA SaturatingSub ==
  ASSUME NEW a \in Nat, NEW b \in Nat
  PROVE  /\ saturating_sub(a, b) \in Nat
         /\ saturating_sub(a, b) <= a
         /\ a - saturating_sub(a, b) <= b
         /\ a - saturating_sub(a, b) \in Nat
         /\ a <= b => saturating_sub(a, b) = 0
         /\ a >= b => saturating_sub(a, b) = a - b
BY DEF saturating_sub

\* The length of the window when head moves on.
LEMMA HeadAdvances ==
  ASSUME NEW b \in Nat, NEW h \in 0..b, NEW n \in Nat, NEW d \in 0..(b - h) + n
  PROVE  h + d \in 0..b + n /\ (b + n) - (h + d) = ((b - h) + n) - d
OBVIOUS

\* push_without_matching appends to the window and drops its oldest bytes,
\* whether or not it compacts.
LEMMA PushMovesWindow ==
  ASSUME ConstantsAssumption, NEW m, MatcherOK(m), NEW data \in Seq(Bytes)
  PROVE  LET p == push_without_matching(m, data)
         IN  /\ MatcherOK(p)
             /\ live(p) = Drop(live(m) \o data, Dropped(m, Len(data)))
             /\ Len(live(p)) = (Len(live(m)) + Len(data)) - Dropped(m, Len(data))
             /\ p.search_start = saturating_sub(m.search_start, Dropped(m, Len(data)))
<1> DEFINE buf     == m.buffer \o data
           dropped == Dropped(m, Len(data))
           head    == m.head + dropped
           p       == push_without_matching(m, data)
<1>1. /\ m.buffer \in Seq(Bytes) /\ m.head \in 0..Len(m.buffer) /\ m.search_start \in Nat
      /\ Len(m.buffer) \in Nat /\ Len(data) \in Nat /\ MaxBuffer \in Nat
  BY LenProperties DEF MatcherOK, ConstantsAssumption
<1>2. /\ live(m) \in Seq(Bytes)
      /\ Len(live(m)) = Len(m.buffer) - m.head
      /\ Len(live(m)) \in Nat
      /\ Len(live(m)) <= MaxBuffer
  BY <1>1, DropProperties DEF live, MatcherOK
<1>3. /\ buf \in Seq(Bytes)
      /\ Len(buf) = Len(m.buffer) + Len(data)
  BY <1>1, ConcatProperties
<1> DEFINE total == Len(live(m)) + Len(data)
<1>4. total \in Nat /\ Len(buf) - m.head = total
  <2> HIDE DEF buf
  <2> QED BY <1>1, <1>2, <1>3
<1>5. /\ dropped = saturating_sub(Len(buf) - m.head, MaxBuffer)
      /\ dropped \in 0..total
      /\ total - dropped <= MaxBuffer
      /\ total - dropped \in Nat
  <2>1. total \in Nat /\ Len(buf) - m.head = total
    BY <1>4
  <2> HIDE DEF buf
  <2>2. dropped = saturating_sub(total, MaxBuffer)
    BY DEF Dropped
  <2> HIDE DEF total, dropped
  <2>3. dropped = saturating_sub(Len(buf) - m.head, MaxBuffer)
    BY <2>1, <2>2, Zenon
  <2>4. dropped \in Nat /\ dropped <= total /\ total - dropped <= MaxBuffer /\ total - dropped \in Nat
    BY <1>1, <2>1, <2>2, SaturatingSub
  <2>5. dropped \in 0..total
    BY <2>1, <2>4
  <2> QED BY <2>3, <2>4, <2>5
<1>6. /\ head \in 0..Len(buf)
      /\ Len(buf) - head = total - dropped
  <2> HIDE DEF buf, dropped
  <2>1. dropped \in 0..(Len(m.buffer) - m.head) + Len(data)
    BY <1>2, <1>5
  <2>2. /\ m.head + dropped \in 0..Len(m.buffer) + Len(data)
        /\ (Len(m.buffer) + Len(data)) - (m.head + dropped) =
             ((Len(m.buffer) - m.head) + Len(data)) - dropped
    BY <1>1, <2>1, HeadAdvances
  <2> QED BY <1>2, <1>3, <2>2
<1>7. p = [buffer       |-> IF head > MaxBuffer THEN Drop(buf, head) ELSE buf,
           head         |-> IF head > MaxBuffer THEN 0 ELSE head,
           search_start |-> saturating_sub(m.search_start, dropped)]
  BY <1>5 DEF push_without_matching
<1>8. Drop(buf, head) = Drop(live(m) \o data, dropped)
  <2>1. Drop(buf, m.head) = live(m) \o data
    BY <1>1, DropConcat DEF live
  <2>2. m.head \in 0..Len(buf) /\ dropped \in 0..Len(buf) - m.head
    <3> HIDE DEF buf, dropped, total
    <3>1. m.head <= Len(buf)
      BY <1>1, <1>3
    <3> QED BY <1>1, <1>3, <1>5, <1>4, <3>1
  <2> HIDE DEF buf, dropped
  <2>3. Drop(Drop(buf, m.head), dropped) = Drop(buf, m.head + dropped)
    BY <1>3, <2>2, DropDrop
  <2> QED BY <2>1, <2>3
<1>9. /\ Drop(buf, head) \in Seq(Bytes)
      /\ Len(Drop(buf, head)) = total - dropped
  <2> HIDE DEF buf, dropped, head, total
  <2>1. Drop(buf, head) \in Seq(Bytes) /\ Len(Drop(buf, head)) = Len(buf) - head
    BY <1>3, <1>6, DropProperties
  <2> QED BY <1>6, <2>1
<1>10. saturating_sub(m.search_start, dropped) \in Nat
  <2> HIDE DEF dropped
  <2>1. dropped \in Nat
    BY <1>5, <1>4
  <2> QED BY <1>1, <2>1, SaturatingSub
<1>16. Len(Drop(buf, head)) = (Len(live(m)) + Len(data)) - dropped
  <2> HIDE DEF buf, dropped, head
  <2> QED BY <1>9
<1> HIDE DEF buf, dropped, head, p, total
<1>11. live(p) = Drop(buf, head)
  <2>1. CASE head > MaxBuffer
    BY <1>7, <1>9, <2>1, DropZero DEF live
  <2>2. CASE ~(head > MaxBuffer)
    BY <1>7, <2>2 DEF live
  <2> QED BY <2>1, <2>2
<1>12. MatcherOK(p)
  <2>1. Len(live(p)) <= MaxBuffer
    BY <1>5, <1>9, <1>11 DEF total
  <2>2. CASE head > MaxBuffer
    <3>1. /\ p.buffer \in Seq(Bytes) /\ p.head = 0
          /\ p \in [buffer : Seq(Bytes), head : {0}, search_start : Nat]
      BY <1>7, <1>9, <1>10, <2>2
    <3>2. Len(p.buffer) \in Nat
      BY <3>1, LenProperties
    <3> QED BY <1>1, <2>1, <3>1, <3>2 DEF MatcherOK
  <2>3. CASE ~(head > MaxBuffer)
    <3>1. head \in 0..MaxBuffer /\ head <= Len(buf)
      BY <1>1, <1>3, <1>6, <2>3
    <3>2. p = [buffer |-> buf, head |-> head,
               search_start |-> saturating_sub(m.search_start, dropped)]
      BY <1>7, <2>3
    <3> QED BY <1>3, <1>10, <2>1, <3>1, <3>2 DEF MatcherOK
  <2> QED BY <2>2, <2>3
<1>13. p.search_start = saturating_sub(m.search_start, dropped)
  BY <1>7
<1>14. live(p) = Drop(live(m) \o data, dropped)
  BY <1>8, <1>11
<1>15. Len(live(p)) = (Len(live(m)) + Len(data)) - dropped
  BY <1>16, <1>11, Zenon
<1> QED BY <1>12, <1>13, <1>14, <1>15, Zenon DEF p, dropped

\* The bytes lost so far and the bytes the next chunk drops add up.
LEMMA LostAddsUp ==
  ASSUME NEW a \in Nat, NEW n \in Nat, NEW max \in Nat
  PROVE  LET lost == saturating_sub(a, max)
         IN  lost + saturating_sub((a - lost) + n, max) = saturating_sub(a + n, max)
<1>1. CASE a <= max
  BY <1>1 DEF saturating_sub
<1>2. CASE ~(a <= max)
  BY <1>2 DEF saturating_sub
<1> QED BY <1>1, <1>2

\* A push keeps search_start inside the window.
LEMMA SearchStartInWindow ==
  ASSUME NEW a \in Nat, NEW s \in 0..a, NEW n \in Nat, NEW max \in Nat
  PROVE  LET dropped == saturating_sub(a + n, max)
         IN  saturating_sub(s, dropped) <= (a + n) - dropped
<1>1. CASE a + n <= max
  BY <1>1 DEF saturating_sub
<1>2. CASE ~(a + n <= max)
  BY <1>2 DEF saturating_sub
<1> QED BY <1>1, <1>2

\* set_search_start moves nothing but the search offset.
LEMMA SetSearchStart ==
  ASSUME ConstantsAssumption, NEW m, MatcherOK(m), NEW offset \in Nat
  PROVE  LET r == set_search_start(m, offset)
         IN  /\ MatcherOK(r)
             /\ live(r) = live(m)
             /\ r.search_start \in Nat
             /\ r.search_start <= Len(live(r))
             /\ offset <= Len(live(m)) => r.search_start = offset
<1> DEFINE r == set_search_start(m, offset)
<1>1. live(m) \in Seq(Bytes) /\ Len(live(m)) \in Nat
  <2>1. m.buffer \in Seq(Bytes) /\ m.head \in 0..Len(m.buffer)
    BY LenProperties DEF MatcherOK, ConstantsAssumption
  <2> QED BY <2>1, DropProperties, LenProperties DEF live
<1>2. /\ r.buffer = m.buffer
      /\ r.head = m.head
      /\ r.search_start = IF offset <= Len(live(m)) THEN offset ELSE Len(live(m))
      /\ r \in [buffer : Seq(Bytes), head : 0..MaxBuffer, search_start : Nat]
  BY <1>1 DEF set_search_start, MatcherOK
<1> HIDE DEF r
<1>3. live(r) = live(m)
  BY <1>2 DEF live
<1>4. MatcherOK(r)
  BY <1>2, <1>3 DEF MatcherOK
<1> QED BY <1>1, <1>2, <1>3, <1>4 DEF r

-----------------------------------------------------------------------------
(* The inductive invariant of the window *)

WindowInv ==
  /\ TypeOK
  /\ Len(live(matcher)) <= MaxBuffer
  /\ WindowIsNewest

\* What the window loses of a stream as long as stream.
LostOf(q) == saturating_sub(Len(q), MaxBuffer)

\* The sizes that follow from WindowInv.
LEMMA WindowFacts ==
  ASSUME ConstantsAssumption, WindowInv
  PROVE  /\ MatcherOK(matcher)
         /\ stream \in Seq(Bytes)
         /\ Len(stream) \in Nat
         /\ LostOf(stream) \in 0..Len(stream)
         /\ live(matcher) = Drop(stream, LostOf(stream))
         /\ live(matcher) \in Seq(Bytes)
         /\ Len(live(matcher)) = Len(stream) - LostOf(stream)
         /\ Lost = LostOf(stream)
<1>1. /\ stream \in Seq(Bytes)
      /\ Len(stream) \in Nat
      /\ MaxBuffer \in Nat
  BY LenProperties DEF WindowInv, TypeOK, ConstantsAssumption
<1>2. LostOf(stream) \in 0..Len(stream)
  BY <1>1, SaturatingSub DEF LostOf
<1>3. live(matcher) = Drop(stream, LostOf(stream))
  BY DEF WindowInv, WindowIsNewest, LostOf
<1>4. /\ live(matcher) \in Seq(Bytes)
      /\ Len(live(matcher)) = Len(stream) - LostOf(stream)
  BY <1>1, <1>2, <1>3, DropProperties
<1>5. Lost = LostOf(stream)
  BY <1>1, <1>2, <1>4 DEF Lost
<1>6. MatcherOK(matcher)
  BY DEF WindowInv, TypeOK, MatcherOK
<1> QED BY <1>1, <1>2, <1>3, <1>4, <1>5, <1>6

\* A pushed chunk leaves the newest bytes of the longer stream in the window.
LEMMA PushedWindow ==
  ASSUME ConstantsAssumption, WindowInv, NEW data \in Seq(Bytes)
  PROVE  LET p == push_without_matching(matcher, data)
             s == stream \o data
         IN  /\ MatcherOK(p)
             /\ s \in Seq(Bytes)
             /\ Len(s) = Len(stream) + Len(data)
             /\ live(p) = Drop(s, LostOf(s))
             /\ LostOf(s) \in 0..Len(s)
             /\ Len(live(p)) = Len(s) - LostOf(s)
             /\ LostOf(s) = LostOf(stream) + Dropped(matcher, Len(data))
             /\ p.search_start = saturating_sub(matcher.search_start, Dropped(matcher, Len(data)))
             /\ p.search_start <= Len(live(p))
<1> DEFINE p == push_without_matching(matcher, data)
           s == stream \o data
           dropped == Dropped(matcher, Len(data))
           lost == LostOf(stream)
<1>1. /\ MatcherOK(matcher)
      /\ stream \in Seq(Bytes)
      /\ Len(stream) \in Nat /\ Len(data) \in Nat /\ MaxBuffer \in Nat
      /\ lost \in 0..Len(stream)
      /\ live(matcher) = Drop(stream, lost)
      /\ Len(live(matcher)) = Len(stream) - lost
  BY WindowFacts, LenProperties DEF ConstantsAssumption
<1>2. /\ MatcherOK(p)
      /\ live(p) = Drop(live(matcher) \o data, dropped)
      /\ Len(live(p)) = (Len(live(matcher)) + Len(data)) - dropped
      /\ p.search_start = saturating_sub(matcher.search_start, dropped)
  BY <1>1, PushMovesWindow
<1>3. s \in Seq(Bytes) /\ Len(s) = Len(stream) + Len(data)
  BY <1>1, ConcatProperties
<1>4. lost + dropped = LostOf(s)
  <2>1. dropped = saturating_sub((Len(stream) - lost) + Len(data), MaxBuffer)
    BY <1>1 DEF Dropped
  <2>2. lost = saturating_sub(Len(stream), MaxBuffer)
    BY DEF LostOf
  <2>3. LostOf(s) = saturating_sub(Len(stream) + Len(data), MaxBuffer)
    BY <1>3 DEF LostOf
  <2> HIDE DEF lost, dropped, s
  <2> QED BY <1>1, <2>1, <2>2, <2>3, LostAddsUp
<1>5. dropped \in 0..(Len(stream) - lost) + Len(data)
  <2>1. dropped = saturating_sub((Len(stream) - lost) + Len(data), MaxBuffer)
    BY <1>1 DEF Dropped
  <2> HIDE DEF lost, dropped, s
  <2>2. (Len(stream) - lost) + Len(data) \in Nat
    BY <1>1
  <2> QED BY <1>1, <2>1, <2>2, SaturatingSub
<1>6. p.search_start <= Len(live(p))
  <2>1. matcher.search_start \in 0..Len(live(matcher)) /\ Len(live(matcher)) \in Nat
    <3>1. Len(live(matcher)) \in Nat
      BY <1>1
    <3> QED BY <3>1 DEF WindowInv, TypeOK
  <2>2. dropped = saturating_sub(Len(live(matcher)) + Len(data), MaxBuffer)
    BY DEF Dropped
  <2> HIDE DEF p, dropped, s, lost
  <2> QED BY <1>1, <1>2, <2>1, <2>2, SearchStartInWindow
<1> HIDE DEF dropped, lost, p
<1>7. lost \in 0..Len(s) /\ dropped \in 0..Len(s) - lost /\ lost + dropped \in 0..Len(s)
  <2> HIDE DEF s
  <2> QED BY <1>1, <1>3, <1>5
<1>8. live(matcher) \o data = Drop(s, lost)
  BY <1>1, DropConcat
<1>9. live(p) = Drop(s, lost + dropped)
  <2> HIDE DEF s
  <2>1. Drop(Drop(s, lost), dropped) = Drop(s, lost + dropped)
    BY <1>3, <1>7, DropDrop
  <2> QED BY <1>2, <1>8, <2>1
<1>10. Len(live(p)) = Len(s) - (lost + dropped)
  <2> HIDE DEF s
  <2> QED BY <1>3, <1>7, <1>9, DropProperties
<1> QED BY <1>2, <1>3, <1>4, <1>6, <1>7, <1>9, <1>10 DEF p, dropped, lost

\* The echo boundary of raw, if it has one, ends its first terminator.
LEMMA BoundaryProperties ==
  ASSUME NEW q \in Seq(Bytes), NEW e \in echo_line_boundary(q), Terminator \in Seq(Bytes)
  PROVE  \E i \in Occurrences(q, Terminator) :
           /\ e = i + Len(Terminator)
           /\ e \in 0..Len(q)
           /\ \A j \in Occurrences(q, Terminator) : i <= j
<1> DEFINE ends == Occurrences(q, Terminator)
<1>1. Len(q) \in Nat /\ Len(Terminator) \in Nat
  BY LenProperties
<1>2. ends # {} /\ e = Least(ends) + Len(Terminator)
  BY DEF echo_line_boundary
<1>3. ends \subseteq Nat
  BY <1>1 DEF Occurrences
<1>4. Least(ends) \in ends /\ \A j \in ends : Least(ends) <= j
  <2> HIDE DEF ends
  <2> QED BY <1>2, <1>3, LeastProperties
<1>5. e \in 0..Len(q)
  <2>1. OccursAt(q, Terminator, Least(ends)) /\ Least(ends) \in 0..Len(q)
    BY <1>4 DEF Occurrences
  <2>2. Least(ends) + Len(Terminator) <= Len(q)
    BY <2>1 DEF OccursAt
  <2> HIDE DEF ends
  <2> QED BY <1>1, <1>2, <2>1, <2>2
<1> QED BY <1>2, <1>4, <1>5

\* One chunk: the matcher it leaves holds the newest bytes of the longer stream.
LEMMA ChunkMovesWindow ==
  ASSUME ConstantsAssumption, WindowInv, NEW data \in Seq(Bytes), Chunk(data)
  PROVE  LET s == stream \o data
         IN  /\ MatcherOK(matcher')
             /\ s \in Seq(Bytes)
             /\ live(matcher') = Drop(s, LostOf(s))
             /\ matcher'.search_start <= Len(live(matcher'))
             /\ echo_boundary_seen' \in BOOLEAN
             /\ status' \in {"matched", "reading"}
<1> DEFINE p == push_without_matching(matcher, data)
           s == stream \o data
<1>1. /\ MatcherOK(p)
      /\ s \in Seq(Bytes)
      /\ live(p) = Drop(s, LostOf(s))
      /\ p.search_start <= Len(live(p))
  BY PushedWindow
<1>2. live(p) \in Seq(Bytes)
  <2>1. p.buffer \in Seq(Bytes) /\ p.head \in 0..Len(p.buffer)
    BY <1>1, LenProperties DEF MatcherOK, ConstantsAssumption
  <2> QED BY <2>1, DropProperties DEF live
<1> HIDE DEF p, s
<1>3. CASE matcher' = p /\ \E seen \in BOOLEAN : AfterChunk(p, seen)
  BY <1>1, <1>3, Zenon DEF AfterChunk, s
<1>4. ASSUME NEW boundary \in echo_line_boundary(live(p)),
             AfterChunk(set_search_start(p, boundary), TRUE)
      PROVE  /\ MatcherOK(matcher')
             /\ live(matcher') = live(p)
             /\ matcher'.search_start <= Len(live(matcher'))
             /\ echo_boundary_seen' \in BOOLEAN
             /\ status' \in {"matched", "reading"}
  <2>1. boundary \in Nat
    <3>1. boundary \in 0..Len(live(p)) /\ Len(live(p)) \in Nat
      BY <1>2, BoundaryProperties, LenProperties DEF ConstantsAssumption
    <3> QED BY <3>1
  <2> DEFINE r == set_search_start(p, boundary)
  <2>2. /\ MatcherOK(r)
        /\ live(r) = live(p)
        /\ r.search_start <= Len(live(r))
    BY <1>1, <2>1, SetSearchStart
  <2>3. /\ matcher' = r
        /\ echo_boundary_seen' \in BOOLEAN
        /\ status' \in {"matched", "reading"}
    BY <1>4 DEF AfterChunk
  <2> HIDE DEF r
  <2> QED BY <2>2, <2>3
<1>5. \/ AfterChunk(p, TRUE)
      \/ AfterChunk(p, FALSE)
      \/ \E boundary \in echo_line_boundary(live(p)) : AfterChunk(set_search_start(p, boundary), TRUE)
  BY Zenon DEF Chunk, p
<1>6. ASSUME NEW seen \in BOOLEAN, AfterChunk(p, seen)
      PROVE  matcher' = p /\ echo_boundary_seen' \in BOOLEAN /\ status' \in {"matched", "reading"}
  BY <1>6 DEF AfterChunk
<1>7. CASE \E seen \in BOOLEAN : AfterChunk(p, seen)
  <2>1. matcher' = p /\ echo_boundary_seen' \in BOOLEAN /\ status' \in {"matched", "reading"}
    BY <1>6, <1>7
  <2> QED BY <1>1, <2>1 DEF s
<1>8. CASE \E boundary \in echo_line_boundary(live(p)) : AfterChunk(set_search_start(p, boundary), TRUE)
  BY <1>1, <1>4, <1>8 DEF s
<1> QED BY <1>5, <1>7, <1>8

\* A chunk is a sequence of bytes.
LEMMA ChunkIsSeq ==
  ASSUME NEW n \in Nat, NEW data \in [1..n -> Bytes]
  PROVE  data \in Seq(Bytes) /\ Len(data) = n
<1>1. data \in Seq(Bytes)
  BY SeqDef
<1>2. DOMAIN data = 1..n /\ DOMAIN data = 1..Len(data) /\ Len(data) \in Nat
  BY <1>1, LenProperties
<1> QED BY <1>1, <1>2

\* A read begins with an empty window.
LEMMA InitWindow == ConstantsAssumption /\ Init => WindowInv
<1> SUFFICES ASSUME ConstantsAssumption, Init PROVE WindowInv
  OBVIOUS
<1>1. /\ <<>> \in Seq(Bytes)
      /\ Len(<<>>) = 0
      /\ MaxBuffer \in Nat
  BY EmptySeq DEF ConstantsAssumption
<1>2. Drop(<<>>, 0) = <<>>
  BY <1>1, DropZero
<1>3. matcher = [buffer |-> <<>>, head |-> 0, search_start |-> 0] /\ stream = <<>>
  BY DEF Init, EmptyMatcher
<1>4. live(matcher) = <<>>
  BY <1>2, <1>3 DEF live
<1>5. TypeOK
  BY <1>1, <1>3, <1>4 DEF TypeOK, Init
<1>6. saturating_sub(0, MaxBuffer) = 0
  BY <1>1 DEF saturating_sub
<1>7. WindowIsNewest
  BY <1>1, <1>2, <1>3, <1>4, <1>6 DEF WindowIsNewest
<1> QED BY <1>1, <1>4, <1>5, <1>7 DEF WindowInv

\* Every step keeps WindowInv.
LEMMA NextWindow ==
  ASSUME ConstantsAssumption, WindowInv, [Next]_vars
  PROVE  WindowInv'
<1>1. ASSUME ReadChunk PROVE WindowInv'
  <2> PICK n \in 1..MaxChunk : \E data \in [1..n -> Bytes] : stream' = stream \o data /\ Chunk(data)
    BY <1>1 DEF ReadChunk
  <2>1. PICK data \in [1..n -> Bytes] : stream' = stream \o data /\ Chunk(data)
    OBVIOUS
  <2>2. data \in Seq(Bytes)
    BY <2>1, ChunkIsSeq DEF ConstantsAssumption
  <2> DEFINE s == stream \o data
  <2>3. /\ MatcherOK(matcher')
        /\ s \in Seq(Bytes)
        /\ live(matcher') = Drop(s, LostOf(s))
        /\ matcher'.search_start <= Len(live(matcher'))
        /\ echo_boundary_seen' \in BOOLEAN
        /\ status' \in {"matched", "reading"}
    BY <2>1, <2>2, ChunkMovesWindow
  <2>4. stream' = s /\ UNCHANGED <<pattern, echo_mode>>
    BY <1>1, <2>1 DEF ReadChunk
  <2> HIDE DEF s
  <2>5. TypeOK'
    BY <2>3, <2>4 DEF TypeOK, WindowInv, MatcherOK
  <2>6. WindowIsNewest'
    BY <2>3, <2>4 DEF WindowIsNewest, LostOf
  <2> QED BY <2>3, <2>5, <2>6 DEF WindowInv, MatcherOK
<1>2. ASSUME UNCHANGED <<pattern, matcher, echo_mode, echo_boundary_seen, stream>>,
             status' \in {"reading", "matched", "eof", "timed_out", "cancelled", "io_error"}
      PROVE  WindowInv'
  BY <1>2 DEF WindowInv, TypeOK, WindowIsNewest
<1>3. ASSUME Eof PROVE WindowInv'
  BY <1>2, <1>3 DEF Eof
<1>4. ASSUME GiveUp PROVE WindowInv'
  BY <1>2, <1>4 DEF GiveUp
<1>5. ASSUME UNCHANGED vars PROVE WindowInv'
  BY <1>2, <1>5 DEF vars, WindowInv, TypeOK
<1> QED BY <1>1, <1>3, <1>4, <1>5 DEF Next

\* WindowInv implies what WindowExact states.
LEMMA WindowExactNow ==
  ASSUME ConstantsAssumption, WindowInv
  PROVE  PhysicalBound /\ WindowIsNewest /\ UntruncatedIsWhole
<1>1. PhysicalBound
  <2>1. /\ Len(matcher.buffer) \in Nat /\ matcher.buffer \in Seq(Bytes)
        /\ matcher.head \in 0..Len(matcher.buffer) /\ matcher.head <= MaxBuffer
        /\ MaxBuffer \in Nat
    BY LenProperties DEF WindowInv, TypeOK, ConstantsAssumption
  <2>2. Len(live(matcher)) = Len(matcher.buffer) - matcher.head
    BY <2>1, DropProperties DEF live
  <2> QED BY <2>1, <2>2 DEF WindowInv, PhysicalBound
<1>2. UntruncatedIsWhole
  <2> SUFFICES ASSUME ~truncated PROVE into_buffer = stream
    BY DEF UntruncatedIsWhole
  <2>1. MaxBuffer \in Nat
    BY DEF ConstantsAssumption
  <2>2. Len(stream) - LostOf(stream) < MaxBuffer
    BY <2>1, WindowFacts DEF truncated, into_buffer
  <2>3. LostOf(stream) = 0
    BY <2>1, <2>2, WindowFacts DEF LostOf, saturating_sub
  <2> QED BY <2>3, WindowFacts, DropZero DEF into_buffer
<1> QED BY <1>1, <1>2 DEF WindowInv

\* Whatever the device sends and however it falls into chunks, the matcher
\* keeps its types, its buffer stays within two caps, its window is exactly the
\* newest MAX_READ_BUFFER bytes, and a reply that is not marked truncated
\* carries every byte: lazy compaction is invisible.
THEOREM WindowExact ==
  Spec => [](TypeOK /\ PhysicalBound /\ WindowIsNewest /\ UntruncatedIsWhole)
<1>1. Init => WindowInv
  BY InitWindow, ConstantsAssumption
<1>2. WindowInv /\ [Next]_vars => WindowInv'
  BY NextWindow, ConstantsAssumption
<1>3. WindowInv => TypeOK /\ PhysicalBound /\ WindowIsNewest /\ UntruncatedIsWhole
  BY WindowExactNow, ConstantsAssumption DEF WindowInv
<1> QED BY <1>1, <1>2, <1>3, PTL DEF Spec

-----------------------------------------------------------------------------
(* Occurrences in a stream that grows, seen through a window that moves *)

\* What a slice holds.
LEMMA SliceProperties ==
  ASSUME NEW S, NEW r \in Seq(S), NEW i \in Nat, NEW k \in Nat, i + k <= Len(r)
  PROVE  /\ SubSeq(r, i + 1, i + k) \in Seq(S)
         /\ Len(SubSeq(r, i + 1, i + k)) = k
         /\ \A j \in 1..k : SubSeq(r, i + 1, i + k)[j] = r[i + j]
<1> DEFINE a == i + 1
           b == i + k
<1>1. \A j \in a..b : r[j] \in S
  BY ElementOfSeq, LenProperties
<1>2. a \in Int /\ b \in Int /\ b - a + 1 = k /\ (a <= b <=> k >= 1) /\ \A j \in 1..k : a + j - 1 = i + j
  OBVIOUS
<1> HIDE DEF a, b
<1>3. /\ SubSeq(r, a, b) \in Seq(S)
      /\ Len(SubSeq(r, a, b)) = IF a <= b THEN b - a + 1 ELSE 0
      /\ \A j \in 1..b - a + 1 : SubSeq(r, a, b)[j] = r[a + j - 1]
  BY <1>1, <1>2, SubSeqProperties
<1>4. Len(SubSeq(r, a, b)) = k
  BY <1>2, <1>3
<1>5. \A j \in 1..k : SubSeq(r, a, b)[j] = r[i + j]
  BY <1>2, <1>3
<1> QED BY <1>3, <1>4, <1>5 DEF a, b

\* A word occurs in what is left after dropping where it occurred before, shifted.
LEMMA OccursInWindow ==
  ASSUME NEW S, NEW q \in Seq(S), NEW word \in Seq(S), NEW n \in 0..Len(q), NEW i \in Nat
  PROVE  OccursAt(Drop(q, n), word, i) <=> OccursAt(q, word, n + i)
<1>1. Len(q) \in Nat /\ Len(word) \in Nat
  BY LenProperties
<1> DEFINE w == Drop(q, n)
           k == Len(word)
<1>2. /\ w \in Seq(S)
      /\ Len(w) = Len(q) - n
      /\ \A j \in 1..Len(q) - n : w[j] = q[j + n]
  BY DropProperties
<1> HIDE DEF w, k
<1>3. k \in Nat
  BY <1>1 DEF k
<1>4. i + k <= Len(w) <=> (n + i) + k <= Len(q)
  BY <1>1, <1>2, <1>3
<1>5. CASE i + k <= Len(w)
  <2>1. /\ Len(SubSeq(w, i + 1, i + k)) = k
        /\ SubSeq(w, i + 1, i + k) \in Seq(S)
        /\ \A j \in 1..k : SubSeq(w, i + 1, i + k)[j] = w[i + j]
    BY <1>2, <1>3, <1>5, SliceProperties
  <2>2. /\ Len(SubSeq(q, (n + i) + 1, (n + i) + k)) = k
        /\ SubSeq(q, (n + i) + 1, (n + i) + k) \in Seq(S)
        /\ \A j \in 1..k : SubSeq(q, (n + i) + 1, (n + i) + k)[j] = q[(n + i) + j]
    <3> DEFINE a == n + i
    <3>1. a \in Nat /\ a + k <= Len(q)
      BY <1>1, <1>4, <1>5
    <3> HIDE DEF a
    <3>2. /\ Len(SubSeq(q, a + 1, a + k)) = k
          /\ SubSeq(q, a + 1, a + k) \in Seq(S)
          /\ \A j \in 1..k : SubSeq(q, a + 1, a + k)[j] = q[a + j]
      BY <1>3, <3>1, SliceProperties
    <3> QED BY <3>2 DEF a
  <2>3. ASSUME NEW j \in 1..k PROVE w[i + j] = q[(n + i) + j]
    <3>1. i + j \in 1..Len(q) - n /\ (i + j) + n = (n + i) + j
      BY <1>1, <1>2, <1>3, <1>5
    <3> QED BY <1>2, <3>1
  <2>4. SubSeq(w, i + 1, i + k) = SubSeq(q, (n + i) + 1, (n + i) + k)
    <3> DEFINE a == SubSeq(w, i + 1, i + k)
               b == SubSeq(q, (n + i) + 1, (n + i) + k)
    <3>1. a \in Seq(S) /\ b \in Seq(S) /\ Len(a) = Len(b)
      BY <2>1, <2>2
    <3>2. \A j \in 1..Len(a) : a[j] = b[j]
      BY <2>1, <2>2, <2>3
    <3> HIDE DEF a, b
    <3>3. a = b
      BY <3>1, <3>2, SeqEqual
    <3> QED BY <3>3 DEF a, b
  <2> QED BY <1>4, <1>5, <2>4 DEF OccursAt, w, k
<1>6. CASE ~(i + k <= Len(w))
  BY <1>4, <1>6 DEF OccursAt, w, k
<1> QED BY <1>5, <1>6

\* Appending changes nothing of what occurs in a sequence.
LEMMA OccursInPrefix ==
  ASSUME NEW S, NEW q \in Seq(S), NEW d \in Seq(S), NEW word \in Seq(S), NEW i \in Nat,
         i + Len(word) <= Len(q)
  PROVE  OccursAt(q \o d, word, i) <=> OccursAt(q, word, i)
<1>1. Len(q) \in Nat /\ Len(d) \in Nat /\ Len(word) \in Nat
  BY LenProperties
<1> DEFINE k == Len(word)
           c == q \o d
<1>2. /\ c \in Seq(S)
      /\ Len(c) = Len(q) + Len(d)
      /\ \A j \in 1..Len(q) + Len(d) : c[j] = IF j <= Len(q) THEN q[j] ELSE d[j - Len(q)]
  BY ConcatProperties
<1> HIDE DEF c, k
<1>3. k \in Nat /\ i + k <= Len(q) /\ i + k <= Len(c)
  BY <1>1, <1>2 DEF k
<1>4. SubSeq(c, i + 1, i + k) = SubSeq(q, i + 1, i + k)
  <2> DEFINE a == SubSeq(c, i + 1, i + k)
             b == SubSeq(q, i + 1, i + k)
  <2>1. a \in Seq(S) /\ Len(a) = k /\ \A j \in 1..k : a[j] = c[i + j]
    BY <1>2, <1>3, SliceProperties
  <2>2. b \in Seq(S) /\ Len(b) = k /\ \A j \in 1..k : b[j] = q[i + j]
    BY <1>3, SliceProperties
  <2> HIDE DEF a, b
  <2>3. ASSUME NEW j \in 1..k PROVE a[j] = b[j]
    <3>1. i + j \in 1..Len(q) + Len(d) /\ i + j <= Len(q)
      BY <1>1, <1>3
    <3> QED BY <1>2, <2>1, <2>2, <3>1
  <2>4. a = b
    BY <2>1, <2>2, <2>3, SeqEqual
  <2> QED BY <2>4 DEF a, b
<1> QED BY <1>3, <1>4 DEF OccursAt, k, c

-----------------------------------------------------------------------------
(* The end of the echoed line *)

\* Two saturating differences in a row are one.
LEMMA SaturatingTwice ==
  ASSUME NEW e \in Nat, NEW a \in Nat, NEW d \in Nat
  PROVE  saturating_sub(saturating_sub(e, a), d) = saturating_sub(e, a + d)
<1>1. CASE e >= a
  BY <1>1 DEF saturating_sub
<1>2. CASE ~(e >= a)
  BY <1>2 DEF saturating_sub
<1> QED BY <1>1, <1>2

\* Adding back what a saturating difference took away.
LEMMA SaturatingBack ==
  ASSUME NEW a \in Nat, NEW b \in Nat
  PROVE  saturating_sub(a + b, a) = b /\ b <= a + saturating_sub(b, a)
BY DEF saturating_sub

\* What of a stream the window has lost.
LEMMA DroppedLength ==
  ASSUME ConstantsAssumption, NEW q \in Seq(Bytes)
  PROVE  /\ LostOf(q) \in 0..Len(q)
         /\ Drop(q, LostOf(q)) \in Seq(Bytes)
         /\ Len(Drop(q, LostOf(q))) = Len(q) - LostOf(q)
         /\ Len(q) - Len(Drop(q, LostOf(q))) = LostOf(q)
<1>1. Len(q) \in Nat /\ MaxBuffer \in Nat
  BY LenProperties DEF ConstantsAssumption
<1>2. LostOf(q) \in 0..Len(q)
  BY <1>1, SaturatingSub DEF LostOf
<1>3. Drop(q, LostOf(q)) \in Seq(Bytes) /\ Len(Drop(q, LostOf(q))) = Len(q) - LostOf(q)
  BY <1>2, DropProperties
<1> QED BY <1>1, <1>2, <1>3

\* An offset of the window is an offset of the stream, and the other way round
\* from where the window begins.
LEMMA WindowOccurrences ==
  ASSUME NEW q \in Seq(Bytes), NEW word \in Seq(Bytes), NEW n \in 0..Len(q), NEW i \in Nat
  PROVE  i \in Occurrences(Drop(q, n), word) <=> n + i \in Occurrences(q, word)
<1>1. Len(q) \in Nat /\ Len(Drop(q, n)) = Len(q) - n
  BY LenProperties, DropProperties
<1>2. i \in 0..Len(Drop(q, n)) <=> n + i \in 0..Len(q)
  BY <1>1
<1>3. OccursAt(Drop(q, n), word, i) <=> OccursAt(q, word, n + i)
  BY OccursInWindow
<1> QED BY <1>2, <1>3 DEF Occurrences

\* A member below all others is the least.
LEMMA LeastIs ==
  ASSUME NEW T, T \subseteq Nat, NEW x \in T, \A j \in T : x <= j
  PROVE  Least(T) = x
<1>1. Least(T) \in T /\ \A j \in T : Least(T) <= j
  BY LeastProperties
<1>2. Least(T) <= x /\ x <= Least(T) /\ x \in Nat /\ Least(T) \in Nat
  BY <1>1
<1> QED BY <1>2

\* The line that ends in a prefix ends there in the whole.
LEMMA OldBoundary ==
  ASSUME ConstantsAssumption, NEW q \in Seq(Bytes), NEW d \in Seq(Bytes),
         NEW e \in echo_line_boundary(q)
  PROVE  echo_line_boundary(q \o d) = {e}
<1> DEFINE c == q \o d
<1>1. /\ Terminator \in Seq(Bytes)
      /\ Len(q) \in Nat /\ Len(d) \in Nat /\ Len(Terminator) \in Nat
  BY LenProperties DEF ConstantsAssumption
<1>2. c \in Seq(Bytes) /\ Len(c) = Len(q) + Len(d)
  BY ConcatProperties
<1>3. PICK i \in Occurrences(q, Terminator) :
        /\ e = i + Len(Terminator)
        /\ e \in 0..Len(q)
        /\ \A j \in Occurrences(q, Terminator) : i <= j
  BY <1>1, BoundaryProperties
<1>4. i \in Nat /\ i + Len(Terminator) <= Len(q) /\ OccursAt(q, Terminator, i)
  BY <1>1, <1>3 DEF Occurrences
<1>5. Terminator # <<>>
  BY DEF echo_line_boundary
<1>6. OccursAt(c, Terminator, i)
  BY <1>1, <1>4, OccursInPrefix
<1>7. i \in Occurrences(c, Terminator)
  <2> HIDE DEF c
  <2>1. i \in 0..Len(c)
    BY <1>1, <1>2, <1>4
  <2> QED BY <1>6, <2>1 DEF Occurrences
<1>8. ASSUME NEW j \in Occurrences(c, Terminator) PROVE i <= j
  <2>1. j \in Nat /\ OccursAt(c, Terminator, j)
    <3> HIDE DEF c
    <3> QED BY <1>1, <1>2 DEF Occurrences
  <2>2. SUFFICES ASSUME ~(i <= j) PROVE FALSE
    OBVIOUS
  <2>3. j + Len(Terminator) <= Len(q) /\ j \in 0..Len(q)
    BY <1>1, <1>4, <2>1, <2>2
  <2>4. OccursAt(q, Terminator, j)
    BY <1>1, <2>1, <2>3, OccursInPrefix
  <2>5. j \in Occurrences(q, Terminator)
    BY <2>3, <2>4 DEF Occurrences
  <2> QED BY <1>3, <2>2, <2>5
<1>9. Occurrences(c, Terminator) \subseteq Nat
  <2> HIDE DEF c
  <2> QED BY <1>1, <1>2 DEF Occurrences
<1> HIDE DEF c
<1>10. Least(Occurrences(c, Terminator)) = i
  BY <1>7, <1>8, <1>9, LeastIs
<1>11. echo_line_boundary(c) = {Least(Occurrences(c, Terminator)) + Len(Terminator)}
  BY <1>5, <1>7 DEF echo_line_boundary
<1> QED BY <1>3, <1>10, <1>11 DEF c

\* A line that ends only now ends inside the window: a chunk and a terminator
\* together are no longer than the window.
LEMMA NewBoundary ==
  ASSUME ConstantsAssumption, NEW q \in Seq(Bytes), NEW d \in Seq(Bytes),
         Len(d) <= MaxChunk, Terminator # <<>>, echo_line_boundary(q) = {}
  PROVE  LET s == q \o d
             lost == LostOf(s)
         IN  echo_line_boundary(s) = {lost + b : b \in echo_line_boundary(Drop(s, lost))}
<1> DEFINE s == q \o d
           lost == LostOf(s)
           W == Occurrences(Drop(s, lost), Terminator)
           Q == Occurrences(s, Terminator)
           k == Len(Terminator)
<1>1. /\ Terminator \in Seq(Bytes)
      /\ Len(q) \in Nat /\ Len(d) \in Nat /\ k \in Nat
      /\ MaxBuffer \in Nat /\ MaxChunk \in Nat /\ MaxChunk + k <= MaxBuffer
  BY LenProperties DEF ConstantsAssumption
<1>2. s \in Seq(Bytes) /\ Len(s) = Len(q) + Len(d)
  BY ConcatProperties
<1>3. /\ lost \in 0..Len(s)
      /\ Drop(s, lost) \in Seq(Bytes)
      /\ lost = saturating_sub(Len(q) + Len(d), MaxBuffer)
  <2> HIDE DEF s
  <2> QED BY <1>2, DroppedLength DEF LostOf
<1>4. Occurrences(q, Terminator) = {}
  BY DEF echo_line_boundary
<1>5. ASSUME NEW i \in Nat PROVE i \in W <=> lost + i \in Q
  <2> HIDE DEF s, lost
  <2> QED BY <1>1, <1>2, <1>3, WindowOccurrences
<1>6. Q \subseteq Nat /\ W \subseteq Nat
  <2>1. Len(s) \in Nat /\ Len(Drop(s, lost)) \in Nat
    <3> HIDE DEF s, lost
    <3> QED BY <1>2, <1>3, LenProperties
  <2> HIDE DEF s, lost
  <2> QED BY <2>1 DEF Occurrences
<1>7. ASSUME NEW i \in Q PROVE lost <= i
  <2>1. i \in Nat /\ OccursAt(s, Terminator, i)
    BY <1>6 DEF Occurrences
  <2>2. ~(i + k <= Len(q))
    <3> SUFFICES ASSUME i + k <= Len(q) PROVE FALSE
      OBVIOUS
    <3>1. OccursAt(q, Terminator, i)
      BY <1>1, <2>1, OccursInPrefix
    <3>2. i \in 0..Len(q)
      <4> HIDE DEF k
      <4> QED BY <1>1, <2>1
    <3> QED BY <1>4, <3>1, <3>2 DEF Occurrences
  <2> HIDE DEF s, lost, k, Q
  <2> QED BY <1>1, <1>3, <2>1, <2>2 DEF saturating_sub
<1>8. ASSUME NEW i \in Q PROVE i - lost \in W /\ lost + (i - lost) = i
  <2>1. i - lost \in Nat /\ lost + (i - lost) = i
    <3> HIDE DEF s, lost, Q, W
    <3>1. lost \in Nat /\ i \in Nat /\ lost <= i
      BY <1>2, <1>3, <1>6, <1>7
    <3> QED BY <3>1
  <2> HIDE DEF s, lost, Q, W
  <2> QED BY <1>5, <2>1
<1>9. lost \in Nat
  <2> HIDE DEF s, lost
  <2> QED BY <1>3
<1>10. /\ echo_line_boundary(s) = IF Q = {} THEN {} ELSE {Least(Q) + k}
       /\ echo_line_boundary(Drop(s, lost)) = IF W = {} THEN {} ELSE {Least(W) + k}
  BY DEF echo_line_boundary
<1> HIDE DEF lost, W, Q, k
<1>11. ASSUME Q = {}
       PROVE  echo_line_boundary(s) = {lost + b : b \in echo_line_boundary(Drop(s, lost))}
  <2>1. W = {}
    BY <1>5, <1>6, <1>11
  <2> QED BY <1>10, <1>11, <2>1
<1>12. ASSUME Q # {}
       PROVE  echo_line_boundary(s) = {lost + b : b \in echo_line_boundary(Drop(s, lost))}
  <2>1. Least(Q) \in Q /\ \A j \in Q : Least(Q) <= j
    BY <1>6, <1>12, LeastProperties
  <2> DEFINE x == Least(Q) - lost
  <2>2. x \in W /\ lost + x = Least(Q) /\ x \in Nat
    BY <1>6, <1>8, <2>1
  <2>3. ASSUME NEW j \in W PROVE x <= j
    <3>1. j \in Nat /\ lost + j \in Q
      BY <1>5, <1>6
    <3>2. lost + x <= lost + j
      BY <2>1, <2>2, <3>1
    <3> HIDE DEF x
    <3> QED BY <1>9, <2>2, <3>1, <3>2
  <2> HIDE DEF x
  <2>4. Least(W) = x
    BY <1>6, <2>2, <2>3, LeastIs
  <2>5. /\ echo_line_boundary(s) = {Least(Q) + k}
        /\ echo_line_boundary(Drop(s, lost)) = {x + k}
    BY <1>10, <1>12, <2>2, <2>4
  <2>6. Least(Q) + k = lost + (x + k)
    BY <1>1, <1>9, <2>2
  <2>7. {lost + b : b \in {x + k}} = {lost + (x + k)}
    OBVIOUS
  <2> HIDE DEF s
  <2> QED BY <2>5, <2>6, <2>7
<1> QED BY <1>11, <1>12, Zenon DEF lost, s

-----------------------------------------------------------------------------
(* The inductive invariant of the echo *)

\* search_start stands at the end of the echo, or at the window's beginning once
\* the window has left the echo behind; and the read goes on only while nothing
\* after it matches.
EchoInv ==
  /\ echo_mode # "line" => echo_boundary_seen
  /\ ~echo_boundary_seen => EchoEnd = {}
  /\ echo_boundary_seen =>
       \E e \in 0..Len(stream) :
         EchoEnd = {e} /\ matcher.search_start = saturating_sub(e, LostOf(stream))
  /\ status = "reading" /\ stream # <<>> /\ echo_boundary_seen => ~is_match(matcher)

\* A read begins before the echo, or without one.
LEMMA InitEcho == ConstantsAssumption /\ Init => EchoInv
<1> SUFFICES ASSUME ConstantsAssumption, Init PROVE EchoInv
  OBVIOUS
<1>1. stream = <<>> /\ Len(stream) = 0 /\ stream \in Seq(Bytes)
  BY EmptySeq DEF Init
<1>2. echo_boundary_seen = (echo_mode # "line")
  BY DEF Init
<1>3. CASE echo_mode = "line"
  <2>1. Terminator # <<>> /\ Terminator \in Seq(Bytes)
    BY <1>3 DEF Init, ConstantsAssumption
  <2>2. Len(Terminator) \in Nat /\ Len(Terminator) # 0
    BY <2>1, LenProperties, EmptySeq
  <2>3. Occurrences(stream, Terminator) = {}
    BY <1>1, <2>2 DEF Occurrences, OccursAt
  <2>4. EchoEnd = {}
    BY <1>3, <2>3 DEF EchoEnd, echo_line_boundary
  <2> QED BY <1>2, <1>3, <2>4 DEF EchoInv
<1>4. CASE echo_mode # "line"
  <2>1. EchoEnd = {0} /\ matcher.search_start = 0
    BY <1>4 DEF EchoEnd, Init, EmptyMatcher
  <2>2. 0 = saturating_sub(0, LostOf(stream))
    <3>1. LostOf(stream) = 0
      <4>1. LostOf(stream) \in 0..Len(stream)
        BY <1>1, DroppedLength
      <4> QED BY <1>1, <4>1
    <3> QED BY <3>1 DEF saturating_sub
  <2>3. 0 \in 0..Len(stream)
    BY <1>1
  <2> QED BY <1>1, <1>2, <1>4, <2>1, <2>2, <2>3 DEF EchoInv
<1> QED BY <1>3, <1>4

\* Where the search starts after a chunk.
LEMMA ChunkMovesEcho ==
  ASSUME ConstantsAssumption, WindowInv, EchoInv, NEW data \in Seq(Bytes), Len(data) <= MaxChunk,
         Chunk(data), stream' = stream \o data, UNCHANGED <<pattern, echo_mode>>
  PROVE  EchoInv'
<1> DEFINE p == push_without_matching(matcher, data)
           s == stream \o data
           dropped == Dropped(matcher, Len(data))
           lost == LostOf(s)
<1>1. /\ MatcherOK(p)
      /\ s \in Seq(Bytes)
      /\ Len(s) = Len(stream) + Len(data)
      /\ live(p) = Drop(s, lost)
      /\ lost \in 0..Len(s)
      /\ lost = LostOf(stream) + dropped
      /\ p.search_start = saturating_sub(matcher.search_start, dropped)
  BY PushedWindow
<1>2. /\ Len(stream) \in Nat /\ Len(data) \in Nat
      /\ stream \in Seq(Bytes)
      /\ LostOf(stream) \in Nat
      /\ dropped \in Nat
  <2>1. /\ stream \in Seq(Bytes) /\ Len(stream) \in Nat /\ Len(data) \in Nat
        /\ LostOf(stream) \in 0..Len(stream)
        /\ Len(live(matcher)) \in Nat /\ MaxBuffer \in Nat
    BY WindowFacts, LenProperties DEF ConstantsAssumption
  <2>2. Len(live(matcher)) + Len(data) \in Nat
    BY <2>1
  <2>3. dropped \in Nat
    BY <2>1, <2>2, SaturatingSub DEF Dropped
  <2> HIDE DEF dropped
  <2> QED BY <2>1, <2>3
<1>3. live(p) \in Seq(Bytes) /\ Len(live(p)) = Len(s) - lost
  <2> HIDE DEF s, p
  <2> QED BY <1>1, DroppedLength
<1>4. stream' = s /\ echo_mode' = echo_mode /\ pattern' = pattern
  OBVIOUS
<1>5. EchoEnd' = IF echo_mode = "line" THEN echo_line_boundary(s) ELSE {0}
  BY <1>4 DEF EchoEnd, echo_line_boundary, Occurrences, OccursAt
<1>6. lost = LostOf(stream)'
  BY <1>4 DEF LostOf, saturating_sub
<1>7. ASSUME NEW m, NEW seen \in BOOLEAN, AfterChunk(m, seen)
      PROVE  /\ matcher' = m
             /\ echo_boundary_seen' = seen
             /\ status' = "reading" /\ seen => ~is_match(matcher)'
  BY <1>4, <1>7, Zenon DEF AfterChunk, is_match, Matches, Occurrences, OccursAt, live, Drop
<1> HIDE DEF p, s, dropped, lost
<1>8. ASSUME NEW e \in 0..Len(s), echo_boundary_seen', EchoEnd' = {e},
             matcher'.search_start = saturating_sub(e, lost),
             status' = "reading" => ~is_match(matcher)'
      PROVE  EchoInv'
  BY <1>4, <1>6, <1>8, Zenon DEF EchoInv
<1>9. CASE echo_boundary_seen /\ AfterChunk(p, TRUE)
  <2>1. /\ matcher' = p
        /\ echo_boundary_seen'
        /\ status' = "reading" => ~is_match(matcher)'
    BY <1>7, <1>9
  <2>2. PICK e \in 0..Len(stream) :
          EchoEnd = {e} /\ matcher.search_start = saturating_sub(e, LostOf(stream))
    BY <1>9 DEF EchoInv
  <2>3. p.search_start = saturating_sub(e, lost)
    BY <1>1, <1>2, <2>2, SaturatingTwice
  <2>4. EchoEnd' = {e}
    <3>1. CASE echo_mode = "line"
      <4>1. e \in echo_line_boundary(stream)
        BY <2>2, <3>1 DEF EchoEnd
      <4>2. echo_line_boundary(s) = {e}
        BY <1>2, <4>1, OldBoundary DEF s
      <4> QED BY <1>5, <3>1, <4>2
    <3>2. CASE echo_mode # "line"
      BY <1>5, <2>2, <3>2 DEF EchoEnd
    <3> QED BY <3>1, <3>2
  <2>5. e \in 0..Len(s)
    BY <1>1, <1>2
  <2> QED BY <1>8, <2>1, <2>3, <2>4, <2>5
<1>10. ASSUME ~echo_boundary_seen
       PROVE  /\ EchoEnd' = echo_line_boundary(s)
              /\ echo_line_boundary(s) = {lost + b : b \in echo_line_boundary(live(p))}
              /\ echo_mode = "line"
  <2>1. echo_mode = "line" /\ EchoEnd = {}
    BY <1>10 DEF EchoInv
  <2>2. echo_line_boundary(stream) = {}
    BY <2>1 DEF EchoEnd
  <2>3. Terminator # <<>>
    BY <2>1 DEF ConstantsAssumption, WindowInv, TypeOK
  <2>4. echo_line_boundary(s) = {lost + b : b \in echo_line_boundary(live(p))}
    BY <1>1, <1>2, <2>2, <2>3, NewBoundary DEF s, lost
  <2> QED BY <1>5, <2>1, <2>4
<1>11. CASE ~echo_boundary_seen /\ echo_line_boundary(live(p)) = {} /\ AfterChunk(p, FALSE)
  <2>1. EchoEnd' = {}
    BY <1>10, <1>11
  <2>2. ~echo_boundary_seen' /\ echo_mode' = "line"
    BY <1>4, <1>7, <1>10, <1>11
  <2> QED BY <2>1, <2>2 DEF EchoInv
<1>12. CASE /\ ~echo_boundary_seen
            /\ \E b \in echo_line_boundary(live(p)) : AfterChunk(set_search_start(p, b), TRUE)
  <2>1. PICK b \in echo_line_boundary(live(p)) : AfterChunk(set_search_start(p, b), TRUE)
    BY <1>12
  <2>2. b \in 0..Len(live(p))
    BY <1>3, BoundaryProperties DEF ConstantsAssumption
  <2>3. b \in Nat /\ b <= Len(live(p)) /\ lost \in Nat /\ lost + b \in 0..Len(s)
    <3>1. Len(s) \in Nat
      BY <1>1, <1>2
    <3> QED BY <1>1, <1>3, <2>2, <3>1
  <2>4. set_search_start(p, b).search_start = b
    BY <1>1, <2>3, SetSearchStart
  <2>5. /\ matcher'.search_start = b
        /\ echo_boundary_seen'
        /\ status' = "reading" => ~is_match(matcher)'
    BY <1>7, <2>1, <2>4
  <2>6. echo_line_boundary(live(p)) = {b}
    BY DEF echo_line_boundary
  <2>7. EchoEnd' = {lost + b}
    BY <1>10, <1>12, <2>6
  <2>8. saturating_sub(lost + b, lost) = b
    BY <2>3, SaturatingBack
  <2> QED BY <1>8, <2>3, <2>5, <2>7, <2>8
<1>13. \/ echo_boundary_seen /\ AfterChunk(p, TRUE)
       \/ ~echo_boundary_seen /\ echo_line_boundary(live(p)) = {} /\ AfterChunk(p, FALSE)
       \/ /\ ~echo_boundary_seen
          /\ \E b \in echo_line_boundary(live(p)) : AfterChunk(set_search_start(p, b), TRUE)
  BY Zenon DEF Chunk, p
<1> QED BY <1>9, <1>11, <1>12, <1>13

\* Every step keeps EchoInv.
LEMMA NextEcho ==
  ASSUME ConstantsAssumption, WindowInv, EchoInv, [Next]_vars
  PROVE  EchoInv'
<1>1. ASSUME ReadChunk PROVE EchoInv'
  <2> PICK n \in 1..MaxChunk : \E data \in [1..n -> Bytes] : stream' = stream \o data /\ Chunk(data)
    BY <1>1 DEF ReadChunk
  <2>1. PICK data \in [1..n -> Bytes] : stream' = stream \o data /\ Chunk(data)
    OBVIOUS
  <2>2. data \in Seq(Bytes) /\ Len(data) <= MaxChunk
    BY <2>1, ChunkIsSeq DEF ConstantsAssumption
  <2>3. UNCHANGED <<pattern, echo_mode>>
    BY <1>1 DEF ReadChunk
  <2> QED BY <2>1, <2>2, <2>3, ChunkMovesEcho
<1>2. ASSUME UNCHANGED <<pattern, matcher, echo_mode, echo_boundary_seen, stream>>,
             status' # "reading" \/ status' = status
      PROVE  EchoInv'
  <2>1. /\ EchoEnd' = EchoEnd
        /\ is_match(matcher)' = is_match(matcher)
        /\ LostOf(stream)' = LostOf(stream)
    BY <1>2 DEF EchoEnd, echo_line_boundary, is_match, Matches, Occurrences, OccursAt, live, Drop,
                LostOf, saturating_sub
  <2> QED BY <1>2, <2>1, Zenon DEF EchoInv
<1>3. ASSUME Eof PROVE EchoInv'
  BY <1>2, <1>3 DEF Eof
<1>4. ASSUME GiveUp PROVE EchoInv'
  BY <1>2, <1>4 DEF GiveUp
<1>5. ASSUME UNCHANGED vars PROVE EchoInv'
  BY <1>2, <1>5 DEF vars
<1> QED BY <1>1, <1>3, <1>4, <1>5 DEF Next

\* WindowInv and EchoInv imply what EchoExcluded states.
LEMMA EchoExcludedNow ==
  ASSUME ConstantsAssumption, WindowInv, EchoInv
  PROVE  EchoNotMatched /\ NoMissedMatch
<1>1. /\ Lost = LostOf(stream)
      /\ LostOf(stream) \in 0..Len(stream)
      /\ stream \in Seq(Bytes) /\ Len(stream) \in Nat
      /\ live(matcher) = Drop(stream, LostOf(stream))
      /\ live(matcher) \in Seq(Bytes)
      /\ pattern \in Seq(Bytes)
  BY WindowFacts DEF WindowInv, TypeOK, ConstantsAssumption
<1>2. Matches(matcher) \subseteq Nat
  BY <1>1, LenProperties DEF Matches, Occurrences
<1>3. EchoNotMatched
  <2> SUFFICES ASSUME NEW d \in match_details
               PROVE  \E e \in EchoEnd : e <= Lost + d.start
    BY DEF EchoNotMatched
  <2>1. echo_boundary_seen /\ Matches(matcher) # {} /\ d.start = Least(Matches(matcher))
    BY DEF match_details, is_match
  <2>2. PICK e \in 0..Len(stream) :
          EchoEnd = {e} /\ matcher.search_start = saturating_sub(e, LostOf(stream))
    BY <2>1 DEF EchoInv
  <2>3. d.start \in Matches(matcher)
    BY <1>2, <2>1, LeastProperties
  <2>4. d.start \in Nat /\ matcher.search_start <= d.start
    BY <1>2, <2>3 DEF Matches
  <2>5. e \in Nat /\ LostOf(stream) \in Nat
    BY <1>1
  <2>6. /\ e <= LostOf(stream) + saturating_sub(e, LostOf(stream))
        /\ saturating_sub(e, LostOf(stream)) \in Nat
    BY <2>5, SaturatingBack, SaturatingSub
  <2>7. e <= Lost + d.start
    BY <1>1, <2>2, <2>4, <2>5, <2>6
  <2> QED BY <2>2, <2>7
<1>4. NoMissedMatch
  <2> SUFFICES ASSUME status = "reading", stream # <<>>,
                      NEW e \in EchoEnd, NEW i \in Occurrences(stream, pattern),
                      ~(i < e), ~(i < Lost)
               PROVE  FALSE
    BY DEF NoMissedMatch
  <2>1. echo_boundary_seen /\ ~is_match(matcher)
    BY DEF EchoInv
  <2>2. e \in 0..Len(stream) /\ matcher.search_start = saturating_sub(e, LostOf(stream))
    BY <2>1 DEF EchoInv
  <2>3. i \in Nat
    BY <1>1 DEF Occurrences
  <2> DEFINE j == i - LostOf(stream)
  <2>4. j \in Nat /\ LostOf(stream) + j = i
    BY <1>1, <2>3
  <2>5. matcher.search_start <= j
    BY <1>1, <2>2, <2>3 DEF saturating_sub
  <2> HIDE DEF j
  <2>6. j \in Occurrences(live(matcher), pattern)
    BY <1>1, <2>4, WindowOccurrences
  <2> QED BY <2>1, <2>5, <2>6 DEF is_match, Matches
<1> QED BY <1>3, <1>4

\* Whatever the device sends and however it falls into chunks, a match that
\* read_until or exec reports lies after the declared echo, even when the
\* window has dropped the echo, and no match after the echo is passed over.
THEOREM EchoExcluded == Spec => [](EchoNotMatched /\ NoMissedMatch)
<1>1. Init => WindowInv /\ EchoInv
  BY InitWindow, InitEcho, ConstantsAssumption
<1>2. WindowInv /\ EchoInv /\ [Next]_vars => WindowInv' /\ EchoInv'
  BY NextWindow, NextEcho, ConstantsAssumption
<1>3. WindowInv /\ EchoInv => EchoNotMatched /\ NoMissedMatch
  BY EchoExcludedNow, ConstantsAssumption
<1> QED BY <1>1, <1>2, <1>3, PTL DEF Spec
=============================================================================
