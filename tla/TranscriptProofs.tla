-------------------------- MODULE TranscriptProofs --------------------------
(***************************************************************************)
(* Theorems about Transcript, for every set of pieces and bodies, every    *)
(* terminator and every window.                                            *)
(***************************************************************************)
EXTENDS Transcript, SetInduction

-----------------------------------------------------------------------------
(* Least elements and the recursive functions *)

\* First is the least element.
LEMMA FirstIsLeast ==
  ASSUME NEW S \in SUBSET Nat, S # {}
  PROVE  First(S) \in S /\ \A i \in S : First(S) <= i
<1>1. \E i \in S : \A j \in S : i <= j
  BY LeastNatural
<1> QED BY <1>1 DEF First

LEMMA FirstIs ==
  ASSUME NEW S \in SUBSET Nat, NEW i \in S, \A j \in S : i <= j
  PROVE  First(S) = i
<1>1. First(S) \in S /\ First(S) <= i
  BY FirstIsLeast, S # {}
<1>2. First(S) \in Nat /\ i \in Nat /\ i <= First(S)
  BY <1>1
<1> QED BY <1>1, <1>2

\* Where osc_end finds the end of a body: after it begins, in q, and before q
\* is over.
LEMMA EndsInside ==
  ASSUME NEW q, Len(q) \in Nat, NEW i \in Nat, NEW e \in osc_ends(q, i)
  PROVE  e = <<e[1], e[2]>> /\ e[1] \in i..Len(q) /\ e[2] \in e[1] + 1..Len(q) + 1
  BY DEF osc_ends

\* The first end of a body.
FirstEnd(q, i) == CHOOSE x \in osc_ends(q, i) : \A y \in osc_ends(q, i) : x[1] <= y[1]

LEMMA FirstEndIsFirst ==
  ASSUME NEW q, Len(q) \in Nat, NEW i \in Nat, osc_ends(q, i) # {}
  PROVE  /\ FirstEnd(q, i) \in osc_ends(q, i)
         /\ \A y \in osc_ends(q, i) : FirstEnd(q, i)[1] <= y[1]
<1> DEFINE Firsts == {e[1] : e \in osc_ends(q, i)}
<1>1. Firsts \in SUBSET Nat /\ Firsts # {}
  BY EndsInside
<1>2. \E n \in Firsts : \A m \in Firsts : n <= m
  BY <1>1, LeastNatural
<1>3. \E x \in osc_ends(q, i) : \A y \in osc_ends(q, i) : x[1] <= y[1]
  BY <1>2
<1> QED BY <1>3 DEF FirstEnd

\* A parsed marker has the place it was parsed at.
LEMMA ParsedPlace ==
  ASSUME NEW start, NEW end, NEW body, parse_osc_marker(start, end, body) # None
  PROVE  /\ parse_osc_marker(start, end, body).start = start
         /\ parse_osc_marker(start, end, body).end = end
<1>1. \E id, kind, command, status, exit_code :
        parse_osc_marker(start, end, body) =
          [start |-> start, end |-> end, id |-> id, kind |-> kind,
           command |-> command, status |-> status, exit_code |-> exit_code]
  BY Zenon DEF parse_osc_marker
<1> QED BY <1>1

\* A marker lies where it was found, in q.
LEMMA MarkerInside ==
  ASSUME NEW q, Len(q) \in Nat, NEW start \in Nat, MarkerAt(q, start) # None
  PROVE  /\ MarkerAt(q, start).start = start
         /\ MarkerAt(q, start).end \in start + 3..Len(q) + 1
<1> DEFINE e == FirstEnd(q, start + 2)
<1>1. osc_ends(q, start + 2) # {}
  BY DEF MarkerAt
<1>2. MarkerAt(q, start) = parse_osc_marker(start, e[2], SubSeq(q, start + 2, e[1] - 1))
  BY <1>1 DEF MarkerAt, FirstEnd
<1>3. e \in osc_ends(q, start + 2)
  BY <1>1, FirstEndIsFirst
<1>4. e[2] \in start + 3..Len(q) + 1
  BY <1>3, EndsInside
<1> HIDE DEF e
<1> QED BY <1>2, <1>4, ParsedPlace

\* What MarkersFrom does at cursor, when after is what it finds from there on.
MarkersStep(q, after, cursor) ==
  LET starts == Prefixes3008(q, cursor)
      marker == MarkerAt(q, First(starts))
  IN IF starts = {} THEN <<>>
     ELSE IF marker = None \/ after[marker.end] = None THEN None
     ELSE <<marker>> \o after[marker.end]

\* The cursor only moves on, so what MarkersFrom does at cursor depends only on
\* what it finds after it.
LEMMA MarkersStepLooksAhead ==
  ASSUME NEW q, Len(q) \in Nat, NEW cursor \in Nat, NEW f, NEW g,
         \A n \in Nat : n > cursor => f[n] = g[n]
  PROVE  MarkersStep(q, f, cursor) = MarkersStep(q, g, cursor)
<1> DEFINE starts == Prefixes3008(q, cursor)
           marker == MarkerAt(q, First(starts))
<1>1. CASE starts = {} \/ marker = None
  BY <1>1, Zenon DEF MarkersStep
<1>2. CASE starts # {} /\ marker # None
  <2>1. starts \in SUBSET Nat /\ \A i \in starts : i >= cursor
    BY DEF Prefixes3008
  <2>2. First(starts) \in Nat /\ First(starts) >= cursor
    BY <1>2, <2>1, FirstIsLeast
  <2>3. marker.end \in Nat /\ marker.end > cursor
    <3> HIDE DEF starts
    <3>1. marker.end \in First(starts) + 3..Len(q) + 1
      BY <1>2, <2>2, MarkerInside
    <3> QED BY <2>2, <3>1
  <2>4. f[marker.end] = g[marker.end]
    BY <2>3
  <2> QED BY <2>4, Zenon DEF MarkersStep
<1> QED BY <1>1, <1>2

\* The recursion of MarkersFrom is well-founded.
LEMMA MarkersEquation ==
  ASSUME NEW q, Len(q) \in Nat
  PROVE  \A cursor \in Nat :
           MarkersFrom(q)[cursor] = MarkersStep(q, MarkersFrom(q), cursor)
<1> DEFINE N == Len(q) + 1
           IsAbove(f, k) == \A n \in Nat : n + k >= N => f[n] = MarkersStep(q, f, n)
           T == {k \in Nat : \E f : f = [n \in Nat |-> f[n]] /\ IsAbove(f, k)}
<1>1. 0 \in T
  <2> DEFINE f == [n \in Nat |-> <<>>]
  <2>1. \A n \in Nat : n >= N => Prefixes3008(q, n) = {}
    BY DEF Prefixes3008
  <2>2. \A n \in Nat : n >= N => MarkersStep(q, f, n) = <<>>
    BY <2>1, Zenon DEF MarkersStep
  <2>3. IsAbove(f, 0)
    BY <2>2
  <2>4. f = [n \in Nat |-> f[n]]
    OBVIOUS
  <2> HIDE DEF f, IsAbove
  <2> QED BY <2>3, <2>4
<1>2. ASSUME NEW k \in Nat, k \in T PROVE k + 1 \in T
  <2>1. PICK f : f = [n \in Nat |-> f[n]] /\ IsAbove(f, k)
    BY <1>2
  <2> DEFINE g == [n \in Nat |-> IF n + k >= N THEN f[n] ELSE MarkersStep(q, f, n)]
  <2>2. ASSUME NEW n \in Nat, n + (k + 1) >= N PROVE g[n] = MarkersStep(q, g, n)
    <3>1. \A m \in Nat : m > n => m + k >= N
      BY <2>2
    <3>2. \A m \in Nat : m > n => g[m] = f[m]
      BY <3>1
    <3>3. MarkersStep(q, g, n) = MarkersStep(q, f, n)
      <4> HIDE DEF g
      <4> QED BY <3>2, MarkersStepLooksAhead
    <3>4. g[n] = MarkersStep(q, f, n)
      BY <2>1, Zenon
    <3> QED BY <3>3, <3>4, Zenon
  <2>3. IsAbove(g, k + 1)
    BY <2>2
  <2>4. g = [n \in Nat |-> g[n]]
    OBVIOUS
  <2> HIDE DEF g, IsAbove
  <2> QED BY <2>3, <2>4
<1>3. N \in T
  <2> HIDE DEF T
  <2> QED BY <1>1, <1>2, Induction
<1>4. PICK f : f = [n \in Nat |-> f[n]] /\ IsAbove(f, N)
  BY <1>3
<1>5. \A n \in Nat : f[n] = MarkersStep(q, f, n)
  BY <1>4
<1>6. f = [n \in Nat |-> MarkersStep(q, f, n)]
  BY <1>4, <1>5
<1>7. MarkersFrom(q) = CHOOSE from : from = [n \in Nat |-> MarkersStep(q, from, n)]
  BY Zenon DEF MarkersFrom, MarkersStep
<1>8. MarkersFrom(q) = [n \in Nat |-> MarkersStep(q, MarkersFrom(q), n)]
  BY <1>6, <1>7, Zenon
<1> QED BY <1>8, Zenon

-----------------------------------------------------------------------------
(* The markers lie one after another *)

Found(q) == {MarkerAt(q, i) : i \in Nat} \ {None}

InOrder(q, markers, cursor) ==
  \A i \in 1..Len(markers) :
    /\ cursor <= markers[i].start /\ markers[i].start < markers[i].end
    /\ markers[i].end <= IF i = Len(markers) THEN Len(q) + 1 ELSE markers[i + 1].start

LEMMA FoundInside ==
  ASSUME NEW q, Len(q) \in Nat, NEW m \in Found(q)
  PROVE  /\ m.start \in Nat /\ m.end \in Nat
         /\ m.start < m.end /\ m.end <= Len(q) + 1
         /\ m = MarkerAt(q, m.start)
<1>1. PICK i \in Nat : m = MarkerAt(q, i) /\ MarkerAt(q, i) # None
  BY DEF Found
<1>2. m.start = i /\ m.end \in i + 3..Len(q) + 1
  BY <1>1, MarkerInside
<1> QED BY <1>1, <1>2

\* What MarkersFrom finds from a cursor on: nothing, no answer, or the first
\* marker and what it finds from its end on.
LEMMA MarkersCases ==
  ASSUME NEW q, Len(q) \in Nat, NEW cursor \in Nat
  PROVE  LET starts == Prefixes3008(q, cursor)
             first  == First(starts)
             marker == MarkerAt(q, first)
         IN \/ starts = {} /\ MarkersFrom(q)[cursor] = <<>>
            \/ MarkersFrom(q)[cursor] = None
            \/ /\ starts # {} /\ first \in starts /\ first >= cursor /\ first \in Nat
               /\ marker # None /\ marker \in Found(q) /\ marker.start = first
               /\ marker.end \in first + 3..Len(q) + 1
               /\ MarkersFrom(q)[marker.end] # None
               /\ MarkersFrom(q)[cursor] = <<marker>> \o MarkersFrom(q)[marker.end]
<1> DEFINE starts == Prefixes3008(q, cursor)
           first  == First(starts)
           marker == MarkerAt(q, first)
           M == MarkersFrom(q)
<1>1. M[cursor] = MarkersStep(q, M, cursor)
  BY MarkersEquation
<1>2. CASE starts = {}
  BY <1>1, <1>2, Zenon DEF MarkersStep
<1>3. CASE starts # {}
  <2>1. starts \in SUBSET Nat /\ \A i \in starts : i >= cursor
    BY DEF Prefixes3008
  <2>2. first \in starts /\ first >= cursor /\ first \in Nat
    <3> HIDE DEF starts
    <3> QED BY <1>3, <2>1, FirstIsLeast
  <2>3. CASE marker = None \/ M[marker.end] = None
    BY <1>1, <1>3, <2>3, Zenon DEF MarkersStep
  <2>4. CASE marker # None /\ M[marker.end] # None
    <3>1. M[cursor] = <<marker>> \o M[marker.end]
      BY <1>1, <1>3, <2>4, Zenon DEF MarkersStep
    <3>2. marker.start = first /\ marker.end \in first + 3..Len(q) + 1
      <4> HIDE DEF first
      <4> QED BY <2>2, <2>4, MarkerInside
    <3>3. marker \in Found(q)
      BY <2>2, <2>4 DEF Found
    <3> HIDE DEF M, marker, first, starts
    <3>4. /\ starts # {} /\ first \in starts /\ first >= cursor /\ first \in Nat
          /\ marker # None /\ marker \in Found(q) /\ marker.start = first
          /\ marker.end \in first + 3..Len(q) + 1
          /\ M[marker.end] # None
          /\ M[cursor] = <<marker>> \o M[marker.end]
      BY <1>3, <2>2, <2>4, <3>1, <3>2, <3>3
    <3> QED BY <3>4 DEF M, marker, first, starts
  <2> QED BY <2>3, <2>4
<1> QED BY <1>2, <1>3

LEMMA MarkersInOrder ==
  ASSUME NEW q, Len(q) \in Nat
  PROVE  \A cursor \in Nat :
           MarkersFrom(q)[cursor] # None =>
             /\ MarkersFrom(q)[cursor] \in Seq(Found(q))
             /\ InOrder(q, MarkersFrom(q)[cursor], cursor)
<1> DEFINE M == MarkersFrom(q)
           T == {c \in Nat : M[c] # None => M[c] \in Seq(Found(q)) /\ InOrder(q, M[c], c)}
           N == Len(q) + 1
<1>1. ASSUME NEW c \in Nat, M[c] = <<>> PROVE c \in T
  <2>1. <<>> \in Seq(Found(q)) /\ InOrder(q, <<>>, c)
    BY DEF InOrder
  <2> HIDE DEF M
  <2> QED BY <1>1, <2>1
<1>2. ASSUME NEW c \in Nat, c >= N PROVE c \in T
  <2>1. Prefixes3008(q, c) = {}
    BY <1>2 DEF Prefixes3008
  <2>2. M[c] = <<>> \/ M[c] = None
    BY <2>1, MarkersCases
  <2> QED BY <1>1, <2>2
<1>3. ASSUME NEW c \in 0..N - 1, \A d \in Nat : d > c => d \in T PROVE c \in T
  <2>1. CASE M[c] = <<>> \/ M[c] = None
    BY <1>1, <2>1
  <2>2. CASE \E m \in Found(q) : /\ m.start >= c /\ M[m.end] # None
                                /\ M[c] = <<m>> \o M[m.end]
    <3>1. PICK m \in Found(q) : m.start >= c /\ M[m.end] # None /\ M[c] = <<m>> \o M[m.end]
      BY <2>2
    <3>2. m.start \in Nat /\ m.end \in Nat /\ m.start < m.end /\ m.end <= Len(q) + 1
      BY <3>1, FoundInside
    <3>3. m.end \in T
      BY <1>3, <3>1, <3>2
    <3>4. PICK r : r = M[m.end]
      OBVIOUS
    <3>5. r \in Seq(Found(q)) /\ InOrder(q, r, m.end)
      BY <3>1, <3>3, <3>4
    <3>6. M[c] = <<m>> \o r
      BY <3>1, <3>4
    <3> HIDE DEF M
    <3>7. PICK s : s = <<m>> \o r
      OBVIOUS
    <3>8. s \in Seq(Found(q)) /\ Len(s) = Len(r) + 1 /\ Len(r) \in Nat
      BY <3>1, <3>5, <3>7
    <3>9. s[1] = m /\ \A i \in 2..Len(s) : s[i] = r[i - 1]
      BY <3>1, <3>5, <3>7
    <3>10. \A i \in 1..Len(s) : s[i] \in Found(q)
      BY <3>8
    <3>11. InOrder(q, s, c)
      <4> SUFFICES ASSUME NEW i \in 1..Len(s)
                   PROVE  /\ c <= s[i].start /\ s[i].start < s[i].end
                          /\ s[i].end <= IF i = Len(s) THEN Len(q) + 1 ELSE s[i + 1].start
        BY DEF InOrder
      <4>1. CASE i = 1
        <5>1. i = Len(s) \/ (i + 1 \in 2..Len(s) /\ s[i + 1] = r[1] /\ 1 \in 1..Len(r))
          BY <3>8, <3>9, <4>1
        <5>2. 1 \in 1..Len(r) => m.end <= r[1].start
          BY <3>5 DEF InOrder
        <5> QED BY <3>1, <3>2, <3>9, <4>1, <5>1, <5>2
      <4>2. CASE i # 1
        <5>1. i - 1 \in 1..Len(r) /\ s[i] = r[i - 1]
          BY <3>8, <3>9, <4>2
        <5>2. i = Len(s) <=> i - 1 = Len(r)
          BY <3>8
        <5>3. i # Len(s) => i + 1 \in 2..Len(s) /\ s[i + 1] = r[(i - 1) + 1]
          BY <3>8, <3>9, <4>2
        <5>4. /\ m.end <= s[i].start /\ s[i].start < s[i].end
              /\ s[i].end <= IF i - 1 = Len(r) THEN Len(q) + 1 ELSE r[(i - 1) + 1].start
          BY <3>5, <5>1 DEF InOrder
        <5>5. s[i].start \in Nat
          BY <3>10, FoundInside
        <5>6. c <= s[i].start
          BY <3>1, <3>2, <5>4, <5>5
        <5> QED BY <5>2, <5>3, <5>4, <5>6
      <4> QED BY <4>1, <4>2
    <3>12. M[c] \in Seq(Found(q)) /\ InOrder(q, M[c], c)
      BY <3>6, <3>7, <3>8, <3>11
    <3> QED BY <3>12
  <2>3. \/ M[c] = <<>> \/ M[c] = None
        \/ \E m \in Found(q) : /\ m.start >= c /\ M[m.end] # None
                               /\ M[c] = <<m>> \o M[m.end]
    <3>1. c \in Nat
      OBVIOUS
    <3> QED BY <3>1, MarkersCases, Zenon
  <2> QED BY <2>1, <2>2, <2>3
<1>4. Nat \subseteq T
  <2>1. N \in Nat
    OBVIOUS
  <2> HIDE DEF T, N
  <2> QED BY <1>2, <1>3, <2>1, DownwardInduction
<1> QED BY <1>4

-----------------------------------------------------------------------------
(* Flattening a sequence of sequences *)

\* The flattened prefixes, as FlattenSeq's recursion computes them.
Flattened(seqs) ==
  LET flatten[i \in 1..Len(seqs)] ==
        IF i = 1 THEN seqs[i] ELSE flatten[i - 1] \o seqs[i]
  IN flatten

LEMMA FlattenedEquation ==
  ASSUME NEW s, Len(s) \in Nat
  PROVE  \A i \in 1..Len(s) :
           Flattened(s)[i] = IF i = 1 THEN s[i] ELSE Flattened(s)[i - 1] \o s[i]
<1> DEFINE Is(f, k) == f = [i \in 1..k |-> IF i = 1 THEN s[i] ELSE f[i - 1] \o s[i]]
           T == {k \in Nat : \E f : Is(f, k)}
<1>1. 0 \in T
  <2>1. Is([i \in 1..0 |-> s], 0)
    OBVIOUS
  <2> QED BY <2>1
<1>2. ASSUME NEW k \in Nat, k \in T PROVE k + 1 \in T
  <2>1. PICK f : Is(f, k)
    BY <1>2
  <2> DEFINE g == [i \in 1..k + 1 |-> IF i = 1 THEN s[i] ELSE f[i - 1] \o s[i]]
  <2>2. \A i \in 1..k : g[i] = f[i]
    <3>1. \A i \in 1..k : f[i] = IF i = 1 THEN s[i] ELSE f[i - 1] \o s[i]
      BY <2>1, Zenon
    <3>2. \A i \in 1..k : i \in 1..k + 1
      OBVIOUS
    <3> QED BY <3>1, <3>2, Zenon
  <2>3. \A i \in 1..k + 1 : i # 1 => i - 1 \in 1..k
    OBVIOUS
  <2>4. \A i \in 1..k + 1 : i # 1 => g[i - 1] = f[i - 1]
    BY <2>2, <2>3
  <2>5. Is(g, k + 1)
    BY <2>4, Zenon
  <2> HIDE DEF g, Is
  <2> QED BY <2>5
<1>3. Len(s) \in T
  <2> HIDE DEF T
  <2> QED BY <1>1, <1>2, Induction
<1>4. PICK f : Is(f, Len(s))
  BY <1>3
<1>5. Flattened(s) = CHOOSE flatten : Is(flatten, Len(s))
  BY DEF Flattened
<1>6. Is(Flattened(s), Len(s))
  BY <1>4, <1>5
<1> QED BY <1>6

\* A flattened prefix depends on that prefix only.
LEMMA FlattenedPrefix ==
  ASSUME NEW s, NEW t, Len(s) \in Nat, Len(t) \in Nat, NEW n \in Nat,
         n <= Len(s), n <= Len(t), \A i \in 1..n : s[i] = t[i]
  PROVE  \A i \in 1..n : Flattened(s)[i] = Flattened(t)[i]
<1> DEFINE F == Flattened(s)
           G == Flattened(t)
           T == {k \in Nat : k \in 1..n => F[k] = G[k]}
<1>1. \A i \in 1..n : F[i] = IF i = 1 THEN s[i] ELSE F[i - 1] \o s[i]
  BY FlattenedEquation
<1>2. \A i \in 1..n : G[i] = IF i = 1 THEN t[i] ELSE G[i - 1] \o t[i]
  BY FlattenedEquation
<1> HIDE DEF F, G
<1>3. 0 \in T
  OBVIOUS
<1>4. ASSUME NEW k \in Nat, k \in T PROVE k + 1 \in T
  <2> SUFFICES ASSUME k + 1 \in 1..n PROVE F[k + 1] = G[k + 1]
    OBVIOUS
  <2>1. s[k + 1] = t[k + 1]
    OBVIOUS
  <2>2. CASE k = 0
    BY <1>1, <1>2, <2>1, <2>2
  <2>3. CASE k # 0
    <3>1. k \in 1..n /\ F[k] = G[k] /\ (k + 1) - 1 = k /\ k + 1 # 1
      BY <1>4, <2>3
    <3>2. F[k + 1] = F[(k + 1) - 1] \o s[k + 1]
      BY <1>1, <3>1, Zenon
    <3>3. G[k + 1] = G[(k + 1) - 1] \o t[k + 1]
      BY <1>2, <3>1, Zenon
    <3> QED BY <2>1, <3>1, <3>2, <3>3, Zenon
  <2> QED BY <2>2, <2>3
<1>5. Nat \subseteq T
  <2> HIDE DEF T
  <2> QED BY <1>3, <1>4, Induction
<1> QED BY <1>5 DEF F, G

LEMMA FlattenIs ==
  ASSUME NEW s, Len(s) \in Nat
  PROVE  FlattenSeq(s) = IF Len(s) = 0 THEN s ELSE Flattened(s)[Len(s)]
  BY DEF FlattenSeq, Flattened

LEMMA FlattenEmpty == FlattenSeq(<<>>) = <<>>
  BY FlattenIs

\* Flattening appends.
LEMMA FlattenAppend ==
  ASSUME NEW S, NEW s \in Seq(Seq(S)), NEW p \in Seq(S)
  PROVE  FlattenSeq(Append(s, p)) = FlattenSeq(s) \o p
<1>1. PICK t : t = Append(s, p)
  OBVIOUS
<1>2. /\ Len(t) \in Nat /\ Len(s) \in Nat /\ Len(t) = Len(s) + 1
      /\ t[Len(t)] = p /\ \A i \in 1..Len(s) : s[i] = t[i]
  BY <1>1
<1>3. FlattenSeq(t) = Flattened(t)[Len(t)]
  BY <1>2, FlattenIs
<1>4. CASE Len(s) = 0
  <2>1. s = <<>> /\ <<>> \o p = p
    BY <1>4
  <2>2. FlattenSeq(t) = p
    BY <1>2, <1>3, <1>4, FlattenedEquation
  <2> QED BY <1>1, <2>1, <2>2, FlattenEmpty
<1>5. CASE Len(s) # 0
  <2>1. Len(t) - 1 = Len(s) /\ Len(t) # 1 /\ Len(t) \in 1..Len(t) /\ Len(s) \in 1..Len(s)
    BY <1>2, <1>5
  <2>2. Flattened(t)[Len(t)] = Flattened(t)[Len(s)] \o p
    BY <1>2, <2>1, FlattenedEquation
  <2>3. Flattened(t)[Len(s)] = Flattened(s)[Len(s)]
    <3>1. Len(s) <= Len(t) /\ Len(s) <= Len(s)
      BY <1>2
    <3> QED BY <1>2, <2>1, <3>1, FlattenedPrefix
  <2>4. FlattenSeq(s) = Flattened(s)[Len(s)]
    BY <1>2, <1>5, FlattenIs
  <2> QED BY <1>1, <1>3, <2>2, <2>3, <2>4
<1> QED BY <1>4, <1>5

\* The first n + 1 elements are the first n and the next.
LEMMA NextPrefix ==
  ASSUME NEW S, NEW s \in Seq(S), NEW n \in 0..Len(s) - 1
  PROVE  SubSeq(s, 1, n + 1) = Append(SubSeq(s, 1, n), s[n + 1])
  OBVIOUS

LEMMA FlattenTyped ==
  ASSUME NEW S, NEW s \in Seq(Seq(S))
  PROVE  FlattenSeq(s) \in Seq(S)
<1> DEFINE T == {n \in Nat : n <= Len(s) => FlattenSeq(SubSeq(s, 1, n)) \in Seq(S)}
<1>1. 0 \in T
  <2>1. SubSeq(s, 1, 0) = <<>> /\ <<>> \in Seq(S)
    OBVIOUS
  <2>2. FlattenSeq(SubSeq(s, 1, 0)) \in Seq(S)
    BY <2>1, FlattenEmpty, Zenon
  <2> QED BY <2>2
<1>2. ASSUME NEW n \in Nat, n \in T PROVE n + 1 \in T
  <2> SUFFICES ASSUME n + 1 <= Len(s) PROVE FlattenSeq(SubSeq(s, 1, n + 1)) \in Seq(S)
    OBVIOUS
  <2>1. SubSeq(s, 1, n) \in Seq(Seq(S)) /\ s[n + 1] \in Seq(S) /\ n \in 0..Len(s) - 1
    OBVIOUS
  <2>2. FlattenSeq(SubSeq(s, 1, n)) \in Seq(S)
    BY <1>2
  <2>3. FlattenSeq(SubSeq(s, 1, n + 1)) = FlattenSeq(SubSeq(s, 1, n)) \o s[n + 1]
    BY <2>1, NextPrefix, FlattenAppend
  <2>4. PICK a : a = FlattenSeq(SubSeq(s, 1, n))
    OBVIOUS
  <2>5. a \o s[n + 1] \in Seq(S)
    BY <2>1, <2>2, <2>4
  <2> QED BY <2>3, <2>4, <2>5, Zenon
<1>3. Nat \subseteq T
  <2> HIDE DEF T
  <2> QED BY <1>1, <1>2, Induction
<1>4. FlattenSeq(SubSeq(s, 1, Len(s))) \in Seq(S)
  BY <1>3
<1>5. SubSeq(s, 1, Len(s)) = s
  OBVIOUS
<1> QED BY <1>4, <1>5, Zenon

-----------------------------------------------------------------------------
(* What has arrived *)

\* part is a beginning of a piece, shorter than it.
BeginningOf(p) ==
  /\ Len(part) < Len(p) /\ \A k \in 1..Len(part) : part[k] = p[k]

Arrived ==
  /\ sent \in Seq(Pieces) /\ part \in Seq(STRING)
  /\ part = <<>> \/ \E p \in Pieces : BeginningOf(p)

LEMMA StrictPrefixIs ==
  ASSUME NEW s \in Seq(STRING), NEW t \in Seq(STRING)
  PROVE  IsStrictPrefix(s, t) <=> Len(s) < Len(t) /\ \A k \in 1..Len(s) : s[k] = t[k]
<1>1. SubSeq(s, 1, Len(s)) = s
  OBVIOUS
<1>2. IsPrefix(s, t) <=> Len(s) <= Len(t) /\ \A k \in 1..Len(s) : s[k] = t[k]
  <2>1. CASE Len(s) <= Len(t)
    <3>1. PICK u : u = SubSeq(t, 1, Len(s))
      OBVIOUS
    <3>2. u \in Seq(STRING) /\ Len(u) = Len(s) /\ \A k \in 1..Len(s) : u[k] = t[k]
      BY <2>1, <3>1
    <3>3. s = u <=> \A k \in 1..Len(s) : s[k] = u[k]
      BY <3>2
    <3> QED BY <1>1, <2>1, <3>1, <3>2, <3>3 DEF IsPrefix
  <2>2. CASE ~ (Len(s) <= Len(t))
    BY <2>2 DEF IsPrefix
  <2> QED BY <2>1, <2>2
<1>3. ASSUME Len(s) = Len(t), \A k \in 1..Len(s) : s[k] = t[k] PROVE s = t
  BY <1>3
<1> QED BY <1>2, <1>3 DEF IsStrictPrefix

\* Pieces arrive whole, one after another.
LEMMA ArrivedInductive ==
  /\ Init => Arrived
  /\ Arrived /\ [Next]_vars => Arrived'
<1>1. Init => Arrived
  BY DEF Init, Arrived
<1>2. ASSUME Arrived, [Next]_vars PROVE Arrived'
  <2>1. CASE UNCHANGED vars
    BY <1>2, <2>1 DEF vars, Arrived, BeginningOf
  <2>2. CASE Next
    <3>1. PICK p \in Pieces :
            /\ IsStrictPrefix(part, p)
            /\ IF Len(part) + 1 = Len(p)
               THEN sent' = Append(sent, p) /\ part' = <<>>
               ELSE sent' = sent /\ part' = SubSeq(p, 1, Len(part) + 1)
      BY <2>2 DEF Next, Arrives
    <3>2. p \in Seq(STRING) /\ part \in Seq(STRING) /\ sent \in Seq(Pieces)
      BY <1>2, ConstantsAssumption DEF Arrived
    <3>3. Len(part) < Len(p)
      BY <3>1, <3>2, StrictPrefixIs
    <3>4. CASE Len(part) + 1 = Len(p)
      BY <3>1, <3>2, <3>4 DEF Arrived
    <3>5. CASE Len(part) + 1 # Len(p)
      <4>1. sent' = sent /\ part' = SubSeq(p, 1, Len(part) + 1)
        BY <3>1, <3>5
      <4>2. /\ part' \in Seq(STRING) /\ Len(part') = Len(part) + 1
            /\ \A k \in 1..Len(part') : part'[k] = p[k]
        BY <3>2, <3>3, <4>1
      <4>3. Len(part') < Len(p)
        BY <3>2, <3>3, <3>5, <4>2
      <4> QED BY <3>2, <4>1, <4>2, <4>3 DEF Arrived, BeginningOf
    <3> QED BY <3>4, <3>5
  <2> QED BY <1>2, <2>1, <2>2
<1> QED BY <1>1, <1>2

\* The window is the end of the stream.
LEMMA WindowOfStream ==
  ASSUME Arrived
  PROVE  /\ FlattenSeq(sent) \in Seq(STRING) /\ stream \in Seq(STRING)
         /\ Lost \in 0..Len(stream)
         /\ raw \in Seq(STRING) /\ Len(raw) = Len(stream) - Lost
         /\ \A k \in 1..Len(raw) : raw[k] = stream[k + Lost]
<1>1. sent \in Seq(Seq(STRING)) /\ part \in Seq(STRING)
  BY ConstantsAssumption DEF Arrived
<1>2. FlattenSeq(sent) \in Seq(STRING)
  BY <1>1, FlattenTyped
<1>3. stream \in Seq(STRING)
  BY <1>1, <1>2 DEF stream
<1>4. Lost \in 0..Len(stream)
  BY <1>3, ConstantsAssumption DEF Lost
<1>5. /\ raw \in Seq(STRING) /\ Len(raw) = Len(stream) - Lost
      /\ \A k \in 1..Len(raw) : raw[k] = stream[k + Lost]
  BY <1>3, <1>4 DEF raw
<1> QED BY <1>2, <1>3, <1>4, <1>5

-----------------------------------------------------------------------------
(* Reports *)

LEMMA OscEnd ==
  ASSUME NEW q, Len(q) \in Nat, NEW i \in Nat, NEW j, NEW m
  PROVE  <<j, m>> \in osc_ends(q, i) <=>
           \/ j \in i..Len(q) /\ q[j] = "bel" /\ m = j + 1
           \/ j \in i..Len(q) - 1 /\ q[j] = "esc" /\ q[j + 1] = "bs" /\ m = j + 2
  BY DEF osc_ends

\* A longer transcript has the ends that a beginning of it has, and its first
\* one is theirs, if they have any.
LEMMA FirstEndStays ==
  ASSUME NEW q \in Seq(STRING), NEW n \in 0..Len(q), NEW i \in Nat \ {0},
         osc_ends(SubSeq(q, 1, n), i) # {}
  PROVE  /\ osc_ends(q, i) # {}
         /\ FirstEnd(q, i) = FirstEnd(SubSeq(q, 1, n), i)
<1> DEFINE q0 == SubSeq(q, 1, n)
           e  == FirstEnd(q0, i)
           e1 == FirstEnd(q, i)
<1>1. Len(q0) = n /\ \A k \in 1..n : q0[k] = q[k]
  OBVIOUS
<1>2. Len(q) \in Nat /\ n \in Nat /\ n <= Len(q) /\ i \in Nat /\ i > 0 /\ Len(q0) \in Nat
  BY <1>1
<1> HIDE DEF q0
<1>3. ASSUME NEW x \in osc_ends(q0, i) PROVE x \in osc_ends(q, i) /\ x[1] \in i..n
  <2>1. x = <<x[1], x[2]>> /\ x[1] \in i..n
    BY <1>1, <1>2, EndsInside
  <2>2. <<x[1], x[2]>> \in osc_ends(q0, i)
    BY <2>1
  <2>3. \/ x[1] \in i..n /\ q0[x[1]] = "bel" /\ x[2] = x[1] + 1
        \/ x[1] \in i..n - 1 /\ q0[x[1]] = "esc" /\ q0[x[1] + 1] = "bs" /\ x[2] = x[1] + 2
    BY <1>1, <1>2, <2>2, OscEnd
  <2>4. \/ x[1] \in i..Len(q) /\ q[x[1]] = "bel" /\ x[2] = x[1] + 1
        \/ x[1] \in i..Len(q) - 1 /\ q[x[1]] = "esc" /\ q[x[1] + 1] = "bs" /\ x[2] = x[1] + 2
    BY <1>1, <1>2, <2>3
  <2>5. <<x[1], x[2]>> \in osc_ends(q, i)
    BY <1>2, <2>4, OscEnd
  <2> QED BY <2>1, <2>5
<1>4. ASSUME NEW x \in osc_ends(q, i), x[1] < n PROVE x \in osc_ends(q0, i)
  <2>1. x = <<x[1], x[2]>> /\ x[1] \in i..Len(q)
    BY <1>2, EndsInside
  <2>2. <<x[1], x[2]>> \in osc_ends(q, i)
    BY <2>1
  <2>3. \/ x[1] \in i..Len(q) /\ q[x[1]] = "bel" /\ x[2] = x[1] + 1
        \/ x[1] \in i..Len(q) - 1 /\ q[x[1]] = "esc" /\ q[x[1] + 1] = "bs" /\ x[2] = x[1] + 2
    BY <1>2, <2>2, OscEnd
  <2>4. \/ x[1] \in i..Len(q0) /\ q0[x[1]] = "bel" /\ x[2] = x[1] + 1
        \/ x[1] \in i..Len(q0) - 1 /\ q0[x[1]] = "esc" /\ q0[x[1] + 1] = "bs" /\ x[2] = x[1] + 2
    BY <1>1, <1>2, <1>4, <2>1, <2>3
  <2>5. <<x[1], x[2]>> \in osc_ends(q0, i)
    BY <1>2, <2>4, OscEnd
  <2> QED BY <2>1, <2>5
<1>5. e \in osc_ends(q0, i) /\ \A y \in osc_ends(q0, i) : e[1] <= y[1]
  BY <1>2, FirstEndIsFirst DEF q0
<1>6. osc_ends(q, i) # {}
  BY <1>3, <1>5
<1>7. e1 \in osc_ends(q, i) /\ \A y \in osc_ends(q, i) : e1[1] <= y[1]
  BY <1>2, <1>6, FirstEndIsFirst
<1> HIDE DEF e, e1
<1>8. e1[1] \in Nat /\ e[1] \in Nat /\ e1[1] <= e[1] /\ e[1] <= n
  <2>1. e1[1] \in i..Len(q)
    BY <1>2, <1>7, EndsInside
  <2> QED BY <1>2, <1>3, <1>5, <1>7, <2>1
<1>9. e1[1] = e[1]
  <2>1. CASE e1[1] < n
    BY <1>4, <1>5, <1>7, <1>8, <2>1
  <2>2. CASE e1[1] >= n
    BY <1>2, <1>8, <2>2
  <2> QED BY <1>2, <1>8, <2>1, <2>2
<1>10. e = <<e[1], e[2]>> /\ e1 = <<e1[1], e1[2]>>
  BY <1>2, <1>5, <1>7, EndsInside
<1>11. <<e[1], e[2]>> \in osc_ends(q, i) /\ <<e1[1], e1[2]>> \in osc_ends(q, i)
  BY <1>3, <1>5, <1>7, <1>10
<1>12. e1[2] = e[2]
  BY <1>2, <1>9, <1>11, OscEnd
<1>13. e1 = e
  BY <1>9, <1>10, <1>12
<1> QED BY <1>6, <1>13 DEF e, e1, q0


LEMMA SliceStays ==
  ASSUME NEW q \in Seq(STRING), NEW n \in 0..Len(q), NEW a \in Nat \ {0}, NEW b \in Int, b <= n
  PROVE  SubSeq(SubSeq(q, 1, n), a, b) = SubSeq(q, a, b)
<1>1. PICK q0 : q0 = SubSeq(q, 1, n)
  OBVIOUS
<1>2. q0 \in Seq(STRING) /\ Len(q0) = n /\ \A k \in 1..n : q0[k] = q[k]
  BY <1>1
<1>3. SubSeq(q0, a, b) = SubSeq(q, a, b)
  BY <1>2
<1> QED BY <1>1, <1>3

LEMMA MarkerStays ==
  ASSUME NEW q \in Seq(STRING), NEW n \in 0..Len(q), NEW start \in Nat,
         MarkerAt(SubSeq(q, 1, n), start) # None
  PROVE  MarkerAt(q, start) = MarkerAt(SubSeq(q, 1, n), start)
<1> DEFINE q0 == SubSeq(q, 1, n)
           e  == FirstEnd(q0, start + 2)
<1>1. osc_ends(q0, start + 2) # {}
  BY Zenon DEF MarkerAt
<1>2. osc_ends(q, start + 2) # {} /\ FirstEnd(q, start + 2) = e
  <2>1. start + 2 \in Nat \ {0}
    OBVIOUS
  <2> QED BY <1>1, <2>1, FirstEndStays
<1>3. e[1] \in start + 2..n
  <2>1. Len(q0) = n /\ n \in Nat /\ start + 2 \in Nat
    OBVIOUS
  <2> HIDE DEF q0
  <2>2. e \in osc_ends(q0, start + 2)
    BY <1>1, <2>1, FirstEndIsFirst
  <2> HIDE DEF e
  <2> QED BY <2>1, <2>2, EndsInside
<1>4. SubSeq(q0, start + 2, e[1] - 1) = SubSeq(q, start + 2, e[1] - 1)
  <2> HIDE DEF e
  <2>1. e[1] - 1 \in Int /\ e[1] - 1 <= n /\ start + 2 \in Nat \ {0}
    BY <1>3
  <2> QED BY <2>1, SliceStays
<1>5. MarkerAt(q0, start) = parse_osc_marker(start, e[2], SubSeq(q0, start + 2, e[1] - 1))
  BY <1>1, Zenon DEF MarkerAt, FirstEnd
<1>6. MarkerAt(q, start) = parse_osc_marker(start, e[2], SubSeq(q, start + 2, e[1] - 1))
  BY <1>2, Zenon DEF MarkerAt, FirstEnd
<1> QED BY <1>4, <1>5, <1>6, Zenon

\* The first prefix of a beginning of q is the first prefix of q.
LEMMA PrefixStays ==
  ASSUME NEW q \in Seq(STRING), NEW n \in 0..Len(q), NEW cursor \in Nat \ {0},
         Prefixes3008(SubSeq(q, 1, n), cursor) # {}
  PROVE  /\ Prefixes3008(q, cursor) # {}
         /\ First(Prefixes3008(q, cursor)) = First(Prefixes3008(SubSeq(q, 1, n), cursor))
<1>1. PICK q0 : q0 = SubSeq(q, 1, n)
  OBVIOUS
<1>2. Len(q0) = n /\ \A k \in 1..n : q0[k] = q[k]
  BY <1>1
<1>3. PICK P0 : P0 = Prefixes3008(q0, cursor)
  OBVIOUS
<1>4. PICK P : P = Prefixes3008(q, cursor)
  OBVIOUS
<1>5. P0 \in SUBSET Nat /\ P \in SUBSET Nat
  BY <1>2, <1>3, <1>4 DEF Prefixes3008
<1>6. \A i \in P0 : i \in P /\ i <= n - 2
  BY <1>2, <1>3, <1>4 DEF Prefixes3008
<1>7. \A i \in P : i <= n - 2 => i \in P0
  BY <1>2, <1>3, <1>4 DEF Prefixes3008
<1>8. P0 # {} /\ P # {}
  BY <1>1, <1>3, <1>6
<1>9. First(P0) \in P0 /\ \A i \in P0 : First(P0) <= i
  BY <1>5, <1>8, FirstIsLeast
<1>10. First(P0) \in P /\ \A i \in P : First(P0) <= i
  <2>1. First(P0) \in Nat /\ First(P0) <= n - 2 /\ First(P0) \in P
    BY <1>5, <1>6, <1>9
  <2>2. ASSUME NEW i \in P PROVE First(P0) <= i
    <3>1. i \in Nat
      BY <1>5
    <3>2. CASE i <= n - 2
      BY <1>7, <1>9, <3>2
    <3>3. CASE ~ (i <= n - 2)
      BY <2>1, <3>1, <3>3
    <3> QED BY <3>2, <3>3
  <2> QED BY <2>1, <2>2
<1>11. First(P) = First(P0)
  BY <1>5, <1>10, FirstIs
<1> QED BY <1>1, <1>3, <1>4, <1>8, <1>11

LEMMA ToSetCons ==
  ASSUME NEW S, NEW x \in S, NEW r \in Seq(S)
  PROVE  ToSet(<<x>> \o r) = {x} \cup ToSet(r)
<1>1. PICK s : s = <<x>> \o r
  OBVIOUS
<1>2. /\ Len(s) = Len(r) + 1 /\ Len(r) \in Nat /\ DOMAIN s = 1..Len(s) /\ DOMAIN r = 1..Len(r)
      /\ s[1] = x /\ \A i \in 1..Len(r) : s[i + 1] = r[i]
  BY <1>1
<1>3. ToSet(s) \subseteq {x} \cup ToSet(r)
  <2> SUFFICES ASSUME NEW i \in 1..Len(s) PROVE s[i] \in {x} \cup ToSet(r)
    BY <1>2 DEF ToSet
  <2>1. CASE i = 1
    BY <1>2, <2>1
  <2>2. CASE i # 1
    <3>1. i - 1 \in 1..Len(r) /\ s[(i - 1) + 1] = r[i - 1] /\ (i - 1) + 1 = i
      BY <1>2, <2>2
    <3> QED BY <1>2, <3>1 DEF ToSet
  <2> QED BY <2>1, <2>2
<1>4. {x} \cup ToSet(r) \subseteq ToSet(s)
  <2>1. x \in ToSet(s)
    <3>1. 1 \in 1..Len(s)
      BY <1>2
    <3> QED BY <1>2, <3>1 DEF ToSet
  <2>2. ASSUME NEW i \in 1..Len(r) PROVE r[i] \in ToSet(s)
    <3>1. i + 1 \in 1..Len(s)
      BY <1>2
    <3> QED BY <1>2, <3>1 DEF ToSet
  <2> QED BY <1>2, <2>1, <2>2 DEF ToSet
<1> QED BY <1>1, <1>3, <1>4

\* What MarkersFrom finds in a beginning of q, it finds in q.
LEMMA MarkersStay ==
  ASSUME NEW q \in Seq(STRING), NEW n \in 0..Len(q)
  PROVE  \A c \in Nat \ {0} :
           LET early == MarkersFrom(SubSeq(q, 1, n))[c]
               late  == MarkersFrom(q)[c]
           IN early # None /\ late # None => ToSet(early) \subseteq ToSet(late)
<1> DEFINE q0 == SubSeq(q, 1, n)
           M0 == MarkersFrom(q0)
           M  == MarkersFrom(q)
           N  == Len(q) + 1
           T  == {c \in Nat : c # 0 /\ M0[c] # None /\ M[c] # None
                                => ToSet(M0[c]) \subseteq ToSet(M[c])}
<1>1. q0 \in Seq(STRING) /\ Len(q0) = n /\ n \in Nat /\ Len(q) \in Nat /\ n <= Len(q)
  OBVIOUS
<1>2. ASSUME NEW c \in Nat, M0[c] = <<>> PROVE c \in T
  <2>1. ToSet(<<>>) = {}
    BY DEF ToSet
  <2> HIDE DEF M0, M
  <2> QED BY <1>2, <2>1
<1>3. ASSUME NEW c \in Nat, c >= N PROVE c \in T
  <2>1. Prefixes3008(q0, c) = {}
    <3> HIDE DEF q0
    <3> QED BY <1>1, <1>3 DEF Prefixes3008
  <2>2. M0[c] = <<>> \/ M0[c] = None
    <3> HIDE DEF q0
    <3> QED BY <1>1, <2>1, MarkersCases, Zenon
  <2> QED BY <1>2, <2>2
<1>4. ASSUME NEW c \in 0..N - 1, \A d \in Nat : d > c => d \in T PROVE c \in T
  <2> SUFFICES ASSUME c # 0, M0[c] # None, M[c] # None, M0[c] # <<>>
               PROVE  ToSet(M0[c]) \subseteq ToSet(M[c])
    BY <1>2
  <2> DEFINE first == First(Prefixes3008(q0, c))
             m     == MarkerAt(q0, first)
  <2>1. c \in Nat /\ c \in Nat \ {0}
    OBVIOUS
  <2>2. /\ Prefixes3008(q0, c) # {} /\ first \in Nat /\ first >= c
        /\ m # None /\ m \in Found(q0)
        /\ m.end \in first + 3..Len(q0) + 1
        /\ M0[m.end] # None /\ M0[c] = <<m>> \o M0[m.end]
    <3> HIDE DEF q0
    <3> QED BY <1>1, <2>1, MarkersCases, Zenon
  <2>3. Prefixes3008(q, c) # {} /\ First(Prefixes3008(q, c)) = first
    BY <2>1, <2>2, PrefixStays
  <2>4. MarkerAt(q, first) = m
    <3> HIDE DEF first
    <3> QED BY <2>2, MarkerStays
  <2>5. M[m.end] # None /\ M[c] = <<m>> \o M[m.end] /\ m \in Found(q)
    <3>1. \/ Prefixes3008(q, c) = {}
          \/ M[c] = None
          \/ /\ MarkerAt(q, first) \in Found(q) /\ M[MarkerAt(q, first).end] # None
             /\ M[c] = <<MarkerAt(q, first)>> \o M[MarkerAt(q, first).end]
      BY <1>1, <2>1, <2>3, MarkersCases, Zenon
    <3> QED BY <2>3, <2>4, <3>1, Zenon
  <2>6. m.end \in Nat \ {0} /\ m.end > c
    <3> HIDE DEF m, first
    <3> QED BY <1>1, <2>1, <2>2
  <2>7. PICK k : k = m.end
    OBVIOUS
  <2>8. k \in T
    BY <1>4, <2>6, <2>7
  <2>9. PICK r0, r : r0 = M0[k] /\ r = M[k]
    OBVIOUS
  <2>10. r0 \in Seq(Found(q0)) /\ r \in Seq(Found(q)) /\ r0 # None /\ r # None
    <3>1. k \in Nat
      BY <2>6, <2>7
    <3>2. M0[k] # None /\ M[k] # None
      BY <2>2, <2>5, <2>7, Zenon
    <3>3. M0[k] \in Seq(Found(q0))
      <4> HIDE DEF q0
      <4> QED BY <1>1, <3>1, <3>2, MarkersInOrder, Zenon
    <3>4. M[k] \in Seq(Found(q))
      BY <1>1, <3>1, <3>2, MarkersInOrder, Zenon
    <3> QED BY <2>9, <3>2, <3>3, <3>4, Zenon
  <2>11. ToSet(r0) \subseteq ToSet(r)
    <3>1. k # 0
      BY <2>6, <2>7
    <3>2. ToSet(M0[k]) \subseteq ToSet(M[k])
      <4> HIDE DEF M0, M
      <4> QED BY <2>8, <2>9, <2>10, <3>1
    <3> QED BY <2>9, <3>2, Zenon
  <2>12. PICK x : x = m
    OBVIOUS
  <2>13. M0[c] = <<x>> \o r0 /\ M[c] = <<x>> \o r /\ x \in Found(q0) /\ x \in Found(q)
    BY <2>2, <2>5, <2>7, <2>9, <2>12, Zenon
  <2> HIDE DEF M0, M, m, first, q0
  <2>14. ToSet(<<x>> \o r0) = {x} \cup ToSet(r0)
    BY <2>10, <2>13, ToSetCons
  <2>15. ToSet(<<x>> \o r) = {x} \cup ToSet(r)
    BY <2>10, <2>13, ToSetCons
  <2> QED BY <2>11, <2>13, <2>14, <2>15, Zenon
<1>5. Nat \subseteq T
  <2>1. N \in Nat
    BY <1>1
  <2> HIDE DEF T, N
  <2> QED BY <1>3, <1>4, <2>1, DownwardInduction
<1> QED BY <1>5

LEMMA ToSetFinite ==
  ASSUME NEW S, NEW s \in Seq(S)
  PROVE  IsFiniteSet(ToSet(s))
<1>1. s \in [1..Len(s) -> ToSet(s)] /\ Len(s) \in Nat /\ DOMAIN s = 1..Len(s)
  BY DEF ToSet
<1>2. s \in Surjection(1..Len(s), ToSet(s))
  BY <1>1 DEF Surjection, ToSet
<1>3. IsFiniteSet(1..Len(s))
  BY <1>1, FS_Interval
<1> QED BY <1>2, <1>3, FS_Surjection

LEMMA OnlyOne ==
  ASSUME NEW S, IsFiniteSet(S), Only(S) # None
  PROVE  S = {Only(S)}
<1>1. Cardinality(S) = 1
  BY DEF Only
<1>2. PICK x : S = {x}
  BY <1>1, FS_Singleton
<1> QED BY <1>1, <1>2 DEF Only

\* Two sets, one in the other, that have one member each have the same one.
LEMMA OnlyStays ==
  ASSUME NEW S, NEW R \in SUBSET S, IsFiniteSet(S), Only(R) # None, Only(S) # None
  PROVE  Only(R) = Only(S)
<1>1. IsFiniteSet(R)
  BY FS_Subset
<1> QED BY <1>1, OnlyOne

Starts(markers) == {m \in ToSet(markers) : m.kind = "start" /\ m.command}

LEMMA ReportIs ==
  ASSUME NEW q \in Seq(STRING), parse_one_osc3008_command(q) # None
  PROVE  LET markers == osc3008_markers(q)
             start   == Only(Starts(markers))
             end     == Only(MatchingEnds(start, markers))
         IN /\ markers # None /\ markers \in Seq(Found(q))
            /\ start # None /\ start \in Found(q) /\ end # None /\ end \in Found(q)
            /\ IsFiniteSet(Starts(markers)) /\ IsFiniteSet(MatchingEnds(start, markers))
            /\ parse_one_osc3008_command(q) = Between(q, start, end)
<1> DEFINE markers == osc3008_markers(q)
           start   == Only(Starts(markers))
           end     == Only(MatchingEnds(start, markers))
<1>1. markers # None /\ parse_one_osc3008_command(q) = CommandFrom(q, markers, start)
  BY Zenon DEF parse_one_osc3008_command, CommandIn, Starts
<1>2. start # None /\ parse_one_osc3008_command(q) = Between(q, start, end)
  BY <1>1, Zenon DEF CommandFrom
<1>3. end # None
  BY <1>2, Zenon DEF Between
<1>4. markers \in Seq(Found(q))
  <2>1. Len(q) \in Nat /\ 1 \in Nat
    OBVIOUS
  <2> QED BY <1>1, <2>1, MarkersInOrder, Zenon DEF osc3008_markers
<1> HIDE DEF markers
<1>5. IsFiniteSet(ToSet(markers)) /\ ToSet(markers) \subseteq Found(q)
  BY <1>4, ToSetFinite DEF ToSet
<1>6. Starts(markers) \in SUBSET ToSet(markers)
  BY DEF Starts
<1>7. IsFiniteSet(Starts(markers))
  BY <1>5, <1>6, FS_Subset
<1>8. Starts(markers) = {start}
  BY <1>2, <1>7, OnlyOne
<1> HIDE DEF start
<1>9. MatchingEnds(start, markers) \in SUBSET ToSet(markers)
  BY DEF MatchingEnds
<1>10. IsFiniteSet(MatchingEnds(start, markers))
  BY <1>5, <1>9, FS_Subset
<1>11. MatchingEnds(start, markers) = {end}
  BY <1>3, <1>10, OnlyOne
<1> HIDE DEF end
<1>12. start \in Found(q) /\ end \in Found(q)
  BY <1>5, <1>6, <1>8, <1>9, <1>11
<1> QED BY <1>1, <1>2, <1>3, <1>4, <1>7, <1>10, <1>12 DEF start, end, markers

\* A report of a beginning of q and one of q are the same.
LEMMA ReportStays ==
  ASSUME NEW q \in Seq(STRING), NEW n \in 0..Len(q),
         parse_one_osc3008_command(SubSeq(q, 1, n)) # None,
         parse_one_osc3008_command(q) # None
  PROVE  parse_one_osc3008_command(SubSeq(q, 1, n)) = parse_one_osc3008_command(q)
<1> DEFINE q0  == SubSeq(q, 1, n)
           M0  == osc3008_markers(q0)
           M   == osc3008_markers(q)
           s0  == Only(Starts(M0))
           s   == Only(Starts(M))
           e0  == Only(MatchingEnds(s0, M0))
           e   == Only(MatchingEnds(s, M))
<1>1. q0 \in Seq(STRING) /\ Len(q0) = n /\ Len(q0) \in Nat
  OBVIOUS
<1>2. /\ M0 # None /\ s0 # None /\ s0 \in Found(q0) /\ e0 # None /\ e0 \in Found(q0)
      /\ parse_one_osc3008_command(q0) = Between(q0, s0, e0)
  <2> HIDE DEF q0
  <2>1. parse_one_osc3008_command(q0) # None
    BY DEF q0
  <2> QED BY <1>1, <2>1, ReportIs, Zenon
<1>3. /\ M # None /\ s # None /\ e # None
      /\ IsFiniteSet(Starts(M)) /\ IsFiniteSet(MatchingEnds(s, M))
      /\ parse_one_osc3008_command(q) = Between(q, s, e)
  BY ReportIs, Zenon
<1>4. ToSet(M0) \subseteq ToSet(M)
  <2>1. 1 \in Nat \ {0}
    OBVIOUS
  <2> QED BY <1>2, <1>3, <2>1, MarkersStay, Zenon DEF osc3008_markers
<1>5. s0 = s
  <2>1. Starts(M0) \in SUBSET Starts(M)
    BY <1>4 DEF Starts
  <2> QED BY <1>2, <1>3, <2>1, OnlyStays
<1>6. e0 = e
  <2>1. MatchingEnds(s0, M0) \in SUBSET MatchingEnds(s, M)
    <3> HIDE DEF M0, M, s0, s
    <3> QED BY <1>4, <1>5 DEF MatchingEnds
  <2> QED BY <1>2, <1>3, <2>1, OnlyStays
<1>7. s0.end \in Nat \ {0} /\ e0.start - 1 \in Int /\ e0.start - 1 <= n
  <2> HIDE DEF s0, e0, q0
  <2> QED BY <1>1, <1>2, FoundInside
<1> HIDE DEF M0, M, s0, s, e0, e
<1>8. SubSeq(q0, s0.end, e0.start - 1) = SubSeq(q, s0.end, e0.start - 1)
  BY <1>7, SliceStays
<1>9. Between(q0, s0, e0) = Between(q, s0, e0)
  BY <1>8, Zenon DEF Between
<1> QED BY <1>2, <1>3, <1>5, <1>6, <1>9, Zenon

-----------------------------------------------------------------------------
(* Where the pieces lie in the stream *)

LEMMA Concat ==
  ASSUME NEW S, NEW a \in Seq(S), NEW b \in Seq(S), NEW c \in Seq(S)
  PROVE  /\ a \o b \in Seq(S) /\ Len(a \o b) = Len(a) + Len(b)
         /\ \A k \in 1..Len(a) : (a \o b)[k] = a[k]
         /\ \A k \in 1..Len(b) : (a \o b)[Len(a) + k] = b[k]
         /\ (a \o b) \o c = a \o (b \o c)
         /\ <<>> \o a = a /\ a \o <<>> = a
<1>1. a \o b \in Seq(S) /\ Len(a \o b) = Len(a) + Len(b)
  OBVIOUS
<1>2. \A k \in 1..Len(a) : (a \o b)[k] = a[k]
  OBVIOUS
<1>3. \A k \in 1..Len(b) : (a \o b)[Len(a) + k] = b[k]
  OBVIOUS
<1>4. (a \o b) \o c = a \o (b \o c)
  OBVIOUS
<1>5. <<>> \o a = a /\ a \o <<>> = a
  OBVIOUS
<1> QED BY <1>1, <1>2, <1>3, <1>4, <1>5, Zenon

LEMMA FlattenCons ==
  ASSUME NEW S, NEW p \in Seq(S), NEW s \in Seq(Seq(S))
  PROVE  FlattenSeq(<<p>> \o s) = p \o FlattenSeq(s)
<1> DEFINE Holds(n) == FlattenSeq(<<p>> \o SubSeq(s, 1, n)) = p \o FlattenSeq(SubSeq(s, 1, n))
           T == {n \in Nat : n <= Len(s) => Holds(n)}
<1>1. 0 \in T
  <2>1. SubSeq(s, 1, 0) = <<>> /\ <<p>> \o <<>> = Append(<<>>, p) /\ <<>> \in Seq(Seq(S))
        /\ <<>> \o p = p /\ p \o <<>> = p
    OBVIOUS
  <2>2. FlattenSeq(Append(<<>>, p)) = p
    BY <2>1, FlattenAppend, FlattenEmpty, Zenon
  <2>3. FlattenSeq(<<p>> \o SubSeq(s, 1, 0)) = p \o FlattenSeq(SubSeq(s, 1, 0))
    BY <2>1, <2>2, FlattenEmpty, Zenon
  <2> QED BY <2>3
<1>2. ASSUME NEW n \in Nat, n \in T PROVE n + 1 \in T
  <2> SUFFICES ASSUME n + 1 <= Len(s) PROVE Holds(n + 1)
    <3> HIDE DEF Holds
    <3> QED OBVIOUS
  <2>1. PICK a, x : a = SubSeq(s, 1, n) /\ x = s[n + 1]
    OBVIOUS
  <2>2. a \in Seq(Seq(S)) /\ x \in Seq(S) /\ n \in 0..Len(s) - 1
    BY <2>1
  <2>3. FlattenSeq(<<p>> \o a) = p \o FlattenSeq(a)
    <3>1. n <= Len(s)
      BY <2>2
    <3> QED BY <1>2, <2>1, <3>1, Zenon
  <2>4. SubSeq(s, 1, n + 1) = Append(a, x)
    BY <2>1, <2>2, NextPrefix
  <2>5. <<p>> \o Append(a, x) = Append(<<p>> \o a, x) /\ <<p>> \o a \in Seq(Seq(S))
    BY <2>2
  <2>6. FlattenSeq(Append(<<p>> \o a, x)) = (p \o FlattenSeq(a)) \o x
    BY <2>2, <2>3, <2>5, FlattenAppend, Zenon
  <2>7. FlattenSeq(Append(a, x)) = FlattenSeq(a) \o x /\ FlattenSeq(a) \in Seq(S)
    BY <2>2, FlattenAppend, FlattenTyped, Zenon
  <2>8. (p \o FlattenSeq(a)) \o x = p \o (FlattenSeq(a) \o x)
    <3>1. PICK b : b = FlattenSeq(a)
      OBVIOUS
    <3>2. b \in Seq(S)
      BY <2>7, <3>1, Zenon
    <3>3. (p \o b) \o x = p \o (b \o x)
      BY <2>2, <3>2
    <3> QED BY <3>1, <3>3, Zenon
  <2> QED BY <2>4, <2>5, <2>6, <2>7, <2>8, Zenon
<1>3. Nat \subseteq T
  <2> HIDE DEF T
  <2> QED BY <1>1, <1>2, Induction
<1>4. SubSeq(s, 1, Len(s)) = s /\ Len(s) \in Nat /\ Len(s) <= Len(s)
  OBVIOUS
<1> QED BY <1>3, <1>4, Zenon

\* The first n of s, flattened.
Upto(s, n) == FlattenSeq(SubSeq(s, 1, n))

LEMMA UptoSteps ==
  ASSUME NEW S, NEW s \in Seq(Seq(S))
  PROVE  /\ Upto(s, 0) = <<>> /\ Upto(s, Len(s)) = FlattenSeq(s)
         /\ \A n \in 0..Len(s) : Upto(s, n) \in Seq(S)
         /\ \A n \in 0..Len(s) - 1 : Upto(s, n + 1) = Upto(s, n) \o s[n + 1]
<1>1. SubSeq(s, 1, 0) = <<>> /\ SubSeq(s, 1, Len(s)) = s
  OBVIOUS
<1>2. Upto(s, 0) = <<>> /\ Upto(s, Len(s)) = FlattenSeq(s)
  BY <1>1, FlattenEmpty, Zenon DEF Upto
<1>3. ASSUME NEW n \in 0..Len(s) PROVE SubSeq(s, 1, n) \in Seq(Seq(S))
  OBVIOUS
<1>4. ASSUME NEW n \in 0..Len(s) PROVE Upto(s, n) \in Seq(S)
  BY <1>3, FlattenTyped, Zenon DEF Upto
<1>5. ASSUME NEW n \in 0..Len(s) - 1 PROVE Upto(s, n + 1) = Upto(s, n) \o s[n + 1]
  <2>1. SubSeq(s, 1, n) \in Seq(Seq(S)) /\ s[n + 1] \in Seq(S)
    OBVIOUS
  <2>2. SubSeq(s, 1, n + 1) = Append(SubSeq(s, 1, n), s[n + 1])
    BY NextPrefix
  <2> QED BY <2>1, <2>2, FlattenAppend, Zenon DEF Upto
<1> QED BY <1>2, <1>4, <1>5, Zenon

\* What is flattened stays where it is when more follows.
LEMMA UptoPrefix ==
  ASSUME NEW S, NEW s \in Seq(Seq(S)), NEW n \in 0..Len(s)
  PROVE  \A m \in n..Len(s) :
           /\ Len(Upto(s, n)) <= Len(Upto(s, m))
           /\ \A k \in 1..Len(Upto(s, n)) : Upto(s, m)[k] = Upto(s, n)[k]
<1> DEFINE Keeps(m) == /\ Len(Upto(s, n)) <= Len(Upto(s, m))
                       /\ \A k \in 1..Len(Upto(s, n)) : Upto(s, m)[k] = Upto(s, n)[k]
           T == {d \in Nat : n + d <= Len(s) => Keeps(n + d)}
<1>1. Len(Upto(s, n)) \in Nat
  BY UptoSteps
<1>2. 0 \in T
  <2>1. Keeps(n)
    BY <1>1
  <2>2. n + 0 = n
    OBVIOUS
  <2> QED BY <2>1, <2>2
<1>3. ASSUME NEW d \in Nat, d \in T PROVE d + 1 \in T
  <2> SUFFICES ASSUME n + (d + 1) <= Len(s) PROVE Keeps(n + (d + 1))
    OBVIOUS
  <2>1. PICK m : m = n + d
    OBVIOUS
  <2>2. m \in 0..Len(s) - 1 /\ m + 1 = n + (d + 1) /\ m \in 0..Len(s) /\ m + 1 \in 1..Len(s)
    BY <2>1
  <2>3. Keeps(m)
    BY <1>3, <2>1, <2>2
  <2>4. PICK a, x, u : a = Upto(s, m) /\ x = s[m + 1] /\ u = Upto(s, n)
    OBVIOUS
  <2>5. a \in Seq(S) /\ x \in Seq(S) /\ u \in Seq(S) /\ Upto(s, m + 1) = a \o x
    <3>1. x \in Seq(S)
      BY <2>2, <2>4
    <3>2. a \in Seq(S) /\ u \in Seq(S) /\ Upto(s, m + 1) = a \o x
      BY <2>2, <2>4, UptoSteps, Zenon
    <3> QED BY <3>1, <3>2
  <2>6. Len(u) <= Len(a) /\ \A k \in 1..Len(u) : a[k] = u[k]
    BY <2>3, <2>4
  <2>7. Len(u) <= Len(a \o x) /\ \A k \in 1..Len(u) : (a \o x)[k] = u[k]
    BY <2>5, <2>6
  <2>8. Keeps(m + 1)
    BY <2>4, <2>5, <2>7, Zenon
  <2> HIDE DEF Keeps
  <2> QED BY <2>2, <2>8
<1>4. Nat \subseteq T
  <2> HIDE DEF T
  <2> QED BY <1>2, <1>3, Induction
<1>5. ASSUME NEW m \in n..Len(s) PROVE Keeps(m)
  <2>1. m - n \in Nat /\ n + (m - n) = m /\ m <= Len(s)
    OBVIOUS
  <2> HIDE DEF Keeps
  <2> QED BY <1>4, <2>1
<1> QED BY <1>5

\* The k-th of the i-th.
LEMMA FlattenAt ==
  ASSUME NEW S, NEW s \in Seq(Seq(S)), NEW i \in 1..Len(s)
  PROVE  /\ Len(Upto(s, i)) = Len(Upto(s, i - 1)) + Len(s[i])
         /\ Len(Upto(s, i)) <= Len(FlattenSeq(s))
         /\ \A k \in 1..Len(s[i]) : FlattenSeq(s)[Len(Upto(s, i - 1)) + k] = s[i][k]
<1>1. i - 1 \in 0..Len(s) - 1 /\ (i - 1) + 1 = i /\ i \in 0..Len(s) /\ i - 1 \in 0..Len(s)
      /\ Len(s) \in i..Len(s) /\ s[i] \in Seq(S)
  OBVIOUS
<1>2. PICK a, x, u, f : a = Upto(s, i - 1) /\ x = s[i] /\ u = Upto(s, i) /\ f = FlattenSeq(s)
  OBVIOUS
<1>3. u = a \o x /\ f = Upto(s, Len(s)) /\ a \in Seq(S) /\ x \in Seq(S)
  <2>1. Upto(s, (i - 1) + 1) = Upto(s, i - 1) \o s[(i - 1) + 1]
    BY <1>1, UptoSteps, Zenon
  <2>2. f = Upto(s, Len(s)) /\ a \in Seq(S)
    BY <1>1, <1>2, UptoSteps, Zenon
  <2> QED BY <1>1, <1>2, <2>1, <2>2
<1>4. Len(u) <= Len(f) /\ \A k \in 1..Len(u) : f[k] = u[k]
  <2>1. \A m \in i..Len(s) : /\ Len(Upto(s, i)) <= Len(Upto(s, m))
                             /\ \A k \in 1..Len(Upto(s, i)) : Upto(s, m)[k] = Upto(s, i)[k]
    BY <1>1, UptoPrefix, Zenon
  <2> QED BY <1>1, <1>2, <1>3, <2>1, Zenon
<1>5. Len(u) = Len(a) + Len(x) /\ \A k \in 1..Len(x) : u[Len(a) + k] = x[k] /\ Len(a) + k \in 1..Len(u)
  BY <1>3
<1>6. \A k \in 1..Len(x) : f[Len(a) + k] = x[k]
  BY <1>4, <1>5
<1> QED BY <1>2, <1>4, <1>5, <1>6, Zenon

\* A piece is a character or a control string.
LEMMA PieceKinds ==
  ASSUME NEW p \in Pieces
  PROVE  /\ p \in Seq(STRING) /\ Len(p) \in 1..Window
         /\ \/ Plain(p) /\ Len(p) = 1
            \/ (Csi(p) \/ Osc(p)) /\ Len(p) >= 3
<1>1. p \in Seq(STRING) /\ Len(p) <= Window /\ Window \in Nat
      /\ (Plain(p) \/ Csi(p) \/ Osc(p))
  BY ConstantsAssumption
<1>2. Plain(p) => Len(p) = 1
  BY DEF Plain
<1>3. Csi(p) => Len(p) >= 3
  BY DEF Csi
<1>4. Osc(p) => Len(p) >= 3
  BY <1>1 DEF Osc
<1> QED BY <1>1, <1>2, <1>3, <1>4

LEMMA BeginsUpto == \A i : BeginsAt(i) = Len(Upto(sent, i - 1))
  BY DEF BeginsAt, Upto

\* Where the pieces begin, and what is there.
LEMMA PieceAt ==
  ASSUME Arrived
  PROVE  /\ BeginsAt(1) = 0
         /\ \A i \in 1..Len(sent) + 1 : BeginsAt(i) \in Nat
         /\ BeginsAt(Len(sent) + 1) + Len(part) = Len(stream)
         /\ \A i \in 1..Len(sent) :
              /\ sent[i] \in Pieces
              /\ BeginsAt(i + 1) = BeginsAt(i) + Len(sent[i])
              /\ BeginsAt(i + 1) <= BeginsAt(Len(sent) + 1)
              /\ \A k \in 1..Len(sent[i]) : stream[BeginsAt(i) + k] = sent[i][k]
         /\ \A k \in 1..Len(part) : stream[BeginsAt(Len(sent) + 1) + k] = part[k]
<1>1. /\ sent \in Seq(Seq(STRING)) /\ part \in Seq(STRING) /\ sent \in Seq(Pieces)
      /\ Len(sent) \in Nat
  BY ConstantsAssumption DEF Arrived
<1>2. BeginsAt(1) = 0
  <2>1. 1 - 1 = 0 /\ Len(<<>>) = 0
    OBVIOUS
  <2> QED BY <1>1, <2>1, UptoSteps, BeginsUpto
<1>3. ASSUME NEW i \in 1..Len(sent) + 1 PROVE BeginsAt(i) \in Nat
  <2>1. i - 1 \in 0..Len(sent)
    BY <1>1
  <2>2. Upto(sent, i - 1) \in Seq(STRING)
    BY <1>1, <2>1, UptoSteps, Zenon
  <2> QED BY <2>2, BeginsUpto
<1>4. PICK f : f = FlattenSeq(sent)
  OBVIOUS
<1>5. f \in Seq(STRING) /\ stream = f \o part
  BY <1>4, WindowOfStream DEF stream
<1>6. BeginsAt(Len(sent) + 1) = Len(f)
  <2>1. (Len(sent) + 1) - 1 = Len(sent)
    BY <1>1
  <2> QED BY <1>1, <1>4, <2>1, UptoSteps, BeginsUpto, Zenon
<1>7. /\ Len(stream) = Len(f) + Len(part)
      /\ \A k \in 1..Len(f) : stream[k] = f[k]
      /\ \A k \in 1..Len(part) : stream[Len(f) + k] = part[k]
  BY <1>1, <1>5
<1>8. ASSUME NEW i \in 1..Len(sent)
      PROVE  /\ sent[i] \in Pieces
             /\ BeginsAt(i + 1) = BeginsAt(i) + Len(sent[i])
             /\ BeginsAt(i + 1) <= Len(f)
             /\ \A k \in 1..Len(sent[i]) : stream[BeginsAt(i) + k] = sent[i][k]
  <2>1. sent[i] \in Pieces /\ sent[i] \in Seq(STRING) /\ (i + 1) - 1 = i /\ i \in 1..Len(sent) + 1
        /\ i + 1 \in 1..Len(sent) + 1
    BY <1>1
  <2>2. /\ Len(Upto(sent, i)) = Len(Upto(sent, i - 1)) + Len(sent[i])
        /\ Len(Upto(sent, i)) <= Len(f)
        /\ \A k \in 1..Len(sent[i]) : f[Len(Upto(sent, i - 1)) + k] = sent[i][k]
    BY <1>1, <1>4, FlattenAt, Zenon
  <2>3. BeginsAt(i) = Len(Upto(sent, i - 1)) /\ BeginsAt(i + 1) = Len(Upto(sent, i))
    BY <2>1, BeginsUpto
  <2>4. BeginsAt(i) \in Nat /\ BeginsAt(i + 1) \in Nat
    BY <1>3, <2>1
  <2>5. PICK b : b = BeginsAt(i)
    OBVIOUS
  <2>6. \A k \in 1..Len(sent[i]) : b + k \in 1..Len(f) /\ f[b + k] = sent[i][k]
    <3>1. PICK n : n = Len(sent[i])
      OBVIOUS
    <3>2. n \in Nat /\ Len(f) \in Nat
      BY <1>5, <2>1, <3>1
    <3>3. b \in Nat /\ b + n <= Len(f)
      BY <2>2, <2>3, <2>4, <2>5, <3>1
    <3>4. \A k \in 1..n : b + k \in 1..Len(f)
      BY <3>2, <3>3
    <3>5. \A k \in 1..n : f[b + k] = sent[i][k]
      BY <2>2, <2>3, <2>5, <3>1, Zenon
    <3> QED BY <3>1, <3>4, <3>5, Zenon
  <2>7. \A k \in 1..Len(sent[i]) : stream[b + k] = sent[i][k]
    BY <1>7, <2>6
  <2> QED BY <2>1, <2>2, <2>3, <2>5, <2>7, Zenon
<1> QED BY <1>2, <1>3, <1>6, <1>7, <1>8, Zenon

\* Later pieces begin later.
LEMMA BeginsLater ==
  ASSUME Arrived, NEW i \in 1..Len(sent) + 1
  PROVE  \A j \in i + 1..Len(sent) + 1 : BeginsAt(i) < BeginsAt(j)
<1> DEFINE L == Len(sent)
           T == {d \in Nat : i + (d + 1) <= L + 1 => BeginsAt(i) < BeginsAt(i + (d + 1))}
<1>1. L \in Nat
  BY DEF Arrived
<1>2. ASSUME NEW j \in 1..L PROVE BeginsAt(j) < BeginsAt(j + 1)
  <2>1. /\ BeginsAt(j) \in Nat /\ sent[j] \in Pieces
        /\ BeginsAt(j + 1) = BeginsAt(j) + Len(sent[j])
    <3>1. j \in 1..L + 1
      BY <1>1
    <3> QED BY <3>1, PieceAt
  <2>2. Len(sent[j]) \in 1..Window /\ Window \in Nat
    BY <2>1, PieceKinds, ConstantsAssumption
  <2> QED BY <2>1, <2>2
<1>3. 0 \in T
  BY <1>1, <1>2
<1>4. ASSUME NEW d \in Nat, d \in T PROVE d + 1 \in T
  <2> SUFFICES ASSUME i + ((d + 1) + 1) <= L + 1
               PROVE  BeginsAt(i) < BeginsAt(i + ((d + 1) + 1))
    OBVIOUS
  <2>1. PICK j : j = i + (d + 1)
    OBVIOUS
  <2>2. j \in 1..L /\ i + ((d + 1) + 1) = j + 1 /\ j \in 1..L + 1 /\ j + 1 \in 1..L + 1
    BY <1>1, <2>1
  <2>3. BeginsAt(i) < BeginsAt(j)
    BY <1>4, <2>1, <2>2
  <2>4. BeginsAt(j) < BeginsAt(j + 1)
    BY <1>2, <2>2
  <2>5. BeginsAt(i) \in Nat /\ BeginsAt(j) \in Nat /\ BeginsAt(j + 1) \in Nat
    BY <2>2, PieceAt
  <2> QED BY <2>2, <2>3, <2>4, <2>5
<1>5. Nat \subseteq T
  <2> HIDE DEF T
  <2> QED BY <1>3, <1>4, Induction
<1>6. ASSUME NEW j \in i + 1..L + 1 PROVE BeginsAt(i) < BeginsAt(j)
  <2>1. PICK d \in Nat : d = j - (i + 1)
    BY <1>1
  <2>2. i + (d + 1) = j /\ j <= L + 1
    BY <1>1, <2>1
  <2>3. d \in T
    BY <1>5
  <2> QED BY <2>2, <2>3
<1> QED BY <1>6

-----------------------------------------------------------------------------
(* The output *)

\* Where the loop goes on after an ESC: further on, in q or at its end.
LEMMA AfterEscInside ==
  ASSUME NEW q, Len(q) \in Nat, NEW i \in 1..Len(q)
  PROVE  AfterEsc(q, i) \in i + 1..Len(q) + 1
<1>1. ASSUME NEW S \in SUBSET (i + 2..Len(q)), NEW j, j = IF S = {} THEN Len(q) + 1 ELSE First(S) + 1
      PROVE  j \in i + 1..Len(q) + 1
  <2>1. S \in SUBSET Nat
    OBVIOUS
  <2>2. CASE S = {}
    BY <1>1, <2>2
  <2>3. CASE S # {}
    <3>1. PICK n : n = First(S)
      OBVIOUS
    <3>2. n \in i + 2..Len(q)
      BY <2>1, <2>3, <3>1, FirstIsLeast
    <3>3. j = n + 1
      BY <1>1, <2>3, <3>1
    <3> QED BY <3>2, <3>3
  <2> QED BY <2>2, <2>3
<1>2. AfterOsc(q, i) \in i + 1..Len(q) + 1
  <2>1. PICK S : S = {j \in i + 2..Len(q) : q[j] = "bel" \/ (q[j] = "bs" /\ j > i + 2 /\ q[j - 1] = "esc")}
    OBVIOUS
  <2>2. AfterOsc(q, i) = IF S = {} THEN Len(q) + 1 ELSE First(S) + 1
    BY <2>1 DEF AfterOsc
  <2>3. S \in SUBSET (i + 2..Len(q))
    BY <2>1
  <2> QED BY <1>1, <2>2, <2>3
<1>3. AfterCsi(q, i) \in i + 1..Len(q) + 1
  <2>1. PICK S : S = {j \in i + 2..Len(q) : q[j] \notin NotFinal}
    OBVIOUS
  <2>2. AfterCsi(q, i) = IF S = {} THEN Len(q) + 1 ELSE First(S) + 1
    BY <2>1 DEF AfterCsi
  <2>3. S \in SUBSET (i + 2..Len(q))
    BY <2>1
  <2> QED BY <1>1, <2>2, <2>3
<1>4. i + 1 \in i + 1..Len(q) + 1
  OBVIOUS
<1> QED BY <1>2, <1>3, <1>4, Zenon DEF AfterEsc

\* What OutputFrom does at i, when from is what it gives further on.
OutputStep(q, from, i) ==
  IF i > Len(q) THEN <<>>
  ELSE IF q[i] = "esc" THEN from[AfterEsc(q, i)]
  ELSE Pushed(q, i) \o from[i + 1]

LEMMA OutputStepLooksAhead ==
  ASSUME NEW q, Len(q) \in Nat, NEW i \in 1..Len(q) + 1, NEW f, NEW g,
         \A n \in i + 1..Len(q) + 1 : f[n] = g[n]
  PROVE  OutputStep(q, f, i) = OutputStep(q, g, i)
<1>1. CASE i > Len(q)
  BY <1>1 DEF OutputStep
<1>2. CASE ~ (i > Len(q))
  <2>1. i \in 1..Len(q) /\ i + 1 \in i + 1..Len(q) + 1
    BY <1>2
  <2>2. AfterEsc(q, i) \in i + 1..Len(q) + 1
    BY <2>1, AfterEscInside
  <2>3. f[AfterEsc(q, i)] = g[AfterEsc(q, i)] /\ f[i + 1] = g[i + 1]
    BY <2>1, <2>2, Zenon
  <2> QED BY <2>3, Zenon DEF OutputStep
<1> QED BY <1>1, <1>2

\* The recursion of OutputFrom is well-founded.
LEMMA OutputEquation ==
  ASSUME NEW q, Len(q) \in Nat
  PROVE  \A i \in 1..Len(q) + 1 : OutputFrom(q)[i] = OutputStep(q, OutputFrom(q), i)
<1> DEFINE N == Len(q) + 1
           IsAbove(f, k) == \A n \in 1..N : n + k > N => f[n] = OutputStep(q, f, n)
           T == {k \in Nat : \E f : f = [n \in 1..N |-> f[n]] /\ IsAbove(f, k)}
<1>1. 0 \in T
  <2> DEFINE f == [n \in 1..N |-> <<>>]
  <2>1. IsAbove(f, 0)
    <3> HIDE DEF f
    <3> QED OBVIOUS
  <2>2. f = [n \in 1..N |-> f[n]]
    OBVIOUS
  <2> HIDE DEF f, IsAbove
  <2> QED BY <2>1, <2>2
<1>2. ASSUME NEW k \in Nat, k \in T PROVE k + 1 \in T
  <2>1. PICK f : f = [n \in 1..N |-> f[n]] /\ IsAbove(f, k)
    BY <1>2
  <2> DEFINE g == [n \in 1..N |-> IF n + k > N THEN f[n] ELSE OutputStep(q, f, n)]
  <2>2. ASSUME NEW n \in 1..N, n + (k + 1) > N PROVE g[n] = OutputStep(q, g, n)
    <3>1. \A m \in n + 1..N : m + k > N /\ m \in 1..N
      BY <2>2
    <3>2. \A m \in n + 1..N : g[m] = f[m]
      BY <3>1
    <3>3. OutputStep(q, g, n) = OutputStep(q, f, n)
      <4> HIDE DEF g
      <4> QED BY <3>2, OutputStepLooksAhead
    <3>4. g[n] = OutputStep(q, f, n)
      BY <2>1, Zenon
    <3> QED BY <3>3, <3>4, Zenon
  <2>3. IsAbove(g, k + 1)
    BY <2>2
  <2>4. g = [n \in 1..N |-> g[n]]
    OBVIOUS
  <2> HIDE DEF g, IsAbove
  <2> QED BY <2>3, <2>4
<1>3. N \in T
  <2> HIDE DEF T
  <2> QED BY <1>1, <1>2, Induction
<1>4. PICK f : f = [n \in 1..N |-> f[n]] /\ IsAbove(f, N)
  BY <1>3
<1>5. \A n \in 1..N : f[n] = OutputStep(q, f, n)
  <2>1. \A n \in 1..N : n + N > N
    OBVIOUS
  <2> QED BY <1>4, <2>1, Zenon
<1>6. f = [n \in 1..N |-> OutputStep(q, f, n)]
  BY <1>4, <1>5
<1>7. OutputFrom(q) = CHOOSE from : from = [n \in 1..N |-> OutputStep(q, from, n)]
  BY Zenon DEF OutputFrom, OutputStep
<1>8. OutputFrom(q) = [n \in 1..N |-> OutputStep(q, OutputFrom(q), n)]
  BY <1>6, <1>7, Zenon
<1> QED BY <1>8, Zenon

\* The loop passes a control string, or as much of it as q has, without output.
LEMMA ControlSkipped ==
  ASSUME NEW q \in Seq(STRING), NEW i \in 1..Len(q), NEW p \in Seq(STRING), Csi(p) \/ Osc(p),
         \A k \in 1..Len(p) : i + k - 1 <= Len(q) => q[i + k - 1] = p[k]
  PROVE  /\ q[i] = "esc"
         /\ AfterEsc(q, i) = IF i + Len(p) - 1 <= Len(q) THEN i + Len(p) ELSE Len(q) + 1
<1>1. Len(q) \in Nat /\ Len(p) \in Nat
  OBVIOUS
<1>2. /\ Len(p) >= 3 /\ p[1] = "esc" /\ p[2] = IF Csi(p) THEN "[" ELSE "]"
  BY <1>1 DEF Csi, Osc
<1>3. q[i] = "esc"
  <2>1. 1 \in 1..Len(p) /\ i + 1 - 1 = i /\ i <= Len(q)
    BY <1>1, <1>2
  <2> QED BY <1>2, <2>1
<1>4. CASE i = Len(q)
  <2>1. AfterEsc(q, i) = i + 1
    BY <1>4, <1>1 DEF AfterEsc
  <2> QED BY <1>1, <1>2, <1>3, <1>4, <2>1
<1>5. CASE i < Len(q)
  <2>1. q[i + 1] = p[2]
    <3>1. 2 \in 1..Len(p) /\ i + 2 - 1 = i + 1 /\ i + 1 <= Len(q)
      BY <1>1, <1>2, <1>5
    <3> QED BY <3>1
  <2>2. \A j \in i + 2..Len(q) : j < i + Len(p) => j - i + 1 \in 3..Len(p) /\ q[j] = p[j - i + 1]
    <3> SUFFICES ASSUME NEW j \in i + 2..Len(q), j < i + Len(p)
                 PROVE  j - i + 1 \in 3..Len(p) /\ q[j] = p[j - i + 1]
      OBVIOUS
    <3>1. j - i + 1 \in 1..Len(p) /\ j - i + 1 >= 3 /\ i + (j - i + 1) - 1 = j /\ j <= Len(q)
      BY <1>1
    <3> QED BY <3>1
  <2>3. CASE Csi(p)
    <3>1. PICK S : S = {j \in i + 2..Len(q) : q[j] \notin NotFinal}
      OBVIOUS
    <3>2. AfterEsc(q, i) = IF S = {} THEN Len(q) + 1 ELSE First(S) + 1
      BY <1>2, <1>5, <2>1, <2>3, <3>1 DEF AfterEsc, AfterCsi
    <3>3. p[Len(p)] \notin NotFinal /\ \A k \in 3..Len(p) - 1 : p[k] \in NotFinal
      BY <2>3 DEF Csi, NotFinal
    <3>4. \A j \in S : j >= i + Len(p) - 1
      BY <1>1, <2>2, <3>1, <3>3
    <3>5. CASE i + Len(p) - 1 <= Len(q)
      <4>1. i + Len(p) - 1 \in i + 2..Len(q) /\ (i + Len(p) - 1) - i + 1 = Len(p)
            /\ i + Len(p) - 1 < i + Len(p)
        BY <1>1, <1>2, <3>5
      <4>2. q[i + Len(p) - 1] = p[Len(p)]
        BY <2>2, <4>1
      <4>3. i + Len(p) - 1 \in S /\ S \in SUBSET Nat
        BY <3>1, <3>3, <4>1, <4>2
      <4>4. First(S) = i + Len(p) - 1
        BY <3>4, <4>3, FirstIs
      <4> QED BY <1>1, <1>3, <3>2, <3>5, <4>3, <4>4
    <3>6. CASE ~ (i + Len(p) - 1 <= Len(q))
      <4>1. S = {}
        BY <1>1, <3>1, <3>4, <3>6
      <4> QED BY <1>3, <3>2, <3>6, <4>1
    <3> QED BY <3>5, <3>6
  <2>4. CASE ~ Csi(p)
    <3>1. PICK S : S = {j \in i + 2..Len(q) : q[j] = "bel" \/ (q[j] = "bs" /\ j > i + 2 /\ q[j - 1] = "esc")}
      OBVIOUS
    <3>2. AfterEsc(q, i) = IF S = {} THEN Len(q) + 1 ELSE First(S) + 1
      BY <1>2, <1>5, <2>1, <2>4, <3>1 DEF AfterEsc, AfterOsc
    <3>3. PICK n \in 2..Len(p) - 1 :
            /\ \A k \in 3..n : p[k] \notin {"esc", "bel", "cr", "lf"}
            /\ \/ Len(p) = n + 1 /\ p[n + 1] = "bel"
               \/ Len(p) = n + 2 /\ p[n + 1] = "esc" /\ p[n + 2] = "bs"
      BY <2>4 DEF Osc
    <3>4. \A k \in 3..Len(p) - 1 : p[k] # "bel" /\ (p[k] = "esc" => k = Len(p) - 1)
      BY <1>1, <3>3
    <3>5. ASSUME NEW j \in S PROVE j >= i + Len(p) - 1
      <4>1. j \in i + 2..Len(q) /\ (q[j] = "bel" \/ (j - 1 \in i + 2..Len(q) /\ q[j - 1] = "esc"))
        BY <3>1
      <4> SUFFICES ASSUME j < i + Len(p) - 1 PROVE FALSE
        BY <1>1, <4>1
      <4>2. j - i + 1 \in 3..Len(p) - 1 /\ q[j] = p[j - i + 1]
        BY <1>1, <2>2, <4>1
      <4>3. q[j] # "bel"
        BY <3>4, <4>2
      <4>4. j - 1 \in i + 2..Len(q) /\ q[j - 1] = "esc"
        BY <4>1, <4>3
      <4>5. (j - 1) - i + 1 \in 3..Len(p) - 1 /\ q[j - 1] = p[(j - 1) - i + 1]
        <5>1. j - 1 < i + Len(p) /\ j < i + Len(p) - 1 /\ j - 1 \in i + 2..Len(q)
          BY <1>1, <4>1, <4>4
        <5>2. (j - 1) - i + 1 \in 3..Len(p) /\ q[j - 1] = p[(j - 1) - i + 1]
          BY <2>2, <5>1
        <5>3. (j - 1) - i + 1 \in 3..Len(p) - 1
          BY <1>1, <4>1, <5>1, <5>2
        <5> QED BY <5>2, <5>3
      <4>6. (j - 1) - i + 1 = Len(p) - 1
        BY <3>4, <4>4, <4>5
      <4> QED BY <1>1, <4>1, <4>6
    <3>6. CASE i + Len(p) - 1 <= Len(q)
      <4>1. PICK e : e = i + Len(p) - 1
        OBVIOUS
      <4>2. e \in i + 2..Len(q) /\ e - i + 1 = Len(p) /\ e < i + Len(p)
        BY <1>1, <1>2, <3>6, <4>1
      <4>3. q[e] = p[Len(p)]
        BY <2>2, <4>2
      <4>4. e \in S
        <5>1. CASE p[Len(p)] = "bel"
          BY <3>1, <4>2, <4>3, <5>1
        <5>2. CASE Len(p) = n + 2 /\ p[n + 1] = "esc" /\ p[n + 2] = "bs"
          <6>1. e - 1 \in i + 2..Len(q) /\ (e - 1) - i + 1 = n + 1 /\ e - 1 < i + Len(p)
            BY <1>1, <4>2, <5>2
          <6>2. q[e - 1] = "esc"
            BY <2>2, <5>2, <6>1
          <6> QED BY <3>1, <4>2, <4>3, <5>2, <6>1, <6>2
        <5> QED BY <3>3, <5>1, <5>2
      <4>5. S \in SUBSET Nat
        BY <3>1
      <4>6. First(S) = e
        BY <3>5, <4>1, <4>4, <4>5, FirstIs
      <4> QED BY <1>1, <1>3, <3>2, <3>6, <4>1, <4>2, <4>4, <4>6
    <3>7. CASE ~ (i + Len(p) - 1 <= Len(q))
      <4>1. S = {}
        BY <1>1, <3>1, <3>5, <3>7
      <4> QED BY <1>3, <3>2, <3>7, <4>1
    <3> QED BY <3>6, <3>7
  <2> QED BY <2>3, <2>4
<1> QED BY <1>1, <1>4, <1>5

\* g[i] to g[j], flattened.
Joined(g, i, j) == FlattenSeq([n \in 1..j - i + 1 |-> g[i + n - 1]])

FirstJoins(g, i, j) == Joined(g, i, j) = g[i] \o Joined(g, i + 1, j)

LEMMA JoinedSteps ==
  ASSUME NEW S, NEW g, NEW i \in Nat, NEW j \in Nat, i <= j, \A n \in i..j : g[n] \in Seq(S)
  PROVE  FirstJoins(g, i, j)
<1>1. PICK s : s = [n \in 1..j - (i + 1) + 1 |-> g[(i + 1) + n - 1]]
  OBVIOUS
<1>2. PICK t : t = [n \in 1..j - i + 1 |-> g[i + n - 1]]
  OBVIOUS
<1>3. \A n \in 1..j - i : s[n] = g[i + n] /\ g[i + n] \in Seq(S)
  BY <1>1
<1>4. s \in Seq(Seq(S)) /\ Len(s) = j - i
  BY <1>1, <1>3
<1>5. g[i] \in Seq(S)
  OBVIOUS
<1>6. PICK u : u = <<g[i]>> \o s
  OBVIOUS
<1>7. /\ u \in Seq(Seq(S)) /\ Len(u) = j - i + 1 /\ u[1] = g[i]
      /\ \A n \in 1..j - i : u[n + 1] = g[i + n]
  <2>1. PICK x \in Seq(S) : x = g[i]
    BY <1>5
  <2>2. u = <<x>> \o s
    BY <1>6, <2>1
  <2>3. u \in Seq(Seq(S)) /\ Len(u) = Len(s) + 1 /\ u[1] = x
    BY <1>4, <2>2
  <2>4. \A n \in 1..Len(s) : u[n + 1] = s[n]
    BY <1>4, <2>2
  <2> QED BY <1>3, <1>4, <2>1, <2>3, <2>4
<1>8. \A n \in 1..j - i + 1 : u[n] = g[i + n - 1]
  <2> SUFFICES ASSUME NEW n \in 1..j - i + 1 PROVE u[n] = g[i + n - 1]
    OBVIOUS
  <2>1. CASE n = 1
    BY <1>7, <2>1
  <2>2. CASE n # 1
    <3>1. n - 1 \in 1..j - i /\ (n - 1) + 1 = n /\ i + (n - 1) = i + n - 1
      BY <2>2
    <3> QED BY <1>7, <3>1
  <2> QED BY <2>1, <2>2
<1>9. u = t
  <2>1. u = [n \in 1..j - i + 1 |-> u[n]]
    BY <1>7
  <2> QED BY <1>2, <1>8, <2>1
<1>10. FlattenSeq(<<g[i]>> \o s) = g[i] \o FlattenSeq(s)
  BY <1>4, <1>5, FlattenCons, Zenon
<1>11. FlattenSeq(t) = g[i] \o FlattenSeq(s)
  BY <1>6, <1>9, <1>10, Zenon
<1>12. Joined(g, i, j) = FlattenSeq(t) /\ Joined(g, i + 1, j) = FlattenSeq(s)
  BY <1>1, <1>2, Zenon DEF Joined
<1> QED BY <1>11, <1>12, Zenon DEF FirstJoins

LEMMA JoinedEmpty == ASSUME NEW g, NEW j \in Nat PROVE Joined(g, j + 1, j) = <<>>
<1>1. [n \in 1..j - (j + 1) + 1 |-> g[(j + 1) + n - 1]] = <<>>
  OBVIOUS
<1> QED BY <1>1, FlattenEmpty DEF Joined

LEMMA JoinedTyped ==
  ASSUME NEW S, NEW g, NEW i \in Nat, NEW j \in Nat, i <= j + 1, \A n \in i..j : g[n] \in Seq(S)
  PROVE  Joined(g, i, j) \in Seq(S)
<1>1. PICK t : t = [n \in 1..j - i + 1 |-> g[i + n - 1]]
  OBVIOUS
<1>2. \A n \in 1..j - i + 1 : t[n] = g[i + n - 1] /\ i + n - 1 \in i..j
  BY <1>1
<1>3. \A n \in 1..j - i + 1 : t[n] \in Seq(S)
  BY <1>2
<1>4. t \in Seq(Seq(S))
  BY <1>1, <1>3
<1> QED BY <1>1, <1>4, FlattenTyped DEF Joined

\* A terminal shows what has arrived and line ends.
Chars == STRING \cup {"lf"}

\* What is shown of each piece.
Shows == [i \in 1..Len(sent) |-> Shown(i)]

LEMMA SeqOfMore ==
  ASSUME NEW S, NEW T, S \subseteq T, NEW s \in Seq(S)
  PROVE  s \in Seq(T)
<1>1. s = [i \in 1..Len(s) |-> s[i]] /\ Len(s) \in Nat
  OBVIOUS
<1>2. \A i \in 1..Len(s) : s[i] \in T
  OBVIOUS
<1> QED BY <1>1, <1>2

LEMMA ShownTyped ==
  ASSUME Arrived
  PROVE  \A i \in 1..Len(sent) : Shows[i] \in Seq(Chars) /\ Shows[i] = Shown(i)
<1> SUFFICES ASSUME NEW i \in 1..Len(sent) PROVE Shown(i) \in Seq(Chars)
  BY DEF Shows
<1>1. sent[i] \in Seq(Chars)
  <2>1. sent[i] \in Seq(STRING) /\ STRING \subseteq Chars
    BY ConstantsAssumption DEF Arrived, Chars
  <2> QED BY <2>1, SeqOfMore
<1>2. <<>> \in Seq(Chars) /\ <<"lf">> \in Seq(Chars)
  <2>1. <<>> \in Seq(Chars)
    OBVIOUS
  <2>2. "lf" \in Chars
    BY DEF Chars
  <2>3. ASSUME NEW x \in Chars PROVE <<x>> \in Seq(Chars)
    OBVIOUS
  <2> QED BY <2>1, <2>2, <2>3, Zenon
<1>3. Shown(i) \in {<<>>, <<"lf">>, sent[i]}
  BY Zenon DEF Shown
<1> QED BY <1>1, <1>2, <1>3

LEMMA ShownIsJoined ==
  ASSUME Arrived, NEW i \in Nat \ {0}, NEW j \in 0..Len(sent)
  PROVE  ShownFromTo(i, j) = Joined(Shows, i, j)
<1>1. \A n \in 1..j - i + 1 : i + n - 1 \in 1..Len(sent)
  OBVIOUS
<1>2. \A n \in 1..j - i + 1 : Shown(i + n - 1) = Shows[i + n - 1]
  BY <1>1, ShownTyped, Zenon
<1>3. [n \in 1..j - i + 1 |-> Shown(i + n - 1)] = [n \in 1..j - i + 1 |-> Shows[i + n - 1]]
  BY <1>2, Zenon
<1> QED BY <1>3, Zenon DEF ShownFromTo, Joined

LEMMA ShownSteps ==
  ASSUME Arrived, NEW j \in 0..Len(sent)
  PROVE  /\ ShownFromTo(j + 1, j) = <<>>
         /\ \A i \in 1..j + 1 : ShownFromTo(i, j) \in Seq(Chars)
         /\ \A i \in 1..j : ShownFromTo(i, j) = Shown(i) \o ShownFromTo(i + 1, j)
<1>1. j \in Nat /\ Len(sent) \in Nat /\ j <= Len(sent)
  BY DEF Arrived
<1>2. ShownFromTo(j + 1, j) = <<>>
  BY <1>1, ShownIsJoined, JoinedEmpty
<1>3. ASSUME NEW i \in 1..j + 1 PROVE ShownFromTo(i, j) \in Seq(Chars)
  <2>1. \A n \in i..j : n \in 1..Len(sent)
    BY <1>1
  <2>2. \A n \in i..j : Shows[n] \in Seq(Chars)
    BY <2>1, ShownTyped
  <2>3. i \in Nat /\ i <= j + 1 /\ i \in Nat \ {0}
    BY <1>1
  <2>4. Joined(Shows, i, j) \in Seq(Chars)
    BY <1>1, <2>2, <2>3, JoinedTyped
  <2> QED BY <2>3, <2>4, ShownIsJoined
<1>4. ASSUME NEW i \in 1..j PROVE ShownFromTo(i, j) = Shown(i) \o ShownFromTo(i + 1, j)
  <2>1. \A n \in i..j : n \in 1..Len(sent)
    BY <1>1
  <2>2. \A n \in i..j : Shows[n] \in Seq(Chars)
    BY <2>1, ShownTyped
  <2>3. i \in Nat /\ i <= j /\ i \in Nat \ {0} /\ i + 1 \in Nat \ {0} /\ i \in 1..Len(sent)
    BY <1>1
  <2>4. Joined(Shows, i, j) = Shows[i] \o Joined(Shows, i + 1, j)
    <3>1. FirstJoins(Shows, i, j)
      BY <1>1, <2>2, <2>3, JoinedSteps
    <3> QED BY <3>1, Zenon DEF FirstJoins
  <2>5. ShownFromTo(i, j) = Joined(Shows, i, j) /\ ShownFromTo(i + 1, j) = Joined(Shows, i + 1, j)
    BY <2>3, ShownIsJoined
  <2>6. Shows[i] = Shown(i)
    BY <2>3, ShownTyped
  <2> QED BY <2>4, <2>5, <2>6, Zenon
<1> QED BY <1>2, <1>3, <1>4

\* q is the stream from o + 1 to m, and ends with the j-th piece or where the
\* stream ends, and not between CR and LF.
Slice(q, o, m, j) ==
  /\ q \in Seq(STRING) /\ o \in Nat /\ m \in o..Len(stream) /\ Len(q) = m - o
  /\ \A k \in 1..Len(q) : q[k] = stream[o + k]
  /\ j \in 0..Len(sent) /\ BeginsAt(j + 1) <= m
  /\ m = BeginsAt(j + 1) \/ (j = Len(sent) /\ m = Len(stream))
  /\ m = Len(stream) \/ stream[m + 1] # "lf"

\* The piece that has not arrived whole shows nothing.
LEMMA PartSilent ==
  ASSUME Arrived, NEW q, NEW o, NEW m, NEW j, Slice(q, o, m, j), o <= BeginsAt(j + 1)
  PROVE  OutputFrom(q)[BeginsAt(j + 1) - o + 1] = <<>>
<1>1. /\ q \in Seq(STRING) /\ o \in Nat /\ m \in Nat /\ Len(q) = m - o /\ Len(q) \in Nat
      /\ \A k \in 1..Len(q) : q[k] = stream[o + k]
      /\ j + 1 \in 1..Len(sent) + 1 /\ BeginsAt(j + 1) <= m
      /\ m = BeginsAt(j + 1) \/ (j = Len(sent) /\ m = Len(stream))
  BY WindowOfStream DEF Slice, Arrived
<1>2. PICK b : b = BeginsAt(j + 1)
  OBVIOUS
<1>3. b \in Nat /\ b <= m /\ o <= b
  BY <1>1, <1>2, PieceAt
<1>4. PICK i : i = b - o + 1
  OBVIOUS
<1>5. i \in 1..Len(q) + 1 /\ OutputFrom(q)[i] = OutputStep(q, OutputFrom(q), i)
  BY <1>1, <1>3, <1>4, OutputEquation
<1>6. OutputFrom(q)[Len(q) + 1] = <<>>
  <2>1. Len(q) + 1 > Len(q) /\ Len(q) + 1 \in 1..Len(q) + 1
    BY <1>1
  <2>2. OutputStep(q, OutputFrom(q), Len(q) + 1) = <<>>
    BY <2>1, Zenon DEF OutputStep
  <2> QED BY <1>1, <2>1, <2>2, OutputEquation, Zenon
<1>7. CASE i = Len(q) + 1
  BY <1>2, <1>4, <1>6, <1>7
<1>8. CASE i # Len(q) + 1
  <2>1. i \in 1..Len(q) /\ m # b
    BY <1>1, <1>3, <1>4, <1>5, <1>8
  <2>2. j = Len(sent) /\ m = Len(stream)
    BY <1>1, <1>2, <2>1
  <2>3. /\ part \in Seq(STRING) /\ Len(part) = m - b
        /\ \A k \in 1..Len(part) : stream[b + k] = part[k]
    BY <1>1, <1>2, <1>3, <2>2, PieceAt DEF Arrived
  <2>4. part # <<>>
    BY <1>1, <1>3, <2>1, <2>3
  <2>5. PICK p \in Pieces : BeginningOf(p)
    BY <2>4 DEF Arrived
  <2>6. /\ p \in Seq(STRING) /\ Len(part) < Len(p) /\ \A k \in 1..Len(part) : part[k] = p[k]
        /\ Csi(p) \/ Osc(p)
    <3>1. Len(part) > 0 /\ Len(part) \in Nat
      BY <2>3, <2>4
    <3>2. Len(part) < Len(p) /\ \A k \in 1..Len(part) : part[k] = p[k]
      BY <2>5 DEF BeginningOf
    <3>3. p \in Seq(STRING) /\ ((Plain(p) /\ Len(p) = 1) \/ Csi(p) \/ Osc(p))
      BY PieceKinds, Zenon
    <3>4. Len(p) # 1
      <4>1. Len(part) < Len(p) /\ Len(p) \in Nat
        BY <3>2, <3>3
      <4> QED BY <3>1, <4>1
    <3> QED BY <3>2, <3>3, <3>4, Zenon
  <2>7. ASSUME NEW k \in 1..Len(p), i + k - 1 <= Len(q) PROVE q[i + k - 1] = p[k]
    <3>1. i + k - 1 \in 1..Len(q) /\ o + (i + k - 1) = b + k /\ k \in 1..Len(part)
      BY <1>1, <1>3, <1>4, <2>1, <2>3, <2>6, <2>7
    <3> QED BY <1>1, <2>3, <2>6, <3>1
  <2>8. q[i] = "esc" /\ AfterEsc(q, i) = IF i + Len(p) - 1 <= Len(q) THEN i + Len(p) ELSE Len(q) + 1
    BY <1>1, <2>1, <2>6, <2>7, ControlSkipped
  <2>9. AfterEsc(q, i) = Len(q) + 1
    BY <1>1, <1>3, <1>4, <2>3, <2>6, <2>8
  <2>10. ~ (i > Len(q))
    BY <1>1, <2>1
  <2>11. OutputStep(q, OutputFrom(q), i) = OutputFrom(q)[Len(q) + 1]
    BY <2>8, <2>9, <2>10, Zenon DEF OutputStep
  <2> QED BY <1>2, <1>4, <1>5, <1>6, <2>11, Zenon
<1> QED BY <1>7, <1>8

\* The loop goes through a slice piece by piece.
LEMMA OutputOfPiece ==
  ASSUME Arrived, NEW q, NEW o, NEW m, NEW j, Slice(q, o, m, j),
         NEW i \in 1..j, o <= BeginsAt(i)
  PROVE  /\ o <= BeginsAt(i + 1)
         /\ OutputFrom(q)[BeginsAt(i + 1) - o + 1] \in Seq(Chars) =>
              OutputFrom(q)[BeginsAt(i) - o + 1] =
                Shown(i) \o OutputFrom(q)[BeginsAt(i + 1) - o + 1]
<1>1. /\ q \in Seq(STRING) /\ o \in Nat /\ m \in Nat /\ Len(q) = m - o /\ Len(q) \in Nat
      /\ m <= Len(stream) /\ \A k \in 1..Len(q) : q[k] = stream[o + k]
      /\ i \in 1..Len(sent) /\ i \in 1..Len(sent) + 1 /\ i + 1 \in 1..Len(sent) + 1
      /\ j \in Nat /\ j + 1 \in 1..Len(sent) + 1
      /\ m = Len(stream) \/ stream[m + 1] # "lf"
  BY WindowOfStream DEF Slice, Arrived
<1>2. PICK b, c, p : b = BeginsAt(i) /\ c = BeginsAt(i + 1) /\ p = sent[i]
  OBVIOUS
<1>3. p \in Pieces /\ p \in Seq(STRING) /\ Len(p) >= 1 /\ Len(p) \in Nat
  <2>1. p \in Pieces
    BY <1>1, <1>2, PieceAt
  <2>2. p \in Seq(STRING) /\ Len(p) \in 1..Window /\ Window \in Nat
    BY <2>1, PieceKinds, ConstantsAssumption
  <2> QED BY <2>1, <2>2
<1>4. /\ b \in Nat /\ c \in Nat /\ o <= b
      /\ c = b + Len(p) /\ \A k \in 1..Len(p) : stream[b + k] = p[k]
  BY <1>1, <1>2, PieceAt
<1>5. c <= m
  <2>1. BeginsAt(j + 1) <= m /\ BeginsAt(j + 1) \in Nat
    BY <1>1, PieceAt DEF Slice
  <2>2. CASE i = j
    BY <1>2, <2>1, <2>2
  <2>3. CASE i # j
    <3>1. j + 1 \in (i + 1) + 1..Len(sent) + 1
      BY <1>1, <2>3
    <3>2. c < BeginsAt(j + 1)
      BY <1>1, <1>2, <3>1, BeginsLater
    <3> QED BY <1>1, <1>4, <2>1, <3>2
  <2> QED BY <2>2, <2>3
<1>6. PICK n : n = b - o + 1
  OBVIOUS
<1>7. /\ n \in 1..Len(q) /\ n \in 1..Len(q) + 1 /\ ~ (n > Len(q)) /\ n + Len(p) = c - o + 1
      /\ n + Len(p) - 1 <= Len(q) /\ o + n = b + 1
  BY <1>1, <1>3, <1>4, <1>5, <1>6
<1>8. PICK out : out = OutputFrom(q)
  OBVIOUS
<1>9. out[n] = OutputStep(q, out, n)
  BY <1>1, <1>7, <1>8, OutputEquation
<1>10. ASSUME NEW k \in 1..Len(p), n + k - 1 <= Len(q) PROVE q[n + k - 1] = p[k]
  <2>1. o \in Nat /\ b \in Nat /\ Len(q) \in Nat /\ n \in Nat /\ n >= 1 /\ o + n = b + 1
        /\ k \in Nat /\ k >= 1
    BY <1>1, <1>3, <1>4, <1>7
  <2>2. n + k - 1 \in 1..Len(q) /\ o + (n + k - 1) = b + k
    BY <1>10, <2>1
  <2>3. q[n + k - 1] = stream[o + (n + k - 1)]
    BY <1>1, <2>2, Zenon
  <2> QED BY <1>4, <2>2, <2>3
<1>11. ASSUME out[c - o + 1] \in Seq(Chars) PROVE out[n] = Shown(i) \o out[c - o + 1]
  <2>1. CASE Csi(p) \/ Osc(p)
    <3>1. q[n] = "esc" /\ AfterEsc(q, n) = n + Len(p)
      BY <1>1, <1>3, <1>7, <1>10, <2>1, ControlSkipped
    <3>2. out[n] = out[c - o + 1]
      BY <1>7, <1>9, <3>1, Zenon DEF OutputStep
    <3>3. Len(p) > 1
      BY <1>3, <2>1 DEF Csi, Osc
    <3>4. Shown(i) = <<>>
      <4>1. Len(sent[i]) > 1
        BY <1>2, <3>3, Zenon
      <4>2. sent[i] # <<"cr">>
        <5>1. ~ (Len(<<"cr">>) > 1)
          OBVIOUS
        <5> QED BY <4>1, <5>1, Zenon
      <4> QED BY <4>1, <4>2, Zenon DEF Shown
    <3>5. PICK r : r = out[c - o + 1]
      OBVIOUS
    <3>6. <<>> \o r = r
      BY <1>11, <3>5
    <3> QED BY <3>2, <3>4, <3>5, <3>6, Zenon
  <2>2. CASE Plain(p)
    <3>1. Len(p) = 1 /\ p[1] # "esc" /\ p = <<p[1]>>
      BY <1>3, <2>2 DEF Plain
    <3>2. q[n] = p[1] /\ c = b + 1 /\ n + 1 = c - o + 1
      <4>1. 1 \in 1..Len(p) /\ n + 1 - 1 = n
        BY <1>7, <3>1
      <4> QED BY <1>4, <1>7, <1>10, <3>1, <4>1
    <3>3. out[n] = Pushed(q, n) \o out[c - o + 1]
      BY <1>7, <1>9, <3>1, <3>2, Zenon DEF OutputStep
    <3>4. Pushed(q, n) = Shown(i)
      <4>1. CASE p[1] # "cr"
        <5>1. Pushed(q, n) = <<p[1]>>
          BY <3>2, <4>1 DEF Pushed
        <5>2. p # <<"cr">> /\ ~ (Len(p) > 1)
          BY <3>1, <4>1
        <5>3. Shown(i) = p
          BY <1>2, <5>2, Zenon DEF Shown
        <5> QED BY <3>1, <5>1, <5>3
      <4>2. CASE p[1] = "cr"
        <5>1. Breaks(q, n) <=> ~ (b + 2 <= Len(stream) /\ stream[b + 2] = "lf")
          <6>1. Len(stream) \in Nat
            BY WindowOfStream
          <6>2. CASE n = Len(q)
            <7>1. m = b + 1
              BY <1>1, <1>4, <1>7, <6>2
            <7>2. ~ (b + 2 <= Len(stream) /\ stream[b + 2] = "lf")
              <8>1. m + 1 = b + 2
                BY <1>4, <7>1
              <8>2. m = Len(stream) => ~ (b + 2 <= Len(stream))
                BY <1>4, <6>1, <7>1
              <8> QED BY <1>1, <8>1, <8>2
            <7> QED BY <6>2, <7>2 DEF Breaks
          <6>3. CASE n # Len(q)
            <7>1. n + 1 \in 1..Len(q) /\ o + (n + 1) = b + 2 /\ b + 2 <= Len(stream)
              BY <1>1, <1>4, <1>7, <6>1, <6>3
            <7>2. q[n + 1] = stream[b + 2]
              BY <1>1, <7>1
            <7>3. Breaks(q, n) <=> q[n + 1] # "lf"
              BY <6>3 DEF Breaks
            <7> QED BY <7>1, <7>2, <7>3
          <6> QED BY <6>2, <6>3
        <5>2. Pushed(q, n) = IF Breaks(q, n) THEN <<"lf">> ELSE <<>>
          BY <3>2, <4>2 DEF Pushed
        <5>3. p = <<"cr">> /\ ~ (Len(p) > 1)
          BY <3>1, <4>2
        <5>4. Shown(i) = IF b + 2 <= Len(stream) /\ stream[b + 2] = "lf" THEN <<>> ELSE <<"lf">>
          BY <1>2, <5>3, Zenon DEF Shown
        <5>5. CASE Breaks(q, n)
          <6>1. Pushed(q, n) = <<"lf">>
            BY <5>2, <5>5, Zenon
          <6>2. Shown(i) = <<"lf">>
            BY <5>1, <5>4, <5>5, Zenon
          <6> QED BY <6>1, <6>2, Zenon
        <5>6. CASE ~ Breaks(q, n)
          <6>1. Pushed(q, n) = <<>>
            BY <5>2, <5>6, Zenon
          <6>2. Shown(i) = <<>>
            BY <5>1, <5>4, <5>6, Zenon
          <6> QED BY <6>1, <6>2, Zenon
        <5> QED BY <5>5, <5>6, Zenon
      <4> QED BY <4>1, <4>2, Zenon
    <3> QED BY <3>3, <3>4, Zenon
  <2> QED BY <1>3, <2>1, <2>2, PieceKinds
<1>12. o <= c
  BY <1>1, <1>3, <1>4
<1> QED BY <1>2, <1>6, <1>8, <1>11, <1>12, Zenon

LEMMA OutputOfPieces ==
  ASSUME Arrived, NEW q, NEW o, NEW m, NEW j, Slice(q, o, m, j)
  PROVE  \A i \in 1..j + 1 :
           o <= BeginsAt(i) => OutputFrom(q)[BeginsAt(i) - o + 1] = ShownFromTo(i, j)
<1> DEFINE Holds(i) == OutputFrom(q)[BeginsAt(i) - o + 1] = ShownFromTo(i, j)
           T == {i \in Nat : i \in 1..j + 1 /\ o <= BeginsAt(i) => Holds(i)}
<1>1. j \in 0..Len(sent) /\ j \in Nat
  BY DEF Slice, Arrived
<1>2. ASSUME o <= BeginsAt(j + 1) PROVE Holds(j + 1)
  BY <1>1, <1>2, PartSilent, ShownSteps, Zenon
<1>3. ASSUME NEW i \in Nat, i >= j + 1 PROVE i \in T
  <2>1. i \in 1..j + 1 => i = j + 1
    BY <1>1, <1>3
  <2> HIDE DEF Holds
  <2> QED BY <1>2, <2>1
<1>4. ASSUME NEW i \in 0..(j + 1) - 1, \A n \in Nat : n > i => n \in T PROVE i \in T
  <2> SUFFICES ASSUME i \in 1..j + 1, o <= BeginsAt(i) PROVE Holds(i)
    <3>1. i \in Nat
      BY <1>1
    <3> HIDE DEF Holds
    <3> QED BY <3>1
  <2>1. i \in 1..j /\ i + 1 \in 1..j + 1 /\ i + 1 \in Nat /\ i + 1 > i
    BY <1>1
  <2>2. /\ o <= BeginsAt(i + 1)
        /\ OutputFrom(q)[BeginsAt(i + 1) - o + 1] \in Seq(Chars) =>
             OutputFrom(q)[BeginsAt(i) - o + 1] =
               Shown(i) \o OutputFrom(q)[BeginsAt(i + 1) - o + 1]
    BY <2>1, OutputOfPiece
  <2>3. Holds(i + 1)
    <3> HIDE DEF Holds
    <3> QED BY <1>4, <2>1, <2>2
  <2>4. ShownFromTo(i + 1, j) \in Seq(Chars) /\ ShownFromTo(i, j) = Shown(i) \o ShownFromTo(i + 1, j)
    BY <1>1, <2>1, ShownSteps, Zenon
  <2> QED BY <2>2, <2>3, <2>4, Zenon
<1>5. Nat \subseteq T
  <2>1. j + 1 \in Nat
    BY <1>1
  <2> HIDE DEF T
  <2> QED BY <1>3, <1>4, <2>1, DownwardInduction
<1>6. ASSUME NEW i \in 1..j + 1, o <= BeginsAt(i) PROVE Holds(i)
  <2>1. i \in T
    BY <1>1, <1>5
  <2> HIDE DEF Holds
  <2> QED BY <1>6, <2>1
<1> QED BY <1>6

\* A control string has no line end, and after its first character an ESC only
\* before its last one, a backslash.
LEMMA InsideControl ==
  ASSUME NEW p \in Seq(STRING), Csi(p) \/ Osc(p), NEW k \in 1..Len(p)
  PROVE  /\ p[k] \notin {"cr", "lf"}
         /\ k >= 2 /\ p[k] = "esc" => k < Len(p) /\ p[k + 1] = "bs"
<1>1. Len(p) \in Nat
  OBVIOUS
<1>2. CASE Csi(p)
  <2>1. /\ Len(p) >= 3 /\ p[1] = "esc" /\ p[2] = "[" /\ p[Len(p)] \notin NotFinal
        /\ \A i \in 3..Len(p) - 1 : p[i] = "0"
    BY <1>2 DEF Csi
  <2>2. k = 1 \/ k = 2 \/ k \in 3..Len(p) - 1 \/ k = Len(p)
    BY <1>1
  <2>3. p[k] \notin {"cr", "lf"} /\ (k >= 2 => p[k] # "esc")
    BY <2>1, <2>2 DEF NotFinal
  <2> QED BY <2>3
<1>3. CASE Osc(p)
  <2>1. PICK n \in 2..Len(p) - 1 :
          /\ p[1] = "esc" /\ p[2] = "]"
          /\ \A i \in 3..n : p[i] \notin {"esc", "bel", "cr", "lf"}
          /\ \/ Len(p) = n + 1 /\ p[n + 1] = "bel"
             \/ Len(p) = n + 2 /\ p[n + 1] = "esc" /\ p[n + 2] = "bs"
    BY <1>3 DEF Osc
  <2>2. k = 1 \/ k = 2 \/ k \in 3..n \/ k = n + 1 \/ (k = n + 2 /\ Len(p) = n + 2)
    BY <1>1, <2>1
  <2>3. p[k] \notin {"cr", "lf"}
    BY <2>1, <2>2
  <2>4. k >= 2 /\ p[k] = "esc" => k = n + 1 /\ Len(p) = n + 2
    BY <2>1, <2>2
  <2> QED BY <1>1, <2>1, <2>3, <2>4
<1> QED BY <1>2, <1>3

LEMMA FirstKeptIs ==
  ASSUME Arrived
  PROVE  /\ FirstKept \in 1..Len(sent) + 1 /\ Lost <= BeginsAt(FirstKept)
         /\ \A i \in 1..Len(sent) + 1 : Lost <= BeginsAt(i) => FirstKept <= i
<1>1. PICK S : S = {i \in 1..Len(sent) + 1 : BeginsAt(i) >= Lost}
  OBVIOUS
<1>2. FirstKept = First(S)
  BY <1>1 DEF FirstKept
<1>3. Len(sent) + 1 \in S
  <2>1. /\ Len(sent) + 1 \in 1..Len(sent) + 1 /\ BeginsAt(Len(sent) + 1) \in Nat
        /\ BeginsAt(Len(sent) + 1) + Len(part) = Len(stream) /\ Len(part) \in Nat
    BY PieceAt DEF Arrived
  <2>2. Len(part) <= Window /\ Window \in Nat
    <3>1. CASE part = <<>>
      BY <3>1, ConstantsAssumption
    <3>2. CASE part # <<>>
      <4>1. PICK p \in Pieces : Len(part) < Len(p)
        BY <3>2 DEF Arrived, BeginningOf
      <4>2. Len(p) \in 1..Window /\ Window \in Nat
        BY PieceKinds, ConstantsAssumption
      <4> QED BY <2>1, <4>1, <4>2
    <3> QED BY <3>1, <3>2
  <2>3. BeginsAt(Len(sent) + 1) >= Lost
    BY <2>1, <2>2 DEF Lost
  <2> QED BY <1>1, <2>1, <2>3
<1>4. S \in SUBSET Nat /\ S # {}
  BY <1>1, <1>3
<1>5. First(S) \in S /\ \A i \in S : First(S) <= i
  BY <1>4, FirstIsLeast
<1>6. Lost \in Nat /\ \A i \in 1..Len(sent) + 1 : BeginsAt(i) \in Nat
  BY WindowOfStream, PieceAt
<1> QED BY <1>1, <1>2, <1>5, <1>6

LEMMA RawSlice == ASSUME Arrived PROVE Slice(raw, Lost, Len(stream), Len(sent))
<1>1. /\ raw \in Seq(STRING) /\ Lost \in 0..Len(stream) /\ Len(stream) \in Nat
      /\ Len(raw) = Len(stream) - Lost /\ \A k \in 1..Len(raw) : raw[k] = stream[k + Lost]
  BY WindowOfStream
<1>2. \A k \in 1..Len(raw) : raw[k] = stream[Lost + k]
  <2>1. \A k \in 1..Len(raw) : k + Lost = Lost + k
    BY <1>1
  <2> QED BY <1>1, <2>1
<1>3. Len(sent) \in Nat /\ part \in Seq(STRING)
  BY DEF Arrived
<1>4. BeginsAt(Len(sent) + 1) <= Len(stream)
  BY <1>3, PieceAt
<1> QED BY <1>1, <1>2, <1>3, <1>4 DEF Slice

\* The piece in which a character of the stream lies, if that is whole.
LEMMA Located ==
  ASSUME Arrived, NEW x \in 1..Len(stream)
  PROVE  \/ BeginsAt(Len(sent) + 1) < x
         \/ \E i \in 1..Len(sent) : BeginsAt(i) < x /\ x <= BeginsAt(i + 1)
<1>1. PICK S : S = {i \in 1..Len(sent) + 1 : BeginsAt(i) >= x}
  OBVIOUS
<1>2. Len(sent) \in Nat /\ Len(stream) \in Nat /\ S \in SUBSET Nat
  BY <1>1, WindowOfStream DEF Arrived
<1>3. \A i \in 1..Len(sent) + 1 : BeginsAt(i) \in Nat
  BY PieceAt
<1>4. CASE S = {}
  <2>1. Len(sent) + 1 \in 1..Len(sent) + 1
    BY <1>2
  <2>2. ~ (BeginsAt(Len(sent) + 1) >= x)
    BY <1>1, <1>4, <2>1
  <2> QED BY <1>2, <1>3, <2>1, <2>2
<1>5. CASE S # {}
  <2>1. PICK n : n = First(S)
    OBVIOUS
  <2>2. n \in S /\ \A i \in S : n <= i
    BY <1>2, <1>5, <2>1, FirstIsLeast
  <2>3. n # 1
    <3>1. BeginsAt(1) = 0
      BY PieceAt
    <3>2. ~ (0 >= x)
      BY <1>2
    <3> QED BY <1>1, <2>2, <3>1, <3>2
  <2>4. PICK i : i = n - 1
    OBVIOUS
  <2>5. i \in 1..Len(sent) /\ i \in 1..Len(sent) + 1 /\ i + 1 = n /\ ~ (n <= i)
    BY <1>1, <1>2, <2>2, <2>3, <2>4
  <2>6. ~ (BeginsAt(i) >= x)
    BY <1>1, <2>2, <2>5
  <2>7. BeginsAt(i) < x
    BY <1>2, <1>3, <2>5, <2>6
  <2>8. x <= BeginsAt(i + 1)
    BY <1>1, <1>2, <1>3, <2>2, <2>5
  <2> QED BY <2>5, <2>7, <2>8
<1> QED BY <1>4, <1>5

\* The k-th character of the i-th piece.
LEMMA CharAt ==
  ASSUME Arrived, NEW i \in 1..Len(sent), NEW x \in Nat, BeginsAt(i) < x, x <= BeginsAt(i + 1)
  PROVE  /\ x - BeginsAt(i) \in 1..Len(sent[i]) /\ stream[x] = sent[i][x - BeginsAt(i)]
         /\ BeginsAt(i + 1) - x = Len(sent[i]) - (x - BeginsAt(i))
<1>1. i \in 1..Len(sent) + 1
  BY DEF Arrived
<1>2. PICK b, p : b = BeginsAt(i) /\ p = sent[i]
  OBVIOUS
<1>3. /\ b \in Nat /\ p \in Seq(STRING) /\ Len(p) \in Nat
      /\ BeginsAt(i + 1) = b + Len(p)
      /\ \A k \in 1..Len(p) : stream[b + k] = p[k]
  <2>1. p \in Pieces
    BY <1>2, PieceAt
  <2>2. p \in Seq(STRING)
    BY <2>1, PieceKinds
  <2> QED BY <1>1, <1>2, <2>2, PieceAt
<1>4. x - b \in 1..Len(p) /\ b + (x - b) = x /\ BeginsAt(i + 1) - x = Len(p) - (x - b)
  BY <1>2, <1>3
<1>5. stream[x] = p[x - b]
  BY <1>3, <1>4
<1> QED BY <1>2, <1>4, <1>5, Zenon

\* Line ends are pieces of their own.
LEMMA LineEndsWhole ==
  ASSUME Arrived, NEW x \in 1..Len(stream), stream[x] \in {"cr", "lf"}
  PROVE  \E i \in 1..Len(sent) : BeginsAt(i + 1) = x /\ BeginsAt(i) = x - 1
<1>1. Len(sent) \in Nat /\ Len(stream) \in Nat /\ part \in Seq(STRING)
      /\ BeginsAt(Len(sent) + 1) \in Nat /\ BeginsAt(Len(sent) + 1) + Len(part) = Len(stream)
  <2>1. Len(sent) \in Nat /\ Len(sent) + 1 \in 1..Len(sent) + 1 /\ part \in Seq(STRING)
    BY DEF Arrived
  <2> QED BY <2>1, PieceAt, WindowOfStream
<1>2. CASE BeginsAt(Len(sent) + 1) < x
  <2>1. PICK b : b = BeginsAt(Len(sent) + 1)
    OBVIOUS
  <2>2. x - b \in 1..Len(part) /\ b + (x - b) = x
    BY <1>1, <1>2, <2>1
  <2>3. stream[x] = part[x - b]
    BY <2>1, <2>2, PieceAt
  <2>4. PICK p \in Pieces : BeginningOf(p)
    <3>1. part # <<>>
      BY <1>1, <2>2
    <3> QED BY <3>1 DEF Arrived
  <2>5. Len(part) < Len(p) /\ part[x - b] = p[x - b]
    BY <2>2, <2>4 DEF BeginningOf
  <2>6. p \in Seq(STRING) /\ Len(p) \in Nat /\ (Len(p) = 1 \/ Csi(p) \/ Osc(p))
    <3>1. p \in Seq(STRING) /\ (Len(p) = 1 \/ Csi(p) \/ Osc(p))
      BY PieceKinds, Zenon
    <3> QED BY <3>1
  <2>7. x - b \in 1..Len(p) /\ Len(p) # 1
    BY <1>1, <2>2, <2>5, <2>6
  <2>8. p[x - b] \notin {"cr", "lf"}
    BY <2>6, <2>7, InsideControl
  <2> QED BY <2>3, <2>5, <2>8, Zenon
<1>3. CASE \E i \in 1..Len(sent) : BeginsAt(i) < x /\ x <= BeginsAt(i + 1)
  <2>1. PICK i \in 1..Len(sent) : BeginsAt(i) < x /\ x <= BeginsAt(i + 1)
    BY <1>3
  <2>2. x \in Nat
    BY <1>1
  <2>3. PICK k : k = x - BeginsAt(i)
    OBVIOUS
  <2>4. k \in 1..Len(sent[i]) /\ stream[x] = sent[i][k] /\ BeginsAt(i + 1) - x = Len(sent[i]) - k
    BY <2>1, <2>2, <2>3, CharAt
  <2>5. sent[i] \in Pieces /\ BeginsAt(i) \in Nat /\ BeginsAt(i + 1) = BeginsAt(i) + Len(sent[i])
    <3>1. i \in 1..Len(sent) + 1
      BY <1>1
    <3> QED BY <3>1, PieceAt
  <2>6. sent[i] \in Seq(STRING) /\ (Len(sent[i]) = 1 \/ Csi(sent[i]) \/ Osc(sent[i]))
    BY <2>5, PieceKinds, Zenon
  <2>7. ~ (Csi(sent[i]) \/ Osc(sent[i]))
    <3>1. PICK p : p = sent[i]
      OBVIOUS
    <3>2. Csi(p) \/ Osc(p) => p[k] \notin {"cr", "lf"}
      BY <2>4, <2>6, <3>1, InsideControl
    <3> QED BY <2>4, <3>1, <3>2, Zenon
  <2>8. Len(sent[i]) = 1
    BY <2>6, <2>7
  <2>9. BeginsAt(i + 1) = x /\ BeginsAt(i) = x - 1
    <3>1. PICK b, c : b = BeginsAt(i) /\ c = BeginsAt(i + 1)
      OBVIOUS
    <3>2. k \in 1..1 /\ b \in Nat /\ c = b + 1 /\ k = x - b
      BY <2>3, <2>4, <2>5, <2>8, <3>1
    <3>3. c = x /\ b = x - 1
      BY <2>2, <3>2
    <3> QED BY <3>1, <3>3
  <2> QED BY <2>9
<1> QED BY <1>2, <1>3, Located

-----------------------------------------------------------------------------
(* The fragment and the echo *)

\* What is left of a piece that the window has cut: its end, without its ESC.
LEMMA FragmentIs ==
  ASSUME Arrived
  PROVE  LET n == BeginsAt(FirstKept) - Lost IN
         /\ n \in 0..Len(raw) /\ Len(Fragment) = n /\ DOMAIN Fragment = 1..n
         /\ \A k \in 1..n :
              /\ Fragment[k] = raw[k] /\ raw[k] \notin {"cr", "lf"}
              /\ raw[k] = "esc" => k < n /\ raw[k + 1] = "bs"
<1>1. /\ stream \in Seq(STRING) /\ Lost \in 0..Len(stream) /\ Len(stream) \in Nat
      /\ Len(raw) = Len(stream) - Lost /\ \A k \in 1..Len(raw) : raw[k] = stream[k + Lost]
  BY WindowOfStream
<1>2. /\ FirstKept \in 1..Len(sent) + 1 /\ Lost <= BeginsAt(FirstKept)
      /\ \A i \in 1..Len(sent) + 1 : Lost <= BeginsAt(i) => FirstKept <= i
  BY FirstKeptIs
<1>3. PICK b : b = BeginsAt(FirstKept)
  OBVIOUS
<1>4. b \in Nat /\ b <= Len(stream) /\ Len(sent) \in Nat
  <2>1. Len(sent) \in Nat /\ Len(part) \in Nat
    BY DEF Arrived
  <2>2. /\ b \in Nat /\ BeginsAt(Len(sent) + 1) \in Nat
        /\ BeginsAt(Len(sent) + 1) + Len(part) = Len(stream)
    BY <1>2, <1>3, <2>1, PieceAt
  <2>3. b <= BeginsAt(Len(sent) + 1)
    <3>1. CASE FirstKept = Len(sent) + 1
      BY <1>3, <2>2, <3>1
    <3>2. CASE FirstKept # Len(sent) + 1
      <4>1. Len(sent) + 1 \in FirstKept + 1..Len(sent) + 1
        BY <1>2, <2>1, <3>2
      <4>2. b < BeginsAt(Len(sent) + 1)
        BY <1>2, <1>3, <4>1, BeginsLater
      <4> QED BY <2>2, <4>2
    <3> QED BY <3>1, <3>2
  <2> QED BY <2>1, <2>2, <2>3
<1>5. PICK n : n = b - Lost
  OBVIOUS
<1>6. n \in 0..Len(raw) /\ Lost + n = b
  BY <1>1, <1>2, <1>3, <1>4, <1>5
<1>7. /\ Len(Fragment) = n /\ DOMAIN Fragment = 1..n
      /\ \A k \in 1..n : Fragment[k] = stream[k + Lost]
  <2>1. Fragment = SubSeq(stream, Lost + 1, b)
    BY <1>3 DEF Fragment
  <2> QED BY <1>1, <1>4, <1>6, <2>1
<1>8. \A k \in 1..n : raw[k] = stream[k + Lost]
  BY <1>1, <1>6
<1>9. ASSUME NEW k \in 1..n
      PROVE  /\ stream[k + Lost] \notin {"cr", "lf"}
             /\ stream[k + Lost] = "esc" => k < n /\ stream[(k + 1) + Lost] = "bs"
  <2>1. PICK i : i = FirstKept - 1
    OBVIOUS
  <2>2. FirstKept # 1
    <3>1. BeginsAt(1) = 0
      BY PieceAt
    <3> QED BY <1>1, <1>3, <1>5, <3>1
  <2>3. i \in 1..Len(sent) /\ i \in 1..Len(sent) + 1 /\ i + 1 = FirstKept /\ ~ (FirstKept <= i)
    BY <1>2, <1>4, <2>1, <2>2
  <2>4. BeginsAt(i) \in Nat /\ BeginsAt(i) < Lost
    <3>1. BeginsAt(i) \in Nat /\ ~ (Lost <= BeginsAt(i))
      BY <1>2, <2>3, PieceAt
    <3> QED BY <1>1, <3>1
  <2>5. PICK x : x = k + Lost
    OBVIOUS
  <2>6. x \in Nat /\ BeginsAt(i) < x /\ x <= b /\ b = BeginsAt(i + 1) /\ b - x = n - k
    BY <1>1, <1>3, <1>4, <1>6, <2>3, <2>4, <2>5
  <2>7. PICK j, p : j = x - BeginsAt(i) /\ p = sent[i]
    OBVIOUS
  <2>8. j \in 1..Len(p) /\ stream[x] = p[j] /\ n - k = Len(p) - j
    BY <2>3, <2>6, <2>7, CharAt
  <2>9. j >= 2
    BY <1>1, <2>4, <2>5, <2>6, <2>7
  <2>10. p \in Seq(STRING) /\ Len(p) \in Nat /\ (Len(p) = 1 \/ Csi(p) \/ Osc(p))
    <3>1. p \in Pieces
      BY <2>3, <2>7, PieceAt
    <3>2. p \in Seq(STRING) /\ (Len(p) = 1 \/ Csi(p) \/ Osc(p))
      BY <3>1, PieceKinds, Zenon
    <3> QED BY <3>2
  <2>11. Csi(p) \/ Osc(p)
    BY <2>8, <2>9, <2>10
  <2>12. p[j] \notin {"cr", "lf"} /\ (p[j] = "esc" => j < Len(p) /\ p[j + 1] = "bs")
    BY <2>8, <2>9, <2>10, <2>11, InsideControl
  <2>13. ASSUME j < Len(p) PROVE k < n /\ stream[(k + 1) + Lost] = p[j + 1]
    <3>1. k < n
      BY <1>6, <2>8, <2>10, <2>13
    <3>2. x + 1 \in Nat /\ BeginsAt(i) < x + 1 /\ x + 1 <= BeginsAt(i + 1)
      BY <1>4, <1>6, <2>4, <2>6, <3>1
    <3>3. stream[x + 1] = p[(x + 1) - BeginsAt(i)]
      BY <2>3, <2>7, <3>2, CharAt
    <3>4. (x + 1) - BeginsAt(i) = j + 1 /\ (k + 1) + Lost = x + 1
      BY <1>1, <2>4, <2>5, <2>6, <2>7
    <3> QED BY <3>1, <3>3, <3>4
  <2> QED BY <2>5, <2>8, <2>12, <2>13
<1>10. \A k \in 1..n : k < n => raw[k + 1] = stream[(k + 1) + Lost]
  <2> SUFFICES ASSUME NEW k \in 1..n, k < n PROVE raw[k + 1] = stream[(k + 1) + Lost]
    OBVIOUS
  <2>1. k + 1 \in 1..n
    BY <1>6
  <2> QED BY <1>8, <2>1
<1>11. \A k \in 1..n : /\ Fragment[k] = raw[k] /\ raw[k] \notin {"cr", "lf"}
                       /\ raw[k] = "esc" => k < n /\ raw[k + 1] = "bs"
  BY <1>7, <1>8, <1>9, <1>10
<1> QED BY <1>3, <1>5, <1>6, <1>7, <1>11

FragmentShows == [n \in DOMAIN Fragment |-> IF Fragment[n] = "esc" THEN <<>> ELSE <<Fragment[n]>>]

\* Of the fragment the loop outputs all but an ESC.
LEMMA FragmentOutput ==
  ASSUME Arrived
  PROVE  LET n == BeginsAt(FirstKept) - Lost IN
         OutputFrom(raw)[n + 1] \in Seq(Chars) =>
           OutputFrom(raw)[1] = ShownOfFragment \o OutputFrom(raw)[n + 1]
<1>1. PICK n, q, out, g : /\ n = BeginsAt(FirstKept) - Lost /\ q = raw /\ out = OutputFrom(raw)
                          /\ g = FragmentShows
  OBVIOUS
<1>2. /\ q \in Seq(STRING) /\ Len(q) \in Nat /\ n \in 0..Len(q) /\ DOMAIN Fragment = 1..n
      /\ \A k \in 1..n : /\ Fragment[k] = q[k] /\ q[k] \notin {"cr", "lf"}
                         /\ q[k] = "esc" => k < n /\ q[k + 1] = "bs"
  <2>1. raw \in Seq(STRING)
    BY WindowOfStream
  <2> QED BY <1>1, <2>1, FragmentIs
<1>3. \A k \in 1..n : g[k] = IF q[k] = "esc" THEN <<>> ELSE <<q[k]>>
  BY <1>1, <1>2 DEF FragmentShows
<1>4. \A k \in 1..n : g[k] \in Seq(Chars)
  <2> SUFFICES ASSUME NEW k \in 1..n PROVE g[k] \in Seq(Chars)
    OBVIOUS
  <2>1. q[k] \in STRING
    BY <1>2
  <2>2. q[k] \in Chars
    BY <2>1 DEF Chars
  <2>3. ASSUME NEW x \in Chars PROVE <<x>> \in Seq(Chars) /\ <<>> \in Seq(Chars)
    OBVIOUS
  <2> QED BY <1>3, <2>2, <2>3, Zenon
<1>5. ShownOfFragment = Joined(g, 1, n)
  <2>1. \A k \in 1..n - 1 + 1 : 1 + k - 1 = k /\ k \in 1..n
    BY <1>2
  <2>2. 1..n - 1 + 1 = 1..n
    BY <1>2
  <2>3. [k \in 1..n - 1 + 1 |-> g[1 + k - 1]] = [k \in 1..n |-> g[k]]
    BY <2>1, <2>2
  <2>4. [k \in 1..n |-> g[k]] = FragmentShows
    BY <1>1, <1>2, Zenon DEF FragmentShows
  <2>5. FragmentShows = [k \in DOMAIN Fragment |-> IF Fragment[k] = "esc" THEN <<>> ELSE <<Fragment[k]>>]
    BY DEF FragmentShows
  <2> QED BY <2>3, <2>4, <2>5, Zenon DEF ShownOfFragment, Joined
<1>6. ASSUME out[n + 1] \in Seq(Chars) PROVE out[1] = Joined(g, 1, n) \o out[n + 1]
  <2>1. PICK r \in Seq(Chars) : r = out[n + 1]
    BY <1>6
  <2> DEFINE Holds(k) == out[k] = Joined(g, k, n) \o r
             T == {k \in Nat : k \in 1..n + 1 => Holds(k)}
  <2>2. Holds(n + 1)
    <3>1. Joined(g, n + 1, n) = <<>>
      BY <1>2, JoinedEmpty
    <3>2. <<>> \o r = r
      OBVIOUS
    <3> QED BY <2>1, <3>1, <3>2, Zenon
  <2>3. ASSUME NEW k \in Nat, k >= n + 1 PROVE k \in T
    <3>1. k \in 1..n + 1 => k = n + 1
      BY <1>2, <2>3
    <3> HIDE DEF Holds
    <3> QED BY <2>2, <3>1
  <2>4. ASSUME NEW k \in 0..(n + 1) - 1, \A j \in Nat : j > k => j \in T PROVE k \in T
    <3> SUFFICES ASSUME k \in 1..n + 1 PROVE Holds(k)
      <4>1. k \in Nat
        BY <1>2
      <4> HIDE DEF Holds
      <4> QED BY <4>1
    <3>1. k \in 1..n /\ k \in 1..Len(q) /\ k \in 1..Len(q) + 1 /\ ~ (k > Len(q))
          /\ k + 1 \in 1..n + 1 /\ k + 1 \in Nat /\ k + 1 > k /\ k \in Nat /\ n \in Nat /\ k <= n
      BY <1>2
    <3>2. Holds(k + 1)
      <4> HIDE DEF Holds
      <4> QED BY <2>4, <3>1
    <3>3. Joined(g, k, n) = g[k] \o Joined(g, k + 1, n)
      <4>1. \A j \in k..n : g[j] \in Seq(Chars)
        BY <1>4, <3>1
      <4>2. FirstJoins(g, k, n)
        BY <3>1, <4>1, JoinedSteps
      <4> QED BY <4>2, Zenon DEF FirstJoins
    <3>4. Joined(g, k + 1, n) \in Seq(Chars)
      <4>1. \A j \in k + 1..n : g[j] \in Seq(Chars)
        BY <1>4, <3>1
      <4>2. k + 1 <= n + 1
        BY <3>1
      <4> QED BY <3>1, <4>1, <4>2, JoinedTyped
    <3>5. out[k] = OutputStep(q, out, k)
      BY <1>1, <1>2, <3>1, OutputEquation
    <3>6. out[k] = g[k] \o out[k + 1]
      <4>1. CASE q[k] = "esc"
        <5>1. q[k + 1] = "bs"
          BY <1>2, <3>1, <4>1
        <5>2. AfterEsc(q, k) = k + 1
          BY <5>1 DEF AfterEsc
        <5>3. out[k] = out[k + 1]
          BY <3>1, <3>5, <4>1, <5>2, Zenon DEF OutputStep
        <5>4. g[k] = <<>>
          BY <1>3, <3>1, <4>1, Zenon
        <5>5. PICK a, c : a = Joined(g, k + 1, n) /\ c = a \o r
          OBVIOUS
        <5>6. out[k + 1] = c
          BY <3>2, <5>5, Zenon
        <5>7. <<>> \o c = c
          <6>1. c \in Seq(Chars)
            BY <3>4, <5>5
          <6> QED BY <6>1
        <5> QED BY <5>3, <5>4, <5>6, <5>7, Zenon
      <4>2. CASE q[k] # "esc"
        <5>1. out[k] = Pushed(q, k) \o out[k + 1]
          BY <3>1, <3>5, <4>2, Zenon DEF OutputStep
        <5>2. q[k] # "cr"
          BY <1>2, <3>1
        <5>3. Pushed(q, k) = <<q[k]>>
          BY <5>2, Zenon DEF Pushed
        <5>4. g[k] = <<q[k]>>
          BY <1>3, <3>1, <4>2, Zenon
        <5> QED BY <5>1, <5>3, <5>4, Zenon
      <4> QED BY <4>1, <4>2
    <3>7. PICK a, x : a = Joined(g, k + 1, n) /\ x = g[k]
      OBVIOUS
    <3>8. x \in Seq(Chars) /\ a \in Seq(Chars)
      BY <1>4, <3>1, <3>4, <3>7
    <3>9. (x \o a) \o r = x \o (a \o r)
      BY <3>8
    <3>10. out[k + 1] = a \o r /\ out[k] = x \o out[k + 1] /\ Joined(g, k, n) = x \o a
      BY <3>2, <3>3, <3>6, <3>7, Zenon
    <3> QED BY <3>9, <3>10, Zenon
  <2>5. Nat \subseteq T
    <3>1. n + 1 \in Nat
      BY <1>2
    <3> HIDE DEF T
    <3> QED BY <2>3, <2>4, <3>1, DownwardInduction
  <2>6. Holds(1)
    <3>1. 1 \in 1..n + 1 /\ 1 \in T
      BY <1>2, <2>5
    <3> HIDE DEF Holds
    <3> QED BY <3>1
  <2> QED BY <2>1, <2>6, Zenon
<1> QED BY <1>1, <1>5, <1>6, Zenon

\* The output of the whole window.
LEMMA WindowOutput ==
  ASSUME Arrived
  PROVE  normalize_terminal_output(raw) = ShownOfFragment \o ShownFromTo(FirstKept, Len(sent))
<1>1. Slice(raw, Lost, Len(stream), Len(sent))
  BY RawSlice
<1>2. FirstKept \in 1..Len(sent) + 1 /\ Lost <= BeginsAt(FirstKept)
  BY FirstKeptIs
<1>3. OutputFrom(raw)[BeginsAt(FirstKept) - Lost + 1] = ShownFromTo(FirstKept, Len(sent))
  BY <1>1, <1>2, OutputOfPieces
<1>4. ShownFromTo(FirstKept, Len(sent)) \in Seq(Chars)
  <2>1. Len(sent) \in 0..Len(sent)
    BY DEF Arrived
  <2> QED BY <1>2, <2>1, ShownSteps
<1> QED BY <1>3, <1>4, FragmentOutput, Zenon DEF normalize_terminal_output

\* A prefix, element by element.
LEMMA PrefixIs ==
  ASSUME NEW S, NEW s \in Seq(S), NEW t \in Seq(S)
  PROVE  IsPrefix(s, t) <=> Len(s) <= Len(t) /\ \A k \in 1..Len(s) : s[k] = t[k]
<1>1. SubSeq(s, 1, Len(s)) = s /\ Len(s) \in Nat /\ Len(t) \in Nat
  OBVIOUS
<1>2. CASE Len(s) <= Len(t)
  <2>1. PICK u : u = SubSeq(t, 1, Len(s))
    OBVIOUS
  <2>2. u \in Seq(S) /\ Len(u) = Len(s) /\ \A k \in 1..Len(s) : u[k] = t[k]
    BY <1>1, <1>2, <2>1
  <2>3. s = u <=> \A k \in 1..Len(s) : s[k] = u[k]
    BY <2>2
  <2>4. IsPrefix(s, t) <=> s = u
    BY <1>1, <1>2, <2>1, Zenon DEF IsPrefix
  <2> QED BY <1>2, <2>2, <2>3, <2>4
<1>3. CASE ~ (Len(s) <= Len(t))
  BY <1>3 DEF IsPrefix
<1> QED BY <1>2, <1>3

\* A sequence read backwards.
LEMMA ReverseIs ==
  ASSUME NEW S, NEW s \in Seq(S)
  PROVE  /\ Reverse(s) \in Seq(S) /\ Len(Reverse(s)) = Len(s)
         /\ \A k \in 1..Len(s) : Reverse(s)[k] = s[Len(s) - k + 1]
<1>1. Len(s) \in Nat /\ \A k \in 1..Len(s) : Len(s) - k + 1 \in 1..Len(s)
  OBVIOUS
<1>2. \A k \in 1..Len(s) : s[Len(s) - k + 1] \in S
  BY <1>1
<1>3. PICK n, u : n = Len(s) /\ u = Reverse(s)
  OBVIOUS
<1>4. u = [k \in 1..n |-> s[(n - k) + 1]]
  BY <1>3 DEF Reverse
<1>5. u \in [1..n -> S]
  BY <1>2, <1>3, <1>4
<1>6. u \in Seq(S) /\ Len(u) = n
  BY <1>1, <1>3, <1>5
<1>7. \A k \in 1..n : u[k] = s[n - k + 1]
  BY <1>4
<1> QED BY <1>3, <1>6, <1>7

\* A suffix, element by element.
LEMMA SuffixIs ==
  ASSUME NEW S, NEW s \in Seq(S), NEW t \in Seq(S)
  PROVE  IsSuffix(s, t) <=>
           Len(s) <= Len(t) /\ \A k \in 1..Len(s) : s[k] = t[Len(t) - Len(s) + k]
<1>1. PICK m, n, u, v : m = Len(s) /\ n = Len(t) /\ u = Reverse(s) /\ v = Reverse(t)
  OBVIOUS
<1>2. m \in Nat /\ n \in Nat
  BY <1>1
<1>3. u \in Seq(S) /\ Len(u) = m /\ \A k \in 1..m : u[k] = s[m - k + 1]
  BY <1>1, ReverseIs
<1>4. v \in Seq(S) /\ Len(v) = n /\ \A k \in 1..n : v[k] = t[n - k + 1]
  BY <1>1, ReverseIs
<1>5. IsSuffix(s, t) <=> IsPrefix(u, v)
  BY <1>1, Zenon DEF IsSuffix
<1>6. IsPrefix(u, v) <=> m <= n /\ \A k \in 1..m : u[k] = v[k]
  <2>1. IsPrefix(u, v) <=> Len(u) <= Len(v) /\ \A k \in 1..Len(u) : u[k] = v[k]
    <3>1. u \in Seq(S) /\ v \in Seq(S)
      BY <1>3, <1>4
    <3> QED BY <3>1, PrefixIs
  <2>2. Len(u) = m /\ Len(v) = n
    BY <1>3, <1>4
  <2> QED BY <2>1, <2>2, Zenon
<1>7. ASSUME m <= n, \A k \in 1..m : u[k] = v[k], NEW k \in 1..m PROVE s[k] = t[n - m + k]
  <2>1. PICK j : j = m - k + 1
    OBVIOUS
  <2>2. j \in 1..m /\ j \in 1..n /\ m - j + 1 = k /\ n - j + 1 = n - m + k
    BY <1>2, <1>7, <2>1
  <2>3. u[j] = s[m - j + 1] /\ v[j] = t[n - j + 1] /\ u[j] = v[j]
    BY <1>3, <1>4, <1>7, <2>2
  <2> QED BY <2>2, <2>3
<1>8. ASSUME m <= n, \A k \in 1..m : s[k] = t[n - m + k], NEW k \in 1..m PROVE u[k] = v[k]
  <2>1. PICK j : j = m - k + 1
    OBVIOUS
  <2>2. j \in 1..m /\ k \in 1..n /\ n - m + j = n - k + 1
    <3>1. m <= n /\ k \in 1..m
      BY <1>8
    <3>2. k \in Nat /\ 1 <= k /\ k <= n /\ k <= m
      BY <1>2, <3>1
    <3> QED BY <1>2, <2>1, <3>2
  <2>3. u[k] = s[j] /\ v[k] = t[n - k + 1] /\ s[j] = t[n - m + j]
    BY <1>3, <1>4, <1>8, <2>1, <2>2
  <2> QED BY <2>2, <2>3
<1>9. IsSuffix(s, t) <=> m <= n /\ \A k \in 1..m : s[k] = t[n - m + k]
  BY <1>5, <1>6, <1>7, <1>8
<1> QED BY <1>1, <1>9, Zenon

\* Two sequences with the same elements.
LEMMA SameElements ==
  ASSUME NEW S, NEW s \in Seq(S), NEW t \in Seq(S),
         Len(s) = Len(t), \A k \in 1..Len(s) : s[k] = t[k]
  PROVE  s = t
OBVIOUS

\* What is left of a sequence after its first d - 1 elements.
LEMMA DroppedIs ==
  ASSUME NEW S, NEW s \in Seq(S), NEW d \in 1..Len(s) + 1
  PROVE  /\ SubSeq(s, d, Len(s)) \in Seq(S) /\ Len(SubSeq(s, d, Len(s))) = Len(s) - d + 1
         /\ \A k \in 1..Len(s) - d + 1 : SubSeq(s, d, Len(s))[k] = s[d + k - 1]
<1>1. Len(s) \in Nat /\ d \in Nat /\ 1 <= d /\ d <= Len(s) + 1
  OBVIOUS
<1>2. PICK u : u = SubSeq(s, d, Len(s))
  OBVIOUS
<1>3. u \in Seq(S) /\ Len(u) = Len(s) - d + 1 /\ \A k \in 1..Len(u) : u[k] = s[d + k - 1]
  BY <1>1, <1>2
<1> QED BY <1>2, <1>3

\* The next element of a slice of a sequence.
LEMMA SubSeqNext ==
  ASSUME NEW S, NEW s \in Seq(S), NEW i \in 1..Len(s) + 1, NEW j \in i - 1..Len(s),
         j + 1 <= Len(s)
  PROVE  SubSeq(s, i, j + 1) = Append(SubSeq(s, i, j), s[j + 1]) /\ SubSeq(s, i, j) \in Seq(S)
<1>1. Len(s) \in Nat /\ i \in Nat /\ j \in Nat /\ i <= j + 1 /\ 1 <= i /\ j + 1 \in 1..Len(s)
  OBVIOUS
<1>2. PICK u : u = SubSeq(s, i, j)
  OBVIOUS
<1>3. u \in Seq(S) /\ Len(u) = j - i + 1 /\ \A k \in 1..Len(u) : u[k] = s[i + k - 1]
  BY <1>1, <1>2
<1>4. PICK v : v = SubSeq(s, i, j + 1)
  OBVIOUS
<1>5. v \in Seq(S) /\ Len(v) = j + 1 - i + 1 /\ \A k \in 1..Len(v) : v[k] = s[i + k - 1]
  BY <1>1, <1>4
<1>6. PICK w : w = Append(u, s[j + 1])
  OBVIOUS
<1>7. s[j + 1] \in S
  BY <1>1
<1>8. w \in Seq(S) /\ Len(w) = Len(u) + 1 /\ w[Len(u) + 1] = s[j + 1]
      /\ \A k \in 1..Len(u) : w[k] = u[k]
  BY <1>3, <1>6, <1>7
<1>9. ASSUME NEW k \in 1..Len(v) PROVE v[k] = w[k]
  <2>1. CASE k \in 1..Len(u)
    BY <1>3, <1>5, <1>8, <2>1
  <2>2. CASE k \notin 1..Len(u)
    <3>1. k = Len(u) + 1 /\ i + k - 1 = j + 1
      BY <1>1, <1>3, <1>5, <2>2
    <3> QED BY <1>5, <1>8, <3>1
  <2> QED BY <2>1, <2>2
<1>10. Len(v) = Len(w)
  BY <1>1, <1>3, <1>5, <1>8
<1>11. v = w
  BY <1>5, <1>8, <1>9, <1>10, SameElements
<1> QED BY <1>2, <1>3, <1>4, <1>6, <1>11, Zenon

\* Pieces i + 1 to j, flattened, are the stream from where the first begins to
\* where the last ends.
LEMMA SegmentIs ==
  ASSUME Arrived, NEW i \in 1..Len(sent) + 1
  PROVE  \A j \in i - 1..Len(sent) :
           LET a == FlattenSeq(SubSeq(sent, i, j)) IN
           /\ a \in Seq(STRING) /\ Len(a) = BeginsAt(j + 1) - BeginsAt(i)
           /\ \A k \in 1..Len(a) : a[k] = stream[BeginsAt(i) + k]
<1> DEFINE Seg(j) == FlattenSeq(SubSeq(sent, i, j))
           Is(j) == /\ Seg(j) \in Seq(STRING) /\ Len(Seg(j)) = BeginsAt(j + 1) - BeginsAt(i)
                    /\ \A k \in 1..Len(Seg(j)) : Seg(j)[k] = stream[BeginsAt(i) + k]
           T == {d \in Nat : i - 1 + d <= Len(sent) => Is(i - 1 + d)}
<1>1. sent \in Seq(Seq(STRING)) /\ Len(sent) \in Nat /\ BeginsAt(i) \in Nat
  BY PieceAt, ConstantsAssumption DEF Arrived
<1>2. 0 \in T
  <2>1. SubSeq(sent, i, i - 1) = <<>> /\ (i - 1) + 1 = i /\ i - 1 + 0 = i - 1
    BY <1>1
  <2>2. Seg(i - 1) = <<>>
    BY <2>1, FlattenEmpty, Zenon
  <2>3. Is(i - 1)
    <3>1. PICK a : a = Seg(i - 1)
      OBVIOUS
    <3>2. a = <<>>
      BY <2>2, <3>1, Zenon
    <3>3. a \in Seq(STRING) /\ Len(a) = BeginsAt((i - 1) + 1) - BeginsAt(i)
          /\ \A k \in 1..Len(a) : a[k] = stream[BeginsAt(i) + k]
      BY <1>1, <2>1, <3>2
    <3> QED BY <3>1, <3>3, Zenon
  <2> HIDE DEF Is
  <2> QED BY <2>1, <2>3
<1>3. ASSUME NEW d \in Nat, d \in T PROVE d + 1 \in T
  <2> SUFFICES ASSUME i - 1 + (d + 1) <= Len(sent) PROVE Is(i - 1 + (d + 1))
    <3> HIDE DEF Is
    <3> QED OBVIOUS
  <2>1. PICK j : j = i - 1 + d
    OBVIOUS
  <2>2. /\ j \in Nat /\ j + 1 = i - 1 + (d + 1) /\ j + 1 \in 1..Len(sent) /\ j \in i - 1..Len(sent)
        /\ i - 1 + d <= Len(sent) /\ i <= j + 1 /\ j + 1 \in 1..Len(sent) + 1
    BY <1>1, <2>1
  <2>3. Is(j)
    <3> HIDE DEF Is
    <3> QED BY <1>3, <2>1, <2>2
  <2>4. PICK a, x : a = Seg(j) /\ x = sent[j + 1]
    OBVIOUS
  <2>5. PICK b, c : b = BeginsAt(i) /\ c = BeginsAt(j + 1)
    OBVIOUS
  <2>6. a \in Seq(STRING) /\ Len(a) = c - b /\ \A k \in 1..Len(a) : a[k] = stream[b + k]
    BY <2>3, <2>4, <2>5, Zenon
  <2>7. /\ b \in Nat /\ c \in Nat /\ x \in Seq(STRING)
        /\ BeginsAt((j + 1) + 1) = c + Len(x)
        /\ \A k \in 1..Len(x) : stream[c + k] = x[k]
    <3>1. PICK m : m = j + 1
      OBVIOUS
    <3>2. m \in 1..Len(sent) /\ m \in 1..Len(sent) + 1 /\ x = sent[m] /\ c = BeginsAt(m)
      BY <2>2, <2>4, <2>5, <3>1
    <3>3. BeginsAt(m + 1) = c + Len(x) /\ \A k \in 1..Len(x) : stream[c + k] = x[k]
      BY <3>2, PieceAt
    <3>4. c \in Nat /\ b \in Nat
      BY <1>1, <2>5, <3>2, PieceAt
    <3>5. x \in Seq(STRING)
      BY <1>1, <3>2
    <3> QED BY <3>1, <3>3, <3>4, <3>5
  <2>8. SubSeq(sent, i, j + 1) = Append(SubSeq(sent, i, j), x) /\ SubSeq(sent, i, j) \in Seq(Seq(STRING))
    <3>1. j + 1 <= Len(sent)
      BY <1>1, <2>2
    <3> QED BY <1>1, <2>2, <2>4, <3>1, SubSeqNext
  <2>9. Seg(j + 1) = a \o x
    BY <2>4, <2>7, <2>8, FlattenAppend, Zenon
  <2>10. PICK u : u = a \o x
    OBVIOUS
  <2>11. u \in Seq(STRING) /\ Len(u) = Len(a) + Len(x) /\ Len(a) \in Nat /\ Len(x) \in Nat
    <3>1. a \in Seq(STRING) /\ x \in Seq(STRING)
      BY <2>6, <2>7
    <3>2. Len(a) \in Nat /\ Len(x) \in Nat
      BY <3>1
    <3>3. a \o x \in Seq(STRING) /\ Len(a \o x) = Len(a) + Len(x)
      BY <3>1
    <3> QED BY <2>10, <3>2, <3>3
  <2>12. ASSUME NEW k \in 1..Len(u) PROVE u[k] = stream[b + k]
    <3>1. CASE k <= Len(a)
      <4>1. k \in 1..Len(a) /\ u[k] = a[k]
        BY <2>6, <2>7, <2>10, <2>11, <3>1
      <4> QED BY <2>6, <4>1
    <3>2. CASE ~ (k <= Len(a))
      <4>1. PICK y : y = k - Len(a)
        OBVIOUS
      <4>2. y \in 1..Len(x) /\ c + y = b + k /\ k = Len(a) + y
        BY <2>6, <2>7, <2>11, <3>2, <4>1
      <4>3. u[k] = x[y]
        BY <2>6, <2>7, <2>10, <2>11, <4>2
      <4> QED BY <2>7, <4>2, <4>3
    <3> QED BY <3>1, <3>2
  <2>13. Len(u) = BeginsAt((j + 1) + 1) - b
    BY <2>6, <2>7, <2>11
  <2>14. Is(j + 1)
    BY <2>5, <2>9, <2>10, <2>11, <2>12, <2>13, Zenon
  <2> HIDE DEF Is
  <2> QED BY <2>2, <2>14
<1>4. Nat \subseteq T
  <2> HIDE DEF T
  <2> QED BY <1>2, <1>3, Induction
<1>5. ASSUME NEW j \in i - 1..Len(sent) PROVE Is(j)
  <2>1. j - (i - 1) \in Nat /\ i - 1 + (j - (i - 1)) = j /\ j <= Len(sent)
    BY <1>1
  <2>2. j - (i - 1) \in T
    BY <1>4, <2>1
  <2> HIDE DEF Is
  <2> QED BY <2>1, <2>2
<1> QED BY <1>5, Zenon

EchoEnds     == {i \in Len(Terminator)..Len(raw) : IsSuffix(Terminator, SubSeq(raw, 1, i))}
LinesFrom(f) == {i \in f..Len(sent) : IsSuffix(Terminator, FlattenSeq(SubSeq(sent, f, i)))}
WindowLines  == LinesFrom(FirstKept)

\* A terminator is made of line ends.
LEMMA TerminatorIs ==
  Terminator # <<>> =>
    /\ Terminator \in Seq(Chars \cup {"cr"}) /\ Len(Terminator) \in Nat /\ Len(Terminator) >= 1
    /\ \A k \in 1..Len(Terminator) : Terminator[k] \in {"cr", "lf"}
<1>1. Terminator \in Seq({"cr", "lf"})
  BY ConstantsAssumption
<1>2. {"cr", "lf"} \subseteq Chars \cup {"cr"}
  BY DEF Chars
<1>3. Terminator \in Seq(Chars \cup {"cr"})
  BY <1>1, <1>2, SeqOfMore
<1> QED BY <1>1, <1>3

\* A line of the pieces from f on ends where the terminator is in the stream.
LEMMA LineEndsAt ==
  ASSUME Arrived, Terminator # <<>>, NEW f \in 1..Len(sent) + 1
  PROVE  /\ LinesFrom(f) \subseteq f..Len(sent)
         /\ \A i \in f..Len(sent) : i \in LinesFrom(f) <=>
              /\ Len(Terminator) <= BeginsAt(i + 1) - BeginsAt(f)
              /\ \A k \in 1..Len(Terminator) :
                   Terminator[k] = stream[BeginsAt(i + 1) - Len(Terminator) + k]
<1>1. PICK T, n, b : T = Terminator /\ n = Len(Terminator) /\ b = BeginsAt(f)
  OBVIOUS
<1>2. /\ T \in Seq(Chars \cup {"cr"}) /\ n = Len(T) /\ n \in Nat /\ n >= 1
  BY <1>1, TerminatorIs
<1>3. f \in Nat /\ 1 <= f /\ b \in Nat /\ Len(sent) \in Nat
  <2>1. Len(sent) \in Nat
    BY DEF Arrived
  <2> QED BY <1>1, <2>1, PieceAt
<1>4. STRING \subseteq Chars \cup {"cr"}
  BY DEF Chars
<1>5. \A i \in f..Len(sent) : IsSuffix(T, FlattenSeq(SubSeq(sent, f, i))) <=>
        n <= BeginsAt(i + 1) - b /\ \A k \in 1..n : T[k] = stream[BeginsAt(i + 1) - n + k]
  <2> SUFFICES ASSUME NEW i \in f..Len(sent)
               PROVE  IsSuffix(T, FlattenSeq(SubSeq(sent, f, i))) <=>
                        n <= BeginsAt(i + 1) - b /\ \A k \in 1..n : T[k] = stream[BeginsAt(i + 1) - n + k]
    OBVIOUS
  <2>1. PICK u, c : u = FlattenSeq(SubSeq(sent, f, i)) /\ c = BeginsAt(i + 1)
    OBVIOUS
  <2>2. i \in f - 1..Len(sent) /\ i + 1 \in 1..Len(sent) + 1
    BY <1>3
  <2>3. u \in Seq(STRING) /\ Len(u) = c - b /\ \A k \in 1..Len(u) : u[k] = stream[b + k]
    BY <1>1, <1>3, <2>1, <2>2, SegmentIs
  <2>4. u \in Seq(Chars \cup {"cr"}) /\ c \in Nat
    BY <1>4, <2>1, <2>2, <2>3, SeqOfMore, PieceAt
  <2>5. IsSuffix(T, u) <=> n <= c - b /\ \A k \in 1..n : T[k] = u[(c - b) - n + k]
    <3>1. IsSuffix(T, u) <=> Len(T) <= Len(u) /\ \A k \in 1..Len(T) : T[k] = u[Len(u) - Len(T) + k]
      BY <1>2, <2>4, SuffixIs
    <3>2. Len(T) = n /\ Len(u) = c - b
      BY <1>2, <2>3
    <3> QED BY <3>1, <3>2
  <2>6. ASSUME n <= c - b PROVE \A k \in 1..n : u[(c - b) - n + k] = stream[c - n + k]
    <3>1. \A k \in 1..n : (c - b) - n + k \in 1..c - b /\ b + ((c - b) - n + k) = c - n + k
      BY <1>2, <1>3, <2>4, <2>6
    <3> QED BY <2>3, <3>1
  <2> QED BY <2>1, <2>5, <2>6
<1> QED BY <1>1, <1>5, Zenon DEF LinesFrom

\* Of the line ends in the window none belongs to the fragment.
LEMMA LineEndKept ==
  ASSUME Arrived, NEW x \in 1..Len(stream), x > Lost, stream[x] \in {"cr", "lf"}
  PROVE  \E i \in FirstKept..Len(sent) : BeginsAt(i + 1) = x /\ BeginsAt(FirstKept) < x
<1>1. PICK f, b : f = FirstKept /\ b = BeginsAt(FirstKept)
  OBVIOUS
<1>2. /\ f \in 1..Len(sent) + 1 /\ f \in Nat /\ b \in Nat /\ Lost <= b /\ Len(sent) \in Nat
      /\ \A i \in 1..Len(sent) + 1 : Lost <= BeginsAt(i) => f <= i
      /\ Len(stream) \in Nat /\ Lost \in Nat
  <2>1. Len(sent) \in Nat
    BY DEF Arrived
  <2> QED BY <1>1, <2>1, FirstKeptIs, PieceAt, WindowOfStream
<1>3. PICK i \in 1..Len(sent) : BeginsAt(i + 1) = x /\ BeginsAt(i) = x - 1
  BY LineEndsWhole
<1>4. i \in 1..Len(sent) + 1 /\ Lost <= BeginsAt(i) /\ x \in Nat
  BY <1>2, <1>3
<1>5. f <= i
  BY <1>2, <1>4
<1>6. b <= BeginsAt(i)
  <2>1. CASE f = i
    BY <1>1, <1>3, <1>4, <2>1
  <2>2. CASE f # i
    <3>1. i \in f + 1..Len(sent) + 1
      BY <1>2, <1>4, <1>5, <2>2
    <3>2. b < BeginsAt(i)
      BY <1>1, <1>2, <3>1, BeginsLater
    <3> QED BY <1>2, <1>3, <1>4, <3>2
  <2> QED BY <2>1, <2>2
<1> QED BY <1>1, <1>2, <1>3, <1>4, <1>5, <1>6

\* Terminators end in the window where they end in the pieces of the window.
LEMMA EndsAreLines ==
  ASSUME Arrived, Terminator # <<>>
  PROVE  /\ \A e \in EchoEnds : \E i \in WindowLines : e = BeginsAt(i + 1) - Lost
         /\ \A i \in WindowLines : BeginsAt(i + 1) - Lost \in EchoEnds
<1>1. PICK T, n, b, f : /\ T = Terminator /\ n = Len(Terminator) /\ b = BeginsAt(FirstKept)
                        /\ f = FirstKept
  OBVIOUS
<1>2. /\ T \in Seq(Chars \cup {"cr"}) /\ n = Len(T) /\ n \in Nat /\ n >= 1
      /\ \A k \in 1..n : T[k] \in {"cr", "lf"}
  BY <1>1, TerminatorIs
<1>3. /\ f \in 1..Len(sent) + 1 /\ f \in Nat /\ b \in Nat /\ Lost <= b /\ Len(sent) \in Nat
  <2>1. Len(sent) \in Nat
    BY DEF Arrived
  <2> QED BY <1>1, <2>1, FirstKeptIs, PieceAt
<1>4. /\ Len(stream) \in Nat /\ Lost \in Nat /\ Lost <= Len(stream) /\ raw \in Seq(STRING)
      /\ Len(raw) = Len(stream) - Lost
      /\ \A k \in 1..Len(raw) : raw[k] = stream[k + Lost]
  BY WindowOfStream
<1>5. STRING \subseteq Chars \cup {"cr"}
  BY DEF Chars
<1>6. \A e \in n..Len(raw) : IsSuffix(T, SubSeq(raw, 1, e)) <=>
                               \A k \in 1..n : T[k] = stream[Lost + e - n + k]
  <2> SUFFICES ASSUME NEW e \in n..Len(raw)
               PROVE  IsSuffix(T, SubSeq(raw, 1, e)) <=>
                        \A k \in 1..n : T[k] = stream[Lost + e - n + k]
    OBVIOUS
  <2>1. PICK u : u = SubSeq(raw, 1, e)
    OBVIOUS
  <2>2. u \in Seq(STRING) /\ Len(u) = e /\ \A k \in 1..e : u[k] = raw[k]
    BY <1>2, <1>4, <2>1
  <2>3. u \in Seq(Chars \cup {"cr"})
    BY <1>5, <2>2, SeqOfMore
  <2>4. IsSuffix(T, u) <=> n <= e /\ \A k \in 1..n : T[k] = u[e - n + k]
    BY <1>2, <2>2, <2>3, SuffixIs
  <2>5. \A k \in 1..n : e - n + k \in 1..e /\ e - n + k \in 1..Len(raw)
                        /\ (e - n + k) + Lost = Lost + e - n + k
    BY <1>2, <1>4
  <2>6. \A k \in 1..n : u[e - n + k] = stream[Lost + e - n + k]
    BY <1>4, <2>2, <2>5
  <2>7. n <= e
    BY <1>2
  <2> QED BY <2>1, <2>4, <2>6, <2>7
<1>7. /\ WindowLines \subseteq f..Len(sent)
      /\ \A i \in f..Len(sent) : i \in WindowLines <=>
           n <= BeginsAt(i + 1) - b /\ \A k \in 1..n : T[k] = stream[BeginsAt(i + 1) - n + k]
  BY <1>1, <1>3, LineEndsAt, Zenon DEF WindowLines
<1>8. EchoEnds = {e \in n..Len(raw) : IsSuffix(T, SubSeq(raw, 1, e))}
  BY <1>1 DEF EchoEnds
<1>9. ASSUME NEW x \in 1..Len(stream), x > Lost, stream[x] \in {"cr", "lf"}
      PROVE  \E i \in f..Len(sent) : BeginsAt(i + 1) = x /\ b < x
  BY <1>1, <1>9, LineEndKept
<1>10. ASSUME NEW e \in EchoEnds PROVE \E i \in WindowLines : e = BeginsAt(i + 1) - Lost
  <2>1. e \in n..Len(raw) /\ \A k \in 1..n : T[k] = stream[Lost + e - n + k]
    BY <1>6, <1>8
  <2>2. e \in Nat /\ n <= e /\ e <= Len(raw)
    BY <1>2, <1>4, <2>1
  <2>3. /\ Lost + e \in 1..Len(stream) /\ Lost + e > Lost /\ Lost + e - n + n = Lost + e
        /\ Lost + e - n + 1 \in 1..Len(stream) /\ Lost + e - n + 1 > Lost
        /\ n \in 1..n /\ 1 \in 1..n
    BY <1>2, <1>4, <2>2
  <2>4. stream[Lost + e] \in {"cr", "lf"} /\ stream[Lost + e - n + 1] \in {"cr", "lf"}
    BY <1>2, <2>1, <2>3
  <2>5. PICK i \in f..Len(sent) : BeginsAt(i + 1) = Lost + e
    BY <1>9, <2>3, <2>4
  <2>6. b < Lost + e - n + 1
    BY <1>9, <2>3, <2>4
  <2>7. n <= BeginsAt(i + 1) - b
    BY <1>2, <1>3, <1>4, <2>2, <2>5, <2>6
  <2>8. \A k \in 1..n : T[k] = stream[BeginsAt(i + 1) - n + k]
    <3>1. PICK c : c = BeginsAt(i + 1)
      OBVIOUS
    <3>2. PICK y : y = Lost + e
      OBVIOUS
    <3>3. \A k \in 1..n : T[k] = stream[y - n + k]
      <4> SUFFICES ASSUME NEW k \in 1..n PROVE T[k] = stream[y - n + k]
        OBVIOUS
      <4>1. Lost + e - n + k = y - n + k
        BY <1>2, <1>4, <2>2, <3>2
      <4>2. T[k] = stream[Lost + e - n + k]
        BY <2>1, Zenon
      <4> QED BY <4>1, <4>2, Zenon
    <3>4. y = c
      BY <2>5, <3>1, <3>2, Zenon
    <3> QED BY <3>1, <3>3, <3>4, Zenon
  <2>9. i \in WindowLines
    BY <1>7, <2>7, <2>8
  <2>10. e = BeginsAt(i + 1) - Lost
    BY <1>4, <2>2, <2>5
  <2> QED BY <2>9, <2>10
<1>11. ASSUME NEW i \in WindowLines PROVE BeginsAt(i + 1) - Lost \in EchoEnds
  <2>1. PICK c : c = BeginsAt(i + 1)
    OBVIOUS
  <2>2. i \in f..Len(sent) /\ n <= c - b /\ \A k \in 1..n : T[k] = stream[c - n + k]
    BY <1>7, <2>1
  <2>3. c \in Nat /\ c <= Len(stream)
    <3>1. i \in 1..Len(sent) /\ i + 1 \in 1..Len(sent) + 1 /\ Len(sent) + 1 \in 1..Len(sent) + 1
          /\ part \in Seq(STRING)
      BY <1>3, <2>2 DEF Arrived
    <3>2. /\ c \in Nat /\ c <= BeginsAt(Len(sent) + 1) /\ BeginsAt(Len(sent) + 1) \in Nat
          /\ BeginsAt(Len(sent) + 1) + Len(part) = Len(stream)
      BY <2>1, <3>1, PieceAt
    <3> QED BY <3>1, <3>2
  <2>4. PICK e : e = c - Lost
    OBVIOUS
  <2>5. e \in n..Len(raw) /\ Lost + e = c
    BY <1>2, <1>3, <1>4, <2>2, <2>3, <2>4
  <2>6. \A k \in 1..n : T[k] = stream[Lost + e - n + k]
    <3>1. PICK y : y = Lost + e
      OBVIOUS
    <3>2. y = c
      BY <2>5, <3>1
    <3>3. \A k \in 1..n : T[k] = stream[y - n + k]
      BY <2>2, <3>2, Zenon
    <3> SUFFICES ASSUME NEW k \in 1..n PROVE T[k] = stream[Lost + e - n + k]
      OBVIOUS
    <3>4. Lost + e - n + k = y - n + k
      <4>1. e \in Nat
        BY <1>2, <1>4, <2>5
      <4> QED BY <1>2, <1>4, <3>1, <4>1
    <3>5. T[k] = stream[y - n + k]
      BY <3>3, Zenon
    <3> QED BY <3>4, <3>5, Zenon
  <2>7. e \in EchoEnds
    BY <1>6, <1>8, <2>5, <2>6
  <2> QED BY <2>1, <2>4, <2>7
<1> QED BY <1>10, <1>11

\* The echo ends in the window with the first piece that completes a line.
LEMMA EchoBoundary ==
  ASSUME Arrived
  PROVE  /\ Terminator = <<>> \/ WindowLines = {} => echo_line_boundary(raw) = None
         /\ Terminator # <<>> /\ WindowLines # {} =>
              LET i == First(WindowLines) IN
              /\ i \in FirstKept..Len(sent)
              /\ BeginsAt(i + 1) - Lost \in 1..Len(raw)
              /\ echo_line_boundary(raw) = BeginsAt(i + 1) - Lost + 1
<1>1. echo_line_boundary(raw) =
        IF Terminator = <<>> \/ EchoEnds = {} THEN None ELSE First(EchoEnds) + 1
  BY DEF echo_line_boundary, EchoEnds
<1>2. CASE Terminator = <<>>
  BY <1>1, <1>2
<1>3. CASE Terminator # <<>> /\ WindowLines = {}
  BY <1>1, <1>3, EndsAreLines
<1>4. CASE Terminator # <<>> /\ WindowLines # {}
  <2>1. PICK i : i = First(WindowLines)
    OBVIOUS
  <2>2. FirstKept \in 1..Len(sent) + 1 /\ Len(sent) \in Nat
    BY FirstKeptIs DEF Arrived
  <2>3. WindowLines \in SUBSET Nat
    BY <2>2 DEF WindowLines, LinesFrom
  <2>4. i \in WindowLines /\ \A j \in WindowLines : i <= j
    BY <1>4, <2>1, <2>3, FirstIsLeast
  <2>5. i \in FirstKept..Len(sent)
    BY <2>4 DEF WindowLines, LinesFrom
  <2>6. PICK e : e = BeginsAt(i + 1) - Lost
    OBVIOUS
  <2>7. e \in EchoEnds
    BY <1>4, <2>4, <2>6, EndsAreLines
  <2>8. Len(Terminator) \in Nat /\ Len(Terminator) >= 1 /\ Len(raw) \in Nat /\ Lost \in Nat
    BY <1>4, TerminatorIs, WindowOfStream
  <2>9. e \in 1..Len(raw) /\ EchoEnds \in SUBSET Nat
    BY <2>7, <2>8 DEF EchoEnds
  <2>10. ASSUME NEW x \in EchoEnds PROVE e <= x
    <3>1. PICK j \in WindowLines : x = BeginsAt(j + 1) - Lost
      BY <1>4, EndsAreLines
    <3>2. j \in FirstKept..Len(sent) /\ i <= j
      BY <2>4, <3>1 DEF WindowLines, LinesFrom
    <3>3. CASE i = j
      BY <2>6, <2>9, <3>1, <3>3
    <3>4. CASE i # j
      <4>1. i + 1 \in 1..Len(sent) + 1 /\ j + 1 \in (i + 1) + 1..Len(sent) + 1
            /\ j + 1 \in 1..Len(sent) + 1
        BY <2>2, <2>5, <3>2, <3>4
      <4>2. BeginsAt(i + 1) < BeginsAt(j + 1)
        BY <4>1, BeginsLater
      <4>3. BeginsAt(i + 1) \in Nat /\ BeginsAt(j + 1) \in Nat
        BY <4>1, PieceAt
      <4> QED BY <2>6, <2>8, <3>1, <4>2, <4>3
    <3> QED BY <3>3, <3>4
  <2>11. First(EchoEnds) = e
    BY <2>7, <2>9, <2>10, FirstIs
  <2>12. echo_line_boundary(raw) = e + 1
    BY <1>1, <1>4, <2>7, <2>11
  <2> QED BY <1>4, <2>1, <2>5, <2>6, <2>9, <2>12
<1> QED BY <1>2, <1>3, <1>4

\* The first line of the window is the echo if the window holds its terminator.
LEMMA FirstLineIsEcho ==
  ASSUME Arrived, Terminator # <<>>
  PROVE  /\ Lines = {} => WindowLines = {}
         /\ Lines # {} /\ EchoKept => WindowLines # {} /\ First(WindowLines) = EchoEnd
<1>1. PICK T, n, b, f : /\ T = Terminator /\ n = Len(Terminator) /\ b = BeginsAt(FirstKept)
                        /\ f = FirstKept
  OBVIOUS
<1>2. n \in Nat /\ n >= 1 /\ T[1] \in {"cr", "lf"} /\ T[n] \in {"cr", "lf"}
  <2>1. n \in Nat /\ n >= 1 /\ \A k \in 1..n : T[k] \in {"cr", "lf"}
    BY <1>1, TerminatorIs
  <2>2. 1 \in 1..n /\ n \in 1..n
    BY <2>1
  <2> QED BY <2>1, <2>2
<1>3. /\ f \in 1..Len(sent) + 1 /\ f \in Nat /\ b \in Nat /\ Lost <= b /\ Len(sent) \in Nat
      /\ Lost \in Nat /\ Len(stream) \in Nat
  <2>1. Len(sent) \in Nat
    BY DEF Arrived
  <2> QED BY <1>1, <2>1, FirstKeptIs, PieceAt, WindowOfStream
<1>4. /\ WindowLines \subseteq f..Len(sent)
      /\ \A i \in f..Len(sent) : i \in WindowLines <=>
           n <= BeginsAt(i + 1) - b /\ \A k \in 1..n : T[k] = stream[BeginsAt(i + 1) - n + k]
  BY <1>1, <1>3, LineEndsAt, Zenon DEF WindowLines
<1>5. /\ Lines \subseteq 1..Len(sent)
      /\ \A i \in 1..Len(sent) : i \in Lines <=>
           n <= BeginsAt(i + 1) /\ \A k \in 1..n : T[k] = stream[BeginsAt(i + 1) - n + k]
  <2>1. 1 \in 1..Len(sent) + 1 /\ BeginsAt(1) = 0
    BY <1>3, PieceAt
  <2>2. Lines = LinesFrom(1)
    BY DEF Lines, LinesFrom
  <2>3. /\ LinesFrom(1) \subseteq 1..Len(sent)
        /\ \A i \in 1..Len(sent) : i \in LinesFrom(1) <=>
             n <= BeginsAt(i + 1) - BeginsAt(1)
               /\ \A k \in 1..n : T[k] = stream[BeginsAt(i + 1) - n + k]
    BY <1>1, <2>1, LineEndsAt, Zenon
  <2>4. \A i \in 1..Len(sent) : BeginsAt(i + 1) - BeginsAt(1) = BeginsAt(i + 1)
    <3>1. \A i \in 1..Len(sent) : i + 1 \in 1..Len(sent) + 1
      BY <1>3
    <3>2. \A i \in 1..Len(sent) : BeginsAt(i + 1) \in Nat
      BY <3>1, PieceAt
    <3> QED BY <2>1, <3>2
  <2> QED BY <2>2, <2>3, <2>4
<1>6. ASSUME NEW i \in WindowLines PROVE i \in Lines
  <2>1. PICK c : c = BeginsAt(i + 1)
    OBVIOUS
  <2>2. i \in f..Len(sent) /\ n <= c - b /\ \A k \in 1..n : T[k] = stream[c - n + k]
    BY <1>4, <2>1
  <2>3. i \in 1..Len(sent) /\ i + 1 \in 1..Len(sent) + 1
    BY <1>3, <2>2
  <2>4. n <= c
    <3>1. c \in Nat
      BY <2>1, <2>3, PieceAt
    <3> QED BY <1>2, <1>3, <2>2, <3>1
  <2> QED BY <1>5, <2>1, <2>2, <2>3, <2>4
<1>7. ASSUME Lines # {}, EchoKept PROVE WindowLines # {} /\ First(WindowLines) = EchoEnd
  <2>1. PICK l, c : l = EchoEnd /\ c = BeginsAt(EchoEnd + 1)
    OBVIOUS
  <2>2. l \in Lines /\ \A i \in Lines : l <= i
    <3>1. Lines \in SUBSET Nat
      BY <1>3, <1>5
    <3> QED BY <1>7, <2>1, <3>1, FirstIsLeast DEF EchoEnd
  <2>3. l \in 1..Len(sent) /\ l \in Nat /\ n <= c /\ \A k \in 1..n : T[k] = stream[c - n + k]
    <3>1. l \in 1..Len(sent)
      BY <1>5, <2>2
    <3> QED BY <1>5, <2>1, <2>2, <3>1
  <2>4. Lost + n <= c
    BY <1>1, <1>7, <2>1 DEF EchoKept, HasEcho
  <2>5. c \in Nat /\ c <= Len(stream)
    <3>1. /\ l \in 1..Len(sent) /\ l + 1 \in 1..Len(sent) + 1
          /\ Len(sent) + 1 \in 1..Len(sent) + 1 /\ part \in Seq(STRING) /\ c = BeginsAt(l + 1)
      BY <1>3, <2>1, <2>3 DEF Arrived
    <3>2. /\ c \in Nat /\ c <= BeginsAt(Len(sent) + 1) /\ BeginsAt(Len(sent) + 1) \in Nat
          /\ BeginsAt(Len(sent) + 1) + Len(part) = Len(stream)
      BY <3>1, PieceAt
    <3> QED BY <3>1, <3>2
  <2>6. PICK x : x = c - n + 1
    OBVIOUS
  <2>7. x \in 1..Len(stream) /\ x > Lost /\ 1 \in 1..n
    BY <1>2, <1>3, <2>3, <2>4, <2>5, <2>6
  <2>8. stream[x] \in {"cr", "lf"}
    BY <1>2, <2>3, <2>6, <2>7
  <2>9. b < x
    BY <1>1, <2>7, <2>8, LineEndKept
  <2>10. n <= c - b
    BY <1>2, <1>3, <2>5, <2>6, <2>9
  <2>11. f <= l
    <3>1. CASE f = l + 1
      BY <1>1, <1>2, <1>3, <2>1, <2>5, <2>10, <3>1
    <3>2. CASE f > l + 1
      <4>1. l + 1 \in 1..Len(sent) + 1 /\ f \in (l + 1) + 1..Len(sent) + 1
        BY <1>3, <2>3, <3>2
      <4>2. c < b
        BY <1>1, <2>1, <4>1, BeginsLater
      <4> QED BY <1>2, <1>3, <2>5, <2>10, <4>2
    <3> QED BY <1>3, <2>3, <3>1, <3>2
  <2>12. l \in WindowLines
    <3>1. l \in f..Len(sent)
      BY <1>3, <2>3, <2>11
    <3> QED BY <1>4, <2>1, <2>3, <2>10, <3>1
  <2>13. First(WindowLines) = l
    <3>1. WindowLines \in SUBSET Nat
      BY <1>3, <1>4
    <3>2. \A i \in WindowLines : l <= i
      BY <1>6, <2>2
    <3> QED BY <2>12, <3>1, <3>2, FirstIs
  <2> QED BY <2>1, <2>12, <2>13
<1> QED BY <1>6, <1>7

\* The output after the echo.
LEMMA OutputAfterEcho ==
  ASSUME Arrived, NEW i \in FirstKept..Len(sent), BeginsAt(i + 1) - Lost \in 1..Len(raw)
  PROVE  normalize_terminal_output(Rest(raw, BeginsAt(i + 1) - Lost + 1)) = ShownFromTo(i + 1, Len(sent))
<1>1. PICK b, q, L : /\ b = BeginsAt(i + 1) /\ q = Rest(raw, BeginsAt(i + 1) - Lost + 1)
                     /\ L = Len(sent)
  OBVIOUS
<1>2. L \in Nat /\ i + 1 \in 1..L + 1 /\ L \in 0..Len(sent) /\ part \in Seq(STRING)
  <2>1. FirstKept \in 1..Len(sent) + 1 /\ Len(sent) \in Nat /\ part \in Seq(STRING)
    BY FirstKeptIs DEF Arrived
  <2> QED BY <1>1, <2>1
<1>3. b \in Nat
  BY <1>1, <1>2, PieceAt
<1>4. /\ Len(stream) \in Nat /\ Lost \in Nat /\ raw \in Seq(STRING)
      /\ Len(raw) = Len(stream) - Lost
      /\ \A k \in 1..Len(raw) : raw[k] = stream[k + Lost]
  BY WindowOfStream
<1>5. PICK e : e = b - Lost
  OBVIOUS
<1>6. e \in 1..Len(raw) /\ Lost + e = b /\ b \in 0..Len(stream)
  BY <1>1, <1>3, <1>4, <1>5
<1>7. q = SubSeq(raw, e + 1, Len(raw))
  BY <1>1, <1>5 DEF Rest
<1>8. q \in Seq(STRING) /\ Len(q) = Len(raw) - e /\ \A k \in 1..Len(q) : q[k] = raw[e + k]
  <2>1. PICK n : n = Len(raw)
    OBVIOUS
  <2>2. n \in Nat /\ e \in Nat /\ e + 1 \in 1..n + 1
    BY <1>4, <1>6, <2>1
  <2>3. /\ q \in Seq(STRING) /\ Len(q) = n - (e + 1) + 1
        /\ \A k \in 1..n - (e + 1) + 1 : q[k] = raw[e + 1 + k - 1]
    BY <1>4, <1>7, <2>1, <2>2, DroppedIs
  <2>4. n - (e + 1) + 1 = n - e /\ \A k \in 1..n - e : e + 1 + k - 1 = e + k
    BY <2>2
  <2> QED BY <2>1, <2>3, <2>4
<1>9. Len(q) = Len(stream) - b
  <2>1. PICK m, n : m = Len(stream) /\ n = Len(raw)
    OBVIOUS
  <2>2. m \in Nat /\ Lost \in Nat /\ n = m - Lost /\ e \in 1..n /\ Lost + e = b /\ Len(q) = n - e
    BY <1>4, <1>6, <1>8, <2>1
  <2>3. n - e = m - b
    BY <2>2
  <2> QED BY <2>1, <2>2, <2>3, Zenon
<1>10. \A k \in 1..Len(q) : q[k] = stream[b + k]
  <2>1. \A k \in 1..Len(q) : e + k \in 1..Len(raw) /\ (e + k) + Lost = b + k
    BY <1>3, <1>4, <1>6, <1>8
  <2> QED BY <1>4, <1>8, <2>1
<1>11. BeginsAt(L + 1) <= Len(stream)
  BY <1>1, <1>2, PieceAt
<1>12. Slice(q, b, Len(stream), L)
  BY <1>1, <1>2, <1>3, <1>4, <1>6, <1>8, <1>9, <1>10, <1>11 DEF Slice
<1>13. OutputFrom(q)[b - b + 1] = ShownFromTo(i + 1, L)
  <2>1. b <= BeginsAt(i + 1)
    BY <1>1, <1>3
  <2> QED BY <1>1, <1>2, <1>12, <2>1, OutputOfPieces
<1>14. b - b + 1 = 1
  BY <1>3
<1> QED BY <1>1, <1>13, <1>14, Zenon DEF normalize_terminal_output

-----------------------------------------------------------------------------
(* The markers the code finds are the marker pieces *)

\* The piece that begins at BeginsAt(i), whole or not; where it begins in the
\* window.
Piece(i) == IF i <= Len(sent) THEN sent[i] ELSE part
Place(i) == BeginsAt(i) - Lost + 1

\* What arrived of a piece stands in the stream where the piece begins.
LEMMA PieceChars ==
  ASSUME Arrived, NEW i \in 1..Len(sent) + 1
  PROVE  /\ Piece(i) \in Seq(STRING) /\ BeginsAt(i) \in Nat
         /\ BeginsAt(i) + Len(Piece(i)) <= Len(stream)
         /\ \A k \in 1..Len(Piece(i)) : stream[BeginsAt(i) + k] = Piece(i)[k]
         /\ i <= Len(sent) => BeginsAt(i + 1) = BeginsAt(i) + Len(Piece(i)) /\ Piece(i) \in Pieces
         /\ \/ Piece(i) = <<>>
            \/ \E p \in Pieces : /\ Len(Piece(i)) <= Len(p)
                                 /\ \A k \in 1..Len(Piece(i)) : Piece(i)[k] = p[k]
<1>1. /\ Len(sent) \in Nat /\ part \in Seq(STRING) /\ Len(stream) \in Nat
      /\ part = <<>> \/ \E p \in Pieces : BeginningOf(p)
      /\ Len(sent) + 1 \in 1..Len(sent) + 1
  BY WindowOfStream DEF Arrived
<1>2. CASE i <= Len(sent)
  <2>1. PICK p : p = sent[i]
    OBVIOUS
  <2>2. Piece(i) = p /\ i \in 1..Len(sent)
    BY <1>1, <1>2, <2>1 DEF Piece
  <2>3. /\ p \in Pieces /\ BeginsAt(i) \in Nat /\ BeginsAt(i + 1) = BeginsAt(i) + Len(p)
        /\ BeginsAt(i + 1) <= BeginsAt(Len(sent) + 1) /\ BeginsAt(Len(sent) + 1) \in Nat
        /\ BeginsAt(Len(sent) + 1) + Len(part) = Len(stream)
        /\ \A k \in 1..Len(p) : stream[BeginsAt(i) + k] = p[k]
    BY <1>1, <2>1, <2>2, PieceAt
  <2>4. p \in Seq(STRING) /\ Len(p) \in Nat /\ Len(part) \in Nat
    BY <1>1, <2>3, PieceKinds
  <2>5. BeginsAt(i) + Len(p) <= Len(stream)
    BY <1>1, <2>3, <2>4
  <2>6. Len(p) <= Len(p)
    BY <2>4
  <2> QED BY <2>2, <2>3, <2>4, <2>5, <2>6
<1>3. CASE ~ (i <= Len(sent))
  <2>1. i = Len(sent) + 1 /\ Piece(i) = part
    BY <1>1, <1>3 DEF Piece
  <2>2. /\ BeginsAt(i) \in Nat /\ BeginsAt(i) + Len(part) = Len(stream)
        /\ \A k \in 1..Len(part) : stream[BeginsAt(i) + k] = part[k]
    BY <1>1, <2>1, PieceAt
  <2>3. part = <<>> \/ \E p \in Pieces : /\ Len(part) <= Len(p)
                                         /\ \A k \in 1..Len(part) : part[k] = p[k]
    <3>1. CASE part = <<>>
      BY <3>1
    <3>2. CASE part # <<>>
      <4>1. PICK p \in Pieces : Len(part) < Len(p) /\ \A k \in 1..Len(part) : part[k] = p[k]
        BY <1>1, <3>2 DEF BeginningOf
      <4>2. Len(part) \in Nat /\ Len(p) \in Nat
        BY <1>1, PieceKinds
      <4>3. Len(part) <= Len(p)
        BY <4>1, <4>2
      <4> QED BY <4>1, <4>3
    <3> QED BY <3>1, <3>2
  <2> QED BY <1>1, <1>3, <2>1, <2>2, <2>3
<1> QED BY <1>2, <1>3

\* Every character of the stream lies in a piece.
LEMMA LocatedPiece ==
  ASSUME Arrived, NEW x \in 1..Len(stream)
  PROVE  \E i \in 1..Len(sent) + 1 :
           x - BeginsAt(i) \in 1..Len(Piece(i)) /\ stream[x] = Piece(i)[x - BeginsAt(i)]
<1>1. Len(sent) \in Nat /\ Len(stream) \in Nat
  BY WindowOfStream DEF Arrived
<1>2. CASE BeginsAt(Len(sent) + 1) < x
  <2>1. PICK i, b, p : i = Len(sent) + 1 /\ b = BeginsAt(i) /\ p = Piece(i)
    OBVIOUS
  <2>2. i \in 1..Len(sent) + 1 /\ ~ (i <= Len(sent)) /\ p = part
    BY <1>1, <2>1 DEF Piece
  <2>3. /\ b \in Nat /\ part \in Seq(STRING) /\ b + Len(p) = Len(stream)
        /\ \A k \in 1..Len(p) : stream[b + k] = p[k]
    BY <2>1, <2>2, PieceAt DEF Arrived
  <2>4. x - b \in 1..Len(p) /\ b + (x - b) = x
    BY <1>1, <1>2, <2>1, <2>2, <2>3
  <2>5. stream[x] = p[x - b]
    BY <2>3, <2>4
  <2> QED BY <2>1, <2>2, <2>4, <2>5
<1>3. ASSUME NEW i \in 1..Len(sent), BeginsAt(i) < x, x <= BeginsAt(i + 1)
      PROVE  x - BeginsAt(i) \in 1..Len(Piece(i)) /\ stream[x] = Piece(i)[x - BeginsAt(i)]
  <2>1. Piece(i) = sent[i] /\ x \in Nat
    BY <1>1 DEF Piece
  <2> QED BY <1>3, <2>1, CharAt
<1>4. \A i \in 1..Len(sent) : i \in 1..Len(sent) + 1
  BY <1>1
<1> QED BY <1>2, <1>3, <1>4, Located

\* A piece with an ESC before a "]" begins with it.
LEMMA OpensAtFirst ==
  ASSUME Arrived, NEW i \in 1..Len(sent) + 1, NEW k \in 1..Len(Piece(i)),
         Piece(i)[k] = "esc", k < Len(Piece(i)) => Piece(i)[k + 1] # "bs"
  PROVE  k = 1 \/ k = Len(Piece(i))
<1>1. PICK w, p : /\ w = Piece(i) /\ p \in Pieces /\ Len(w) <= Len(p) /\ w \in Seq(STRING)
                  /\ \A j \in 1..Len(w) : w[j] = p[j]
  <2>1. Piece(i) \in Seq(STRING)
    BY PieceChars
  <2>2. Piece(i) # <<>>
    BY <2>1
  <2> QED BY <2>1, <2>2, PieceChars
<1>2. p \in Seq(STRING) /\ Len(p) \in Nat /\ Len(w) \in Nat /\ k \in 1..Len(w) /\ k \in 1..Len(p)
  BY <1>1, PieceKinds
<1>3. p[k] = "esc"
  BY <1>1, <1>2
<1>4. CASE Plain(p) /\ Len(p) = 1
  BY <1>2, <1>4
<1>5. CASE Csi(p) \/ Osc(p)
  <2>1. k >= 2 => k < Len(p) /\ p[k + 1] = "bs"
    BY <1>2, <1>3, <1>5, InsideControl
  <2>2. k < Len(w) => k + 1 \in 1..Len(w)
    BY <1>2
  <2>3. k < Len(w) => w[k + 1] # "bs"
    BY <1>1, Zenon
  <2>4. k < Len(w) => w[k + 1] = p[k + 1]
    BY <1>1, <2>2
  <2>5. k = 1 \/ k >= 2
    BY <1>2
  <2>6. k = 1 \/ k = Len(w)
    BY <1>2, <2>1, <2>3, <2>4, <2>5
  <2>7. Len(w) = Len(Piece(i))
    BY <1>1, Zenon
  <2> QED BY <2>6, <2>7, Zenon
<1>6. (Plain(p) /\ Len(p) = 1) \/ Csi(p) \/ Osc(p)
  BY <1>1, PieceKinds
<1> QED BY <1>4, <1>5, <1>6, Zenon

\* The places of the marker pieces from the i-th on, a broken one included.
MarkerPlaces(i) == {Place(n) : n \in {m \in i..Len(sent) + 1 : IsMarker(Piece(m))}}

\* Places are numbers of the window, and later pieces have later ones.
LEMMA PlaceIs ==
  ASSUME Arrived
  PROVE  /\ FirstKept \in 1..Len(sent) + 1 /\ Len(sent) \in Nat
         /\ \A i \in FirstKept..Len(sent) + 1 :
              /\ Place(i) \in Nat \ {0} /\ Place(i) + Lost = BeginsAt(i) + 1
              /\ Place(i) + Len(Piece(i)) <= Len(raw) + 1
              /\ i <= Len(sent) => Place(i + 1) = Place(i) + Len(Piece(i))
              /\ \A k \in 1..Len(Piece(i)) : raw[Place(i) + k - 1] = Piece(i)[k]
              /\ \A j \in i + 1..Len(sent) + 1 : Place(i) < Place(j)
<1>1. FirstKept \in 1..Len(sent) + 1 /\ Lost <= BeginsAt(FirstKept) /\ Len(sent) \in Nat
  BY FirstKeptIs DEF Arrived
<1>2. /\ Len(stream) \in Nat /\ Lost \in Nat /\ Len(raw) = Len(stream) - Lost
      /\ \A k \in 1..Len(raw) : raw[k] = stream[k + Lost]
  BY WindowOfStream
<1>3. ASSUME NEW i \in FirstKept..Len(sent) + 1
      PROVE  /\ Place(i) \in Nat \ {0} /\ Place(i) + Lost = BeginsAt(i) + 1
             /\ Place(i) + Len(Piece(i)) <= Len(raw) + 1
             /\ i <= Len(sent) => Place(i + 1) = Place(i) + Len(Piece(i))
             /\ \A k \in 1..Len(Piece(i)) : raw[Place(i) + k - 1] = Piece(i)[k]
             /\ \A j \in i + 1..Len(sent) + 1 : Place(i) < Place(j)
  <2>1. i \in 1..Len(sent) + 1
    BY <1>1
  <2>2. PICK b, w, s : b = BeginsAt(i) /\ w = Piece(i) /\ s = Place(i)
    OBVIOUS
  <2>3. /\ w \in Seq(STRING) /\ b \in Nat /\ b + Len(w) <= Len(stream)
        /\ \A k \in 1..Len(w) : stream[b + k] = w[k]
        /\ i <= Len(sent) => BeginsAt(i + 1) = b + Len(w)
    BY <2>1, <2>2, PieceChars
  <2>4. Lost <= b
    <3>1. CASE i = FirstKept
      BY <1>1, <2>2, <3>1
    <3>2. CASE i # FirstKept
      <4>1. i \in FirstKept + 1..Len(sent) + 1
        BY <1>1, <3>2
      <4>2. BeginsAt(FirstKept) < b /\ BeginsAt(FirstKept) \in Nat
        BY <1>1, <2>2, <4>1, BeginsLater, PieceAt
      <4> QED BY <1>1, <1>2, <2>3, <4>2
    <3> QED BY <3>1, <3>2
  <2>5. s = b - Lost + 1
    BY <2>2 DEF Place
  <2>6. s \in Nat \ {0} /\ s + Lost = b + 1 /\ s + Len(w) <= Len(raw) + 1 /\ Len(w) \in Nat
    BY <1>2, <2>3, <2>4, <2>5
  <2>7. i <= Len(sent) => Place(i + 1) = s + Len(w)
    BY <1>2, <2>3, <2>5 DEF Place
  <2>8. ASSUME NEW k \in 1..Len(w) PROVE raw[s + k - 1] = w[k]
    <3>1. s + k - 1 \in 1..Len(raw) /\ (s + k - 1) + Lost = b + k
      BY <1>2, <2>3, <2>6
    <3> QED BY <1>2, <2>3, <3>1
  <2>9. ASSUME NEW j \in i + 1..Len(sent) + 1 PROVE s < Place(j)
    <3>1. b < BeginsAt(j) /\ BeginsAt(j) \in Nat
      <4>1. j \in 1..Len(sent) + 1
        BY <2>1
      <4> QED BY <2>1, <2>2, <4>1, BeginsLater, PieceAt
    <3> QED BY <1>2, <2>3, <2>5, <3>1 DEF Place
  <2> QED BY <2>2, <2>6, <2>7, <2>8, <2>9
<1> QED BY <1>1, <1>3

\* The code finds a marker's prefix where a marker piece begins.
LEMMA PrefixesArePlaces ==
  ASSUME Arrived
  PROVE  Prefixes3008(raw, 1) = MarkerPlaces(FirstKept)
<1>1. /\ Len(stream) \in Nat /\ Lost \in Nat /\ Len(raw) = Len(stream) - Lost /\ Len(raw) \in Nat
      /\ \A k \in 1..Len(raw) : raw[k] = stream[k + Lost]
  BY WindowOfStream
<1>2. FirstKept \in 1..Len(sent) + 1 /\ Len(sent) \in Nat
      /\ \A i \in 1..Len(sent) + 1 : Lost <= BeginsAt(i) => FirstKept <= i
  BY FirstKeptIs DEF Arrived
<1>3. ASSUME NEW x \in Prefixes3008(raw, 1) PROVE x \in MarkerPlaces(FirstKept)
  <2>1. /\ x \in 1..Len(raw) - 2 /\ raw[x] = "esc" /\ raw[x + 1] = "]"
        /\ raw[x + 2] \in DOMAIN Bodies
    BY DEF Prefixes3008
  <2>2. PICK y : y = x + Lost
    OBVIOUS
  <2>3. /\ y \in 1..Len(stream) /\ y + 2 <= Len(stream) /\ y > Lost
        /\ x \in 1..Len(raw) /\ x + 1 \in 1..Len(raw) /\ x + 2 \in 1..Len(raw)
        /\ (x + 1) + Lost = y + 1 /\ (x + 2) + Lost = y + 2
        /\ y + 1 \in 1..Len(stream) /\ y + 2 \in 1..Len(stream)
    BY <1>1, <2>1, <2>2
  <2>4. stream[y] = "esc" /\ stream[y + 1] = "]" /\ stream[y + 2] \in DOMAIN Bodies
    BY <1>1, <2>1, <2>2, <2>3
  <2>5. PICK i \in 1..Len(sent) + 1 :
          y - BeginsAt(i) \in 1..Len(Piece(i)) /\ stream[y] = Piece(i)[y - BeginsAt(i)]
    BY <2>3, LocatedPiece
  <2>6. PICK b, w, k : b = BeginsAt(i) /\ w = Piece(i) /\ k = y - BeginsAt(i)
    OBVIOUS
  <2>7. /\ w \in Seq(STRING) /\ Len(w) \in Nat /\ b \in Nat /\ b + Len(w) <= Len(stream)
        /\ \A j \in 1..Len(w) : stream[b + j] = w[j]
        /\ i <= Len(sent) => BeginsAt(i + 1) = b + Len(w) /\ w \in Pieces
    BY <2>6, PieceChars
  <2>8. k \in 1..Len(w) /\ b + k = y /\ w[k] = "esc"
    <3>1. k \in 1..Len(w) /\ w[k] = "esc" /\ k = y - b
      BY <2>4, <2>5, <2>6, Zenon
    <3>2. b + k = y
      BY <2>3, <2>7, <3>1
    <3> QED BY <3>1, <3>2
  <2>9. k < Len(w) => w[k + 1] = "]"
    <3>1. k < Len(w) => k + 1 \in 1..Len(w) /\ b + (k + 1) = y + 1
      BY <2>3, <2>7, <2>8
    <3> QED BY <2>4, <2>7, <3>1
  <2>10. k = 1 \/ k = Len(w)
    <3>1. k < Len(w) => w[k + 1] # "bs"
      BY <2>9
    <3>2. k \in 1..Len(Piece(i)) /\ Piece(i)[k] = "esc"
      BY <2>6, <2>8, Zenon
    <3>3. k < Len(Piece(i)) => Piece(i)[k + 1] # "bs"
      BY <2>6, <3>1, Zenon
    <3> QED BY <2>6, <3>2, <3>3, OpensAtFirst, Zenon
  <2> HIDE DEF Prefixes3008
  <2>11. k = 1 /\ Len(w) >= 3
    <3>1. CASE i = Len(sent) + 1
      <4>1. w = part /\ part \in Seq(STRING) /\ b + Len(part) = Len(stream)
        <5>1. ~ (i <= Len(sent))
          BY <1>2, <3>1
        <5>2. w = part
          BY <2>6, <5>1 DEF Piece
        <5> QED BY <2>6, <3>1, <5>2, PieceAt DEF Arrived
      <4> QED BY <2>3, <2>7, <2>8, <2>10, <4>1
    <3>2. CASE i # Len(sent) + 1
      <4>1. i <= Len(sent)
        BY <1>2, <3>2
      <4>2. w \in Pieces
        BY <2>7, <4>1
      <4>3. CASE Plain(w) /\ Len(w) = 1
        <5>1. w[1] # "esc"
          BY <4>3 DEF Plain
        <5> QED BY <2>8, <4>3, <5>1
      <4>4. CASE (Csi(w) \/ Osc(w)) /\ Len(w) >= 3
        <5>1. k >= 2 => k < Len(w)
          BY <2>8, <4>4, InsideControl, <2>7
        <5>2. k = 1
          BY <2>7, <2>8, <2>10, <5>1, <4>4
        <5> QED BY <4>4, <5>2
      <4> QED BY <4>2, <4>3, <4>4, PieceKinds
    <3> QED BY <3>1, <3>2
  <2>12. w[2] = "]" /\ w[3] \in DOMAIN Bodies
    <3>1. 2 \in 1..Len(w) /\ 3 \in 1..Len(w) /\ b + 2 = y + 1 /\ b + 3 = y + 2
      BY <2>7, <2>8, <2>11
    <3> QED BY <2>4, <2>7, <3>1
  <2>13. IsMarker(w)
    BY <2>7, <2>11, <2>12 DEF IsMarker
  <2>14. FirstKept <= i
    <3>1. Lost <= b
      BY <1>1, <2>3, <2>7, <2>8, <2>11
    <3> QED BY <1>2, <2>6, <3>1
  <2>15. x = Place(i)
    BY <1>1, <2>1, <2>2, <2>6, <2>7, <2>8, <2>11 DEF Place
  <2>16. i \in FirstKept..Len(sent) + 1
    BY <1>2, <2>14
  <2> QED BY <2>6, <2>13, <2>15, <2>16 DEF MarkerPlaces
<1>4. ASSUME NEW i \in FirstKept..Len(sent) + 1, IsMarker(Piece(i))
      PROVE  Place(i) \in Prefixes3008(raw, 1)
  <2>1. PICK w, s : w = Piece(i) /\ s = Place(i)
    OBVIOUS
  <2>2. /\ s \in Nat \ {0} /\ s + Len(w) <= Len(raw) + 1
        /\ \A k \in 1..Len(w) : raw[s + k - 1] = w[k]
    BY <2>1, PlaceIs
  <2>3. i \in 1..Len(sent) + 1
    BY <1>2
  <2>4. w \in Seq(STRING) /\ Len(w) \in Nat
    BY <2>1, <2>3, PieceChars
  <2>5. Len(w) > 2 /\ w[2] = "]" /\ w[3] \in DOMAIN Bodies
    BY <1>4, <2>1 DEF IsMarker
  <2>6. w[1] = "esc"
    <3>1. w # <<>>
      BY <2>5
    <3>2. PICK p \in Pieces : Len(w) <= Len(p) /\ \A k \in 1..Len(w) : w[k] = p[k]
      BY <2>1, <2>3, <3>1, PieceChars
    <3>3. p \in Seq(STRING) /\ Len(p) \in Nat /\ (Csi(p) \/ Osc(p))
      BY <2>4, <2>5, <3>2, PieceKinds
    <3>4. p[1] = "esc"
      BY <3>3 DEF Csi, Osc
    <3>5. 1 \in 1..Len(w)
      BY <2>4, <2>5
    <3> QED BY <3>2, <3>4, <3>5
  <2>7. 1 \in 1..Len(w) /\ 2 \in 1..Len(w) /\ 3 \in 1..Len(w)
        /\ s + 1 - 1 = s /\ s + 2 - 1 = s + 1 /\ s + 3 - 1 = s + 2
    BY <2>2, <2>4, <2>5
  <2>8. raw[s] = "esc" /\ raw[s + 1] = "]" /\ raw[s + 2] \in DOMAIN Bodies
    BY <2>2, <2>5, <2>6, <2>7
  <2>9. s \in 1..Len(raw) - 2
    BY <1>1, <2>2, <2>4, <2>5
  <2> QED BY <2>1, <2>8, <2>9 DEF Prefixes3008
<1> QED BY <1>3, <1>4 DEF MarkerPlaces

\* The prefixes from a piece on.
LEMMA PrefixesFrom ==
  ASSUME Arrived, NEW i \in FirstKept..Len(sent) + 1
  PROVE  /\ Prefixes3008(raw, Place(i)) = MarkerPlaces(i)
         /\ MarkerPlaces(i) \in SUBSET Nat
         /\ \A x \in MarkerPlaces(i) : Place(i) <= x
<1>1. FirstKept \in 1..Len(sent) + 1 /\ Len(sent) \in Nat
  BY PlaceIs
<1>2. \A n \in FirstKept..Len(sent) + 1 :
        /\ Place(n) \in Nat \ {0}
        /\ \A j \in n + 1..Len(sent) + 1 : Place(n) < Place(j)
  BY PlaceIs
<1>3. ASSUME NEW n \in FirstKept..Len(sent) + 1 PROVE Place(i) <= Place(n) <=> i <= n
  <2>1. Place(i) \in Nat /\ Place(n) \in Nat
    BY <1>2
  <2>2. CASE i = n
    BY <2>1, <2>2
  <2>3. CASE i < n
    <3>1. n \in i + 1..Len(sent) + 1
      BY <1>1, <2>3
    <3> QED BY <1>1, <1>2, <2>1, <2>3, <3>1
  <2>4. CASE n < i
    <3>1. i \in n + 1..Len(sent) + 1
      BY <1>1, <2>4
    <3>2. Place(n) < Place(i)
      BY <1>2, <3>1
    <3> QED BY <1>1, <2>1, <2>4, <3>2
  <2> QED BY <1>1, <2>2, <2>3, <2>4
<1>4. Prefixes3008(raw, Place(i)) = {x \in Prefixes3008(raw, 1) : Place(i) <= x}
  <2>1. Place(i) \in Nat \ {0} /\ Len(raw) \in Nat
    BY <1>2, WindowOfStream
  <2> QED BY <2>1 DEF Prefixes3008
<1>5. Prefixes3008(raw, Place(i)) = {x \in MarkerPlaces(FirstKept) : Place(i) <= x}
  BY <1>4, PrefixesArePlaces, Zenon
<1>6. \A n \in i..Len(sent) + 1 : n \in FirstKept..Len(sent) + 1 /\ i <= n
  BY <1>1
<1>7. {x \in MarkerPlaces(FirstKept) : Place(i) <= x} = MarkerPlaces(i)
  <2>1. ASSUME NEW x \in MarkerPlaces(FirstKept), Place(i) <= x PROVE x \in MarkerPlaces(i)
    <3>1. PICK n \in FirstKept..Len(sent) + 1 : x = Place(n) /\ IsMarker(Piece(n))
      BY DEF MarkerPlaces
    <3>2. i <= n
      BY <1>3, <2>1, <3>1
    <3>3. n \in i..Len(sent) + 1
      BY <1>1, <3>2
    <3> QED BY <3>1, <3>3 DEF MarkerPlaces
  <2>2. ASSUME NEW x \in MarkerPlaces(i) PROVE x \in MarkerPlaces(FirstKept) /\ Place(i) <= x
    <3>1. PICK n \in i..Len(sent) + 1 : x = Place(n) /\ IsMarker(Piece(n))
      BY DEF MarkerPlaces
    <3> QED BY <1>3, <1>6, <3>1 DEF MarkerPlaces
  <2> QED BY <2>1, <2>2
<1>8. MarkerPlaces(i) \in SUBSET Nat /\ \A x \in MarkerPlaces(i) : Place(i) <= x
  BY <1>2, <1>3, <1>6 DEF MarkerPlaces
<1> QED BY <1>5, <1>7, <1>8

-----------------------------------------------------------------------------
(* What a marker piece is taken for *)

\* Max is the greatest element.
LEMMA MaxIsGreatest ==
  ASSUME NEW n \in Nat, NEW S \in SUBSET (1..n), S # {}
  PROVE  Max(S) \in S
<1>1. PICK B : B = {b \in Nat : \A i \in S : i <= b}
  OBVIOUS
<1>2. n \in B /\ B \in SUBSET Nat
  BY <1>1
<1>3. PICK b \in B : \A c \in B : b <= c
  BY <1>2, LeastNatural
<1>4. b \in S
  <2> SUFFICES ASSUME b \notin S PROVE FALSE
    OBVIOUS
  <2>1. PICK i \in S : TRUE
    OBVIOUS
  <2>2. b \in Nat /\ i \in Nat /\ i <= b /\ i >= 1
    BY <1>1, <1>2, <1>3, <2>1
  <2>3. PICK c : c = b - 1
    OBVIOUS
  <2>4. c \in Nat /\ ~ (b <= c)
    BY <2>2, <2>3
  <2>5. ASSUME NEW j \in S PROVE j <= c
    <3>1. j \in Nat /\ j <= b /\ j # b
      BY <1>1, <1>3
    <3> QED BY <2>2, <2>3, <3>1
  <2>6. c \in B
    BY <1>1, <2>4, <2>5
  <2> QED BY <1>3, <2>4, <2>6
<1>5. \A i \in S : b >= i
  BY <1>1, <1>3
<1>6. \E x \in S : \A y \in S : x >= y
  BY <1>4, <1>5
<1> QED BY <1>6, Zenon DEF Max

\* An option field is one of those asked for.
LEMMA LastOfTyped ==
  ASSUME NEW f \in Seq(Fields), NEW S
  PROVE  LastOf(f, S) \in (S \cap Fields) \cup {None}
<1> DEFINE hits == {i \in DOMAIN f : f[i] \in S}
<1>1. Len(f) \in Nat /\ hits \in SUBSET (1..Len(f))
  OBVIOUS
<1>2. CASE hits = {}
  BY <1>2, Zenon DEF LastOf
<1>3. CASE hits # {}
  <2>1. Max(hits) \in hits
    <3> HIDE DEF hits
    <3> QED BY <1>1, <1>3, MaxIsGreatest
  <2>2. PICK m : m = Max(hits)
    OBVIOUS
  <2>3. m \in 1..Len(f) /\ f[m] \in S
    BY <2>1, <2>2
  <2>4. f[m] \in S \cap Fields
    BY <2>3
  <2>5. LastOf(f, S) = f[m]
    BY <1>3, <2>2, Zenon DEF LastOf
  <2> QED BY <2>4, <2>5
<1> QED BY <1>2, <1>3

LEMMA ExitCodeTyped ==
  ASSUME NEW f \in Seq(Fields)
  PROVE  ExitCode(f) \in Options /\ LastOf(f, {"exit=success", "exit=failure"}) \in Options
<1>1. \A S : LastOf(f, S) \in Options
  BY LastOfTyped DEF Options
<1> QED BY <1>1, Zenon DEF ExitCode, Options

\* The fields and the id of a body that no other follows.
LEMMA SingleBody ==
  ASSUME NEW c \in DOMAIN Bodies
  PROVE  OscFields(<<c>>) = Bodies[c].fields /\ OscId(<<c>>) = <<Bodies[c].id>>
<1>1. PICK body : body = <<c>>
  OBVIOUS
<1>2. body \in Seq({c}) /\ Len(body) = 1 /\ body[1] = c
  BY <1>1
<1>3. PICK F : F = Bodies[c].fields
  OBVIOUS
<1>4. F \in Seq(Fields) /\ Bodies[c].id \in Nat
  BY <1>3, ConstantsAssumption
<1> DEFINE Step(f, n) ==
             IF n = 0 THEN <<>>
             ELSE LET before == f[n - 1] IN
                  IF body[n] \in DOMAIN Bodies THEN before \o Bodies[body[n]].fields
                  ELSE IF before = <<>> THEN before ELSE Append(Front(before), Spoilt(Last(before)))
           g == [n \in 0..1 |-> IF n = 0 THEN <<>> ELSE F]
<1>5. OscFields(body) = (CHOOSE f : f = [n \in 0..Len(body) |-> Step(f, n)])[Len(body)]
  BY Zenon DEF OscFields
<1>6. PICK h : h = CHOOSE f : f = [n \in 0..1 |-> Step(f, n)]
  OBVIOUS
<1>7. g = [n \in 0..1 |-> Step(g, n)]
  <2>1. Step(g, 0) = <<>>
    BY Zenon
  <2>2. Step(g, 1) = F
    <3>1. 1 # 0 /\ 1 - 1 = 0 /\ 0 \in 0..1
      OBVIOUS
    <3>2. g[1 - 1] = <<>>
      BY <3>1
    <3>3. Step(g, 1) = g[1 - 1] \o Bodies[body[1]].fields
      <4> HIDE DEF g
      <4> QED BY <1>2, <3>1, Zenon
    <3>4. <<>> \o F = F
      BY <1>4
    <3> HIDE DEF g, Step
    <3> QED BY <1>2, <1>3, <3>2, <3>3, <3>4
  <2>3. \A n \in 0..1 : n = 0 \/ n = 1
    OBVIOUS
  <2>4. g[0] = <<>> /\ g[1] = F
    OBVIOUS
  <2>5. \A n \in 0..1 : g[n] = Step(g, n)
    <3> HIDE DEF g, Step
    <3> QED BY <2>1, <2>2, <2>3, <2>4
  <2>6. g = [n \in 0..1 |-> g[n]]
    OBVIOUS
  <2> HIDE DEF g, Step
  <2> QED BY <2>5, <2>6
<1>8. h = [n \in 0..1 |-> Step(h, n)]
  <2> HIDE DEF g, Step
  <2> QED BY <1>6, <1>7, Zenon
<1>9. h[0] = <<>>
  <2>1. 0 \in 0..1
    OBVIOUS
  <2>2. h[0] = Step(h, 0)
    <3> HIDE DEF Step
    <3> QED BY <1>8, <2>1, Zenon
  <2> QED BY <2>2, Zenon
<1>10. h[1] = F
  <2>1. 1 \in 0..1 /\ 1 - 1 = 0 /\ 1 # 0
    OBVIOUS
  <2>2. h[1] = Step(h, 1)
    <3> HIDE DEF Step
    <3> QED BY <1>8, <2>1, Zenon
  <2>3. Step(h, 1) = h[1 - 1] \o Bodies[body[1]].fields
    BY <1>2, <2>1, Zenon
  <2>4. <<>> \o F = F
    BY <1>4
  <2> HIDE DEF Step
  <2> QED BY <1>2, <1>3, <1>9, <2>1, <2>2, <2>3, <2>4, Zenon
<1>11. OscFields(body) = F
  <2> HIDE DEF Step
  <2> QED BY <1>2, <1>5, <1>6, <1>10, Zenon
<1>12. OscId(body) = <<Bodies[c].id>>
  <2>1. PICK id : id = Bodies[c].id
    OBVIOUS
  <2>2. {i \in 2..Len(body) : body[i] \in DOMAIN Bodies} = {}
    BY <1>2
  <2>3. SubSeq(body, 2, Len(body)) = <<>>
    BY <1>2
  <2>4. OscId(body) = <<id>> \o (IF Bodies[body[1]].fields = <<>> THEN <<>> ELSE <<>>)
    BY <1>2, <2>1, <2>2, <2>3, Zenon DEF OscId
  <2>5. <<id>> \o <<>> = <<id>>
    OBVIOUS
  <2> QED BY <2>1, <2>4, <2>5, Zenon
<1> QED BY <1>1, <1>3, <1>11, <1>12, Zenon

\* What the code makes of the n-th piece, a marker.
MarkerOf(n) == parse_osc_marker(Place(n), Place(n + 1), <<sent[n][3]>>)

\* The marker m says what a body does that begins at start and ends before end.
Means(m, start, end, body) ==
  IF body.kind = "malformed" THEN m = None
  ELSE /\ m \in Markers /\ m # None
       /\ m.start = start /\ m.end = end /\ m.kind = body.kind /\ m.id = <<body.id>>
       /\ m.command <=> "type=command" \in ToSet(body.fields)
       /\ m.status = LastOf(body.fields, {"exit=success", "exit=failure"})
       /\ m.exit_code = ExitCode(body.fields)

\* Of a body that is only one character, a marker is parsed as the device meant.
LEMMA ParsedIs ==
  ASSUME NEW c \in DOMAIN Bodies, NEW start \in Nat, NEW end \in Nat,
         NEW m, m = parse_osc_marker(start, end, <<c>>)
  PROVE  Means(m, start, end, Bodies[c])
<1>1. PICK f, id, body : f = Bodies[c].fields /\ id = Bodies[c].id /\ body = <<c>>
  OBVIOUS
<1>2. f \in Seq(Fields) /\ id \in Nat /\ Bodies[c].kind \in {"start", "end", "malformed"}
  BY <1>1, ConstantsAssumption
<1>3. body[1] = c /\ OscFields(body) = f /\ OscId(body) = <<id>>
  <2>1. body[1] = c
    BY <1>1
  <2> QED BY <1>1, <2>1, SingleBody, Zenon
<1>4. CASE Bodies[c].kind = "malformed"
  <2>1. m = None
    BY <1>1, <1>3, <1>4, Zenon DEF parse_osc_marker
  <2> QED BY <1>1, <1>4, <2>1, Zenon DEF Means
<1>5. CASE Bodies[c].kind # "malformed"
  <2>1. PICK k, b, s, e : /\ k = Bodies[c].kind
                          /\ b = (\E i \in DOMAIN f : f[i] = "type=command")
                          /\ s = LastOf(f, {"exit=success", "exit=failure"})
                          /\ e = ExitCode(f)
    OBVIOUS
  <2>2. m = [start |-> start, end |-> end, id |-> <<id>>, kind |-> k,
             command |-> b, status |-> s, exit_code |-> e]
    BY <1>1, <1>3, <1>5, <2>1, Zenon DEF parse_osc_marker
  <2>3. s \in Options /\ e \in Options /\ k \in {"start", "end"}
    BY <1>2, <1>5, <2>1, ExitCodeTyped
  <2>4. <<id>> \in Seq(Nat)
    BY <1>2
  <2>5. b \in BOOLEAN
    BY <2>1
  <2>6. m \in Markers
    <3>1. PICK ids : ids = <<id>>
      OBVIOUS
    <3>2. [start |-> start, end |-> end, id |-> ids, kind |-> k,
           command |-> b, status |-> s, exit_code |-> e] \in Markers
      BY <2>3, <2>4, <2>5, <3>1 DEF Markers
    <3> QED BY <2>2, <3>1, <3>2, Zenon
  <2>7. m # None
    BY <2>6, NoneAssumption
  <2>8. /\ m.start = start /\ m.end = end /\ m.kind = k /\ m.id = <<id>>
        /\ m.command = b /\ m.status = s /\ m.exit_code = e
    BY <2>2
  <2>9. b <=> "type=command" \in ToSet(f)
    BY <2>1 DEF ToSet
  <2>10. m.command <=> "type=command" \in ToSet(f)
    BY <2>8, <2>9, Zenon
  <2> QED BY <1>1, <1>5, <2>1, <2>6, <2>7, <2>8, <2>10, Zenon DEF Means
<1> QED BY <1>4, <1>5

\* A marker piece has one character between its "]" and its end.
LEMMA MarkerShape ==
  ASSUME NEW p \in Pieces, NEW w \in Seq(STRING), IsMarker(w), Len(w) <= Len(p),
         \A k \in 1..Len(w) : w[k] = p[k]
  PROVE  /\ w[1] = "esc" /\ w[3] = p[3] /\ p[3] \in DOMAIN Bodies /\ p[3] \notin {"esc", "bel"}
         /\ \/ Len(p) = 4 /\ p[4] = "bel"
            \/ Len(p) = 5 /\ p[4] = "esc" /\ p[5] = "bs"
<1>1. p \in Seq(STRING) /\ Len(p) \in Nat /\ Len(w) \in Nat
  BY PieceKinds
<1>2. Len(w) > 2 /\ w[2] = "]" /\ w[3] \in DOMAIN Bodies
  BY DEF IsMarker
<1>3. 1 \in 1..Len(w) /\ 2 \in 1..Len(w) /\ 3 \in 1..Len(w) /\ Len(p) >= 3
  BY <1>1, <1>2
<1>4. p[1] = w[1] /\ p[2] = "]" /\ p[3] = w[3] /\ p[3] \in DOMAIN Bodies
  BY <1>2, <1>3
<1>5. Osc(p)
  <2>1. ~ Csi(p)
    BY <1>4 DEF Csi
  <2> QED BY <1>1, <1>3, <2>1, PieceKinds
<1>6. PICK n \in 2..Len(p) - 1 :
        /\ p[1] = "esc"
        /\ \A i \in 3..n : p[i] \in DOMAIN Bodies => n = 3
        /\ \/ Len(p) = n + 1 /\ p[n + 1] = "bel"
           \/ Len(p) = n + 2 /\ p[n + 1] = "esc" /\ p[n + 2] = "bs"
  BY <1>5 DEF Osc
<1>7. p[3] \notin {"esc", "bel"}
  BY <1>4, ConstantsAssumption
<1>8. n = 3
  <2>1. CASE n = 2
    <3>1. n + 1 = 3
      BY <2>1
    <3> QED BY <1>6, <1>7, <3>1
  <2>2. CASE n # 2
    <3>1. 3 \in 3..n
      BY <1>1, <2>2
    <3> QED BY <1>4, <1>6, <3>1
  <2> QED BY <2>1, <2>2
<1>9. n + 1 = 4 /\ n + 2 = 5
  BY <1>8
<1> QED BY <1>4, <1>6, <1>7, <1>8, <1>9

\* A marker that has arrived whole is found with its own body and its own end.
LEMMA WholeMarker ==
  ASSUME Arrived, NEW n \in FirstKept..Len(sent), IsMarker(sent[n])
  PROVE  sent[n][3] \in DOMAIN Bodies /\ MarkerAt(raw, Place(n)) = MarkerOf(n)
<1>1. PICK p, s, c, e : p = sent[n] /\ s = Place(n) /\ c = p[3] /\ e = Place(n + 1)
  OBVIOUS
<1>2. n \in FirstKept..Len(sent) + 1 /\ n \in 1..Len(sent) /\ n <= Len(sent) /\ Len(sent) \in Nat
      /\ n \in 1..Len(sent) + 1
  <2>1. FirstKept \in 1..Len(sent) + 1 /\ Len(sent) \in Nat
    BY PlaceIs
  <2> QED BY <2>1
<1>3. Piece(n) = p
  BY <1>1, <1>2 DEF Piece
<1>4. p \in Pieces /\ p \in Seq(STRING) /\ Len(p) \in Nat
  <2>1. p \in Pieces
    BY <1>2, <1>3, PieceChars
  <2> QED BY <2>1, PieceKinds
<1>5. /\ s \in Nat \ {0} /\ s + Len(p) <= Len(raw) + 1 /\ e = s + Len(p) /\ Len(raw) \in Nat
      /\ \A k \in 1..Len(p) : raw[s + k - 1] = p[k]
      /\ raw \in Seq(STRING)
  <2>1. /\ s \in Nat \ {0} /\ s + Len(Piece(n)) <= Len(raw) + 1 /\ e = s + Len(Piece(n))
        /\ \A k \in 1..Len(Piece(n)) : raw[s + k - 1] = Piece(n)[k]
    BY <1>1, <1>2, PlaceIs
  <2>2. raw \in Seq(STRING) /\ Len(raw) \in Nat
    BY WindowOfStream
  <2> QED BY <1>3, <2>1, <2>2, Zenon
<1>6. /\ c \in DOMAIN Bodies /\ c \notin {"esc", "bel"}
      /\ \/ Len(p) = 4 /\ p[4] = "bel"
         \/ Len(p) = 5 /\ p[4] = "esc" /\ p[5] = "bs"
  <2>1. Len(p) <= Len(p)
    BY <1>4
  <2> QED BY <1>1, <1>4, <2>1, MarkerShape
<1>7. s + 3 - 1 = s + 2 /\ s + 4 - 1 = s + 3 /\ s + 5 - 1 = s + 4
  BY <1>5
<1>8. raw[s + 2] = c /\ raw[s + 3] = p[4] /\ (Len(p) = 5 => raw[s + 4] = p[5])
  <2>1. 3 \in 1..Len(p) /\ 4 \in 1..Len(p) /\ (Len(p) = 5 => 5 \in 1..Len(p))
    BY <1>6
  <2> QED BY <1>1, <1>5, <1>7, <2>1
<1>9. PICK d : d = <<s + 3, e>>
  OBVIOUS
<1>10. d[1] = s + 3 /\ d[2] = e
  BY <1>9
<1>11. d \in osc_ends(raw, s + 2)
  <2>1. CASE Len(p) = 4 /\ p[4] = "bel"
    <3>1. s + 3 \in s + 2..Len(raw) /\ e = (s + 3) + 1
      BY <1>5, <2>1
    <3> QED BY <1>8, <1>9, <2>1, <3>1 DEF osc_ends
  <2>2. CASE Len(p) = 5 /\ p[4] = "esc" /\ p[5] = "bs"
    <3>1. s + 3 \in s + 2..Len(raw) - 1 /\ e = (s + 3) + 2 /\ (s + 3) + 1 = s + 4
      BY <1>5, <2>2
    <3> QED BY <1>8, <1>9, <2>2, <3>1 DEF osc_ends
  <2> QED BY <1>6, <2>1, <2>2
<1>12. ASSUME NEW x \in osc_ends(raw, s + 2), x[1] <= s + 3 PROVE x = d
  <2>1. s + 2 \in Nat
    BY <1>5
  <2>2. x = <<x[1], x[2]>> /\ x[1] \in s + 2..Len(raw)
    BY <1>5, <2>1, EndsInside
  <2>3. \/ raw[x[1]] = "bel" /\ x[2] = x[1] + 1
        \/ raw[x[1]] = "esc" /\ raw[x[1] + 1] = "bs" /\ x[2] = x[1] + 2
    BY DEF osc_ends
  <2>4. x[1] = s + 3
    <3>1. x[1] = s + 2 \/ x[1] = s + 3
      BY <1>5, <1>12, <2>2
    <3>2. x[1] # s + 2
      BY <1>6, <1>8, <2>3
    <3> QED BY <3>1, <3>2
  <2>5. x[2] = e
    <3>1. CASE Len(p) = 4 /\ p[4] = "bel"
      <4>1. x[2] = x[1] + 1
        BY <1>8, <2>3, <2>4, <3>1
      <4> QED BY <1>5, <2>4, <3>1, <4>1
    <3>2. CASE Len(p) = 5 /\ p[4] = "esc"
      <4>1. x[2] = x[1] + 2
        BY <1>8, <2>3, <2>4, <3>2
      <4> QED BY <1>5, <2>4, <3>2, <4>1
    <3> QED BY <1>6, <3>1, <3>2
  <2> QED BY <1>9, <2>2, <2>4, <2>5, Zenon
<1>13. FirstEnd(raw, s + 2) = d
  <2>1. s + 2 \in Nat /\ osc_ends(raw, s + 2) # {}
    BY <1>5, <1>11
  <2>2. FirstEnd(raw, s + 2) \in osc_ends(raw, s + 2) /\ FirstEnd(raw, s + 2)[1] <= d[1]
    BY <1>5, <1>11, <2>1, FirstEndIsFirst
  <2> QED BY <1>10, <1>12, <2>2
<1>14. SubSeq(raw, s + 2, (s + 3) - 1) = <<c>>
  <2>1. (s + 3) - 1 = s + 2 /\ s + 2 \in 1..Len(raw)
    BY <1>4, <1>5, <1>6
  <2>2. PICK t, u : t = s + 2 /\ u = SubSeq(raw, t, t)
    OBVIOUS
  <2>3. t \in 1..Len(raw) /\ t \in Nat /\ 1 <= t /\ t <= Len(raw)
    BY <1>5, <2>1, <2>2
  <2>4. u \in Seq(STRING) /\ Len(u) = 1 /\ u[1] = raw[t]
    BY <1>5, <2>2, <2>3
  <2>5. u = <<raw[t]>>
    BY <2>4
  <2> QED BY <1>8, <2>1, <2>2, <2>5
<1>15. MarkerAt(raw, s) = parse_osc_marker(s, e, <<c>>)
  <2>1. osc_ends(raw, s + 2) # {}
    BY <1>11
  <2>2. MarkerAt(raw, s) = parse_osc_marker(s, d[2], SubSeq(raw, s + 2, d[1] - 1))
    BY <1>13, <2>1, Zenon DEF MarkerAt, FirstEnd
  <2> QED BY <1>10, <1>14, <2>2, Zenon
<1> QED BY <1>1, <1>6, <1>15, Zenon DEF MarkerOf

\* A marker that has not arrived whole has no end.
LEMMA BrokenMarker ==
  ASSUME Arrived, IsMarker(part)
  PROVE  MarkerAt(raw, Place(Len(sent) + 1)) = None
<1>1. PICK n, w, s : n = Len(sent) + 1 /\ w = part /\ s = Place(Len(sent) + 1)
  OBVIOUS
<1>2. n \in FirstKept..Len(sent) + 1 /\ Len(sent) \in Nat /\ n \in 1..Len(sent) + 1
      /\ ~ (n <= Len(sent))
  <2>1. FirstKept \in 1..Len(sent) + 1 /\ Len(sent) \in Nat
    BY PlaceIs
  <2> QED BY <1>1, <2>1
<1>3. Piece(n) = w
  BY <1>1, <1>2 DEF Piece
<1>4. /\ s \in Nat \ {0} /\ Len(raw) \in Nat
      /\ \A k \in 1..Len(w) : raw[s + k - 1] = w[k]
  BY <1>1, <1>2, <1>3, PlaceIs, WindowOfStream
<1>5. Len(raw) = s + Len(w) - 1 /\ w \in Seq(STRING) /\ Len(w) \in Nat
  <2>1. /\ Len(stream) \in Nat /\ Lost \in Nat /\ Len(raw) = Len(stream) - Lost
        /\ part \in Seq(STRING) /\ BeginsAt(n) + Len(part) = Len(stream) /\ BeginsAt(n) \in Nat
    BY <1>1, <1>2, WindowOfStream, PieceAt DEF Arrived
  <2>2. s = BeginsAt(n) - Lost + 1
    BY <1>1 DEF Place
  <2> QED BY <1>1, <2>1, <2>2
<1>6. PICK p \in Pieces : Len(w) < Len(p) /\ \A k \in 1..Len(w) : w[k] = p[k]
  <2>1. part # <<>>
    BY <1>1, <1>5 DEF IsMarker
  <2> QED BY <1>1, <2>1 DEF Arrived, BeginningOf
<1>7. p \in Seq(STRING) /\ Len(p) \in Nat
  BY PieceKinds
<1>8. Len(w) > 2
  BY <1>1 DEF IsMarker
<1>9. /\ w[3] \notin {"esc", "bel"}
      /\ Len(w) = 3 \/ (Len(w) = 4 /\ w[4] = "esc")
  <2>1. Len(w) <= Len(p)
    BY <1>5, <1>6, <1>7
  <2>2. /\ w[3] = p[3] /\ p[3] \notin {"esc", "bel"}
        /\ \/ Len(p) = 4 /\ p[4] = "bel"
           \/ Len(p) = 5 /\ p[4] = "esc" /\ p[5] = "bs"
    BY <1>1, <1>5, <1>6, <2>1, MarkerShape
  <2>3. Len(w) = 3 \/ (Len(w) = 4 /\ Len(p) = 5)
    <3>1. PICK m, l : m = Len(w) /\ l = Len(p)
      OBVIOUS
    <3>2. m \in Nat /\ m > 2 /\ m < l /\ (l = 4 \/ l = 5)
      BY <1>5, <1>6, <1>8, <2>2, <3>1
    <3>3. m = 3 \/ (m = 4 /\ l = 5)
      BY <3>2
    <3> QED BY <3>1, <3>3, Zenon
  <2>4. ASSUME Len(w) = 4 PROVE w[4] = "esc"
    <3>1. 4 \in 1..Len(w)
      BY <2>4
    <3> QED BY <1>6, <2>2, <2>3, <2>4, <3>1
  <2> QED BY <2>2, <2>3, <2>4
<1>10. raw[s + 2] = w[3] /\ (Len(w) = 4 => raw[s + 3] = w[4])
  <2>1. s \in Nat
    BY <1>4
  <2>2. s + 3 - 1 = s + 2 /\ s + 4 - 1 = s + 3
    BY <2>1
  <2>3. 3 \in 1..Len(w)
    BY <1>5, <1>8
  <2>4. raw[s + 3 - 1] = w[3]
    BY <1>4, <2>3, Zenon
  <2>5. ASSUME Len(w) = 4 PROVE raw[s + 4 - 1] = w[4]
    <3>1. 4 \in 1..Len(w)
      BY <2>5
    <3> QED BY <1>4, <3>1, Zenon
  <2> QED BY <2>2, <2>4, <2>5, Zenon
<1>11. ASSUME NEW x \in osc_ends(raw, s + 2) PROVE FALSE
  <2>1. PICK j : /\ j \in s + 2..Len(raw)
                 /\ \/ raw[j] = "bel"
                    \/ j \in s + 2..Len(raw) - 1 /\ raw[j] = "esc"
    <3>1. Len(raw) - 1 \in Int /\ \A j \in s + 2..Len(raw) - 1 : j \in s + 2..Len(raw)
      BY <1>4
    <3> QED BY <1>11, <3>1 DEF osc_ends
  <2>2. j = s + 2 \/ (j = s + 3 /\ Len(w) = 4 /\ j \notin s + 2..Len(raw) - 1)
    <3>1. PICK m, r : m = Len(w) /\ r = Len(raw)
      OBVIOUS
    <3>2. s \in Nat /\ m \in Nat /\ r = s + m - 1 /\ j \in s + 2..r /\ (m = 3 \/ m = 4)
      BY <1>4, <1>5, <1>9, <2>1, <3>1
    <3>3. j = s + 2 \/ (j = s + 3 /\ m = 4 /\ j \notin s + 2..r - 1)
      BY <3>2
    <3> QED BY <3>1, <3>3, Zenon
  <2> QED BY <1>9, <1>10, <2>1, <2>2
<1>12. MarkerAt(raw, s) = None
  <2>1. osc_ends(raw, s + 2) = {}
    BY <1>11
  <2> QED BY <2>1, Zenon DEF MarkerAt
<1> QED BY <1>1, <1>12, Zenon

-----------------------------------------------------------------------------
(* The list of markers is that of the marker pieces *)

\* Something from the i-th piece on is no whole, well-formed marker.
Broken(i) ==
  IsMarker(part) \/ \E n \in i..Len(sent) : IsMarker(sent[n]) /\ Body(n).kind = "malformed"

\* What the code makes of the marker pieces from the i-th on.
MarkersOf(i) == {MarkerOf(n) : n \in {m \in i..Len(sent) : IsMarker(sent[m])}}

LEMMA MarkerOfIs ==
  ASSUME Arrived, NEW n \in FirstKept..Len(sent), IsMarker(sent[n])
  PROVE  /\ MarkerAt(raw, Place(n)) = MarkerOf(n)
         /\ Means(MarkerOf(n), Place(n), Place(n + 1), Body(n))
<1>1. Place(n) \in Nat /\ Place(n + 1) \in Nat
  <2>1. FirstKept \in 1..Len(sent) + 1 /\ Len(sent) \in Nat
    BY PlaceIs
  <2>2. n \in FirstKept..Len(sent) + 1 /\ n + 1 \in FirstKept..Len(sent) + 1
    BY <2>1
  <2> QED BY <2>2, PlaceIs
<1>2. sent[n][3] \in DOMAIN Bodies /\ MarkerAt(raw, Place(n)) = MarkerOf(n)
  BY WholeMarker, Zenon
<1>3. PICK c, s, e, m : /\ c = sent[n][3] /\ s = Place(n) /\ e = Place(n + 1)
                        /\ m = parse_osc_marker(s, e, <<c>>)
  OBVIOUS
<1>4. MarkerOf(n) = m /\ Body(n) = Bodies[c]
  BY <1>3, Zenon DEF MarkerOf, Body
<1>5. c \in DOMAIN Bodies /\ s \in Nat /\ e \in Nat
  BY <1>1, <1>2, <1>3, Zenon
<1>6. Means(m, s, e, Bodies[c])
  BY <1>3, <1>5, ParsedIs, Zenon
<1> QED BY <1>2, <1>3, <1>4, <1>6, Zenon

\* How the list goes on from the i-th piece.
LEMMA MarkersGoOn ==
  ASSUME Arrived, NEW i \in FirstKept..Len(sent)
  PROVE  MarkersFrom(raw)[Place(i)] =
           IF ~ IsMarker(sent[i]) THEN MarkersFrom(raw)[Place(i + 1)]
           ELSE IF Body(i).kind = "malformed" \/ MarkersFrom(raw)[Place(i + 1)] = None THEN None
           ELSE <<MarkerOf(i)>> \o MarkersFrom(raw)[Place(i + 1)]
<1>1. /\ FirstKept \in 1..Len(sent) + 1 /\ Len(sent) \in Nat
      /\ i \in FirstKept..Len(sent) + 1 /\ i + 1 \in FirstKept..Len(sent) + 1 /\ i <= Len(sent)
      /\ i \in i..Len(sent) + 1
      /\ \A n \in i..Len(sent) + 1 : n = i \/ n \in i + 1..Len(sent) + 1
      /\ \A n \in i + 1..Len(sent) + 1 : n \in i..Len(sent) + 1
  <2>1. FirstKept \in 1..Len(sent) + 1 /\ Len(sent) \in Nat
    BY PlaceIs
  <2> QED BY <2>1
<1>2. Piece(i) = sent[i]
  BY <1>1 DEF Piece
<1>3. Place(i) \in Nat /\ Place(i + 1) \in Nat
  BY <1>1, PlaceIs
<1>4. PICK M : M = MarkersFrom(raw)
  OBVIOUS
<1>5. Len(raw) \in Nat
  BY WindowOfStream
<1>6. M[Place(i)] = MarkersStep(raw, M, Place(i)) /\ M[Place(i + 1)] = MarkersStep(raw, M, Place(i + 1))
  BY <1>3, <1>4, <1>5, MarkersEquation
<1>7. CASE ~ IsMarker(sent[i])
  <2>1. MarkerPlaces(i) = MarkerPlaces(i + 1)
    <3>1. {m \in i..Len(sent) + 1 : IsMarker(Piece(m))} = {m \in i + 1..Len(sent) + 1 : IsMarker(Piece(m))}
      BY <1>1, <1>2, <1>7
    <3> QED BY <3>1, Zenon DEF MarkerPlaces
  <2>2. Prefixes3008(raw, Place(i)) = Prefixes3008(raw, Place(i + 1))
    BY <1>1, <2>1, PrefixesFrom, Zenon
  <2>3. MarkersStep(raw, M, Place(i)) = MarkersStep(raw, M, Place(i + 1))
    BY <2>2, Zenon DEF MarkersStep
  <2> QED BY <1>4, <1>6, <1>7, <2>3, Zenon
<1>8. CASE IsMarker(sent[i])
  <2>1. PICK starts : starts = Prefixes3008(raw, Place(i))
    OBVIOUS
  <2>2. starts = MarkerPlaces(i) /\ starts \in SUBSET Nat /\ \A x \in starts : Place(i) <= x
    BY <1>1, <2>1, PrefixesFrom, Zenon
  <2>3. Place(i) \in starts
    BY <1>1, <1>2, <1>8, <2>2, Zenon DEF MarkerPlaces
  <2>4. First(starts) = Place(i) /\ starts # {}
    BY <2>2, <2>3, FirstIs
  <2>5. M[Place(i)] = IF MarkerOf(i) = None \/ M[MarkerOf(i).end] = None THEN None
                      ELSE <<MarkerOf(i)>> \o M[MarkerOf(i).end]
    <3>1. MarkerAt(raw, First(starts)) = MarkerOf(i)
      BY <1>8, <2>4, MarkerOfIs, Zenon DEF Means
    <3> QED BY <1>6, <2>1, <2>4, <3>1, Zenon DEF MarkersStep
  <2>6. CASE Body(i).kind = "malformed"
    <3>1. MarkerOf(i) = None
      BY <1>8, <2>6, MarkerOfIs, Zenon DEF Means
    <3>2. M[Place(i)] = None
      BY <2>5, <3>1, Zenon
    <3> QED BY <1>4, <1>8, <2>6, <3>2, Zenon
  <2>7. CASE Body(i).kind # "malformed"
    <3>1. MarkerOf(i) # None /\ MarkerOf(i).end = Place(i + 1)
      BY <1>8, <2>7, MarkerOfIs, Zenon DEF Means
    <3>2. M[Place(i)] = IF M[Place(i + 1)] = None THEN None ELSE <<MarkerOf(i)>> \o M[Place(i + 1)]
      BY <2>5, <3>1, Zenon
    <3> QED BY <1>4, <1>8, <2>7, <3>2, Zenon
  <2> QED BY <2>6, <2>7
<1> QED BY <1>7, <1>8

\* Where the list ends.
LEMMA MarkersEnd ==
  ASSUME Arrived
  PROVE  MarkersFrom(raw)[Place(Len(sent) + 1)] = IF IsMarker(part) THEN None ELSE <<>>
<1>1. PICK n, M, starts : /\ n = Len(sent) + 1 /\ M = MarkersFrom(raw)
                          /\ starts = Prefixes3008(raw, Place(Len(sent) + 1))
  OBVIOUS
<1>2. n \in FirstKept..Len(sent) + 1 /\ n..Len(sent) + 1 = {n} /\ ~ (n <= Len(sent))
  <2>1. FirstKept \in 1..Len(sent) + 1 /\ Len(sent) \in Nat
    BY PlaceIs
  <2> QED BY <1>1, <2>1
<1>3. Piece(n) = part
  BY <1>2 DEF Piece
<1>4. Place(n) \in Nat /\ Len(raw) \in Nat
  BY <1>2, PlaceIs, WindowOfStream
<1>5. M[Place(n)] = MarkersStep(raw, M, Place(n))
  BY <1>1, <1>4, MarkersEquation
<1>6. starts = MarkerPlaces(n)
  BY <1>1, <1>2, PrefixesFrom, Zenon
<1>7. CASE ~ IsMarker(part)
  <2>1. starts = {}
    BY <1>2, <1>3, <1>6, <1>7 DEF MarkerPlaces
  <2>2. M[Place(n)] = <<>>
    BY <1>1, <1>5, <2>1, Zenon DEF MarkersStep
  <2> QED BY <1>1, <1>7, <2>2, Zenon
<1>8. CASE IsMarker(part)
  <2>1. starts = {Place(n)}
    BY <1>2, <1>3, <1>6, <1>8 DEF MarkerPlaces
  <2>2. First(starts) = Place(n) /\ starts # {}
    BY <1>4, <2>1, FirstIs
  <2>3. MarkerAt(raw, First(starts)) = None
    BY <1>1, <1>8, <2>2, BrokenMarker, Zenon
  <2>4. M[Place(n)] = None
    BY <1>1, <1>5, <2>2, <2>3, Zenon DEF MarkersStep
  <2> QED BY <1>1, <1>8, <2>4, Zenon
<1> QED BY <1>7, <1>8

\* The list from the i-th piece on.
ListIs(i) ==
  IF Broken(i) THEN MarkersFrom(raw)[Place(i)] = None
  ELSE /\ MarkersFrom(raw)[Place(i)] \in Seq(Markers)
       /\ ToSet(MarkersFrom(raw)[Place(i)]) = MarkersOf(i)

LEMMA ListStep ==
  ASSUME Arrived, NEW i \in FirstKept..Len(sent), ListIs(i + 1)
  PROVE  ListIs(i)
<1>1. /\ \A n \in i..Len(sent) : n = i \/ n \in i + 1..Len(sent)
      /\ \A n \in i + 1..Len(sent) : n \in i..Len(sent)
      /\ i \in i..Len(sent)
  <2>1. FirstKept \in 1..Len(sent) + 1 /\ Len(sent) \in Nat
    BY PlaceIs
  <2> QED BY <2>1
<1>2. Broken(i) <=> Broken(i + 1) \/ (IsMarker(sent[i]) /\ Body(i).kind = "malformed")
  BY <1>1 DEF Broken
<1>3. PICK r, t : r = MarkersFrom(raw)[Place(i + 1)] /\ t = MarkersFrom(raw)[Place(i)]
  OBVIOUS
<1>4. CASE ~ IsMarker(sent[i])
  <2>1. t = r /\ (Broken(i) <=> Broken(i + 1))
    BY <1>2, <1>3, <1>4, MarkersGoOn, Zenon
  <2>2. MarkersOf(i) = MarkersOf(i + 1)
    <3>1. {m \in i..Len(sent) : IsMarker(sent[m])} = {m \in i + 1..Len(sent) : IsMarker(sent[m])}
      BY <1>1, <1>4
    <3> QED BY <3>1, Zenon DEF MarkersOf
  <2> QED BY <1>3, <2>1, <2>2, Zenon DEF ListIs
<1>5. CASE IsMarker(sent[i]) /\ Body(i).kind = "malformed"
  <2>1. t = None /\ Broken(i)
    BY <1>2, <1>3, <1>5, MarkersGoOn, Zenon
  <2> QED BY <1>3, <2>1, Zenon DEF ListIs
<1>6. CASE IsMarker(sent[i]) /\ Body(i).kind # "malformed" /\ Broken(i + 1)
  <2>1. r = None /\ Broken(i)
    BY <1>2, <1>3, <1>6, Zenon DEF ListIs
  <2>2. t = None
    BY <1>3, <1>6, <2>1, MarkersGoOn, Zenon
  <2> QED BY <1>3, <2>1, <2>2, Zenon DEF ListIs
<1>7. CASE IsMarker(sent[i]) /\ Body(i).kind # "malformed" /\ ~ Broken(i + 1)
  <2>1. r \in Seq(Markers) /\ ToSet(r) = MarkersOf(i + 1) /\ ~ Broken(i)
    BY <1>2, <1>3, <1>7, Zenon DEF ListIs
  <2>2. r # None
    BY <2>1, NoneAssumption, Zenon
  <2>3. PICK m : m = MarkerOf(i)
    OBVIOUS
  <2>4. t = <<m>> \o r
    BY <1>3, <1>7, <2>2, <2>3, MarkersGoOn, Zenon
  <2>5. m \in Markers
    BY <1>7, <2>3, MarkerOfIs, Zenon DEF Means
  <2>6. <<m>> \o r \in Seq(Markers)
    BY <2>1, <2>5
  <2>7. ToSet(t) = {m} \cup ToSet(r)
    <3>1. ToSet(<<m>> \o r) = {m} \cup ToSet(r)
      BY <2>1, <2>5, ToSetCons
    <3> QED BY <2>4, <3>1, Zenon
  <2>8. MarkersOf(i) = {m} \cup MarkersOf(i + 1)
    <3>1. {n \in i..Len(sent) : IsMarker(sent[n])} = {i} \cup {n \in i + 1..Len(sent) : IsMarker(sent[n])}
      BY <1>1, <1>7
    <3>2. PICK A, B : /\ A = {n \in i..Len(sent) : IsMarker(sent[n])}
                      /\ B = {n \in i + 1..Len(sent) : IsMarker(sent[n])}
      OBVIOUS
    <3>3. MarkersOf(i) = {MarkerOf(n) : n \in A} /\ MarkersOf(i + 1) = {MarkerOf(n) : n \in B}
      BY <3>2, Zenon DEF MarkersOf
    <3>4. A = {i} \cup B
      BY <3>1, <3>2, Zenon
    <3>5. {MarkerOf(n) : n \in A} = {m} \cup {MarkerOf(n) : n \in B}
      BY <2>3, <3>4
    <3> QED BY <3>3, <3>5, Zenon
  <2> QED BY <1>3, <2>1, <2>4, <2>6, <2>7, <2>8, Zenon DEF ListIs
<1> QED BY <1>4, <1>5, <1>6, <1>7

LEMMA ListOfMarkers ==
  ASSUME Arrived
  PROVE  ListIs(FirstKept)
<1> DEFINE N == Len(sent) + 1
           T == {i \in Nat : i \in FirstKept..N => ListIs(i)}
<1>1. FirstKept \in 1..N /\ Len(sent) \in Nat /\ N \in Nat
  BY PlaceIs
<1>2. ListIs(N)
  <2>1. N..Len(sent) = {}
    BY <1>1
  <2>2. MarkersOf(N) = {} /\ (Broken(N) <=> IsMarker(part))
    BY <2>1 DEF MarkersOf, Broken
  <2>3. <<>> \in Seq(Markers) /\ ToSet(<<>>) = {}
    BY DEF ToSet
  <2> QED BY <2>2, <2>3, MarkersEnd, Zenon DEF ListIs
<1>3. ASSUME NEW i \in Nat, i >= N PROVE i \in T
  <2>1. i \in FirstKept..N => i = N
    BY <1>1, <1>3
  <2> HIDE DEF N
  <2> QED BY <1>2, <2>1
<1>4. ASSUME NEW i \in 0..N - 1, \A n \in Nat : n > i => n \in T PROVE i \in T
  <2> SUFFICES ASSUME i \in FirstKept..N PROVE ListIs(i)
    BY <1>1
  <2>1. i \in FirstKept..Len(sent) /\ i + 1 \in FirstKept..N /\ i + 1 \in Nat /\ i + 1 > i
    BY <1>1
  <2>2. ListIs(i + 1)
    BY <1>4, <2>1
  <2> QED BY <2>1, <2>2, ListStep, Zenon
<1>5. Nat \subseteq T
  <2> HIDE DEF T, N
  <2> QED BY <1>1, <1>3, <1>4, DownwardInduction
<1>6. FirstKept \in Nat /\ FirstKept \in FirstKept..N
  BY <1>1
<1> QED BY <1>5, <1>6

\* The list of the whole window: what is left of a piece at its beginning has no
\* marker.
LEMMA MarkersOfWindow ==
  ASSUME Arrived
  PROVE  osc3008_markers(raw) = MarkersFrom(raw)[Place(FirstKept)]
<1>1. FirstKept \in FirstKept..Len(sent) + 1
  <2>1. FirstKept \in 1..Len(sent) + 1 /\ Len(sent) \in Nat
    BY PlaceIs
  <2> QED BY <2>1
<1>2. Prefixes3008(raw, 1) = Prefixes3008(raw, Place(FirstKept))
  BY <1>1, PrefixesArePlaces, PrefixesFrom, Zenon
<1>3. Place(FirstKept) \in Nat /\ 1 \in Nat /\ Len(raw) \in Nat
  BY <1>1, PlaceIs, WindowOfStream
<1>4. PICK M : M = MarkersFrom(raw)
  OBVIOUS
<1>5. M[1] = MarkersStep(raw, M, 1) /\ M[Place(FirstKept)] = MarkersStep(raw, M, Place(FirstKept))
  BY <1>3, <1>4, MarkersEquation
<1>6. MarkersStep(raw, M, 1) = MarkersStep(raw, M, Place(FirstKept))
  BY <1>2, Zenon DEF MarkersStep
<1> QED BY <1>4, <1>5, <1>6, Zenon DEF osc3008_markers

-----------------------------------------------------------------------------
(* The one command *)

\* Different pieces have different places, in the same order.
LEMMA PlacesDiffer ==
  ASSUME Arrived, NEW i \in FirstKept..Len(sent), NEW j \in FirstKept..Len(sent)
  PROVE  /\ Place(i) = Place(j) => i = j
         /\ Place(j) >= Place(i + 1) <=> j > i
<1>1. FirstKept \in 1..Len(sent) + 1 /\ Len(sent) \in Nat
  BY PlaceIs
<1>2. ASSUME NEW a \in FirstKept..Len(sent) + 1, NEW b \in FirstKept..Len(sent) + 1, a < b
      PROVE  Place(a) < Place(b)
  <2>1. b \in a + 1..Len(sent) + 1
    BY <1>1, <1>2
  <2> QED BY <2>1, PlaceIs
<1>3. i \in FirstKept..Len(sent) + 1 /\ j \in FirstKept..Len(sent) + 1
      /\ i + 1 \in FirstKept..Len(sent) + 1
  BY <1>1
<1>4. Place(i) \in Nat /\ Place(j) \in Nat /\ Place(i + 1) \in Nat
  BY <1>3, PlaceIs
<1>5. /\ i < j => Place(i) < Place(j)
      /\ j < i => Place(j) < Place(i)
      /\ i + 1 < j => Place(i + 1) < Place(j)
      /\ j < i + 1 => Place(j) < Place(i + 1)
  BY <1>2, <1>3
<1>6. i = j \/ i < j \/ j < i
  BY <1>1
<1>7. j = i + 1 \/ i + 1 < j \/ j < i + 1
  BY <1>1
<1>8. j > i <=> ~ (j < i + 1)
  BY <1>1
<1>9. Place(i) = Place(j) => i = j
  BY <1>4, <1>5, <1>6
<1>10. Place(j) >= Place(i + 1) <=> j > i
  BY <1>4, <1>5, <1>7, <1>8
<1> QED BY <1>9, <1>10

\* The markers' records stand for their pieces: only one record, only one piece.
LEMMA OnlyImage ==
  ASSUME Arrived, NEW S, S \subseteq KeptMarkers, \A n \in S : Body(n).kind # "malformed",
         NEW I, I = {MarkerOf(n) : n \in S}
  PROVE  IF Only(S) = None THEN Only(I) = None
         ELSE Only(S) \in S /\ Only(I) = MarkerOf(Only(S)) /\ Only(I) # None
<1>1. FirstKept \in 1..Len(sent) + 1 /\ Len(sent) \in Nat
  BY PlaceIs
<1>2. S \subseteq FirstKept..Len(sent) /\ \A n \in S : IsMarker(sent[n])
  BY DEF KeptMarkers
<1>3. IsFiniteSet(S) /\ S \subseteq Nat
  <2>1. IsFiniteSet(FirstKept..Len(sent)) /\ FirstKept..Len(sent) \subseteq Nat
    BY <1>1, FS_Interval
  <2> QED BY <1>2, <2>1, FS_Subset
<1>4. \A n \in S : Means(MarkerOf(n), Place(n), Place(n + 1), Body(n))
  BY <1>2, MarkerOfIs, Zenon
<1>5. \A n \in S : MarkerOf(n) # None /\ MarkerOf(n).start = Place(n)
  BY <1>4, Zenon DEF Means
<1>6. ASSUME NEW i \in S, NEW j \in S, MarkerOf(i) = MarkerOf(j) PROVE i = j
  <2>1. Place(i) = Place(j)
    BY <1>5, <1>6, Zenon
  <2>2. i \in FirstKept..Len(sent) /\ j \in FirstKept..Len(sent)
    BY <1>2
  <2> QED BY <2>1, <2>2, PlacesDiffer, Zenon
<1>7. Cardinality(I) = Cardinality(S) /\ IsFiniteSet(I)
  <2>1. PICK f : f = [n \in S |-> MarkerOf(n)]
    OBVIOUS
  <2>2. f \in [S -> I] /\ \A x \in I : \E n \in S : f[n] = x
    BY <2>1
  <2>3. \A i, j \in S : f[i] = f[j] => i = j
    BY <1>6, <2>1
  <2>4. f \in Surjection(S, I)
    BY <2>2, Zenon DEF Surjection
  <2>5. f \in Injection(S, I)
    <3>1. DOMAIN f = S
      BY <2>2
    <3>2. IsInjective(f)
      BY <2>3, <3>1, Zenon DEF IsInjective
    <3> QED BY <2>2, <3>2, Zenon DEF Injection
  <2> QED BY <1>3, <2>4, <2>5, FS_Surjection
<1>8. CASE Cardinality(S) = 1
  <2>1. PICK n : S = {n}
    BY <1>3, <1>8, FS_Singleton
  <2>2. Only(S) = n
    BY <1>8, <2>1 DEF Only
  <2>3. n # None /\ MarkerOf(n) # None
    BY <1>3, <1>5, <2>1, NoneAssumption
  <2>4. I = {MarkerOf(n)}
    BY <2>1
  <2>5. Only(I) = MarkerOf(n)
    BY <1>7, <1>8, <2>4 DEF Only
  <2> QED BY <2>1, <2>2, <2>3, <2>5, Zenon
<1>9. CASE Cardinality(S) # 1
  BY <1>7, <1>9, Zenon DEF Only
<1> QED BY <1>8, <1>9, Zenon

\* The pieces whose markers the code takes for starts and ends of a command.
LEMMA StartsAndEnds ==
  ASSUME Arrived, NEW markers, ~ Broken(FirstKept), ToSet(markers) = MarkersOf(FirstKept)
  PROVE  /\ Starts(markers) = {MarkerOf(n) : n \in CommandStarts}
         /\ \A i \in KeptMarkers :
              MatchingEnds(MarkerOf(i), markers) = {MarkerOf(n) : n \in EndsOf(i)}
<1>1. ToSet(markers) = {MarkerOf(n) : n \in KeptMarkers}
  BY Zenon DEF MarkersOf, KeptMarkers
<1>2. \A n \in KeptMarkers : n \in FirstKept..Len(sent) /\ IsMarker(sent[n])
  BY DEF KeptMarkers
<1>3. \A n \in KeptMarkers : Body(n).kind # "malformed"
  BY <1>2, Zenon DEF Broken
<1>4. \A n \in KeptMarkers : Means(MarkerOf(n), Place(n), Place(n + 1), Body(n))
  BY <1>2, MarkerOfIs, Zenon
<1>5. \A n \in KeptMarkers :
        /\ MarkerOf(n).kind = Body(n).kind /\ MarkerOf(n).id = <<Body(n).id>>
        /\ MarkerOf(n).start = Place(n) /\ MarkerOf(n).end = Place(n + 1)
        /\ MarkerOf(n).command <=> "type=command" \in ToSet(Body(n).fields)
  BY <1>3, <1>4, Zenon DEF Means
<1>6. Starts(markers) = {MarkerOf(n) : n \in CommandStarts}
  <2>1. ASSUME NEW n \in KeptMarkers
        PROVE  MarkerOf(n).kind = "start" /\ MarkerOf(n).command <=> n \in CommandStarts
    BY <1>5, Zenon DEF CommandStarts
  <2>2. \A n \in CommandStarts : n \in KeptMarkers
    BY Zenon DEF CommandStarts
  <2>3. ASSUME NEW m \in Starts(markers) PROVE \E n \in CommandStarts : m = MarkerOf(n)
    <3>1. m \in ToSet(markers) /\ m.kind = "start" /\ m.command
      BY DEF Starts
    <3>2. PICK n \in KeptMarkers : m = MarkerOf(n)
      BY <1>1, <3>1
    <3> QED BY <2>1, <3>1, <3>2, Zenon
  <2>4. ASSUME NEW n \in CommandStarts PROVE MarkerOf(n) \in Starts(markers)
    <3>1. n \in KeptMarkers
      BY <2>2
    <3>2. MarkerOf(n) \in ToSet(markers)
      BY <1>1, <3>1
    <3> QED BY <2>1, <3>1, <3>2, Zenon DEF Starts
  <2> QED BY <2>3, <2>4
<1>7. ASSUME NEW i \in KeptMarkers
      PROVE  MatchingEnds(MarkerOf(i), markers) = {MarkerOf(n) : n \in EndsOf(i)}
  <2>1. ASSUME NEW n \in KeptMarkers
        PROVE  /\ MarkerOf(n).id = MarkerOf(i).id <=> Body(n).id = Body(i).id
               /\ MarkerOf(n).start >= MarkerOf(i).end <=> n > i
    <3>1. PICK a, b : a = Body(n).id /\ b = Body(i).id
      OBVIOUS
    <3>2. MarkerOf(n).id = <<a>> /\ MarkerOf(i).id = <<b>>
      BY <1>5, <3>1, Zenon
    <3>3. <<a>> = <<b>> <=> a = b
      OBVIOUS
    <3>4. Place(n) >= Place(i + 1) <=> n > i
      BY <1>2, PlacesDiffer, Zenon
    <3>5. MarkerOf(n).start = Place(n) /\ MarkerOf(i).end = Place(i + 1)
      BY <1>5, Zenon
    <3>6. MarkerOf(n).id = MarkerOf(i).id <=> Body(n).id = Body(i).id
      BY <3>1, <3>2, <3>3, Zenon
    <3>7. MarkerOf(n).start >= MarkerOf(i).end <=> n > i
      BY <3>4, <3>5, Zenon
    <3> QED BY <3>6, <3>7
  <2>2. ASSUME NEW n \in KeptMarkers
        PROVE  /\ MarkerOf(n).kind = "end" /\ MarkerOf(n).id = MarkerOf(i).id
               /\ MarkerOf(n).start >= MarkerOf(i).end
               <=> n \in EndsOf(i)
    BY <1>5, <2>1, Zenon DEF EndsOf
  <2>3. \A n \in EndsOf(i) : n \in KeptMarkers
    BY Zenon DEF EndsOf
  <2>4. ASSUME NEW m \in MatchingEnds(MarkerOf(i), markers)
        PROVE  \E n \in EndsOf(i) : m = MarkerOf(n)
    <3>1. /\ m \in ToSet(markers) /\ m.kind = "end" /\ m.id = MarkerOf(i).id
          /\ m.start >= MarkerOf(i).end
      BY DEF MatchingEnds
    <3>2. PICK n \in KeptMarkers : m = MarkerOf(n)
      BY <1>1, <3>1
    <3> QED BY <2>2, <3>1, <3>2, Zenon
  <2>5. ASSUME NEW n \in EndsOf(i) PROVE MarkerOf(n) \in MatchingEnds(MarkerOf(i), markers)
    <3>1. n \in KeptMarkers
      BY <2>3
    <3>2. MarkerOf(n) \in ToSet(markers)
      BY <1>1, <3>1
    <3> QED BY <2>2, <3>1, <3>2, Zenon DEF MatchingEnds
  <2> QED BY <2>4, <2>5
<1> QED BY <1>6, <1>7

\* What the code reports of the command between the i-th and the j-th piece.
ReportOf(i, j) ==
  [output    |-> SubSeq(raw, Place(i + 1), Place(j) - 1),
   status    |-> LastOf(Body(j).fields, {"exit=success", "exit=failure"}),
   exit_code |-> ExitCode(Body(j).fields)]

\* The code reports the command that the pieces say there is, or none.
LEMMA CommandFound ==
  ASSUME Arrived
  PROVE  IF OneCommand = None THEN parse_one_osc3008_command(raw) = None
         ELSE \E i \in KeptMarkers : \E j \in EndsOf(i) :
                /\ OneCommand = [from |-> i, to |-> j]
                /\ parse_one_osc3008_command(raw) = ReportOf(i, j)
<1>1. PICK markers : markers = osc3008_markers(raw)
  OBVIOUS
<1>2. parse_one_osc3008_command(raw) = CommandIn(raw, markers)
  BY <1>1, Zenon DEF parse_one_osc3008_command
<1>3. IF Broken(FirstKept) THEN markers = None
      ELSE markers \in Seq(Markers) /\ ToSet(markers) = MarkersOf(FirstKept)
  BY <1>1, MarkersOfWindow, ListOfMarkers, Zenon DEF ListIs
<1>4. Broken(FirstKept) <=> IsMarker(part) \/ \E i \in KeptMarkers : Body(i).kind = "malformed"
  BY Zenon DEF Broken, KeptMarkers
<1>5. CASE Broken(FirstKept)
  <2>1. OneCommand = None
    BY <1>4, <1>5, Zenon DEF OneCommand
  <2>2. CommandIn(raw, markers) = None
    BY <1>3, <1>5, Zenon DEF CommandIn
  <2> QED BY <1>2, <2>1, <2>2, Zenon
<1>6. CASE ~ Broken(FirstKept)
  <2>1. markers # None /\ ToSet(markers) = MarkersOf(FirstKept)
    BY <1>3, <1>6, NoneAssumption, Zenon
  <2>2. /\ Starts(markers) = {MarkerOf(n) : n \in CommandStarts}
        /\ \A i \in KeptMarkers :
             MatchingEnds(MarkerOf(i), markers) = {MarkerOf(n) : n \in EndsOf(i)}
    BY <1>6, <2>1, StartsAndEnds, Zenon
  <2>3. \A n \in KeptMarkers : Body(n).kind # "malformed"
    BY <1>4, <1>6, Zenon
  <2>4. PICK i, start : i = Only(CommandStarts) /\ start = Only(Starts(markers))
    OBVIOUS
  <2>5. /\ OneCommand = CommandAt(i)
        /\ CommandIn(raw, markers) = CommandFrom(raw, markers, start)
    BY <1>4, <1>6, <2>1, <2>4, Zenon DEF OneCommand, CommandIn, Starts
  <2>6. CommandStarts \subseteq KeptMarkers /\ \A n \in CommandStarts : Body(n).kind # "malformed"
    BY <2>3 DEF CommandStarts
  <2>7. IF i = None THEN start = None
        ELSE i \in CommandStarts /\ start = MarkerOf(i) /\ start # None
    <3>1. PICK S, I : S = CommandStarts /\ I = Starts(markers)
      OBVIOUS
    <3>2. S \subseteq KeptMarkers /\ \A n \in S : Body(n).kind # "malformed"
      BY <2>6, <3>1, Zenon
    <3>3. I = {MarkerOf(n) : n \in S}
      BY <2>2, <3>1, Zenon
    <3>4. IF Only(S) = None THEN Only(I) = None
          ELSE Only(S) \in S /\ Only(I) = MarkerOf(Only(S)) /\ Only(I) # None
      BY <3>2, <3>3, OnlyImage
    <3> QED BY <2>4, <3>1, <3>4, Zenon
  <2>8. CASE i = None
    <3>1. OneCommand = None /\ CommandIn(raw, markers) = None
      BY <2>5, <2>7, <2>8, Zenon DEF CommandAt, CommandFrom
    <3> QED BY <1>2, <3>1, Zenon
  <2>9. CASE i # None
    <3>1. i \in KeptMarkers /\ start = MarkerOf(i) /\ start # None
      BY <2>6, <2>7, <2>9
    <3>2. PICK j, end : j = Only(EndsOf(i)) /\ end = Only(MatchingEnds(start, markers))
      OBVIOUS
    <3>3. OneCommand = CommandBetween(i, j) /\ CommandIn(raw, markers) = Between(raw, start, end)
      BY <2>5, <2>9, <3>1, <3>2, Zenon DEF CommandAt, CommandFrom
    <3>4. EndsOf(i) \subseteq KeptMarkers /\ \A n \in EndsOf(i) : Body(n).kind # "malformed"
      BY <2>3 DEF EndsOf
    <3>5. MatchingEnds(start, markers) = {MarkerOf(n) : n \in EndsOf(i)}
      BY <2>2, <3>1, Zenon
    <3>6. IF j = None THEN end = None
          ELSE j \in EndsOf(i) /\ end = MarkerOf(j) /\ end # None
      <4>1. PICK S, I : S = EndsOf(i) /\ I = MatchingEnds(start, markers)
        OBVIOUS
      <4>2. S \subseteq KeptMarkers /\ \A n \in S : Body(n).kind # "malformed"
        BY <3>4, <4>1, Zenon
      <4>3. I = {MarkerOf(n) : n \in S}
        BY <3>5, <4>1, Zenon
      <4>4. IF Only(S) = None THEN Only(I) = None
            ELSE Only(S) \in S /\ Only(I) = MarkerOf(Only(S)) /\ Only(I) # None
        BY <4>2, <4>3, OnlyImage
      <4> QED BY <3>2, <4>1, <4>4, Zenon
    <3>7. CASE j = None
      <4>1. OneCommand = None /\ CommandIn(raw, markers) = None
        BY <3>3, <3>6, <3>7, Zenon DEF CommandBetween, Between
      <4> QED BY <1>2, <4>1, Zenon
    <3>8. CASE j # None
      <4>1. j \in EndsOf(i) /\ j \in KeptMarkers /\ end = MarkerOf(j) /\ end # None
        BY <3>4, <3>6, <3>8
      <4>2. OneCommand = [from |-> i, to |-> j]
        BY <3>3, <3>8, Zenon DEF CommandBetween
      <4>3. i \in Nat /\ j \in Nat
        <5>1. FirstKept \in 1..Len(sent) + 1 /\ Len(sent) \in Nat
          BY PlaceIs
        <5> QED BY <3>1, <4>1, <5>1 DEF KeptMarkers
      <4>4. OneCommand # None
        <5>1. [from |-> i, to |-> j] \in Commands
          BY <4>3 DEF Commands
        <5> QED BY <4>2, <5>1, NoneAssumption, Zenon
      <4>5. i \in FirstKept..Len(sent) /\ j \in FirstKept..Len(sent)
            /\ IsMarker(sent[i]) /\ IsMarker(sent[j])
        BY <3>1, <4>1 DEF KeptMarkers
      <4>6. /\ Means(start, Place(i), Place(i + 1), Body(i)) /\ Body(i).kind # "malformed"
            /\ Means(end, Place(j), Place(j + 1), Body(j)) /\ Body(j).kind # "malformed"
        BY <2>3, <3>1, <4>1, <4>5, MarkerOfIs, Zenon
      <4>7. /\ start.end = Place(i + 1) /\ end.start = Place(j)
            /\ end.status = LastOf(Body(j).fields, {"exit=success", "exit=failure"})
            /\ end.exit_code = ExitCode(Body(j).fields)
        BY <4>6, Zenon DEF Means
      <4>8. CommandIn(raw, markers) = ReportOf(i, j)
        BY <3>3, <4>1, <4>7, Zenon DEF Between, ReportOf
      <4> QED BY <1>2, <3>1, <4>1, <4>2, <4>4, <4>8, Zenon
    <3> QED BY <3>7, <3>8
  <2> QED BY <2>8, <2>9
<1> QED BY <1>5, <1>6

\* A slice of a sequence.
LEMMA SliceIs ==
  ASSUME NEW S, NEW q \in Seq(S), NEW a \in Nat, NEW b \in Nat,
         1 <= a, b <= Len(q), a <= b + 1
  PROVE  /\ SubSeq(q, a, b) \in Seq(S) /\ Len(SubSeq(q, a, b)) = b - a + 1
         /\ \A k \in 1..Len(SubSeq(q, a, b)) : SubSeq(q, a, b)[k] = q[a + k - 1]
<1>1. PICK u : u = SubSeq(q, a, b)
  OBVIOUS
<1>2. u \in Seq(S) /\ Len(u) = b - a + 1 /\ \A k \in 1..Len(u) : u[k] = q[a + k - 1]
  BY <1>1
<1> QED BY <1>1, <1>2, Zenon

\* What the code shows of a command is what a terminal shows of the pieces
\* between its markers.
LEMMA CommandOutput ==
  ASSUME Arrived, NEW i \in FirstKept..Len(sent), NEW j \in i + 1..Len(sent), IsMarker(sent[j])
  PROVE  /\ SubSeq(raw, Place(i + 1), Place(j) - 1) \in Seq(STRING)
         /\ normalize_terminal_output(SubSeq(raw, Place(i + 1), Place(j) - 1)) =
              ShownFromTo(i + 1, j - 1)
<1>1. PICK L, R, o, m, s, e : /\ L = Len(sent) /\ R = Len(raw)
                              /\ o = BeginsAt(i + 1) /\ m = BeginsAt(j)
                              /\ s = Place(i + 1) /\ e = Place(j)
  OBVIOUS
<1>2. FirstKept \in 1..L + 1 /\ L \in Nat
  BY <1>1, PlaceIs
<1>3. i \in FirstKept..L /\ j \in i + 1..L
  BY <1>1, Zenon
<1>4. /\ i + 1 \in FirstKept..L + 1 /\ j \in FirstKept..L + 1 /\ j \in 1..L + 1
      /\ j <= L /\ j \in Nat /\ i + 1 \in 1..(j - 1) + 1 /\ j - 1 \in 0..L /\ (j - 1) + 1 = j
      /\ i + 1 = j \/ j \in (i + 1) + 1..L + 1
  BY <1>2, <1>3
<1>5. Piece(j) = sent[j]
  BY <1>1, <1>4, Zenon DEF Piece
<1>6. PICK w, W : w = sent[j] /\ W = Len(w)
  OBVIOUS
<1>7. /\ w \in Seq(STRING) /\ W \in Nat /\ W > 2 /\ m \in Nat /\ m + W <= Len(stream)
      /\ \A k \in 1..W : stream[m + k] = w[k]
      /\ w \in Pieces
  <2>1. /\ Piece(j) \in Seq(STRING) /\ BeginsAt(j) \in Nat
        /\ BeginsAt(j) + Len(Piece(j)) <= Len(stream)
        /\ \A k \in 1..Len(Piece(j)) : stream[BeginsAt(j) + k] = Piece(j)[k]
        /\ Piece(j) \in Pieces
    BY <1>1, <1>4, PieceChars, Zenon
  <2>2. w \in Seq(STRING) /\ W \in Nat
    BY <1>5, <1>6, <2>1
  <2>3. W > 2
    BY <1>6 DEF IsMarker
  <2> QED BY <1>1, <1>5, <1>6, <2>1, <2>2, <2>3, Zenon
<1>8. w[1] = "esc"
  <2>1. W <= W
    BY <1>7
  <2> QED BY <1>6, <1>7, <2>1, MarkerShape, Zenon
<1>9. stream[m + 1] = "esc" /\ m + 1 <= Len(stream) /\ Len(stream) \in Nat
  <2>1. 1 \in 1..W /\ Len(stream) \in Nat
    BY <1>7, WindowOfStream
  <2> QED BY <1>7, <1>8, <2>1
<1>10. /\ s \in Nat \ {0} /\ e \in Nat \ {0} /\ s <= e /\ e + W <= R + 1
       /\ s + Lost = o + 1 /\ e + Lost = m + 1 /\ o \in Nat
  <2>1. /\ s \in Nat \ {0} /\ s + Lost = o + 1
        /\ \A n \in (i + 1) + 1..L + 1 : s < Place(n)
    BY <1>1, <1>4, PlaceIs, Zenon
  <2>2. e \in Nat \ {0} /\ e + Lost = m + 1 /\ e + W <= R + 1
    BY <1>1, <1>4, <1>5, <1>6, PlaceIs, Zenon
  <2>3. s <= e
    <3>1. CASE i + 1 = j
      BY <1>1, <2>1, <3>1
    <3>2. CASE j \in (i + 1) + 1..L + 1
      BY <1>1, <2>1, <2>2, <3>2
    <3> QED BY <1>4, <3>1, <3>2
  <2>4. o \in Nat
    <3>1. i + 1 \in 1..L + 1
      BY <1>2, <1>4
    <3> QED BY <1>1, <3>1, PieceAt, Zenon
  <2> QED BY <2>1, <2>2, <2>3, <2>4
<1>11. Lost \in Nat /\ R \in Nat /\ raw \in Seq(STRING) /\ \A k \in 1..R : raw[k] = stream[k + Lost]
  <2>1. /\ Len(stream) \in Nat /\ Lost \in 0..Len(stream) /\ Len(raw) \in Nat
        /\ raw \in Seq(STRING) /\ \A k \in 1..Len(raw) : raw[k] = stream[k + Lost]
    BY WindowOfStream
  <2> QED BY <1>1, <2>1
<1>12. PICK q : q = SubSeq(raw, s, e - 1)
  OBVIOUS
<1>13. q \in Seq(STRING) /\ Len(q) = e - s /\ \A k \in 1..Len(q) : q[k] = raw[s + k - 1]
  <2>1. PICK d : d = e - 1
    OBVIOUS
  <2>2. d \in Nat /\ s \in Nat /\ 1 <= s /\ d <= R /\ s <= d + 1 /\ d - s + 1 = e - s
    BY <1>7, <1>10, <1>11, <2>1
  <2>3. q \in Seq(STRING) /\ Len(q) = d - s + 1 /\ \A k \in 1..Len(q) : q[k] = raw[s + k - 1]
    <3>1. d <= Len(raw)
      BY <1>1, <2>2, Zenon
    <3>2. q = SubSeq(raw, s, d)
      BY <1>12, <2>1, Zenon
    <3> QED BY <1>11, <2>2, <3>1, <3>2, SliceIs, Zenon
  <2> QED BY <2>2, <2>3
<1>14. Len(q) = m - o /\ o \in Nat /\ m \in o..Len(stream) /\ m # Len(stream)
  <2>1. PICK l, n : l = Lost /\ n = Len(stream)
    OBVIOUS
  <2>2. /\ l \in Nat /\ n \in Nat /\ m \in Nat /\ o \in Nat /\ s \in Nat /\ e \in Nat /\ s <= e
        /\ s + l = o + 1 /\ e + l = m + 1 /\ m + 1 <= n
    BY <1>7, <1>9, <1>10, <1>11, <2>1, Zenon
  <2>3. e - s = m - o /\ m \in o..n /\ m # n
    BY <2>2
  <2> QED BY <1>13, <2>1, <2>2, <2>3, Zenon
<1>15. \A k \in 1..Len(q) : q[k] = stream[o + k]
  <2>1. \A k \in 1..Len(q) : s + k - 1 \in 1..R /\ (s + k - 1) + Lost = o + k
    BY <1>7, <1>10, <1>11, <1>13, <1>14
  <2> QED BY <1>11, <1>13, <2>1
<1>16. Slice(q, o, m, j - 1)
  <2>1. BeginsAt((j - 1) + 1) = m
    BY <1>1, <1>4, Zenon
  <2>2. stream[m + 1] # "lf" /\ m <= m
    BY <1>7, <1>9
  <2> QED BY <1>1, <1>4, <1>13, <1>14, <1>15, <2>1, <2>2, Zenon DEF Slice
<1>17. OutputFrom(q)[o - o + 1] = ShownFromTo(i + 1, j - 1)
  <2>1. o <= BeginsAt(i + 1) /\ o = BeginsAt(i + 1)
    BY <1>1, <1>14
  <2>2. PICK p : p = j - 1
    OBVIOUS
  <2>3. Slice(q, o, m, p) /\ i + 1 \in 1..p + 1
    BY <1>4, <1>16, <2>2, Zenon
  <2>4. OutputFrom(q)[BeginsAt(i + 1) - o + 1] = ShownFromTo(i + 1, p)
    BY <2>1, <2>3, OutputOfPieces
  <2> QED BY <2>1, <2>2, <2>4, Zenon
<1>18. o - o + 1 = 1
  BY <1>14
<1> QED BY <1>1, <1>12, <1>13, <1>17, <1>18, Zenon DEF normalize_terminal_output

-----------------------------------------------------------------------------
(* The theorems *)

\* What the device sends arrives in whole pieces, and the markers the code
\* finds lie in the window one after another: no slice of it is taken backwards
\* or past its end (osc3008_markers, parse_one_osc3008_command).
THEOREM TypeCorrect == Spec => []TypeOK
<1>1. Init => Arrived
  BY ArrivedInductive
<1>2. Arrived /\ [Next]_vars => Arrived'
  BY ArrivedInductive
<1>3. ASSUME Arrived PROVE TypeOK
  <2>1. sent \in Seq(Pieces)
    BY <1>3 DEF Arrived
  <2>2. part = <<>> \/ \E p \in Pieces : IsStrictPrefix(part, p)
    <3> SUFFICES ASSUME NEW p \in Pieces, BeginningOf(p) PROVE IsStrictPrefix(part, p)
      BY <1>3 DEF Arrived
    <3>1. p \in Seq(STRING) /\ part \in Seq(STRING)
      BY <1>3, ConstantsAssumption DEF Arrived
    <3> QED BY <3>1, StrictPrefixIs DEF BeginningOf
  <2>3. ASSUME osc3008_markers(raw) # None, NEW i \in DOMAIN osc3008_markers(raw)
        PROVE  LET markers == osc3008_markers(raw) IN
               /\ markers[i].start < markers[i].end
               /\ markers[i].end <= IF i = Len(markers) THEN Len(raw) + 1 ELSE markers[i + 1].start
    <3>1. PICK markers : markers = osc3008_markers(raw)
      OBVIOUS
    <3>2. Len(raw) \in Nat /\ 1 \in Nat
      BY <1>3, WindowOfStream
    <3>3. markers \in Seq(Found(raw)) /\ InOrder(raw, markers, 1)
      BY <2>3, <3>1, <3>2, MarkersInOrder, Zenon DEF osc3008_markers
    <3>4. i \in 1..Len(markers)
      BY <2>3, <3>1, <3>3
    <3>5. /\ markers[i].start < markers[i].end
          /\ markers[i].end <= IF i = Len(markers) THEN Len(raw) + 1 ELSE markers[i + 1].start
      BY <3>3, <3>4 DEF InOrder
    <3> QED BY <3>1, <3>5
  <2> QED BY <2>1, <2>2, <2>3, Zenon DEF TypeOK
<1> QED BY <1>1, <1>2, <1>3, PTL DEF Spec

\* However far a read got, two replies that report a command never disagree
\* about it (parse_one_osc3008_command).
THEOREM ReportsFinal == Spec => []ReportsAreFinal
<1>1. Init => Arrived
  BY ArrivedInductive
<1>2. Arrived /\ [Next]_vars => Arrived'
  BY ArrivedInductive
<1>3. ASSUME Arrived PROVE ReportsAreFinal
  <2>1. raw \in Seq(STRING)
    BY <1>3, WindowOfStream
  <2>2. ASSUME NEW n \in 0..Len(raw), parse_one_osc3008_command(raw) # None
        PROVE  parse_one_osc3008_command(SubSeq(raw, 1, n))
                 \in {None, parse_one_osc3008_command(raw)}
    BY <2>1, <2>2, ReportStays, Zenon
  <2> QED BY <2>2, Zenon DEF ReportsAreFinal
<1> QED BY <1>1, <1>2, <1>3, PTL DEF Spec


\* The normalized output is what a terminal would show of the window without
\* the command's echo, wherever the window and the read cut the transcript;
\* with a line echo, as long as the window holds the echo's terminator
\* (normalize_terminal_output, normalize_exec_output).
THEOREM ShowsTrue == Spec => []ShowsLikeTerminal
<1>1. Init => Arrived
  BY ArrivedInductive
<1>2. Arrived /\ [Next]_vars => Arrived'
  BY ArrivedInductive
<1>3. ASSUME Arrived PROVE ShowsLikeTerminal
  <2> DEFINE Output(m) == analyze_transcript(raw, m, "none").normalized_output
             Whole == ShownOfFragment \o ShownFromTo(FirstKept, Len(sent))
  <2>1. \A boundary : \A shown : Analysis(boundary, shown, None).normalized_output = boundary
    BY DEF Analysis
  <2>2. Output("none") = normalize_terminal_output(raw)
    BY <2>1, Zenon DEF analyze_transcript
  <2>3. Output("none") = Whole
    BY <1>3, <2>2, WindowOutput, Zenon
  <2>4. ShownOutput("none") = Whole
    BY DEF ShownOutput
  <2>5. Output("line") = normalize_terminal_output(
          IF echo_line_boundary(raw) = None THEN raw ELSE Rest(raw, echo_line_boundary(raw)))
    BY <2>1, Zenon DEF analyze_transcript
  <2>6. CASE ~ HasEcho
    <3>1. Terminator = <<>> \/ WindowLines = {}
      BY <1>3, <2>6, FirstLineIsEcho DEF HasEcho
    <3>2. echo_line_boundary(raw) = None
      BY <1>3, <3>1, EchoBoundary
    <3>3. Output("line") = Whole
      BY <1>3, <2>5, <3>2, WindowOutput, Zenon
    <3>4. ShownOutput("line") = Whole
      BY <2>6, Zenon DEF ShownOutput
    <3> QED BY <2>3, <2>4, <3>3, <3>4, Zenon DEF ShowsLikeTerminal, EchoModes
  <2>7. CASE HasEcho /\ EchoKept
    <3>1. PICK i : i = EchoEnd
      OBVIOUS
    <3>2. Terminator # <<>> /\ WindowLines # {} /\ First(WindowLines) = i
      BY <1>3, <2>7, <3>1, FirstLineIsEcho, Zenon DEF HasEcho
    <3>3. /\ i \in FirstKept..Len(sent) /\ BeginsAt(i + 1) - Lost \in 1..Len(raw)
          /\ echo_line_boundary(raw) = BeginsAt(i + 1) - Lost + 1
      BY <1>3, <3>2, EchoBoundary, Zenon
    <3>4. echo_line_boundary(raw) # None
      <4>1. echo_line_boundary(raw) \in Nat
        BY <1>3, <3>3, WindowOfStream
      <4> QED BY <4>1, NoneAssumption, Zenon
    <3>5. Output("line") = normalize_terminal_output(Rest(raw, BeginsAt(i + 1) - Lost + 1))
      BY <2>5, <3>3, <3>4, Zenon
    <3>6. Output("line") = ShownFromTo(i + 1, Len(sent))
      BY <1>3, <3>3, <3>5, OutputAfterEcho, Zenon
    <3>7. Lost <= BeginsAt(EchoEnd + 1)
      <4>1. PICK c : c = BeginsAt(i + 1)
        OBVIOUS
      <4>2. Lost + Len(Terminator) <= c
        BY <2>7, <3>1, <4>1 DEF EchoKept
      <4>3. FirstKept \in 1..Len(sent) + 1 /\ Len(sent) \in Nat
        BY <1>3, FirstKeptIs DEF Arrived
      <4>4. i + 1 \in 1..Len(sent) + 1
        BY <3>3, <4>3
      <4>5. c \in Nat /\ Lost \in Nat /\ Len(Terminator) \in Nat
        BY <1>3, <3>2, <4>1, <4>4, PieceAt, WindowOfStream, TerminatorIs
      <4> QED BY <3>1, <4>1, <4>2, <4>5
    <3>8. ShownOutput("line") = ShownFromTo(i + 1, Len(sent))
      BY <2>7, <3>1, <3>7, Zenon DEF ShownOutput
    <3> QED BY <2>3, <2>4, <3>6, <3>8, Zenon DEF ShowsLikeTerminal, EchoModes
  <2>8. CASE ~ EchoKept
    BY <2>3, <2>4, <2>8, Zenon DEF ShowsLikeTerminal, EchoModes
  <2> QED BY <2>6, <2>7, <2>8
<1> QED BY <1>1, <1>2, <1>3, PTL DEF Spec

\* A status, an exit code and a command's output are reported exactly when the
\* window holds one command between its own markers, and they are that
\* command's (parse_one_osc3008_command, analyze_transcript).
THEOREM ClaimsTrue == Spec => []ClaimsOneCommand
<1>1. Init => Arrived
  BY ArrivedInductive
<1>2. Arrived /\ [Next]_vars => Arrived'
  BY ArrivedInductive
<1>3. ASSUME Arrived PROVE ClaimsOneCommand
  <2> DEFINE Reply(m) == analyze_transcript(raw, m, "osc3008")
  <2>1. PICK report : report = parse_one_osc3008_command(raw)
    OBVIOUS
  <2>2. ASSUME NEW m
        PROVE  \E normalized, shown : Reply(m) = Analysis(normalized, shown, report)
    <3>1. "osc3008" = "osc3008"
      OBVIOUS
    <3> QED BY <2>1, <3>1, Zenon DEF analyze_transcript
  <2>3. CASE OneCommand = None
    <3>1. report = None
      BY <1>3, <2>1, <2>3, CommandFound, Zenon
    <3>2. \A normalized, shown :
            LET a == Analysis(normalized, shown, None) IN
            a.command_output_source # "osc3008" /\ a.semantic_status = None /\ a.exit_code = None
      <4>1. None # "osc3008"
        BY NoneAssumption DEF Sources
      <4>2. "normalized_transcript" # "osc3008"
        OBVIOUS
      <4> QED BY <4>1, <4>2 DEF Analysis
    <3>3. \A m : /\ Reply(m).command_output_source # "osc3008"
                 /\ Reply(m).semantic_status = None /\ Reply(m).exit_code = None
      <4> HIDE DEF Reply
      <4> QED BY <2>2, <3>1, <3>2, Zenon
    <3> QED BY <2>3, <3>3, Zenon DEF ClaimsOneCommand
  <2>4. CASE OneCommand # None
    <3>1. PICK i \in KeptMarkers : \E j \in EndsOf(i) :
            OneCommand = [from |-> i, to |-> j] /\ report = ReportOf(i, j)
      BY <1>3, <2>1, <2>4, CommandFound, Zenon
    <3>2. PICK j \in EndsOf(i) : OneCommand = [from |-> i, to |-> j] /\ report = ReportOf(i, j)
      BY <3>1
    <3>3. PICK output, status, code :
            /\ output = SubSeq(raw, Place(i + 1), Place(j) - 1)
            /\ status = LastOf(Body(j).fields, {"exit=success", "exit=failure"})
            /\ code = ExitCode(Body(j).fields)
      OBVIOUS
    <3>4. report = [output |-> output, status |-> status, exit_code |-> code]
      BY <3>2, <3>3, Zenon DEF ReportOf
    <3>5. output \in Seq(STRING) /\ normalize_terminal_output(output) = ShownFromTo(i + 1, j - 1)
      <4>1. FirstKept \in 1..Len(sent) + 1 /\ Len(sent) \in Nat
        BY <1>3, PlaceIs
      <4>2. i \in FirstKept..Len(sent) /\ j \in i + 1..Len(sent) /\ IsMarker(sent[j])
        BY <4>1 DEF KeptMarkers, EndsOf
      <4> QED BY <1>3, <3>3, <4>2, CommandOutput, Zenon
    <3>6. status \in Options /\ code \in Options
      <4>1. sent[j][3] \in DOMAIN Bodies
        BY DEF KeptMarkers, EndsOf, IsMarker
      <4>2. Body(j).fields \in Seq(Fields)
        BY <4>1, ConstantsAssumption DEF Body
      <4> QED BY <3>3, <4>2, ExitCodeTyped, Zenon
    <3>7. report # None
      <4>1. report \in Reports
        BY <3>4, <3>5, <3>6 DEF Reports
      <4> QED BY <4>1, NoneAssumption, Zenon
    <3>8. report.output = output /\ report.status = status /\ report.exit_code = code
      BY <3>4
    <3>9. \A normalized, shown :
            LET a == Analysis(normalized, shown, report) IN
            /\ a.command_output_source = "osc3008"
            /\ a.command_output = normalize_terminal_output(output)
            /\ a.semantic_status = status /\ a.exit_code = code
      BY <3>7, <3>8 DEF Analysis
    <3>10. \A m : /\ Reply(m).command_output_source = "osc3008"
                  /\ Reply(m).command_output = ShownFromTo(i + 1, j - 1)
                  /\ Reply(m).semantic_status = status /\ Reply(m).exit_code = code
      <4> HIDE DEF Reply
      <4> QED BY <2>2, <3>5, <3>9, Zenon
    <3>11. OneCommand.from = i /\ OneCommand.to = j
      BY <3>2
    <3> QED BY <2>4, <3>3, <3>10, <3>11, Zenon DEF ClaimsOneCommand
  <2> QED BY <2>3, <2>4
<1> QED BY <1>1, <1>2, <1>3, PTL DEF Spec
=============================================================================
