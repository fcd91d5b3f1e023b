--------------------------- MODULE LocalBackendProofs ---------------------------
(***************************************************************************)
(* Theorems about LocalBackend and its recording: what a reader makes of   *)
(* the file at any moment, an outage included, and what an execution that  *)
(* has ended has recorded, for any number of messages and workers, and any *)
(* size of queue and checkpoint.                                           *)
(***************************************************************************)
EXTENDS LocalBackend, WellFoundedInduction, TLAPS

(***************************************************************************)
(* Files as they should be.                                                *)
(***************************************************************************)

\* What is written, and what may be left of it.
Part == ({"chunk", "index", "summary"} \X Nat) \cup ({"head", "body"} \X Messages)
AnyPart == Part \cup ({"torn", "hole"} \X Parts)

\* From place i on w holds n records, of what was accepted after the first a.
Records(w, acc, i, a, n) ==
    \A j \in 1..n : /\ w[i + 2 * j - 1] = <<"head", acc[a + j]>>
                   /\ w[i + 2 * j] = <<"body", acc[a + j]>>

\* At place i is a complete chunk of n of these records,
Complete(w, acc, i, a, n) ==
    w[i] = Header(n) /\ Records(w, acc, i, a, n) /\ w[i + 2 * n + 1] = Index(n)

\* or the end of the file, or an open chunk, such a chunk with its index, or the
\* summary.
Ending(w, acc, i, a, n, kind) ==
    /\ kind \in {"end", "open", "indexed", "summary"}
    /\ Len(w) = i - 1 + 2 * n
                + (IF kind = "end" THEN 0 ELSE IF kind = "indexed" THEN 2 ELSE 1)
    /\ kind \in {"end", "summary"} => n = 0
    /\ kind \in {"open", "indexed"} => w[i] = Header(0) /\ Records(w, acc, i, a, n)
    /\ kind = "indexed" => w[i + 2 * n + 1] = Index(n)
    /\ kind = "summary" => w[i] = Summary(a)

\* A file of K complete chunks; after k of them s[k] is the place and b[k] the
\* number of messages so far.
Link(w, acc, s, b, k) ==
    /\ s[k] = s[k - 1] + 2 * (b[k] - b[k - 1]) + 2
    /\ Complete(w, acc, s[k - 1], b[k - 1], b[k] - b[k - 1])
Grows(s, b, K) ==
    /\ \A k \in 0..K : s[k] \in Nat /\ b[k] \in Nat
    /\ \A j, k \in 0..K : j < k => s[j] < s[k] /\ b[j] < b[k]
    /\ s[0] = 1 /\ b[0] = 0
File(w, acc, s, b, K, n, kind) ==
    /\ acc \in Seq(Messages) /\ w \in Seq(Part) /\ K \in Nat /\ n \in Nat
    /\ Grows(s, b, K)
    /\ \A k \in 1..K : Link(w, acc, s, b, k)
    /\ Ending(w, acc, s[K], b[K], n, kind) /\ b[K] + n <= Len(acc)

\* f is what is left of w: some beginning, in which parts may be damaged.
Damaged(f, w) ==
    /\ f \in Seq(AnyPart) /\ Len(f) <= Len(w)
    /\ \A i \in 1..Len(f) : f[i] = w[i] \/ f[i][1] \in {"torn", "hole"}
Intact(f, w, n) == n <= Len(f) /\ \A i \in 1..n : f[i] = w[i]
Same(f, w, i, j) == j <= Len(f) /\ \A p \in i..j : f[p] = w[p]

\* The messages that follow the first a, up to the m-th.
Piece(acc, a, m) == [i \in 1..m - a |-> acc[a + i]]

-----------------------------------------------------------------------------
(***************************************************************************)
(* Reading.                                                                *)
(***************************************************************************)

\* A bounded set of numbers has a greatest one.
LEMMA Greatest ==
    ASSUME NEW n \in Nat, NEW S \in SUBSET (0..n), S # {}
    PROVE  \E x \in S : \A y \in S : y <= x
  <1> DEFINE R == {ss \in Nat \X Nat : ss[1] < ss[2]}
             T == {t \in Nat : n - t \in S}
  <1>1. T \subseteq Nat /\ T # {}
    <2>1. PICK x \in S : TRUE
      OBVIOUS
    <2>2. n - x \in Nat /\ n - (n - x) = x
      OBVIOUS
    <2>. QED BY <2>2
  <1>2. IsWellFoundedOn(R, Nat)
    BY NatLessThanWellFounded, Zenon DEF OpToRel
  <1>3. \A x, y \in Nat : x < y => <<x, y>> \in R
    OBVIOUS
  <1>4. \A x \in S : n - x \in T
    <2>1. \A x \in S : n - x \in Nat /\ n - (n - x) = x
      OBVIOUS
    <2>. QED BY <2>1
  <1>5. \A t \in T : t \in Nat /\ n - t \in S
    OBVIOUS
  <1> HIDE DEF R, T
  <1>6. PICK m \in T : \A y \in T : ~(<<y, m>> \in R)
    BY <1>1, <1>2, WFMin, Zenon
  <1>7. m \in Nat /\ n - m \in S
    BY <1>5
  <1>8. ASSUME NEW y \in S PROVE y <= n - m
    <2>1. m \in Nat /\ n - y \in Nat /\ n - y \in T
      BY <1>1, <1>4
    <2>2. ~(n - y < m)
      BY <1>3, <1>6, <2>1, Zenon
    <2>. QED BY <1>7, <2>2
  <1>. QED BY <1>7, <1>8

\* A chunk that reads as valid ends within the file.
LEMMA ValidEnds ==
    ASSUME NEW f \in Seq(AnyPart), NEW i \in 1..Len(f),
           f[i][1] = "chunk", ChunkValid(f, i)
    PROVE  f[i][2] \in Nat /\ i + 2 * f[i][2] + 2 \in i + 1..Len(f) + 1
  <1>1. f[i] \in AnyPart
    OBVIOUS
  <1>2. f[i][2] \in Nat
    BY <1>1 DEF AnyPart, Part
  <1>. QED BY <1>2 DEF ChunkValid

\* What is read from a place on depends on what is read from later ones only.
LEMMA ReadsLater ==
    ASSUME NEW f \in Seq(AnyPart), NEW i \in 1..Len(f) + 1, NEW g, NEW h,
           \A j \in i + 1..Len(f) + 1 : g[j] = h[j]
    PROVE  ReadFrom(f, g, i) = ReadFrom(f, h, i)
  <1>1. CASE i \in 1..Len(f) /\ f[i][1] = "chunk" /\ ChunkValid(f, i)
    <2>1. g[i + 2 * f[i][2] + 2] = h[i + 2 * f[i][2] + 2]
      BY <1>1, ValidEnds
    <2>. QED BY <2>1, Zenon DEF ReadFrom
  <1>2. CASE ~(f[i][1] = "chunk" /\ ChunkValid(f, i))
    BY <1>2, Zenon DEF ReadFrom
  <1>3. CASE i = Len(f) + 1
    <2>1. i > Len(f)
      BY <1>3
    <2>. QED BY <2>1, Zenon DEF ReadFrom
  <1>. QED BY <1>1, <1>2, <1>3

\* So the table that Scan fills exists.
LEMMA TableExists ==
    ASSUME NEW f \in Seq(AnyPart)
    PROVE  \E h : h = [i \in 1..Len(f) + 1 |-> ReadFrom(f, h, i)]
  <1> DEFINE N == Len(f) + 1
             Filled(h, n) == \A i \in n..N : h[i] = ReadFrom(f, h, i)
             From(n) == \E h : h = [i \in 1..N |-> h[i]] /\ Filled(h, n)
             Bad == {n \in 0..N : n > 0 /\ ~From(n)}
  <1>1. N \in Nat /\ N > 0
    OBVIOUS
  <1>2. From(N + 1)
    <2> DEFINE h == [i \in 1..N |-> 0]
    <2>1. h = [i \in 1..N |-> h[i]] /\ Filled(h, N + 1)
      BY <1>1
    <2> HIDE DEF h, Filled
    <2>. QED BY <2>1
  <1>3. ASSUME NEW n \in 1..N, From(n + 1) PROVE From(n)
    <2>1. PICK h : h = [i \in 1..N |-> h[i]] /\ Filled(h, n + 1)
      BY <1>3
    <2> DEFINE v == ReadFrom(f, h, n)
               g == [i \in 1..N |-> IF i = n THEN v ELSE h[i]]
    <2>2. \A i \in n + 1..N : g[i] = h[i]
      OBVIOUS
    <2>3. g[n] = v
      OBVIOUS
    <2>4. g = [i \in 1..N |-> g[i]]
      OBVIOUS
    <2> HIDE DEF g
    <2>5. ASSUME NEW i \in n..N PROVE g[i] = ReadFrom(f, g, i)
      <3>1. \A j \in i + 1..N : g[j] = h[j]
        BY <2>2
      <3>2. i \in 1..Len(f) + 1
        OBVIOUS
      <3>3. ReadFrom(f, g, i) = ReadFrom(f, h, i)
        BY <3>1, <3>2, ReadsLater
      <3>4. CASE i = n
        BY <3>3, <3>4, <2>3
      <3>5. CASE i # n
        <4>1. i \in n + 1..N
          BY <3>5
        <4>2. h[i] = ReadFrom(f, h, i)
          BY <4>1, <2>1
        <4>. QED BY <4>1, <4>2, <3>3, <2>2
      <3>. QED BY <3>4, <3>5
    <2>. QED BY <2>4, <2>5
  <1> HIDE DEF From
  <1>4. Bad = {}
    <2> SUFFICES ASSUME Bad # {} PROVE FALSE
      OBVIOUS
    <2>1. PICK n \in Bad : \A m \in Bad : m <= n
      BY <1>1, Greatest, Bad \in SUBSET (0..N)
    <2>2. CASE n = N
      BY <2>1, <2>2, <1>2, <1>3
    <2>3. CASE n < N
      <3>1. n \in 1..N /\ n + 1 \in 0..N /\ n + 1 > 0 /\ ~From(n)
        BY <2>1, <2>3
      <3>2. n + 1 \notin Bad
        BY <2>1, <3>1
      <3>3. From(n + 1)
        BY <3>1, <3>2
      <3>. QED BY <3>1, <3>3, <1>3
    <2>. QED BY <2>1, <2>2, <2>3
  <1>5. From(1)
    BY <1>1, <1>4
  <1>6. PICK h : h = [i \in 1..N |-> h[i]] /\ Filled(h, 1)
    BY <1>5 DEF From
  <1>7. \A i \in 1..N : h[i] = ReadFrom(f, h, i)
    BY <1>6
  <1>8. [i \in 1..N |-> h[i]] = [i \in 1..N |-> ReadFrom(f, h, i)]
    BY <1>7
  <1>. QED BY <1>6, <1>8

\* Scan reads from the first place on, and compares the summary.
Table(f, h) == h = [i \in 1..Len(f) + 1 |-> ReadFrom(f, h, i)]
LEMMA ScanReads ==
    ASSUME NEW f \in Seq(AnyPart)
    PROVE  \E h : /\ Table(f, h)
                  /\ Scan(f) = IF h[1].ok /\ h[1].final /\ Last(f) # Summary(Len(h[1].messages))
                               THEN Read(FALSE, FALSE, <<>>) ELSE h[1]
  <1> DEFINE h == CHOOSE h : h = [i \in 1..Len(f) + 1 |-> ReadFrom(f, h, i)]
  <1>1. h = [i \in 1..Len(f) + 1 |-> ReadFrom(f, h, i)]
    BY TableExists
  <1>2. Scan(f) = IF h[1].ok /\ h[1].final /\ Last(f) # Summary(Len(h[1].messages))
                  THEN Read(FALSE, FALSE, <<>>) ELSE h[1]
    BY DEF Scan
  <1> HIDE DEF h
  <1>. QED BY <1>1, <1>2, Zenon DEF Table


\* A number is even or odd.
LEMMA Halves == \A x \in Nat : \E j \in Nat : x = 2 * j \/ x = 2 * j + 1
  <1> TAKE x \in Nat
  <1>1. x \div 2 \in Nat /\ (x = 2 * (x \div 2) \/ x = 2 * (x \div 2) + 1)
    OBVIOUS
  <1>. QED BY <1>1

\* Pieces of what was accepted.
LEMMA PieceType ==
    ASSUME NEW acc \in Seq(Messages), NEW a \in Nat, NEW m \in Nat, a <= m, m <= Len(acc)
    PROVE  /\ Piece(acc, a, m) \in Seq(Messages) /\ Len(Piece(acc, a, m)) = m - a
           /\ \A i \in 1..m - a : Piece(acc, a, m)[i] = acc[a + i]
  <1>1. \A i \in 1..m - a : acc[a + i] \in Messages
    OBVIOUS
  <1>2. m - a \in Nat
    OBVIOUS
  <1>. QED BY <1>1, <1>2 DEF Piece
LEMMA PiecesJoin ==
    ASSUME NEW acc \in Seq(Messages), NEW a \in Nat, NEW c \in Nat, NEW m \in Nat,
           a <= c, c <= m, m <= Len(acc)
    PROVE  Piece(acc, a, c) \o Piece(acc, c, m) = Piece(acc, a, m)
  <1> DEFINE s == Piece(acc, a, c)
             t == Piece(acc, c, m)
             u == Piece(acc, a, m)
  <1>0. a <= m /\ c <= Len(acc) /\ Len(acc) \in Nat
    OBVIOUS
  <1>a. s \in Seq(Messages) /\ Len(s) = c - a /\ \A i \in 1..c - a : s[i] = acc[a + i]
    BY <1>0, PieceType, Zenon
  <1>b. t \in Seq(Messages) /\ Len(t) = m - c /\ \A i \in 1..m - c : t[i] = acc[c + i]
    BY <1>0, PieceType, Zenon
  <1>c. u \in Seq(Messages) /\ Len(u) = m - a /\ \A i \in 1..m - a : u[i] = acc[a + i]
    BY <1>0, PieceType, Zenon
  <1> HIDE DEF s, t, u
  <1>1. c - a \in Nat /\ m - c \in Nat /\ (c - a) + (m - c) = m - a
    OBVIOUS
  <1>2. s \o t \in Seq(Messages) /\ Len(s \o t) = m - a
    <2>1. s \in Seq(Messages) /\ t \in Seq(Messages) /\ Len(s) + Len(t) = m - a
      BY <1>1, <1>a, <1>b
    <2>. QED BY <2>1
  <1>3. ASSUME NEW i \in 1..m - a PROVE (s \o t)[i] = u[i]
    <2>1. CASE i <= c - a
      <3>0. i \in 1..c - a
        BY <2>1, <1>1
      <3>1. (s \o t)[i] = s[i]
        BY <3>0, <1>1, <1>a, <1>b
      <3>2. s[i] = acc[a + i]
        BY <3>0, <1>a
      <3>3. u[i] = acc[a + i]
        BY <1>c
      <3>. QED BY <3>1, <3>2, <3>3
    <2>2. CASE i > c - a
      <3>1. (s \o t)[i] = t[i - (c - a)]
        BY <2>2, <1>1, <1>a, <1>b
      <3>2. i - (c - a) \in 1..m - c /\ c + (i - (c - a)) = a + i
        BY <2>2
      <3>. QED BY <3>1, <3>2, <1>b, <1>c
    <2>3. i <= c - a \/ i > c - a
      BY <1>1
    <2>. QED BY <2>1, <2>2, <2>3, Zenon
  <1>4. Len(u) = Len(s \o t)
    BY <1>c, <1>2, Zenon
  <1>5. ASSUME NEW x \in Seq(Messages), NEW y \in Seq(Messages), Len(x) = Len(y),
               \A i \in 1..Len(x) : x[i] = y[i]
        PROVE  x = y
    BY <1>5
  <1>6. \A i \in 1..Len(s \o t) : (s \o t)[i] = u[i]
    BY <1>2, <1>3, Zenon
  <1>7. s \o t = u
    BY <1>2, <1>c, <1>4, <1>5, <1>6, Zenon
  <1>. QED BY <1>7 DEF s, t, u
LEMMA EmptyPiece ==
    ASSUME NEW acc, NEW a \in Nat
    PROVE  Piece(acc, a, a) = <<>>
  BY DEF Piece

\* The messages of the chunk at place i, and what is read from there on.
Here(f, i, n) == [j \in 1..n |-> f[i + 2 * j - 1][2]]
Holds(f, i, n, messages) == Here(f, i, n) = messages
ReadsAs(h, i, ok, final, messages) == h[i] = Read(ok, final, messages)

\* What is read of a chunk that is intact.
LEMMA IntactReads ==
    ASSUME NEW acc \in Seq(Messages), NEW w \in Seq(Part), NEW f \in Seq(AnyPart),
           NEW i \in Nat, NEW a \in Nat, NEW n \in Nat, i > 0, n > 0,
           Complete(w, acc, i, a, n), Same(f, w, i, i + 2 * n + 1)
    PROVE  /\ i \in 1..Len(f) /\ f[i] = Header(n) /\ ChunkValid(f, i)
           /\ Holds(f, i, n, Piece(acc, a, a + n))
  <1>1. i + 2 * n + 1 <= Len(f) /\ i \in 1..Len(f)
    BY DEF Same
  <1>2. f[i] = Header(n) /\ f[i + 2 * n + 1] = Index(n)
    <2>1. i \in i..i + 2 * n + 1 /\ i + 2 * n + 1 \in i..i + 2 * n + 1
      OBVIOUS
    <2>2. f[i] = w[i] /\ f[i + 2 * n + 1] = w[i + 2 * n + 1]
      BY <2>1, Zenon DEF Same
    <2>. QED BY <2>2, Zenon DEF Complete
  <1>3. f[i][2] = n
    BY <1>2 DEF Header
  <1>4. ASSUME NEW j \in 1..n
        PROVE  f[i + 2 * j - 1] = <<"head", acc[a + j]>> /\ f[i + 2 * j] = <<"body", acc[a + j]>>
    <2>1. i + 2 * j - 1 \in i..i + 2 * n + 1 /\ i + 2 * j \in i..i + 2 * n + 1
      OBVIOUS
    <2>2. w[i + 2 * j - 1] = <<"head", acc[a + j]>> /\ w[i + 2 * j] = <<"body", acc[a + j]>>
      BY DEF Complete, Records
    <2>. QED BY <2>1, <2>2 DEF Same
  <1>5. ASSUME NEW j \in 0..n - 1 PROVE IsRecord(f, i + 1 + 2 * j)
    <2>1. /\ j + 1 \in 1..n /\ i + 2 * (j + 1) - 1 = i + 1 + 2 * j
          /\ i + 2 * (j + 1) = i + 1 + 2 * j + 1 /\ i + 1 + 2 * j + 1 <= Len(f)
      BY <1>1
    <2>2. /\ f[i + 1 + 2 * j] = <<"head", acc[a + (j + 1)]>>
          /\ f[i + 1 + 2 * j + 1] = <<"body", acc[a + (j + 1)]>>
      BY <2>1, <1>4
    <2>. QED BY <2>1, <2>2 DEF IsRecord
  <1>6. ChunkValid(f, i)
    BY <1>1, <1>2, <1>3, <1>5 DEF ChunkValid
  <1>7. Here(f, i, n) = Piece(acc, a, a + n)
    <2>1. a + n - a = n
      OBVIOUS
    <2>2. \A j \in 1..n : f[i + 2 * j - 1][2] = acc[a + j]
      BY <1>4
    <2>. QED BY <2>1, <2>2 DEF Piece, Here
  <1>. QED BY <1>1, <1>2, <1>6, <1>7 DEF Holds

\* A chunk that reads as valid is intact: what is damaged has no valid form.
LEMMA ValidIsIntact ==
    ASSUME NEW acc \in Seq(Messages), NEW w \in Seq(Part), NEW f \in Seq(AnyPart),
           NEW i \in Nat, NEW a \in Nat, NEW n \in Nat, i > 0, n > 0,
           Complete(w, acc, i, a, n), Damaged(f, w), f[i] = w[i], ChunkValid(f, i)
    PROVE  Same(f, w, i, i + 2 * n + 1)
  <1>1. f[i][2] = n
    BY DEF Complete, Header
  <1>2. i + 2 * n + 1 <= Len(f) /\ f[i + 2 * n + 1] = Index(n)
    BY <1>1 DEF ChunkValid
  <1>3. ASSUME NEW p \in 1..Len(f), f[p][1] \in {"head", "body", "index"}
        PROVE  f[p] = w[p]
    BY <1>3 DEF Damaged
  <1>4. ASSUME NEW j \in 0..n - 1
        PROVE  f[i + 1 + 2 * j] = w[i + 1 + 2 * j] /\ f[i + 2 + 2 * j] = w[i + 2 + 2 * j]
    <2>1. IsRecord(f, i + 1 + 2 * j)
      BY <1>1 DEF ChunkValid
    <2>2. i + 1 + 2 * j \in 1..Len(f) /\ i + 2 + 2 * j \in 1..Len(f)
      BY <1>2
    <2>3. i + 1 + 2 * j + 1 = i + 2 + 2 * j
      OBVIOUS
    <2>4. f[i + 1 + 2 * j][1] = "head" /\ f[i + 2 + 2 * j][1] = "body"
      BY <2>1, <2>3 DEF IsRecord
    <2>. QED BY <2>2, <2>4, <1>3
  <1>5. f[i + 2 * n + 1] = w[i + 2 * n + 1]
    BY <1>2 DEF Complete
  <1>6. ASSUME NEW p \in i..i + 2 * n + 1 PROVE f[p] = w[p]
    <2>1. CASE p = i
      BY <2>1
    <2>2. CASE p = i + 2 * n + 1
      BY <2>2, <1>5
    <2>3. CASE p > i /\ p < i + 2 * n + 1
      <3>1. p - i - 1 \in Nat
        BY <2>3
      <3>2. PICK j \in Nat : p - i - 1 = 2 * j \/ p - i - 1 = 2 * j + 1
        BY <3>1, Halves
      <3>3. j \in 0..n - 1 /\ (p = i + 1 + 2 * j \/ p = i + 2 + 2 * j)
        BY <3>2, <2>3
      <3>. QED BY <3>3, <1>4
    <2>4. p = i \/ p = i + 2 * n + 1 \/ (p > i /\ p < i + 2 * n + 1)
      OBVIOUS
    <2>. QED BY <2>1, <2>2, <2>3, <2>4, Zenon
  <1>. QED BY <1>2, <1>6 DEF Same

LEMMA TableAt ==
    ASSUME NEW f \in Seq(AnyPart), NEW h, Table(f, h), NEW i \in 1..Len(f) + 1
    PROVE  h[i] = ReadFrom(f, h, i)
  BY DEF Table

\* The places and numbers of a file.
LEMMA PlacesGrow ==
    ASSUME NEW s, NEW b, NEW K \in Nat, Grows(s, b, K), NEW k \in 0..K
    PROVE  /\ s[k] \in Nat /\ b[k] \in Nat /\ s[k] > 0
           /\ k > 0 => /\ s[k - 1] \in Nat /\ b[k - 1] \in Nat
                       /\ b[k] - b[k - 1] \in Nat /\ b[k] - b[k - 1] > 0
                       /\ s[k - 1] < s[k]
           /\ b[k] <= b[K] /\ s[k] <= s[K]
  <1>1. s[k] \in Nat /\ b[k] \in Nat /\ s[K] \in Nat /\ b[K] \in Nat
    BY DEF Grows
  <1>2. s[k] > 0
    <2>1. CASE k = 0
      BY <2>1 DEF Grows
    <2>2. CASE k > 0
      <3>1. 0 \in 0..K /\ 0 < k
        BY <2>2
      <3>2. s[0] < s[k] /\ s[0] = 1
        BY <3>1, Zenon DEF Grows
      <3>. QED BY <3>2, <1>1
    <2>. QED BY <2>1, <2>2
  <1>3. ASSUME k > 0
        PROVE  /\ s[k - 1] \in Nat /\ b[k - 1] \in Nat
               /\ b[k] - b[k - 1] \in Nat /\ b[k] - b[k - 1] > 0
               /\ s[k - 1] < s[k]
    <2>1. k - 1 \in 0..K /\ k - 1 < k
      BY <1>3
    <2>2. s[k - 1] \in Nat /\ b[k - 1] \in Nat /\ s[k - 1] < s[k] /\ b[k - 1] < b[k]
      BY <2>1 DEF Grows
    <2>. QED BY <2>2, <1>1
  <1>4. b[k] <= b[K] /\ s[k] <= s[K]
    <2>1. CASE k = K
      BY <2>1, <1>1
    <2>2. CASE k < K
      <3>1. s[k] < s[K] /\ b[k] < b[K]
        BY <2>2 DEF Grows
      <3>. QED BY <3>1, <1>1
    <2>. QED BY <2>1, <2>2
  <1>. QED BY <1>1, <1>2, <1>3, <1>4, Zenon

\* One intact chunk before a place from which all is read up to the m-th message.
LEMMA ChunkReads ==
    ASSUME NEW acc, NEW w, NEW s, NEW b, NEW K, NEW n, NEW kind,
           File(w, acc, s, b, K, n, kind), NEW f \in Seq(AnyPart), NEW h, Table(f, h),
           NEW k \in 1..K, Same(f, w, s[k - 1], s[k] - 1),
           NEW o, NEW e, NEW m \in Nat, b[k] <= m, m <= Len(acc),
           ReadsAs(h, s[k], o, e, Piece(acc, b[k], m))
    PROVE  ReadsAs(h, s[k - 1], o, e, Piece(acc, b[k - 1], m))
  <1>1. acc \in Seq(Messages) /\ w \in Seq(Part) /\ K \in Nat /\ Grows(s, b, K)
    BY Zenon DEF File
  <1>2. k \in 0..K /\ k > 0
    BY <1>1
  <1>3. /\ s[k - 1] \in Nat /\ b[k - 1] \in Nat /\ s[k] \in Nat /\ b[k] \in Nat
        /\ b[k] - b[k - 1] \in Nat /\ b[k] - b[k - 1] > 0
    BY <1>1, <1>2, PlacesGrow, Zenon
  <1>4. s[k - 1] > 0
    <2>1. k - 1 \in 0..K
      BY <1>1
    <2>. QED BY <2>1, <1>1, PlacesGrow
  <1>5. PICK d \in Nat : d = b[k] - b[k - 1] /\ d > 0
    BY <1>3, Zenon
  <1>6. s[k] = s[k - 1] + 2 * d + 2 /\ Complete(w, acc, s[k - 1], b[k - 1], d)
    BY <1>5, Zenon DEF File, Link
  <1>7. s[k] - 1 = s[k - 1] + 2 * d + 1
    BY <1>6, <1>3
  <1>8. Same(f, w, s[k - 1], s[k - 1] + 2 * d + 1)
    BY <1>7, Zenon
  <1>9. PICK i \in Nat : i = s[k - 1]
    BY <1>3, Zenon
  <1>10. PICK a \in Nat : a = b[k - 1]
    BY <1>3, Zenon
  <1>11. /\ i \in 1..Len(f) /\ f[i] = Header(d) /\ ChunkValid(f, i)
         /\ Here(f, i, d) = Piece(acc, a, a + d)
    <2>1. i > 0 /\ Complete(w, acc, i, a, d) /\ Same(f, w, i, i + 2 * d + 1)
      BY <1>4, <1>6, <1>8, <1>9, <1>10
    <2>2. d \in Nat /\ d > 0 /\ i \in Nat /\ a \in Nat
      BY <1>5, <1>9, <1>10
    <2>3. acc \in Seq(Messages) /\ w \in Seq(Part)
      BY <1>1
    <2>4. i \in 1..Len(f) /\ f[i] = Header(d) /\ ChunkValid(f, i)
      BY <2>1, <2>2, <2>3, IntactReads, ZenonT(60)
    <2>5. Holds(f, i, d, Piece(acc, a, a + d))
      BY <2>1, <2>2, <2>3, IntactReads, Zenon
    <2>. QED BY <2>4, <2>5, Zenon DEF Holds
  <1>12. f[i] # Header(0) /\ f[i][1] = "chunk" /\ f[i][2] = d
    BY <1>5, <1>11 DEF Header
  <1>13. i \in 1..Len(f) + 1 /\ ~(i > Len(f))
    BY <1>11
  <1>14. h[i] = ReadFrom(f, h, i)
    BY <1>13, TableAt
  <1>15. h[i] = Read(h[i + 2 * d + 2].ok, h[i + 2 * d + 2].final,
                     Here(f, i, d) \o h[i + 2 * d + 2].messages)
    BY <1>11, <1>12, <1>13, <1>14, Zenon DEF ReadFrom, Here
  <1>16. h[i + 2 * d + 2] = Read(o, e, Piece(acc, a + d, m))
    <2>1. i + 2 * d + 2 = s[k]
      BY <1>6, <1>9, Zenon
    <2>2. a + d = b[k]
      BY <1>3, <1>5, <1>10
    <2>. QED BY <2>1, <2>2, Zenon DEF ReadsAs
  <1>17. h[i] = Read(o, e, Piece(acc, a, a + d) \o Piece(acc, a + d, m))
    BY <1>11, <1>15, <1>16 DEF Read
  <1>18. Piece(acc, a, a + d) \o Piece(acc, a + d, m) = Piece(acc, a, m)
    <2>1. a + d \in Nat /\ a <= a + d /\ a + d <= m
      BY <1>3, <1>5, <1>10
    <2>. QED BY <2>1, <1>1, PiecesJoin
  <1>. QED BY <1>9, <1>10, <1>17, <1>18, Zenon DEF ReadsAs

\* What is intact up to a place is intact in between.
LEMMA IntactBetween ==
    ASSUME NEW f, NEW w, NEW x \in Nat, Intact(f, w, x), NEW i \in Nat, i > 0,
           NEW j \in Int, j <= x, Len(f) \in Nat
    PROVE  Same(f, w, i, j)
  <1>1. j <= Len(f)
    BY DEF Intact
  <1>2. ASSUME NEW p \in i..j PROVE f[p] = w[p]
    <2>1. p \in 1..x
      OBVIOUS
    <2>. QED BY <2>1 DEF Intact
  <1>. QED BY <1>1, <1>2, Zenon DEF Same

\* All of them.
LEMMA ChainReads ==
    ASSUME NEW acc, NEW w, NEW s, NEW b, NEW K, NEW n, NEW kind,
           File(w, acc, s, b, K, n, kind), NEW f \in Seq(AnyPart), NEW h, Table(f, h),
           NEW k0 \in 0..K, Intact(f, w, s[k0] - 1),
           NEW o, NEW e, NEW m \in Nat, b[k0] <= m, m <= Len(acc),
           ReadsAs(h, s[k0], o, e, Piece(acc, b[k0], m))
    PROVE  ReadsAs(h, 1, o, e, Piece(acc, 0, m))
  <1> DEFINE Bad == {k \in 0..k0 : ~ReadsAs(h, s[k], o, e, Piece(acc, b[k], m))}
  <1>1. K \in Nat /\ Grows(s, b, K) /\ k0 \in Nat /\ k0 <= K
    BY DEF File
  <1>2. s[0] = 1 /\ b[0] = 0
    BY <1>1, Zenon DEF Grows
  <1>3. Bad = {}
    <2> SUFFICES ASSUME Bad # {} PROVE FALSE
      OBVIOUS
    <2>0. Bad \in SUBSET (0..k0)
      OBVIOUS
    <2>1. PICK k \in Bad : \A j \in Bad : j <= k
      BY <1>1, <2>0, Greatest
    <2>2. k \in 0..k0 /\ k # k0 /\ ~ReadsAs(h, s[k], o, e, Piece(acc, b[k], m))
      BY <2>1
    <2>3. k + 1 \in 1..K /\ k + 1 \in 0..k0 /\ k + 1 - 1 = k /\ ~(k + 1 <= k) /\ k + 1 \in 0..K
      BY <2>2, <1>1
    <2>4. ReadsAs(h, s[k + 1], o, e, Piece(acc, b[k + 1], m))
      BY <2>1, <2>3
    <2>5. /\ s[k] \in Nat /\ s[k] > 0 /\ s[k + 1] \in Nat /\ s[k0] \in Nat /\ s[k0] > 0
          /\ b[k + 1] \in Nat /\ b[k0] \in Nat
      <3>1. k \in 0..K
        BY <2>2, <1>1
      <3>. QED BY <2>3, <3>1, <1>1, PlacesGrow
    <2>6. s[k + 1] <= s[k0] /\ b[k + 1] <= b[k0]
      <3>1. CASE k + 1 = k0
        BY <3>1, <2>5
      <3>2. CASE k + 1 < k0
        <4>1. s[k + 1] < s[k0] /\ b[k + 1] < b[k0]
          BY <3>2, <2>3, <1>1, Zenon DEF Grows
        <4>. QED BY <4>1, <2>5
      <3>3. k + 1 = k0 \/ k + 1 < k0
        BY <2>3, <1>1
      <3>. QED BY <3>1, <3>2, <3>3
    <2>7. Same(f, w, s[k], s[k + 1] - 1)
      <3>1. s[k0] - 1 \in Nat /\ s[k + 1] - 1 \in Int /\ s[k + 1] - 1 <= s[k0] - 1
        BY <2>5, <2>6, SMTT(30)
      <3>2. Len(f) \in Nat
        OBVIOUS
      <3>. QED BY <3>1, <3>2, <2>5, IntactBetween
    <2>8. b[k + 1] <= m
      BY <2>5, <2>6
    <2>9. Same(f, w, s[k + 1 - 1], s[k + 1] - 1)
      BY <2>3, <2>7
    <2>10. PICK j \in 1..K : j = k + 1
      BY <2>3, Zenon
    <2>11. Same(f, w, s[j - 1], s[j] - 1) /\ b[j] <= m /\ ReadsAs(h, s[j], o, e, Piece(acc, b[j], m))
      BY <2>3, <2>4, <2>8, <2>9, <2>10
    <2>12. ReadsAs(h, s[j - 1], o, e, Piece(acc, b[j - 1], m))
      BY <2>10, <2>11, ChunkReads, Zenon
    <2>. QED BY <2>2, <2>3, <2>10, <2>12
  <1>4. 0 \in 0..k0
    BY <1>1
  <1>. QED BY <1>2, <1>3, <1>4

LEMMA PieceIs ==
    ASSUME NEW acc, NEW a \in Nat, NEW x \in Nat, NEW g \in [1..x -> Messages],
           \A j \in 1..x : g[j] = acc[a + j]
    PROVE  g = Piece(acc, a, a + x)
  <1>1. a + x - a = x
    OBVIOUS
  <1>. QED BY <1>1 DEF Piece

TailIs(f, i, messages) == RecoverTail(f, i + 1) = messages
\* What _recover_tail finds in an open chunk: some of its records, from the first
\* on.
LEMMA TailReads ==
    ASSUME NEW acc \in Seq(Messages), NEW w \in Seq(Part), NEW f \in Seq(AnyPart),
           NEW i \in Nat, NEW a \in Nat, NEW n \in Nat, i > 0, a + n <= Len(acc),
           Records(w, acc, i, a, n), Len(w) <= i + 2 * n + 1, Damaged(f, w)
    PROVE  \E r \in 0..n : TailIs(f, i, Piece(acc, a, a + r))
  <1> DEFINE ends == {q \in 0..Len(f) : \A k \in 0..q - 1 : IsRecord(f, i + 1 + 2 * k)}
             r == CHOOSE q \in ends : \A k \in ends : k <= q
  <1>1. Len(f) \in Nat /\ Len(w) \in Nat /\ Len(f) <= Len(w)
    BY DEF Damaged
  <1>2. r \in ends /\ \A k \in ends : k <= r
    <2>1. 0 \in ends
      BY <1>1
    <2>2. ends \in SUBSET (0..Len(f)) /\ ends # {}
      BY <2>1
    <2>3. \E q \in ends : \A k \in ends : k <= q
      BY <1>1, <2>2, Greatest
    <2> HIDE DEF ends
    <2>. QED BY <2>3, Zenon
  <1>3. RecoverTail(f, i + 1) = [k \in 1..r |-> f[i + 1 + 2 * k - 2][2]]
    BY DEF RecoverTail
  <1> HIDE DEF r
  <1>4. r \in Nat /\ \A k \in 0..r - 1 : IsRecord(f, i + 1 + 2 * k)
    BY <1>2
  <1> HIDE DEF ends
  <1>5. r <= n
    <2> SUFFICES ASSUME r > n PROVE FALSE
      BY <1>4
    <2>1. n \in 0..r - 1
      BY <1>4
    <2>2. IsRecord(f, i + 1 + 2 * n)
      BY <2>1, <1>4, Zenon
    <2>3. i + 1 + 2 * n + 1 <= Len(f)
      BY <2>2, Zenon DEF IsRecord
    <2>. QED BY <2>3, <1>1
  <1>6. ASSUME NEW j \in 1..r PROVE f[i + 1 + 2 * j - 2][2] = acc[a + j]
    <2>1. j - 1 \in 0..r - 1 /\ j \in 1..n /\ r \in Nat
      BY <1>4, <1>5
    <2>2. PICK p \in Nat : p = i + 2 * j - 1
      OBVIOUS
    <2>3. i + 1 + 2 * (j - 1) = p /\ i + 1 + 2 * j - 2 = p /\ p > 0
      BY <2>2
    <2>4. p + 1 <= Len(f) /\ f[p][1] = "head"
      BY <2>1, <2>3, <1>4 DEF IsRecord
    <2>5. p \in 1..Len(f)
      BY <2>3, <2>4, <1>1
    <2>6. f[p] = w[p]
      BY <2>4, <2>5 DEF Damaged
    <2>7. w[p] = <<"head", acc[a + j]>>
      BY <2>1, <2>2 DEF Records
    <2>8. f[p][2] = acc[a + j]
      BY <2>6, <2>7
    <2>. QED BY <2>3, <2>8, Zenon
  <1>7. \A j \in 1..r : f[i + 1 + 2 * j - 2][2] = acc[a + j]
    BY <1>6
  <1>8. RecoverTail(f, i + 1) = Piece(acc, a, a + r)
    <2> DEFINE g == RecoverTail(f, i + 1)
    <2>1. g \in [1..r -> Messages]
      <3>1. \A j \in 1..r : acc[a + j] \in Messages
        <4>1. \A j \in 1..r : a + j \in 1..Len(acc)
          BY <1>4, <1>5
        <4>. QED BY <4>1
      <3>2. \A j \in 1..r : f[i + 1 + 2 * j - 2][2] \in Messages
        BY <1>7, <3>1, Zenon
      <3>. QED BY <1>3, <3>2, Zenon
    <2>2. \A j \in 1..r : g[j] = acc[a + j]
      BY <1>3, <1>7
    <2> HIDE DEF g
    <2>3. g = Piece(acc, a, a + r)
      BY <1>4, <2>1, <2>2, PieceIs
    <2>. QED BY <2>3 DEF g
  <1>9. r \in 0..n
    BY <1>4, <1>5
  <1>. QED BY <1>8, <1>9, Zenon DEF TailIs

LEMMA FileShape ==
    ASSUME NEW w, NEW acc, NEW s, NEW b, NEW K, NEW n, NEW kind,
           File(w, acc, s, b, K, n, kind)
    PROVE  /\ acc \in Seq(Messages) /\ w \in Seq(Part) /\ K \in Nat /\ n \in Nat
           /\ Grows(s, b, K) /\ Ending(w, acc, s[K], b[K], n, kind)
           /\ s[K] \in Nat /\ s[K] > 0 /\ b[K] \in Nat /\ b[K] + n <= Len(acc)
           /\ Len(w) \in Nat /\ Len(acc) \in Nat
           /\ \A k \in 1..K : Link(w, acc, s, b, k)
  <1>1. /\ acc \in Seq(Messages) /\ w \in Seq(Part) /\ K \in Nat /\ n \in Nat
        /\ Grows(s, b, K) /\ Ending(w, acc, s[K], b[K], n, kind) /\ b[K] + n <= Len(acc)
        /\ \A k \in 1..K : Link(w, acc, s, b, k)
    BY Zenon DEF File
  <1>2. K \in 0..K
    BY <1>1
  <1>3. s[K] \in Nat /\ s[K] > 0 /\ b[K] \in Nat
    BY <1>1, <1>2, PlacesGrow, Zenon
  <1>4. Len(w) \in Nat /\ Len(acc) \in Nat
    BY <1>1
  <1>. QED BY <1>1, <1>3, <1>4, Zenon

\* k is the last place up to which f is intact.
Final(f, w, s, K, k) ==
    /\ k \in 0..K /\ Intact(f, w, s[k] - 1)
    /\ \A j \in 0..K : Intact(f, w, s[j] - 1) => j <= k
LEMMA LastExists ==
    ASSUME NEW w, NEW acc, NEW s, NEW b, NEW K, NEW n, NEW kind,
           File(w, acc, s, b, K, n, kind), NEW f \in Seq(AnyPart)
    PROVE  \E k : Final(f, w, s, K, k)
  <1> DEFINE S == {j \in 0..K : Intact(f, w, s[j] - 1)}
  <1>1. K \in Nat /\ s[0] = 1
    BY DEF File, Grows
  <1>2. 0 \in S
    <2>1. 0 \in 0..K
      BY <1>1
    <2>2. Intact(f, w, 0)
      BY DEF Intact
    <2>. QED BY <1>1, <2>1, <2>2
  <1>3. S \in SUBSET (0..K) /\ S # {}
    BY <1>2
  <1>4. PICK k \in S : \A j \in S : j <= k
    BY <1>1, <1>3, Greatest
  <1>. QED BY <1>4 DEF Final

\* What is read from the last place up to which the file is intact.
IsHurt(part) == part[1] \in {"torn", "hole"}
PlaceRead(f, w, acc, s, b, K, kind, k, o, e, m) ==
    /\ o \in BOOLEAN /\ e \in BOOLEAN /\ m \in Nat /\ b[k] <= m /\ m <= Len(acc)
    /\ ~o => s[k] <= Len(f) /\ (k < K \/ IsHurt(f[s[k]]))
    /\ o /\ e => m = b[K] /\ Len(f) = s[K] /\ f[s[K]] = Summary(b[K])
    /\ k = K /\ Len(f) = s[K] /\ f[s[K]] = Summary(b[K]) => o /\ e

LEMMA EndReads ==
    ASSUME NEW w, NEW acc, NEW s, NEW b, NEW K, NEW n, NEW kind,
           File(w, acc, s, b, K, n, kind), NEW f \in Seq(AnyPart), Damaged(f, w),
           NEW h, Table(f, h), NEW k, Final(f, w, s, K, k)
    PROVE  \E o, e, m : /\ PlaceRead(f, w, acc, s, b, K, kind, k, o, e, m)
                        /\ ReadsAs(h, s[k], o, e, Piece(acc, b[k], m))
  <1>1. /\ acc \in Seq(Messages) /\ w \in Seq(Part) /\ K \in Nat /\ n \in Nat
        /\ Grows(s, b, K) /\ Ending(w, acc, s[K], b[K], n, kind)
        /\ s[K] \in Nat /\ s[K] > 0 /\ b[K] \in Nat /\ b[K] + n <= Len(acc)
        /\ Len(w) \in Nat /\ Len(acc) \in Nat
    BY FileShape, Zenon
  <1>2. k \in 0..K /\ k \in Nat /\ k <= K /\ Intact(f, w, s[k] - 1)
    BY <1>1 DEF Final
  <1>3. s[k] \in Nat /\ s[k] > 0 /\ b[k] \in Nat /\ b[k] <= b[K]
    BY <1>1, <1>2, PlacesGrow, Zenon
  <1>4. Len(f) \in Nat /\ s[k] - 1 <= Len(f) /\ Len(f) <= Len(w)
    BY <1>2 DEF Intact, Damaged
  <1>5. b[k] <= Len(acc)
    BY <1>1, <1>3
  <1>6. s[k] \in 1..Len(f) + 1
    BY <1>3, <1>4
  <1>7. h[s[k]] = ReadFrom(f, h, s[k])
    BY <1>6, TableAt
  <1>8. Piece(acc, b[k], b[k]) = <<>>
    BY <1>3, EmptyPiece
  \* It is the end of the file.
  <1>9. CASE s[k] > Len(f)
    <2>1. ReadsAs(h, s[k], TRUE, FALSE, Piece(acc, b[k], b[k]))
      BY <1>7, <1>8, <1>9, Zenon DEF ReadFrom, ReadsAs
    <2>2. PlaceRead(f, w, acc, s, b, K, kind, k, TRUE, FALSE, b[k])
      <3>1. k = K => Len(f) # s[K]
        BY <1>9, <1>3, <1>4
      <3>. QED BY <1>3, <1>5, <3>1 DEF PlaceRead
    <2>. QED BY <2>1, <2>2, Zenon
  <1> DEFINE part == f[s[k]]
  \* The part there is damaged.
  <1>10. ASSUME s[k] <= Len(f), part # w[s[k]]
         PROVE  /\ PlaceRead(f, w, acc, s, b, K, kind, k, FALSE, TRUE, b[k])
                /\ ReadsAs(h, s[k], FALSE, TRUE, Piece(acc, b[k], b[k]))
    <2>1. s[k] \in 1..Len(f) /\ ~(s[k] > Len(f))
      BY <1>10, <1>3, <1>4
    <2>2. part[1] \in {"torn", "hole"}
      BY <1>10, <2>1 DEF Damaged
    <2>3. part[1] # "chunk" /\ part[1] # "summary" /\ part # Header(0)
      BY <2>2 DEF Header
    <2>4. (part[1] = "summary" /\ s[k] = Len(f)) = FALSE
      BY <2>3
    <2>5. ReadsAs(h, s[k], FALSE, TRUE, Piece(acc, b[k], b[k]))
      BY <1>7, <1>8, <2>1, <2>3, <2>4, Zenon DEF ReadFrom, ReadsAs
    <2>6. k = K => part # Summary(b[K])
      BY <2>3 DEF Summary
    <2>7. PlaceRead(f, w, acc, s, b, K, kind, k, FALSE, TRUE, b[k])
      BY <1>10, <1>3, <1>5, <2>2, <2>6 DEF PlaceRead, IsHurt
    <2>. QED BY <2>5, <2>7
  \* A chunk of which another part is damaged or missing.
  <1>11. ASSUME s[k] <= Len(f), part = w[s[k]], k < K
         PROVE  /\ PlaceRead(f, w, acc, s, b, K, kind, k, FALSE, TRUE, b[k])
                /\ ReadsAs(h, s[k], FALSE, TRUE, Piece(acc, b[k], b[k]))
    <2>1. s[k] \in 1..Len(f) /\ ~(s[k] > Len(f))
      BY <1>11, <1>3, <1>4
    <2>2. k + 1 \in 1..K /\ k + 1 \in 0..K /\ k + 1 - 1 = k /\ k + 1 > 0
      BY <1>11, <1>2, <1>1
    <2>a. PICK j \in 1..K : j = k + 1
      BY <2>2, Zenon
    <2>b. j \in 0..K /\ j > 0 /\ j - 1 = k
      BY <2>a, <1>1, <1>2
    <2>3. Link(w, acc, s, b, j)
      BY FileShape, <2>a
    <2>4. s[j] \in Nat /\ b[j] - b[j - 1] \in Nat /\ b[j] - b[j - 1] > 0
      BY <2>b, <1>1, PlacesGrow
    <2>5. PICK d \in Nat : d = b[j] - b[j - 1] /\ d > 0
      BY <2>4, Zenon
    <2>6. s[k + 1] = s[k] + 2 * d + 2 /\ Complete(w, acc, s[k], b[k], d)
      <3>1. s[j] = s[j - 1] + 2 * d + 2 /\ Complete(w, acc, s[j - 1], b[j - 1], d)
        BY <2>3, <2>5, Zenon DEF Link
      <3>. QED BY <3>1, <2>a, <2>b, Zenon
    <2>7. part = Header(d)
      BY <1>11, <2>6, Zenon DEF Complete
    <2>8. part[1] = "chunk" /\ part # Header(0) /\ part[1] # "summary"
      BY <2>5, <2>7 DEF Header
    <2>9. ~ChunkValid(f, s[k])
      <3> SUFFICES ASSUME ChunkValid(f, s[k]) PROVE FALSE
        OBVIOUS
      <3>1. Same(f, w, s[k], s[k] + 2 * d + 1)
        <4>1. d \in Nat /\ d > 0 /\ f[s[k]] = w[s[k]]
          BY <2>5, <1>11
        <4>. QED BY <4>1, <2>6, <1>1, <1>3, ValidIsIntact, Zenon
      <3>2. s[k + 1] - 1 = s[k] + 2 * d + 1
        BY <2>6, <1>3, <2>5
      <3>3. Intact(f, w, s[k + 1] - 1)
        <4>1. s[k + 1] - 1 <= Len(f)
          BY <3>1, <3>2 DEF Same
        <4>2. ASSUME NEW p \in 1..s[k + 1] - 1 PROVE f[p] = w[p]
          <5>1. CASE p <= s[k] - 1
            <6>1. p \in 1..s[k] - 1
              BY <5>1, <1>3
            <6>. QED BY <6>1, <1>2, Zenon DEF Intact
          <5>2. CASE p > s[k] - 1
            <6>1. p \in s[k]..s[k] + 2 * d + 1
              BY <5>2, <3>2, <1>3
            <6>. QED BY <6>1, <3>1, Zenon DEF Same
          <5>3. p <= s[k] - 1 \/ p > s[k] - 1
            BY <1>3
          <5>. QED BY <5>1, <5>2, <5>3, Zenon
        <4>. QED BY <4>1, <4>2, Zenon DEF Intact
      <3>4. k + 1 <= k
        BY <2>2, <3>3, Zenon DEF Final
      <3>. QED BY <3>4, <1>2
    <2>10. (part[1] = "summary" /\ s[k] = Len(f)) = FALSE
      BY <2>8
    <2>11. ReadsAs(h, s[k], FALSE, TRUE, Piece(acc, b[k], b[k]))
      BY <1>7, <1>8, <2>1, <2>8, <2>9, <2>10, Zenon DEF ReadFrom, ReadsAs
    <2>12. k # K
      BY <1>11, <1>2
    <2>13. PlaceRead(f, w, acc, s, b, K, kind, k, FALSE, TRUE, b[k])
      BY <1>11, <1>3, <1>5, <2>12 DEF PlaceRead
    <2>. QED BY <2>11, <2>13
  \* The open chunk.
  <1>12. ASSUME s[k] <= Len(f), part = w[s[k]], k = K, kind \in {"open", "indexed"}
         PROVE  \E o, e, m : /\ PlaceRead(f, w, acc, s, b, K, kind, k, o, e, m)
                             /\ ReadsAs(h, s[k], o, e, Piece(acc, b[k], m))
    <2>1. ~(s[k] > Len(f))
      BY <1>12, <1>3, <1>4
    <2>2. part = Header(0) /\ Records(w, acc, s[k], b[k], n)
      BY <1>1, <1>12, Zenon DEF Ending
    <2>3. Len(w) <= s[k] + 2 * n + 1
      BY <1>1, <1>12, SMTT(30) DEF Ending
    <2>4. PICK r \in 0..n : TailIs(f, s[k], Piece(acc, b[k], b[k] + r))
      <3>1. b[k] + n <= Len(acc)
        BY <1>1, <1>12
      <3>2. s[k] \in Nat /\ s[k] > 0 /\ b[k] \in Nat
        BY <1>3
      <3>3. Records(w, acc, s[k], b[k], n)
        BY <2>2
      <3>. QED BY <1>1, <3>2, <3>3, <2>3, <3>1, TailReads, Zenon
    <2>5. ReadsAs(h, s[k], TRUE, FALSE, Piece(acc, b[k], b[k] + r))
      BY <1>7, <2>1, <2>2, <2>4, Zenon DEF ReadFrom, ReadsAs, TailIs
    <2>6. b[k] + r \in Nat /\ b[k] <= b[k] + r /\ b[k] + r <= Len(acc)
      BY <1>1, <1>3, <1>12, <2>4
    <2>7. f[s[K]] # Summary(b[K])
      BY <2>2, <1>12 DEF Summary, Header
    <2>8. PlaceRead(f, w, acc, s, b, K, kind, k, TRUE, FALSE, b[k] + r)
      BY <2>6, <2>7, Zenon DEF PlaceRead
    <2>. QED BY <2>5, <2>8, Zenon
  \* The summary.
  <1>13. ASSUME s[k] <= Len(f), part = w[s[k]], k = K, kind = "summary"
         PROVE  /\ PlaceRead(f, w, acc, s, b, K, kind, k, TRUE, TRUE, b[k])
                /\ ReadsAs(h, s[k], TRUE, TRUE, Piece(acc, b[k], b[k]))
    <2>1. ~(s[k] > Len(f))
      BY <1>13, <1>3, <1>4
    <2>2. part = Summary(b[K]) /\ n = 0 /\ Len(w) = s[K] - 1 + 2 * n + 1
      BY <1>1, <1>13 DEF Ending
    <2>3. Len(f) = s[K]
      BY <2>2, <1>1, <1>4, <1>13
    <2>4. part[1] = "summary" /\ part[1] # "chunk" /\ part # Header(0)
      BY <2>2 DEF Summary, Header
    <2>5. (part[1] = "summary" /\ s[k] = Len(f)) = TRUE
      BY <2>3, <2>4, <1>13
    <2>6. ReadsAs(h, s[k], TRUE, TRUE, Piece(acc, b[k], b[k]))
      BY <1>7, <1>8, <2>1, <2>4, <2>5, Zenon DEF ReadFrom, ReadsAs
    <2>7. PlaceRead(f, w, acc, s, b, K, kind, k, TRUE, TRUE, b[k])
      BY <1>3, <1>5, <1>13, <2>2, <2>3 DEF PlaceRead
    <2>. QED BY <2>6, <2>7
  <1>14. ~(s[k] <= Len(f) /\ k = K /\ kind = "end")
    <2>1. kind = "end" => Len(w) = s[K] - 1
      BY <1>1 DEF Ending
    <2>. QED BY <2>1, <1>1, <1>4
  <1>15. kind \in {"end", "open", "indexed", "summary"}
    BY <1>1, Zenon DEF Ending
  <1>16. (s[k] > Len(f) \/ s[k] <= Len(f)) /\ (k < K \/ k = K)
    BY <1>1, <1>2, <1>3, <1>4
  <1> HIDE DEF part
  <1>. QED BY <1>9, <1>10, <1>11, <1>12, <1>13, <1>14, <1>15, <1>16, Zenon

\* What is read of a damaged file: the messages up to some point, complete chunks
\* up to the first damaged one included.
ScanIs(f, w, acc, s, b, K, kind, k, o, e, m) ==
    /\ PlaceRead(f, w, acc, s, b, K, kind, k, o, e, m)
    /\ Final(f, w, s, K, k)
    /\ o => Scan(f) = Read(TRUE, e, Piece(acc, 0, m))
    /\ ~o => Scan(f).ok = FALSE
LEMMA DamagedReads ==
    ASSUME NEW w, NEW acc, NEW s, NEW b, NEW K, NEW n, NEW kind,
           File(w, acc, s, b, K, n, kind), NEW f \in Seq(AnyPart), Damaged(f, w)
    PROVE  \E k, o, e, m : ScanIs(f, w, acc, s, b, K, kind, k, o, e, m)
  <1>1. PICK h : /\ Table(f, h)
                 /\ Scan(f) = IF h[1].ok /\ h[1].final /\ Last(f) # Summary(Len(h[1].messages))
                              THEN Read(FALSE, FALSE, <<>>) ELSE h[1]
    BY ScanReads, Zenon
  <1>2. PICK k : Final(f, w, s, K, k)
    BY LastExists, Zenon
  <1>3. PICK o, e, m : /\ PlaceRead(f, w, acc, s, b, K, kind, k, o, e, m)
                       /\ ReadsAs(h, s[k], o, e, Piece(acc, b[k], m))
    BY <1>1, <1>2, EndReads, Zenon
  <1>4. /\ acc \in Seq(Messages) /\ K \in Nat /\ b[K] \in Nat /\ b[K] + n <= Len(acc)
        /\ n \in Nat /\ s[K] \in Nat /\ s[K] > 0 /\ Len(acc) \in Nat
    BY FileShape, Zenon
  <1>5. o \in BOOLEAN /\ e \in BOOLEAN /\ m \in Nat /\ b[k] <= m /\ m <= Len(acc)
    BY <1>3, Zenon DEF PlaceRead
  <1>6. k \in 0..K /\ Intact(f, w, s[k] - 1)
    BY <1>2, Zenon DEF Final
  <1>7. ReadsAs(h, 1, o, e, Piece(acc, 0, m))
    BY <1>1, <1>3, <1>5, <1>6, ChainReads, Zenon
  <1>8. h[1] = Read(o, e, Piece(acc, 0, m))
    BY <1>7, Zenon DEF ReadsAs
  <1>9. h[1].ok = o /\ h[1].final = e /\ h[1].messages = Piece(acc, 0, m)
    BY <1>8 DEF Read
  <1>10. ASSUME o, e PROVE Last(f) = Summary(Len(h[1].messages))
    <2>1. m = b[K] /\ Len(f) = s[K] /\ f[s[K]] = Summary(b[K])
      BY <1>3, <1>10, Zenon DEF PlaceRead
    <2>2. Len(Piece(acc, 0, m)) = m
      <3>1. 0 <= m /\ m - 0 = m
        BY <1>5
      <3>2. Len(Piece(acc, 0, m)) = m - 0
        BY <1>4, <1>5, <3>1, PieceType
      <3>. QED BY <3>1, <3>2, Zenon
    <2>. QED BY <1>9, <2>1, <2>2, Zenon DEF Last
  <1>11. o => Scan(f) = Read(TRUE, e, Piece(acc, 0, m))
    <2>1. CASE o /\ e
      BY <2>1, <1>1, <1>5, <1>8, <1>10
    <2>2. CASE o /\ ~e
      BY <2>2, <1>1, <1>5, <1>8, <1>9
    <2>. QED BY <2>1, <2>2, <1>5
  <1>12. ~o => Scan(f).ok = FALSE
    BY <1>1, <1>5, <1>9
  <1>13. ScanIs(f, w, acc, s, b, K, kind, k, o, e, m)
    BY <1>2, <1>3, <1>11, <1>12, Zenon DEF ScanIs
  <1>. QED BY <1>13, Zenon

-----------------------------------------------------------------------------
(***************************************************************************)
(* How a file grows.                                                       *)
(***************************************************************************)

\* The places of a file are within it.
LEMMA PlacesWithin ==
    ASSUME NEW w, NEW acc, NEW s, NEW b, NEW K, NEW n, NEW kind,
           File(w, acc, s, b, K, n, kind)
    PROVE  s[K] - 1 <= Len(w)
  <1>1. /\ K \in Nat /\ n \in Nat /\ Ending(w, acc, s[K], b[K], n, kind)
        /\ s[K] \in Nat /\ s[K] > 0 /\ Len(w) \in Nat
    BY FileShape, Zenon
  <1>2. Len(w) = s[K] - 1 + 2 * n
                 + (IF kind = "end" THEN 0 ELSE IF kind = "indexed" THEN 2 ELSE 1)
    BY <1>1, Zenon DEF Ending
  <1>. QED BY <1>1, <1>2

\* What two sequences have in common.
Agree(v, w, i, j) == \A p \in i..j : v[p] = w[p]

\* A complete chunk remains one where nothing of it changes.
LEMMA RecordsKeep ==
    ASSUME NEW w, NEW v, NEW acc, NEW c, NEW i \in Nat, NEW a \in Nat, NEW n \in Nat,
           Agree(v, w, i, i + 2 * n), Agree(c, acc, 1, a + n),
           Records(w, acc, i, a, n)
    PROVE  Records(v, c, i, a, n)
  <1> SUFFICES ASSUME NEW j \in 1..n
               PROVE  /\ v[i + 2 * j - 1] = <<"head", c[a + j]>>
                      /\ v[i + 2 * j] = <<"body", c[a + j]>>
    BY DEF Records
  <1>1. i + 2 * j - 1 \in i..i + 2 * n /\ i + 2 * j \in i..i + 2 * n /\ a + j \in 1..a + n
    OBVIOUS
  <1>2. /\ w[i + 2 * j - 1] = <<"head", acc[a + j]>>
        /\ w[i + 2 * j] = <<"body", acc[a + j]>>
    BY DEF Records
  <1>. QED BY <1>1, <1>2, Zenon DEF Agree
LEMMA CompleteKeeps ==
    ASSUME NEW w, NEW v, NEW acc, NEW c, NEW i \in Nat, NEW a \in Nat, NEW n \in Nat,
           Agree(v, w, i, i + 2 * n + 1), Agree(c, acc, 1, a + n),
           Complete(w, acc, i, a, n)
    PROVE  Complete(v, c, i, a, n)
  <1>1. Agree(v, w, i, i + 2 * n)
    BY DEF Agree
  <1>2. i \in i..i + 2 * n + 1 /\ i + 2 * n + 1 \in i..i + 2 * n + 1
    OBVIOUS
  <1>3. v[i] = w[i] /\ v[i + 2 * n + 1] = w[i + 2 * n + 1]
    BY <1>2, Zenon DEF Agree
  <1>4. Records(v, c, i, a, n)
    BY <1>1, RecordsKeep, Zenon DEF Complete
  <1>. QED BY <1>3, <1>4, Zenon DEF Complete
LEMMA LinksKeep ==
    ASSUME NEW w, NEW v, NEW acc, NEW c, NEW s, NEW b, NEW K \in Nat, Grows(s, b, K),
           \A k \in 1..K : Link(w, acc, s, b, k),
           Agree(v, w, 1, s[K] - 1), Agree(c, acc, 1, b[K])
    PROVE  \A k \in 1..K : Link(v, c, s, b, k)
  <1> TAKE k \in 1..K
  <1>1. k \in 0..K /\ k > 0 /\ K \in 0..K /\ k - 1 \in 0..K
    OBVIOUS
  <1>2. /\ s[k] \in Nat /\ b[k] \in Nat /\ s[k - 1] \in Nat /\ b[k - 1] \in Nat
        /\ b[k] - b[k - 1] \in Nat /\ b[k] <= b[K] /\ s[k] <= s[K]
        /\ s[K] \in Nat /\ b[K] \in Nat
    BY <1>1, PlacesGrow
  <1>3. s[k - 1] > 0
    BY <1>1, PlacesGrow
  <1>4. PICK d \in Nat : d = b[k] - b[k - 1]
    BY <1>2, Zenon
  <1>5. s[k] = s[k - 1] + 2 * d + 2 /\ Complete(w, acc, s[k - 1], b[k - 1], d)
    BY <1>4, Zenon DEF Link
  <1>6. Agree(v, w, s[k - 1], s[k - 1] + 2 * d + 1)
    <2>1. \A p \in s[k - 1]..s[k - 1] + 2 * d + 1 : p \in 1..s[K] - 1
      BY <1>2, <1>3, <1>4, <1>5
    <2>. QED BY <2>1, Zenon DEF Agree
  <1>7. Agree(c, acc, 1, b[k - 1] + d)
    <2>1. \A j \in 1..b[k - 1] + d : j \in 1..b[K]
      BY <1>2, <1>4
    <2>. QED BY <2>1, Zenon DEF Agree
  <1>8. Complete(v, c, s[k - 1], b[k - 1], d)
    <2>1. /\ s[k - 1] \in Nat /\ b[k - 1] \in Nat /\ d \in Nat
          /\ Complete(w, acc, s[k - 1], b[k - 1], d)
      BY <1>2, <1>4, <1>5
    <2>2. ASSUME NEW i \in Nat, NEW a \in Nat, NEW e \in Nat,
                 Agree(v, w, i, i + 2 * e + 1), Agree(c, acc, 1, a + e),
                 Complete(w, acc, i, a, e)
          PROVE  Complete(v, c, i, a, e)
      BY <2>2, CompleteKeeps, Zenon
    <2>. QED BY <2>1, <2>2, <1>6, <1>7, Zenon
  <1>. QED BY <1>4, <1>5, <1>8, Zenon DEF Link

\* What is behind the complete chunks changes.
LEMMA EndingChanges ==
    ASSUME NEW w, NEW acc, NEW s, NEW b, NEW K, NEW n, NEW kind,
           File(w, acc, s, b, K, n, kind),
           NEW v \in Seq(Part), Agree(v, w, 1, s[K] - 1),
           NEW n2 \in Nat, NEW kind2, Ending(v, acc, s[K], b[K], n2, kind2),
           b[K] + n2 <= Len(acc)
    PROVE  File(v, acc, s, b, K, n2, kind2)
  <1>1. /\ acc \in Seq(Messages) /\ K \in Nat /\ Grows(s, b, K)
        /\ \A k \in 1..K : Link(w, acc, s, b, k)
    BY FileShape, Zenon
  <1>2. \A k \in 1..K : Link(v, acc, s, b, k)
    <2>1. Agree(acc, acc, 1, b[K])
      BY Zenon DEF Agree
    <2>. QED BY <1>1, <2>1, LinksKeep, Zenon
  <1>. QED BY <1>1, <1>2, Zenon DEF File

LEMMA PartsTyped ==
    /\ \A n \in Nat : Header(n) \in Part /\ Index(n) \in Part /\ Summary(n) \in Part
    /\ \A m \in Messages : <<"head", m>> \in Part /\ <<"body", m>> \in Part
  BY DEF Part, Header, Index, Summary

\* A chunk is opened.
LEMMA FileOpens ==
    ASSUME NEW w, NEW acc, NEW s, NEW b, NEW K, NEW n,
           File(w, acc, s, b, K, n, "end")
    PROVE  n = 0 /\ s[K] = Len(w) + 1 /\ File(w \o <<Header(0)>>, acc, s, b, K, 0, "open")
  <1>1. /\ w \in Seq(Part) /\ K \in Nat /\ n \in Nat /\ Ending(w, acc, s[K], b[K], n, "end")
        /\ s[K] \in Nat /\ s[K] > 0 /\ b[K] \in Nat /\ b[K] + n <= Len(acc)
        /\ Len(w) \in Nat
    BY FileShape, Zenon
  <1>2. n = 0 /\ Len(w) = s[K] - 1
    BY <1>1 DEF Ending
  <1> DEFINE v == w \o <<Header(0)>>
  <1>3. Header(0) \in Part
    BY PartsTyped
  <1>4. v \in Seq(Part) /\ Len(v) = Len(w) + 1 /\ v[Len(w) + 1] = Header(0)
        /\ \A p \in 1..Len(w) : v[p] = w[p]
    <2> HIDE DEF Header
    <2>. QED BY <1>1, <1>3
  <1> HIDE DEF v
  <1>5. Ending(v, acc, s[K], b[K], 0, "open")
    <2>1. Records(v, acc, s[K], b[K], 0)
      BY DEF Records
    <2>2. v[s[K]] = Header(0) /\ Len(v) = s[K] - 1 + 2 * 0 + 1
      BY <1>1, <1>2, <1>4
    <2>. QED BY <2>1, <2>2 DEF Ending
  <1>6. Agree(v, w, 1, s[K] - 1) /\ b[K] + 0 <= Len(acc) /\ 0 \in Nat
    BY <1>1, <1>2, <1>4 DEF Agree
  <1>7. File(v, acc, s, b, K, 0, "open")
    BY <1>4, <1>5, <1>6, EndingChanges, Zenon
  <1>. QED BY <1>1, <1>2, <1>7 DEF v

\* A record is added.
LEMMA FileRecords ==
    ASSUME NEW w, NEW acc, NEW s, NEW b, NEW K, NEW n,
           File(w, acc, s, b, K, n, "open"), b[K] + n < Len(acc)
    PROVE  File(w \o Record(acc[b[K] + n + 1]), acc, s, b, K, n + 1, "open")
  <1>1. /\ w \in Seq(Part) /\ K \in Nat /\ n \in Nat /\ Ending(w, acc, s[K], b[K], n, "open")
        /\ s[K] \in Nat /\ s[K] > 0 /\ b[K] \in Nat /\ b[K] + n <= Len(acc)
        /\ Len(w) \in Nat /\ Len(acc) \in Nat /\ acc \in Seq(Messages)
    BY FileShape, Zenon
  <1>2. /\ Len(w) = s[K] + 2 * n /\ w[s[K]] = Header(0)
        /\ Records(w, acc, s[K], b[K], n)
    BY <1>1 DEF Ending
  <1> DEFINE m == acc[b[K] + n + 1]
             v == w \o Record(m)
  <1>3. m \in Messages
    BY <1>1
  <1> HIDE DEF m
  <1>4. <<"head", m>> \in Part /\ <<"body", m>> \in Part
    BY <1>3, PartsTyped
  <1>5. PICK x \in Part, y \in Part : x = <<"head", m>> /\ y = <<"body", m>>
    BY <1>4, Zenon
  <1>6. Record(m) = <<x, y>>
    BY <1>5, Zenon DEF Record
  <1>7. /\ v \in Seq(Part) /\ Len(v) = Len(w) + 2
        /\ v[Len(w) + 1] = x /\ v[Len(w) + 2] = y
        /\ \A p \in 1..Len(w) : v[p] = w[p]
    BY <1>1, <1>6
  <1> HIDE DEF v
  <1>8. Records(v, acc, s[K], b[K], n + 1)
    <2> SUFFICES ASSUME NEW j \in 1..n + 1
                 PROVE  /\ v[s[K] + 2 * j - 1] = <<"head", acc[b[K] + j]>>
                        /\ v[s[K] + 2 * j] = <<"body", acc[b[K] + j]>>
      BY DEF Records
    <2>1. CASE j = n + 1
      <3>1. /\ s[K] + 2 * j - 1 = Len(w) + 1 /\ s[K] + 2 * j = Len(w) + 2
            /\ b[K] + j = b[K] + n + 1
        <4>1. Len(w) = s[K] + 2 * n
          BY <1>2
        <4>2. s[K] + 2 * j - 1 = s[K] + 2 * n + 1 /\ s[K] + 2 * j = s[K] + 2 * n + 2
          BY <2>1, <1>1
        <4>3. b[K] + j = b[K] + n + 1
          BY <2>1, <1>1
        <4>. QED BY <4>1, <4>2, <4>3, Zenon
      <3>2. acc[b[K] + j] = m
        BY <3>1, Zenon DEF m
      <3>. QED BY <3>1, <3>2, <1>5, <1>7, Zenon
    <2>2. CASE j \in 1..n
      <3>1. s[K] + 2 * j - 1 \in 1..Len(w) /\ s[K] + 2 * j \in 1..Len(w)
        BY <2>2, <1>1, <1>2, SMTT(30)
      <3>2. /\ w[s[K] + 2 * j - 1] = <<"head", acc[b[K] + j]>>
            /\ w[s[K] + 2 * j] = <<"body", acc[b[K] + j]>>
        BY <1>2, <2>2, Zenon DEF Records
      <3>. QED BY <3>1, <3>2, <1>7, Zenon
    <2>. QED BY <2>1, <2>2, <1>1
  <1>9. Ending(v, acc, s[K], b[K], n + 1, "open")
    <2>1. v[s[K]] = Header(0)
      <3>1. s[K] \in 1..Len(w)
        BY <1>1, <1>2
      <3>. QED BY <3>1, <1>2, <1>7, Zenon
    <2>2. Len(v) = s[K] - 1 + 2 * (n + 1) + 1
      BY <1>1, <1>2, <1>7
    <2>. QED BY <2>1, <2>2, <1>8 DEF Ending
  <1>10. Agree(v, w, 1, s[K] - 1) /\ b[K] + (n + 1) <= Len(acc) /\ n + 1 \in Nat
    <2>1. \A p \in 1..s[K] - 1 : p \in 1..Len(w)
      BY <1>1, <1>2
    <2>2. Agree(v, w, 1, s[K] - 1)
      BY <2>1, <1>7, Zenon DEF Agree
    <2>. QED BY <2>2, <1>1
  <1>11. File(v, acc, s, b, K, n + 1, "open")
    BY <1>7, <1>9, <1>10, EndingChanges, Zenon
  <1>. QED BY <1>11 DEF v, m

\* The index of a chunk is written,
LEMMA FileIndexes ==
    ASSUME NEW w, NEW acc, NEW s, NEW b, NEW K, NEW n,
           File(w, acc, s, b, K, n, "open")
    PROVE  File(Append(w, Index(n)), acc, s, b, K, n, "indexed")
  <1>1. /\ w \in Seq(Part) /\ K \in Nat /\ n \in Nat /\ Ending(w, acc, s[K], b[K], n, "open")
        /\ s[K] \in Nat /\ s[K] > 0 /\ b[K] \in Nat /\ b[K] + n <= Len(acc)
        /\ Len(w) \in Nat
    BY FileShape, Zenon
  <1>2. /\ Len(w) = s[K] + 2 * n /\ w[s[K]] = Header(0)
        /\ Records(w, acc, s[K], b[K], n)
    BY <1>1 DEF Ending
  <1>3. PICK x \in Part : x = Index(n)
    BY <1>1, PartsTyped, Zenon
  <1> DEFINE v == Append(w, x)
  <1>4. /\ v \in Seq(Part) /\ Len(v) = Len(w) + 1 /\ v[Len(w) + 1] = x
        /\ \A p \in 1..Len(w) : v[p] = w[p]
    BY <1>1
  <1> HIDE DEF v
  <1>5. Ending(v, acc, s[K], b[K], n, "indexed")
    <2>1. Records(v, acc, s[K], b[K], n)
      <3>1. Agree(v, w, s[K], s[K] + 2 * n)
        BY <1>1, <1>2, <1>4 DEF Agree
      <3>2. Agree(acc, acc, 1, b[K] + n)
        BY Zenon DEF Agree
      <3>. QED BY <3>1, <3>2, <1>1, <1>2, RecordsKeep, Zenon
    <2>2. s[K] + 2 * n + 1 = Len(w) + 1 /\ Len(v) = s[K] - 1 + 2 * n + 2 /\ s[K] \in 1..Len(w)
      BY <1>1, <1>2, <1>4
    <2>3. v[s[K]] = Header(0) /\ v[s[K] + 2 * n + 1] = Index(n)
      BY <2>2, <1>2, <1>3, <1>4, Zenon
    <2>. QED BY <2>1, <2>2, <2>3 DEF Ending
  <1>6. Agree(v, w, 1, s[K] - 1)
    BY <1>1, <1>2, <1>4 DEF Agree
  <1>7. File(v, acc, s, b, K, n, "indexed")
    BY <1>1, <1>4, <1>5, <1>6, EndingChanges, Zenon
  <1>. QED BY <1>3, <1>7 DEF v

\* and the summary.
LEMMA FileEnds ==
    ASSUME NEW w, NEW acc, NEW s, NEW b, NEW K, NEW n,
           File(w, acc, s, b, K, n, "end")
    PROVE  File(w \o <<Summary(b[K])>>, acc, s, b, K, 0, "summary")
  <1>1. /\ w \in Seq(Part) /\ K \in Nat /\ n \in Nat /\ Ending(w, acc, s[K], b[K], n, "end")
        /\ s[K] \in Nat /\ s[K] > 0 /\ b[K] \in Nat /\ b[K] + n <= Len(acc)
        /\ Len(w) \in Nat /\ Len(acc) \in Nat
    BY FileShape, Zenon
  <1>2. n = 0 /\ Len(w) = s[K] - 1
    BY <1>1 DEF Ending
  <1>3. PICK x \in Part : x = Summary(b[K])
    BY <1>1, PartsTyped, Zenon
  <1> DEFINE v == w \o <<x>>
  <1>4. v \in Seq(Part) /\ Len(v) = Len(w) + 1 /\ v[Len(w) + 1] = x
        /\ \A p \in 1..Len(w) : v[p] = w[p]
    BY <1>1
  <1> HIDE DEF v
  <1>5. Ending(v, acc, s[K], b[K], 0, "summary")
    <2>2. v[s[K]] = Summary(b[K]) /\ Len(v) = s[K] - 1 + 2 * 0 + 1
      BY <1>1, <1>2, <1>3, <1>4
    <2>. QED BY <2>2 DEF Ending
  <1>6. Agree(v, w, 1, s[K] - 1) /\ b[K] + 0 <= Len(acc) /\ 0 \in Nat
    BY <1>1, <1>2, <1>4 DEF Agree
  <1>7. File(v, acc, s, b, K, 0, "summary")
    BY <1>4, <1>5, <1>6, EndingChanges, Zenon
  <1>. QED BY <1>3, <1>7 DEF v

\* More is accepted.
LEMMA FileAccepts ==
    ASSUME NEW w, NEW acc, NEW s, NEW b, NEW K, NEW n, NEW kind,
           File(w, acc, s, b, K, n, kind), NEW m \in Messages
    PROVE  File(w, Append(acc, m), s, b, K, n, kind)
  <1>1. /\ acc \in Seq(Messages) /\ w \in Seq(Part) /\ K \in Nat /\ n \in Nat
        /\ Grows(s, b, K) /\ Ending(w, acc, s[K], b[K], n, kind)
        /\ s[K] \in Nat /\ s[K] > 0 /\ b[K] \in Nat /\ b[K] + n <= Len(acc)
        /\ Len(w) \in Nat /\ Len(acc) \in Nat
        /\ \A k \in 1..K : Link(w, acc, s, b, k)
    BY FileShape, Zenon
  <1> DEFINE c == Append(acc, m)
  <1>2. c \in Seq(Messages) /\ Len(c) = Len(acc) + 1 /\ \A j \in 1..Len(acc) : c[j] = acc[j]
    BY <1>1
  <1> HIDE DEF c
  <1>3. \A k \in 1..K : Link(w, c, s, b, k)
    <2>1. Agree(c, acc, 1, b[K])
      BY <1>1, <1>2 DEF Agree
    <2>2. Agree(w, w, 1, s[K] - 1)
      BY Zenon DEF Agree
    <2>. QED BY <2>1, <2>2, <1>1, LinksKeep, Zenon
  <1>4. Records(w, acc, s[K], b[K], n) => Records(w, c, s[K], b[K], n)
    <2>1. Agree(c, acc, 1, b[K] + n)
      BY <1>1, <1>2 DEF Agree
    <2>2. Agree(w, w, s[K], s[K] + 2 * n)
      BY Zenon DEF Agree
    <2>. QED BY <2>1, <2>2, <1>1, RecordsKeep, Zenon
  <1>5. Ending(w, c, s[K], b[K], n, kind)
    BY <1>1, <1>4, Zenon DEF Ending
  <1>6. b[K] + n <= Len(c)
    BY <1>1, <1>2
  <1>7. File(w, c, s, b, K, n, kind)
    BY <1>1, <1>2, <1>3, <1>5, <1>6, Zenon DEF File
  <1>. QED BY <1>7 DEF c

\* The last chunk gets its header,
Extends(s, c, K) == \A j \in 0..K : c[j] = s[j]
LEMMA FileSeals ==
    ASSUME NEW w, NEW acc, NEW s, NEW b, NEW K, NEW n,
           File(w, acc, s, b, K, n, "indexed"), n > 0
    PROVE  \E c, d : /\ Extends(s, c, K) /\ Extends(b, d, K)
                     /\ c[K + 1] = Len(w) + 1 /\ d[K + 1] = b[K] + n
                     /\ File([w EXCEPT ![s[K]] = Header(n)], acc, c, d, K + 1, 0, "end")
  <1>1. /\ w \in Seq(Part) /\ K \in Nat /\ n \in Nat
        /\ Ending(w, acc, s[K], b[K], n, "indexed") /\ Grows(s, b, K)
        /\ s[K] \in Nat /\ s[K] > 0 /\ b[K] \in Nat /\ b[K] + n <= Len(acc)
        /\ Len(w) \in Nat /\ acc \in Seq(Messages)
        /\ \A k \in 1..K : Link(w, acc, s, b, k)
    BY FileShape, Zenon
  <1>2. /\ Len(w) = s[K] + 2 * n + 1 /\ w[s[K] + 2 * n + 1] = Index(n)
        /\ Records(w, acc, s[K], b[K], n)
    BY <1>1 DEF Ending
  <1>3. PICK x \in Part : x = Header(n)
    BY <1>1, PartsTyped, Zenon
  <1> DEFINE v == [w EXCEPT ![s[K]] = x]
             c == [j \in 0..K + 1 |-> IF j = K + 1 THEN Len(w) + 1 ELSE s[j]]
             d == [j \in 0..K + 1 |-> IF j = K + 1 THEN b[K] + n ELSE b[j]]
  <1>4. s[K] \in 1..Len(w)
    BY <1>1, <1>2
  <1>5. /\ v \in Seq(Part) /\ Len(v) = Len(w) /\ v[s[K]] = x
        /\ \A p \in 1..Len(w) : p # s[K] => v[p] = w[p]
    BY <1>1, <1>4
  <1>6. /\ \A j \in 0..K : c[j] = s[j] /\ d[j] = b[j]
        /\ c[K + 1] = Len(w) + 1 /\ d[K + 1] = b[K] + n
    BY <1>1
  <1> HIDE DEF v, c, d
  <1>7. \A j \in 0..K : s[j] \in Nat /\ b[j] \in Nat /\ s[j] <= s[K] /\ b[j] <= b[K]
    BY <1>1, PlacesGrow
  <1>8. s[K] < Len(w) + 1 /\ b[K] < b[K] + n
    BY <1>1, <1>2
  <1>9. Grows(c, d, K + 1)
    <2>1. ASSUME NEW j \in 0..K + 1 PROVE c[j] \in Nat /\ d[j] \in Nat
      <3>1. CASE j = K + 1
        BY <3>1, <1>1, <1>6
      <3>2. CASE j \in 0..K
        BY <3>2, <1>6, <1>7
      <3>3. j = K + 1 \/ j \in 0..K
        BY <1>1
      <3>. QED BY <3>1, <3>2, <3>3, Zenon
    <2>2. ASSUME NEW j \in 0..K + 1, NEW k \in 0..K + 1, j < k
          PROVE  c[j] < c[k] /\ d[j] < d[k]
      <3>1. j \in 0..K
        BY <2>2, <1>1
      <3>2. CASE k = K + 1
        <4>1. s[j] \in Nat /\ b[j] \in Nat /\ s[j] <= s[K] /\ b[j] <= b[K]
          BY <3>1, <1>7, Zenon
        <4>2. s[j] < Len(w) + 1 /\ b[j] < b[K] + n
          BY <4>1, <1>1, <1>8
        <4>. QED BY <3>1, <3>2, <4>2, <1>6, Zenon
      <3>3. CASE k \in 0..K
        <4>1. s[j] < s[k] /\ b[j] < b[k]
          BY <2>2, <3>1, <3>3, <1>1, Zenon DEF Grows
        <4>. QED BY <3>1, <3>3, <4>1, <1>6, Zenon
      <3>4. k = K + 1 \/ k \in 0..K
        BY <1>1
      <3>. QED BY <3>2, <3>3, <3>4, Zenon
    <2>3. c[0] = 1 /\ d[0] = 0
      <3>1. 0 \in 0..K
        BY <1>1
      <3>. QED BY <3>1, <1>1, <1>6, Zenon DEF Grows
    <2>. QED BY <2>1, <2>2, <2>3, Zenon DEF Grows
  <1>10. ASSUME NEW k \in 1..K + 1 PROVE Link(v, acc, c, d, k)
    <2>1. CASE k \in 1..K
      <3>1. Agree(v, w, 1, s[K] - 1)
        BY <1>1, <1>4, <1>5 DEF Agree
      <3>2. Agree(acc, acc, 1, b[K])
        BY Zenon DEF Agree
      <3>3. \A j \in 1..K : Link(v, acc, s, b, j)
        BY <3>1, <3>2, <1>1, LinksKeep, Zenon
      <3>4. k \in 0..K /\ k - 1 \in 0..K
        BY <2>1, <1>1
      <3>5. c[k] = s[k] /\ d[k] = b[k] /\ c[k - 1] = s[k - 1] /\ d[k - 1] = b[k - 1]
        BY <3>4, <1>6, Zenon
      <3>. QED BY <2>1, <3>3, <3>5, Zenon DEF Link
    <2>2. CASE k = K + 1
      <3>1. k - 1 = K /\ K \in 0..K
        BY <2>2, <1>1
      <3>2. c[k] = Len(w) + 1 /\ d[k] = b[K] + n /\ c[k - 1] = s[K] /\ d[k - 1] = b[K]
        BY <2>2, <3>1, <1>6, Zenon
      <3>3. d[k] - d[k - 1] = n
        BY <3>2, <1>1
      <3>4. c[k] = c[k - 1] + 2 * n + 2
        BY <3>2, <1>1, <1>2
      <3>5. Complete(v, acc, s[K], b[K], n)
        <4>1. s[K] + 2 * n + 1 \in 1..Len(w) /\ s[K] + 2 * n + 1 # s[K]
          BY <1>1, <1>2
        <4>2. v[s[K] + 2 * n + 1] = Index(n)
          BY <4>1, <1>2, <1>5, Zenon
        <4>3. Records(v, acc, s[K], b[K], n)
          <5> SUFFICES ASSUME NEW j \in 1..n
                       PROVE  /\ v[s[K] + 2 * j - 1] = w[s[K] + 2 * j - 1]
                              /\ v[s[K] + 2 * j] = w[s[K] + 2 * j]
            BY <1>2 DEF Records
          <5>1. /\ s[K] + 2 * j - 1 \in 1..Len(w) /\ s[K] + 2 * j \in 1..Len(w)
                /\ s[K] + 2 * j - 1 # s[K] /\ s[K] + 2 * j # s[K]
            BY <1>1, <1>2, SMTT(30)
          <5>. QED BY <5>1, <1>5, Zenon
        <4>. QED BY <4>2, <4>3, <1>3, <1>5, Zenon DEF Complete
      <3>. QED BY <3>2, <3>3, <3>4, <3>5, Zenon DEF Link
    <2>3. k \in 1..K \/ k = K + 1
      BY <1>1
    <2>. QED BY <2>1, <2>2, <2>3, Zenon
  <1>11. Ending(v, acc, c[K + 1], d[K + 1], 0, "end")
    <2>1. Len(v) = c[K + 1] - 1 + 2 * 0 + 0
      BY <1>1, <1>5, <1>6
    <2>. QED BY <2>1 DEF Ending
  <1>12. d[K + 1] + 0 <= Len(acc) /\ K + 1 \in Nat /\ 0 \in Nat
    BY <1>1, <1>6
  <1>13. File(v, acc, c, d, K + 1, 0, "end")
    BY <1>1, <1>5, <1>9, <1>10, <1>11, <1>12, Zenon DEF File
  <1>14. Extends(s, c, K) /\ Extends(b, d, K)
    BY <1>6, Zenon DEF Extends
  <1>15. v = [w EXCEPT ![s[K]] = Header(n)]
    BY <1>3 DEF v
  <1>. QED BY <1>6, <1>13, <1>14, <1>15, Zenon

\* or loses it again when the power fails.
LEMMA FileUnseals ==
    ASSUME NEW w, NEW acc, NEW s, NEW b, NEW K, NEW n,
           File(w, acc, s, b, K, n, "end"), K > 0
    PROVE  /\ s[K - 1] \in 1..Len(w)
           /\ File([w EXCEPT ![s[K - 1]] = Header(0)], acc, s, b, K - 1, b[K] - b[K - 1],
                   "indexed")
  <1>1. /\ w \in Seq(Part) /\ K \in Nat /\ n \in Nat
        /\ Ending(w, acc, s[K], b[K], n, "end") /\ Grows(s, b, K)
        /\ s[K] \in Nat /\ s[K] > 0 /\ b[K] \in Nat /\ b[K] + n <= Len(acc)
        /\ Len(w) \in Nat /\ acc \in Seq(Messages) /\ Len(acc) \in Nat
        /\ \A k \in 1..K : Link(w, acc, s, b, k)
    BY FileShape, Zenon
  <1>2. n = 0 /\ Len(w) = s[K] - 1
    BY <1>1 DEF Ending
  <1>3. PICK L \in Nat : L = K - 1
    BY <1>1
  <1>4. L \in 0..K /\ K \in 1..K /\ K \in 0..K /\ L < K
    BY <1>1, <1>3
  <1>5. s[L] \in Nat /\ b[L] \in Nat /\ s[L] > 0 /\ b[L] < b[K] /\ s[L] < s[K]
    <2>1. s[L] \in Nat /\ b[L] \in Nat /\ s[L] > 0
      BY <1>1, <1>4, PlacesGrow
    <2>2. b[L] < b[K] /\ s[L] < s[K]
      BY <1>1, <1>4, Zenon DEF Grows
    <2>. QED BY <2>1, <2>2
  <1>6. PICK d \in Nat : d = b[K] - b[L]
    BY <1>1, <1>5
  <1>7. s[K] = s[L] + 2 * d + 2 /\ Complete(w, acc, s[L], b[L], d)
    <2>1. Link(w, acc, s, b, K)
      BY <1>1, <1>4, Zenon
    <2>. QED BY <2>1, <1>3, <1>6, Zenon DEF Link
  <1>8. PICK x \in Part : x = Header(0)
    BY PartsTyped
  <1> DEFINE v == [w EXCEPT ![s[L]] = x]
  <1>9. d \in Nat /\ s[L] \in 1..Len(w) /\ Len(w) = s[L] + 2 * d + 1
    <2>1. d \in Nat /\ s[K] = s[L] + 2 * d + 2
      BY <1>6, <1>7, Zenon
    <2>. QED BY <2>1, <1>1, <1>2, <1>5
  <1>10. /\ v \in Seq(Part) /\ Len(v) = Len(w) /\ v[s[L]] = x
         /\ \A p \in 1..Len(w) : p # s[L] => v[p] = w[p]
    BY <1>1, <1>9
  <1> HIDE DEF v
  <1>11. Grows(s, b, L)
    <2>1. \A j \in 0..L : j \in 0..K
      BY <1>1, <1>3
    <2>. QED BY <2>1, <1>1, Zenon DEF Grows
  <1>12. \A k \in 1..L : Link(v, acc, s, b, k)
    <2>1. Agree(v, w, 1, s[L] - 1)
      BY <1>5, <1>9, <1>10 DEF Agree
    <2>2. Agree(acc, acc, 1, b[L])
      BY Zenon DEF Agree
    <2>3. \A k \in 1..L : Link(w, acc, s, b, k)
      <3>1. \A k \in 1..L : k \in 1..K
        BY <1>1, <1>3
      <3>. QED BY <3>1, <1>1, Zenon
    <2>. QED BY <2>1, <2>2, <2>3, <1>3, <1>11, LinksKeep, Zenon
  <1>13. Ending(v, acc, s[L], b[L], d, "indexed")
    <2>1. Records(v, acc, s[L], b[L], d)
      <3> SUFFICES ASSUME NEW j \in 1..d
                   PROVE  /\ v[s[L] + 2 * j - 1] = w[s[L] + 2 * j - 1]
                          /\ v[s[L] + 2 * j] = w[s[L] + 2 * j]
        BY <1>7 DEF Records, Complete
      <3>1. /\ s[L] + 2 * j - 1 \in 1..Len(w) /\ s[L] + 2 * j \in 1..Len(w)
            /\ s[L] + 2 * j - 1 # s[L] /\ s[L] + 2 * j # s[L]
        BY <1>5, <1>9
      <3>. QED BY <3>1, <1>10, Zenon
    <2>2. s[L] + 2 * d + 1 \in 1..Len(w) /\ s[L] + 2 * d + 1 # s[L]
      BY <1>5, <1>6, <1>9
    <2>3. v[s[L] + 2 * d + 1] = Index(d) /\ v[s[L]] = Header(0)
      BY <2>2, <1>7, <1>8, <1>10, Zenon DEF Complete
    <2>4. Len(v) = s[L] - 1 + 2 * d + 2
      BY <1>5, <1>6, <1>9, <1>10
    <2>. QED BY <2>1, <2>3, <2>4 DEF Ending
  <1>14. b[L] + d <= Len(acc)
    BY <1>1, <1>2, <1>5, <1>6
  <1>15. File(v, acc, s, b, L, d, "indexed")
    BY <1>1, <1>3, <1>6, <1>10, <1>11, <1>12, <1>13, <1>14, Zenon DEF File
  <1>16. v = [w EXCEPT ![s[L]] = Header(0)]
    BY <1>8 DEF v
  <1>. QED BY <1>3, <1>6, <1>9, <1>15, <1>16, Zenon

-----------------------------------------------------------------------------
(***************************************************************************)
(* The shape of the state.                                                 *)
(***************************************************************************)

FileTyped ==
    /\ disk \in Seq(AnyPart) /\ buffer \in Seq(Part) /\ synced \in 0..Len(disk)
    /\ chunk \in Nat /\ records \in 0..CheckpointRecords /\ sealed \in Nat
WriterTyped ==
    /\ writer \in {"get", "record", "finish", "index", "seal", "sync", "summary",
                   "sync_end", "abort", "release", "done", "gone"}
    /\ item \in Messages \cup {None} /\ finishing \in BOOLEAN /\ error \in BOOLEAN
QueueTyped ==
    /\ queue \in Seq(Messages \cup {EOS}) /\ Len(queue) <= QueueCapacity
    /\ qclosed \in BOOLEAN /\ closed \in BOOLEAN /\ outage \in {"no", "kill", "power"}
    /\ accepted \in Seq(Messages)
ExecTyped ==
    /\ state \in ExecutionStates \cup {None} /\ raised \in BOOLEAN
    /\ main \in {"created", "setup", "loop", "leave", "close", "eos", "join",
                 "report", "return", "ended", "gone"}
    /\ stop \in BOOLEAN /\ failed \in BOOLEAN
    /\ worker \in [Workers -> {"created", "loop", "write", "put", "done", "gone"}]
    /\ published \in [Workers -> Nat] /\ \A w \in Workers : published[w] <= Len(Output[w])
    /\ late \subseteq Workers
    /\ stopper \in {"idle", "mark", "join", "answered", "gone"}
    /\ answer \in ExecutionStates \cup {None}

\* A chunk is full only at a checkpoint, what is being recorded is a message, and
\* a worker that is about to publish has something left.
Room ==
    /\ writer \in {"get", "record", "finish"} => records < CheckpointRecords
    /\ writer = "record" => item \in Messages
Left == \A w \in Workers : worker[w] \in {"write", "put"} => published[w] < Len(Output[w])
\* An outage is the end.
Gone ==
    /\ writer = "gone" /\ main = "gone" /\ stopper = "gone" /\ state = None
    /\ \A w \in Workers : worker[w] = "gone"
Ended == outage # "no" => Gone

TypeInv == FileTyped /\ WriterTyped /\ QueueTyped /\ ExecTyped /\ Room /\ Left /\ Ended

\* The head of the file is in front of everything: while it is not in the file
\* nothing else is, and no checkpoint has been completed unless the power failed
\* before anything was synchronised.
HeadInv ==
    /\ head \in {"held", "whole", "lost"}
    /\ head # "whole" => Headless
    /\ outage = "no" /\ head # "whole" => disk = <<>>
    /\ Durable /\ sealed > 0 => synced > 0
    /\ writer \in {"seal", "sync"} => disk # <<>>
    /\ writer = "abort" => error
    /\ error => writer \in {"abort", "release", "done"}
    /\ head = "lost" /\ outage = "no" => error /\ buffer = <<>>
    /\ writer \in {"sync_end", "release", "done"} /\ ~error => head = "whole"

LEMMA TypeImplied ==
    ASSUME TypeInv, HeadInv PROVE TypeOK
  <1>1. ASSUME NEW i \in 1..Len(disk) PROVE disk[i][1] \in Parts /\ Len(disk[i]) = 2
    <2>1. disk[i] \in AnyPart
      BY DEF TypeInv, FileTyped
    <2>2. PICK x \in AnyPart : x = disk[i]
      BY <2>1, Zenon
    <2>3. x[1] \in Parts /\ Len(x) = 2
      <3>1. CASE x \in {"chunk", "index", "summary"} \X Nat
        BY <3>1 DEF Parts
      <3>2. CASE x \in {"head", "body"} \X Messages
        BY <3>2 DEF Parts
      <3>3. CASE x \in {"torn", "hole"} \X Parts
        BY <3>3 DEF Parts
      <3>. QED BY <3>1, <3>2, <3>3, Zenon DEF AnyPart, Part
    <2>. QED BY <2>2, <2>3, Zenon
  <1>2. RecordingTypeOK
    BY <1>1, Zenon DEF RecordingTypeOK, TypeInv, FileTyped, WriterTyped, QueueTyped, HeadInv
  <1>3. \A w \in Workers : published[w] \in 0..Len(Output[w])
    <2>1. \A w \in Workers : Len(Output[w]) \in Nat
      BY BackendAssumption
    <2>. QED BY <2>1 DEF TypeInv, ExecTyped
  <1>. QED BY <1>2, <1>3, Zenon DEF TypeOK, TypeInv, ExecTyped

LEMMA TypeInit ==
    ASSUME Init PROVE TypeInv
  <1> USE DEF Init, RecordingInit
  <1>1. FileTyped
    BY RecordingAssumption DEF FileTyped
  <1>2. WriterTyped
    BY DEF WriterTyped
  <1>3. QueueTyped
    <2>1. QueueCapacity \in Nat
      BY RecordingAssumption
    <2>2. queue = <<>> /\ accepted = <<>> /\ qclosed = FALSE /\ closed = FALSE /\ outage = "no"
      OBVIOUS
    <2>3. queue \in Seq(Messages \cup {EOS}) /\ Len(queue) = 0 /\ accepted \in Seq(Messages)
      BY <2>2
    <2>4. Len(queue) <= QueueCapacity
      <3>1. \A x : x = 0 => x <= QueueCapacity
        BY <2>1
      <3>. QED BY <2>3, <3>1, Zenon
    <2>5. qclosed \in BOOLEAN /\ closed \in BOOLEAN /\ outage \in {"no", "kill", "power"}
      BY <2>2
    <2>. QED BY <2>3, <2>4, <2>5, Zenon DEF QueueTyped
  <1>4. ExecTyped
    <2>1. \A w \in Workers : Len(Output[w]) \in Nat
      BY BackendAssumption
    <2>2. /\ state = "prepared" /\ raised = FALSE /\ main = "created" /\ stop = FALSE
          /\ failed = FALSE /\ late = {} /\ stopper = "idle" /\ answer = None
      BY Zenon
    <2>3. worker \in [Workers -> {"created", "loop", "write", "put", "done", "gone"}]
      OBVIOUS
    <2>4. published \in [Workers -> Nat] /\ \A w \in Workers : published[w] <= Len(Output[w])
      BY <2>1
    <2>. QED BY <2>2, <2>3, <2>4 DEF ExecTyped, ExecutionStates
  <1>5. Room
    BY RecordingAssumption DEF Room
  <1>6. Left
    BY DEF Left
  <1>7. Ended
    BY DEF Ended
  <1>. QED BY <1>1, <1>2, <1>3, <1>4, <1>5, <1>6, <1>7 DEF TypeInv

LEMMA EmptyEnd ==
    ASSUME NEW f \in Seq(AnyPart)
    PROVE  f \o <<>> = f
  OBVIOUS

\* What is written.
LEMMA PartsAppend ==
    ASSUME NEW f \in Seq(AnyPart), NEW p \in Seq(AnyPart)
    PROVE  f \o p \in Seq(AnyPart) /\ Len(f \o p) = Len(f) + Len(p)
  OBVIOUS
LEMMA PartIsAny ==
    /\ Part \subseteq AnyPart
    /\ \A p \in Part : Torn(p) \in AnyPart
    /\ \A p \in AnyPart : Hole(p) \in AnyPart
  <1>1. \A p \in AnyPart : p[1] \in Parts
    <2> SUFFICES ASSUME NEW p \in AnyPart PROVE p[1] \in Parts
      OBVIOUS
    <2>1. CASE p \in {"chunk", "index", "summary"} \X Nat
      BY <2>1 DEF Parts
    <2>2. CASE p \in {"head", "body"} \X Messages
      BY <2>2 DEF Parts
    <2>3. CASE p \in {"torn", "hole"} \X Parts
      BY <2>3 DEF Parts
    <2>. QED BY <2>1, <2>2, <2>3, Zenon DEF AnyPart, Part
  <1>2. Part \subseteq AnyPart
    BY Zenon DEF AnyPart
  <1>3. \A x \in Parts : <<"torn", x>> \in AnyPart /\ <<"hole", x>> \in AnyPart
    BY DEF AnyPart
  <1>. QED BY <1>1, <1>2, <1>3, Zenon DEF Torn, Hole
LEMMA SeqPartIsAny == Seq(Part) \subseteq Seq(AnyPart)
  <1>1. Part \subseteq AnyPart
    BY PartIsAny
  <1> SUFFICES ASSUME NEW p \in Seq(Part) PROVE p \in Seq(AnyPart)
    OBVIOUS
  <1>2. p \in [1..Len(p) -> Part] /\ Len(p) \in Nat
    OBVIOUS
  <1>. QED BY <1>1, <1>2
LEMMA CutTyped ==
    ASSUME NEW p \in Seq(Part), NEW j \in 0..Len(p)
    PROVE  /\ Cut(p, j) \in Seq(Part) /\ Len(Cut(p, j)) = j
           /\ \A i \in 1..j : Cut(p, j)[i] = p[i]
  BY DEF Cut
LEMMA CutsTyped ==
    ASSUME NEW p \in Seq(Part), NEW c \in Cuts(p)
    PROVE  c \in Seq(AnyPart)
  <1>1. CASE c \in {Cut(p, j) : j \in 0..Len(p)}
    <2>1. PICK j \in 0..Len(p) : c = Cut(p, j)
      BY <1>1
    <2>. QED BY <2>1, CutTyped, SeqPartIsAny, Zenon
  <1>2. CASE c \in {Append(Cut(p, j), Torn(p[j + 1])) : j \in 0..Len(p) - 1}
    <2>1. PICK j \in 0..Len(p) - 1 : c = Append(Cut(p, j), Torn(p[j + 1]))
      BY <1>2
    <2>2. j \in 0..Len(p) /\ p[j + 1] \in Part
      OBVIOUS
    <2>3. Cut(p, j) \in Seq(AnyPart) /\ Torn(p[j + 1]) \in AnyPart
      BY <2>2, CutTyped, SeqPartIsAny, PartIsAny, Zenon
    <2>. QED BY <2>1, <2>3
  <1>. QED BY <1>1, <1>2, Zenon DEF Cuts
LEMMA NewPartsTyped ==
    ASSUME item \in Messages PROVE NewParts \in Seq(Part)
  <1>1. Header(0) \in Part /\ <<"head", item>> \in Part /\ <<"body", item>> \in Part
    BY PartsTyped
  <1>2. Record(item) \in Seq(Part)
    BY <1>1 DEF Record
  <1>3. (IF chunk = 0 THEN <<Header(0)>> ELSE <<>>) \in Seq(Part)
    BY <1>1
  <1>. QED BY <1>2, <1>3 DEF NewParts
LEMMA PendingTyped ==
    ASSUME TypeInv PROVE Pending \in Seq(Part)
  <1>1. /\ buffer \in Seq(Part) /\ Index(records) \in Part /\ Summary(sealed) \in Part
        /\ writer = "record" => item \in Messages
    BY PartsTyped DEF TypeInv, FileTyped, Room
  <1>2. writer = "record" => buffer \o NewParts \in Seq(Part)
    BY <1>1, NewPartsTyped
  <1>3. Append(buffer, Index(records)) \in Seq(Part)
    BY <1>1
  <1>4. <<Summary(sealed)>> \in Seq(Part) /\ <<>> \in Seq(Part)
    BY <1>1
  <1>. QED BY <1>1, <1>2, <1>3, <1>4 DEF Pending
LEMMA WrittenTyped ==
    ASSUME TypeInv, NEW c \in Seq(AnyPart), Written(c)
    PROVE  disk' \in Seq(AnyPart) /\ Len(disk') \in Nat /\ Len(disk) <= Len(disk')
  BY PartsAppend DEF TypeInv, FileTyped, Written

\* A step of the writer keeps it.
LEMMA TypeWriter ==
    ASSUME TypeInv, WriterStep \/ WriterFails, UNCHANGED bvars
    PROVE  TypeInv'
  <1>1. ExecTyped' /\ Left' /\ (outage' = outage /\ (outage # "no" => writer' = "gone") => Ended')
    <2>1. ExecTyped'
      BY DEF TypeInv, ExecTyped, bvars
    <2>2. Left'
      BY DEF TypeInv, Left, bvars
    <2>3. outage' = outage /\ (outage # "no" => writer' = "gone") => Ended'
      BY DEF TypeInv, Ended, Gone, bvars
    <2>. QED BY <2>1, <2>2, <2>3
  <1>2. ASSUME writer # "gone", outage' = outage PROVE Ended'
    BY <1>1, <1>2 DEF TypeInv, Ended, Gone
  <1> DEFINE Rest == FileTyped' /\ WriterTyped' /\ QueueTyped' /\ Room' /\ writer # "gone" /\ outage' = outage
  <1>3. ASSUME Rest PROVE TypeInv'
    BY <1>1, <1>2, <1>3 DEF TypeInv
  <1>a. /\ FileTyped /\ WriterTyped /\ QueueTyped /\ Room
        /\ QueueCapacity \in Nat /\ CheckpointRecords \in Nat /\ CheckpointRecords > 0
    BY RecordingAssumption DEF TypeInv
  <1>b. \A p \in Seq(Part) : p \in Seq(AnyPart)
    BY SeqPartIsAny, Zenon
  <1>c. ASSUME UNCHANGED file PROVE FileTyped'
    BY <1>a, <1>c DEF FileTyped, file
  <1>d. ASSUME UNCHANGED <<queue, closed, outage, accepted>>, qclosed' \in BOOLEAN PROVE QueueTyped'
    BY <1>a, <1>d DEF QueueTyped
  <1>e. ASSUME UNCHANGED <<synced, chunk, records, sealed>>, disk' \in Seq(AnyPart),
               Len(disk') \in Nat, Len(disk) <= Len(disk'), buffer' \in Seq(Part)
        PROVE  FileTyped'
    BY <1>a, <1>e DEF FileTyped
  <1>4. CASE Take
    <2>1. FileTyped'
      BY <1>4, <1>c DEF Take
    <2>2. WriterTyped' /\ Room'
      <3>1. queue # <<>> => Head(queue) \in Messages \cup {EOS}
        BY <1>a DEF QueueTyped
      <3>. QED BY <1>4, <1>a, <3>1 DEF Take, WriterTyped, Room, WriterGoes, file
    <2>3. QueueTyped'
      BY <1>4, <1>a DEF Take, QueueTyped
    <2>. QED BY <1>4, <2>1, <2>2, <2>3, <1>3 DEF Take
  <1>5. CASE WriteRecord
    <2>1. PICK j \in {0} \cup Len(buffer)..Len(buffer \o NewParts) :
            /\ Written(Cut(buffer \o NewParts, j))
            /\ buffer' = SubSeq(buffer \o NewParts, j + 1, Len(buffer \o NewParts))
      BY <1>5, Zenon DEF WriteRecord
    <2>2. item \in Messages /\ buffer \in Seq(Part) /\ disk \in Seq(AnyPart)
      BY <1>5, <1>a DEF WriteRecord, Room, FileTyped
    <2>3. PICK p \in Seq(Part) : p = buffer \o NewParts
      <3>1. NewParts \in Seq(Part)
        BY <2>2, NewPartsTyped
      <3>2. buffer \o NewParts \in Seq(Part)
        BY <2>2, <3>1
      <3>. QED BY <3>2, Zenon
    <2>4. j \in 0..Len(p)
      BY <2>1, <2>2, <2>3
    <2>5. Cut(p, j) \in Seq(AnyPart) /\ SubSeq(p, j + 1, Len(p)) \in Seq(Part)
      <3>1. Cut(p, j) \in Seq(AnyPart)
        BY <2>4, <1>b, CutTyped, Zenon
      <3>. QED BY <2>4, <3>1
    <2>6. disk' \in Seq(AnyPart) /\ Len(disk') \in Nat /\ Len(disk) <= Len(disk')
      BY <2>1, <2>3, <2>5, WrittenTyped, Zenon
    <2>7. chunk' \in Nat /\ records' \in 0..CheckpointRecords /\ UNCHANGED <<synced, sealed>>
          /\ records' = records + 1
      <3>1. Len(disk) \in Nat /\ Len(buffer) \in Nat /\ chunk \in Nat /\ records \in 0..CheckpointRecords
        BY <1>a DEF FileTyped
      <3>. QED BY <1>5, <1>a, <3>1 DEF WriteRecord, Room
    <2>8. FileTyped'
      <3>1. buffer' \in Seq(Part)
        BY <2>1, <2>3, <2>5, Zenon
      <3>2. synced \in 0..Len(disk) /\ sealed \in Nat
        BY <1>a DEF FileTyped
      <3>. QED BY <2>6, <2>7, <3>1, <3>2 DEF FileTyped
    <2>9. QueueTyped'
      BY <1>5, <1>a DEF WriteRecord, QueueTyped
    <2>10. WriterTyped' /\ writer # "gone" /\ outage' = outage
      BY <1>5, <1>a DEF WriteRecord, WriterTyped, WriterGoes
    <2>11. Room'
      <3>1. writer' = IF records + 1 >= CheckpointRecords THEN "index" ELSE "get"
        BY <1>5, Zenon DEF WriteRecord, WriterGoes
      <3>2. records \in Nat
        BY <1>a DEF FileTyped
      <3>. QED BY <2>7, <3>1, <3>2, <1>a DEF Room
    <2>. QED BY <2>8, <2>9, <2>10, <2>11, <1>3, Zenon
  <1>6. CASE RecordRaises
    <2>1. chunk' \in Nat /\ buffer' \in Seq(Part)
      <3>1. Header(0) \in Part
        BY PartsTyped
      <3>2. Len(disk) \in Nat /\ Len(buffer) \in Nat /\ chunk \in Nat /\ buffer \in Seq(Part)
        BY <1>a DEF FileTyped
      <3> HIDE DEF Header
      <3>. QED BY <1>6, <3>1, <3>2 DEF RecordRaises
    <2>2. FileTyped'
      BY <1>6, <1>a, <2>1 DEF RecordRaises, FileTyped
    <2>3. WriterTyped' /\ Room' /\ writer # "gone" /\ outage' = outage
      BY <1>6, <1>a DEF RecordRaises, WriterTyped, Room, WriterRaises, WriterGoes
    <2>4. QueueTyped'
      BY <1>6, <1>a DEF RecordRaises, QueueTyped, WriterRaises, WriterTyped
    <2>. QED BY <2>2, <2>3, <2>4, <1>3, Zenon
  <1>7. CASE Finish
    <2>1. FileTyped' /\ QueueTyped'
      BY <1>7, <1>a, <1>c, <1>d DEF Finish, QueueTyped
    <2>2. WriterTyped' /\ Room' /\ writer # "gone" /\ outage' = outage
      BY <1>7, <1>a DEF Finish, WriterTyped, Room, WriterGoes
    <2>. QED BY <2>1, <2>2, <1>3, Zenon
  <1>8. CASE WriteIndex
    <2>1. Append(buffer, Index(records)) \in Seq(AnyPart)
      <3>1. PICK x \in Part : x = Index(records)
        <4>1. records \in Nat
          BY <1>a DEF FileTyped
        <4>. QED BY <4>1, PartsTyped, Zenon
      <3>2. Append(buffer, x) \in Seq(Part)
        BY <1>a DEF FileTyped
      <3>. QED BY <3>1, <3>2, <1>b, Zenon
    <2>2. FileTyped'
      <3>1. Written(Append(buffer, Index(records))) /\ buffer' = <<>>
        BY <1>8, Zenon DEF WriteIndex
      <3>2. disk' \in Seq(AnyPart) /\ Len(disk') \in Nat /\ Len(disk) <= Len(disk')
        BY <2>1, <3>1, WrittenTyped, Zenon
      <3>. QED BY <1>8, <3>1, <3>2, <1>e DEF WriteIndex
    <2>3. WriterTyped' /\ Room' /\ QueueTyped' /\ writer # "gone" /\ outage' = outage
      BY <1>8, <1>a, <1>d DEF WriteIndex, WriterTyped, Room, WriterGoes, QueueTyped
    <2>. QED BY <2>2, <2>3, <1>3, Zenon
  <1>9. CASE Seal
    <2>1. PICK x \in AnyPart : x = Header(records)
      <3>1. records \in Nat
        BY <1>a DEF FileTyped
      <3>. QED BY <3>1, PartsTyped, PartIsAny
    <2>2. disk' = [disk EXCEPT ![chunk] = x]
      BY <1>9, <2>1, Zenon DEF Seal
    <2>3. disk' \in Seq(AnyPart) /\ Len(disk') = Len(disk) /\ Len(disk) \in Nat
      <3>1. disk \in [1..Len(disk) -> AnyPart] /\ Len(disk) \in Nat
        BY <1>a DEF FileTyped
      <3>2. disk' \in [1..Len(disk) -> AnyPart]
        BY <2>2, <3>1
      <3>. QED BY <3>1, <3>2
    <2>4. FileTyped'
      BY <1>9, <2>3, <1>a DEF Seal, FileTyped
    <2>5. WriterTyped' /\ Room' /\ QueueTyped' /\ writer # "gone" /\ outage' = outage
      BY <1>9, <1>a, <1>d DEF Seal, WriterTyped, Room, WriterGoes, QueueTyped
    <2>. QED BY <2>4, <2>5, <1>3, Zenon
  <1>10. CASE Sync
    <2>1. FileTyped'
      BY <1>10, <1>a DEF Sync, FileTyped
    <2>2. WriterTyped' /\ Room' /\ QueueTyped' /\ writer # "gone" /\ outage' = outage
      BY <1>10, <1>a, <1>d DEF Sync, WriterTyped, Room, WriterGoes, QueueTyped
    <2>. QED BY <2>1, <2>2, <1>3, Zenon
  <1>11. CASE WriteSummary
    <2>1. <<Summary(sealed)>> \in Seq(AnyPart)
      <3>1. PICK x \in Part : x = Summary(sealed)
        BY <1>a, PartsTyped, Zenon DEF FileTyped
      <3>2. <<x>> \in Seq(Part)
        OBVIOUS
      <3>. QED BY <3>1, <3>2, <1>b, Zenon
    <2>2. FileTyped'
      <3>1. Written(<<Summary(sealed)>>) /\ buffer' = buffer
        BY <1>11, Zenon DEF WriteSummary
      <3>2. disk' \in Seq(AnyPart) /\ Len(disk') \in Nat /\ Len(disk) <= Len(disk')
        BY <2>1, <3>1, WrittenTyped, Zenon
      <3>3. buffer \in Seq(Part)
        BY <1>a DEF FileTyped
      <3>. QED BY <1>11, <3>1, <3>2, <3>3, <1>e DEF WriteSummary
    <2>3. WriterTyped' /\ Room' /\ QueueTyped' /\ writer # "gone" /\ outage' = outage
      BY <1>11, <1>a, <1>d DEF WriteSummary, WriterTyped, Room, WriterGoes, QueueTyped
    <2>. QED BY <2>2, <2>3, <1>3, Zenon
  <1>12. CASE SyncEnd
    <2>1. FileTyped'
      BY <1>12, <1>a DEF SyncEnd, FileTyped
    <2>2. WriterTyped' /\ Room' /\ QueueTyped' /\ writer # "gone" /\ outage' = outage
      BY <1>12, <1>a, <1>d DEF SyncEnd, WriterTyped, Room, WriterGoes, QueueTyped
    <2>. QED BY <2>1, <2>2, <1>3, Zenon
  <1>13. CASE DiskFull
    <2>1. PICK c \in Cuts(Pending) : Written(c)
      BY <1>13, Zenon DEF DiskFull
    <2>2. c \in Seq(AnyPart)
      BY PendingTyped, CutsTyped, Zenon
    <2>3. disk' \in Seq(AnyPart) /\ Len(disk') \in Nat /\ Len(disk) <= Len(disk')
      BY <2>1, <2>2, WrittenTyped, Zenon
    <2>4. FileTyped'
      BY <1>13, <2>3, <1>e DEF DiskFull
    <2>5. WriterTyped' /\ Room' /\ writer # "gone" /\ outage' = outage
      BY <1>13, <1>a DEF DiskFull, WriterTyped, Room, WriterRaises, WriterGoes
    <2>6. QueueTyped'
      BY <1>13, <1>a DEF DiskFull, QueueTyped, WriterRaises, WriterTyped
    <2>. QED BY <2>4, <2>5, <2>6, <1>3, Zenon
  <1>14. CASE SyncFails
    <2>1. FileTyped'
      BY <1>14, <1>c DEF SyncFails
    <2>2. WriterTyped' /\ Room' /\ writer # "gone" /\ outage' = outage
      BY <1>14, <1>a DEF SyncFails, WriterTyped, Room, WriterRaises, WriterGoes
    <2>3. QueueTyped'
      BY <1>14, <1>a DEF SyncFails, QueueTyped, WriterRaises, WriterTyped
    <2>. QED BY <2>1, <2>2, <2>3, <1>3, Zenon
  <1>15. CASE Abort
    <2>1. Written(buffer) /\ buffer' = <<>> /\ buffer \in Seq(AnyPart)
      BY <1>15, <1>a, <1>b, Zenon DEF Abort, FileTyped
    <2>2. disk' \in Seq(AnyPart) /\ Len(disk') \in Nat /\ Len(disk) <= Len(disk')
      BY <2>1, WrittenTyped, Zenon
    <2>3. FileTyped'
      BY <1>15, <2>1, <2>2, <1>e DEF Abort
    <2>4. WriterTyped' /\ Room' /\ QueueTyped' /\ writer # "gone" /\ outage' = outage
      BY <1>15, <1>a, <1>d DEF Abort, WriterTyped, Room, WriterGoes, QueueTyped
    <2>. QED BY <2>3, <2>4, <1>3, Zenon
  <1>16. CASE Release
    <2>1. FileTyped'
      BY <1>16, <1>c DEF Release
    <2>2. WriterTyped' /\ Room' /\ QueueTyped' /\ writer # "gone" /\ outage' = outage
      BY <1>16, <1>a DEF Release, WriterTyped, Room, WriterGoes, QueueTyped, file
    <2>. QED BY <2>1, <2>2, <1>3, Zenon
  <1> HIDE DEF Rest
  <1>. QED BY <1>4, <1>5, <1>6, <1>7, <1>8, <1>9, <1>10, <1>11, <1>12, <1>13, <1>14,
              <1>15, <1>16, Zenon DEF WriterStep, WriterFails

LEMMA TypeOutage ==
    ASSUME TypeInv, Outage, ExecutionGone PROVE TypeInv'
  <1>a. /\ FileTyped /\ WriterTyped /\ QueueTyped /\ ExecTyped
        /\ QueueCapacity \in Nat /\ CheckpointRecords \in Nat /\ CheckpointRecords > 0
    BY RecordingAssumption DEF TypeInv
  <1>b. /\ disk \in Seq(AnyPart) /\ Len(disk) \in Nat /\ synced \in 0..Len(disk) /\ sealed \in Nat
    BY <1>a DEF FileTyped
  <1>1. MemoryGone /\ outage' \in {"kill", "power"}
    BY Zenon DEF Outage, Killed, PowerFails
  <1>2. disk' \in Seq(AnyPart) /\ Len(disk') \in Nat /\ synced <= Len(disk')
    <2>1. CASE Killed
      <3>1. PICK c \in Cuts(Pending) : Written(c)
        BY <2>1, Zenon DEF Killed
      <3>2. c \in Seq(AnyPart)
        BY PendingTyped, CutsTyped, Zenon
      <3>3. disk' \in Seq(AnyPart) /\ Len(disk') \in Nat /\ Len(disk) <= Len(disk')
        BY <3>1, <3>2, WrittenTyped, Zenon
      <3>. QED BY <3>3, <1>b
    <2>2. CASE PowerFails
      <3>a. PICK f \in {disk, Unsealed} : \E n \in synced..Len(disk) :
              \E lost \in {0} \cup synced + 1..n :
                  disk' = [i \in 1..n |-> IF i = lost THEN Hole(f[i]) ELSE f[i]]
        BY <2>2, Zenon DEF PowerFails
      <3>b. PICK n \in synced..Len(disk) : \E lost \in {0} \cup synced + 1..n :
                  disk' = [i \in 1..n |-> IF i = lost THEN Hole(f[i]) ELSE f[i]]
        BY <3>a, Zenon
      <3>1. PICK lost \in {0} \cup synced + 1..n :
                  disk' = [i \in 1..n |-> IF i = lost THEN Hole(f[i]) ELSE f[i]]
        BY <3>b, Zenon
      <3>2. f \in Seq(AnyPart) /\ Len(f) = Len(disk)
        <4>1. CASE f = disk
          BY <4>1, <1>b
        <4>2. CASE f = Unsealed
          <5>1. PICK x \in AnyPart : x = Header(0)
            BY PartsTyped, PartIsAny
          <5>2. disk \in [1..Len(disk) -> AnyPart]
            BY <1>b
          <5>3. [disk EXCEPT ![chunk] = x] \in [1..Len(disk) -> AnyPart]
            BY <5>1, <5>2
          <5>4. [disk EXCEPT ![chunk] = x] \in Seq(AnyPart) /\ Len([disk EXCEPT ![chunk] = x]) = Len(disk)
            BY <5>3, <1>b
          <5>. QED BY <4>2, <5>1, <5>4, <1>b, Zenon DEF Unsealed
        <4>. QED BY <3>a, <4>1, <4>2, Zenon
      <3>3. n \in Nat /\ synced <= n /\ n <= Len(disk)
        BY <3>b, <1>b
      <3>4. \A i \in 1..n : f[i] \in AnyPart
        BY <3>2, <3>3
      <3>5. \A i \in 1..n : Hole(f[i]) \in AnyPart
        BY <3>4, PartIsAny, Zenon
      <3>6. disk' \in [1..n -> AnyPart]
        BY <3>1, <3>4, <3>5
      <3>7. disk' \in Seq(AnyPart) /\ Len(disk') = n
        BY <3>3, <3>6
      <3>. QED BY <3>3, <3>7
    <2>. QED BY <2>1, <2>2 DEF Outage
  <1>3. FileTyped'
    <2>1. /\ buffer' = <<>> /\ chunk' = 0 /\ records' = 0 /\ synced' = synced /\ sealed' = sealed
      BY <1>1, Zenon DEF MemoryGone
    <2>2. 0 \in 0..CheckpointRecords /\ 0 \in Nat /\ synced \in 0..Len(disk')
      BY <1>a, <1>b, <1>2
    <2>3. buffer' \in Seq(Part)
      BY <2>1
    <2>. QED BY <2>1, <2>2, <2>3, <1>2, <1>b, Zenon DEF FileTyped
  <1>4. WriterTyped'
    BY <1>1 DEF MemoryGone, WriterTyped
  <1>5. QueueTyped'
    <2>1. queue' = <<>> /\ qclosed' = FALSE /\ closed' = FALSE /\ accepted' = accepted
      BY <1>1, Zenon DEF MemoryGone
    <2>2. queue' \in Seq(Messages \cup {EOS}) /\ Len(queue') = 0
      BY <2>1
    <2>3. Len(queue') <= QueueCapacity
      <3>1. \A x : x = 0 => x <= QueueCapacity
        BY <1>a
      <3>. QED BY <2>2, <3>1, Zenon
    <2>4. qclosed' \in BOOLEAN /\ closed' \in BOOLEAN /\ outage' \in {"no", "kill", "power"}
      BY <1>1, <2>1
    <2>. QED BY <1>a, <2>1, <2>2, <2>3, <2>4, Zenon DEF QueueTyped
  <1>6. ExecTyped'
    <2>1. \A w \in Workers : Len(Output[w]) \in Nat
      BY BackendAssumption
    <2>2. published' \in [Workers -> Nat] /\ \A w \in Workers : published'[w] <= Len(Output[w])
      BY <2>1 DEF ExecutionGone
    <2>3. worker' \in [Workers -> {"created", "loop", "write", "put", "done", "gone"}]
      BY DEF ExecutionGone
    <2>. QED BY <2>2, <2>3 DEF ExecTyped, ExecutionGone
  <1>7. Room' /\ Left' /\ Ended'
    BY <1>1 DEF Room, Left, Ended, Gone, MemoryGone, ExecutionGone
  <1>. QED BY <1>3, <1>4, <1>5, <1>6, <1>7 DEF TypeInv

\* The workers, the thread of the execution and the caller of stop.
LEMMA TypeRest ==
    ASSUME TypeInv,
           \/ \E w \in Workers : WorkerStep(w) \/ NodeFails(w)
           \/ MainStep \/ RunRaises \/ DeadlinePasses \/ JoinGivesUp
           \/ StopStep
    PROVE  TypeInv'
  <1>a. /\ FileTyped /\ WriterTyped /\ QueueTyped /\ ExecTyped /\ Room /\ Left /\ Ended
    BY DEF TypeInv
  <1>b. ASSUME outage = "no", outage' = outage PROVE Ended'
    BY <1>b DEF Ended
  <1>c. outage # "no" => /\ main = "gone" /\ stopper = "gone"
                         /\ \A w \in Workers : worker[w] = "gone"
    BY <1>a DEF Ended, Gone
  <1>d. ASSUME UNCHANGED file, UNCHANGED <<writer, item, finishing, error>>
        PROVE  FileTyped' /\ WriterTyped' /\ Room'
    BY <1>a, <1>d DEF FileTyped, WriterTyped, Room, file
  <1>e. ASSUME UNCHANGED rvars
        PROVE  FileTyped' /\ WriterTyped' /\ Room' /\ QueueTyped' /\ outage' = outage
    BY <1>a, <1>d, <1>e DEF QueueTyped, rvars
  <1>f. ASSUME UNCHANGED <<worker, published>> PROVE Left'
    BY <1>a, <1>f DEF Left
  <1>g. /\ worker \in [Workers -> {"created", "loop", "write", "put", "done", "gone"}]
        /\ published \in [Workers -> Nat] /\ \A w \in Workers : published[w] <= Len(Output[w])
        /\ \A w \in Workers : Len(Output[w]) \in Nat /\ Output[w] \in Seq(Messages)
    BY <1>a, BackendAssumption DEF ExecTyped
  <1>h. ASSUME NEW w \in Workers, NEW place \in {"created", "loop", "write", "put", "done", "gone"},
               WorkerGoes(w, place), place \in {"write", "put"} => published[w] < Len(Output[w]),
               published' = published
        PROVE  /\ worker' \in [Workers -> {"created", "loop", "write", "put", "done", "gone"}]
               /\ Left'
    <2>1. worker' \in [Workers -> {"created", "loop", "write", "put", "done", "gone"}]
      BY <1>g, <1>h DEF WorkerGoes
    <2>2. ASSUME NEW v \in Workers, worker'[v] \in {"write", "put"}
          PROVE  published'[v] < Len(Output[v])
      <3>1. CASE v = w
        BY <3>1, <2>2, <1>g, <1>h DEF WorkerGoes
      <3>2. CASE v # w
        BY <3>2, <2>2, <1>a, <1>g, <1>h DEF WorkerGoes, Left
      <3>. QED BY <3>1, <3>2
    <2>. QED BY <2>1, <2>2 DEF Left
  <1>i. ASSUME NEW w \in Workers, Published(w), worker[w] \in {"write", "put"}
        PROVE  /\ worker' \in [Workers -> {"created", "loop", "write", "put", "done", "gone"}]
               /\ published' \in [Workers -> Nat]
               /\ \A v \in Workers : published'[v] <= Len(Output[v])
               /\ Left'
    <2>1. published[w] < Len(Output[w])
      BY <1>a, <1>i DEF Left
    <2>2. worker' \in [Workers -> {"created", "loop", "write", "put", "done", "gone"}]
      BY <1>g, <1>i DEF Published, WorkerGoes
    <2>3. published' \in [Workers -> Nat] /\ \A v \in Workers : published'[v] <= Len(Output[v])
      BY <1>g, <1>i, <2>1 DEF Published
    <2>4. ASSUME NEW v \in Workers, worker'[v] \in {"write", "put"}
          PROVE  published'[v] < Len(Output[v])
      <3>1. v # w /\ worker'[v] = worker[v] /\ published'[v] = published[v]
        BY <2>4, <1>g, <1>i DEF Published, WorkerGoes
      <3>. QED BY <3>1, <2>4, <1>a DEF Left
    <2>. QED BY <2>2, <2>3, <2>4 DEF Left
  <1>1. ASSUME NEW w \in Workers, WorkerLoop(w) PROVE TypeInv'
    <2>1. outage = "no"
      BY <1>1, <1>c, <1>a DEF WorkerLoop
    <2>2. PICK place \in {"write", "done"} :
            WorkerGoes(w, place) /\ (place = "write" => published[w] # Len(Output[w]))
      BY <1>1 DEF WorkerLoop
    <2>3. place = "write" => published[w] < Len(Output[w])
      BY <2>2, <1>g
    <2>4. UNCHANGED rvars /\ published' = published
      BY <1>1, Zenon DEF WorkerLoop
    <2>5. /\ worker' \in [Workers -> {"created", "loop", "write", "put", "done", "gone"}]
          /\ Left'
      BY <2>2, <2>3, <2>4, <1>h
    <2>6. ExecTyped'
      BY <1>1, <1>a, <2>5 DEF WorkerLoop, ExecTyped
    <2>. QED BY <2>1, <2>4, <2>5, <2>6, <1>b, <1>e, Zenon DEF TypeInv
  <1>2. ASSUME NEW w \in Workers, NodeFails(w) PROVE TypeInv'
    <2>1. outage = "no"
      BY <1>2, <1>c, <1>a DEF NodeFails
    <2>4. UNCHANGED rvars /\ published' = published /\ WorkerGoes(w, "done")
      BY <1>2, Zenon DEF NodeFails, WorkerRaises
    <2>5. /\ worker' \in [Workers -> {"created", "loop", "write", "put", "done", "gone"}]
          /\ Left'
      BY <2>4, <1>h
    <2>6. ExecTyped'
      BY <1>2, <1>a, <2>5 DEF NodeFails, WorkerRaises, ExecTyped
    <2>. QED BY <2>1, <2>4, <2>5, <2>6, <1>b, <1>e, Zenon DEF TypeInv
  <1>3. ASSUME NEW w \in Workers, CheckWrite(w) PROVE TypeInv'
    <2>1. outage = "no" /\ worker[w] = "write"
      BY <1>3, <1>c, <1>a DEF CheckWrite
    <2>2. UNCHANGED <<rvars, state, main, raised, late, stopper, answer>>
      BY <1>3, Zenon DEF CheckWrite
    <2>3. published[w] < Len(Output[w])
      BY <2>1, <1>a DEF Left
    <2>4. CASE Published(w) /\ UNCHANGED <<stop, failed>>
      <3>1. ExecTyped'
        BY <2>1, <2>2, <2>4, <1>a, <1>i DEF ExecTyped
      <3>. QED BY <2>1, <2>2, <2>4, <3>1, <1>b, <1>e, <1>i DEF TypeInv
    <2>5. CASE WorkerRaises(w) /\ UNCHANGED published
      <3>1. /\ worker' \in [Workers -> {"created", "loop", "write", "put", "done", "gone"}]
            /\ Left'
        BY <2>5, <1>h DEF WorkerRaises
      <3>2. ExecTyped'
        BY <2>2, <2>5, <3>1, <1>a DEF ExecTyped, WorkerRaises
      <3>. QED BY <2>1, <2>2, <3>1, <3>2, <1>b, <1>e DEF TypeInv
    <2>6. CASE WorkerGoes(w, "put") /\ UNCHANGED <<stop, failed, published>>
      <3>1. /\ worker' \in [Workers -> {"created", "loop", "write", "put", "done", "gone"}]
            /\ Left'
        BY <2>3, <2>6, <1>h
      <3>2. ExecTyped'
        BY <2>2, <2>6, <3>1, <1>a DEF ExecTyped
      <3>. QED BY <2>1, <2>2, <3>1, <3>2, <1>b, <1>e DEF TypeInv
    <2>. QED BY <2>4, <2>5, <2>6, <1>3, Zenon DEF CheckWrite
  <1>4. ASSUME NEW w \in Workers, PutMessage(w) PROVE TypeInv'
    <2>1. outage = "no" /\ worker[w] = "put"
      BY <1>4, <1>c, <1>a DEF PutMessage
    <2>2. /\ UNCHANGED <<file, writer, item, finishing, error, outage>>
          /\ UNCHANGED <<state, main, raised, late, stopper, answer>>
      BY <1>4, Zenon DEF PutMessage, Put
    <2>3. published[w] < Len(Output[w])
      BY <2>1, <1>a DEF Left
    <2>4. PICK m \in Messages : m = Output[w][published[w] + 1]
      <3>1. published[w] + 1 \in 1..Len(Output[w])
        BY <2>3, <1>g
      <3>2. Output[w][published[w] + 1] \in Messages
        BY <3>1, <1>g
      <3>. QED BY <3>2, Zenon
    <2>5. QueueTyped'
      <3>1. Put(m)
        BY <1>4, <2>4, Zenon DEF PutMessage
      <3>2. CASE qclosed
        BY <3>1, <3>2, <1>a DEF Put, QueueTyped
      <3>3. CASE ~qclosed
        <4>1. /\ queue' = Append(queue, m) /\ accepted' = Append(accepted, m)
              /\ Len(queue) < QueueCapacity /\ UNCHANGED <<qclosed, closed, outage>>
          BY <3>1, <3>3, Zenon DEF Put, CanPut
        <4>2. queue \in Seq(Messages \cup {EOS}) /\ accepted \in Seq(Messages) /\ QueueCapacity \in Nat
          BY <1>a, RecordingAssumption DEF QueueTyped
        <4>3. /\ queue' \in Seq(Messages \cup {EOS}) /\ accepted' \in Seq(Messages)
              /\ Len(queue') <= QueueCapacity
          BY <4>1, <4>2
        <4>. QED BY <4>1, <4>3, <1>a DEF QueueTyped
      <3>. QED BY <3>2, <3>3
    <2>6. CASE WorkerRaises(w) /\ UNCHANGED published
      <3>1. /\ worker' \in [Workers -> {"created", "loop", "write", "put", "done", "gone"}]
            /\ Left'
        BY <2>6, <1>h DEF WorkerRaises
      <3>2. ExecTyped'
        BY <2>2, <2>6, <3>1, <1>a DEF ExecTyped, WorkerRaises
      <3>. QED BY <2>1, <2>2, <2>5, <3>1, <3>2, <1>b, <1>d DEF TypeInv
    <2>7. CASE Published(w) /\ UNCHANGED <<stop, failed>>
      <3>1. ExecTyped'
        BY <2>1, <2>2, <2>7, <1>a, <1>i DEF ExecTyped
      <3>. QED BY <2>1, <2>2, <2>5, <2>7, <3>1, <1>b, <1>d, <1>i DEF TypeInv
    <2>. QED BY <2>6, <2>7, <1>4, Zenon DEF PutMessage
  <1>5. ASSUME UNCHANGED rvars, UNCHANGED <<worker, published>>, ExecTyped', outage = "no"
        PROVE  TypeInv'
    BY <1>5, <1>b, <1>e, <1>f DEF TypeInv
  <1>6. CASE Begin
    <2>1. ExecTyped'
      BY <1>6, <1>a DEF Begin, MainGoes, ExecTyped, ExecutionStates
    <2>. QED BY <1>6, <1>c, <1>5, <1>a, <2>1 DEF Begin
  <1>7. CASE StartWorkers
    <2>1. worker' \in [Workers -> {"created", "loop", "write", "put", "done", "gone"}] /\ Left'
      BY <1>7 DEF StartWorkers, Left
    <2>2. ExecTyped'
      BY <1>7, <1>a, <2>1 DEF StartWorkers, MainGoes, ExecTyped
    <2>3. outage = "no" /\ UNCHANGED rvars
      BY <1>7, <1>c DEF StartWorkers
    <2>. QED BY <2>1, <2>2, <2>3, <1>b, <1>e DEF TypeInv
  <1>8. CASE WorkersLeft
    <2>1. ExecTyped'
      BY <1>8, <1>a DEF WorkersLeft, MainGoes, ExecTyped
    <2>. QED BY <1>8, <1>c, <1>5, <2>1 DEF WorkersLeft
  <1>9. CASE CloseRecording
    <2>1. ExecTyped'
      BY <1>9, <1>a DEF CloseRecording, MainGoes, ExecTyped
    <2>2. QueueTyped'
      BY <1>9, <1>a DEF CloseRecording, SetClosed, QueueTyped
    <2>3. outage = "no" /\ outage' = outage
      BY <1>9, <1>c DEF CloseRecording, SetClosed
    <2>. QED BY <1>9, <2>1, <2>2, <2>3, <1>b, <1>d, <1>f DEF TypeInv, CloseRecording, SetClosed
  <1>10. CASE EndRecording
    <2>1. ExecTyped'
      BY <1>10, <1>a DEF EndRecording, MainGoes, ExecTyped
    <2>2. QueueTyped'
      <3>1. CASE qclosed
        BY <1>10, <3>1, <1>a DEF EndRecording, PutEos, QueueTyped
      <3>2. CASE ~qclosed
        <4>1. /\ queue' = Append(queue, EOS) /\ accepted' = accepted
              /\ Len(queue) < QueueCapacity /\ UNCHANGED <<qclosed, closed, outage>>
          BY <1>10, <3>2, Zenon DEF EndRecording, PutEos, CanPut
        <4>2. queue \in Seq(Messages \cup {EOS}) /\ QueueCapacity \in Nat
          BY <1>a, RecordingAssumption DEF QueueTyped
        <4>3. queue' \in Seq(Messages \cup {EOS}) /\ Len(queue') <= QueueCapacity
          BY <4>1, <4>2
        <4>. QED BY <4>1, <4>3, <1>a DEF QueueTyped
      <3>. QED BY <3>1, <3>2
    <2>3. outage = "no" /\ outage' = outage
      BY <1>10, <1>c DEF EndRecording, PutEos
    <2>. QED BY <1>10, <2>1, <2>2, <2>3, <1>b, <1>d, <1>f DEF TypeInv, EndRecording, PutEos
  <1>11. CASE JoinWriter
    <2>1. ExecTyped'
      BY <1>11, <1>a DEF JoinWriter, MainGoes, ExecTyped, WriterTyped
    <2>. QED BY <1>11, <1>c, <1>5, <2>1 DEF JoinWriter
  <1>12. CASE Report
    <2>1. ExecTyped'
      BY <1>12, <1>a DEF Report, MainGoes, ExecTyped
    <2>. QED BY <1>12, <1>c, <1>5, <2>1 DEF Report
  <1>13. CASE Return
    <2>1. ExecTyped'
      BY <1>13, <1>a DEF Return, MainGoes, ExecTyped, ExecutionStates
    <2>. QED BY <1>13, <1>c, <1>5, <2>1 DEF Return
  <1>14. CASE RunRaises
    <2>1. ExecTyped'
      BY <1>14, <1>a DEF RunRaises, MainGoes, ExecTyped
    <2>. QED BY <1>14, <1>c, <1>5, <2>1 DEF RunRaises
  <1>15. CASE DeadlinePasses
    <2>1. ExecTyped'
      BY <1>15, <1>a DEF DeadlinePasses, MainGoes, ExecTyped
    <2>. QED BY <1>15, <1>c, <1>5, <2>1 DEF DeadlinePasses
  <1>16. CASE JoinGivesUp
    <2>1. ExecTyped'
      BY <1>16, <1>a DEF JoinGivesUp, MainGoes, ExecTyped
    <2>. QED BY <1>16, <1>c, <1>5, <2>1 DEF JoinGivesUp
  <1>17. CASE RequestStop
    <2>1. ExecTyped'
      BY <1>17, <1>a DEF RequestStop, ExecTyped
    <2>. QED BY <1>17, <1>c, <1>5, <2>1 DEF RequestStop
  <1>18. CASE MarkStopping
    <2>1. ExecTyped'
      BY <1>18, <1>a DEF MarkStopping, ExecTyped, ExecutionStates
    <2>. QED BY <1>18, <1>c, <1>5, <2>1 DEF MarkStopping
  <1>19. CASE AnswerStop
    <2>1. ExecTyped'
      BY <1>19, <1>a DEF AnswerStop, ExecTyped, ExecutionStates
    <2>. QED BY <1>19, <1>c, <1>5, <2>1 DEF AnswerStop
  <1>. QED BY <1>1, <1>2, <1>3, <1>4, <1>6, <1>7, <1>8, <1>9, <1>10, <1>11, <1>12,
              <1>13, <1>14, <1>15, <1>16, <1>17, <1>18, <1>19, Zenon
           DEF WorkerStep, MainStep, StopStep

LEMMA TypeStep ==
    ASSUME TypeInv, [Next]_vars PROVE TypeInv'
  <1>1. ASSUME UNCHANGED vars PROVE TypeInv'
    BY <1>1 DEF vars, rvars, bvars, file, TypeInv, FileTyped, WriterTyped, QueueTyped,
                ExecTyped, Room, Left, Ended, Gone
  <1>. QED BY <1>1, TypeWriter, TypeOutage, TypeRest, Zenon DEF Next

LEMMA TypeAlways == Spec => []TypeInv
  BY TypeInit, TypeStep, PTL DEF Spec

LEMMA HeadInit ==
    ASSUME Init PROVE HeadInv
  BY DEF Init, RecordingInit, HeadInv, Headless

\* What is written goes behind the head.
LEMMA HeadWriter ==
    ASSUME TypeInv, HeadInv, outage = "no", (WriterStep \/ WriterFails)
    PROVE  HeadInv'
  <1>0. /\ disk \in Seq(AnyPart) /\ Len(disk) \in Nat /\ synced \in 0..Len(disk)
        /\ sealed \in Nat /\ buffer \in Seq(Part)
    BY DEF TypeInv, FileTyped
  <1> USE DEF HeadInv, Headless
  <1>1. CASE Take \/ Finish
    BY <1>1 DEF Take, Finish, WriterGoes, file
  <1>2. CASE WriteRecord
    <2>1. /\ writer = "record" /\ writer' \in {"index", "get"}
          /\ UNCHANGED <<synced, sealed, error, outage>>
      BY <1>2 DEF WriteRecord, WriterGoes
    <2>2. PICK j \in {0} \cup Len(buffer)..Len(buffer \o NewParts) :
             /\ disk' = disk \o SubSeq(buffer \o NewParts, 1, j)
             /\ head' \in {h \in {head, "whole"} :
                             IF h = "whole" THEN j >= Len(buffer) ELSE j = 0}
      BY <1>2 DEF WriteRecord, Written, Cut
    <2>3. head' # "whole" => head' = head /\ j = 0
      BY <2>2
    <2>4. head' # "whole" => disk' = disk
      <3>1. SubSeq(buffer \o NewParts, 1, 0) = <<>>
        OBVIOUS
      <3>2. disk \o <<>> = disk
        BY <1>0, EmptyEnd
      <3>. QED BY <3>1, <3>2, <2>2, <2>3
    <2>. QED BY <2>1, <2>3, <2>4, <2>2
  <1>3. CASE WriteIndex
    <2>1. disk' # <<>>
      <3>1. disk' = disk \o Append(buffer, Index(records))
        BY <1>3 DEF WriteIndex, Written
      <3>2. Append(buffer, Index(records)) \in Seq(Part \cup {Index(records)})
        BY <1>0
      <3>3. Len(Append(buffer, Index(records))) > 0
        BY <1>0
      <3>. QED BY <1>0, <3>1, <3>2, <3>3
    <2>. QED BY <1>3, <2>1 DEF WriteIndex, WriterGoes
  <1>4. CASE Seal
    <2>1. disk' # <<>>
      BY <1>0, <1>4 DEF Seal
    <2>. QED BY <1>4, <2>1 DEF Seal, WriterGoes
  <1>5. CASE Sync
    <2>1. Len(disk) > 0 /\ head = "whole"
      BY <1>0, <1>5 DEF Sync
    <2>. QED BY <1>5, <2>1 DEF Sync, WriterGoes
  <1>6. CASE WriteSummary
    BY <1>6 DEF WriteSummary, WriterGoes
  <1>7. CASE SyncEnd
    <2>1. Durable /\ sealed > 0 => synced' > 0
      BY <1>0, <1>7 DEF SyncEnd
    <2>. QED BY <1>7, <2>1 DEF SyncEnd, WriterGoes
  <1>8. CASE Abort
    <2>1. head' # "whole" => head = "lost" /\ disk' = disk
      <3>1. head' # "whole" => head = "lost" /\ buffer = <<>>
        BY <1>8 DEF Abort
      <3>2. disk \o <<>> = disk
        BY <1>0, EmptyEnd
      <3>. QED BY <3>1, <3>2, <1>8 DEF Abort, Written
    <2>. QED BY <1>8, <2>1 DEF Abort, WriterGoes
  <1>9. CASE Release
    BY <1>9 DEF Release, WriterGoes, file
  <1>10. CASE RecordRaises
    BY <1>10 DEF RecordRaises, WriterRaises, WriterGoes
  <1>11. CASE DiskFull
    <2>1. PICK written \in Cuts(Pending) :
             /\ written # Pending /\ disk' = disk \o written
             /\ head' \in HeadAfter(Pending, written)
      BY <1>11 DEF DiskFull, Written
    <2>2. head # "lost"
      <3>1. ASSUME head = "lost" PROVE FALSE
        <4>1. writer = "abort" /\ buffer = <<>>
          BY <3>1, <1>11 DEF DiskFull
        <4>2. Pending = <<>>
          BY <4>1 DEF Pending
        <4>3. written = <<>>
          BY <4>2, <2>1 DEF Cuts, Cut
        <4>. QED BY <4>2, <4>3, <2>1
      <3>. QED BY <3>1
    <2>3. head' # "whole" => head = "held" /\ head' = "lost" /\ written = <<>>
      BY <2>1, <2>2 DEF HeadAfter
    <2>4. head' # "whole" => disk' = disk
      <3>1. disk \o <<>> = disk
        BY <1>0, EmptyEnd
      <3>. QED BY <3>1, <2>1, <2>3
    <2>5. head' \in {"held", "whole", "lost"}
      BY <2>1 DEF HeadAfter
    <2>. QED BY <1>11, <2>3, <2>4, <2>5 DEF DiskFull, WriterRaises, WriterGoes
  <1>12. CASE SyncFails
    BY <1>12 DEF SyncFails, WriterRaises, WriterGoes, file
  <1>. QED BY <1>1, <1>2, <1>3, <1>4, <1>5, <1>6, <1>7, <1>8, <1>9, <1>10, <1>11, <1>12
           DEF WriterStep, WriterFails

LEMMA HeadOutage ==
    ASSUME TypeInv, HeadInv, Outage PROVE HeadInv'
  <1> USE DEF HeadInv, Headless, MemoryGone
  <1>0. /\ outage = "no" /\ Len(disk) \in Nat /\ synced \in 0..Len(disk) /\ sealed \in Nat
        /\ disk = <<>> => synced = 0
    BY DEF TypeInv, FileTyped, Outage, Killed, PowerFails
  <1>1. CASE Killed
    <2>1. PICK written \in Cuts(Pending) : head' \in HeadAfter(Pending, written)
      BY <1>1 DEF Killed
    <2>2. head' \in {"held", "whole", "lost"} /\ (head' # "whole" => head # "whole")
      BY <2>1 DEF HeadAfter
    <2>. QED BY <1>0, <1>1, <2>2 DEF Killed
  <1>2. CASE PowerFails
    <2>1. head' \in {head, "lost"} \ (IF synced > 0 THEN {"lost"} ELSE {"held"})
      BY <1>2 DEF PowerFails
    <2>2. synced > 0 => head' = "whole"
      BY <1>0, <2>1
    <2>3. ~(synced > 0) => head' \in {"whole", "lost"} /\ (Durable => sealed = 0)
      BY <1>0, <2>1
    <2>. QED BY <1>2, <2>2, <2>3 DEF PowerFails
  <1>. QED BY <1>1, <1>2 DEF Outage

LEMMA HeadStep ==
    ASSUME TypeInv, HeadInv, [Next]_vars PROVE HeadInv'
  <1>1. ASSUME UNCHANGED <<file, writer, error, outage>> PROVE HeadInv'
    BY <1>1 DEF HeadInv, Headless, file
  <1>2. CASE UNCHANGED vars
    BY <1>1, <1>2 DEF vars, rvars
  <1>3. CASE (WriterStep \/ WriterFails) /\ UNCHANGED bvars
    <2>1. writer # "gone"
      BY <1>3 DEF WriterStep, WriterFails, Take, WriteRecord, Finish, WriteIndex, Seal, Sync,
             WriteSummary, SyncEnd, Abort, Release, RecordRaises, DiskFull, SyncFails
    <2>2. outage = "no"
      BY <2>1 DEF TypeInv, Ended, Gone
    <2>. QED BY <1>3, <2>2, HeadWriter
  <1>4. CASE Outage /\ ExecutionGone
    BY <1>4, HeadOutage
  <1>5. CASE \E w \in Workers : WorkerStep(w) \/ NodeFails(w)
    BY <1>1, <1>5 DEF WorkerStep, WorkerLoop, CheckWrite, PutMessage, Put, NodeFails, rvars
  <1>6. CASE MainStep
    BY <1>1, <1>6 DEF MainStep, Begin, StartWorkers, WorkersLeft, CloseRecording, SetClosed,
                      EndRecording, PutEos, JoinWriter, Report, Return, rvars
  <1>7. CASE RunRaises \/ DeadlinePasses \/ JoinGivesUp \/ StopStep
    BY <1>1, <1>7 DEF RunRaises, DeadlinePasses, JoinGivesUp, StopStep, RequestStop,
                      MarkStopping, AnswerStop, rvars
  <1>. QED BY <1>2, <1>3, <1>4, <1>5, <1>6, <1>7 DEF Next

LEMMA HeadAlways == Spec => []HeadInv
  <1>1. TypeInv /\ HeadInv /\ [Next]_vars => HeadInv'
    BY HeadStep
  <1>. QED BY <1>1, HeadInit, TypeAlways, PTL DEF Spec

\* The state of the recording and of the execution has its shape: no queue and no
\* checkpoint exceeds its limit, and no worker publishes more than it has.
THEOREM BackendTypeCorrect == Spec => []TypeOK
  BY TypeAlways, HeadAlways, TypeImplied, PTL

-----------------------------------------------------------------------------
(***************************************************************************)
(* From the workers to the writer.                                         *)
(***************************************************************************)

\* What the writer may be doing.
Modes ==
    /\ error => writer \in {"abort", "release", "done"}
    /\ ~error => writer # "abort"
    /\ qclosed => error \/ writer = "done"
    /\ writer \in {"get", "record"} => ~finishing
    /\ ~error /\ writer \in {"finish", "summary", "sync_end", "release", "done"} => finishing

\* How the thread of the execution comes to its end.
Past == {"join", "report", "return", "ended"}
Course ==
    /\ main \in Past \cup {"close", "eos"} /\ late = {} => AllDone
    /\ main \in {"report", "return", "ended"} => writer = "done"
    /\ main = "leave" => failed \/ raised
    /\ late # {} => failed \/ raised
    /\ main = "report" => ~raised /\ (error => failed)
    /\ main \in {"return", "ended"} /\ ~raised => ~error /\ late = {}
    /\ state \in TerminalStates => main = "ended"
    /\ state = "completed" => ~raised

\* The messages the writer has taken are those accepted first, in their order,
\* and the k messages that are next in the queue follow them: they are all of it,
\* or EOS comes next, and nothing more when no worker has been left behind.
Taken == sealed + records + (IF writer = "record" THEN 1 ELSE 0)
Line(k) ==
    /\ k \in 0..Len(queue) /\ Taken + k <= Len(accepted)
    /\ \A i \in 1..k : queue[i] # EOS /\ queue[i] = accepted[Taken + i]
    /\ k = Len(queue) => Taken + k = Len(accepted)
    /\ k < Len(queue) =>
         /\ queue[k + 1] = EOS /\ main \in Past
         /\ late = {} => k + 1 = Len(queue) /\ Taken + k = Len(accepted)
Drained == main \in Past /\ (late = {} => Taken = Len(accepted))
InHand ==
    /\ writer = "record" => item = accepted[Taken]
    /\ Taken <= Len(accepted)
Queued == IF finishing THEN Drained ELSE \E k \in Nat : Line(k)
Delivery == ~error => InHand /\ Queued

RunInv == outage = "no" => Modes /\ Course /\ Delivery

LEMMA RunInit ==
    ASSUME Init PROVE RunInv
  <1> USE DEF Init, RecordingInit
  <1>1. Modes
    BY DEF Modes
  <1>2. Course
    BY DEF Course, Past, TerminalStates
  <1>3. Delivery
    <2>1. Taken = 0 /\ queue = <<>> /\ accepted = <<>> /\ ~finishing /\ writer = "get"
      BY DEF Taken
    <2>2. Len(queue) = 0 /\ Len(accepted) = 0
      BY <2>1
    <2>3. Line(0)
      BY <2>1, <2>2 DEF Line
    <2>4. InHand
      BY <2>1, <2>2 DEF InHand
    <2>. QED BY <2>1, <2>3, <2>4 DEF Delivery, Queued
  <1>. QED BY <1>1, <1>2, <1>3 DEF RunInv

LEMMA ModesWriter ==
    ASSUME Modes, Course, WriterStep \/ WriterFails, UNCHANGED bvars
    PROVE  Modes' /\ Course'
  <1>1. /\ UNCHANGED <<state, main, raised, failed, worker, late>>
        /\ writer # "done"
        /\ error' # error => writer' = "abort"
    BY DEF bvars, WriterStep, WriterFails, Take, WriteRecord, Finish, WriteIndex, Seal, Sync,
           WriteSummary, SyncEnd, Abort, Release, RecordRaises, DiskFull, SyncFails,
           WriterRaises, WriterGoes
  <1>2. Course'
    BY <1>1 DEF Course, Past, AllDone
  <1>3. Modes'
    <2>1. CASE Take
      BY <2>1 DEF Take, Modes, WriterGoes
    <2>2. CASE WriteRecord
      BY <2>2 DEF WriteRecord, Modes, WriterGoes
    <2>3. CASE Finish
      BY <2>3 DEF Finish, Modes, WriterGoes
    <2>4. CASE WriteIndex
      BY <2>4 DEF WriteIndex, Modes, WriterGoes
    <2>5. CASE Seal
      BY <2>5 DEF Seal, Modes, WriterGoes
    <2>6. CASE Sync
      BY <2>6 DEF Sync, Modes, WriterGoes
    <2>7. CASE WriteSummary
      BY <2>7 DEF WriteSummary, Modes, WriterGoes
    <2>8. CASE SyncEnd
      BY <2>8 DEF SyncEnd, Modes, WriterGoes
    <2>9. CASE Abort
      BY <2>9 DEF Abort, Modes, WriterGoes
    <2>10. CASE Release
      BY <2>10 DEF Release, Modes, WriterGoes, file
    <2>11. CASE WriterFails
      BY <2>11 DEF WriterFails, RecordRaises, DiskFull, SyncFails, Modes, WriterRaises, WriterGoes
    <2>. QED BY <2>1, <2>2, <2>3, <2>4, <2>5, <2>6, <2>7, <2>8, <2>9, <2>10, <2>11, Zenon
             DEF WriterStep
  <1>. QED BY <1>2, <1>3

\* A message is taken, or EOS.
LEMMA DeliveryTake ==
    ASSUME TypeInv, Modes, Delivery, ~error, Take, UNCHANGED bvars
    PROVE  Delivery'
  <1>1. /\ InHand /\ Queued /\ ~finishing /\ ~qclosed
        /\ writer = "get" /\ queue # <<>>
    BY DEF Delivery, Take, Modes
  <1>2. /\ queue \in Seq(Messages \cup {EOS}) /\ accepted \in Seq(Messages)
        /\ sealed \in Nat /\ records \in Nat
    BY DEF TypeInv, QueueTyped, FileTyped
  <1>3. Len(queue) \in Nat /\ Len(queue) > 0 /\ Len(accepted) \in Nat
    BY <1>1, <1>2
  <1>4. /\ queue' = Tail(queue) /\ accepted' = accepted /\ sealed' = sealed
        /\ records' = records /\ main' = main /\ late' = late /\ error' = error
    BY <1>1 DEF Take, file, bvars
  <1>5. /\ Len(queue') = Len(queue) - 1 /\ \A i \in 1..Len(queue') : queue'[i] = queue[i + 1]
    BY <1>1, <1>2, <1>4
  <1>6. Taken = sealed + records /\ Taken \in Nat
    BY <1>1, <1>2 DEF Taken
  <1>7. queue[1] = Head(queue)
    BY <1>1, <1>2
  <1>8. PICK k \in Nat : Line(k)
    BY <1>1 DEF Queued
  <1>9. k \in 0..Len(queue) /\ Taken + k <= Len(accepted)
    BY <1>8, Zenon DEF Line
  <1>10. CASE Head(queue) # EOS
    <2>1. item' = queue[1] /\ writer' = "record" /\ finishing' = finishing
      BY <1>1, <1>7, <1>10 DEF Take, WriterGoes
    <2>2. Taken' = Taken + 1
      BY <2>1, <1>2, <1>4, <1>6 DEF Taken
    <2>3. k > 0
      <3>1. k = 0 => queue[0 + 1] = EOS
        BY <1>3, <1>8 DEF Line
      <3>. QED BY <3>1, <1>7, <1>9, <1>10
    <2>4. 1 \in 1..k
      BY <2>3, <1>8
    <2>5. queue[1] = accepted[Taken + 1]
      BY <2>4, <1>8, Zenon DEF Line
    <2>6. InHand'
      BY <2>1, <2>2, <2>3, <2>5, <1>3, <1>4, <1>6, <1>9 DEF InHand
    <2>7. PICK j \in Nat : k = j + 1
      <3>1. k - 1 \in Nat /\ k = (k - 1) + 1
        BY <2>3, <1>8
      <3>. QED BY <3>1, Zenon
    <2>8. Line(j)'
      <3>1. j \in 0..Len(queue') /\ Taken' + j <= Len(accepted')
        BY <2>2, <2>7, <1>3, <1>4, <1>5, <1>6, <1>9
      <3>2. ASSUME NEW i \in 1..j PROVE queue'[i] # EOS /\ queue'[i] = accepted'[Taken' + i]
        <4>1. i + 1 \in 1..k /\ i \in 1..Len(queue') /\ Taken' + i = Taken + (i + 1)
          BY <2>2, <2>7, <3>1, <1>6
        <4>2. queue[i + 1] # EOS /\ queue[i + 1] = accepted[Taken + (i + 1)]
          BY <4>1, <1>8, Zenon DEF Line
        <4>. QED BY <4>1, <4>2, <1>4, <1>5
      <3>3. j = Len(queue') => Taken' + j = Len(accepted')
        <4>1. j = Len(queue') => k = Len(queue)
          BY <2>7, <1>3, <1>5
        <4>2. Taken' + j = Taken + k
          BY <2>2, <2>7, <1>6
        <4>. QED BY <4>1, <4>2, <1>4, <1>8 DEF Line
      <3>4. ASSUME j < Len(queue')
            PROVE  /\ queue'[j + 1] = EOS /\ main' \in Past
                   /\ late' = {} => j + 1 = Len(queue') /\ Taken' + j = Len(accepted')
        <4>1. k < Len(queue) /\ j + 1 \in 1..Len(queue') /\ j + 1 = k /\ Taken' + j = Taken + k
          <5>1. Len(queue') = Len(queue) - 1 /\ Len(queue) \in Nat
            BY <1>3, <1>5, Zenon
          <5>2. k < Len(queue) /\ j + 1 \in 1..Len(queue') /\ j + 1 = k
            BY <2>7, <3>4, <5>1
          <5>3. Taken' + j = Taken + k
            BY <2>2, <2>7, <1>6
          <5>. QED BY <5>2, <5>3
        <4>2. /\ queue[k + 1] = EOS /\ main \in Past
              /\ late = {} => k + 1 = Len(queue) /\ Taken + k = Len(accepted)
          BY <4>1, <1>8, Zenon DEF Line
        <4>3. k + 1 = Len(queue) => j + 1 = Len(queue')
          BY <4>1, <1>3, <1>5, <2>7
        <4>. QED BY <4>1, <4>2, <4>3, <1>4, <1>5, Zenon
      <3>. QED BY <3>1, <3>2, <3>3, <3>4, Zenon DEF Line
    <2>. QED BY <2>1, <2>6, <2>8, <1>1, Zenon DEF Delivery, Queued
  <1>11. CASE Head(queue) = EOS
    <2>1. item' = item /\ writer' = "finish" /\ finishing' = TRUE
      BY <1>1, <1>11 DEF Take, WriterGoes
    <2>2. Taken' = Taken
      BY <2>1, <1>1, <1>4 DEF Taken
    <2>3. k = 0
      <3> SUFFICES ASSUME k # 0 PROVE FALSE
        OBVIOUS
      <3>1. 1 \in 1..k
        BY <1>9
      <3>. QED BY <3>1, <1>7, <1>8, <1>11, Zenon DEF Line
    <2>4. main \in Past /\ (late = {} => Taken + 0 = Len(accepted))
      BY <2>3, <1>3, <1>8 DEF Line
    <2>5. Drained'
      BY <2>2, <2>4, <1>4, <1>6 DEF Drained
    <2>6. InHand'
      BY <2>1, <2>2, <1>1, <1>4 DEF InHand
    <2>. QED BY <2>1, <2>5, <2>6, Zenon DEF Delivery, Queued
  <1>. QED BY <1>10, <1>11

\* Where nothing is taken and nothing put, as many are taken and as many queued.
LEMMA DeliveryKeeps ==
    ASSUME Delivery, UNCHANGED <<queue, accepted, finishing, late>>,
           Taken' = Taken, error' = error, main \in Past => main' \in Past,
           writer' = "record" => writer = "record" /\ item' = item
    PROVE  Delivery'
  <1> SUFFICES ASSUME ~error PROVE InHand' /\ Queued'
    BY DEF Delivery
  <1>1. InHand /\ Queued
    BY DEF Delivery
  <1>2. InHand'
    BY <1>1 DEF InHand
  <1>3. \A k : Line(k) => Line(k)'
    BY DEF Line
  <1>4. Drained => Drained'
    BY DEF Drained
  <1>. QED BY <1>1, <1>2, <1>3, <1>4, Zenon DEF Queued

LEMMA DeliveryWriter ==
    ASSUME TypeInv, Modes, Delivery, WriterStep \/ WriterFails, UNCHANGED bvars
    PROVE  Delivery'
  <1>1. ASSUME error' PROVE Delivery'
    BY <1>1 DEF Delivery
  <1>2. ASSUME ~error', ~Take PROVE Delivery'
    <2>1. WriterStep /\ error' = error
      BY <1>2 DEF WriterStep, WriterFails, Take, WriteRecord, Finish, WriteIndex, Seal, Sync,
                  WriteSummary, SyncEnd, Abort, Release, RecordRaises, DiskFull, SyncFails,
                  WriterRaises
    <2>2. UNCHANGED <<queue, accepted, finishing, late, main>> /\ writer' # "record"
      BY <1>2, <2>1 DEF WriterStep, Take, WriteRecord, Finish, WriteIndex, Seal, Sync,
                  WriteSummary, SyncEnd, Abort, Release, WriterGoes, bvars
    <2>3. sealed \in Nat /\ records \in Nat
      BY DEF TypeInv, FileTyped
    <2>4. Taken' = Taken
      <3>1. CASE WriteRecord
        BY <2>2, <2>3, <3>1 DEF WriteRecord, Taken
      <3>2. CASE Sync
        BY <2>2, <2>3, <3>2 DEF Sync, Taken
      <3>3. CASE Finish \/ WriteIndex \/ Seal \/ WriteSummary \/ SyncEnd \/ Abort \/ Release
        <4>1. sealed' = sealed /\ records' = records /\ writer # "record"
          BY <3>3 DEF Finish, WriteIndex, Seal, WriteSummary, SyncEnd, Abort, Release, file
        <4>. QED BY <2>2, <4>1 DEF Taken
      <3>. QED BY <3>1, <3>2, <3>3, <2>1, <1>2, Zenon DEF WriterStep
    <2>. QED BY <2>1, <2>2, <2>4, DeliveryKeeps
  <1>3. ASSUME ~error', Take PROVE Delivery'
    <2>1. ~error
      BY <1>3 DEF Take
    <2>. QED BY <2>1, <1>3, DeliveryTake
  <1>. QED BY <1>1, <1>2, <1>3

LEMMA RunWriter ==
    ASSUME TypeInv, RunInv, outage = "no", WriterStep \/ WriterFails, UNCHANGED bvars
    PROVE  Modes' /\ Course' /\ Delivery'
  BY ModesWriter, DeliveryWriter DEF RunInv

\* What the others do to the queue.
LEMMA RunPut ==
    ASSUME TypeInv, RunInv, outage = "no", NEW m \in Messages, Put(m),
           NEW w \in Workers, worker[w] = "put", UNCHANGED <<main, late>>
    PROVE  Delivery'
  <1>1. Modes /\ Course /\ Delivery
    BY DEF RunInv
  <1>2. UNCHANGED <<file, writer, item, finishing, error>>
    BY DEF Put
  <1>3. Taken' = Taken
    BY <1>2 DEF Taken, file
  <1>4. CASE qclosed
    BY <1>1, <1>2, <1>3, <1>4, DeliveryKeeps DEF Put
  <1>5. CASE ~qclosed
    <2>1. queue' = Append(queue, m) /\ accepted' = Append(accepted, m)
      BY <1>5, Zenon DEF Put
    <2>2. /\ queue \in Seq(Messages \cup {EOS}) /\ accepted \in Seq(Messages)
          /\ sealed \in Nat /\ records \in Nat
      BY DEF TypeInv, QueueTyped, FileTyped
    <2>3. /\ Len(queue) \in Nat /\ Len(queue') = Len(queue) + 1 /\ queue'[Len(queue) + 1] = m
          /\ \A i \in 1..Len(queue) : queue'[i] = queue[i]
      BY <2>1, <2>2
    <2>4. /\ Len(accepted) \in Nat /\ Len(accepted') = Len(accepted) + 1
          /\ accepted'[Len(accepted) + 1] = m
          /\ \A i \in 1..Len(accepted) : accepted'[i] = accepted[i]
      BY <2>1, <2>2
    <2>5. Taken \in Nat /\ (writer = "record" => Taken > 0)
      BY <2>2 DEF Taken
    <2> SUFFICES ASSUME ~error PROVE InHand' /\ Queued'
      BY <1>2 DEF Delivery
    <2>6. InHand /\ Queued
      BY <1>1 DEF Delivery
    <2>7. InHand'
      <3>1. writer = "record" => Taken \in 1..Len(accepted)
        BY <2>4, <2>5, <2>6 DEF InHand
      <3>2. Taken <= Len(accepted')
        BY <2>4, <2>5, <2>6 DEF InHand
      <3>. QED BY <3>1, <3>2, <1>2, <1>3, <2>4, <2>6 DEF InHand
    <2>8. late = {} => main \notin Past
      BY <1>1 DEF Course, AllDone
    <2>9. CASE finishing
      <3>1. Drained
        BY <2>6, <2>9, Zenon DEF Queued
      <3>2. Drained'
        BY <2>8, <3>1 DEF Drained
      <3>. QED BY <2>7, <2>9, <3>2, <1>2, Zenon DEF Queued
    <2>10. CASE ~finishing
      <3>1. PICK k \in Nat : Line(k)
        BY <2>6, <2>10, Zenon DEF Queued
      <3>2. k \in 0..Len(queue) /\ Taken + k <= Len(accepted)
        BY <3>1, Zenon DEF Line
      <3>3. ASSUME NEW i \in 1..k PROVE queue'[i] # EOS /\ queue'[i] = accepted'[Taken' + i]
        <4>1. i \in 1..Len(queue) /\ Taken + i \in 1..Len(accepted)
          BY <3>2, <2>3, <2>4, <2>5
        <4>2. queue[i] # EOS /\ queue[i] = accepted[Taken + i]
          BY <3>1, Zenon DEF Line
        <4>. QED BY <4>1, <4>2, <2>3, <2>4, <1>3
      <3>4. CASE k < Len(queue)
        <4>1. queue[k + 1] = EOS /\ main \in Past /\ late # {}
          BY <3>1, <3>4, <2>8, Zenon DEF Line
        <4>2. k + 1 \in 1..Len(queue)
          BY <3>4, <2>3, <3>1
        <4>3. queue'[k + 1] = EOS /\ main' \in Past /\ late' # {}
          BY <4>1, <4>2, <2>3
        <4>4. k \in 0..Len(queue') /\ Taken' + k <= Len(accepted') /\ k # Len(queue')
          BY <3>2, <3>4, <2>3, <2>4, <1>3, <2>5
        <4>5. Line(k)'
          BY <3>3, <4>3, <4>4, Zenon DEF Line
        <4>. QED BY <2>7, <2>10, <4>5, <3>1, <1>2, Zenon DEF Queued
      <3>5. CASE k = Len(queue)
        <4>1. Taken + k = Len(accepted)
          BY <3>1, <3>5, Zenon DEF Line
        <4>2. /\ k + 1 \in Nat /\ k + 1 = Len(queue') /\ k + 1 \in 0..Len(queue')
              /\ Taken' + (k + 1) = Len(accepted') /\ Taken' + (k + 1) <= Len(accepted')
              /\ ~(k + 1 < Len(queue'))
          BY <3>5, <4>1, <2>3, <2>4, <2>5, <1>3
        <4>3. ASSUME NEW i \in 1..k + 1
              PROVE  queue'[i] # EOS /\ queue'[i] = accepted'[Taken' + i]
          <5>1. CASE i \in 1..k
            BY <5>1, <3>3
          <5>2. CASE i = k + 1
            <6>1. queue'[i] = m
              BY <5>2, <3>5, <2>3
            <6>2. Taken' + i = Len(accepted) + 1
              BY <5>2, <4>2, <2>4
            <6>. QED BY <6>1, <6>2, <2>4, EosAssumption
          <5>3. i \in 1..k \/ i = k + 1
            BY <3>1
          <5>. QED BY <5>1, <5>2, <5>3, Zenon
        <4>4. Line(k + 1)'
          BY <4>2, <4>3, Zenon DEF Line
        <4>. QED BY <2>7, <2>10, <4>2, <4>4, <1>2, Zenon DEF Queued
      <3>6. k < Len(queue) \/ k = Len(queue)
        BY <3>2, <2>3
      <3>. QED BY <3>4, <3>5, <3>6, Zenon
    <2>. QED BY <2>9, <2>10
  <1>. QED BY <1>4, <1>5

LEMMA RunEos ==
    ASSUME TypeInv, RunInv, outage = "no", EndRecording PROVE Delivery'
  <1>1. Modes /\ Course /\ Delivery
    BY DEF RunInv
  <1>2. UNCHANGED <<file, writer, item, finishing, error, accepted>> /\ late' = late
    BY DEF EndRecording, PutEos
  <1>3. Taken' = Taken
    BY <1>2 DEF Taken, file
  <1>4. main = "eos" /\ main' = "join"
    BY DEF EndRecording, MainGoes
  <1> SUFFICES ASSUME ~error PROVE InHand' /\ Queued'
    BY <1>2 DEF Delivery
  <1>5. InHand /\ Queued
    BY <1>1 DEF Delivery
  <1>6. InHand'
    BY <1>2, <1>3, <1>5 DEF InHand
  <1>7. ~finishing
    BY <1>4, <1>5 DEF Queued, Drained, Past
  <1>8. ~qclosed
    BY <1>1, <1>7 DEF Modes
  <1>9. queue' = Append(queue, EOS)
    BY <1>8, Zenon DEF EndRecording, PutEos
  <1>10. queue \in Seq(Messages \cup {EOS})
    BY DEF TypeInv, QueueTyped
  <1>11. /\ Len(queue) \in Nat /\ Len(queue') = Len(queue) + 1 /\ queue'[Len(queue) + 1] = EOS
         /\ \A i \in 1..Len(queue) : queue'[i] = queue[i]
    BY <1>9, <1>10
  <1>12. PICK k \in Nat : Line(k)
    BY <1>5, <1>7, Zenon DEF Queued
  <1>13. k \in 0..Len(queue) /\ Taken + k <= Len(accepted)
    BY <1>12, Zenon DEF Line
  <1>14. k = Len(queue)
    <2>1. ~(k < Len(queue))
      BY <1>4, <1>12 DEF Line, Past
    <2>. QED BY <2>1, <1>11, <1>13
  <1>15. Taken + k = Len(accepted)
    BY <1>12, <1>14, Zenon DEF Line
  <1>16. k \in 0..Len(queue') /\ k # Len(queue') /\ k + 1 = Len(queue') /\ queue'[k + 1] = EOS
    BY <1>11, <1>14
  <1>17. ASSUME NEW i \in 1..k PROVE queue'[i] # EOS /\ queue'[i] = accepted'[Taken' + i]
    <2>1. i \in 1..Len(queue)
      BY <1>14
    <2>2. queue[i] # EOS /\ queue[i] = accepted[Taken + i]
      BY <1>12, Zenon DEF Line
    <2>. QED BY <2>1, <2>2, <1>2, <1>3, <1>11
  <1>18. main' \in Past
    BY <1>4 DEF Past
  <1>19. Line(k)'
    BY <1>2, <1>3, <1>13, <1>15, <1>16, <1>17, <1>18, Zenon DEF Line
  <1>. QED BY <1>2, <1>6, <1>7, <1>12, <1>19, Zenon DEF Queued

LEMMA RunRest ==
    ASSUME TypeInv, RunInv, outage = "no",
           \/ \E w \in Workers : WorkerStep(w) \/ NodeFails(w)
           \/ MainStep \/ RunRaises \/ DeadlinePasses \/ JoinGivesUp
           \/ StopStep
    PROVE  Modes' /\ Course' /\ Delivery'
  <1>a. /\ Modes /\ Course /\ Delivery /\ worker \in [Workers -> {"created", "loop", "write", "put", "done", "gone"}]
    BY DEF RunInv, TypeInv, ExecTyped
  <1>b. ASSUME UNCHANGED <<error, writer, qclosed, finishing>> PROVE Modes'
    BY <1>a, <1>b DEF Modes
  <1>c. ASSUME UNCHANGED <<file, writer, item, finishing, error, queue, accepted, late>>,
               main \in Past => main' \in Past
        PROVE  Delivery'
    <2>1. Taken' = Taken
      BY <1>c DEF Taken, file
    <2>. QED BY <2>1, <1>a, <1>c, DeliveryKeeps
  \* What a worker does to the course of the run.
  <1>d. ASSUME NEW w \in Workers, worker[w] # "done", NEW place, WorkerGoes(w, place),
               UNCHANGED <<state, main, raised, late, writer, error>>, failed => failed'
        PROVE  Course'
    <2>1. ~AllDone
      BY <1>d DEF AllDone
    <2>. QED BY <2>1, <1>a, <1>d DEF Course, Past
  <1>1. ASSUME NEW w \in Workers, WorkerLoop(w) PROVE Modes' /\ Course' /\ Delivery'
    <2>1. UNCHANGED <<rvars, state, main, raised, late, failed>> /\ worker[w] # "done"
      BY <1>1 DEF WorkerLoop
    <2>2. PICK place : WorkerGoes(w, place)
      BY <1>1, Zenon DEF WorkerLoop
    <2>. QED BY <2>1, <2>2, <1>b, <1>c, <1>d DEF rvars
  <1>2. ASSUME NEW w \in Workers, NodeFails(w) PROVE Modes' /\ Course' /\ Delivery'
    <2>1. UNCHANGED <<rvars, state, main, raised, late>> /\ failed' = TRUE /\ worker[w] # "done"
          /\ WorkerGoes(w, "done")
      BY <1>2 DEF NodeFails, WorkerRaises
    <2>. QED BY <2>1, <1>b, <1>c, <1>d DEF rvars
  <1>3. ASSUME NEW w \in Workers, CheckWrite(w) PROVE Modes' /\ Course' /\ Delivery'
    <2>1. UNCHANGED <<rvars, state, main, raised, late>> /\ worker[w] # "done"
      BY <1>3 DEF CheckWrite
    <2>2. \E place : WorkerGoes(w, place)
      BY <1>3, Zenon DEF CheckWrite, WorkerRaises, Published
    <2>3. failed => failed'
      BY <1>3 DEF CheckWrite, WorkerRaises
    <2>4. PICK place : WorkerGoes(w, place)
      BY <2>2
    <2>. QED BY <2>1, <2>3, <2>4, <1>b, <1>c, <1>d DEF rvars
  <1>4. ASSUME NEW w \in Workers, PutMessage(w) PROVE Modes' /\ Course' /\ Delivery'
    <2>1. /\ UNCHANGED <<file, writer, item, finishing, error, qclosed, outage>>
          /\ UNCHANGED <<state, main, raised, late>> /\ worker[w] = "put"
      BY <1>4 DEF PutMessage, Put
    <2>2. \E place : WorkerGoes(w, place)
      BY <1>4, Zenon DEF PutMessage, WorkerRaises, Published
    <2>3. failed => failed'
      BY <1>4 DEF PutMessage, WorkerRaises
    <2>4. PICK place : WorkerGoes(w, place)
      BY <2>2
    <2>5. PICK m \in Messages : Put(m)
      <3>1. published[w] < Len(Output[w]) /\ published[w] \in Nat
        BY <2>1 DEF TypeInv, Left, ExecTyped
      <3>2. Output[w] \in Seq(Messages) /\ Len(Output[w]) \in Nat
        BY BackendAssumption
      <3>3. published[w] + 1 \in 1..Len(Output[w])
        BY <3>1, <3>2
      <3>4. Output[w][published[w] + 1] \in Messages
        BY <3>2, <3>3
      <3>. QED BY <3>4, <1>4, Zenon DEF PutMessage
    <2>6. Delivery'
      BY <2>1, <2>5, RunPut
    <2>. QED BY <2>1, <2>3, <2>4, <2>6, <1>b, <1>d
  \* The others leave the workers where they are.
  <1>e. ASSUME UNCHANGED rvars, main \in Past => main' \in Past, late' = late
        PROVE  Modes' /\ Delivery'
    BY <1>b, <1>c, <1>e DEF rvars
  <1>5. CASE Begin
    <2>1. Course'
      BY <1>5, <1>a DEF Begin, MainGoes, Course, Past, TerminalStates
    <2>. QED BY <1>5, <2>1, <1>e DEF Begin, Past
  <1>6. CASE StartWorkers
    <2>1. Course'
      BY <1>6, <1>a DEF StartWorkers, MainGoes, Course, Past, TerminalStates
    <2>. QED BY <1>6, <2>1, <1>e DEF StartWorkers, Past
  <1>7. CASE WorkersLeft
    <2>1. Course'
      BY <1>7, <1>a DEF WorkersLeft, MainGoes, Course, Past, TerminalStates, AllDone
    <2>. QED BY <1>7, <2>1, <1>e DEF WorkersLeft, Past
  <1>8. CASE CloseRecording
    <2>1. Course'
      BY <1>8, <1>a DEF CloseRecording, SetClosed, MainGoes, Course, Past, TerminalStates, AllDone
    <2>. QED BY <1>8, <2>1, <1>b, <1>c DEF CloseRecording, SetClosed, Past
  <1>9. CASE EndRecording
    <2>1. Course'
      BY <1>9, <1>a DEF EndRecording, PutEos, MainGoes, Course, Past, TerminalStates, AllDone
    <2>. QED BY <1>9, <2>1, <1>b, RunEos DEF EndRecording, PutEos
  <1>10. CASE JoinWriter
    <2>1. Course'
      BY <1>10, <1>a DEF JoinWriter, rvars, MainGoes, Course, Past, TerminalStates, AllDone
    <2>. QED BY <1>10, <2>1, <1>e DEF JoinWriter, MainGoes, Past
  <1>11. CASE Report
    <2>1. Course'
      BY <1>11, <1>a DEF Report, rvars, MainGoes, Course, Past, TerminalStates, AllDone
    <2>. QED BY <1>11, <2>1, <1>e DEF Report, MainGoes, Past
  <1>12. CASE Return
    <2>1. Course'
      BY <1>12, <1>a DEF Return, rvars, MainGoes, Course, Past, TerminalStates, AllDone
    <2>. QED BY <1>12, <2>1, <1>e DEF Return, MainGoes, Past
  <1>13. CASE RunRaises
    <2>1. Course'
      BY <1>13, <1>a DEF RunRaises, rvars, MainGoes, Course, Past, TerminalStates, AllDone
    <2>. QED BY <1>13, <2>1, <1>e DEF RunRaises, MainGoes, Past
  <1>14. CASE DeadlinePasses
    <2>1. Course'
      BY <1>14, <1>a DEF DeadlinePasses, rvars, MainGoes, Course, Past, TerminalStates, AllDone
    <2>. QED BY <1>14, <2>1, <1>e DEF DeadlinePasses, Past
  <1>15. CASE JoinGivesUp
    <2>1. Course'
      BY <1>15, <1>a DEF JoinGivesUp, rvars, MainGoes, Course, Past, TerminalStates, AllDone
    <2>2. Modes'
      BY <1>15, <1>b DEF JoinGivesUp, rvars
    <2>3. Delivery'
      <3>1. main = "leave" /\ UNCHANGED rvars
        BY <1>15 DEF JoinGivesUp
      <3>2. Taken' = Taken
        BY <3>1 DEF rvars, file, Taken
      <3> SUFFICES ASSUME ~error PROVE InHand' /\ Queued'
        BY <3>1 DEF Delivery, rvars
      <3>3. InHand /\ Queued /\ ~finishing
        BY <3>1, <1>a DEF Delivery, Queued, Drained, Past
      <3>4. InHand'
        BY <3>1, <3>2, <3>3 DEF InHand, rvars
      <3>5. PICK k \in Nat : Line(k)
        BY <3>3, Zenon DEF Queued
      <3>6. ~(k < Len(queue))
        BY <3>1, <3>5 DEF Line, Past
      <3>7. Line(k)'
        BY <3>1, <3>2, <3>5, <3>6 DEF Line, rvars
      <3>. QED BY <3>1, <3>3, <3>4, <3>7 DEF Queued, rvars
    <2>. QED BY <2>1, <2>2, <2>3
  <1>16. CASE StopStep
    <2>1. UNCHANGED <<rvars, main, raised, failed, worker, late>>
      BY <1>16 DEF StopStep, RequestStop, MarkStopping, AnswerStop
    <2>2. state' = state \/ state' = "stopping"
      BY <1>16 DEF StopStep, RequestStop, MarkStopping, AnswerStop
    <2>3. Course'
      BY <2>1, <2>2, <1>a DEF Course, Past, TerminalStates, AllDone, rvars
    <2>. QED BY <2>1, <2>3, <1>e
  <1>. QED BY <1>1, <1>2, <1>3, <1>4, <1>5, <1>6, <1>7, <1>8, <1>9, <1>10, <1>11, <1>12,
              <1>13, <1>14, <1>15, <1>16, Zenon DEF WorkerStep, MainStep

LEMMA RunStep ==
    ASSUME TypeInv, RunInv, [Next]_vars PROVE RunInv'
  <1>1. ASSUME UNCHANGED vars PROVE RunInv'
    BY <1>1 DEF vars, rvars, bvars, file, RunInv, Modes, Course, Delivery, InHand, Queued,
                Drained, Line, Taken, AllDone
  <1>2. CASE Outage /\ ExecutionGone
    BY <1>2 DEF Outage, Killed, PowerFails, RunInv
  <1>3. CASE (WriterStep \/ WriterFails) /\ UNCHANGED bvars
    <2>1. outage = "no"
      <3>1. writer # "gone"
        BY <1>3 DEF WriterStep, WriterFails, Take, WriteRecord, Finish, WriteIndex, Seal, Sync,
             WriteSummary, SyncEnd, Abort, Release, RecordRaises, DiskFull, SyncFails
      <3>. QED BY <3>1 DEF TypeInv, Ended, Gone
    <2>. QED BY <2>1, <1>3, RunWriter, Zenon DEF RunInv
  <1>4. CASE \/ \E w \in Workers : WorkerStep(w) \/ NodeFails(w)
             \/ MainStep \/ RunRaises \/ DeadlinePasses \/ JoinGivesUp
             \/ StopStep
    <2>1. outage = "no"
      <3>1. ~Gone
        BY <1>4 DEF Gone, WorkerStep, WorkerLoop, CheckWrite, PutMessage, NodeFails, MainStep,
            Begin, StartWorkers, WorkersLeft, CloseRecording, EndRecording, JoinWriter, Report,
            Return, RunRaises, DeadlinePasses, JoinGivesUp, StopStep, RequestStop,
            MarkStopping, AnswerStop
      <3>. QED BY <3>1 DEF TypeInv, Ended
    <2>. QED BY <2>1, <1>4, RunRest, Zenon DEF RunInv
  <1>. QED BY <1>1, <1>2, <1>3, <1>4, Zenon DEF Next

-----------------------------------------------------------------------------
(***************************************************************************)
(* What is read of a file that is being written, and after an outage.      *)
(***************************************************************************)

\* f is a beginning of w of which the last part may be torn.
Beginning(f, w) ==
    /\ f \in Seq(AnyPart) /\ Len(f) <= Len(w)
    /\ \A i \in 1..Len(f) : f[i] = w[i] \/ (i = Len(f) /\ f[i] = Torn(w[i]))
\* How far the file has been synchronised: all of it, or so many chunks that every
\* completed checkpoint is among them.
Synced(f, w, s, b, K, kind) ==
    \/ \E k \in 0..K : synced = s[k] - 1 /\ (Durable => sealed <= b[k])
    \/ kind = "summary" /\ synced = Len(w) /\ Intact(f, w, Len(w)) /\ sealed <= b[K]

LEMMA BeginningDamaged ==
    ASSUME NEW w, NEW f, Beginning(f, w) PROVE Damaged(f, w)
  BY DEF Beginning, Damaged, Torn

\* What is read of it, when the first x messages are in complete chunks.
ReadsFrom(f, acc, x) ==
    IF Scan(f).ok THEN IsPrefix(Scan(f).messages, acc) /\ x <= Len(Scan(f).messages)
    ELSE f # <<>> /\ Last(f) \in {<<"torn", "chunk">>, <<"torn", "summary">>}

LEMMA PieceIsPrefix ==
    ASSUME NEW acc \in Seq(Messages), NEW m \in Nat, m <= Len(acc)
    PROVE  IsPrefix(Piece(acc, 0, m), acc) /\ Len(Piece(acc, 0, m)) = m
  <1>1. 0 <= m /\ m - 0 = m
    OBVIOUS
  <1>2. PICK p : p = Piece(acc, 0, m)
    OBVIOUS
  <1>3. p \in Seq(Messages) /\ Len(p) = m /\ \A i \in 1..m : p[i] = acc[i]
    <2>1. p \in Seq(Messages) /\ Len(p) = m - 0 /\ \A i \in 1..m - 0 : p[i] = acc[0 + i]
      BY <1>1, <1>2, PieceType
    <2>2. \A i \in 1..m : 0 + i = i
      OBVIOUS
    <2>. QED BY <1>1, <2>1, <2>2
  <1>4. IsPrefix(p, acc)
    BY <1>3 DEF IsPrefix
  <1>. QED BY <1>2, <1>3, <1>4, Zenon

LEMMA BeginningReads ==
    ASSUME NEW w, NEW acc, NEW s, NEW b, NEW K, NEW n, NEW kind,
           File(w, acc, s, b, K, n, kind), NEW f, Beginning(f, w),
           Intact(f, w, s[K] - 1), NEW x \in Nat, x <= b[K]
    PROVE  ReadsFrom(f, acc, x)
  <1>1. f \in Seq(AnyPart) /\ Damaged(f, w) /\ Len(f) \in Nat /\ Len(f) <= Len(w)
    BY BeginningDamaged DEF Beginning
  <1>2. PICK k, o, e, m : ScanIs(f, w, acc, s, b, K, kind, k, o, e, m)
    BY <1>1, DamagedReads, Zenon
  <1>3. /\ PlaceRead(f, w, acc, s, b, K, kind, k, o, e, m) /\ Final(f, w, s, K, k)
        /\ o => Scan(f) = Read(TRUE, e, Piece(acc, 0, m))
        /\ ~o => Scan(f).ok = FALSE
    BY <1>2, Zenon DEF ScanIs
  <1>4. /\ acc \in Seq(Messages) /\ w \in Seq(Part) /\ K \in Nat /\ n \in Nat
        /\ Ending(w, acc, s[K], b[K], n, kind) /\ s[K] \in Nat /\ s[K] > 0
        /\ b[K] \in Nat /\ Len(w) \in Nat /\ Len(acc) \in Nat
    BY FileShape, Zenon
  <1>5. k = K
    <2>1. K \in 0..K
      BY <1>4
    <2>2. K <= k /\ k \in 0..K
      BY <2>1, <1>3, Zenon DEF Final
    <2>. QED BY <2>2, <1>4
  <1>6. /\ o \in BOOLEAN /\ m \in Nat /\ b[K] <= m /\ m <= Len(acc)
        /\ ~o => s[K] <= Len(f) /\ IsHurt(f[s[K]])
    <2>1. ~(k < K)
      BY <1>4, <1>5
    <2>. QED BY <1>3, <1>5, <2>1, Zenon DEF PlaceRead
  <1>7. CASE o
    <2>1. Scan(f).ok = TRUE /\ Scan(f).messages = Piece(acc, 0, m)
      BY <1>3, <1>7 DEF Read
    <2>2. IsPrefix(Piece(acc, 0, m), acc) /\ Len(Piece(acc, 0, m)) = m
      BY <1>4, <1>6, PieceIsPrefix
    <2>3. x <= m
      BY <1>4, <1>6
    <2>. QED BY <2>1, <2>2, <2>3, Zenon DEF ReadsFrom
  <1>8. CASE ~o
    <2>1. Scan(f).ok = FALSE
      BY <1>3, <1>8
    <2>2. s[K] \in 1..Len(f)
      BY <1>4, <1>6, <1>8, <1>1
    <2>3. w[s[K]][1] \in {"chunk", "summary"}
      <3>1. kind # "end"
        <4>1. kind = "end" => Len(w) = s[K] - 1
          BY <1>4 DEF Ending
        <4>. QED BY <4>1, <2>2, <1>1, <1>4
      <3>2. w[s[K]] = Header(0) \/ w[s[K]] = Summary(b[K])
        BY <3>1, <1>4, Zenon DEF Ending
      <3>. QED BY <3>2 DEF Header, Summary
    <2>4. f[s[K]] # w[s[K]]
      BY <2>3, <1>6, <1>8 DEF IsHurt
    <2>5. s[K] = Len(f) /\ f[s[K]] = Torn(w[s[K]])
      BY <2>2, <2>4, Zenon DEF Beginning
    <2>6. f # <<>> /\ Last(f) = Torn(w[s[K]])
      BY <2>2, <2>5 DEF Last
    <2>7. Torn(w[s[K]]) \in {<<"torn", "chunk">>, <<"torn", "summary">>}
      BY <2>3 DEF Torn
    <2>. QED BY <2>1, <2>6, <2>7, Zenon DEF ReadsFrom
  <1>. QED BY <1>6, <1>7, <1>8, Zenon

\* When the power fails, what has been synchronised is intact.
LEMMA SyncedReads ==
    ASSUME NEW w, NEW s, NEW b, NEW K, NEW n, NEW kind,
           File(w, accepted, s, b, K, n, kind), NEW f \in Seq(AnyPart), Damaged(f, w),
           NEW g, Synced(g, w, s, b, K, kind), Intact(f, w, synced), sealed \in Nat,
           synced \in Nat
    PROVE  IF Scan(f).ok
           THEN IsPrefix(Scan(f).messages, accepted) /\ (Durable => sealed <= Len(Scan(f).messages))
           ELSE Len(f) > synced
  <1>1. Len(f) \in Nat /\ Len(f) <= Len(w)
    BY DEF Damaged
  <1>2. PICK k, o, e, m : ScanIs(f, w, accepted, s, b, K, kind, k, o, e, m)
    BY DamagedReads, Zenon
  <1>3. /\ PlaceRead(f, w, accepted, s, b, K, kind, k, o, e, m) /\ Final(f, w, s, K, k)
        /\ o => Scan(f) = Read(TRUE, e, Piece(accepted, 0, m))
        /\ ~o => Scan(f).ok = FALSE
    BY <1>2, Zenon DEF ScanIs
  <1>4. /\ accepted \in Seq(Messages) /\ w \in Seq(Part) /\ K \in Nat /\ n \in Nat
        /\ Ending(w, accepted, s[K], b[K], n, kind) /\ s[K] \in Nat /\ s[K] > 0
        /\ b[K] \in Nat /\ Len(w) \in Nat /\ Len(accepted) \in Nat /\ Grows(s, b, K)
    BY FileShape, Zenon
  <1>5. /\ k \in 0..K /\ Intact(f, w, s[k] - 1)
        /\ \A j \in 0..K : Intact(f, w, s[j] - 1) => j <= k
    BY <1>3, Zenon DEF Final
  <1>6. /\ o \in BOOLEAN /\ e \in BOOLEAN /\ m \in Nat /\ b[k] <= m /\ m <= Len(accepted)
        /\ ~o => s[k] <= Len(f)
        /\ k = K /\ Len(f) = s[K] /\ f[s[K]] = Summary(b[K]) => o /\ e
        /\ o /\ e => m = b[K]
    BY <1>3, Zenon DEF PlaceRead
  <1>7. s[k] \in Nat /\ b[k] \in Nat
    BY <1>4, <1>5, PlacesGrow
  \* So much is read,
  <1>8. Durable /\ o => sealed <= m
    <2>1. ASSUME NEW j \in 0..K, synced = s[j] - 1, Durable, sealed <= b[j]
          PROVE  sealed <= m
      <3>1. j <= k
        BY <2>1, <1>5, Zenon
      <3>2. b[j] \in Nat /\ b[j] <= b[k]
        <4>1. b[j] \in Nat
          BY <1>4, PlacesGrow
        <4>2. CASE j = k
          BY <4>1, <4>2, <1>7
        <4>3. CASE j < k
          <5>1. b[j] < b[k]
            BY <4>3, <1>4, <1>5, Zenon DEF Grows
          <5>. QED BY <5>1, <4>1, <1>7
        <4>. QED BY <4>2, <4>3, <3>1, <1>5
      <3>. QED BY <3>2, <2>1, <1>6, <1>7
    <2>2. ASSUME kind = "summary", synced = Len(w), sealed <= b[K], o PROVE sealed <= m
      <3>1. n = 0 /\ Len(w) = s[K] /\ w[s[K]] = Summary(b[K])
        BY <2>2, <1>4 DEF Ending
      <3>2. Len(f) = s[K] /\ f[s[K]] = Summary(b[K])
        BY <2>2, <3>1, <1>1, <1>4 DEF Intact
      <3>3. Intact(f, w, s[K] - 1)
        BY <2>2, <3>1, <1>4 DEF Intact
      <3>4. k = K
        <4>1. K \in 0..K
          BY <1>4
        <4>2. K <= k
          BY <4>1, <3>3, <1>5, Zenon
        <4>. QED BY <4>2, <1>4, <1>5
      <3>5. m = b[K]
        BY <3>2, <3>4, <1>6, Zenon
      <3>. QED BY <3>5, <2>2
    <2>. QED BY <2>1, <2>2, Zenon DEF Synced
  \* and if nothing can be, part of it had not been synchronised.
  <1>9. ~o => Len(f) > synced
    <2>1. ASSUME NEW j \in 0..K, synced = s[j] - 1, ~o PROVE Len(f) > synced
      <3>1. j <= k
        BY <2>1, <1>5, Zenon
      <3>2. s[j] \in Nat /\ s[j] <= s[k]
        <4>1. s[j] \in Nat
          BY <1>4, PlacesGrow
        <4>2. CASE j = k
          BY <4>1, <4>2, <1>7
        <4>3. CASE j < k
          <5>1. s[j] < s[k]
            BY <4>3, <1>4, <1>5, Zenon DEF Grows
          <5>. QED BY <5>1, <4>1, <1>7
        <4>. QED BY <4>2, <4>3, <3>1, <1>5
      <3>. QED BY <3>2, <2>1, <1>1, <1>6, <1>7
    <2>2. ASSUME kind = "summary", synced = Len(w) PROVE o
      <3>1. n = 0 /\ Len(w) = s[K] /\ w[s[K]] = Summary(b[K])
        BY <2>2, <1>4 DEF Ending
      <3>2. Len(f) = s[K] /\ f[s[K]] = Summary(b[K])
        BY <2>2, <3>1, <1>1, <1>4 DEF Intact
      <3>3. Intact(f, w, s[K] - 1)
        BY <2>2, <3>1, <1>4 DEF Intact
      <3>4. k = K
        <4>1. K \in 0..K
          BY <1>4
        <4>2. K <= k
          BY <4>1, <3>3, <1>5, Zenon
        <4>. QED BY <4>2, <1>4, <1>5
      <3>. QED BY <3>2, <3>4, <1>6, Zenon
    <2>. QED BY <2>1, <2>2, Zenon DEF Synced
  <1>10. CASE o
    <2>1. Scan(f).ok = TRUE /\ Scan(f).messages = Piece(accepted, 0, m)
      BY <1>3, <1>10 DEF Read
    <2>2. IsPrefix(Piece(accepted, 0, m), accepted) /\ Len(Piece(accepted, 0, m)) = m
      BY <1>4, <1>6, PieceIsPrefix
    <2>. QED BY <2>1, <2>2, <1>8, <1>10, Zenon
  <1>11. CASE ~o
    BY <1>3, <1>9, <1>11
  <1>. QED BY <1>6, <1>10, <1>11, Zenon

\* All of a file that has its summary.
LEMMA WholeReads ==
    ASSUME NEW w, NEW acc, NEW s, NEW b, NEW K, NEW n,
           File(w, acc, s, b, K, n, "summary"), b[K] = Len(acc)
    PROVE  Scan(w).final = TRUE /\ Scan(w).messages = acc
  <1>1. /\ acc \in Seq(Messages) /\ w \in Seq(Part) /\ K \in Nat /\ n \in Nat
        /\ Ending(w, acc, s[K], b[K], n, "summary") /\ s[K] \in Nat /\ s[K] > 0
        /\ b[K] \in Nat /\ Len(w) \in Nat /\ Len(acc) \in Nat
    BY FileShape, Zenon
  <1>2. w \in Seq(AnyPart) /\ Damaged(w, w)
    <2>1. w \in Seq(AnyPart)
      BY <1>1, SeqPartIsAny
    <2>. QED BY <2>1, <1>1 DEF Damaged
  <1>3. PICK k, o, e, m : ScanIs(w, w, acc, s, b, K, "summary", k, o, e, m)
    BY <1>2, DamagedReads, Zenon
  <1>4. /\ PlaceRead(w, w, acc, s, b, K, "summary", k, o, e, m) /\ Final(w, w, s, K, k)
        /\ o => Scan(w) = Read(TRUE, e, Piece(acc, 0, m))
    BY <1>3, Zenon DEF ScanIs
  <1>5. n = 0 /\ Len(w) = s[K] /\ w[s[K]] = Summary(b[K])
    BY <1>1 DEF Ending
  <1>6. k = K
    <2>1. Intact(w, w, s[K] - 1) /\ K \in 0..K
      BY <1>1, <1>5 DEF Intact
    <2>2. K <= k /\ k \in 0..K
      BY <2>1, <1>4, Zenon DEF Final
    <2>. QED BY <2>2, <1>1
  <1>7. o /\ e /\ m = b[K] /\ o \in BOOLEAN /\ e \in BOOLEAN
    BY <1>4, <1>5, <1>6, Zenon DEF PlaceRead
  <1>8. Scan(w) = Read(TRUE, TRUE, Piece(acc, 0, Len(acc)))
    BY <1>4, <1>7
  <1>9. Piece(acc, 0, Len(acc)) = acc
    <2>1. PICK p : p = Piece(acc, 0, Len(acc))
      OBVIOUS
    <2>2. 0 <= Len(acc) /\ Len(acc) - 0 = Len(acc) /\ Len(acc) <= Len(acc)
      BY <1>1
    <2>3. p \in Seq(Messages) /\ Len(p) = Len(acc) - 0 /\ \A i \in 1..Len(acc) - 0 : p[i] = acc[0 + i]
      BY <1>1, <2>1, <2>2, PieceType
    <2>4. \A i \in 1..Len(acc) : p[i] = acc[i]
      <3>1. \A i \in 1..Len(acc) : 0 + i = i
        OBVIOUS
      <3>. QED BY <2>2, <2>3, <3>1
    <2>5. p = acc
      BY <1>1, <2>2, <2>3, <2>4
    <2>. QED BY <2>1, <2>5
  <1>. QED BY <1>8, <1>9 DEF Read

-----------------------------------------------------------------------------
(***************************************************************************)
(* The file of a running execution.                                        *)
(***************************************************************************)

\* Together with what is still in the buffer it is as it should be, and what the
\* operating system has is a beginning of it in which no complete chunk is torn.
\* After an error nothing follows what has been written.
Laid(w, s, b, K, n, kind) ==
    /\ File(w, accepted, s, b, K, n, kind)
    /\ Beginning(disk, w) /\ Intact(disk, w, s[K] - 1)
    /\ w = disk \o buffer \/ (error /\ buffer = <<>>)

\* The complete chunks are the completed checkpoints, or there is one more, which
\* has not been synchronised.
Plain(s, b, K, kind) ==
    b[K] = sealed /\ (chunk = 0 \/ (chunk = s[K] /\ kind \in {"open", "indexed"}))
OneMore(s, b, K, kind) ==
    /\ K > 0 /\ b[K - 1] = sealed /\ chunk = s[K - 1] /\ kind = "end"
    /\ synced < s[K - 1]

\* What the writer has come to, while nothing has failed.
Fresh(kind) == chunk = 0 /\ records = 0 /\ buffer = <<>> /\ kind = "end"
Opened(s, K, n, kind) ==
    chunk = s[K] /\ kind = "open" /\ n = records /\ records > 0
Place(s, b, K, n, kind) ==
    /\ writer \in {"get", "record", "finish"} =>
         Plain(s, b, K, kind) /\ (Fresh(kind) \/ Opened(s, K, n, kind))
    /\ writer = "index" => Plain(s, b, K, kind) /\ Opened(s, K, n, kind)
    /\ writer = "seal" =>
         /\ Plain(s, b, K, kind) /\ chunk = s[K] /\ kind = "indexed"
         /\ n = records /\ records > 0 /\ buffer = <<>>
    /\ writer = "sync" =>
         OneMore(s, b, K, kind) /\ b[K] = sealed + records /\ buffer = <<>>
    /\ writer = "summary" => Plain(s, b, K, kind) /\ Fresh(kind)
    /\ writer \in {"sync_end", "release", "done"} =>
         /\ Plain(s, b, K, kind) /\ kind = "summary" /\ chunk = 0
         /\ records = 0 /\ buffer = <<>>

Shape(w, s, b, K, n, kind) ==
    /\ Laid(w, s, b, K, n, kind)
    /\ Plain(s, b, K, kind) \/ OneMore(s, b, K, kind)
    /\ Synced(disk, w, s, b, K, kind)
    /\ ~error => Place(s, b, K, n, kind)
FileInv == outage = "no" => \E w, s, b, K, n, kind : Shape(w, s, b, K, n, kind)

LEMMA FileInit ==
    ASSUME Init PROVE FileInv
  <1> DEFINE w == <<>>
             s == [k \in {0} |-> 1]
             b == [k \in {0} |-> 0]
  <1>1. /\ disk = <<>> /\ buffer = <<>> /\ synced = 0 /\ chunk = 0 /\ records = 0
        /\ writer = "get" /\ error = FALSE /\ accepted = <<>> /\ sealed = 0
    BY DEF Init, RecordingInit
  <1>2. Grows(s, b, 0)
    BY DEF Grows
  <1>3. Ending(w, accepted, s[0], b[0], 0, "end")
    BY DEF Ending
  <1>4. File(w, accepted, s, b, 0, 0, "end")
    BY <1>1, <1>2, <1>3 DEF File
  <1>5. Beginning(disk, w) /\ Intact(disk, w, s[0] - 1) /\ w = disk \o buffer
    BY <1>1 DEF Beginning, Intact
  <1>6. Plain(s, b, 0, "end") /\ Fresh("end")
    BY <1>1 DEF Plain, Fresh
  <1>7. Synced(disk, w, s, b, 0, "end")
    BY <1>1 DEF Synced
  <1>8. Place(s, b, 0, 0, "end")
    BY <1>1, <1>6 DEF Place
  <1> HIDE DEF w, s, b
  <1>9. Shape(w, s, b, 0, 0, "end")
    BY <1>4, <1>5, <1>6, <1>7, <1>8, Zenon DEF Shape, Laid
  <1>. QED BY <1>9, Zenon DEF FileInv

\* What is written may break off.
LEMMA CutsAre ==
    ASSUME NEW p \in Seq(Part), NEW c \in Cuts(p)
    PROVE  /\ c \in Seq(AnyPart) /\ Len(c) <= Len(p)
           /\ \A i \in 1..Len(c) : c[i] = p[i] \/ (i = Len(c) /\ c[i] = Torn(p[i]))
  <1>1. c \in Seq(AnyPart)
    BY CutsTyped
  <1>2. CASE \E j \in 0..Len(p) : c = Cut(p, j)
    <2>1. PICK j \in 0..Len(p) : c = Cut(p, j)
      BY <1>2
    <2>2. Len(c) = j /\ \A i \in 1..j : c[i] = p[i]
      BY <2>1, CutTyped
    <2>. QED BY <1>1, <2>2
  <1>3. CASE \E j \in 0..Len(p) - 1 : c = Append(Cut(p, j), Torn(p[j + 1]))
    <2>1. PICK j \in 0..Len(p) - 1 : c = Append(Cut(p, j), Torn(p[j + 1]))
      BY <1>3
    <2>2. j \in 0..Len(p) /\ j + 1 <= Len(p)
      BY <2>1
    <2>3. PICK q : q = Cut(p, j)
      OBVIOUS
    <2>4. q \in Seq(Part) /\ Len(q) = j /\ \A i \in 1..j : q[i] = p[i]
      BY <2>2, <2>3, CutTyped
    <2>5. c = Append(q, Torn(p[j + 1]))
      BY <2>1, <2>3
    <2>6. /\ Len(c) = j + 1 /\ c[j + 1] = Torn(p[j + 1])
          /\ \A i \in 1..j : c[i] = q[i]
      BY <2>4, <2>5
    <2>7. ASSUME NEW i \in 1..Len(c)
          PROVE  c[i] = p[i] \/ (i = Len(c) /\ c[i] = Torn(p[i]))
      <3>1. CASE i \in 1..j
        BY <3>1, <2>4, <2>6
      <3>2. CASE i = j + 1
        BY <3>2, <2>6
      <3>. QED BY <3>1, <3>2, <2>6, <2>7
    <2>. QED BY <1>1, <2>2, <2>6, <2>7
  <1>. QED BY <1>2, <1>3 DEF Cuts

LEMMA CutBegins ==
    ASSUME NEW f \in Seq(AnyPart), NEW p \in Seq(Part), NEW c \in Cuts(p),
           NEW x \in Nat, x <= Len(f)
    PROVE  Beginning(f \o c, f \o p) /\ Intact(f \o c, f \o p, x)
  <1>1. /\ c \in Seq(AnyPart) /\ Len(c) <= Len(p) /\ p \in Seq(AnyPart)
        /\ \A i \in 1..Len(c) : c[i] = p[i] \/ (i = Len(c) /\ c[i] = Torn(p[i]))
    BY CutsAre, SeqPartIsAny
  <1>2. PICK g, h : g = f \o c /\ h = f \o p
    OBVIOUS
  <1>3. /\ g \in Seq(AnyPart) /\ Len(g) = Len(f) + Len(c)
        /\ h \in Seq(AnyPart) /\ Len(h) = Len(f) + Len(p)
    BY <1>1, <1>2
  <1>4. \A i \in 1..Len(f) : g[i] = f[i] /\ h[i] = f[i]
    BY <1>1, <1>2
  <1>5. \A i \in 1..Len(c) : g[Len(f) + i] = c[i] /\ h[Len(f) + i] = p[i]
    BY <1>1, <1>2
  <1>6. ASSUME NEW i \in 1..Len(g)
        PROVE  g[i] = h[i] \/ (i = Len(g) /\ g[i] = Torn(h[i]))
    <2>1. CASE i <= Len(f)
      BY <1>4, <2>1
    <2>2. CASE i > Len(f)
      <3>1. PICK j \in 1..Len(c) : i = Len(f) + j
        <4>1. i - Len(f) \in 1..Len(c) /\ i = Len(f) + (i - Len(f))
          BY <1>1, <1>3, <2>2
        <4>. QED BY <4>1, Zenon
      <3>2. g[i] = c[j] /\ h[i] = p[j] /\ (j = Len(c) => i = Len(g))
        BY <3>1, <1>3, <1>5
      <3>. QED BY <3>2, <1>1
    <2>. QED BY <2>1, <2>2, <1>3
  <1>7. Beginning(g, h)
    BY <1>1, <1>3, <1>6 DEF Beginning
  <1>8. Intact(g, h, x)
    <2>1. x <= Len(g)
      BY <1>1, <1>3
    <2>2. \A i \in 1..x : g[i] = h[i]
      BY <1>4
    <2>. QED BY <2>1, <2>2 DEF Intact
  <1>. QED BY <1>2, <1>7, <1>8

\* Concatenations.
LEMMA SameParts ==
    ASSUME NEW p \in Seq(AnyPart), NEW q \in Seq(AnyPart), Len(q) = Len(p),
           \A i \in 1..Len(p) : q[i] = p[i]
    PROVE  q = p
  OBVIOUS
LEMMA Rejoin ==
    ASSUME NEW f \in Seq(AnyPart), NEW p \in Seq(Part), NEW j \in 0..Len(p)
    PROVE  (f \o Cut(p, j)) \o SubSeq(p, j + 1, Len(p)) = f \o p
  <1>1. PICK c, d : c = Cut(p, j) /\ d = SubSeq(p, j + 1, Len(p))
    OBVIOUS
  <1>2. c \in Seq(AnyPart) /\ Len(c) = j /\ \A i \in 1..j : c[i] = p[i]
    BY <1>1, CutTyped, SeqPartIsAny
  <1>3. d \in Seq(AnyPart) /\ Len(d) = Len(p) - j /\ \A i \in 1..Len(p) - j : d[i] = p[j + i]
    <2>1. d \in Seq(Part) /\ Len(d) = Len(p) - j /\ \A i \in 1..Len(p) - j : d[i] = p[j + i]
      BY <1>1
    <2>. QED BY <2>1, SeqPartIsAny
  <1>4. p \in Seq(AnyPart)
    BY SeqPartIsAny
  <1>5. (f \o c) \o d = f \o (c \o d)
    BY <1>2, <1>3
  <1>6. c \o d = p
    <2>1. PICK q : q = c \o d
      OBVIOUS
    <2>2. q \in Seq(AnyPart) /\ Len(q) = Len(p)
      <3>1. q \in Seq(AnyPart) /\ Len(q) = Len(c) + Len(d)
        BY <2>1, <1>2, <1>3, PartsAppend, Zenon
      <3>2. Len(c) + Len(d) = Len(p)
        BY <1>2, <1>3, <1>4
      <3>. QED BY <3>1, <3>2
    <2>3. \A i \in 1..j : q[i] = p[i]
      BY <2>1, <1>2, <1>3
    <2>4. \A i \in 1..Len(p) - j : q[j + i] = p[j + i]
      BY <2>1, <1>2, <1>3
    <2>5. ASSUME NEW i \in 1..Len(p), i > j PROVE q[i] = p[i]
      <3>1. i - j \in 1..Len(p) - j /\ j + (i - j) = i
        BY <2>5
      <3>. QED BY <3>1, <2>4
    <2>6. \A i \in 1..Len(p) : q[i] = p[i]
      BY <2>3, <2>5
    <2>7. q = p
      BY <2>2, <2>6, <1>4, SameParts
    <2>. QED BY <2>1, <2>7
  <1>. QED BY <1>1, <1>5, <1>6
LEMMA Assoc ==
    ASSUME NEW f \in Seq(AnyPart), NEW p \in Seq(AnyPart), NEW q \in Seq(AnyPart)
    PROVE  f \o (p \o q) = (f \o p) \o q
  OBVIOUS
LEMMA AppendIs ==
    ASSUME NEW f \in Seq(AnyPart), NEW p \in Seq(AnyPart), NEW x \in AnyPart
    PROVE  f \o Append(p, x) = Append(f \o p, x) /\ Append(f, x) = f \o <<x>>
  OBVIOUS
LEMMA WholeBegins ==
    ASSUME NEW w \in Seq(Part), NEW x \in Nat, x <= Len(w)
    PROVE  Beginning(w, w) /\ Intact(w, w, x)
  BY SeqPartIsAny DEF Beginning, Intact

\* What a shape says of its file.
LEMMA ShapeTyped ==
    ASSUME TypeInv, NEW w, NEW s, NEW b, NEW K, NEW n, NEW kind,
           Shape(w, s, b, K, n, kind)
    PROVE  /\ File(w, accepted, s, b, K, n, kind)
           /\ accepted \in Seq(Messages) /\ w \in Seq(Part) /\ w \in Seq(AnyPart)
           /\ K \in Nat /\ n \in Nat /\ Len(w) \in Nat /\ Len(accepted) \in Nat
           /\ s[K] \in Nat /\ s[K] > 0 /\ b[K] \in Nat /\ b[K] + n <= Len(accepted)
           /\ disk \in Seq(AnyPart) /\ buffer \in Seq(Part) /\ buffer \in Seq(AnyPart)
           /\ Len(disk) \in Nat /\ s[K] - 1 \in Nat /\ s[K] - 1 <= Len(disk)
           /\ records \in Nat /\ sealed \in Nat /\ chunk \in Nat
           /\ synced \in Nat /\ synced <= Len(disk)
           /\ ~error => w = disk \o buffer
  <1>1. File(w, accepted, s, b, K, n, kind)
    BY Zenon DEF Shape, Laid
  <1>2. /\ accepted \in Seq(Messages) /\ w \in Seq(Part) /\ K \in Nat /\ n \in Nat
        /\ s[K] \in Nat /\ s[K] > 0 /\ b[K] \in Nat /\ b[K] + n <= Len(accepted)
        /\ Len(w) \in Nat /\ Len(accepted) \in Nat
    BY <1>1, FileShape, Zenon
  <1>3. /\ disk \in Seq(AnyPart) /\ buffer \in Seq(Part) /\ synced \in 0..Len(disk)
        /\ chunk \in Nat /\ records \in Nat /\ sealed \in Nat
    BY DEF TypeInv, FileTyped
  <1>4. w \in Seq(AnyPart) /\ buffer \in Seq(AnyPart)
    BY <1>2, <1>3, SeqPartIsAny
  <1>5. s[K] - 1 <= Len(disk)
    BY DEF Shape, Laid, Intact
  <1>6. ~error => w = disk \o buffer
    BY Zenon DEF Shape, Laid
  <1>7. Len(disk) \in Nat /\ s[K] - 1 \in Nat /\ synced \in Nat /\ synced <= Len(disk)
    BY <1>2, <1>3
  <1>. QED BY <1>1, <1>2, <1>3, <1>4, <1>5, <1>6, <1>7, Zenon

\* So long as the summary is not written, a number of chunks has been synchronised,
\* whatever is behind them.
LEMMA SyncedAnyway ==
    ASSUME NEW f, NEW g, NEW w, NEW v, NEW s, NEW b, NEW K, NEW kind, NEW kind2,
           Synced(f, w, s, b, K, kind), kind # "summary"
    PROVE  Synced(g, v, s, b, K, kind2)
  BY Zenon DEF Synced

\* The records, the index and the summary follow what is in the buffer.
LEMMA FileRecord ==
    ASSUME TypeInv, RunInv, outage = "no", ~error, writer = "record",
           NEW w, NEW s, NEW b, NEW K, NEW n, NEW kind, Shape(w, s, b, K, n, kind)
    PROVE  /\ File(disk \o (buffer \o NewParts), accepted, s, b, K, records + 1, "open")
           /\ s[K] = IF chunk = 0 THEN Len(disk) + Len(buffer) + 1 ELSE chunk
           /\ kind # "summary" /\ b[K] = sealed
  <1>1. /\ File(w, accepted, s, b, K, n, kind) /\ w = disk \o buffer
        /\ w \in Seq(AnyPart) /\ disk \in Seq(AnyPart) /\ buffer \in Seq(AnyPart)
        /\ b[K] \in Nat /\ s[K] \in Nat /\ s[K] > 0 /\ records \in Nat /\ Len(accepted) \in Nat
        /\ accepted \in Seq(Messages)
    BY ShapeTyped, Zenon
  <1>2. b[K] = sealed /\ (Fresh(kind) \/ Opened(s, K, n, kind))
    BY DEF Shape, Place, Plain
  <1>3. Taken = b[K] + records + 1
    BY <1>1, <1>2 DEF Taken
  <1>4. item = accepted[b[K] + records + 1] /\ b[K] + records < Len(accepted)
    BY <1>1, <1>3 DEF RunInv, Delivery, InHand
  <1>5. item \in Messages
    BY DEF TypeInv, Room
  <1>6. Record(item) \in Seq(AnyPart) /\ <<Header(0)>> \in Seq(AnyPart)
    <2>1. Header(0) \in AnyPart /\ <<"head", item>> \in AnyPart /\ <<"body", item>> \in AnyPart
      BY <1>5, PartsTyped, PartIsAny
    <2>. QED BY <2>1 DEF Record
  <1>7. CASE Fresh(kind)
    <2>1. /\ chunk = 0 /\ records = 0 /\ buffer = <<>> /\ kind = "end" /\ w = disk
      BY <1>1, <1>7 DEF Fresh
    <2>2. s[K] = Len(w) + 1 /\ File(w \o <<Header(0)>>, accepted, s, b, K, 0, "open")
      <3>1. File(w, accepted, s, b, K, n, "end")
        BY <1>1, <2>1
      <3>. QED BY <3>1, FileOpens, Zenon
    <2>3. b[K] + 0 < Len(accepted) /\ accepted[b[K] + 0 + 1] = item
      BY <1>1, <1>4, <2>1
    <2>4. File((w \o <<Header(0)>>) \o Record(item), accepted, s, b, K, 0 + 1, "open")
      BY <2>2, <2>3, FileRecords
    <2>5. buffer \o NewParts = <<Header(0)>> \o Record(item)
      BY <1>6, <2>1 DEF NewParts
    <2>6. disk \o (buffer \o NewParts) = (w \o <<Header(0)>>) \o Record(item)
      <3>1. PICK h, r : h = <<Header(0)>> /\ r = Record(item)
        OBVIOUS
      <3>2. h \in Seq(AnyPart) /\ r \in Seq(AnyPart)
        BY <3>1, <1>6
      <3>3. disk \o (h \o r) = (disk \o h) \o r
        BY <1>1, <3>2, Assoc, Zenon
      <3>4. buffer \o NewParts = h \o r
        BY <3>1, <2>5, Zenon
      <3>. QED BY <3>1, <3>3, <3>4, <2>1, Zenon
    <2>7. records + 1 = 0 + 1 /\ s[K] = Len(disk) + Len(buffer) + 1
      BY <1>1, <2>1, <2>2
    <2>. QED BY <1>2, <2>1, <2>4, <2>6, <2>7
  <1>8. CASE Opened(s, K, n, kind)
    <2>1. chunk = s[K] /\ kind = "open" /\ n = records /\ chunk # 0
      BY <1>1, <1>8 DEF Opened
    <2>2. b[K] + n < Len(accepted) /\ accepted[b[K] + n + 1] = item
      BY <1>4, <2>1
    <2>3. File(w \o Record(item), accepted, s, b, K, records + 1, "open")
      BY <1>1, <2>1, <2>2, FileRecords
    <2>4. NewParts = Record(item)
      BY <1>6, <2>1 DEF NewParts
    <2>5. disk \o (buffer \o NewParts) = w \o Record(item)
      BY <1>1, <1>6, <2>4, Assoc
    <2>. QED BY <1>2, <2>1, <2>3, <2>5
  <1>. QED BY <1>2, <1>7, <1>8

LEMMA FileIndex ==
    ASSUME TypeInv, ~error, writer = "index",
           NEW w, NEW s, NEW b, NEW K, NEW n, NEW kind, Shape(w, s, b, K, n, kind)
    PROVE  /\ File(disk \o Append(buffer, Index(records)), accepted, s, b, K, records, "indexed")
           /\ kind # "summary" /\ b[K] = sealed /\ chunk = s[K] /\ records > 0
  <1>1. /\ File(w, accepted, s, b, K, n, kind) /\ w = disk \o buffer
        /\ disk \in Seq(AnyPart) /\ buffer \in Seq(AnyPart) /\ records \in Nat
    BY ShapeTyped, Zenon
  <1>2. b[K] = sealed /\ chunk = s[K] /\ kind = "open" /\ n = records /\ records > 0
    BY DEF Shape, Place, Plain, Opened
  <1>3. File(Append(w, Index(records)), accepted, s, b, K, records, "indexed")
    BY <1>1, <1>2, FileIndexes, Zenon
  <1>4. Index(records) \in AnyPart
    BY <1>1, PartsTyped, PartIsAny
  <1>5. disk \o Append(buffer, Index(records)) = Append(w, Index(records))
    BY <1>1, <1>4, AppendIs
  <1>. QED BY <1>2, <1>3, <1>5

LEMMA FileSummary ==
    ASSUME TypeInv, ~error, writer = "summary",
           NEW w, NEW s, NEW b, NEW K, NEW n, NEW kind, Shape(w, s, b, K, n, kind)
    PROVE  /\ File(disk \o <<Summary(sealed)>>, accepted, s, b, K, 0, "summary")
           /\ kind # "summary" /\ b[K] = sealed /\ chunk = 0 /\ records = 0
           /\ buffer = <<>>
  <1>1. /\ File(w, accepted, s, b, K, n, kind) /\ w = disk \o buffer
        /\ disk \in Seq(AnyPart)
    BY ShapeTyped, Zenon
  <1>2. b[K] = sealed /\ chunk = 0 /\ records = 0 /\ buffer = <<>> /\ kind = "end"
    BY DEF Shape, Place, Plain, Fresh
  <1>3. w = disk
    BY <1>1, <1>2
  <1>4. File(w \o <<Summary(b[K])>>, accepted, s, b, K, 0, "summary")
    BY <1>1, <1>2, FileEnds, Zenon
  <1>. QED BY <1>2, <1>3, <1>4

\* What a step leaves of a shape.
LEMMA SyncedKeeps ==
    ASSUME NEW w, NEW v, NEW s, NEW b, NEW K, NEW kind, NEW kind2,
           Synced(disk, w, s, b, K, kind), kind # "summary",
           synced' = synced, sealed' = sealed
    PROVE  Synced(disk, v, s, b, K, kind2)'
  BY DEF Synced
LEMMA ShapeKeeps ==
    ASSUME NEW w, NEW s, NEW b, NEW K, NEW n, NEW kind, Shape(w, s, b, K, n, kind),
           UNCHANGED <<file, error, accepted>>, ~error => Place(s, b, K, n, kind)'
    PROVE  Shape(w, s, b, K, n, kind)'
  <1>1. UNCHANGED <<disk, buffer, synced, chunk, records, sealed>>
    BY DEF file
  <1>2. Laid(w, s, b, K, n, kind)'
    BY <1>1 DEF Shape, Laid, Beginning, Intact
  <1>3. Plain(s, b, K, kind)' \/ OneMore(s, b, K, kind)'
    BY <1>1 DEF Shape, Plain, OneMore
  <1>4. Synced(disk, w, s, b, K, kind)'
    BY <1>1 DEF Shape, Synced
  <1>. QED BY <1>2, <1>3, <1>4 DEF Shape
LEMMA ShapeRaises ==
    ASSUME NEW w, NEW s, NEW b, NEW K, NEW n, NEW kind, Shape(w, s, b, K, n, kind),
           UNCHANGED <<disk, buffer, synced, chunk, records, sealed, accepted>>, error'
    PROVE  Shape(w, s, b, K, n, kind)'
  <1>1. UNCHANGED <<disk, buffer, synced, chunk, records, sealed>>
    OBVIOUS
  <1>2. Laid(w, s, b, K, n, kind)'
    BY <1>1 DEF Shape, Laid, Beginning, Intact
  <1>3. Plain(s, b, K, kind)' \/ OneMore(s, b, K, kind)'
    BY <1>1 DEF Shape, Plain, OneMore
  <1>4. Synced(disk, w, s, b, K, kind)'
    BY <1>1 DEF Shape, Synced
  <1>. QED BY <1>2, <1>3, <1>4 DEF Shape

LEMMA ShapeTake ==
    ASSUME Modes, NEW w, NEW s, NEW b, NEW K, NEW n, NEW kind,
           Shape(w, s, b, K, n, kind), Take
    PROVE  Shape(w, s, b, K, n, kind)'
  <1>1. UNCHANGED <<file, error, accepted>> /\ writer = "get" /\ writer' \in {"record", "finish"}
    BY DEF Take, WriterGoes
  <1>2. ~error => Place(s, b, K, n, kind)'
    BY <1>1 DEF Shape, Place, Plain, Fresh, Opened, file
  <1>. QED BY <1>1, <1>2, ShapeKeeps
LEMMA ShapeFinish ==
    ASSUME TypeInv, NEW w, NEW s, NEW b, NEW K, NEW n, NEW kind,
           Shape(w, s, b, K, n, kind), Finish
    PROVE  Shape(w, s, b, K, n, kind)'
  <1>1. /\ UNCHANGED <<file, error, accepted>> /\ writer = "finish"
        /\ writer' = IF chunk # 0 THEN "index" ELSE "summary"
    BY DEF Finish, WriterGoes
  <1>2. s[K] \in Nat /\ s[K] > 0
    BY ShapeTyped, Zenon
  <1>3. ~error => Place(s, b, K, n, kind)'
    BY <1>1, <1>2 DEF Shape, Place, Plain, Fresh, Opened, file
  <1>. QED BY <1>1, <1>3, ShapeKeeps
LEMMA ShapeRelease ==
    ASSUME NEW w, NEW s, NEW b, NEW K, NEW n, NEW kind,
           Shape(w, s, b, K, n, kind), Release
    PROVE  Shape(w, s, b, K, n, kind)'
  <1>1. /\ UNCHANGED <<file, error, accepted>> /\ writer = "release" /\ writer' = "done"
    BY DEF Release, WriterGoes
  <1>2. ~error => Place(s, b, K, n, kind)'
    BY <1>1 DEF Shape, Place, Plain, file
  <1>. QED BY <1>1, <1>2, ShapeKeeps

\* A message is recorded.
LEMMA ShapeRecord ==
    ASSUME TypeInv, RunInv, outage = "no", NEW w, NEW s, NEW b, NEW K, NEW n, NEW kind,
           Shape(w, s, b, K, n, kind), WriteRecord
    PROVE  \E v, r : Shape(v, s, b, K, r, "open")'
  <1>1. ~error /\ writer = "record" /\ item \in Messages
    BY DEF WriteRecord, RunInv, Modes, TypeInv, Room
  <1>2. PICK p : p = buffer \o NewParts
    OBVIOUS
  <1>3. PICK v, r : v = disk \o p /\ r = records + 1
    OBVIOUS
  <1>4. /\ File(v, accepted, s, b, K, r, "open")
        /\ s[K] = IF chunk = 0 THEN Len(disk) + Len(buffer) + 1 ELSE chunk
        /\ kind # "summary" /\ b[K] = sealed
    <2>1. /\ File(disk \o (buffer \o NewParts), accepted, s, b, K, records + 1, "open")
          /\ s[K] = IF chunk = 0 THEN Len(disk) + Len(buffer) + 1 ELSE chunk
          /\ kind # "summary" /\ b[K] = sealed
      BY <1>1, FileRecord
    <2>. QED BY <2>1, <1>2, <1>3
  <1>5. /\ disk \in Seq(AnyPart) /\ buffer \in Seq(Part) /\ s[K] - 1 \in Nat
        /\ s[K] - 1 <= Len(disk) /\ records \in Nat
    BY ShapeTyped, Zenon
  <1>6. p \in Seq(Part)
    BY <1>1, <1>2, <1>5, NewPartsTyped
  <1>7. PICK j \in {0} \cup Len(buffer)..Len(p) :
            disk' = disk \o Cut(p, j) /\ buffer' = SubSeq(p, j + 1, Len(p))
    BY <1>2 DEF WriteRecord, Written
  <1>8. j \in 0..Len(p)
    BY <1>5, <1>6
  <1>9. Cut(p, j) \in Cuts(p)
    BY <1>8 DEF Cuts
  <1>10. Beginning(disk', v) /\ Intact(disk', v, s[K] - 1)
    BY <1>3, <1>5, <1>6, <1>7, <1>9, CutBegins
  <1>11. v = disk' \o buffer'
    BY <1>3, <1>5, <1>6, <1>7, <1>8, Rejoin
  <1>12. /\ accepted' = accepted /\ sealed' = sealed /\ synced' = synced
         /\ records' = r /\ writer' \in {"index", "get"} /\ chunk' = s[K]
    BY <1>3, <1>4 DEF WriteRecord, WriterGoes
  <1>13. Laid(v, s, b, K, r, "open")'
    <2>1. File(v, accepted', s, b, K, r, "open")
      BY <1>4, <1>12
    <2>. QED BY <2>1, <1>10, <1>11, Zenon DEF Laid
  <1>14. Plain(s, b, K, "open")' /\ Opened(s, K, r, "open")'
    <2>1. b[K] = sealed' /\ chunk' = s[K] /\ records' = r /\ r > 0
      BY <1>3, <1>4, <1>5, <1>12
    <2>. QED BY <2>1 DEF Plain, Opened
  <1>15. Synced(disk, v, s, b, K, "open")'
    <2>1. Synced(disk, w, s, b, K, kind)
      BY Zenon DEF Shape
    <2>. QED BY <2>1, <1>4, <1>12, SyncedKeeps
  <1>16. Place(s, b, K, r, "open")'
    BY <1>12, <1>14 DEF Place
  <1>17. Shape(v, s, b, K, r, "open")'
    BY <1>13, <1>14, <1>15, <1>16 DEF Shape
  <1>. QED BY <1>17

\* A file that has all its parts.
LEMMA LaidWhole ==
    ASSUME NEW w, NEW s, NEW b, NEW K, NEW n, NEW kind,
           File(w, accepted', s, b, K, n, kind), disk' = w, buffer' = <<>>
    PROVE  Laid(w, s, b, K, n, kind)'
  <1>1. w \in Seq(Part) /\ s[K] \in Nat /\ s[K] > 0 /\ Len(w) \in Nat
    BY FileShape, Zenon
  <1>2. s[K] - 1 \in Nat /\ s[K] - 1 <= Len(w)
    BY <1>1, PlacesWithin
  <1>3. Beginning(w, w) /\ Intact(w, w, s[K] - 1)
    BY <1>1, <1>2, WholeBegins
  <1>4. w = w \o <<>>
    BY <1>1, SeqPartIsAny, EmptyEnd
  <1>. QED BY <1>3, <1>4 DEF Laid
LEMMA ShapeIndex ==
    ASSUME TypeInv, RunInv, outage = "no", NEW w, NEW s, NEW b, NEW K, NEW n, NEW kind,
           Shape(w, s, b, K, n, kind), WriteIndex
    PROVE  \E v, r : Shape(v, s, b, K, r, "indexed")'
  <1>1. ~error /\ writer = "index"
    BY DEF WriteIndex, RunInv, Modes
  <1>2. PICK v, r : v = disk \o Append(buffer, Index(records)) /\ r = records
    OBVIOUS
  <1>3. /\ File(v, accepted, s, b, K, r, "indexed")
        /\ kind # "summary" /\ b[K] = sealed /\ chunk = s[K] /\ r > 0
    <2>1. /\ File(disk \o Append(buffer, Index(records)), accepted, s, b, K, records, "indexed")
          /\ kind # "summary" /\ b[K] = sealed /\ chunk = s[K] /\ records > 0
      BY <1>1, FileIndex, Zenon
    <2>. QED BY <2>1, <1>2
  <1>4. /\ disk' = v /\ buffer' = <<>> /\ accepted' = accepted /\ sealed' = sealed
        /\ synced' = synced /\ records' = r /\ chunk' = chunk /\ writer' = "seal"
    BY <1>2 DEF WriteIndex, Written, WriterGoes
  <1>5. Laid(v, s, b, K, r, "indexed")'
    BY <1>3, <1>4, LaidWhole
  <1>6. Plain(s, b, K, "indexed")'
    BY <1>3, <1>4 DEF Plain
  <1>7. Synced(disk, v, s, b, K, "indexed")'
    <2>1. Synced(disk, w, s, b, K, kind)
      BY Zenon DEF Shape
    <2>. QED BY <2>1, <1>3, <1>4, SyncedKeeps
  <1>8. Place(s, b, K, r, "indexed")'
    BY <1>3, <1>4, <1>6 DEF Place
  <1>9. Shape(v, s, b, K, r, "indexed")'
    BY <1>5, <1>6, <1>7, <1>8 DEF Shape
  <1>. QED BY <1>9
LEMMA ShapeSummary ==
    ASSUME TypeInv, RunInv, outage = "no", NEW w, NEW s, NEW b, NEW K, NEW n, NEW kind,
           Shape(w, s, b, K, n, kind), WriteSummary
    PROVE  \E v : Shape(v, s, b, K, 0, "summary")'
  <1>1. ~error /\ writer = "summary"
    BY DEF WriteSummary, RunInv, Modes
  <1>2. PICK v : v = disk \o <<Summary(sealed)>>
    OBVIOUS
  <1>3. /\ File(v, accepted, s, b, K, 0, "summary")
        /\ kind # "summary" /\ b[K] = sealed /\ chunk = 0 /\ records = 0 /\ buffer = <<>>
    <2>1. /\ File(disk \o <<Summary(sealed)>>, accepted, s, b, K, 0, "summary")
          /\ kind # "summary" /\ b[K] = sealed /\ chunk = 0 /\ records = 0 /\ buffer = <<>>
      BY <1>1, FileSummary, Zenon
    <2>. QED BY <2>1, <1>2
  <1>4. /\ disk' = v /\ buffer' = buffer /\ accepted' = accepted /\ sealed' = sealed
        /\ synced' = synced /\ records' = records /\ chunk' = chunk /\ writer' = "sync_end"
    BY <1>2 DEF WriteSummary, Written, WriterGoes
  <1>5. Laid(v, s, b, K, 0, "summary")'
    BY <1>3, <1>4, LaidWhole
  <1>6. Plain(s, b, K, "summary")'
    BY <1>3, <1>4 DEF Plain
  <1>7. Synced(disk, v, s, b, K, "summary")'
    <2>1. Synced(disk, w, s, b, K, kind)
      BY Zenon DEF Shape
    <2>. QED BY <2>1, <1>3, <1>4, SyncedKeeps
  <1>8. Place(s, b, K, 0, "summary")'
    BY <1>3, <1>4, <1>6 DEF Place
  <1>9. Shape(v, s, b, K, 0, "summary")'
    BY <1>5, <1>6, <1>7, <1>8 DEF Shape
  <1>. QED BY <1>9

\* The header of the chunk is written again: it is complete.
LEMMA ShapeSeal ==
    ASSUME TypeInv, RunInv, outage = "no", NEW w, NEW s, NEW b, NEW K, NEW n, NEW kind,
           Shape(w, s, b, K, n, kind), Seal
    PROVE  \E v, c, d, L : Shape(v, c, d, L, 0, "end")'
  <1>1. ~error /\ writer = "seal"
    BY DEF Seal, RunInv, Modes
  <1>2. /\ File(w, accepted, s, b, K, n, kind) /\ w = disk \o buffer
        /\ disk \in Seq(AnyPart) /\ K \in Nat /\ s[K] \in Nat /\ s[K] > 0 /\ b[K] \in Nat
        /\ n \in Nat /\ synced \in Nat
    BY <1>1, ShapeTyped, Zenon
  <1>3. /\ b[K] = sealed /\ chunk = s[K] /\ kind = "indexed"
        /\ n = records /\ records > 0 /\ buffer = <<>>
    BY <1>1 DEF Shape, Place, Plain
  <1>4. w = disk
    BY <1>2, <1>3
  <1>5. File(w, accepted, s, b, K, n, "indexed") /\ n > 0
    BY <1>2, <1>3
  <1>6. PICK v : v = [w EXCEPT ![s[K]] = Header(n)]
    OBVIOUS
  <1>7. PICK c, d : /\ Extends(s, c, K) /\ Extends(b, d, K)
                    /\ c[K + 1] = Len(w) + 1 /\ d[K + 1] = b[K] + n
                    /\ File(v, accepted, c, d, K + 1, 0, "end")
    BY <1>5, <1>6, FileSeals
  <1>8. PICK L : L = K + 1
    OBVIOUS
  <1>9. L \in Nat /\ L > 0 /\ L - 1 = K /\ K \in 0..K
    BY <1>2, <1>8
  <1>10. c[L - 1] = s[K] /\ d[L - 1] = b[K] /\ d[L] = b[K] + n
    BY <1>7, <1>8, <1>9 DEF Extends
  <1>11. /\ disk' = v /\ buffer' = <<>> /\ accepted' = accepted /\ sealed' = sealed
         /\ synced' = synced /\ records' = records /\ chunk' = chunk /\ writer' = "sync"
    BY <1>3, <1>4, <1>6 DEF Seal, WriterGoes
  <1>12. Laid(v, c, d, L, 0, "end")'
    BY <1>7, <1>8, <1>11, LaidWhole
  <1>13. PICK k \in 0..K : synced = s[k] - 1 /\ (Durable => sealed <= b[k])
    BY <1>3 DEF Shape, Synced
  <1>14. s[k] \in Nat /\ s[k] <= s[K] /\ c[k] = s[k] /\ d[k] = b[k] /\ k \in 0..L
    <2>1. Grows(s, b, K)
      BY <1>2, FileShape, Zenon
    <2>2. s[k] \in Nat /\ s[k] <= s[K]
      BY <2>1, <1>2, PlacesGrow
    <2>. QED BY <2>2, <1>2, <1>7, <1>8 DEF Extends
  <1>15. synced < c[L - 1]
    BY <1>2, <1>10, <1>13, <1>14
  <1>16. OneMore(c, d, L, "end")'
    BY <1>3, <1>9, <1>10, <1>11, <1>15 DEF OneMore
  <1>17. Synced(disk, v, c, d, L, "end")'
    BY <1>11, <1>13, <1>14 DEF Synced
  <1>18. Place(c, d, L, 0, "end")'
    BY <1>3, <1>10, <1>11, <1>16 DEF Place
  <1>19. Shape(v, c, d, L, 0, "end")'
    BY <1>12, <1>16, <1>17, <1>18 DEF Shape
  <1>. QED BY <1>19

\* The checkpoint is synchronised, and completed.
LEMMA ShapeSync ==
    ASSUME TypeInv, RunInv, outage = "no", NEW w, NEW s, NEW b, NEW K, NEW n, NEW kind,
           Shape(w, s, b, K, n, kind), Sync
    PROVE  Shape(w, s, b, K, n, kind)'
  <1>1. ~error /\ writer = "sync"
    BY DEF Sync, RunInv, Modes
  <1>2. /\ File(w, accepted, s, b, K, n, kind) /\ w = disk \o buffer
        /\ disk \in Seq(AnyPart) /\ K \in Nat /\ s[K] \in Nat /\ s[K] > 0 /\ b[K] \in Nat
        /\ n \in Nat /\ sealed \in Nat /\ records \in Nat
    BY <1>1, ShapeTyped, Zenon
  <1>3. b[K] = sealed + records /\ kind = "end" /\ buffer = <<>>
    BY <1>1 DEF Shape, Place, OneMore
  <1>4. w = disk
    BY <1>2, <1>3
  <1>5. Len(w) = s[K] - 1
    <2>1. Ending(w, accepted, s[K], b[K], n, kind)
      BY <1>2, FileShape, Zenon
    <2>. QED BY <2>1, <1>2, <1>3 DEF Ending
  <1>6. /\ disk' = w /\ buffer' = <<>> /\ accepted' = accepted /\ sealed' = b[K]
        /\ records' = 0 /\ chunk' = 0 /\ writer' \in {"summary", "get"}
        /\ synced' = IF Durable THEN s[K] - 1 ELSE synced
    BY <1>3, <1>4, <1>5 DEF Sync, WriterGoes
  <1>7. Laid(w, s, b, K, n, kind)'
    BY <1>2, <1>6, LaidWhole
  <1>8. Plain(s, b, K, kind)' /\ Fresh(kind)'
    BY <1>3, <1>6 DEF Plain, Fresh
  <1>9. Synced(disk, w, s, b, K, kind)'
    <2>1. PICK k \in 0..K : synced = s[k] - 1
      BY <1>3 DEF Shape, Synced
    <2>2. CASE Durable
      <3>1. K \in 0..K /\ synced' = s[K] - 1 /\ sealed' <= b[K]
        BY <2>2, <1>2, <1>6
      <3>. QED BY <3>1 DEF Synced
    <2>3. CASE ~Durable
      <3>1. synced' = s[k] - 1
        BY <2>1, <2>3, <1>6
      <3>. QED BY <3>1, <2>3 DEF Synced
    <2>. QED BY <2>2, <2>3
  <1>10. Place(s, b, K, n, kind)'
    BY <1>6, <1>8 DEF Place
  <1>. QED BY <1>7, <1>8, <1>9, <1>10 DEF Shape
LEMMA ShapeSyncEnd ==
    ASSUME TypeInv, RunInv, outage = "no", NEW w, NEW s, NEW b, NEW K, NEW n, NEW kind,
           Shape(w, s, b, K, n, kind), SyncEnd
    PROVE  Shape(w, s, b, K, n, kind)'
  <1>1. ~error /\ writer = "sync_end"
    BY DEF SyncEnd, RunInv, Modes
  <1>2. /\ File(w, accepted, s, b, K, n, kind) /\ w = disk \o buffer
        /\ disk \in Seq(AnyPart) /\ b[K] \in Nat /\ Len(w) \in Nat /\ w \in Seq(Part)
    BY <1>1, ShapeTyped, Zenon
  <1>3. /\ b[K] = sealed /\ kind = "summary" /\ chunk = 0 /\ records = 0 /\ buffer = <<>>
    BY <1>1 DEF Shape, Place, Plain
  <1>4. w = disk
    BY <1>2, <1>3
  <1>5. /\ disk' = w /\ buffer' = <<>> /\ accepted' = accepted /\ sealed' = sealed
        /\ records' = 0 /\ chunk' = 0 /\ writer' = "release"
        /\ synced' = IF Durable THEN Len(w) ELSE synced
    BY <1>3, <1>4 DEF SyncEnd, WriterGoes
  <1>6. Laid(w, s, b, K, n, kind)'
    BY <1>2, <1>5, LaidWhole
  <1>7. Plain(s, b, K, kind)'
    BY <1>3, <1>5 DEF Plain
  <1>8. Synced(disk, w, s, b, K, kind)'
    <2>1. CASE Durable
      <3>1. Intact(w, w, Len(w)) /\ sealed <= b[K]
        BY <1>2, <1>3, WholeBegins
      <3>. QED BY <2>1, <3>1, <1>3, <1>5 DEF Synced
    <2>2. CASE ~Durable
      <3>1. synced' = synced /\ sealed' = sealed /\ disk' = disk
        BY <2>2, <1>4, <1>5
      <3>2. Synced(disk, w, s, b, K, kind)
        BY Zenon DEF Shape
      <3>. QED BY <3>1, <3>2 DEF Synced
    <2>. QED BY <2>1, <2>2
  <1>9. Place(s, b, K, n, kind)'
    BY <1>3, <1>5, <1>7 DEF Place
  <1>. QED BY <1>6, <1>7, <1>8, <1>9 DEF Shape

\* What is being written when a step breaks off.
LEMMA PendingBegins ==
    ASSUME TypeInv, RunInv, outage = "no", NEW w, NEW s, NEW b, NEW K, NEW n, NEW kind,
           Shape(w, s, b, K, n, kind), NEW c \in Cuts(Pending), NEW f, f = disk \o c
    PROVE  \E v, n2, kind2 :
             /\ File(v, accepted, s, b, K, n2, kind2)
             /\ Beginning(f, v) /\ Intact(f, v, s[K] - 1)
             /\ Plain(s, b, K, kind2) \/ OneMore(s, b, K, kind2)
             /\ Synced(f, v, s, b, K, kind2)
  <1>1. /\ File(w, accepted, s, b, K, n, kind) /\ w \in Seq(AnyPart) /\ Len(w) \in Nat
        /\ disk \in Seq(AnyPart) /\ Len(disk) \in Nat /\ s[K] - 1 \in Nat
        /\ s[K] - 1 <= Len(disk) /\ buffer \in Seq(Part)
    BY ShapeTyped, Zenon
  <1>2. /\ Beginning(disk, w) /\ Intact(disk, w, s[K] - 1)
        /\ Plain(s, b, K, kind) \/ OneMore(s, b, K, kind)
        /\ Synced(disk, w, s, b, K, kind)
        /\ w = disk \o buffer \/ (error /\ buffer = <<>>)
    BY Zenon DEF Shape, Laid
  <1>3. Pending \in Seq(Part)
    BY PendingTyped
  <1>4. ASSUME NEW x \in Nat, x <= Len(disk)
        PROVE  Beginning(f, disk \o Pending) /\ Intact(f, disk \o Pending, x)
    BY <1>1, <1>3, <1>4, CutBegins
  <1>5. CASE writer = "record"
    <2>1. ~error
      BY <1>5 DEF RunInv, Modes
    <2>2. Pending = buffer \o NewParts
      BY <1>5 DEF Pending
    <2>3. /\ File(disk \o (buffer \o NewParts), accepted, s, b, K, records + 1, "open")
          /\ s[K] = IF chunk = 0 THEN Len(disk) + Len(buffer) + 1 ELSE chunk
          /\ kind # "summary" /\ b[K] = sealed
      BY <2>1, <1>5, FileRecord
    <2>4. PICK v : v = disk \o Pending
      OBVIOUS
    <2>5. File(v, accepted, s, b, K, records + 1, "open") /\ Beginning(f, v) /\ Intact(f, v, s[K] - 1)
      BY <2>2, <2>3, <2>4, <1>1, <1>4
    <2>6. Plain(s, b, K, "open")
      BY <2>3 DEF Plain
    <2>7. Synced(f, v, s, b, K, "open")
      BY <2>3, <1>2, SyncedAnyway, Zenon
    <2>. QED BY <2>5, <2>6, <2>7, Zenon
  <1>6. CASE writer = "index"
    <2>1. ~error
      BY <1>6 DEF RunInv, Modes
    <2>2. Pending = Append(buffer, Index(records))
      BY <1>6 DEF Pending
    <2>3. /\ File(disk \o Append(buffer, Index(records)), accepted, s, b, K, records, "indexed")
          /\ kind # "summary" /\ b[K] = sealed /\ chunk = s[K] /\ records > 0
      BY <2>1, <1>6, FileIndex, Zenon
    <2>4. PICK v : v = disk \o Pending
      OBVIOUS
    <2>5. File(v, accepted, s, b, K, records, "indexed") /\ Beginning(f, v) /\ Intact(f, v, s[K] - 1)
      BY <2>2, <2>3, <2>4, <1>1, <1>4
    <2>6. Plain(s, b, K, "indexed")
      BY <2>3 DEF Plain
    <2>7. Synced(f, v, s, b, K, "indexed")
      BY <2>3, <1>2, SyncedAnyway, Zenon
    <2>. QED BY <2>5, <2>6, <2>7, Zenon
  <1>7. CASE writer = "summary"
    <2>1. ~error
      BY <1>7 DEF RunInv, Modes
    <2>2. Pending = <<Summary(sealed)>>
      BY <1>7 DEF Pending
    <2>3. /\ File(disk \o <<Summary(sealed)>>, accepted, s, b, K, 0, "summary")
          /\ kind # "summary" /\ b[K] = sealed /\ chunk = 0
      BY <2>1, <1>7, FileSummary, Zenon
    <2>4. PICK v : v = disk \o Pending
      OBVIOUS
    <2>5. File(v, accepted, s, b, K, 0, "summary") /\ Beginning(f, v) /\ Intact(f, v, s[K] - 1)
      BY <2>2, <2>3, <2>4, <1>1, <1>4
    <2>6. Plain(s, b, K, "summary")
      BY <2>3 DEF Plain
    <2>7. Synced(f, v, s, b, K, "summary")
      BY <2>3, <1>2, SyncedAnyway, Zenon
    <2>. QED BY <2>5, <2>6, <2>7, Zenon
  <1>8. CASE writer = "abort" /\ w = disk \o buffer
    <2>1. Pending = buffer
      BY <1>8 DEF Pending
    <2>2. Beginning(f, w) /\ Intact(f, w, s[K] - 1)
      BY <2>1, <1>1, <1>4, <1>8
    <2>3. Len(w) <= Len(disk) => Intact(f, w, Len(w))
      BY <2>1, <1>1, <1>4, <1>8
    <2>4. Synced(f, w, s, b, K, kind)
      BY <2>3, <1>2, Zenon DEF Synced, Intact
    <2>. QED BY <2>2, <2>4, <1>1, <1>2, Zenon
  <1>9. CASE Pending = <<>>
    <2>1. c \in Seq(AnyPart) /\ Len(c) <= 0
      BY <1>3, <1>9, CutsAre
    <2>2. c = <<>>
      BY <2>1
    <2>3. f = disk
      BY <2>2, <1>1, EmptyEnd
    <2>. QED BY <2>3, <1>1, <1>2, Zenon
  <1>10. CASE writer = "abort" /\ buffer = <<>>
    <2>1. Pending = <<>>
      BY <1>10 DEF Pending
    <2>. QED BY <2>1, <1>9
  <1>11. CASE writer \notin {"record", "index", "summary", "abort"}
    <2>1. Pending = <<>>
      BY <1>11 DEF Pending
    <2>. QED BY <2>1, <1>9
  <1>. QED BY <1>2, <1>5, <1>6, <1>7, <1>8, <1>10, <1>11
LEMMA ShapeAbort ==
    ASSUME TypeInv, RunInv, outage = "no", NEW w, NEW s, NEW b, NEW K, NEW n, NEW kind,
           Shape(w, s, b, K, n, kind), Abort
    PROVE  Shape(w, s, b, K, n, kind)'
  <1>1. error /\ writer = "abort"
    BY DEF Abort, RunInv, Modes
  <1>2. /\ File(w, accepted, s, b, K, n, kind) /\ w \in Seq(Part) /\ Len(w) \in Nat
        /\ disk \in Seq(AnyPart)
    BY ShapeTyped, Zenon
  <1>3. /\ Beginning(disk, w) /\ Intact(disk, w, s[K] - 1)
        /\ Plain(s, b, K, kind) \/ OneMore(s, b, K, kind)
        /\ Synced(disk, w, s, b, K, kind)
        /\ w = disk \o buffer \/ buffer = <<>>
    BY Zenon DEF Shape, Laid
  <1>4. /\ disk' = disk \o buffer /\ buffer' = <<>> /\ accepted' = accepted
        /\ UNCHANGED <<synced, chunk, records, sealed, error>>
    BY DEF Abort, Written
  <1>5. Plain(s, b, K, kind)' \/ OneMore(s, b, K, kind)'
    BY <1>3, <1>4 DEF Plain, OneMore
  <1>6. CASE w = disk \o buffer
    <2>1. disk' = w
      BY <1>4, <1>6
    <2>2. Laid(w, s, b, K, n, kind)'
      BY <2>1, <1>2, <1>4, LaidWhole
    <2>3. Intact(w, w, Len(w))
      BY <1>2, WholeBegins
    <2>4. Synced(disk, w, s, b, K, kind)'
      BY <2>1, <2>3, <1>3, <1>4 DEF Synced
    <2>. QED BY <2>2, <2>4, <1>1, <1>4, <1>5 DEF Shape
  <1>7. CASE buffer = <<>>
    <2>1. UNCHANGED <<disk, buffer, synced, chunk, records, sealed, accepted>> /\ error'
      BY <1>1, <1>2, <1>4, <1>7, EmptyEnd
    <2>. QED BY <2>1, ShapeRaises
  <1>. QED BY <1>3, <1>6, <1>7

\* What fails.
LEMMA ShapeDiskFull ==
    ASSUME TypeInv, RunInv, outage = "no", NEW w, NEW s, NEW b, NEW K, NEW n, NEW kind,
           Shape(w, s, b, K, n, kind), DiskFull
    PROVE  \E v, n2, kind2 : Shape(v, s, b, K, n2, kind2)'
  <1>1. PICK f : f = disk'
    OBVIOUS
  <1>2. PICK c \in Cuts(Pending) : f = disk \o c
    BY <1>1 DEF DiskFull, Written
  <1>3. PICK v, n2, kind2 :
             /\ File(v, accepted, s, b, K, n2, kind2)
             /\ Beginning(f, v) /\ Intact(f, v, s[K] - 1)
             /\ Plain(s, b, K, kind2) \/ OneMore(s, b, K, kind2)
             /\ Synced(f, v, s, b, K, kind2)
    BY <1>2, PendingBegins
  <1>4. /\ disk' = f /\ buffer' = <<>> /\ error' /\ accepted' = accepted
        /\ UNCHANGED <<synced, chunk, records, sealed>>
    BY <1>1 DEF DiskFull, WriterRaises
  <1>5. Laid(v, s, b, K, n2, kind2)'
    BY <1>3, <1>4 DEF Laid
  <1>6. Plain(s, b, K, kind2)' \/ OneMore(s, b, K, kind2)'
    BY <1>3, <1>4 DEF Plain, OneMore
  <1>7. Synced(disk, v, s, b, K, kind2)'
    BY <1>3, <1>4 DEF Synced
  <1>8. Shape(v, s, b, K, n2, kind2)'
    BY <1>4, <1>5, <1>6, <1>7 DEF Shape
  <1>. QED BY <1>8
LEMMA ShapeRecordRaises ==
    ASSUME TypeInv, RunInv, outage = "no", NEW w, NEW s, NEW b, NEW K, NEW n, NEW kind,
           Shape(w, s, b, K, n, kind), RecordRaises
    PROVE  \E v, n2, kind2 : Shape(v, s, b, K, n2, kind2)'
  <1>1. ~error /\ writer = "record"
    BY DEF RecordRaises, RunInv, Modes
  <1>2. /\ File(w, accepted, s, b, K, n, kind) /\ w = disk \o buffer
        /\ disk \in Seq(AnyPart) /\ s[K] - 1 \in Nat /\ s[K] - 1 <= Len(disk)
        /\ s[K] \in Nat /\ s[K] > 0
    BY <1>1, ShapeTyped, Zenon
  <1>3. b[K] = sealed /\ (Fresh(kind) \/ Opened(s, K, n, kind))
    BY <1>1 DEF Shape, Place, Plain
  <1>4. CASE Fresh(kind)
    <2>1. chunk = 0 /\ buffer = <<>> /\ kind = "end" /\ w = disk
      BY <1>2, <1>4 DEF Fresh
    <2>2. PICK p : p = <<Header(0)>>
      OBVIOUS
    <2>3. p \in Seq(Part) /\ Len(p) = 1 /\ Append(<<>>, Header(0)) = p
      <3>1. Header(0) \in Part
        BY PartsTyped
      <3>. QED BY <2>2, <3>1
    <2>4. s[K] = Len(disk) + 1 /\ File(disk \o p, accepted, s, b, K, 0, "open")
      <3>1. File(disk, accepted, s, b, K, n, "end")
        BY <2>1, <1>2
      <3>2. s[K] = Len(disk) + 1 /\ File(disk \o <<Header(0)>>, accepted, s, b, K, 0, "open")
        BY <3>1, FileOpens, Zenon
      <3>. QED BY <3>2, <2>2
    <2>5. PICK v : v = disk \o p
      OBVIOUS
    <2>6. Beginning(disk, v) /\ Intact(disk, v, s[K] - 1)
      <3>1. 0 \in 0..Len(p) /\ Cut(p, 0) \in Cuts(p)
        BY <2>3 DEF Cuts
      <3>2. PICK c : c = Cut(p, 0)
        OBVIOUS
      <3>3. c \in Seq(Part) /\ Len(c) = 0
        BY <2>3, <3>1, <3>2, CutTyped, Zenon
      <3>4. c = <<>>
        BY <3>3
      <3>5. Beginning(disk \o c, v) /\ Intact(disk \o c, v, s[K] - 1)
        BY <2>3, <2>5, <3>1, <3>2, <1>2, CutBegins
      <3>6. disk \o c = disk
        BY <3>4, <1>2, EmptyEnd
      <3>. QED BY <3>5, <3>6
    <2>7. /\ disk' = disk /\ buffer' = p /\ error' /\ accepted' = accepted
          /\ chunk' = s[K] /\ UNCHANGED <<synced, sealed>>
      <3>1. Len(buffer) = 0 /\ Len(disk) + 0 = Len(disk)
        BY <2>1, <1>2
      <3>. QED BY <2>1, <2>3, <2>4, <3>1 DEF RecordRaises, WriterRaises
    <2>8. Laid(v, s, b, K, 0, "open")'
      BY <2>4, <2>5, <2>6, <2>7 DEF Laid
    <2>9. Plain(s, b, K, "open")'
      BY <2>7, <1>3 DEF Plain
    <2>10. Synced(disk, v, s, b, K, "open")'
      <3>1. Synced(disk, w, s, b, K, kind)
        BY Zenon DEF Shape
      <3>. QED BY <3>1, <2>1, <2>7, SyncedKeeps
    <2>11. Shape(v, s, b, K, 0, "open")'
      BY <2>7, <2>8, <2>9, <2>10 DEF Shape
    <2>. QED BY <2>11
  <1>5. CASE Opened(s, K, n, kind)
    <2>1. chunk # 0
      BY <1>2, <1>5 DEF Opened
    <2>2. UNCHANGED <<disk, buffer, synced, chunk, records, sealed, accepted>> /\ error'
      BY <2>1 DEF RecordRaises, WriterRaises, file
    <2>3. Shape(w, s, b, K, n, kind)'
      BY <2>2, ShapeRaises
    <2>. QED BY <2>3
  <1>. QED BY <1>3, <1>4, <1>5

\* Every step of the writer.
LEMMA FileWriter ==
    ASSUME TypeInv, RunInv, FileInv, outage = "no", WriterStep \/ WriterFails
    PROVE  FileInv'
  <1>1. PICK w, s, b, K, n, kind : Shape(w, s, b, K, n, kind)
    BY Zenon DEF FileInv
  <1>2. Modes
    BY DEF RunInv
  <1>3. ASSUME NEW v, NEW c, NEW d, NEW L, NEW n2, NEW kind2, Shape(v, c, d, L, n2, kind2)'
        PROVE  FileInv'
    BY <1>3 DEF FileInv
  <1>4. CASE Take
    <2>1. Shape(w, s, b, K, n, kind)'
      BY <1>1, <1>2, <1>4, ShapeTake
    <2>. QED BY <2>1, <1>3
  <1>5. CASE WriteRecord
    BY <1>1, <1>3, <1>5, ShapeRecord, Zenon
  <1>6. CASE Finish
    <2>1. Shape(w, s, b, K, n, kind)'
      BY <1>1, <1>6, ShapeFinish
    <2>. QED BY <2>1, <1>3
  <1>7. CASE WriteIndex
    BY <1>1, <1>3, <1>7, ShapeIndex, Zenon
  <1>8. CASE Seal
    BY <1>1, <1>3, <1>8, ShapeSeal, Zenon
  <1>9. CASE Sync
    <2>1. Shape(w, s, b, K, n, kind)'
      BY <1>1, <1>9, ShapeSync
    <2>. QED BY <2>1, <1>3
  <1>10. CASE WriteSummary
    BY <1>1, <1>3, <1>10, ShapeSummary, Zenon
  <1>11. CASE SyncEnd
    <2>1. Shape(w, s, b, K, n, kind)'
      BY <1>1, <1>11, ShapeSyncEnd
    <2>. QED BY <2>1, <1>3
  <1>12. CASE Abort
    <2>1. Shape(w, s, b, K, n, kind)'
      BY <1>1, <1>12, ShapeAbort
    <2>. QED BY <2>1, <1>3
  <1>13. CASE Release
    <2>1. Shape(w, s, b, K, n, kind)'
      BY <1>1, <1>13, ShapeRelease
    <2>. QED BY <2>1, <1>3
  <1>14. CASE RecordRaises
    BY <1>1, <1>3, <1>14, ShapeRecordRaises, Zenon
  <1>15. CASE DiskFull
    BY <1>1, <1>3, <1>15, ShapeDiskFull, Zenon
  <1>16. CASE SyncFails
    <2>1. UNCHANGED <<disk, buffer, synced, chunk, records, sealed, accepted>> /\ error'
      BY <1>16 DEF SyncFails, WriterRaises, file
    <2>2. Shape(w, s, b, K, n, kind)'
      BY <2>1, <1>1, ShapeRaises
    <2>. QED BY <2>2, <1>3
  <1>. QED
    BY <1>4, <1>5, <1>6, <1>7, <1>8, <1>9, <1>10, <1>11, <1>12, <1>13, <1>14, <1>15, <1>16,
       Zenon DEF WriterStep, WriterFails

\* More is accepted, or nothing happens to the file.
LEMMA FileRest ==
    ASSUME TypeInv, FileInv, outage = "no",
           \/ \E w \in Workers : WorkerStep(w) \/ NodeFails(w)
           \/ MainStep \/ RunRaises \/ DeadlinePasses \/ JoinGivesUp
           \/ StopStep \/ UNCHANGED vars
    PROVE  FileInv'
  <1>1. PICK w, s, b, K, n, kind : Shape(w, s, b, K, n, kind)
    BY Zenon DEF FileInv
  <1>2. ASSUME UNCHANGED <<file, writer, error, accepted>> PROVE FileInv'
    <2>1. ~error => Place(s, b, K, n, kind)'
      BY <1>1, <1>2 DEF Shape, Place, Plain, OneMore, Fresh, Opened, file
    <2>2. Shape(w, s, b, K, n, kind)'
      BY <2>1, <1>1, <1>2, ShapeKeeps
    <2>. QED BY <2>2 DEF FileInv
  <1>3. ASSUME NEW x \in Workers, PutMessage(x) PROVE FileInv'
    <2>1. PICK m : m = Output[x][published[x] + 1]
      OBVIOUS
    <2>2. UNCHANGED <<file, writer, error>>
      BY <1>3 DEF PutMessage, Put
    <2>3. accepted' = accepted \/ accepted' = Append(accepted, m)
      BY <2>1, <1>3 DEF PutMessage, Put
    <2>4. m \in Messages
      <3>1. /\ worker[x] = "put" /\ published[x] \in Nat
            /\ Output[x] \in Seq(Messages)
        BY <1>3, BackendAssumption DEF PutMessage, TypeInv, ExecTyped
      <3>2. published[x] < Len(Output[x])
        BY <3>1 DEF TypeInv, Left
      <3>. QED BY <2>1, <3>1, <3>2
    <2>5. CASE accepted' = accepted
      BY <2>2, <2>5, <1>2
    <2>6. CASE accepted' = Append(accepted, m)
      <3>1. UNCHANGED <<disk, buffer, synced, chunk, records, sealed, writer, error>>
        BY <2>2 DEF file
      <3>2. File(w, accepted', s, b, K, n, kind)
        BY <1>1, <2>4, <2>6, FileAccepts DEF Shape, Laid
      <3>3. Laid(w, s, b, K, n, kind)'
        BY <3>1, <3>2, <1>1 DEF Shape, Laid
      <3>4. Plain(s, b, K, kind)' \/ OneMore(s, b, K, kind)'
        BY <3>1, <1>1 DEF Shape, Plain, OneMore
      <3>5. Synced(disk, w, s, b, K, kind)'
        BY <3>1, <1>1 DEF Shape, Synced
      <3>6. ~error => Place(s, b, K, n, kind)'
        BY <3>1, <1>1 DEF Shape, Place, Plain, OneMore, Fresh, Opened
      <3>7. Shape(w, s, b, K, n, kind)'
        BY <3>1, <3>3, <3>4, <3>5, <3>6 DEF Shape
      <3>. QED BY <3>7 DEF FileInv
    <2>. QED BY <2>3, <2>5, <2>6
  <1>4. CASE \E x \in Workers : WorkerLoop(x) \/ CheckWrite(x) \/ NodeFails(x)
    BY <1>2, <1>4 DEF WorkerLoop, CheckWrite, NodeFails, rvars
  <1>5. CASE MainStep
    BY <1>2, <1>5 DEF MainStep, Begin, StartWorkers, WorkersLeft, CloseRecording, SetClosed,
                      EndRecording, PutEos, JoinWriter, Report, Return, rvars
  <1>6. CASE RunRaises \/ DeadlinePasses \/ JoinGivesUp \/ StopStep \/ UNCHANGED vars
    BY <1>2, <1>6 DEF RunRaises, DeadlinePasses, JoinGivesUp, StopStep, RequestStop,
                      MarkStopping, AnswerStop, rvars, vars
  <1>. QED BY <1>3, <1>4, <1>5, <1>6 DEF WorkerStep

-----------------------------------------------------------------------------
(***************************************************************************)
(* What is left after an outage.                                           *)
(***************************************************************************)

\* What Readable says of the file behind its head.
BodyReadable ==
    LET read == Scan(disk) IN
    IF read.ok
    THEN /\ IsPrefix(read.messages, accepted)
         /\ outage # "power" \/ Durable => sealed <= Len(read.messages)
    ELSE EndsTorn \/ HalfSynced
\* Once the process or the machine has gone nothing changes any more.
Frozen == outage # "no" => BodyReadable

LEMMA SealedWithin ==
    ASSUME TypeInv, NEW w, NEW s, NEW b, NEW K, NEW n, NEW kind,
           Shape(w, s, b, K, n, kind), NEW kind2,
           Plain(s, b, K, kind2) \/ OneMore(s, b, K, kind2)
    PROVE  sealed <= b[K]
  <1>1. File(w, accepted, s, b, K, n, kind) /\ b[K] \in Nat /\ K \in Nat
    BY ShapeTyped, Zenon
  <1>2. CASE Plain(s, b, K, kind2)
    BY <1>1, <1>2 DEF Plain
  <1>3. CASE OneMore(s, b, K, kind2)
    <2>1. Grows(s, b, K)
      BY <1>1, FileShape, Zenon
    <2>2. K \in 0..K /\ K > 0
      BY <1>1, <1>3 DEF OneMore
    <2>3. b[K - 1] \in Nat /\ b[K] - b[K - 1] \in Nat
      BY <2>1, <2>2, <1>1, PlacesGrow
    <2>. QED BY <2>3, <1>1, <1>3 DEF OneMore
  <1>. QED BY <1>2, <1>3

\* The process is killed.
LEMMA KilledReads ==
    ASSUME TypeInv, RunInv, FileInv, Killed PROVE BodyReadable'
  <1>0. outage = "no" /\ outage' = "kill" /\ sealed' = sealed /\ accepted' = accepted
    BY DEF Killed, MemoryGone
  <1>1. PICK w, s, b, K, n, kind : Shape(w, s, b, K, n, kind)
    BY <1>0, Zenon DEF FileInv
  <1>2. PICK f : f = disk'
    OBVIOUS
  <1>3. PICK c \in Cuts(Pending) : f = disk \o c
    BY <1>2 DEF Killed, Written
  <1>4. PICK v, n2, kind2 :
             /\ File(v, accepted, s, b, K, n2, kind2)
             /\ Beginning(f, v) /\ Intact(f, v, s[K] - 1)
             /\ Plain(s, b, K, kind2) \/ OneMore(s, b, K, kind2)
             /\ Synced(f, v, s, b, K, kind2)
    BY <1>0, <1>1, <1>3, PendingBegins
  <1>5. sealed <= b[K] /\ sealed \in Nat
    BY <1>1, <1>4, SealedWithin DEF TypeInv, FileTyped
  <1>6. ReadsFrom(f, accepted, sealed)
    BY <1>4, <1>5, BeginningReads
  <1>7. ReadsFrom(disk', accepted', sealed')
    BY <1>0, <1>2, <1>6
  <1>. QED BY <1>7 DEF ReadsFrom, BodyReadable, EndsTorn

\* The power fails: f is what is written, but for its last header perhaps.
Like(f, v) ==
    /\ Len(f) = Len(disk) /\ Len(f) <= Len(v)
    /\ \A i \in 1..Len(f) : f[i] = v[i] \/ f[i][1] \in {"torn", "hole"}
    /\ Intact(f, v, synced)
LEMMA SyncedIntact ==
    ASSUME TypeInv, NEW w, NEW s, NEW b, NEW K, NEW n, NEW kind,
           Shape(w, s, b, K, n, kind)
    PROVE  Intact(disk, w, synced)
  <1>1. /\ File(w, accepted, s, b, K, n, kind) /\ s[K] \in Nat /\ K \in Nat
        /\ synced \in Nat /\ synced <= Len(disk) /\ Len(disk) \in Nat
    BY ShapeTyped, Zenon
  <1>2. Intact(disk, w, s[K] - 1) /\ Synced(disk, w, s, b, K, kind)
    BY Zenon DEF Shape, Laid
  <1>3. CASE synced = Len(w) /\ Intact(disk, w, Len(w))
    BY <1>3
  <1>4. ASSUME NEW k \in 0..K, synced = s[k] - 1 PROVE Intact(disk, w, synced)
    <2>1. Grows(s, b, K)
      BY <1>1, FileShape, Zenon
    <2>2. s[k] \in Nat /\ s[k] <= s[K]
      BY <2>1, <1>1, PlacesGrow
    <2>3. synced <= s[K] - 1
      BY <2>2, <1>1, <1>4
    <2>. QED BY <2>3, <1>1, <1>2 DEF Intact
  <1>. QED BY <1>2, <1>3, <1>4, Zenon DEF Synced
LEMMA LikeDisk ==
    ASSUME TypeInv, NEW w, NEW s, NEW b, NEW K, NEW n, NEW kind,
           Shape(w, s, b, K, n, kind)
    PROVE  Like(disk, w)
  <1>1. Intact(disk, w, synced)
    BY SyncedIntact, Zenon
  <1>2. Beginning(disk, w)
    BY Zenon DEF Shape, Laid
  <1>3. Damaged(disk, w)
    BY <1>2, BeginningDamaged
  <1>. QED BY <1>1, <1>3 DEF Like, Damaged

LEMMA UnsealedIs ==
    ASSUME TypeInv, NEW w, NEW s, NEW b, NEW K, NEW n, NEW kind,
           Shape(w, s, b, K, n, kind), NEW f \in {disk, Unsealed}
    PROVE  \E v, L, n2, kind2 :
             /\ File(v, accepted, s, b, L, n2, kind2)
             /\ Synced(disk, v, s, b, L, kind2) /\ Like(f, v)
  <1>1. /\ File(w, accepted, s, b, K, n, kind) /\ s[K] \in Nat /\ s[K] > 0 /\ K \in Nat
        /\ synced \in Nat /\ synced <= Len(disk) /\ Len(disk) \in Nat /\ w \in Seq(Part)
        /\ disk \in Seq(AnyPart) /\ Len(w) \in Nat
    BY ShapeTyped, Zenon
  <1>2. /\ Synced(disk, w, s, b, K, kind)
        /\ Plain(s, b, K, kind) \/ OneMore(s, b, K, kind)
    BY Zenon DEF Shape
  <1>3. Like(disk, w)
    BY LikeDisk, Zenon
  <1>4. CASE f = disk
    BY <1>1, <1>2, <1>3, <1>4, Zenon
  <1>5. CASE f # disk /\ Plain(s, b, K, kind)
    <2>1. f = [disk EXCEPT ![chunk] = Header(0)] /\ chunk \in 1..Len(disk)
      BY <1>5 DEF Unsealed
    <2>2. chunk = s[K] /\ kind \in {"open", "indexed"}
      BY <2>1, <1>1, <1>5 DEF Plain
    <2>3. w[chunk] = Header(0)
      <3>1. Ending(w, accepted, s[K], b[K], n, kind)
        BY <1>1, FileShape, Zenon
      <3>. QED BY <3>1, <2>2 DEF Ending
    <2>4. /\ Len(f) = Len(disk) /\ f[chunk] = w[chunk]
          /\ \A i \in 1..Len(disk) : i # chunk => f[i] = disk[i]
      BY <2>1, <2>3, <1>1
    <2>5. Like(f, w)
      BY <2>4, <1>1, <1>3 DEF Like, Intact
    <2>. QED BY <2>5, <1>1, <1>2, Zenon
  <1>6. CASE f # disk /\ OneMore(s, b, K, kind)
    <2>1. f = [disk EXCEPT ![chunk] = Header(0)] /\ chunk \in 1..Len(disk)
      BY <1>6 DEF Unsealed
    <2>2. K > 0 /\ chunk = s[K - 1] /\ kind = "end" /\ synced < chunk
      BY <1>6 DEF OneMore
    <2>3. File(w, accepted, s, b, K, n, "end")
      BY <2>2, <1>1
    <2>4. PICK v : v = [w EXCEPT ![s[K - 1]] = Header(0)]
      OBVIOUS
    <2>5. s[K - 1] \in 1..Len(w) /\ File(v, accepted, s, b, K - 1, b[K] - b[K - 1], "indexed")
      BY <2>2, <2>3, <2>4, FileUnseals
    <2>6. /\ Len(v) = Len(w) /\ v[chunk] = Header(0)
          /\ \A i \in 1..Len(w) : i # chunk => v[i] = w[i]
      BY <2>2, <2>4, <2>5, <1>1
    <2>7. /\ Len(f) = Len(disk) /\ f[chunk] = Header(0)
          /\ \A i \in 1..Len(disk) : i # chunk => f[i] = disk[i]
      BY <2>1, <1>1
    <2>8. Like(f, v)
      <3>1. Len(f) = Len(disk) /\ Len(f) <= Len(v)
        BY <2>6, <2>7, <1>3 DEF Like
      <3>2. ASSUME NEW i \in 1..Len(f) PROVE f[i] = v[i] \/ f[i][1] \in {"torn", "hole"}
        <4>1. CASE i = chunk
          BY <4>1, <2>6, <2>7
        <4>2. CASE i # chunk
          <5>1. i \in 1..Len(w) /\ i \in 1..Len(disk)
            BY <3>1, <2>6, <1>1
          <5>. QED BY <4>2, <5>1, <2>6, <2>7, <1>3 DEF Like
        <4>. QED BY <4>1, <4>2
      <3>3. Intact(f, v, synced)
        <4>1. ASSUME NEW i \in 1..synced PROVE f[i] = v[i]
          <5>1. i \in 1..Len(w) /\ i \in 1..Len(disk) /\ i # chunk
            BY <3>1, <2>1, <2>2, <2>6, <1>1
          <5>2. disk[i] = w[i]
            BY <1>3 DEF Like, Intact
          <5>. QED BY <5>1, <5>2, <2>6, <2>7
        <4>2. synced <= Len(f)
          BY <2>7, <1>1
        <4>. QED BY <4>1, <4>2 DEF Intact
      <3>. QED BY <3>1, <3>2, <3>3, Zenon DEF Like
    <2>9. Synced(disk, v, s, b, K - 1, "indexed")
      <3>1. PICK k \in 0..K : synced = s[k] - 1 /\ (Durable => sealed <= b[k])
        BY <2>2, <1>2 DEF Synced
      <3>2. k # K
        <4>1. Grows(s, b, K) /\ K \in 0..K
          BY <1>1, FileShape
        <4>2. s[K - 1] < s[K] /\ s[K - 1] \in Nat
          BY <4>1, <2>2, <1>1, PlacesGrow
        <4>. QED BY <4>2, <3>1, <2>2, <1>1
      <3>3. k \in 0..K - 1
        BY <3>1, <3>2, <1>1
      <3>. QED BY <3>1, <3>3 DEF Synced
    <2>. QED BY <2>5, <2>8, <2>9, Zenon
  <1>. QED BY <1>2, <1>4, <1>5, <1>6

LEMMA PowerReads ==
    ASSUME TypeInv, TypeInv', RunInv, FileInv, PowerFails PROVE BodyReadable'
  <1>0. /\ outage = "no" /\ outage' = "power" /\ sealed' = sealed /\ accepted' = accepted
        /\ synced' = synced
    BY DEF PowerFails, MemoryGone
  <1>1. PICK w, s, b, K, n, kind : Shape(w, s, b, K, n, kind)
    BY <1>0, Zenon DEF FileInv
  <1>2. PICK g : g = disk'
    OBVIOUS
  <1>3. PICK f \in {disk, Unsealed} : \E m \in synced..Len(disk) :
            \E lost \in {0} \cup synced + 1..m :
              g = [i \in 1..m |-> IF i = lost THEN Hole(f[i]) ELSE f[i]]
    BY <1>2 DEF PowerFails
  <1>4. PICK m \in synced..Len(disk) :
            \E lost \in {0} \cup synced + 1..m :
              g = [i \in 1..m |-> IF i = lost THEN Hole(f[i]) ELSE f[i]]
    BY <1>3
  <1>5. PICK lost \in {0} \cup synced + 1..m :
            g = [i \in 1..m |-> IF i = lost THEN Hole(f[i]) ELSE f[i]]
    BY <1>4
  <1>6. /\ disk \in Seq(AnyPart) /\ Len(disk) \in Nat /\ synced \in Nat /\ sealed \in Nat
        /\ g \in Seq(AnyPart)
    BY <1>2 DEF TypeInv, FileTyped
  <1>7. PICK v, L, n2, kind2 :
             /\ File(v, accepted, s, b, L, n2, kind2)
             /\ Synced(disk, v, s, b, L, kind2) /\ Like(f, v)
    BY <1>1, <1>3, UnsealedIs
  <1>8. m \in Nat /\ Len(g) = m /\ m <= Len(f) /\ synced <= m
    BY <1>4, <1>5, <1>6, <1>7 DEF Like
  <1>9. Damaged(g, v)
    <2>1. ASSUME NEW i \in 1..Len(g) PROVE g[i] = v[i] \/ g[i][1] \in {"torn", "hole"}
      <3>1. i \in 1..m /\ i \in 1..Len(f)
        BY <1>6, <1>7, <1>8 DEF Like
      <3>2. CASE i = lost
        BY <3>1, <3>2, <1>5 DEF Hole
      <3>3. CASE i # lost
        <4>1. g[i] = f[i]
          BY <3>1, <3>3, <1>5
        <4>. QED BY <3>1, <4>1, <1>7 DEF Like
      <3>. QED BY <3>2, <3>3
    <2>2. Len(v) \in Nat
      BY <1>7, FileShape, Zenon
    <2>3. Len(g) <= Len(v)
      BY <2>2, <1>6, <1>7, <1>8 DEF Like
    <2>. QED BY <2>1, <2>3, <1>6 DEF Damaged
  <1>10. Intact(g, v, synced)
    <2>1. ASSUME NEW i \in 1..synced PROVE g[i] = v[i]
      <3>1. i \in 1..m /\ i # lost
        BY <1>5, <1>6, <1>8
      <3>2. g[i] = f[i]
        BY <3>1, <1>5
      <3>. QED BY <3>2, <1>7 DEF Like, Intact
    <2>. QED BY <2>1, <1>8 DEF Intact
  <1>11. IF Scan(g).ok
         THEN IsPrefix(Scan(g).messages, accepted) /\ (Durable => sealed <= Len(Scan(g).messages))
         ELSE Len(g) > synced
    BY <1>6, <1>7, <1>9, <1>10, SyncedReads
  <1>12. IF Scan(disk').ok
         THEN /\ IsPrefix(Scan(disk').messages, accepted')
              /\ (Durable => sealed' <= Len(Scan(disk').messages))
         ELSE Len(disk') > synced'
    BY <1>0, <1>2, <1>11
  <1>. QED BY <1>0, <1>12 DEF BodyReadable, HalfSynced

LEMMA OutageReads ==
    ASSUME TypeInv, TypeInv', RunInv, FileInv, Outage PROVE BodyReadable'
  BY KilledReads, PowerReads DEF Outage

\* A running execution: what it records can be read at any moment.
LEMMA RunningReads ==
    ASSUME TypeInv, FileInv, outage = "no" PROVE BodyReadable
  <1>1. PICK w, s, b, K, n, kind : Shape(w, s, b, K, n, kind)
    BY Zenon DEF FileInv
  <1>2. File(w, accepted, s, b, K, n, kind) /\ sealed \in Nat
    BY <1>1, ShapeTyped, Zenon
  <1>3. /\ Beginning(disk, w) /\ Intact(disk, w, s[K] - 1)
        /\ Plain(s, b, K, kind) \/ OneMore(s, b, K, kind)
    BY <1>1, Zenon DEF Shape, Laid
  <1>4. sealed <= b[K]
    BY <1>1, <1>3, SealedWithin
  <1>5. ReadsFrom(disk, accepted, sealed)
    BY <1>2, <1>3, <1>4, BeginningReads
  <1>. QED BY <1>5 DEF ReadsFrom, BodyReadable, EndsTorn

\* All of it together.
BackendInv == TypeInv /\ RunInv /\ FileInv /\ Frozen /\ HeadInv

LEMMA FileStep ==
    ASSUME BackendInv, TypeInv', [Next]_vars PROVE FileInv' /\ Frozen'
  <1>0. TypeInv /\ RunInv /\ FileInv /\ Frozen
    BY DEF BackendInv
  <1>1. CASE outage = "no" /\ UNCHANGED vars
    <2>1. outage' = "no"
      BY <1>1 DEF vars, rvars
    <2>. QED BY <2>1, <1>0, <1>1, FileRest DEF Frozen
  <1>2. CASE outage # "no" /\ UNCHANGED vars
    BY <1>0, <1>2 DEF vars, rvars, file, FileInv, Frozen, BodyReadable, EndsTorn, HalfSynced
  <1>3. CASE Outage /\ ExecutionGone
    <2>1. outage' # "no"
      BY <1>3 DEF Outage, Killed, PowerFails
    <2>2. BodyReadable'
      BY <1>0, <1>3, OutageReads
    <2>. QED BY <2>1, <2>2 DEF FileInv, Frozen
  <1>4. CASE (WriterStep \/ WriterFails) /\ UNCHANGED bvars
    <2>1. outage = "no" /\ outage' = outage
      <3>1. writer # "gone" /\ outage' = outage
        BY <1>4 DEF WriterStep, WriterFails, Take, WriteRecord, Finish, WriteIndex, Seal, Sync,
             WriteSummary, SyncEnd, Abort, Release, RecordRaises, DiskFull, SyncFails,
             WriterRaises
      <3>. QED BY <3>1, <1>0 DEF TypeInv, Ended, Gone
    <2>2. FileInv'
      BY <2>1, <1>0, <1>4, FileWriter
    <2>. QED BY <2>1, <2>2 DEF Frozen
  <1>5. CASE \/ \E w \in Workers : WorkerStep(w) \/ NodeFails(w)
             \/ MainStep \/ RunRaises \/ DeadlinePasses \/ JoinGivesUp
             \/ StopStep
    <2>1. outage = "no"
      <3>1. ~Gone
        BY <1>5 DEF Gone, WorkerStep, WorkerLoop, CheckWrite, PutMessage, NodeFails, MainStep,
            Begin, StartWorkers, WorkersLeft, CloseRecording, EndRecording, JoinWriter, Report,
            Return, RunRaises, DeadlinePasses, JoinGivesUp, StopStep, RequestStop,
            MarkStopping, AnswerStop
      <3>. QED BY <3>1, <1>0 DEF TypeInv, Ended
    <2>2. outage' = outage
      <3>1. CASE \E w \in Workers : WorkerStep(w) \/ NodeFails(w)
        BY <3>1 DEF WorkerStep, WorkerLoop, CheckWrite, PutMessage, Put, NodeFails, rvars
      <3>2. CASE MainStep
        BY <3>2 DEF MainStep, Begin, StartWorkers, WorkersLeft, CloseRecording, SetClosed,
                    EndRecording, PutEos, JoinWriter, Report, Return, rvars
      <3>3. CASE RunRaises \/ DeadlinePasses \/ JoinGivesUp \/ StopStep
        BY <3>3 DEF RunRaises, DeadlinePasses, JoinGivesUp, StopStep, RequestStop,
                    MarkStopping, AnswerStop, rvars
      <3>. QED BY <3>1, <3>2, <3>3, <1>5
    <2>3. FileInv'
      BY <2>1, <1>0, <1>5, FileRest
    <2>. QED BY <2>1, <2>2, <2>3 DEF Frozen
  <1>. QED BY <1>1, <1>2, <1>3, <1>4, <1>5, Zenon DEF Next

LEMMA BackendAlways == Spec => []BackendInv
  <1>1. Init => BackendInv
    <2> SUFFICES ASSUME Init PROVE BackendInv
      OBVIOUS
    <2>1. TypeInv /\ RunInv /\ FileInv
      BY TypeInit, RunInit, FileInit
    <2>2. Frozen
      BY DEF Init, RecordingInit, Frozen
    <2>. QED BY <2>1, <2>2, HeadInit DEF BackendInv
  <1>2. BackendInv /\ [Next]_vars => BackendInv'
    <2> SUFFICES ASSUME BackendInv, [Next]_vars PROVE BackendInv'
      OBVIOUS
    <2>1. TypeInv' /\ RunInv'
      BY TypeStep, RunStep DEF BackendInv
    <2>2. FileInv' /\ Frozen'
      BY <2>1, FileStep
    <2>3. HeadInv'
      BY HeadStep DEF BackendInv
    <2>. QED BY <2>1, <2>2, <2>3 DEF BackendInv
  <1>. QED BY <1>1, <1>2, PTL DEF Spec

\* What is in the file at any moment, while it is written or after a crash or a power
\* failure at any step, reads as the accepted messages in their order, none
\* invented, and every completed checkpoint; unreadable is only a file without its
\* head, of which nothing was synchronised, one that ends in the middle of a chunk's
\* header or of the summary, or one whose last checkpoint the power cut short.
THEOREM RecordingIsReadable == Spec => []Readable
  <1>1. BackendInv => BodyReadable
    BY RunningReads DEF BackendInv, Frozen
  <1>2. ASSUME BackendInv PROVE Readable
    <2>1. CASE head = "whole"
      BY <1>1, <1>2, <2>1, Zenon DEF Readable, BodyReadable, Reading
    <2>2. CASE head # "whole"
      <3>1. Headless
        BY <1>2, <2>2 DEF BackendInv, HeadInv
      <3>2. Reading.ok = FALSE
        BY <2>2 DEF Reading, Read
      <3>. QED BY <3>1, <3>2 DEF Readable
    <2>. QED BY <2>1, <2>2
  <1>3. BackendInv => Readable
    BY <1>2
  <1>. QED BY <1>3, BackendAlways, PTL

\* Whoever sees an execution ended finds its recording closed, and unless the
\* writer failed or a worker was left behind final and complete; an execution
\* called completed left nobody behind and lost nothing.
THEOREM EndedExecutionIsRecorded == Spec => []EndedIsRecorded
  <1>1. ASSUME BackendInv, state \in TerminalStates
        PROVE  /\ writer = "done"
               /\ ~error /\ late = {} =>
                    Scan(disk).final /\ Scan(disk).messages = accepted
               /\ state = "completed" => ~error /\ late = {}
    <2>0. TypeInv /\ RunInv /\ FileInv
      BY <1>1 DEF BackendInv
    <2>1. outage = "no"
      BY <2>0, <1>1 DEF TypeInv, Ended, Gone, TerminalStates, None
    <2>2. Modes /\ Course /\ Delivery
      BY <2>0, <2>1 DEF RunInv
    <2>3. main = "ended" /\ writer = "done" /\ (state = "completed" => ~error /\ late = {})
      BY <2>2, <1>1 DEF Course
    <2>4. ASSUME ~error, late = {}
          PROVE  Scan(disk).final /\ Scan(disk).messages = accepted
      <3>1. PICK w, s, b, K, n, kind : Shape(w, s, b, K, n, kind)
        BY <2>0, <2>1, Zenon DEF FileInv
      <3>2. /\ File(w, accepted, s, b, K, n, kind) /\ disk \in Seq(AnyPart)
            /\ sealed \in Nat /\ w = disk \o buffer
        BY <2>0, <2>4, <3>1, ShapeTyped, Zenon
      <3>3. b[K] = sealed /\ kind = "summary" /\ records = 0 /\ buffer = <<>>
        BY <2>3, <2>4, <3>1 DEF Shape, Place, Plain
      <3>4. w = disk
        BY <3>2, <3>3, EmptyEnd
      <3>5. sealed = Len(accepted)
        <4>1. Taken = Len(accepted)
          BY <2>2, <2>3, <2>4 DEF Modes, Delivery, Queued, Drained
        <4>. QED BY <4>1, <2>3, <3>2, <3>3 DEF Taken
      <3>6. File(disk, accepted, s, b, K, n, "summary") /\ b[K] = Len(accepted)
        BY <3>2, <3>3, <3>4, <3>5
      <3>7. Scan(disk).final = TRUE /\ Scan(disk).messages = accepted
        BY <3>6, WholeReads
      <3>. QED BY <3>7
    <2>. QED BY <2>3, <2>4
  <1>2. ASSUME BackendInv, state \in TerminalStates
        PROVE  /\ writer = "done"
               /\ ~error /\ late = {} => Reading.final /\ Reading.messages = accepted
               /\ state = "completed" => ~error /\ late = {}
    <2>1. writer = "done" /\ ~error => head = "whole"
      BY <1>2 DEF BackendInv, HeadInv
    <2>2. head = "whole" => Reading = Scan(disk)
      BY DEF Reading
    <2>. QED BY <1>1, <1>2, <2>1, <2>2, Zenon
  <1>3. BackendInv => EndedIsRecorded
    BY <1>2, Zenon DEF EndedIsRecorded
  <1>. QED BY <1>3, BackendAlways, PTL
=============================================================================
