--------------------------- MODULE EventStreamProofs ---------------------------
(***************************************************************************)
(* Machine-checked proofs about EventStream, for any frames, sizes and     *)
(* limits: types, the bounds of both buffers, and that the stream          *)
(* implements EventFeed.                                                   *)
(***************************************************************************)
EXTENDS EventStream, SequenceTheorems, WellFoundedInduction, TLAPS

-----------------------------------------------------------------------------
(* The inductive invariant                                                   *)

\* A byte of an envelope, as opposed to chunk framing.
IsData(c) == c.is = "byte" /\ c.of \in Frames

\* The body from a read position on, up to what is on the wire.
Body(b, p, w) == After(b, p) \o w

Rest == Body(buf, bufPos, wire)

\* The symbol at a place of the body is of a kind, if it has come that far.
DataUpTo(r, first, last) ==
  \A q \in first .. last : q <= Len(r) => IsData(r[q])

\* A chunk's data and its blank line end at `last`, and a size line follows.
EndsAt(r, last) ==
  /\ last <= Len(r) => r[last] = LineEnd
  /\ last + 1 <= Len(r) => r[last + 1].is = "size"

\* Every size in the body is that of the data behind it.
Chunks(r) ==
  \A p \in 1 .. Len(r) :
    r[p].is = "size" =>
      /\ p + 1 <= Len(r) => r[p + 1] = LineEnd
      /\ DataUpTo(r, p + 2, p + 1 + r[p].n)
      /\ EndsAt(r, p + 2 + r[p].n)

\* What ReadBody looks for next is what comes: a size line, perhaps with the
\* blank line of the chunk before it; or the data that is left of a chunk.
Begins(r, need, left) ==
  IF need
  THEN Len(r) >= 1 => r[1].is = "size" \/ EndsAt(r, 1)
  ELSE left > 0 /\ DataUpTo(r, 1, left) /\ EndsAt(r, left + 1)

\* The body does not stop inside a chunk.
Whole(r, need, left) ==
  /\ \A p \in 1 .. Len(r) : r[p].is = "size" => p + 2 + r[p].n <= Len(r)
  /\ ~need => left + 1 <= Len(r)

\* As long as the connection is up, whole chunks are under way.
InvBody ==
  /\ needSize \in BOOLEAN /\ remaining \in Nat
  /\ Chunks(Rest) /\ Begins(Rest, needSize, remaining)
  /\ up => Whole(Rest, needSize, remaining)

\* The consumed prefix of buf_ is short once Fill has looked at it, and Fill
\* is not called while more than a symbol is left.
InvBuf ==
  /\ buf \in Seq(Symbols) /\ bufPos \in 0 .. Len(buf) /\ wire \in Seq(Symbols)
  /\ Len(Buffered) <= RecvSize + 1
  /\ Len(buf) <= BufLimit + RecvSize + 1

\* Only the bytes of envelopes reach pending_, and ReadBody is not called while
\* an envelope is there.
InvPending ==
  /\ pending \in Seq(Symbols) /\ pendingPos \in 0 .. Len(pending)
  /\ \A k \in 1 .. Len(pending) : IsData(pending[k])
  /\ pendingPos <= PendingLimit
  /\ \E f \in Frames :
       Len(pending) <= PendingLimit + EnvelopeSize(f) + RecvSize

InvUnsent ==
  unsent \in Seq(Symbols) /\ \A k \in 1 .. Len(unsent) : IsData(unsent[k])

InvThread ==
  /\ at \in {"closed", "reading", "ended"}
  /\ result \in [kind : {"event"}, frame : Events]
                  \cup [kind : {"none", "timeout", "ended"}, frame : {None}]
  /\ bodyDone \in BOOLEAN /\ up \in BOOLEAN /\ finished \in BOOLEAN

StreamInv == InvThread /\ InvBuf /\ InvBody /\ InvPending /\ InvUnsent


-----------------------------------------------------------------------------
(* Parts of sequences                                                        *)

\* t stands in r, behind its first m elements.
IsPart(t, r, m) ==
  /\ m \in Nat /\ Len(t) + m <= Len(r)
  /\ \A q \in 1 .. Len(t) : t[q] = r[q + m]

LEMMA AfterProperties ==
  ASSUME NEW S, NEW r \in Seq(S), NEW m \in 0 .. Len(r)
  PROVE  /\ After(r, m) \in Seq(S) /\ Len(After(r, m)) = Len(r) - m
         /\ \A q \in 1 .. Len(r) - m : After(r, m)[q] = r[q + m]
<1>1. Len(r) \in Nat
  BY LenProperties
<1>2. \A i \in m + 1 .. Len(r) : r[i] \in S
  BY <1>1, ElementOfSeq
<1>3. /\ After(r, m) \in Seq(S)
      /\ Len(After(r, m)) = IF m + 1 <= Len(r) THEN Len(r) - (m + 1) + 1 ELSE 0
      /\ \A i \in 1 .. Len(r) - (m + 1) + 1 : After(r, m)[i] = r[m + 1 + i - 1]
  BY <1>1, <1>2, SubSeqProperties DEF After
<1> DEFINE t == After(r, m)
<1>. HIDE DEF t
<1>4. Len(t) = Len(r) - m
  BY <1>1, <1>3 DEF t
<1>5. ASSUME NEW i \in 1 .. Len(r) - m PROVE t[i] = r[i + m]
  <2>1. m + 1 + i - 1 = i + m /\ i \in 1 .. Len(r) - (m + 1) + 1
    BY <1>1
  <2>. QED
    BY <1>3, <2>1 DEF t
<1>. QED
  BY <1>3, <1>4, <1>5 DEF t

LEMMA FrontProperties ==
  ASSUME NEW S, NEW r \in Seq(S), NEW n \in 0 .. Len(r)
  PROVE  /\ SubSeq(r, 1, n) \in Seq(S) /\ Len(SubSeq(r, 1, n)) = n
         /\ \A q \in 1 .. n : SubSeq(r, 1, n)[q] = r[q]
<1>1. Len(r) \in Nat
  BY LenProperties
<1>2. \A i \in 1 .. n : r[i] \in S
  BY <1>1, ElementOfSeq
<1> DEFINE t == SubSeq(r, 1, n)
<1>3. /\ t \in Seq(S) /\ Len(t) = IF 1 <= n THEN n - 1 + 1 ELSE 0
      /\ \A i \in 1 .. n - 1 + 1 : t[i] = r[1 + i - 1]
  BY <1>1, <1>2, SubSeqProperties
<1>. HIDE DEF t
<1>4. Len(t) = n /\ \A i \in 1 .. n : t[i] = r[i]
  BY <1>1, <1>3
<1>. QED
  BY <1>3, <1>4 DEF t

\* r is what k symbols of a buffer from a read position on and the wire behind
\* them spell.
Spells(r, k, S, b, p, w) ==
  /\ r \in Seq(S) /\ k \in Nat /\ Len(r) = k + Len(w)
  /\ \A q \in 1 .. k : r[q] = b[q + p]
  /\ \A q \in 1 .. Len(w) : r[k + q] = w[q]

LEMMA BodyProperties ==
  ASSUME NEW S, NEW b \in Seq(S), NEW p \in 0 .. Len(b), NEW w \in Seq(S)
  PROVE  Spells(Body(b, p, w), Len(b) - p, S, b, p, w)
<1> DEFINE a == After(b, p)
           k == Len(b) - p
           r == Body(b, p, w)
<1>1. /\ a \in Seq(S) /\ Len(a) = k
      /\ \A q \in 1 .. k : a[q] = b[q + p]
  BY AfterProperties
<1>2. r = a \o w /\ Len(w) \in Nat /\ k \in Nat
  BY LenProperties DEF Body
<1>. HIDE DEF a, k, r
<1>3. /\ a \o w \in Seq(S) /\ Len(a \o w) = Len(a) + Len(w)
      /\ \A i \in 1 .. Len(a) + Len(w) :
           (a \o w)[i] = IF i <= Len(a) THEN a[i] ELSE w[i - Len(a)]
  BY <1>1, ConcatProperties
<1>4. r \in Seq(S) /\ Len(r) = k + Len(w)
  BY <1>1, <1>2, <1>3
<1>5. ASSUME NEW q \in 1 .. k PROVE r[q] = b[q + p]
  BY <1>1, <1>2, <1>3
<1>6. ASSUME NEW q \in 1 .. Len(w) PROVE r[k + q] = w[q]
  <2>1. k + q \in 1 .. k + Len(w) /\ ~(k + q <= k) /\ k + q - k = q
    BY <1>2
  <2>. QED
    BY <1>1, <1>2, <1>3, <2>1
<1>7. Spells(r, k, S, b, p, w)
  BY <1>2, <1>4, <1>5, <1>6 DEF Spells
<1>. QED
  BY <1>7 DEF r, k

-----------------------------------------------------------------------------
(* Chunk framing                                                             *)

\* What a size in the body says of the symbols behind it, of their kinds alone.
LEMMA PartKeepsChunks ==
  ASSUME NEW r \in Seq(Symbols), NEW t \in Seq(Symbols), NEW m,
         IsPart(t, r, m), Chunks(r)
  PROVE  Chunks(t)
<1>1. Len(r) \in Nat /\ Len(t) \in Nat /\ m \in Nat /\ Len(t) + m <= Len(r)
  BY LenProperties DEF IsPart
<1>2. SUFFICES ASSUME NEW p \in 1 .. Len(t), t[p].is = "size"
               PROVE  /\ p + 1 <= Len(t) => t[p + 1] = LineEnd
                      /\ DataUpTo(t, p + 2, p + 1 + t[p].n)
                      /\ EndsAt(t, p + 2 + t[p].n)
  BY DEF Chunks
<1>3. t[p] = r[p + m] /\ p + m \in 1 .. Len(r)
  BY <1>1 DEF IsPart
<1> DEFINE n == t[p].n
<1>4. n \in Nat
  <2>1. t[p] \in Symbols
    BY ElementOfSeq
  <2>. QED
    BY <2>1 DEF Symbols
<1>5. /\ p + m + 1 <= Len(r) => r[p + m + 1] = LineEnd
      /\ DataUpTo(r, p + m + 2, p + m + 1 + n)
      /\ EndsAt(r, p + m + 2 + n)
  BY <1>2, <1>3 DEF Chunks
<1>. HIDE DEF n
<1>6. \A q \in Nat : p + q <= Len(t) =>
        t[p + q] = r[p + m + q] /\ p + m + q <= Len(r)
  <2> TAKE q \in Nat
  <2> HAVE p + q <= Len(t)
  <2>1. p + q \in 1 .. Len(t) /\ p + q + m = p + m + q
    BY <1>1
  <2>. QED
    BY <1>1, <2>1 DEF IsPart
<1>7. p + 1 <= Len(t) => t[p + 1] = LineEnd
  BY <1>5, <1>6
<1>8. DataUpTo(t, p + 2, p + 1 + n)
  <2> SUFFICES ASSUME NEW q \in p + 2 .. p + 1 + n, q <= Len(t)
               PROVE  IsData(t[q])
    BY DEF DataUpTo
  <2>1. q + m \in p + m + 2 .. p + m + 1 + n /\ q \in 1 .. Len(t)
        /\ q + m <= Len(r)
    BY <1>1, <1>4
  <2>. QED
    BY <1>5, <2>1 DEF DataUpTo, IsPart
<1>9. EndsAt(t, p + 2 + n)
  <2>1. 2 + n \in Nat /\ 3 + n \in Nat /\ p + (2 + n) = p + 2 + n
        /\ p + (3 + n) = p + 2 + n + 1 /\ p + m + (2 + n) = p + m + 2 + n
        /\ p + m + (3 + n) = p + m + 2 + n + 1
    BY <1>1, <1>4
  <2>. QED
    BY <1>5, <1>6, <2>1 DEF EndsAt
<1>. QED
  BY <1>7, <1>8, <1>9 DEF n

LEMMA PartKeepsData ==
  ASSUME NEW r \in Seq(Symbols), NEW t \in Seq(Symbols), NEW m,
         IsPart(t, r, m), NEW n \in Nat, DataUpTo(r, m + 1, m + n)
  PROVE  DataUpTo(t, 1, n)
<1>1. SUFFICES ASSUME NEW q \in 1 .. n, q <= Len(t) PROVE IsData(t[q])
  BY DEF DataUpTo
<1>2. Len(r) \in Nat /\ Len(t) \in Nat /\ m \in Nat /\ Len(t) + m <= Len(r)
  BY LenProperties DEF IsPart
<1>3. q \in 1 .. Len(t) /\ q + m \in m + 1 .. m + n /\ q + m <= Len(r)
  BY <1>1, <1>2
<1>. QED
  BY <1>3 DEF DataUpTo, IsPart

LEMMA PartKeepsEnd ==
  ASSUME NEW r \in Seq(Symbols), NEW t \in Seq(Symbols), NEW m,
         IsPart(t, r, m), NEW n \in Nat \ {0}, EndsAt(r, m + n)
  PROVE  EndsAt(t, n)
<1>1. Len(r) \in Nat /\ Len(t) \in Nat /\ m \in Nat /\ Len(t) + m <= Len(r)
  BY LenProperties DEF IsPart
<1>2. \A q \in 1 .. Len(t) : t[q] = r[m + q] /\ m + q <= Len(r)
  <2> TAKE q \in 1 .. Len(t)
  <2>1. q + m = m + q /\ m + q <= Len(r)
    BY <1>1
  <2>. QED
    BY <2>1 DEF IsPart
<1>3. n <= Len(t) => n \in 1 .. Len(t)
  BY <1>1
<1>4. n + 1 <= Len(t) => n + 1 \in 1 .. Len(t) /\ m + (n + 1) = m + n + 1
  BY <1>1
<1>. QED
  BY <1>2, <1>3, <1>4 DEF EndsAt

\* What is left of a body that does not stop inside a chunk does not either.
LEMMA RestKeepsWhole ==
  ASSUME NEW r \in Seq(Symbols), NEW t \in Seq(Symbols), NEW m,
         IsPart(t, r, m), Len(t) + m = Len(r),
         NEW need, NEW left, Whole(r, need, left)
  PROVE  \A p \in 1 .. Len(t) : t[p].is = "size" => p + 2 + t[p].n <= Len(t)
<1> TAKE p \in 1 .. Len(t)
<1> HAVE t[p].is = "size"
<1>1. Len(r) \in Nat /\ Len(t) \in Nat /\ m \in Nat
  BY LenProperties DEF IsPart
<1>2. t[p] = r[p + m] /\ p + m \in 1 .. Len(r)
  BY <1>1 DEF IsPart
<1>3. p + m + 2 + t[p].n <= Len(r)
  BY <1>2 DEF Whole
<1>4. t[p].n \in Nat
  <2>1. t[p] \in Symbols
    BY ElementOfSeq
  <2>. QED
    BY <2>1 DEF Symbols
<1>. QED
  BY <1>1, <1>3, <1>4

\* A chunk is put behind a body that does not stop inside one.
LEMMA ChunkAppended ==
  ASSUME NEW r \in Seq(Symbols), NEW t \in Seq(Symbols),
         NEW need \in BOOLEAN, NEW left \in Nat,
         Chunks(r), Begins(r, need, left), Whole(r, need, left),
         NEW k \in Nat, Len(t) = Len(r) + 3 + k,
         \A q \in 1 .. Len(r) : t[q] = r[q],
         t[Len(r) + 1] = ChunkSize(k), t[Len(r) + 2] = LineEnd,
         \A q \in 1 .. k : IsData(t[Len(r) + 2 + q]),
         t[Len(r) + 3 + k] = LineEnd
  PROVE  Chunks(t) /\ Begins(t, need, left) /\ Whole(t, need, left)
<1> DEFINE L == Len(r)
<1>1. L \in Nat
  BY LenProperties
<1>. HIDE DEF L
<1>2. /\ Len(t) = L + 3 + k /\ t[L + 1].is = "size" /\ t[L + 1].n = k
      /\ t[L + 2] = LineEnd /\ t[L + 3 + k] = LineEnd
      /\ \A q \in 1 .. L : t[q] = r[q]
      /\ \A q \in 1 .. k : IsData(t[L + 2 + q])
  BY DEF L, ChunkSize
<1>3. ASSUME NEW e \in Nat \ {0}, e <= L, EndsAt(r, e)
      PROVE  EndsAt(t, e)
  <2>1. t[e] = r[e] /\ r[e] = LineEnd /\ (e + 1 <= L => r[e + 1].is = "size")
    BY <1>1, <1>2, <1>3 DEF EndsAt, L
  <2>2. e + 1 <= L \/ e = L
    BY <1>1, <1>3
  <2>3. e + 1 <= L => t[e + 1] = r[e + 1]
    BY <1>1, <1>2
  <2>4. t[e + 1].is = "size"
    BY <1>2, <2>1, <2>2, <2>3
  <2>. QED
    BY <2>1, <2>4 DEF EndsAt
<1>4. ASSUME NEW a \in Nat \ {0}, NEW b \in Nat, b <= L, DataUpTo(r, a, b)
      PROVE  DataUpTo(t, a, b)
  <2>1. \A q \in a .. b : q \in 1 .. L /\ q <= L
    BY <1>1, <1>4
  <2>. QED
    BY <1>2, <1>4, <2>1 DEF DataUpTo, L
<1>5. ASSUME NEW p \in 1 .. Len(t), t[p].is = "size"
      PROVE  p \in 1 .. L \/ p = L + 1
  <2>1. CASE p \in L + 3 .. L + 2 + k
    <3>1. p - (L + 2) \in 1 .. k /\ L + 2 + (p - (L + 2)) = p
      BY <1>1, <2>1
    <3>2. IsData(t[p])
      BY <1>2, <3>1
    <3>. QED
      BY <1>5, <3>2 DEF IsData
  <2>2. p \in 1 .. L \/ p = L + 1 \/ p = L + 2 \/ p \in L + 3 .. L + 2 + k
        \/ p = L + 3 + k
    BY <1>1, <1>2
  <2>3. LineEnd.is # "size"
    BY DEF LineEnd
  <2>. QED
    BY <1>2, <1>5, <2>1, <2>2, <2>3
<1>6. ASSUME NEW p \in 1 .. L, r[p].is = "size"
      PROVE  /\ r[p].n \in Nat /\ p + 2 + r[p].n <= L
             /\ p + 1 <= L /\ r[p + 1] = LineEnd
             /\ DataUpTo(r, p + 2, p + 1 + r[p].n)
             /\ EndsAt(r, p + 2 + r[p].n)
  <2>1. r[p] \in Symbols
    BY <1>6, ElementOfSeq DEF L
  <2>2. r[p].n \in Nat
    BY <2>1 DEF Symbols
  <2>3. p + 2 + r[p].n <= L
    BY <1>6 DEF Whole, L
  <2>4. p + 1 <= L
    BY <1>1, <2>2, <2>3
  <2>. QED
    BY <1>6, <2>2, <2>3, <2>4 DEF Chunks, L
<1>7. Chunks(t)
  <2> SUFFICES ASSUME NEW p \in 1 .. Len(t), t[p].is = "size"
               PROVE  /\ p + 1 <= Len(t) => t[p + 1] = LineEnd
                      /\ DataUpTo(t, p + 2, p + 1 + t[p].n)
                      /\ EndsAt(t, p + 2 + t[p].n)
    BY DEF Chunks
  <2>1. CASE p \in 1 .. L
    <3>1. t[p] = r[p] /\ p \in Nat
      BY <1>2, <2>1
    <3> DEFINE n == r[p].n
    <3>2. /\ n \in Nat /\ p + 2 + n <= L /\ p + 1 <= L /\ r[p + 1] = LineEnd
          /\ DataUpTo(r, p + 2, p + 1 + n) /\ EndsAt(r, p + 2 + n)
      BY <1>6, <2>1, <3>1
    <3>. HIDE DEF n
    <3>3. t[p + 1] = LineEnd
      <4>1. p + 1 \in 1 .. L
        BY <1>1, <2>1, <3>2
      <4>. QED
        BY <1>2, <3>2, <4>1
    <3>4. p + 2 \in Nat \ {0} /\ p + 1 + n \in Nat /\ p + 1 + n <= L
          /\ p + 2 + n \in Nat \ {0}
      BY <1>1, <3>1, <3>2
    <3>5. DataUpTo(t, p + 2, p + 1 + n) /\ EndsAt(t, p + 2 + n)
      BY <1>3, <1>4, <3>2, <3>4
    <3>. QED
      BY <3>1, <3>3, <3>5 DEF n
  <2>2. CASE p = L + 1
    <3>1. p + 1 = L + 2 /\ t[p].n = k /\ p + 2 + k = L + 3 + k
          /\ ~(p + 2 + k + 1 <= Len(t))
      BY <1>1, <1>2, <2>2
    <3>2. t[p + 1] = LineEnd /\ EndsAt(t, p + 2 + k)
      BY <1>2, <3>1 DEF EndsAt
    <3>3. DataUpTo(t, p + 2, p + 1 + k)
      <4> SUFFICES ASSUME NEW q \in p + 2 .. p + 1 + k PROVE IsData(t[q])
        BY DEF DataUpTo
      <4>1. q - (L + 2) \in 1 .. k /\ L + 2 + (q - (L + 2)) = q
        BY <1>1, <2>2
      <4>. QED
        BY <1>2, <4>1
    <3>. QED
      BY <3>1, <3>2, <3>3
  <2>. QED
    BY <1>5, <2>1, <2>2
<1>8. Begins(t, need, left)
  <2>1. CASE need
    <3>1. CASE L = 0
      BY <1>2, <2>1, <3>1 DEF Begins
    <3>2. CASE L # 0
      <4>1. L >= 1 /\ 1 \in 1 .. L
        BY <1>1, <3>2
      <4>2. t[1] = r[1] /\ (r[1].is = "size" \/ EndsAt(r, 1))
        BY <1>2, <2>1, <4>1 DEF Begins, L
      <4>. QED
        BY <1>3, <2>1, <4>1, <4>2 DEF Begins
    <3>. QED
      BY <3>1, <3>2
  <2>2. CASE ~need
    <3>1. left > 0 /\ DataUpTo(r, 1, left) /\ EndsAt(r, left + 1)
          /\ left + 1 <= L
      BY <2>2 DEF Begins, Whole, L
    <3>2. left <= L /\ left + 1 \in Nat \ {0}
      BY <1>1, <3>1
    <3>3. DataUpTo(t, 1, left) /\ EndsAt(t, left + 1)
      BY <1>3, <1>4, <3>1, <3>2
    <3>. QED
      BY <2>2, <3>1, <3>3 DEF Begins
  <2>. QED
    BY <2>1, <2>2
<1>9. Whole(t, need, left)
  <2>1. ~need => left + 1 <= Len(t)
    <3>1. ~need => left + 1 <= L
      BY DEF Whole, L
    <3>. QED
      BY <1>1, <1>2, <3>1
  <2>2. ASSUME NEW p \in 1 .. Len(t), t[p].is = "size"
        PROVE  p + 2 + t[p].n <= Len(t)
    <3>1. CASE p \in 1 .. L
      <4>1. t[p] = r[p]
        BY <1>2, <3>1
      <4>2. r[p].n \in Nat /\ p + 2 + r[p].n <= L
        BY <1>6, <2>2, <3>1, <4>1
      <4>3. Len(t) >= L
        BY <1>1, <1>2
      <4>. QED
        BY <1>1, <4>1, <4>2, <4>3
    <3>2. CASE p = L + 1
      BY <1>1, <1>2, <3>2
    <3>. QED
      BY <1>5, <2>2, <3>1, <3>2
  <2>. QED
    BY <2>1, <2>2 DEF Whole
<1>. QED
  BY <1>7, <1>8, <1>9

-----------------------------------------------------------------------------
(* What moving a read position and filling a buffer do to the body           *)

LEMMA BodyAdvanced ==
  ASSUME NEW S, NEW b \in Seq(S), NEW p \in 0 .. Len(b), NEW w \in Seq(S),
         NEW m \in Nat, p + m \in 0 .. Len(b)
  PROVE  /\ Body(b, p + m, w) \in Seq(S)
         /\ IsPart(Body(b, p + m, w), Body(b, p, w), m)
         /\ Len(Body(b, p + m, w)) + m = Len(Body(b, p, w))
<1> DEFINE p2 == p + m
           r == Body(b, p, w)
           t == Body(b, p2, w)
           k == Len(b) - p
           j == Len(b) - p2
<1>1. Len(b) \in Nat /\ Len(w) \in Nat /\ p \in Nat /\ p2 \in Nat /\ p2 = p + m
  BY LenProperties
<1>2. k = Len(b) - p /\ j = Len(b) - p2 /\ k = j + m
  BY <1>1
<1>3. Spells(r, k, S, b, p, w) /\ Spells(t, j, S, b, p2, w)
  BY BodyProperties
<1>. HIDE DEF p2, r, t, k, j
<1>4. /\ k \in Nat /\ Len(r) = k + Len(w)
      /\ \A q \in 1 .. k : r[q] = b[q + p]
      /\ \A q \in 1 .. Len(w) : r[k + q] = w[q]
  BY <1>3 DEF Spells
<1>5. /\ t \in Seq(S) /\ j \in Nat /\ Len(t) = j + Len(w)
      /\ \A q \in 1 .. j : t[q] = b[q + p2]
      /\ \A q \in 1 .. Len(w) : t[j + q] = w[q]
  BY <1>3 DEF Spells
<1>6. Len(t) + m = Len(r)
  BY <1>1, <1>2, <1>4, <1>5
<1>7. Len(t) = j + Len(w) /\ j \in Nat /\ k = j + m /\ p2 = p + m
  BY <1>1, <1>2, <1>5
<1>8. ASSUME NEW q \in 1 .. Len(t) PROVE t[q] = r[q + m]
  <2>1. CASE q \in 1 .. j
    <3>1. q + m \in 1 .. k /\ q + m + p = q + p2
      BY <1>1, <1>7, <2>1
    <3>. QED
      BY <1>4, <1>5, <2>1, <3>1
  <2>2. CASE q \in j + 1 .. Len(t)
    <3> DEFINE x == q - j
    <3>1. x \in 1 .. Len(w) /\ j + x = q /\ k + x = q + m
      BY <1>1, <1>7, <2>2
    <3>. HIDE DEF x
    <3>. QED
      BY <1>4, <1>5, <3>1
  <2>. QED
    BY <1>1, <1>5, <2>1, <2>2
<1>9. Len(t) \in Nat
  BY <1>1, <1>5
<1>10. IsPart(t, r, m)
  BY <1>4, <1>6, <1>8, <1>9 DEF IsPart
<1>. QED
  BY <1>5, <1>6, <1>10 DEF p2, r, t

\* Some of the wire w moves into a buffer.
IsFilled(c, b, w, n) == c = b \o SubSeq(w, 1, n)

LEMMA BodyFilled ==
  ASSUME NEW S, NEW b \in Seq(S), NEW p \in 0 .. Len(b), NEW w \in Seq(S),
         NEW n \in 0 .. Len(w), NEW c, IsFilled(c, b, w, n)
  PROVE  /\ c \in Seq(S) /\ After(w, n) \in Seq(S) /\ Len(c) = Len(b) + n
         /\ p \in 0 .. Len(c) /\ Body(c, p, After(w, n)) = Body(b, p, w)
<1> DEFINE f == SubSeq(w, 1, n)
           v == After(w, n)
           r == Body(b, p, w)
           t == Body(c, p, v)
           k == Len(b) - p
           j == k + n
<1>1. Len(b) \in Nat /\ Len(w) \in Nat /\ p \in Nat /\ n \in Nat /\ n <= Len(w)
  BY LenProperties
<1>2. f \in Seq(S) /\ Len(f) = n /\ \A q \in 1 .. n : f[q] = w[q]
  BY FrontProperties
<1>3. /\ v \in Seq(S) /\ Len(v) = Len(w) - n
      /\ \A q \in 1 .. Len(w) - n : v[q] = w[q + n]
  BY AfterProperties
<1>4. c = b \o f
  BY DEF IsFilled
<1>. HIDE DEF f, v
<1>5. /\ b \o f \in Seq(S) /\ Len(b \o f) = Len(b) + Len(f)
      /\ \A i \in 1 .. Len(b) + Len(f) :
           (b \o f)[i] = IF i <= Len(b) THEN b[i] ELSE f[i - Len(b)]
  BY <1>2, ConcatProperties
<1>6. c \in Seq(S) /\ Len(c) = Len(b) + n
  BY <1>2, <1>4, <1>5
<1>7. ASSUME NEW i \in 1 .. Len(b) PROVE c[i] = b[i]
  <2>1. i \in 1 .. Len(b) + Len(f)
    BY <1>1, <1>2
  <2>. QED
    BY <1>1, <1>4, <1>5, <2>1
<1>8. ASSUME NEW i \in 1 .. n PROVE c[Len(b) + i] = w[i]
  <2> DEFINE e == Len(b) + i
  <2>1. e \in 1 .. Len(b) + Len(f) /\ ~(e <= Len(b)) /\ e - Len(b) = i
    BY <1>1, <1>2
  <2>. HIDE DEF e
  <2>2. c[e] = f[i]
    BY <1>4, <1>5, <2>1
  <2>. QED
    BY <1>2, <2>2 DEF e
<1>9. p \in 0 .. Len(c)
  BY <1>1, <1>6
<1>10. k = Len(b) - p /\ j = Len(c) - p /\ j = k + n
  BY <1>1, <1>6
<1>11. Spells(r, k, S, b, p, w)
  BY BodyProperties
<1>12. Spells(t, Len(c) - p, S, c, p, v)
  BY <1>3, <1>6, <1>9, BodyProperties
<1>13. Spells(t, j, S, c, p, v)
  BY <1>10, <1>12
<1>. HIDE DEF k, j, r, t
<1>14. /\ r \in Seq(S) /\ k \in Nat /\ Len(r) = k + Len(w)
       /\ \A q \in 1 .. k : r[q] = b[q + p]
       /\ \A q \in 1 .. Len(w) : r[k + q] = w[q]
  BY <1>11 DEF Spells
<1>15. /\ t \in Seq(S) /\ j \in Nat /\ Len(t) = j + Len(v)
       /\ \A q \in 1 .. j : t[q] = c[q + p]
       /\ \A q \in 1 .. Len(v) : t[j + q] = v[q]
  BY <1>13 DEF Spells
<1>16. /\ Len(t) = j + Len(v) /\ Len(v) = Len(w) - n /\ j = k + n
      /\ Len(r) = k + Len(w) /\ k \in Nat /\ j \in Nat
  BY <1>3, <1>10, <1>14, <1>15
<1>17. Len(t) = Len(r)
  BY <1>1, <1>16
<1>18. ASSUME NEW q \in 1 .. Len(t) PROVE t[q] = r[q]
  <2>1. CASE q \in 1 .. k
    <3>1. q \in 1 .. j /\ q + p \in 1 .. Len(b)
      <4>1. /\ k = Len(b) - p /\ j = k + n /\ k \in Nat /\ n \in Nat
            /\ Len(b) \in Nat /\ p \in Nat
        BY <1>1, <1>10, <1>14
      <4>. QED
        BY <2>1, <4>1
    <3>. QED
      BY <1>7, <1>14, <1>15, <2>1, <3>1
  <2>2. CASE q \in k + 1 .. j
    <3> DEFINE x == q - k
    <3>1. q \in 1 .. j /\ x \in 1 .. n /\ q + p = Len(b) + x
          /\ x \in 1 .. Len(w) /\ k + x = q
      BY <1>1, <1>10, <1>14, <2>2
    <3>. HIDE DEF x
    <3>2. t[q] = c[q + p] /\ c[Len(b) + x] = w[x] /\ r[k + x] = w[x]
      BY <1>8, <1>14, <1>15, <3>1
    <3>. QED
      BY <3>1, <3>2
  <2>3. CASE q \in j + 1 .. Len(t)
    <3> DEFINE x == q - j
    <3>1. /\ x \in 1 .. Len(v) /\ j + x = q
          /\ x \in 1 .. Len(w) - n /\ x + n \in 1 .. Len(w) /\ k + (x + n) = q
      BY <1>1, <1>16, <2>3
    <3>. HIDE DEF x
    <3>2. t[j + x] = v[x] /\ v[x] = w[x + n] /\ r[k + (x + n)] = w[x + n]
      BY <1>3, <1>14, <1>15, <3>1
    <3>. QED
      BY <3>1, <3>2
  <2>4. q \in 1 .. k \/ q \in k + 1 .. j \/ q \in j + 1 .. Len(t)
    <3>1. q \in Nat /\ 1 <= q /\ q <= Len(t) /\ k \in Nat /\ j \in Nat /\ Len(t) \in Nat
      BY <1>3, <1>16
    <3>. QED
      BY <3>1
  <2>. QED
    BY <2>1, <2>2, <2>3, <2>4
<1>19. t = r
  BY <1>14, <1>15, <1>17, <1>18, SeqEqual
<1>. QED
  BY <1>3, <1>6, <1>9, <1>19 DEF v, r, t

LEMMA BodyReclaimed ==
  ASSUME NEW S, NEW b \in Seq(S), NEW p \in 0 .. Len(b), NEW w \in Seq(S)
  PROVE  Body(After(b, p), 0, w) = Body(b, p, w)
<1> DEFINE a == After(b, p)
<1>1. a \in Seq(S)
  BY AfterProperties
<1>. HIDE DEF a
<1>2. Len(a) \in Nat /\ 0 \in 0 .. Len(a)
  BY <1>1, LenProperties
<1> DEFINE c == After(a, 0)
<1>3. /\ c \in Seq(S) /\ Len(c) = Len(a) - 0
      /\ \A q \in 1 .. Len(a) - 0 : c[q] = a[q + 0]
  BY <1>1, <1>2, AfterProperties
<1>. HIDE DEF c
<1>4. Len(c) = Len(a)
  BY <1>2, <1>3
<1>5. ASSUME NEW q \in 1 .. Len(c) PROVE c[q] = a[q]
  <2>1. q \in 1 .. Len(a) - 0 /\ q + 0 = q
    BY <1>2, <1>4
  <2>. QED
    BY <1>3, <2>1
<1>6. c = a
  BY <1>1, <1>3, <1>4, <1>5, SeqEqual
<1>. QED
  BY <1>6 DEF a, c, Body

-----------------------------------------------------------------------------
(* What the steps do to the body                                             *)

LEMMA SizesAreNatural ==
  ASSUME NEW r \in Seq(Symbols), NEW p \in 1 .. Len(r)
  PROVE  r[p].n \in Nat
<1>1. r[p] \in Symbols
  BY ElementOfSeq
<1>. QED
  BY <1>1 DEF Symbols

LEMMA RestProperties ==
  ASSUME InvBuf
  PROVE  /\ Rest \in Seq(Symbols) /\ Buffered \in Seq(Symbols)
         /\ Len(Rest) \in Nat /\ Len(Buffered) \in Nat /\ Len(wire) \in Nat
         /\ Len(buf) \in Nat /\ bufPos \in Nat
         /\ Len(buf) = Len(Buffered) + bufPos
         /\ Len(Rest) = Len(Buffered) + Len(wire)
         /\ \A q \in 1 .. Len(Buffered) : Rest[q] = Buffered[q]
<1>1. buf \in Seq(Symbols) /\ wire \in Seq(Symbols) /\ bufPos \in 0 .. Len(buf)
      /\ Len(buf) \in Nat /\ Len(wire) \in Nat /\ bufPos \in Nat
  BY LenProperties DEF InvBuf
<1>. HIDE DEF Symbols
<1> DEFINE k == Len(buf) - bufPos
<1>2. /\ Buffered \in Seq(Symbols) /\ Len(Buffered) = k
      /\ \A q \in 1 .. k : Buffered[q] = buf[q + bufPos]
  BY <1>1, AfterProperties DEF Buffered
<1>3. Spells(Rest, k, Symbols, buf, bufPos, wire)
  BY <1>1, BodyProperties DEF Rest
<1>4. k \in Nat /\ Len(buf) = k + bufPos
  BY <1>1
<1>. HIDE DEF k
<1>5. /\ Rest \in Seq(Symbols) /\ Len(Rest) = k + Len(wire)
      /\ \A q \in 1 .. k : Rest[q] = buf[q + bufPos]
  BY <1>3 DEF Spells
<1>6. Len(Rest) \in Nat
  BY <1>1, <1>4, <1>5
<1>. QED
  BY <1>1, <1>2, <1>4, <1>5, <1>6

\* ReadBody or ReadLine moves buf_pos_.
LEMMA Advancing ==
  ASSUME InvBuf, NEW m \in 0 .. Len(Buffered), bufPos' = bufPos + m,
         UNCHANGED <<buf, wire>>
  PROVE  /\ InvBuf' /\ Rest' \in Seq(Symbols) /\ IsPart(Rest', Rest, m)
         /\ Len(Rest') + m = Len(Rest)
<1>1. buf \in Seq(Symbols) /\ wire \in Seq(Symbols) /\ bufPos \in 0 .. Len(buf)
      /\ Len(Buffered) <= RecvSize + 1 /\ RecvSize \in Nat
  BY StreamAssumption DEF InvBuf
<1>2. /\ Len(buf) \in Nat /\ Len(Buffered) \in Nat /\ bufPos \in Nat /\ m \in Nat
      /\ Len(buf) = Len(Buffered) + bufPos
  BY RestProperties
<1> DEFINE p2 == bufPos + m
<1>3. p2 \in 0 .. Len(buf)
  BY <1>2
<1>4. Rest' = Body(buf, p2, wire) /\ Buffered' = After(buf, p2)
  BY DEF Rest, Buffered
<1>5. /\ Body(buf, p2, wire) \in Seq(Symbols)
      /\ IsPart(Body(buf, p2, wire), Rest, m)
      /\ Len(Body(buf, p2, wire)) + m = Len(Rest)
  BY <1>1, <1>2, <1>3, BodyAdvanced DEF Rest
<1>6. Len(After(buf, p2)) = Len(buf) - p2
  BY <1>1, <1>3, AfterProperties
<1>7. Len(buf) - p2 <= RecvSize + 1
  BY <1>1, <1>2
<1>8. InvBuf'
  BY <1>3, <1>4, <1>6, <1>7 DEF InvBuf
<1>. QED
  BY <1>4, <1>5, <1>8

\* Fill reclaims the consumed prefix and moves some of the wire into buf_; the
\* body stays what it was.
LEMMA Filling ==
  ASSUME InvBuf, NEW n \in 0 .. Len(wire), Len(Buffered) <= 1, n <= RecvSize,
         buf' = BufKept \o SubSeq(wire, 1, n),
         bufPos' = BufPosKept, wire' = After(wire, n)
  PROVE  InvBuf' /\ Rest' = Rest
<1>1. buf \in Seq(Symbols) /\ wire \in Seq(Symbols) /\ bufPos \in 0 .. Len(buf)
  BY DEF InvBuf
<1>2. /\ Len(buf) \in Nat /\ Len(Buffered) \in Nat /\ bufPos \in Nat /\ n \in Nat
      /\ Len(buf) = Len(Buffered) + bufPos /\ Buffered \in Seq(Symbols)
      /\ RecvSize \in Nat /\ BufLimit \in Nat
  BY RestProperties, StreamAssumption
<1>. HIDE DEF Symbols
<1>3. /\ BufKept \in Seq(Symbols) /\ BufPosKept \in 0 .. Len(BufKept)
      /\ Body(BufKept, BufPosKept, wire) = Rest
      /\ Len(BufKept) <= BufLimit + 1 /\ Len(BufKept) - BufPosKept = Len(Buffered)
  <2>1. CASE Reclaims
    <3>1. BufKept = Buffered /\ BufPosKept = 0
      BY <2>1 DEF BufKept, BufPosKept, Buffered
    <3>2. Body(Buffered, 0, wire) = Rest
      BY <1>1, BodyReclaimed DEF Rest, Buffered
    <3>. QED
      BY <1>2, <3>1, <3>2
  <2>2. CASE ~Reclaims
    <3>1. BufKept = buf /\ BufPosKept = bufPos /\ bufPos <= BufLimit
      BY <1>2, <2>2 DEF BufKept, BufPosKept, Reclaims
    <3>. QED
      BY <1>1, <1>2, <3>1 DEF Rest
  <2>. QED
    BY <2>1, <2>2
<1> DEFINE b == BufKept
           p == BufPosKept
           c == b \o SubSeq(wire, 1, n)
<1>4. buf' = c /\ wire' = After(wire, n) /\ bufPos' = p
  OBVIOUS
<1>5. IsFilled(c, b, wire, n)
  BY DEF IsFilled
<1>6. b \in Seq(Symbols) /\ p \in 0 .. Len(b)
  BY <1>3
<1>7. Len(b) <= BufLimit + 1 /\ Len(b) - p = Len(Buffered) /\ p \in 0 .. Len(b)
      /\ b \in Seq(Symbols)
  BY <1>3
<1>. HIDE DEF b, p, c
<1>8. /\ c \in Seq(Symbols) /\ After(wire, n) \in Seq(Symbols) /\ Len(c) = Len(b) + n
      /\ p \in 0 .. Len(c) /\ Body(c, p, After(wire, n)) = Body(b, p, wire)
  BY <1>1, <1>5, <1>6, BodyFilled
<1>9. Len(After(c, p)) = Len(c) - p
  BY <1>8, AfterProperties
<1>10. Len(c) - p <= RecvSize + 1 /\ Len(c) <= BufLimit + RecvSize + 1
  <2>1. Len(b) \in Nat
    BY <1>7, LenProperties
  <2>2. Len(c) = Len(b) + n
    BY <1>8
  <2>. QED
    BY <1>2, <1>7, <2>1, <2>2
<1>11. Buffered' = After(c, p) /\ Rest' = Body(c, p, After(wire, n))
  BY <1>4 DEF Buffered, Rest
<1>12. InvBuf'
  BY <1>4, <1>8, <1>9, <1>10, <1>11 DEF InvBuf
<1>. QED
  BY <1>3, <1>8, <1>11, <1>12 DEF b, p

-----------------------------------------------------------------------------
(* ReadLine and ReadBody keep the framing                                    *)

LEMMA HeadOfRest ==
  ASSUME InvBuf, Len(Buffered) >= 1
  PROVE  /\ Len(Rest) \in Nat /\ Len(Rest) >= 1
         /\ Head(Buffered) = Rest[1] /\ Buffered[1] = Rest[1]
<1>1. /\ Len(Buffered) \in Nat /\ Len(wire) \in Nat /\ Buffered \in Seq(Symbols)
      /\ Len(Rest) = Len(Buffered) + Len(wire)
      /\ \A q \in 1 .. Len(Buffered) : Rest[q] = Buffered[q]
  BY RestProperties
<1>2. Len(Rest) \in Nat /\ Len(Rest) >= 1 /\ 1 \in 1 .. Len(Buffered)
  BY <1>1
<1>3. Head(Buffered) = Buffered[1]
  BY <1>1, <1>2, HeadTailProperties
<1>. QED
  BY <1>1, <1>2, <1>3

\* A line has a symbol before its end unless it is blank.
LEMMA LinesAreWhole ==
  ASSUME InvBuf, HasLine
  PROVE  /\ Len(Buffered) \in Nat /\ Len(Buffered) >= 1
         /\ Rest[1] # LineEnd => Len(Buffered) >= 2
<1>1. Len(Buffered) \in Nat
  BY RestProperties
<1>2. PICK i \in 1 .. Len(Buffered) : Buffered[i] = LineEnd
  BY DEF HasLine
<1>3. Len(Buffered) >= 1
  BY <1>1, <1>2
<1>4. Buffered[1] = Rest[1]
  BY <1>3, HeadOfRest
<1>5. i = 1 \/ Len(Buffered) >= 2
  BY <1>1, <1>2
<1>. QED
  BY <1>1, <1>2, <1>3, <1>4, <1>5

LEMMA BlankLineKeepsBody ==
  ASSUME InvBuf, InvBody, SkipsBlankLine
  PROVE  InvBuf' /\ InvBody'
<1>1. /\ Len(Buffered) \in Nat /\ Len(Buffered) >= 1
      /\ Rest[1] = LineEnd /\ Len(Rest) \in Nat /\ Len(Rest) >= 1
  BY LinesAreWhole, HeadOfRest DEF SkipsBlankLine
<1>2. 1 \in 0 .. Len(Buffered)
  BY <1>1
<1>3. bufPos' = bufPos + 1 /\ UNCHANGED <<buf, wire>>
  BY DEF SkipsBlankLine
<1>4. /\ InvBuf' /\ Rest' \in Seq(Symbols) /\ IsPart(Rest', Rest, 1)
      /\ Len(Rest') + 1 = Len(Rest)
  BY <1>2, <1>3, Advancing
<1>5. /\ needSize = TRUE /\ needSize' = TRUE /\ remaining' = remaining
      /\ remaining \in Nat /\ up' = up /\ Rest \in Seq(Symbols)
      /\ Chunks(Rest) /\ Begins(Rest, TRUE, remaining)
      /\ up => Whole(Rest, TRUE, remaining)
  BY RestProperties DEF SkipsBlankLine, sendVars, InvBody
<1> DEFINE r == Rest
           t == Rest'
<1>6. /\ r \in Seq(Symbols) /\ t \in Seq(Symbols) /\ IsPart(t, r, 1)
      /\ Len(t) + 1 = Len(r) /\ Chunks(r) /\ Begins(r, TRUE, remaining)
      /\ up => Whole(r, TRUE, remaining)
      /\ r[1] = LineEnd /\ Len(r) \in Nat /\ Len(r) >= 1
  BY <1>1, <1>4, <1>5
<1>. HIDE DEF r, t
<1>7. Chunks(t)
  BY <1>6, PartKeepsChunks
<1>8. Begins(t, TRUE, remaining)
  <2>1. EndsAt(r, 1)
    BY <1>6 DEF Begins, LineEnd
  <2>2. Len(t) >= 1 => t[1] = r[2] /\ 2 <= Len(r)
    <3>1. Len(t) \in Nat
      BY <1>6, LenProperties
    <3>2. Len(t) >= 1 => 1 \in 1 .. Len(t) /\ 1 + 1 = 2 /\ 2 <= Len(r)
      BY <1>6, <3>1
    <3>. QED
      BY <1>6, <3>2 DEF IsPart
  <2>. QED
    BY <2>1, <2>2 DEF Begins, EndsAt
<1>9. up => Whole(t, TRUE, remaining)
  <2>1. ASSUME up PROVE \A p \in 1 .. Len(t) :
                          t[p].is = "size" => p + 2 + t[p].n <= Len(t)
    BY <1>6, <2>1, RestKeepsWhole
  <2>. QED
    BY <2>1 DEF Whole
<1>10. InvBody'
  BY <1>5, <1>7, <1>8, <1>9 DEF InvBody, t
<1>. QED
  BY <1>4, <1>10

\* What comes after a size line.
LEMMA SizeLineRead ==
  ASSUME InvBuf, InvBody, needSize, HasLine, Rest[1].is = "size",
         bufPos' = bufPos + 2, UNCHANGED <<buf, wire>>
  PROVE  LET n == Rest[1].n
         IN /\ InvBuf' /\ Rest' \in Seq(Symbols) /\ Chunks(Rest') /\ n \in Nat
            /\ DataUpTo(Rest', 1, n) /\ EndsAt(Rest', n + 1)
            /\ up => /\ n + 1 <= Len(Rest')
                     /\ \A p \in 1 .. Len(Rest') : Rest'[p].is = "size" =>
                          p + 2 + Rest'[p].n <= Len(Rest')
<1>1. Len(Buffered) \in Nat /\ Len(Buffered) >= 2
  BY LinesAreWhole DEF LineEnd
<1>2. Len(Rest) \in Nat /\ Len(Rest) >= 1 /\ Rest \in Seq(Symbols)
  BY <1>1, HeadOfRest, RestProperties
<1>3. 2 \in 0 .. Len(Buffered)
  BY <1>1
<1>4. /\ InvBuf' /\ Rest' \in Seq(Symbols) /\ IsPart(Rest', Rest, 2)
      /\ Len(Rest') + 2 = Len(Rest)
  BY <1>3, Advancing
<1> DEFINE r == Rest
           t == Rest'
           n == Rest[1].n
<1>5. /\ r \in Seq(Symbols) /\ t \in Seq(Symbols) /\ IsPart(t, r, 2)
      /\ Len(t) + 2 = Len(r) /\ Chunks(r) /\ r[1].is = "size" /\ n = r[1].n
      /\ up => Whole(r, TRUE, remaining)
      /\ Len(r) \in Nat /\ Len(r) >= 1
  BY <1>2, <1>4 DEF InvBody
<1>. HIDE DEF r, t, n
<1>6. n \in Nat /\ 1 \in 1 .. Len(r)
  <2>1. 1 \in 1 .. Len(r)
    BY <1>5
  <2>. QED
    BY <1>5, <2>1, SizesAreNatural
<1>7. Chunks(t)
  BY <1>5, PartKeepsChunks
<1>8. DataUpTo(r, 2 + 1, 2 + n) /\ EndsAt(r, 2 + (n + 1))
  <2>1. DataUpTo(r, 1 + 2, 1 + 1 + n) /\ EndsAt(r, 1 + 2 + n)
    BY <1>5, <1>6 DEF Chunks
  <2>2. 1 + 2 = 2 + 1 /\ 1 + 1 + n = 2 + n /\ 1 + 2 + n = 2 + (n + 1)
    BY <1>6
  <2>. QED
    BY <2>1, <2>2
<1>9. DataUpTo(t, 1, n)
  BY <1>5, <1>6, <1>8, PartKeepsData
<1>10. EndsAt(t, n + 1)
  <2>1. n + 1 \in Nat \ {0}
    BY <1>6
  <2>. QED
    BY <1>5, <1>8, <2>1, PartKeepsEnd
<1>11. ASSUME up
       PROVE  /\ n + 1 <= Len(t)
              /\ \A p \in 1 .. Len(t) : t[p].is = "size" =>
                   p + 2 + t[p].n <= Len(t)
  <2>1. 1 + 2 + n <= Len(r)
    BY <1>5, <1>6, <1>11 DEF Whole
  <2>2. Len(t) \in Nat
    BY <1>5, LenProperties
  <2>3. n + 1 <= Len(t)
    BY <1>5, <1>6, <2>1, <2>2
  <2>. QED
    BY <1>5, <1>11, <2>3, RestKeepsWhole
<1>. QED
  BY <1>4, <1>6, <1>7, <1>9, <1>10, <1>11 DEF r, t, n

LEMMA SizeLineKeepsBody ==
  ASSUME InvBuf, InvBody, ReadsSizeLine
  PROVE  InvBuf' /\ InvBody'
<1> DEFINE n == Rest[1].n
<1>1. /\ Len(Buffered) >= 1 /\ Len(Rest) \in Nat /\ Len(Rest) >= 1
      /\ Head(Buffered) = Rest[1]
  BY LinesAreWhole, HeadOfRest DEF ReadsSizeLine
<1>2. n > 0 /\ needSize' = FALSE /\ remaining' = n /\ up' = up
      /\ needSize /\ HasLine /\ bufPos' = bufPos + 2 /\ UNCHANGED <<buf, wire>>
  BY <1>1 DEF ReadsSizeLine, ChunkStarts, sendVars
<1>3. Rest[1].is = "size"
  <2>1. Rest[1].is = "size" \/ Rest[1] = LineEnd
    BY <1>1, <1>2 DEF InvBody, Begins, EndsAt
  <2>. QED
    BY <1>2, <2>1 DEF LineEnd
<1>4. /\ InvBuf' /\ Rest' \in Seq(Symbols) /\ Chunks(Rest') /\ n \in Nat
      /\ DataUpTo(Rest', 1, n) /\ EndsAt(Rest', n + 1)
      /\ up => /\ n + 1 <= Len(Rest')
               /\ \A p \in 1 .. Len(Rest') : Rest'[p].is = "size" =>
                    p + 2 + Rest'[p].n <= Len(Rest')
  BY <1>2, <1>3, SizeLineRead
<1>. HIDE DEF n
<1>5. Begins(Rest', FALSE, n) /\ (up => Whole(Rest', FALSE, n))
  BY <1>2, <1>4 DEF Begins, Whole
<1>. QED
  BY <1>2, <1>4, <1>5 DEF InvBody

LEMMA LastChunkKeepsBody ==
  ASSUME InvBuf, InvBody, ReadsLastChunk
  PROVE  InvBuf' /\ InvBody'
<1>1. /\ Len(Buffered) >= 1 /\ Len(Rest) \in Nat /\ Len(Rest) >= 1
      /\ Head(Buffered) = Rest[1]
  BY LinesAreWhole, HeadOfRest DEF ReadsLastChunk
<1>2. /\ needSize = TRUE /\ needSize' = TRUE /\ remaining' = remaining /\ up' = up
      /\ HasLine /\ bufPos' = bufPos + 2 /\ UNCHANGED <<buf, wire>>
      /\ remaining \in Nat
  BY DEF ReadsLastChunk, sendVars, InvBody
<1>3. Rest[1].is = "size" /\ Rest[1].n = 0
  BY <1>1 DEF ReadsLastChunk, ChunkSize
<1>4. /\ InvBuf' /\ Rest' \in Seq(Symbols) /\ Chunks(Rest')
      /\ EndsAt(Rest', 0 + 1)
      /\ up => \A p \in 1 .. Len(Rest') : Rest'[p].is = "size" =>
                    p + 2 + Rest'[p].n <= Len(Rest')
  BY <1>2, <1>3, SizeLineRead
<1>5. Begins(Rest', TRUE, remaining) /\ (up => Whole(Rest', TRUE, remaining))
  BY <1>4 DEF Begins, Whole
<1>. QED
  BY <1>2, <1>4, <1>5 DEF InvBody

LEMMA TakesProperties ==
  ASSUME InvBuf, InvBody, ReadsChunkData
  PROVE  /\ Takes \in 0 .. Len(Buffered) /\ Takes <= remaining
         /\ Takes \in Nat /\ remaining - Takes \in Nat
         /\ \A q \in 1 .. Takes : IsData(Buffered[q])
<1>1. /\ Len(Buffered) \in Nat /\ Len(wire) \in Nat
      /\ Len(Rest) = Len(Buffered) + Len(wire)
      /\ \A q \in 1 .. Len(Buffered) : Rest[q] = Buffered[q]
  BY RestProperties
<1>2. remaining \in Nat /\ DataUpTo(Rest, 1, remaining)
  BY DEF InvBody, Begins, ReadsChunkData
<1>3. Takes \in Nat /\ Takes <= Len(Buffered) /\ Takes <= remaining
  BY <1>1, <1>2 DEF Takes
<1>. HIDE DEF Takes
<1>4. Takes \in 0 .. Len(Buffered) /\ remaining - Takes \in Nat
  BY <1>1, <1>2, <1>3
<1>5. ASSUME NEW q \in 1 .. Takes PROVE IsData(Buffered[q])
  <2>1. q \in 1 .. remaining /\ q <= Len(Rest) /\ q \in 1 .. Len(Buffered)
    BY <1>1, <1>2, <1>3
  <2>. QED
    BY <1>1, <1>2, <2>1 DEF DataUpTo
<1>. QED
  BY <1>3, <1>4, <1>5

LEMMA ChunkDataKeepsBody ==
  ASSUME InvBuf, InvBody, ReadsChunkData
  PROVE  InvBuf' /\ InvBody'
<1> DEFINE m == Takes
           r == Rest
           t == Rest'
           left == remaining - Takes
<1>1. m \in 0 .. Len(Buffered) /\ m <= remaining /\ m \in Nat /\ left \in Nat
  BY TakesProperties
<1>2. /\ needSize = FALSE /\ bufPos' = bufPos + m /\ UNCHANGED <<buf, wire>>
      /\ remaining' = left /\ needSize' = (left <= 0) /\ up' = up
      /\ remaining \in Nat
  BY DEF ReadsChunkData, sendVars, InvBody
<1>. HIDE DEF m
<1>3. InvBuf' /\ Rest' \in Seq(Symbols) /\ IsPart(Rest', Rest, m)
      /\ Len(Rest') + m = Len(Rest)
  BY <1>1, <1>2, Advancing
<1>4. /\ r \in Seq(Symbols) /\ Len(r) \in Nat /\ Chunks(r)
      /\ remaining > 0 /\ DataUpTo(r, 1, remaining) /\ EndsAt(r, remaining + 1)
      /\ up => Whole(r, FALSE, remaining)
  BY <1>2, RestProperties DEF InvBody, Begins
<1>5. t \in Seq(Symbols) /\ IsPart(t, r, m) /\ Len(t) + m = Len(r)
  BY <1>3
<1>6. left + m = remaining
  BY <1>1, <1>2 DEF m
<1>. HIDE DEF r, t, left
<1>7. Chunks(t)
  BY <1>4, <1>5, PartKeepsChunks
<1>8. DataUpTo(t, 1, left)
  <2>1. DataUpTo(r, m + 1, m + left)
    <3>1. ASSUME NEW q \in m + 1 .. m + left PROVE q \in 1 .. remaining
      BY <1>1, <1>2, <1>6
    <3>. QED
      BY <1>4, <3>1 DEF DataUpTo
  <2>. QED
    BY <1>1, <1>4, <1>5, <2>1, PartKeepsData
<1>9. EndsAt(t, left + 1)
  <2>1. m + (left + 1) = remaining + 1 /\ left + 1 \in Nat \ {0}
    BY <1>1, <1>2, <1>6
  <2>2. EndsAt(r, m + (left + 1))
    BY <1>4, <2>1
  <2>. QED
    BY <1>4, <1>5, <2>1, <2>2, PartKeepsEnd
<1>10. Begins(t, left <= 0, left)
  <2>1. CASE left = 0
    <3>1. left <= 0 /\ left + 1 = 1
      BY <2>1
    <3>. QED
      BY <1>9, <3>1 DEF Begins
  <2>2. CASE left # 0
    <3>1. ~(left <= 0) /\ left > 0
      BY <1>1, <2>2
    <3>. QED
      BY <1>8, <1>9, <3>1 DEF Begins
  <2>. QED
    BY <2>1, <2>2
<1>11. ASSUME up PROVE Whole(t, left <= 0, left)
  <2>1. Whole(r, FALSE, remaining)
    BY <1>4, <1>11
  <2>2. \A p \in 1 .. Len(t) : t[p].is = "size" => p + 2 + t[p].n <= Len(t)
    BY <1>4, <1>5, <2>1, RestKeepsWhole
  <2>3. left + 1 <= Len(t)
    <3>1. remaining + 1 <= Len(r)
      BY <2>1 DEF Whole
    <3>2. Len(t) \in Nat
      BY <1>5, LenProperties
    <3>. QED
      BY <1>1, <1>2, <1>4, <1>5, <1>6, <3>1, <3>2
  <2>. QED
    BY <2>2, <2>3 DEF Whole
<1>12. InvBody'
  <2>1. (left <= 0) \in BOOLEAN
    OBVIOUS
  <2>2. needSize' \in BOOLEAN /\ remaining' \in Nat
    BY <1>1, <1>2
  <2>3. Chunks(Rest') /\ Begins(Rest', needSize', remaining')
    BY <1>2, <1>7, <1>10 DEF t
  <2>4. up' => Whole(Rest', needSize', remaining')
    BY <1>2, <1>11 DEF t
  <2>. QED
    BY <2>2, <2>3, <2>4 DEF InvBody
<1>. QED
  BY <1>3, <1>12

\* ReadBody asks for more only when less than a line, or nothing, is left.
LEMMA LittleIsLeft ==
  ASSUME InvBuf, InvBody, Fills
  PROVE  Len(Buffered) <= 1
<1>1. /\ Len(Buffered) \in Nat /\ Len(wire) \in Nat /\ Rest \in Seq(Symbols)
      /\ Len(Rest) = Len(Buffered) + Len(wire)
      /\ \A q \in 1 .. Len(Buffered) : Rest[q] = Buffered[q]
      /\ needSize \in BOOLEAN
  BY RestProperties DEF InvBody
<1>2. CASE needSize = FALSE
  <2>1. Buffered = <<>>
    BY <1>2 DEF Fills
  <2>. QED
    BY <2>1
<1>3. CASE needSize = TRUE
  <2> SUFFICES ASSUME Len(Buffered) >= 2 PROVE FALSE
    BY <1>1
  <2>1. 1 \in 1 .. Len(Buffered) /\ 2 \in 1 .. Len(Buffered)
        /\ 1 \in 1 .. Len(Rest) /\ 1 + 1 = 2 /\ 2 <= Len(Rest) /\ 1 <= Len(Rest)
    BY <1>1
  <2>2. Rest[1] # LineEnd /\ Rest[2] # LineEnd
    BY <1>1, <1>3, <2>1 DEF Fills, HasLine
  <2>3. Rest[1].is = "size"
    BY <1>3, <2>1, <2>2 DEF InvBody, Begins, EndsAt
  <2>4. Rest[2] = LineEnd
    BY <2>1, <2>3 DEF InvBody, Chunks
  <2>. QED
    BY <2>2, <2>4
<1>. QED
  BY <1>1, <1>2, <1>3

LEMMA FillKeepsRest ==
  ASSUME InvBuf, InvBody, Receives \/ TimesOut
  PROVE  InvBuf' /\ Rest' = Rest
<1>1. Fills /\ Len(Buffered) <= 1
  BY LittleIsLeft DEF Receives, TimesOut
<1>2. Len(wire) \in Nat /\ RecvSize \in Nat /\ wire \in Seq(Symbols)
  BY RestProperties, StreamAssumption DEF InvBuf
<1>3. CASE Receives
  <2>1. PICK k \in 1 .. RecvSize :
          /\ k <= Len(wire)
          /\ buf' = BufKept \o SubSeq(wire, 1, k)
          /\ wire' = After(wire, k)
    BY <1>3 DEF Receives
  <2>2. k \in 0 .. Len(wire) /\ k <= RecvSize
    BY <1>2, <2>1
  <2>3. bufPos' = BufPosKept
    BY <1>3 DEF Receives
  <2>. QED
    BY <1>1, <2>1, <2>2, <2>3, Filling
<1>4. CASE TimesOut
  <2>1. wire = <<>> /\ wire' = wire /\ buf' = BufKept /\ bufPos' = BufPosKept
    BY <1>4 DEF TimesOut
  <2>2. Len(wire) = 0 /\ 0 \in 0 .. Len(wire) /\ 0 <= RecvSize
    BY <1>2, <2>1
  <2>3. SubSeq(wire, 1, 0) = <<>> /\ After(wire, 0) = <<>>
    <3>1. SubSeq(wire, 1, 0) \in Seq(Symbols) /\ Len(SubSeq(wire, 1, 0)) = 0
      BY <1>2, <2>2, FrontProperties
    <3>2. After(wire, 0) \in Seq(Symbols) /\ Len(After(wire, 0)) = 0 - 0
      BY <1>2, <2>2, AfterProperties
    <3>. QED
      BY <3>1, <3>2, EmptySeq
  <2>4. BufKept \in Seq(Symbols)
    <3>1. Buffered \in Seq(Symbols) /\ buf \in Seq(Symbols)
      BY RestProperties DEF InvBuf
    <3>. QED
      BY <3>1 DEF BufKept, Buffered
  <2>5. BufKept \o <<>> = BufKept
    BY <2>4, ConcatEmptySeq
  <2>6. buf' = BufKept \o SubSeq(wire, 1, 0) /\ wire' = After(wire, 0)
    BY <2>1, <2>3, <2>5
  <2>. QED
    BY <1>1, <2>1, <2>2, <2>6, Filling
<1>. QED
  BY <1>3, <1>4

LEMMA FillKeepsBody ==
  ASSUME InvBuf, InvBody, Receives \/ TimesOut
  PROVE  InvBuf' /\ InvBody'
<1>1. InvBuf' /\ Rest' = Rest
  BY FillKeepsRest
<1>2. UNCHANGED <<needSize, remaining, up>>
  BY DEF Receives, TimesOut, sendVars
<1>. QED
  BY <1>1, <1>2 DEF InvBody

-----------------------------------------------------------------------------
(* The server and the network keep the framing                               *)

\* A chunk of k data symbols stands in v behind its first n symbols.
ChunkAt(v, n, k) ==
  /\ Len(v) = n + 3 + k
  /\ v[n + 1] = ChunkSize(k) /\ v[n + 2] = LineEnd /\ v[n + 3 + k] = LineEnd
  /\ \A q \in 1 .. k : IsData(v[n + 2 + q])

LEMMA ChunkOnWire ==
  ASSUME NEW w \in Seq(Symbols), NEW d \in Seq(Symbols),
         \A q \in 1 .. Len(d) : IsData(d[q])
  PROVE  LET v == w \o <<ChunkSize(Len(d)), LineEnd>> \o d \o <<LineEnd>>
         IN /\ v \in Seq(Symbols) /\ ChunkAt(v, Len(w), Len(d))
            /\ \A q \in 1 .. Len(w) : v[q] = w[q]
<1> DEFINE k  == Len(d)
           n  == Len(w)
           x  == <<ChunkSize(k), LineEnd>>
           e  == <<LineEnd>>
           w1 == w \o x
           w2 == w1 \o d
           v  == w2 \o e
<1>1. k \in Nat /\ n \in Nat /\ k = Len(d) /\ n = Len(w)
  BY LenProperties
<1>. HIDE DEF k, n
<1>2. /\ x \in Seq(Symbols) /\ Len(x) = 2 /\ x[1] = ChunkSize(k) /\ x[2] = LineEnd
      /\ e \in Seq(Symbols) /\ Len(e) = 1 /\ e[1] = LineEnd
  <2>1. ChunkSize(k) \in Symbols /\ LineEnd \in Symbols
    BY <1>1 DEF ChunkSize, LineEnd, Symbols
  <2>. QED
    BY <2>1
<1>3. v = w2 \o e /\ w2 = w1 \o d /\ w1 = w \o x
  OBVIOUS
<1>. HIDE DEF Symbols, x, e
<1>4. /\ w1 \in Seq(Symbols) /\ Len(w1) = Len(w) + Len(x)
      /\ \A i \in 1 .. Len(w) + Len(x) :
           w1[i] = IF i <= Len(w) THEN w[i] ELSE x[i - Len(w)]
  BY <1>2, ConcatProperties
<1>. HIDE DEF w1
<1>5. w1 \in Seq(Symbols)
  BY <1>4
<1>6. /\ w2 \in Seq(Symbols) /\ Len(w2) = Len(w1) + Len(d)
      /\ \A i \in 1 .. Len(w1) + Len(d) :
           w2[i] = IF i <= Len(w1) THEN w1[i] ELSE d[i - Len(w1)]
  BY <1>5, ConcatProperties
<1>. HIDE DEF w2
<1>7. w2 \in Seq(Symbols) /\ e \in Seq(Symbols)
  BY <1>2, <1>6
<1>8. /\ v \in Seq(Symbols) /\ Len(v) = Len(w2) + Len(e)
      /\ \A i \in 1 .. Len(w2) + Len(e) :
           v[i] = IF i <= Len(w2) THEN w2[i] ELSE e[i - Len(w2)]
  BY <1>7, ConcatProperties
<1>. HIDE DEF v
<1>9. Len(w1) = n + 2 /\ Len(w2) = n + 2 + k /\ Len(v) = n + 3 + k
  BY <1>1, <1>2, <1>4, <1>6, <1>8
<1>10. ASSUME NEW i \in 1 .. n + 2 + k PROVE v[i] = w2[i]
  <2>1. i \in 1 .. Len(w2) + Len(e) /\ i <= Len(w2)
    BY <1>1, <1>2, <1>9
  <2>. QED
    BY <1>8, <2>1
<1>11. ASSUME NEW i \in 1 .. n + 2 PROVE v[i] = w1[i]
  <2>1. i \in 1 .. Len(w1) + Len(d) /\ i <= Len(w1) /\ i \in 1 .. n + 2 + k
    BY <1>1, <1>9
  <2>. QED
    BY <1>6, <1>10, <2>1
<1>12. ASSUME NEW i \in 1 .. n PROVE v[i] = w[i]
  <2>1. i \in 1 .. Len(w) + Len(x) /\ i <= Len(w) /\ i \in 1 .. n + 2
    BY <1>1, <1>2
  <2>. QED
    BY <1>4, <1>11, <2>1
<1>13. v[n + 1] = ChunkSize(k) /\ v[n + 2] = LineEnd
  <2> DEFINE i == n + 1
             j == n + 2
  <2>1. /\ i \in 1 .. Len(w) + Len(x) /\ ~(i <= Len(w)) /\ i \in 1 .. n + 2
        /\ i - Len(w) = 1
        /\ j \in 1 .. Len(w) + Len(x) /\ ~(j <= Len(w)) /\ j \in 1 .. n + 2
        /\ j - Len(w) = 2
    BY <1>1, <1>2
  <2>. HIDE DEF i, j
  <2>2. v[i] = x[1] /\ v[j] = x[2]
    BY <1>4, <1>11, <2>1
  <2>. QED
    BY <1>2, <2>2 DEF i, j
<1>14. ASSUME NEW q \in 1 .. k PROVE IsData(v[n + 2 + q])
  <2> DEFINE i == n + 2 + q
  <2>1. /\ i \in 1 .. Len(w1) + Len(d) /\ ~(i <= Len(w1)) /\ i \in 1 .. n + 2 + k
        /\ i - Len(w1) = q
    BY <1>1, <1>9
  <2>. HIDE DEF i
  <2>2. v[i] = d[q]
    BY <1>6, <1>10, <2>1
  <2>3. IsData(d[q])
    BY <1>1
  <2>. QED
    BY <2>2, <2>3 DEF i
<1>15. v[n + 3 + k] = LineEnd
  <2> DEFINE i == n + 3 + k
  <2>1. i \in 1 .. Len(w2) + Len(e) /\ ~(i <= Len(w2)) /\ i - Len(w2) = 1
    BY <1>1, <1>2, <1>9
  <2>. HIDE DEF i
  <2>2. v[i] = e[1]
    BY <1>8, <2>1
  <2>. QED
    BY <1>2, <2>2 DEF i
<1>16. ChunkAt(v, n, k)
  BY <1>9, <1>13, <1>14, <1>15 DEF ChunkAt
<1>17. v \in Seq(Symbols) /\ ChunkAt(v, Len(w), Len(d))
       /\ \A q \in 1 .. Len(w) : v[q] = w[q]
  BY <1>1, <1>8, <1>12, <1>16
<1>. QED
  BY <1>17 DEF v, w2, w1, x, e, k

LEMMA SendingKeepsBody ==
  ASSUME InvBuf, InvBody, up, wire' \in Seq(Symbols),
         NEW k \in Nat, ChunkAt(wire', Len(wire), k),
         \A q \in 1 .. Len(wire) : wire'[q] = wire[q],
         UNCHANGED <<buf, bufPos, needSize, remaining>>
  PROVE  InvBuf' /\ InvBody'
<1>1. /\ buf \in Seq(Symbols) /\ bufPos \in 0 .. Len(buf) /\ wire \in Seq(Symbols)
      /\ Len(buf) \in Nat /\ bufPos \in Nat /\ Len(wire) \in Nat
  BY RestProperties DEF InvBuf
<1>2. InvBuf'
  BY DEF InvBuf, Buffered
<1> DEFINE B == Len(buf) - bufPos
           n == Len(wire)
           v == wire'
           r == Rest
           t == Rest'
<1>3. Spells(r, B, Symbols, buf, bufPos, wire)
  BY <1>1, BodyProperties DEF Rest
<1>4. Spells(t, B, Symbols, buf, bufPos, v)
  <2>1. t = Body(buf, bufPos, v)
    BY DEF Rest
  <2>2. v \in Seq(Symbols)
    OBVIOUS
  <2>. HIDE DEF t, v
  <2>3. Spells(Body(buf, bufPos, v), B, Symbols, buf, bufPos, v)
    BY <1>1, <2>2, BodyProperties
  <2>. QED
    BY <2>1, <2>3
<1>5. /\ Chunks(r) /\ Begins(r, needSize, remaining)
      /\ Whole(r, needSize, remaining)
      /\ needSize \in BOOLEAN /\ remaining \in Nat
  BY DEF InvBody
<1>6. /\ ChunkAt(v, n, k) /\ \A q \in 1 .. n : v[q] = wire[q]
      /\ n \in Nat /\ n = Len(wire)
  BY <1>1
<1>. HIDE DEF B, n, v, r, t, Symbols
<1>7. /\ r \in Seq(Symbols) /\ B \in Nat /\ Len(r) = B + n
      /\ \A q \in 1 .. B : r[q] = buf[q + bufPos]
      /\ \A q \in 1 .. n : r[B + q] = wire[q]
  BY <1>3, <1>6 DEF Spells
<1>8. /\ t \in Seq(Symbols) /\ Len(t) = B + Len(v)
      /\ \A q \in 1 .. B : t[q] = buf[q + bufPos]
      /\ \A q \in 1 .. Len(v) : t[B + q] = v[q]
  BY <1>4 DEF Spells
<1>9. Len(v) = n + 3 + k /\ v[n + 1] = ChunkSize(k) /\ v[n + 2] = LineEnd
      /\ v[n + 3 + k] = LineEnd /\ \A q \in 1 .. k : IsData(v[n + 2 + q])
  BY <1>6 DEF ChunkAt
<1>10. Len(t) = Len(r) + 3 + k
  <2>1. Len(t) = B + Len(v) /\ Len(v) = n + 3 + k /\ Len(r) = B + n
    BY <1>7, <1>8, <1>9
  <2>. QED
    BY <1>6, <1>7, <2>1
<1>11. ASSUME NEW i \in 1 .. 3 + k PROVE t[Len(r) + i] = v[n + i]
  <2>1. n + i \in 1 .. Len(v) /\ Len(r) + i = B + (n + i)
    <3>1. Len(v) = n + 3 + k /\ Len(r) = B + n
      BY <1>7, <1>9
    <3>. QED
      BY <1>6, <1>7, <3>1
  <2>. QED
    BY <1>8, <2>1
<1>12. ASSUME NEW q \in 1 .. Len(r) PROVE t[q] = r[q]
  <2>1. CASE q \in 1 .. B
    BY <1>7, <1>8, <2>1
  <2>2. CASE q \in B + 1 .. Len(r)
    <3> DEFINE x == q - B
    <3>1. x \in 1 .. n /\ x \in 1 .. Len(v) /\ B + x = q
      <4>1. Len(v) = n + 3 + k /\ Len(r) = B + n
        BY <1>7, <1>9
      <4>. QED
        BY <1>6, <1>7, <2>2, <4>1
    <3>. HIDE DEF x
    <3>. QED
      BY <1>6, <1>7, <1>8, <3>1
  <2>. QED
    BY <1>6, <1>7, <2>1, <2>2
<1>13. t[Len(r) + 1] = ChunkSize(k) /\ t[Len(r) + 2] = LineEnd
  <2>1. 1 \in 1 .. 3 + k /\ 2 \in 1 .. 3 + k
    OBVIOUS
  <2>. QED
    BY <1>9, <1>11, <2>1
<1>14. t[Len(r) + 3 + k] = LineEnd
  <2>1. 3 + k \in 1 .. 3 + k /\ n + (3 + k) = n + 3 + k
        /\ Len(r) + (3 + k) = Len(r) + 3 + k
    BY <1>6, <1>7
  <2>2. t[Len(r) + (3 + k)] = v[n + (3 + k)]
    BY <1>11, <2>1
  <2>. QED
    BY <1>9, <2>1, <2>2
<1>15. ASSUME NEW q \in 1 .. k PROVE IsData(t[Len(r) + 2 + q])
  <2>1. 2 + q \in 1 .. 3 + k /\ n + (2 + q) = n + 2 + q
        /\ Len(r) + (2 + q) = Len(r) + 2 + q
    BY <1>6, <1>7
  <2>2. t[Len(r) + (2 + q)] = v[n + (2 + q)]
    BY <1>11, <2>1
  <2>3. IsData(v[n + 2 + q])
    BY <1>9
  <2>. QED
    BY <2>1, <2>2, <2>3
<1>16. /\ Chunks(t) /\ Begins(t, needSize, remaining)
       /\ Whole(t, needSize, remaining)
  BY <1>5, <1>7, <1>8, <1>10, <1>12, <1>13, <1>14, <1>15, ChunkAppended
<1>17. InvBody'
  BY <1>5, <1>16 DEF InvBody, t
<1>. QED
  BY <1>2, <1>17

LEMMA ServerKeepsBody ==
  ASSUME InvBuf, InvBody, InvUnsent, ServerSendsChunk \/ ServerFinishes
  PROVE  InvBuf' /\ InvBody'
<1>1. /\ up /\ wire \in Seq(Symbols) /\ Len(wire) \in Nat
      /\ UNCHANGED <<buf, bufPos, needSize, remaining>>
  BY RestProperties DEF ServerSendsChunk, ServerFinishes, bodyVars, InvBuf
<1>2. CASE ServerSendsChunk
  <2>1. PICK k \in 1 .. Len(unsent) :
          wire' = wire \o <<ChunkSize(k), LineEnd>>
                       \o SubSeq(unsent, 1, k) \o <<LineEnd>>
    BY <1>2 DEF ServerSendsChunk
  <2> DEFINE d == SubSeq(unsent, 1, k)
  <2>2. Len(unsent) \in Nat /\ unsent \in Seq(Symbols)
        /\ \A q \in 1 .. Len(unsent) : IsData(unsent[q])
    BY LenProperties DEF InvUnsent
  <2>3. k \in 0 .. Len(unsent) /\ k \in Nat
    BY <2>2
  <2>4. /\ d \in Seq(Symbols) /\ Len(d) = k
        /\ \A q \in 1 .. k : d[q] = unsent[q]
    BY <2>2, <2>3, FrontProperties
  <2>. HIDE DEF d
  <2>5. \A q \in 1 .. Len(d) : IsData(d[q])
    <3> TAKE q \in 1 .. Len(d)
    <3>1. q \in 1 .. k /\ q \in 1 .. Len(unsent)
      BY <2>2, <2>3, <2>4
    <3>. QED
      BY <2>2, <2>4, <3>1
  <2> DEFINE v == wire \o <<ChunkSize(Len(d)), LineEnd>> \o d \o <<LineEnd>>
  <2>6. /\ v \in Seq(Symbols) /\ ChunkAt(v, Len(wire), Len(d))
        /\ \A q \in 1 .. Len(wire) : v[q] = wire[q]
    BY <1>1, <2>4, <2>5, ChunkOnWire
  <2>7. wire' = v
    BY <2>1, <2>4 DEF d
  <2>. HIDE DEF v
  <2>8. /\ wire' \in Seq(Symbols) /\ ChunkAt(wire', Len(wire), k)
        /\ \A q \in 1 .. Len(wire) : wire'[q] = wire[q]
    BY <2>4, <2>6, <2>7
  <2>. QED
    BY <1>1, <2>3, <2>8, SendingKeepsBody
<1>3. CASE ServerFinishes
  <2> DEFINE e == <<ChunkSize(0), LineEnd, LineEnd>>
             v == wire \o e
             n == Len(wire)
  <2>1. /\ e \in Seq(Symbols) /\ Len(e) = 3 /\ e[1] = ChunkSize(0)
        /\ e[2] = LineEnd /\ e[3] = LineEnd
    <3>1. ChunkSize(0) \in Symbols /\ LineEnd \in Symbols
      BY DEF ChunkSize, LineEnd, Symbols
    <3>. QED
      BY <3>1
  <2>2. wire' = v
    BY <1>3 DEF ServerFinishes
  <2>. HIDE DEF e, Symbols
  <2>3. /\ v \in Seq(Symbols) /\ Len(v) = Len(wire) + Len(e)
        /\ \A i \in 1 .. Len(wire) + Len(e) :
             v[i] = IF i <= Len(wire) THEN wire[i] ELSE e[i - Len(wire)]
    BY <1>1, <2>1, ConcatProperties
  <2>4. n \in Nat /\ n = Len(wire)
    BY <1>1
  <2>. HIDE DEF v, n
  <2>5. ASSUME NEW q \in 1 .. n PROVE v[q] = wire[q]
    <3>1. q \in 1 .. Len(wire) + Len(e) /\ q <= Len(wire)
      BY <2>1, <2>4
    <3>. QED
      BY <2>3, <3>1
  <2>6. ASSUME NEW j \in {1, 2, 3} PROVE v[n + j] = e[j]
    <3> DEFINE i == n + j
    <3>1. i \in 1 .. Len(wire) + Len(e) /\ ~(i <= Len(wire)) /\ i - Len(wire) = j
      BY <2>1, <2>4
    <3>. HIDE DEF i
    <3>2. v[i] = e[j]
      BY <2>3, <3>1
    <3>. QED
      BY <3>2 DEF i
  <2>7. v[n + 1] = ChunkSize(0) /\ v[n + 2] = LineEnd /\ v[n + 3] = LineEnd
    BY <2>1, <2>6
  <2>8. ChunkAt(v, n, 0)
    <3>1. n + 3 + 0 = n + 3 /\ Len(v) = n + 3 + 0
      BY <2>1, <2>3, <2>4
    <3>. QED
      BY <2>7, <3>1 DEF ChunkAt
  <2>9. /\ wire' \in Seq(Symbols) /\ ChunkAt(wire', Len(wire), 0)
        /\ \A q \in 1 .. Len(wire) : wire'[q] = wire[q]
    BY <2>2, <2>3, <2>4, <2>5, <2>8
  <2>. QED
    BY <1>1, <2>9, SendingKeepsBody
<1>. QED
  BY <1>2, <1>3

LEMMA BreakKeepsBody ==
  ASSUME InvBuf, InvBody, ConnectionBreaks
  PROVE  InvBuf' /\ InvBody'
<1>1. PICK n \in 0 .. Len(wire) : wire' = SubSeq(wire, 1, n)
  BY DEF ConnectionBreaks
<1>2. /\ UNCHANGED <<buf, bufPos, needSize, remaining>> /\ ~up'
      /\ buf \in Seq(Symbols) /\ bufPos \in 0 .. Len(buf) /\ wire \in Seq(Symbols)
      /\ Len(buf) \in Nat /\ bufPos \in Nat /\ Len(wire) \in Nat
  BY RestProperties DEF ConnectionBreaks, bodyVars, InvBuf
<1> DEFINE v == SubSeq(wire, 1, n)
           B == Len(buf) - bufPos
           r == Rest
           t == Body(buf, bufPos, v)
<1>3. v \in Seq(Symbols) /\ Len(v) = n /\ \A q \in 1 .. n : v[q] = wire[q]
  BY <1>2, FrontProperties
<1>4. wire' = v /\ n \in Nat /\ n <= Len(wire)
  BY <1>1, <1>2
<1>. HIDE DEF v
<1>5. Spells(r, B, Symbols, buf, bufPos, wire)
  BY <1>2, BodyProperties DEF Rest
<1>6. Spells(t, B, Symbols, buf, bufPos, v)
  BY <1>2, <1>3, BodyProperties
<1>7. Rest' = t
  BY <1>2, <1>4 DEF Rest
<1>8. /\ Chunks(r) /\ Begins(r, needSize, remaining)
      /\ needSize \in BOOLEAN /\ remaining \in Nat
  BY DEF InvBody
<1>. HIDE DEF B, r, t, Symbols
<1>9. /\ r \in Seq(Symbols) /\ B \in Nat /\ Len(r) = B + Len(wire)
      /\ \A q \in 1 .. B : r[q] = buf[q + bufPos]
      /\ \A q \in 1 .. Len(wire) : r[B + q] = wire[q]
  BY <1>5 DEF Spells
<1>10. /\ t \in Seq(Symbols) /\ Len(t) = B + Len(v)
       /\ \A q \in 1 .. B : t[q] = buf[q + bufPos]
       /\ \A q \in 1 .. Len(v) : t[B + q] = v[q]
  BY <1>6 DEF Spells
<1>11. Len(t) = B + n /\ Len(r) = B + Len(wire) /\ Len(t) \in Nat
       /\ Len(t) + 0 <= Len(r)
  <2>1. Len(t) = B + n /\ Len(r) = B + Len(wire) /\ B \in Nat
    BY <1>3, <1>9, <1>10
  <2>. QED
    BY <1>2, <1>4, <2>1
<1>12. ASSUME NEW q \in 1 .. Len(t) PROVE t[q] = r[q + 0]
  <2>1. q + 0 = q
    BY <1>11
  <2>2. CASE q \in 1 .. B
    BY <1>9, <1>10, <2>1, <2>2
  <2>3. CASE q \in B + 1 .. B + n
    <3> DEFINE x == q - B
    <3>1. x \in 1 .. n /\ x \in 1 .. Len(wire) /\ B + x = q
      BY <1>2, <1>4, <1>9, <2>3
    <3>. HIDE DEF x
    <3>2. t[B + x] = v[x] /\ r[B + x] = wire[x] /\ v[x] = wire[x]
      BY <1>3, <1>9, <1>10, <3>1
    <3>. QED
      BY <2>1, <3>1, <3>2
  <2>. QED
    BY <1>4, <1>9, <1>11, <2>2, <2>3
<1>13. IsPart(t, r, 0)
  BY <1>11, <1>12 DEF IsPart
<1>14. Chunks(t)
  BY <1>8, <1>9, <1>10, <1>13, PartKeepsChunks
<1>15. Begins(t, needSize, remaining)
  <2>1. CASE needSize = TRUE
    <3> SUFFICES ASSUME Len(t) >= 1 PROVE t[1].is = "size" \/ EndsAt(t, 1)
      BY <2>1 DEF Begins
    <3>1. Len(r) >= 1 /\ 1 \in 1 .. Len(t) /\ 1 + 0 = 1 /\ 0 + 1 = 1
      BY <1>2, <1>9, <1>11
    <3>2. t[1] = r[1]
      BY <1>12, <3>1
    <3>3. r[1].is = "size" \/ EndsAt(r, 0 + 1)
      BY <1>8, <2>1, <3>1 DEF Begins
    <3>4. ASSUME EndsAt(r, 0 + 1) PROVE EndsAt(t, 1)
      BY <1>9, <1>10, <1>13, <3>4, PartKeepsEnd
    <3>. QED
      BY <3>2, <3>3, <3>4
  <2>2. CASE needSize = FALSE
    <3>1. remaining > 0 /\ DataUpTo(r, 1, remaining) /\ EndsAt(r, remaining + 1)
      BY <1>8, <2>2 DEF Begins
    <3>2. 0 + 1 = 1 /\ 0 + remaining = remaining
          /\ 0 + (remaining + 1) = remaining + 1 /\ remaining + 1 \in Nat \ {0}
      BY <1>8
    <3>3. DataUpTo(t, 1, remaining)
      <4>1. DataUpTo(r, 0 + 1, 0 + remaining)
        BY <3>1, <3>2
      <4>. QED
        BY <1>8, <1>9, <1>10, <1>13, <4>1, PartKeepsData
    <3>4. EndsAt(t, remaining + 1)
      <4>1. EndsAt(r, 0 + (remaining + 1))
        BY <3>1, <3>2
      <4>. QED
        BY <1>9, <1>10, <1>13, <3>2, <4>1, PartKeepsEnd
    <3>. QED
      BY <2>2, <3>1, <3>3, <3>4 DEF Begins
  <2>. QED
    BY <1>8, <2>1, <2>2
<1>16. InvBuf'
  BY <1>2, <1>3, <1>4 DEF InvBuf, Buffered
<1>17. InvBody'
  BY <1>2, <1>7, <1>8, <1>14, <1>15 DEF InvBody
<1>. QED
  BY <1>16, <1>17

\* A connection that is opened or dropped has nothing buffered.
LEMMA NothingBuffered ==
  ASSUME buf' = <<>>, bufPos' = 0, wire' = <<>>,
         needSize' \in BOOLEAN, remaining' \in Nat, ~needSize' => remaining' > 0,
         up' => needSize'
  PROVE  InvBuf' /\ InvBody'
<1>1. Rest' = <<>> /\ Buffered' = <<>>
  <2>1. After(<<>>, 0) = <<>> /\ <<>> \o <<>> = <<>>
    BY DEF After
  <2>. QED
    BY <2>1 DEF Rest, Buffered, Body
<1>2. Len(<<>>) = 0 /\ RecvSize \in Nat /\ BufLimit \in Nat /\ <<>> \in Seq(Symbols)
  BY StreamAssumption
<1>3. Chunks(<<>>)
  BY <1>2 DEF Chunks
<1>4. Begins(<<>>, needSize', remaining')
  <2>1. CASE needSize'
    BY <1>2, <2>1 DEF Begins
  <2>2. CASE ~needSize'
    <3>1. EndsAt(<<>>, remaining' + 1)
      <4> DEFINE e == remaining' + 1
      <4>1. e \in Nat \ {0} /\ ~(e <= 0) /\ ~(e + 1 <= 0)
        <5>1. \A x \in Nat : x + 1 \in Nat \ {0} /\ ~(x + 1 <= 0)
                             /\ ~(x + 1 + 1 <= 0)
          OBVIOUS
        <5>. QED
          BY <5>1
      <4>. HIDE DEF e
      <4>2. EndsAt(<<>>, e)
        BY <1>2, <4>1 DEF EndsAt
      <4>. QED
        BY <4>2 DEF e
    <3>2. DataUpTo(<<>>, 1, remaining')
      BY <1>2 DEF DataUpTo
    <3>. QED
      BY <2>2, <3>1, <3>2 DEF Begins
  <2>. QED
    BY <2>1, <2>2
<1>5. up' => Whole(<<>>, needSize', remaining')
  BY <1>2 DEF Whole
<1>6. InvBuf'
  BY <1>1, <1>2 DEF InvBuf
<1>. QED
  BY <1>1, <1>3, <1>4, <1>5, <1>6 DEF InvBody

-----------------------------------------------------------------------------
(* pending_                                                                  *)

\* The length in a header is that of a frame, or of nothing.
LEMMA LengthsAreDeclared ==
  ASSUME InvPending, Available >= HeaderSize
  PROVE  /\ DeclaredLength \in Nat
         /\ DeclaredLength # 0 => \E f \in Frames : DeclaredLength = PayloadSize[f]
<1>1. /\ pending \in Seq(Symbols) /\ Len(pending) \in Nat /\ pendingPos \in Nat
      /\ pendingPos + HeaderSize <= Len(pending)
      /\ HeaderSize \in Nat /\ HeaderSize > 1
      /\ \A k \in 1 .. Len(pending) : IsData(pending[k])
      /\ \A f \in Frames : PayloadSize[f] \in Nat
  <2>1. pendingPos \in 0 .. Len(pending) /\ Len(pending) \in Nat
    BY LenProperties DEF InvPending
  <2>2. HeaderSize \in Nat /\ HeaderSize > 1
    BY StreamAssumption
  <2>3. pendingPos + HeaderSize <= Len(pending)
    BY <2>1, <2>2 DEF Available
  <2>. QED
    BY <2>1, <2>2, <2>3, StreamAssumption DEF InvPending
<1> DEFINE p == pendingPos + 1
           e == pendingPos + HeaderSize
           header == SubSeq(pending, p, e)
           f == header[1].of
<1>2. header[1] = pending[p] /\ p \in 1 .. Len(pending)
  <2>1. p \in Nat \ {0} /\ e \in Nat /\ p <= e /\ p \in 1 .. Len(pending)
        /\ 1 \in 1 .. e - p + 1 /\ p + 1 - 1 = p /\ p \in Int /\ e \in Int
        /\ \A i \in p .. e : i \in 1 .. Len(pending)
    BY <1>1
  <2>. HIDE DEF p, e
  <2>2. \A i \in p .. e : pending[i] \in Symbols
    BY <1>1, <2>1, ElementOfSeq
  <2>3. \A i \in 1 .. e - p + 1 : SubSeq(pending, p, e)[i] = pending[p + i - 1]
    BY <1>1, <2>1, <2>2, SubSeqProperties
  <2>. QED
    BY <2>1, <2>3
<1>3. f \in Frames
  BY <1>1, <1>2 DEF IsData
<1>4. DeclaredLength = IF header = SubSeq(Envelope(f), 1, HeaderSize)
                       THEN PayloadSize[f] ELSE 0
  BY DEF DeclaredLength
<1>. HIDE DEF f
<1>5. CASE header = SubSeq(Envelope(f), 1, HeaderSize)
  BY <1>1, <1>3, <1>4, <1>5
<1>6. CASE header # SubSeq(Envelope(f), 1, HeaderSize)
  BY <1>4, <1>6
<1>. QED
  BY <1>5, <1>6

\* Without a whole envelope, less than some envelope is left in pending_.
LEMMA LittleIsPending ==
  ASSUME InvPending, ~HasEnvelope
  PROVE  \E f \in Frames : Available < EnvelopeSize(f)
<1>1. /\ HeaderSize \in Nat /\ Available \in Nat
      /\ \A f \in Frames : PayloadSize[f] \in Nat /\ PayloadSize[f] > 0
  BY StreamAssumption, LenProperties DEF InvPending, Available
<1>. HIDE DEF Available
<1>2. ASSUME NEW f \in Frames, Available < HeaderSize + PayloadSize[f]
      PROVE  Available < EnvelopeSize(f)
  BY <1>2 DEF EnvelopeSize
<1>3. PICK g \in Frames : TRUE
  BY StreamAssumption
<1>4. CASE Available < HeaderSize
  <2>1. Available < HeaderSize + PayloadSize[g]
    BY <1>1, <1>4
  <2>. QED
    BY <1>2, <2>1
<1>5. CASE Available >= HeaderSize
  <2>1. Available < HeaderSize + DeclaredLength /\ DeclaredLength \in Nat
    BY <1>1, <1>5, LengthsAreDeclared DEF HasEnvelope
  <2>2. DeclaredLength # 0
    BY <1>1, <1>5, <2>1
  <2>3. PICK f \in Frames : DeclaredLength = PayloadSize[f]
    BY <1>5, <2>2, LengthsAreDeclared
  <2>. QED
    BY <1>2, <2>1, <2>3
<1>. QED
  BY <1>1, <1>4, <1>5

\* Reading an envelope.
LEMMA ConsumingKeepsPending ==
  ASSUME InvPending, HasEnvelope, Consumes(HeaderSize + DeclaredLength)
  PROVE  InvPending'
<1> DEFINE n == HeaderSize + DeclaredLength
           m == pendingPos + n
           L == Len(pending)
<1>1. /\ pending \in Seq(Symbols) /\ pendingPos \in 0 .. L /\ L \in Nat
      /\ pendingPos \in Nat /\ L = Len(pending)
  BY LenProperties DEF InvPending
<1>2. n \in Nat /\ m \in 0 .. L /\ m \in Nat /\ PendingLimit \in Nat
  <2>1. HeaderSize \in Nat /\ PendingLimit \in Nat
    BY StreamAssumption
  <2>2. DeclaredLength \in Nat /\ Len(pending) - pendingPos >= HeaderSize + DeclaredLength
    BY LengthsAreDeclared DEF HasEnvelope, Available
  <2>. QED
    BY <1>1, <2>1, <2>2
<1>3. IF m > PendingLimit
      THEN pending' = After(pending, m) /\ pendingPos' = 0
      ELSE pendingPos' = m /\ pending' = pending
  BY DEF Consumes
<1>4. /\ \A k \in 1 .. L : IsData(pending[k])
      /\ RecvSize \in Nat
  BY StreamAssumption DEF InvPending
<1>5. PICK f \in Frames : L <= PendingLimit + EnvelopeSize(f) + RecvSize
  BY DEF InvPending
<1>6. EnvelopeSize(f) \in Nat
  BY StreamAssumption DEF EnvelopeSize
<1>. HIDE DEF m, n, L
<1>7. CASE m > PendingLimit
  <2>1. pending' = After(pending, m) /\ pendingPos' = 0
    BY <1>3, <1>7
  <2>2. m \in 0 .. Len(pending)
    BY <1>1, <1>2
  <2> DEFINE s == After(pending, m)
  <2>3. /\ s \in Seq(Symbols) /\ Len(s) = Len(pending) - m
        /\ \A q \in 1 .. Len(pending) - m : s[q] = pending[q + m]
    BY <1>1, <2>2, AfterProperties
  <2>. HIDE DEF s
  <2>4. Len(s) = L - m /\ L - m \in Nat /\ L - m <= L
    BY <1>1, <1>2, <2>3
  <2>5. ASSUME NEW q \in 1 .. Len(s) PROVE IsData(s[q])
    <3>1. q \in 1 .. Len(pending) - m /\ q + m \in 1 .. L
      BY <1>1, <1>2, <2>4
    <3>. QED
      BY <1>4, <2>3, <3>1
  <2>6. Len(s) <= PendingLimit + EnvelopeSize(f) + RecvSize
    BY <1>1, <1>2, <1>4, <1>5, <1>6, <2>4
  <2>7. pending' = s /\ 0 \in 0 .. Len(s) /\ 0 <= PendingLimit
    BY <1>2, <2>1, <2>4 DEF s
  <2>. QED
    BY <2>1, <2>3, <2>5, <2>6, <2>7 DEF InvPending
<1>8. CASE ~(m > PendingLimit)
  <2>1. pendingPos' = m /\ pending' = pending /\ m <= PendingLimit
    BY <1>2, <1>3, <1>8
  <2>2. pendingPos' \in 0 .. Len(pending')
    BY <1>1, <1>2, <2>1
  <2>. QED
    BY <2>1, <2>2 DEF InvPending
<1>. QED
  BY <1>7, <1>8

\* ReadBody's data goes behind what is left of an envelope.
LEMMA ChunkDataKeepsPending ==
  ASSUME InvBuf, InvBody, InvPending, ReadsChunkData
  PROVE  InvPending'
<1> DEFINE d == SubSeq(Buffered, 1, Takes)
           L == Len(pending)
<1>1. /\ Takes \in 0 .. Len(Buffered) /\ Takes \in Nat
      /\ \A q \in 1 .. Takes : IsData(Buffered[q])
  BY TakesProperties
<1>2. /\ Buffered \in Seq(Symbols) /\ Len(Buffered) \in Nat
      /\ Len(Buffered) <= RecvSize + 1 /\ RecvSize \in Nat /\ PendingLimit \in Nat
  BY RestProperties, StreamAssumption DEF InvBuf
<1>3. pending' = pending \o d /\ pendingPos' = pendingPos /\ ~HasEnvelope
  BY DEF ReadsChunkData, InBody
<1>. HIDE DEF Takes
<1>4. /\ d \in Seq(Symbols) /\ Len(d) = Takes
      /\ \A q \in 1 .. Takes : d[q] = Buffered[q]
  BY <1>1, <1>2, FrontProperties
<1>. HIDE DEF d
<1>5. /\ pending \in Seq(Symbols) /\ pendingPos \in 0 .. L /\ L \in Nat
      /\ pendingPos \in Nat /\ L = Len(pending) /\ pendingPos <= PendingLimit
      /\ \A k \in 1 .. L : IsData(pending[k])
  BY LenProperties DEF InvPending
<1>6. PICK f \in Frames : L - pendingPos < EnvelopeSize(f)
  BY <1>3, LittleIsPending DEF Available
<1>7. EnvelopeSize(f) \in Nat
  BY StreamAssumption DEF EnvelopeSize
<1> DEFINE s == pending \o d
<1>8. d \in Seq(Symbols)
  BY <1>4
<1>9. /\ s \in Seq(Symbols) /\ Len(s) = Len(pending) + Len(d)
      /\ \A i \in 1 .. Len(pending) + Len(d) :
           s[i] = IF i <= Len(pending) THEN pending[i] ELSE d[i - Len(pending)]
  BY <1>5, <1>8, ConcatProperties
<1>. HIDE DEF s, L
<1>10. Len(s) = L + Takes
  BY <1>4, <1>5, <1>9
<1>11. ASSUME NEW k \in 1 .. Len(s) PROVE IsData(s[k])
  <2>1. k \in 1 .. Len(pending) + Len(d)
    BY <1>9
  <2>2. CASE k <= Len(pending)
    <3>1. k \in 1 .. L
      BY <1>5, <2>2
    <3>. QED
      BY <1>5, <1>9, <2>1, <2>2, <3>1
  <2>3. CASE ~(k <= Len(pending))
    <3> DEFINE x == k - Len(pending)
    <3>1. x \in 1 .. Takes
      BY <1>1, <1>5, <1>10, <2>3
    <3>2. s[k] = d[x]
      BY <1>9, <2>1, <2>3
    <3>. HIDE DEF x
    <3>. QED
      BY <1>1, <1>4, <3>1, <3>2
  <2>. QED
    BY <2>2, <2>3
<1>12. Len(s) <= PendingLimit + EnvelopeSize(f) + RecvSize
  <2>1. Takes <= RecvSize + 1
    BY <1>1, <1>2
  <2>. QED
    BY <1>1, <1>2, <1>5, <1>6, <1>7, <1>10, <2>1
<1>13. pendingPos \in 0 .. Len(s)
  BY <1>1, <1>5, <1>10
<1>14. pending' = s
  BY <1>3 DEF s
<1>. QED
  BY <1>3, <1>5, <1>9, <1>11, <1>12, <1>13, <1>14 DEF InvPending

-----------------------------------------------------------------------------
(* The theorems                                                              *)

LEMMA EnvelopesAreData ==
  ASSUME NEW f \in Frames, InvUnsent, unsent' = unsent \o Envelope(f)
  PROVE  InvUnsent'
<1> DEFINE e == Envelope(f)
           n == EnvelopeSize(f)
           s == unsent \o e
<1>1. n \in Nat /\ unsent \in Seq(Symbols) /\ Len(unsent) \in Nat
      /\ \A k \in 1 .. Len(unsent) : IsData(unsent[k])
  BY StreamAssumption, LenProperties DEF EnvelopeSize, InvUnsent
<1>2. \A k \in 1 .. n : ByteAt(f, k) \in Symbols /\ IsData(ByteAt(f, k))
  BY <1>1 DEF ByteAt, Symbols, IsData
<1>3. e = [k \in 1 .. n |-> ByteAt(f, k)]
  BY DEF Envelope
<1>. HIDE DEF n, e, Symbols
<1>4. e \in Seq(Symbols) /\ Len(e) = n /\ \A k \in 1 .. n : e[k] = ByteAt(f, k)
  BY <1>1, <1>2, <1>3
<1>5. e \in Seq(Symbols)
  BY <1>4
<1>6. /\ s \in Seq(Symbols) /\ Len(s) = Len(unsent) + Len(e)
      /\ \A i \in 1 .. Len(unsent) + Len(e) :
           s[i] = IF i <= Len(unsent) THEN unsent[i] ELSE e[i - Len(unsent)]
  BY <1>1, <1>5, ConcatProperties
<1>7. unsent' = s
  BY DEF e
<1>. HIDE DEF s
<1>8. ASSUME NEW k \in 1 .. Len(s) PROVE IsData(s[k])
  <2>1. k \in 1 .. Len(unsent) + Len(e)
    BY <1>6
  <2>2. CASE k <= Len(unsent)
    <3>1. k \in 1 .. Len(unsent)
      BY <1>1, <2>2
    <3>. QED
      BY <1>1, <1>6, <2>1, <2>2, <3>1
  <2>3. CASE ~(k <= Len(unsent))
    <3> DEFINE x == k - Len(unsent)
    <3>1. Len(e) = n
      BY <1>4
    <3>2. x \in 1 .. n
      BY <1>1, <2>1, <2>3, <3>1
    <3>3. s[k] = e[x]
      BY <1>6, <2>1, <2>3
    <3>. HIDE DEF x
    <3>. QED
      BY <1>2, <1>4, <3>2, <3>3
  <2>. QED
    BY <2>2, <2>3
<1>. QED
  BY <1>6, <1>7, <1>8 DEF InvUnsent

\* What the server has not sent is data before and after a chunk is cut off.
LEMMA CutsKeepUnsent ==
  ASSUME InvUnsent, ServerSendsChunk
  PROVE  InvUnsent'
<1>1. PICK k \in 1 .. Len(unsent) : unsent' = After(unsent, k)
  BY DEF ServerSendsChunk
<1>2. unsent \in Seq(Symbols) /\ Len(unsent) \in Nat
      /\ \A q \in 1 .. Len(unsent) : IsData(unsent[q])
  BY LenProperties DEF InvUnsent
<1>3. k \in 0 .. Len(unsent) /\ k \in Nat
  BY <1>2
<1> DEFINE s == After(unsent, k)
<1>4. /\ s \in Seq(Symbols) /\ Len(s) = Len(unsent) - k
      /\ \A q \in 1 .. Len(unsent) - k : s[q] = unsent[q + k]
  BY <1>2, <1>3, AfterProperties
<1>. HIDE DEF s
<1>5. ASSUME NEW q \in 1 .. Len(s) PROVE IsData(s[q])
  <2>1. q \in 1 .. Len(unsent) - k /\ q + k \in 1 .. Len(unsent)
    BY <1>2, <1>3, <1>4
  <2>. QED
    BY <1>2, <1>4, <2>1
<1>6. unsent' = s
  BY <1>1 DEF s
<1>. QED
  BY <1>4, <1>5, <1>6 DEF InvUnsent

LEMMA StreamInvImplies == StreamInv => TypeOK /\ BuffersAreReclaimed
<1> SUFFICES ASSUME StreamInv PROVE TypeOK /\ BuffersAreReclaimed
  OBVIOUS
<1>1. TypeOK
  BY DEF StreamInv, InvThread, InvBuf, InvBody, InvPending, InvUnsent, TypeOK
<1>2. BuffersAreReclaimed
  BY DEF StreamInv, InvBuf, InvPending, BuffersAreReclaimed
<1>. QED
  BY <1>1, <1>2

\* An empty pending_ and nothing to send.
LEMMA NothingPending ==
  /\ pending' = <<>> /\ pendingPos' = 0 => InvPending'
  /\ unsent' = <<>> => InvUnsent'
<1>1. Len(<<>>) = 0 /\ <<>> \in Seq(Symbols) /\ RecvSize \in Nat
      /\ PendingLimit \in Nat
  BY StreamAssumption
<1>2. PICK f \in Frames : EnvelopeSize(f) \in Nat
  BY StreamAssumption DEF EnvelopeSize
<1>3. 0 <= PendingLimit + EnvelopeSize(f) + RecvSize /\ 0 <= PendingLimit
  BY <1>1, <1>2
<1>4. ASSUME pending' = <<>>, pendingPos' = 0 PROVE InvPending'
  BY <1>1, <1>3, <1>4 DEF InvPending
<1>5. ASSUME unsent' = <<>> PROVE InvUnsent'
  BY <1>1, <1>5 DEF InvUnsent
<1>. QED
  BY <1>4, <1>5

LEMMA StreamInit == Init => StreamInv
<1> SUFFICES ASSUME Init PROVE StreamInv
  OBVIOUS
<1>1. Len(<<>>) = 0 /\ <<>> \in Seq(Symbols) /\ RecvSize \in Nat
      /\ PendingLimit \in Nat /\ BufLimit \in Nat
  BY StreamAssumption
<1>2. Rest = <<>> /\ Buffered = <<>>
  <2>1. After(<<>>, 0) = <<>> /\ <<>> \o <<>> = <<>>
    BY DEF After
  <2>. QED
    BY <2>1 DEF Init, Rest, Buffered, Body
<1>3. InvThread
  BY DEF Init, InvThread, Returned
<1>4. InvBuf
  BY <1>1, <1>2 DEF Init, InvBuf
<1>5. InvBody
  BY <1>1, <1>2 DEF Init, InvBody, Chunks, Begins, Whole
<1>6. PICK f \in Frames : EnvelopeSize(f) \in Nat
  BY StreamAssumption DEF EnvelopeSize
<1>7. 0 <= PendingLimit + EnvelopeSize(f) + RecvSize /\ 0 <= PendingLimit
  BY <1>1, <1>6
<1>8. InvPending
  BY <1>1, <1>7 DEF Init, InvPending
<1>9. InvUnsent
  BY <1>1 DEF Init, InvUnsent
<1>. QED
  BY <1>3, <1>4, <1>5, <1>8, <1>9 DEF StreamInv

LEMMA ThreadStep ==
  ASSUME InvThread, Next
  PROVE  InvThread'
<1>. USE DEF InvThread, Returned, ReadReturnsEnded, bodyVars, readVars, sendVars
<1>1. CASE Opens
  BY <1>1 DEF Opens
<1>2. CASE OpenFails
  BY <1>2 DEF OpenFails
<1>3. CASE Closes
  BY <1>3 DEF Closes
<1>4. CASE ReadsEvent
  BY <1>4 DEF ReadsEvent
<1>5. CASE ReadsEnding
  BY <1>5 DEF ReadsEnding
<1>6. CASE SkipsBlankLine
  BY <1>6 DEF SkipsBlankLine
<1>7. CASE ReadsSizeLine
  BY <1>7 DEF ReadsSizeLine
<1>8. CASE ReadsLastChunk
  BY <1>8 DEF ReadsLastChunk
<1>9. CASE ReadsChunkData
  BY <1>9 DEF ReadsChunkData
<1>10. CASE Receives
  BY <1>10 DEF Receives
<1>11. CASE ReadFails
  BY <1>11 DEF ReadFails
<1>12. CASE TimesOut
  BY <1>12 DEF TimesOut
<1>13. ASSUME NEW f \in Frames, ServerPublishes(f) PROVE InvThread'
  BY <1>13 DEF ServerPublishes
<1>14. CASE ServerSendsChunk
  BY <1>14 DEF ServerSendsChunk
<1>15. CASE ServerFinishes
  BY <1>15 DEF ServerFinishes
<1>16. CASE ConnectionBreaks
  BY <1>16 DEF ConnectionBreaks
<1>. QED
  BY <1>1, <1>2, <1>3, <1>4, <1>5, <1>6, <1>7, <1>8, <1>9, <1>10, <1>11, <1>12,
     <1>13, <1>14, <1>15, <1>16 DEF Next, ReadSteps

LEMMA Untouched ==
  /\ InvPending /\ UNCHANGED readVars => InvPending'
  /\ InvUnsent /\ unsent' = unsent => InvUnsent'
  /\ InvBuf /\ InvBody /\ UNCHANGED <<bodyVars, wire>> /\ (up' => up)
       => InvBuf' /\ InvBody'
<1>1. ASSUME InvPending, UNCHANGED readVars PROVE InvPending'
  BY <1>1 DEF InvPending, readVars
<1>2. ASSUME InvUnsent, unsent' = unsent PROVE InvUnsent'
  BY <1>2 DEF InvUnsent
<1>3. ASSUME InvBuf, InvBody, UNCHANGED <<bodyVars, wire>>, up' => up
      PROVE  InvBuf' /\ InvBody'
  <2>1. UNCHANGED <<buf, bufPos, needSize, remaining, wire>>
    BY <1>3 DEF bodyVars
  <2>2. Rest' = Rest /\ Buffered' = Buffered
    BY <2>1 DEF Rest, Buffered
  <2>. QED
    BY <1>3, <2>1, <2>2 DEF InvBuf, InvBody
<1>. QED
  BY <1>1, <1>2, <1>3

LEMMA StreamStep == StreamInv /\ [Next]_vars => StreamInv'
<1> SUFFICES ASSUME StreamInv, [Next]_vars PROVE StreamInv'
  OBVIOUS
<1>1. InvThread /\ InvBuf /\ InvBody /\ InvPending /\ InvUnsent
  BY DEF StreamInv
<1>2. CASE UNCHANGED vars
  <2>1. UNCHANGED <<at, result, readVars, bodyVars, wire, unsent, up, finished>>
    BY <1>2 DEF vars, sendVars
  <2>2. InvThread'
    BY <1>1, <2>1 DEF InvThread, bodyVars
  <2>. QED
    BY <1>1, <2>1, <2>2, Untouched DEF StreamInv
<1>3. CASE Next
  <2>1. InvThread'
    BY <1>1, <1>3, ThreadStep
  <2>2. SUFFICES InvBuf' /\ InvBody' /\ InvPending' /\ InvUnsent'
    BY <2>1 DEF StreamInv
  <2>3. CASE Opens
    <3>1. /\ buf' = <<>> /\ bufPos' = 0 /\ wire' = <<>>
          /\ needSize' = TRUE /\ remaining' = 0
          /\ pending' = <<>> /\ pendingPos' = 0 /\ unsent' = <<>>
      BY <2>3 DEF Opens
    <3>2. needSize' \in BOOLEAN /\ remaining' \in Nat /\ needSize'
      BY <3>1
    <3>. QED
      BY <3>1, <3>2, NothingBuffered, NothingPending
  <2>4. CASE OpenFails
    <3>1. /\ UNCHANGED <<bodyVars, wire>> /\ unsent' = unsent /\ up' = up
          /\ pending' = <<>> /\ pendingPos' = 0
      BY <2>4 DEF OpenFails, sendVars
    <3>. QED
      BY <1>1, <3>1, Untouched, NothingPending
  <2>5. CASE Closes
    <3>1. /\ buf' = <<>> /\ bufPos' = 0 /\ wire' = <<>> /\ up' = FALSE
          /\ needSize' = needSize /\ remaining' = remaining
          /\ UNCHANGED readVars /\ unsent' = <<>>
      BY <2>5 DEF Closes
    <3>2. needSize' \in BOOLEAN /\ remaining' \in Nat
          /\ (~needSize' => remaining' > 0)
      BY <1>1, <3>1 DEF InvBody, Begins
    <3>. QED
      BY <1>1, <3>1, <3>2, NothingBuffered, NothingPending, Untouched
  <2>6. CASE ReadsEvent \/ ReadsEnding
    <3>1. /\ HasEnvelope /\ Consumes(HeaderSize + DeclaredLength)
          /\ UNCHANGED <<bodyVars, wire>> /\ unsent' = unsent /\ up' = up
      BY <2>6 DEF ReadsEvent, ReadsEnding, sendVars
    <3>. QED
      BY <1>1, <3>1, ConsumingKeepsPending, Untouched
  <2>7. CASE SkipsBlankLine
    <3>1. UNCHANGED readVars /\ unsent' = unsent
      BY <2>7 DEF SkipsBlankLine, sendVars
    <3>. QED
      BY <1>1, <2>7, <3>1, BlankLineKeepsBody, Untouched
  <2>8. CASE ReadsSizeLine
    <3>1. UNCHANGED readVars /\ unsent' = unsent
      BY <2>8 DEF ReadsSizeLine, sendVars
    <3>. QED
      BY <1>1, <2>8, <3>1, SizeLineKeepsBody, Untouched
  <2>9. CASE ReadsLastChunk
    <3>1. UNCHANGED readVars /\ unsent' = unsent
      BY <2>9 DEF ReadsLastChunk, sendVars
    <3>. QED
      BY <1>1, <2>9, <3>1, LastChunkKeepsBody, Untouched
  <2>10. CASE ReadsChunkData
    <3>1. unsent' = unsent
      BY <2>10 DEF ReadsChunkData, sendVars
    <3>. QED
      BY <1>1, <2>10, <3>1, ChunkDataKeepsBody, ChunkDataKeepsPending, Untouched
  <2>11. CASE Receives \/ TimesOut
    <3>1. UNCHANGED readVars /\ unsent' = unsent
      BY <2>11 DEF Receives, TimesOut, sendVars
    <3>. QED
      BY <1>1, <2>11, <3>1, FillKeepsBody, Untouched
  <2>12. CASE ReadFails
    <3>1. /\ UNCHANGED readVars /\ UNCHANGED <<bodyVars, wire>>
          /\ unsent' = unsent /\ up' = up
      BY <2>12 DEF ReadFails, sendVars
    <3>. QED
      BY <1>1, <3>1, Untouched
  <2>13. ASSUME NEW f \in Frames, ServerPublishes(f)
         PROVE  InvBuf' /\ InvBody' /\ InvPending' /\ InvUnsent'
    <3>1. /\ UNCHANGED readVars /\ UNCHANGED <<bodyVars, wire>> /\ up' = up
          /\ unsent' = unsent \o Envelope(f)
      BY <2>13 DEF ServerPublishes
    <3>. QED
      BY <1>1, <3>1, EnvelopesAreData, Untouched
  <2>14. CASE ServerSendsChunk
    <3>1. UNCHANGED readVars
      BY <2>14 DEF ServerSendsChunk
    <3>. QED
      BY <1>1, <2>14, <3>1, ServerKeepsBody, CutsKeepUnsent, Untouched
  <2>15. CASE ServerFinishes
    <3>1. UNCHANGED readVars /\ unsent' = unsent
      BY <2>15 DEF ServerFinishes
    <3>. QED
      BY <1>1, <2>15, <3>1, ServerKeepsBody, Untouched
  <2>16. CASE ConnectionBreaks
    <3>1. UNCHANGED readVars /\ unsent' = <<>>
      BY <2>16 DEF ConnectionBreaks
    <3>. QED
      BY <1>1, <2>16, <3>1, BreakKeepsBody, NothingPending, Untouched
  <2>. QED
    BY <1>3, <2>3, <2>4, <2>5, <2>6, <2>7, <2>8, <2>9, <2>10, <2>11, <2>12, <2>13,
       <2>14, <2>15, <2>16 DEF Next, ReadSteps
<1>. QED
  BY <1>2, <1>3

LEMMA StreamInvariant == Spec => []StreamInv
  BY StreamInit, StreamStep, PTL DEF Spec

-----------------------------------------------------------------------------
(* Replacing each symbol of a sequence                                       *)

\* A set of numbers that has 0, and the next of each it has, has them all.
LEMMA NaturalInduction ==
  ASSUME NEW T \in SUBSET Nat, 0 \in T, \A n \in T : n + 1 \in T
  PROVE  T = Nat
<1> DEFINE R == {ss \in Nat \X Nat : ss[1] < ss[2]}
           U == Nat \ T
<1>1. \A x, y \in Nat : y < x => <<y, x>> \in R
  OBVIOUS
<1>2. IsWellFoundedOn(R, Nat)
  BY NatLessThanWellFounded DEF OpToRel
<1>3. U \in SUBSET Nat
  OBVIOUS
<1>. HIDE DEF R
<1>4. ASSUME U # {} PROVE FALSE
  <2>1. PICK x \in U : \A y \in U : ~(<<y, x>> \in R)
    BY <1>2, <1>3, <1>4, WFMin
  <2>2. x \in Nat /\ x # 0
    BY <1>3, <2>1
  <2>3. x - 1 \in Nat /\ x - 1 < x /\ x - 1 + 1 = x
    BY <2>2
  <2>4. <<x - 1, x>> \in R
    BY <1>1, <2>2, <2>3
  <2>5. x - 1 \in T
    BY <2>1, <2>3, <2>4
  <2>6. x - 1 + 1 \in T
    BY <2>5
  <2>. QED
    BY <2>1, <2>3, <2>6
<1>. QED
  BY <1>4

\* f holds what Mapped has put together after each place of s.
IsUpTo(f, s, g) ==
  f = [n \in 0 .. Len(s) |-> IF n = 0 THEN <<>> ELSE f[n - 1] \o g[s[n]]]

LEMMA UpToExists ==
  ASSUME NEW S, NEW s \in Seq(S), NEW g
  PROVE  \E f : IsUpTo(f, s, g)
<1> DEFINE Is(f, m) ==
             f = [n \in 0 .. m |-> IF n = 0 THEN <<>> ELSE f[n - 1] \o g[s[n]]]
           T == {m \in Nat : \E f : Is(f, m)}
<1>1. T \in SUBSET Nat
  OBVIOUS
<1>2. 0 \in T
  <2> DEFINE f == [n \in 0 .. 0 |-> <<>>]
  <2>1. f = [n \in 0 .. 0 |-> IF n = 0 THEN <<>> ELSE f[n - 1] \o g[s[n]]]
    <3>1. \A n \in 0 .. 0 : n = 0
      OBVIOUS
    <3>. QED
      BY <3>1
  <2>. QED
    BY <2>1
<1>3. ASSUME NEW m \in T PROVE m + 1 \in T
  <2>1. m \in Nat
    OBVIOUS
  <2>2. PICK f : Is(f, m)
    OBVIOUS
  <2> DEFINE h == [n \in 0 .. m + 1 |-> IF n = m + 1 THEN f[m] \o g[s[m + 1]]
                                        ELSE f[n]]
  <2>3. ASSUME NEW n \in 0 .. m + 1
        PROVE  h[n] = IF n = 0 THEN <<>> ELSE h[n - 1] \o g[s[n]]
    <3>1. CASE n = 0
      <4>1. 0 \in 0 .. m /\ 0 # m + 1 /\ 0 \in 0 .. m + 1
        BY <2>1
      <4>2. f[0] = <<>> /\ h[0] = f[0]
        BY <2>2, <4>1
      <4>. QED
        BY <3>1, <4>2
    <3>2. CASE n = m + 1
      <4>1. n # 0 /\ n - 1 = m /\ m # m + 1 /\ m \in 0 .. m + 1
            /\ m + 1 \in 0 .. m + 1
        BY <2>1, <3>2
      <4>2. h[m] = f[m] /\ h[m + 1] = f[m] \o g[s[m + 1]]
        BY <4>1
      <4>. QED
        BY <3>2, <4>1, <4>2
    <3>3. CASE n # 0 /\ n # m + 1
      <4>1. n \in 0 .. m /\ n - 1 \in 0 .. m + 1 /\ n - 1 # m + 1
        BY <2>1, <3>3
      <4>2. f[n] = f[n - 1] \o g[s[n]]
        BY <2>2, <3>3, <4>1
      <4>3. h[n] = f[n] /\ h[n - 1] = f[n - 1]
        BY <3>3, <4>1
      <4>. QED
        BY <3>3, <4>2, <4>3
    <3>. QED
      BY <3>1, <3>2, <3>3
  <2>4. h = [n \in 0 .. m + 1 |-> h[n]]
    OBVIOUS
  <2>. HIDE DEF h
  <2>5. Is(h, m + 1)
    BY <2>3, <2>4, Zenon
  <2>6. m + 1 \in Nat
    BY <2>1
  <2>. QED
    BY <2>5, <2>6
<1>. HIDE DEF T
<1>4. T = Nat
  BY <1>1, <1>2, <1>3, NaturalInduction
<1>5. Len(s) \in T
  BY <1>4, LenProperties
<1>. QED
  BY <1>5 DEF T, IsUpTo

LEMMA MappedUpTo ==
  ASSUME NEW S, NEW s \in Seq(S), NEW g
  PROVE  \E f : IsUpTo(f, s, g) /\ Mapped(s, g) = f[Len(s)]
<1> DEFINE upto == CHOOSE f : f = [n \in 0 .. Len(s) |->
                      IF n = 0 THEN <<>> ELSE f[n - 1] \o g[s[n]]]
<1>1. \E f : f = [n \in 0 .. Len(s) |-> IF n = 0 THEN <<>> ELSE f[n - 1] \o g[s[n]]]
  BY UpToExists, Zenon DEF IsUpTo
<1>2. upto = [n \in 0 .. Len(s) |-> IF n = 0 THEN <<>> ELSE upto[n - 1] \o g[s[n]]]
  BY <1>1, Zenon
<1>3. Mapped(s, g) = upto[Len(s)]
  BY DEF Mapped
<1>. HIDE DEF upto
<1>. QED
  BY <1>2, <1>3 DEF IsUpTo

\* What the turns of Mapped give, one by one.
TurnsOf(f, s, g, T) ==
  /\ f[0] = <<>> /\ f[Len(s)] \in Seq(T)
  /\ \A n \in 0 .. Len(s) : f[n] \in Seq(T)
  /\ \A n \in Nat : n + 1 <= Len(s) =>
       f[n + 1] = f[n] \o g[s[n + 1]] /\ g[s[n + 1]] \in Seq(T)

LEMMA UpToTurns ==
  ASSUME NEW S, NEW T, NEW s \in Seq(S), NEW g \in [S -> Seq(T)],
         NEW f, IsUpTo(f, s, g)
  PROVE  TurnsOf(f, s, g, T)
<1>1. Len(s) \in Nat
  BY LenProperties
<1>2. f[0] = <<>>
  <2>1. 0 \in 0 .. Len(s)
    BY <1>1
  <2>. QED
    BY <2>1 DEF IsUpTo
<1>3. ASSUME NEW n \in Nat, n + 1 <= Len(s)
      PROVE  f[n + 1] = f[n] \o g[s[n + 1]] /\ g[s[n + 1]] \in Seq(T)
  <2> DEFINE k == n + 1
  <2>1. k \in 0 .. Len(s) /\ k # 0 /\ k - 1 = n /\ k \in 1 .. Len(s)
    BY <1>1, <1>3
  <2>. HIDE DEF k
  <2>2. f[k] = f[k - 1] \o g[s[k]]
    BY <2>1 DEF IsUpTo
  <2>3. s[k] \in S
    BY <2>1, ElementOfSeq
  <2>4. g[s[k]] \in Seq(T)
    BY <2>3
  <2>5. f[k] = f[n] \o g[s[k]]
    BY <2>1, <2>2
  <2>. QED
    BY <2>4, <2>5 DEF k
<1> DEFINE V == {n \in Nat : n <= Len(s) => f[n] \in Seq(T)}
<1>4. 0 \in V
  <2>1. 0 \in Nat /\ <<>> \in Seq(T)
    OBVIOUS
  <2>. QED
    BY <1>2, <2>1
<1>5. ASSUME NEW n \in V PROVE n + 1 \in V
  <2>1. n \in Nat /\ n + 1 \in Nat
    OBVIOUS
  <2>2. ASSUME n + 1 <= Len(s) PROVE f[n + 1] \in Seq(T)
    <3>1. n <= Len(s)
      BY <1>1, <2>1, <2>2
    <3>2. f[n] \in Seq(T) /\ g[s[n + 1]] \in Seq(T) /\ f[n + 1] = f[n] \o g[s[n + 1]]
      BY <1>3, <2>1, <2>2, <3>1
    <3>. QED
      BY <3>2, ConcatProperties
  <2>. QED
    BY <2>1, <2>2
<1>6. V \in SUBSET Nat
  OBVIOUS
<1>. HIDE DEF V
<1>7. V = Nat
  BY <1>4, <1>5, <1>6, NaturalInduction
<1>8. ASSUME NEW n \in 0 .. Len(s) PROVE f[n] \in Seq(T)
  <2>1. n \in V /\ n <= Len(s)
    BY <1>1, <1>7
  <2>. QED
    BY <2>1 DEF V
<1>9. Len(s) \in 0 .. Len(s)
  BY <1>1
<1>. QED
  BY <1>2, <1>3, <1>8, <1>9 DEF TurnsOf

LEMMA MappedTurns ==
  ASSUME NEW S, NEW T, NEW s \in Seq(S), NEW g \in [S -> Seq(T)]
  PROVE  \E f : TurnsOf(f, s, g, T) /\ Mapped(s, g) = f[Len(s)]
<1>1. PICK f : IsUpTo(f, s, g) /\ Mapped(s, g) = f[Len(s)]
  BY MappedUpTo
<1>2. TurnsOf(f, s, g, T)
  BY <1>1, UpToTurns, Zenon
<1>. QED
  BY <1>1, <1>2

LEMMA MappedInSeq ==
  ASSUME NEW S, NEW T, NEW s \in Seq(S), NEW g \in [S -> Seq(T)]
  PROVE  Mapped(s, g) \in Seq(T)
<1>1. PICK f : TurnsOf(f, s, g, T) /\ Mapped(s, g) = f[Len(s)]
  BY MappedTurns
<1>. QED
  BY <1>1 DEF TurnsOf

LEMMA MappedShort ==
  ASSUME NEW S, NEW T, NEW g \in [S -> Seq(T)]
  PROVE  /\ Mapped(<<>>, g) = <<>>
         /\ \A x \in S : Mapped(<<x>>, g) = g[x]
<1>1. Mapped(<<>>, g) = <<>>
  <2>1. <<>> \in Seq(S) /\ Len(<<>>) = 0
    OBVIOUS
  <2>2. PICK f : TurnsOf(f, <<>>, g, T) /\ Mapped(<<>>, g) = f[Len(<<>>)]
    BY <2>1, MappedTurns
  <2>3. f[0] = <<>>
    BY <2>1, <2>2 DEF TurnsOf
  <2>. QED
    BY <2>1, <2>2, <2>3
<1>2. ASSUME NEW x \in S PROVE Mapped(<<x>>, g) = g[x]
  <2> DEFINE s == <<x>>
  <2>1. s \in Seq(S) /\ Len(s) = 1 /\ s[1] = x
    OBVIOUS
  <2>. HIDE DEF s
  <2>2. PICK f : TurnsOf(f, s, g, T) /\ Mapped(s, g) = f[Len(s)]
    BY <2>1, MappedTurns
  <2>3. /\ f[0] = <<>>
        /\ \A n \in Nat : n + 1 <= Len(s) => f[n + 1] = f[n] \o g[s[n + 1]]
    BY <2>1, <2>2 DEF TurnsOf
  <2>4. 0 \in Nat /\ 0 + 1 = 1 /\ 0 + 1 <= Len(s)
    BY <2>1
  <2>5. f[0 + 1] = f[0] \o g[s[0 + 1]]
    BY <2>3, <2>4
  <2>6. g[x] \in Seq(T)
    OBVIOUS
  <2>7. <<>> \o g[x] = g[x]
    BY <2>6, ConcatEmptySeq
  <2>8. f[1] = g[x]
    BY <2>1, <2>3, <2>4, <2>5, <2>7
  <2>. QED
    BY <2>1, <2>2, <2>8 DEF s
<1>. QED
  BY <1>1, <1>2

\* Mapped goes through a sequence from front to back.
LEMMA MappedConcat ==
  ASSUME NEW S, NEW T, NEW s \in Seq(S), NEW t \in Seq(S), NEW g \in [S -> Seq(T)]
  PROVE  Mapped(s \o t, g) = Mapped(s, g) \o Mapped(t, g)
<1> DEFINE u == s \o t
           m == Len(s)
           k == Len(t)
<1>1. /\ u \in Seq(S) /\ m \in Nat /\ k \in Nat /\ Len(u) = m + k
      /\ \A i \in 1 .. m + k : u[i] = IF i <= m THEN s[i] ELSE t[i - m]
  BY ConcatProperties, LenProperties
<1>2. m = Len(s) /\ k = Len(t)
  OBVIOUS
<1>. HIDE DEF u, m, k
<1>3. PICK a : TurnsOf(a, s, g, T) /\ Mapped(s, g) = a[m]
  BY <1>2, MappedTurns
<1>4. PICK b : TurnsOf(b, t, g, T) /\ Mapped(t, g) = b[k]
  BY <1>2, MappedTurns
<1>5. PICK c : TurnsOf(c, u, g, T) /\ Mapped(u, g) = c[Len(u)]
  BY <1>1, MappedTurns
<1>6. /\ a[0] = <<>> /\ a[m] \in Seq(T)
      /\ \A n \in Nat : n + 1 <= m => a[n + 1] = a[n] \o g[s[n + 1]]
  BY <1>2, <1>3 DEF TurnsOf
<1>7. /\ b[0] = <<>> /\ \A n \in 0 .. k : b[n] \in Seq(T)
      /\ \A n \in Nat : n + 1 <= k => /\ b[n + 1] = b[n] \o g[t[n + 1]]
                                      /\ g[t[n + 1]] \in Seq(T)
  BY <1>2, <1>4 DEF TurnsOf
<1>8. /\ c[0] = <<>>
      /\ \A n \in Nat : n + 1 <= m + k => c[n + 1] = c[n] \o g[u[n + 1]]
  BY <1>1, <1>5 DEF TurnsOf
<1> DEFINE V == {n \in Nat : n <= m => c[n] = a[n]}
           W == {n \in Nat : n <= k => c[m + n] = a[m] \o b[n]}
<1>9. m \in V
  <2>1. 0 \in V
    BY <1>6, <1>8
  <2>2. ASSUME NEW n \in V PROVE n + 1 \in V
    <3>1. n \in Nat /\ n + 1 \in Nat
      OBVIOUS
    <3>2. ASSUME n + 1 <= m PROVE c[n + 1] = a[n + 1]
      <4>1. n <= m /\ n + 1 <= m + k /\ n + 1 \in 1 .. m + k
        BY <1>1, <3>1, <3>2
      <4>2. c[n] = a[n] /\ u[n + 1] = s[n + 1]
        BY <1>1, <3>2, <4>1
      <4>3. c[n + 1] = c[n] \o g[u[n + 1]]
        BY <1>8, <3>1, <4>1
      <4>. QED
        BY <1>6, <3>1, <3>2, <4>2, <4>3
    <3>. QED
      BY <3>1, <3>2
  <2>3. V \in SUBSET Nat
    OBVIOUS
  <2>. HIDE DEF V
  <2>. QED
    BY <1>1, <2>1, <2>2, <2>3, NaturalInduction
<1>10. c[m] = a[m]
  BY <1>1, <1>9
<1>11. k \in W
  <2>1. 0 \in W
    <3>1. m + 0 = m /\ a[m] \o <<>> = a[m]
      BY <1>1, <1>6, ConcatEmptySeq
    <3>. QED
      BY <1>7, <1>10, <3>1
  <2>2. ASSUME NEW n \in W PROVE n + 1 \in W
    <3>1. n \in Nat /\ n + 1 \in Nat
      OBVIOUS
    <3>2. ASSUME n + 1 <= k PROVE c[m + (n + 1)] = a[m] \o b[n + 1]
      <4>1. n <= k /\ n \in 0 .. k /\ m + n \in Nat /\ m + n + 1 <= m + k
        BY <1>1, <3>1, <3>2
      <4>2. m + n + 1 \in 1 .. m + k /\ ~(m + n + 1 <= m) /\ m + n + 1 - m = n + 1
            /\ m + (n + 1) = m + n + 1
        <5>1. m \in Nat /\ k \in Nat
          BY <1>1
        <5>. HIDE DEF m, k
        <5>. QED
          BY <3>1, <4>1, <5>1
      <4>3. u[m + n + 1] = t[n + 1]
        BY <1>1, <4>2
      <4>4. c[m + n + 1] = c[m + n] \o g[t[n + 1]]
        BY <1>8, <4>1, <4>3
      <4>5. c[m + n] = a[m] \o b[n]
        BY <4>1
      <4>6. /\ b[n + 1] = b[n] \o g[t[n + 1]]
            /\ b[n] \in Seq(T) /\ g[t[n + 1]] \in Seq(T) /\ a[m] \in Seq(T)
        BY <1>6, <1>7, <3>1, <3>2, <4>1
      <4> DEFINE x == a[m]
                 y == b[n]
                 z == g[t[n + 1]]
      <4>7. c[m + n + 1] = (x \o y) \o z /\ b[n + 1] = y \o z
        BY <4>4, <4>5, <4>6
      <4>8. x \in Seq(T) /\ y \in Seq(T) /\ z \in Seq(T)
        BY <4>6
      <4>. HIDE DEF x, y, z
      <4>9. (x \o y) \o z = x \o (y \o z)
        BY <4>8, ConcatAssociative
      <4>. QED
        BY <4>2, <4>7, <4>9 DEF x
    <3>. QED
      BY <3>1, <3>2
  <2>3. W \in SUBSET Nat
    OBVIOUS
  <2>. HIDE DEF W
  <2>. QED
    BY <1>1, <2>1, <2>2, <2>3, NaturalInduction
<1>12. c[m + k] = a[m] \o b[k]
  <2>1. k \in Nat /\ k <= k
    BY <1>1
  <2>. QED
    BY <1>11, <2>1
<1>. QED
  BY <1>1, <1>3, <1>4, <1>5, <1>12 DEF u

\* Symbols that give nothing leave nothing.
GivesNothing(S, T, s, g) ==
  s \in Seq(S) /\ g \in [S -> Seq(T)] /\ \A i \in 1 .. Len(s) : g[s[i]] = <<>>

LEMMA MappedToNothing ==
  ASSUME NEW S, NEW T, NEW s, NEW g, GivesNothing(S, T, s, g)
  PROVE  Mapped(s, g) = <<>>
<1>0. /\ s \in Seq(S) /\ g \in [S -> Seq(T)]
      /\ \A i \in 1 .. Len(s) : g[s[i]] = <<>>
  BY DEF GivesNothing
<1>1. PICK f : TurnsOf(f, s, g, T) /\ Mapped(s, g) = f[Len(s)]
  BY <1>0, MappedTurns
<1>2. /\ f[0] = <<>>
      /\ \A n \in Nat : n + 1 <= Len(s) => f[n + 1] = f[n] \o g[s[n + 1]]
  BY <1>1 DEF TurnsOf
<1>3. Len(s) \in Nat
  BY <1>0, LenProperties
<1> DEFINE V == {n \in Nat : n <= Len(s) => f[n] = <<>>}
<1>4. 0 \in V
  BY <1>2
<1>5. ASSUME NEW n \in V PROVE n + 1 \in V
  <2>1. n \in Nat /\ n + 1 \in Nat
    OBVIOUS
  <2>2. ASSUME n + 1 <= Len(s) PROVE f[n + 1] = <<>>
    <3>1. n <= Len(s) /\ n + 1 \in 1 .. Len(s)
      BY <1>3, <2>1, <2>2
    <3>2. f[n] = <<>> /\ g[s[n + 1]] = <<>> /\ f[n + 1] = f[n] \o g[s[n + 1]]
      BY <1>0, <1>2, <2>1, <2>2, <3>1
    <3>3. <<>> \o <<>> = <<>>
      OBVIOUS
    <3>. QED
      BY <3>2, <3>3
  <2>. QED
    BY <2>1, <2>2
<1>6. V \in SUBSET Nat
  OBVIOUS
<1>. HIDE DEF V
<1>7. Len(s) \in V
  BY <1>3, <1>4, <1>5, <1>6, NaturalInduction
<1>. QED
  BY <1>1, <1>3, <1>7 DEF V

\* Symbols that give themselves leave the sequence as it is.
LEMMA MappedToItself ==
  ASSUME NEW S, NEW s \in Seq(S), NEW g \in [S -> Seq(S)],
         \A i \in 1 .. Len(s) : g[s[i]] = <<s[i]>>
  PROVE  Mapped(s, g) = s
<1>1. PICK f : TurnsOf(f, s, g, S) /\ Mapped(s, g) = f[Len(s)]
  BY MappedTurns
<1>2. /\ f[0] = <<>> /\ \A n \in 0 .. Len(s) : f[n] \in Seq(S)
      /\ \A n \in Nat : n + 1 <= Len(s) =>
           f[n + 1] = f[n] \o g[s[n + 1]] /\ g[s[n + 1]] \in Seq(S)
  BY <1>1 DEF TurnsOf
<1>3. Len(s) \in Nat
  BY LenProperties
<1> DEFINE V == {n \in Nat : n <= Len(s) =>
                   Len(f[n]) = n /\ \A i \in 1 .. n : f[n][i] = s[i]}
<1>4. 0 \in V
  <2>1. Len(<<>>) = 0 /\ 0 \in Nat /\ \A i \in 1 .. 0 : FALSE
    OBVIOUS
  <2>. QED
    BY <1>2, <2>1
<1>5. ASSUME NEW n \in V PROVE n + 1 \in V
  <2>1. n \in Nat /\ n + 1 \in Nat
    OBVIOUS
  <2>2. ASSUME n + 1 <= Len(s)
        PROVE  Len(f[n + 1]) = n + 1 /\ \A i \in 1 .. n + 1 : f[n + 1][i] = s[i]
    <3>1. n <= Len(s) /\ n + 1 \in 1 .. Len(s) /\ n \in 0 .. Len(s)
      BY <1>3, <2>1, <2>2
    <3> DEFINE a == f[n]
               x == s[n + 1]
               e == <<x>>
    <3>2. f[n + 1] = a \o e /\ a \in Seq(S) /\ e \in Seq(S)
      BY <1>2, <2>1, <2>2, <3>1
    <3>3. Len(a) = n /\ \A i \in 1 .. n : a[i] = s[i]
      BY <3>1
    <3>4. Len(e) = 1 /\ e[1] = x
      OBVIOUS
    <3>. HIDE DEF a, e, x
    <3>5. /\ Len(a \o e) = n + 1
          /\ \A i \in 1 .. n + 1 : (a \o e)[i] = IF i <= n THEN a[i] ELSE e[i - n]
      <4>1. /\ Len(a \o e) = Len(a) + Len(e)
            /\ \A i \in 1 .. Len(a) + Len(e) :
                 (a \o e)[i] = IF i <= Len(a) THEN a[i] ELSE e[i - Len(a)]
        BY <3>2, ConcatProperties
      <4>. QED
        BY <3>3, <3>4, <4>1
    <3>6. ASSUME NEW i \in 1 .. n + 1 PROVE (a \o e)[i] = s[i]
      <4>1. CASE i <= n
        <5>1. i \in 1 .. n
          BY <2>1, <4>1
        <5>. QED
          BY <3>3, <3>5, <4>1, <5>1
      <4>2. CASE ~(i <= n)
        <5>1. i = n + 1 /\ i - n = 1
          BY <2>1, <4>2
        <5>2. (a \o e)[i] = e[i - n]
          BY <3>5, <4>2
        <5>3. e[1] = s[n + 1]
          BY <3>4 DEF x
        <5>. QED
          BY <5>1, <5>2, <5>3
      <4>. QED
        BY <4>1, <4>2
    <3>. QED
      BY <3>2, <3>5, <3>6
  <2>. QED
    BY <2>1, <2>2
<1>6. V \in SUBSET Nat
  OBVIOUS
<1>. HIDE DEF V
<1>7. Len(s) \in V
  BY <1>3, <1>4, <1>5, <1>6, NaturalInduction
<1>8. Len(f[Len(s)]) = Len(s) /\ \A i \in 1 .. Len(s) : f[Len(s)][i] = s[i]
  BY <1>3, <1>7 DEF V
<1>9. f[Len(s)] \in Seq(S)
  BY <1>2, <1>3
<1>10. f[Len(s)] = s
  BY <1>8, <1>9, SeqEqual
<1>. QED
  BY <1>1, <1>10

-----------------------------------------------------------------------------
(* What is on its way to the reader                                          *)

\* In front of the reader: pending_, the body behind it, and what the server
\* has not sent yet.
Pended == After(pending, pendingPos)

Ahead == Pended \o Rest \o unsent

\* The bytes of envelopes among the symbols.
DataOf == [c \in Symbols |-> IF IsData(c) THEN <<c>> ELSE <<>>]

Data == Mapped(Ahead, DataOf)

\* g passes over chunk framing.
LeavesFramingOut(g, T) ==
  g \in [Symbols -> Seq(T)] /\ \A c \in Symbols : c.is # "byte" => g[c] = <<>>

LEMMA MapsLeaveFramingOut ==
  /\ LeavesFramingOut(EndOf, Frames \cup {None})
  /\ LeavesFramingOut(DataOf, Symbols)
<1>1. ASSUME NEW c \in Symbols
      PROVE  EndOf[c] \in Seq(Frames \cup {None}) /\ (c.is # "byte" => EndOf[c] = <<>>)
  <2>1. c.of \in Frames \cup {None}
    BY DEF Symbols
  <2>2. EndOf[c] = IF c.is = "byte" /\ c.n = EnvelopeSize(c.of) THEN <<c.of>> ELSE <<>>
    BY DEF EndOf
  <2>. HIDE DEF Symbols, None
  <2>3. <<c.of>> \in Seq(Frames \cup {None}) /\ <<>> \in Seq(Frames \cup {None})
    BY <2>1
  <2>. QED
    BY <2>2, <2>3
<1>2. EndOf \in [Symbols -> Seq(Frames \cup {None})]
  <2>1. EndOf = [c \in Symbols |-> EndOf[c]]
    BY DEF EndOf
  <2>. QED
    BY <1>1, <2>1
<1>3. ASSUME NEW c \in Symbols
      PROVE  DataOf[c] \in Seq(Symbols) /\ (c.is # "byte" => DataOf[c] = <<>>)
  <2>1. DataOf[c] = IF IsData(c) THEN <<c>> ELSE <<>>
    BY DEF DataOf
  <2>2. <<c>> \in Seq(Symbols) /\ <<>> \in Seq(Symbols)
    OBVIOUS
  <2>3. c.is # "byte" => ~IsData(c)
    BY DEF IsData
  <2>. QED
    BY <2>1, <2>2, <2>3
<1>4. DataOf \in [Symbols -> Seq(Symbols)]
  <2>1. DataOf = [c \in Symbols |-> DataOf[c]]
    BY DEF DataOf
  <2>. QED
    BY <1>3, <2>1
<1>. QED
  BY <1>1, <1>2, <1>3, <1>4 DEF LeavesFramingOut

LEMMA Join ==
  ASSUME NEW S, NEW T, NEW p \in Seq(S), NEW r \in Seq(S), NEW u \in Seq(S),
         NEW g \in [S -> Seq(T)]
  PROVE  /\ p \o r \o u \in Seq(S)
         /\ Mapped(p \o r \o u, g) = Mapped(p, g) \o Mapped(r, g) \o Mapped(u, g)
<1> DEFINE a == p \o r
<1>1. a \in Seq(S)
  BY ConcatProperties
<1>2. Mapped(a, g) = Mapped(p, g) \o Mapped(r, g)
  BY MappedConcat
<1>. HIDE DEF a
<1>3. a \o u \in Seq(S)
  BY <1>1, ConcatProperties
<1>4. Mapped(a \o u, g) = Mapped(a, g) \o Mapped(u, g)
  BY <1>1, MappedConcat
<1>. QED
  BY <1>2, <1>3, <1>4 DEF a

\* A sequence is its first m elements and the rest.
LEMMA FrontAndRest ==
  ASSUME NEW S, NEW r \in Seq(S), NEW m \in 0 .. Len(r)
  PROVE  r = SubSeq(r, 1, m) \o After(r, m)
<1>1. Len(r) \in Nat
  BY LenProperties
<1>2. 1 \in 1 .. Len(r) + 1 /\ m \in 1 - 1 .. Len(r) /\ Len(r) \in m .. Len(r)
  BY <1>1
<1>3. SubSeq(r, 1, m) \o SubSeq(r, m + 1, Len(r)) = SubSeq(r, 1, Len(r))
  BY <1>2, ConcatAdjacentSubSeq
<1>. QED
  BY <1>3, SubSeqFull DEF After

LEMMA PartIsTheRest ==
  ASSUME NEW S, NEW r \in Seq(S), NEW t \in Seq(S), NEW m,
         IsPart(t, r, m), Len(t) + m = Len(r)
  PROVE  m \in 0 .. Len(r) /\ r = SubSeq(r, 1, m) \o t
<1>1. Len(r) \in Nat /\ Len(t) \in Nat /\ m \in Nat
  BY LenProperties DEF IsPart
<1>2. m \in 0 .. Len(r) /\ Len(r) - m = Len(t)
  BY <1>1
<1>3. /\ After(r, m) \in Seq(S) /\ Len(After(r, m)) = Len(t)
      /\ \A q \in 1 .. Len(t) : After(r, m)[q] = r[q + m]
  BY <1>2, AfterProperties
<1>4. \A q \in 1 .. Len(t) : After(r, m)[q] = t[q]
  BY <1>3 DEF IsPart
<1>5. After(r, m) = t
  BY <1>3, <1>4, SeqEqual
<1>. QED
  BY <1>2, <1>5, FrontAndRest

\* What is read over between chunks gives nothing.
LEMMA FramingGivesNothing ==
  ASSUME NEW T, NEW g, LeavesFramingOut(g, T), NEW r \in Seq(Symbols),
         \A q \in 1 .. Len(r) : r[q].is # "byte"
  PROVE  Mapped(r, g) = <<>>
<1>1. \A q \in 1 .. Len(r) : r[q] \in Symbols
  BY ElementOfSeq
<1>2. g \in [Symbols -> Seq(T)] /\ \A q \in 1 .. Len(r) : g[r[q]] = <<>>
  BY <1>1 DEF LeavesFramingOut
<1>3. GivesNothing(Symbols, T, r, g)
  BY <1>2 DEF GivesNothing
<1>. QED
  BY <1>3, MappedToNothing

LEMMA FramingReadOver ==
  ASSUME NEW T, NEW g, LeavesFramingOut(g, T), NEW r \in Seq(Symbols),
         NEW t \in Seq(Symbols), NEW m, IsPart(t, r, m), Len(t) + m = Len(r),
         \A q \in 1 .. m : r[q].is # "byte"
  PROVE  Mapped(r, g) = Mapped(t, g)
<1> DEFINE x == SubSeq(r, 1, m)
<1>1. m \in 0 .. Len(r) /\ r = x \o t
  BY PartIsTheRest
<1>2. x \in Seq(Symbols) /\ Len(x) = m /\ \A q \in 1 .. m : x[q] = r[q]
  BY <1>1, FrontProperties
<1>. HIDE DEF x
<1>3. g \in [Symbols -> Seq(T)]
  BY DEF LeavesFramingOut
<1>4. \A q \in 1 .. Len(x) : x[q].is # "byte"
  BY <1>2
<1>5. Mapped(x, g) = <<>>
  BY <1>2, <1>4, FramingGivesNothing
<1>6. Mapped(x \o t, g) = Mapped(x, g) \o Mapped(t, g) /\ Mapped(t, g) \in Seq(T)
  BY <1>2, <1>3, MappedConcat, MappedInSeq
<1>7. <<>> \o Mapped(t, g) = Mapped(t, g)
  BY <1>6, ConcatEmptySeq
<1>. QED
  BY <1>1, <1>5, <1>6, <1>7

\* pending_, the body and the unsent bytes are sequences of symbols.
LEMMA AheadIsTyped ==
  /\ StreamInv => /\ Pended \in Seq(Symbols) /\ Rest \in Seq(Symbols)
                  /\ unsent \in Seq(Symbols)
  /\ StreamInv' => /\ Pended' \in Seq(Symbols) /\ Rest' \in Seq(Symbols)
                   /\ unsent' \in Seq(Symbols)
<1>1. ASSUME StreamInv
      PROVE  Pended \in Seq(Symbols) /\ Rest \in Seq(Symbols) /\ unsent \in Seq(Symbols)
  <2>1. /\ pending \in Seq(Symbols) /\ pendingPos \in 0 .. Len(pending)
        /\ buf \in Seq(Symbols) /\ bufPos \in 0 .. Len(buf) /\ wire \in Seq(Symbols)
        /\ unsent \in Seq(Symbols)
    BY <1>1 DEF StreamInv, InvPending, InvBuf, InvUnsent
  <2>. HIDE DEF Symbols
  <2>2. After(pending, pendingPos) \in Seq(Symbols)
    BY <2>1, AfterProperties
  <2>3. Body(buf, bufPos, wire) \in Seq(Symbols)
    BY <2>1, BodyProperties DEF Spells
  <2>. QED
    BY <2>1, <2>2, <2>3 DEF Pended, Rest
<1>2. ASSUME StreamInv'
      PROVE  /\ Pended' \in Seq(Symbols) /\ Rest' \in Seq(Symbols)
             /\ unsent' \in Seq(Symbols)
  <2>1. /\ pending' \in Seq(Symbols) /\ pendingPos' \in 0 .. Len(pending')
        /\ buf' \in Seq(Symbols) /\ bufPos' \in 0 .. Len(buf')
        /\ wire' \in Seq(Symbols) /\ unsent' \in Seq(Symbols)
    BY <1>2 DEF StreamInv, InvPending, InvBuf, InvUnsent
  <2>. HIDE DEF Symbols
  <2>2. After(pending', pendingPos') \in Seq(Symbols)
    BY <2>1, AfterProperties
  <2>3. Body(buf', bufPos', wire') \in Seq(Symbols)
    BY <2>1, BodyProperties DEF Spells
  <2>. QED
    BY <2>1, <2>2, <2>3 DEF Pended, Rest
<1>. QED
  BY <1>1, <1>2

LEMMA MappedAhead ==
  ASSUME NEW T, NEW g, LeavesFramingOut(g, T)
  PROVE  /\ StreamInv =>
              /\ Ahead \in Seq(Symbols)
              /\ Mapped(Ahead, g) = Mapped(Pended, g) \o Mapped(Rest, g) \o Mapped(unsent, g)
         /\ StreamInv' =>
              /\ Ahead' \in Seq(Symbols)
              /\ Mapped(Ahead', g) = Mapped(Pended', g) \o Mapped(Rest', g) \o Mapped(unsent', g)
<1>1. g \in [Symbols -> Seq(T)]
  BY DEF LeavesFramingOut
<1>. HIDE DEF Symbols
<1>2. ASSUME StreamInv
      PROVE  /\ Ahead \in Seq(Symbols)
             /\ Mapped(Ahead, g) = Mapped(Pended, g) \o Mapped(Rest, g) \o Mapped(unsent, g)
  <2>1. Pended \in Seq(Symbols) /\ Rest \in Seq(Symbols) /\ unsent \in Seq(Symbols)
    BY <1>2, AheadIsTyped
  <2>. QED
    BY <1>1, <2>1, Join DEF Ahead
<1>3. ASSUME StreamInv'
      PROVE  /\ Ahead' \in Seq(Symbols)
             /\ Mapped(Ahead', g) = Mapped(Pended', g) \o Mapped(Rest', g) \o Mapped(unsent', g)
  <2>1. Pended' \in Seq(Symbols) /\ Rest' \in Seq(Symbols) /\ unsent' \in Seq(Symbols)
    BY <1>3, AheadIsTyped
  <2>. QED
    BY <1>1, <2>1, Join DEF Ahead
<1>. QED
  BY <1>2, <1>3

\* Lines between chunks are read over.
LEMMA LinesAreReadOver ==
  ASSUME StreamInv, StreamInv', SkipsBlankLine \/ ReadsSizeLine,
         NEW T, NEW g, LeavesFramingOut(g, T)
  PROVE  Mapped(Ahead', g) = Mapped(Ahead, g)
<1>1. /\ InvBuf /\ InvBody /\ HasLine /\ UNCHANGED <<buf, wire, unsent>>
      /\ Pended' = Pended
  BY DEF StreamInv, SkipsBlankLine, ReadsSizeLine, readVars, sendVars, Pended
<1>2. /\ Len(Buffered) \in Nat /\ Len(Buffered) >= 1
      /\ Rest[1] # LineEnd => Len(Buffered) >= 2
      /\ Len(Rest) \in Nat /\ Head(Buffered) = Rest[1]
      /\ Len(Rest) = Len(Buffered) + Len(wire) /\ Len(wire) \in Nat
  BY <1>1, LinesAreWhole, HeadOfRest, RestProperties
<1>3. Rest \in Seq(Symbols) /\ Rest' \in Seq(Symbols)
  BY AheadIsTyped
<1>4. Mapped(Rest, g) = Mapped(Rest', g)
  <2>1. CASE SkipsBlankLine
    <3>1. Rest[1].is # "byte" /\ bufPos' = bufPos + 1
      BY <1>2, <2>1 DEF SkipsBlankLine, LineEnd
    <3>2. 1 \in 0 .. Len(Buffered)
      BY <1>2
    <3>3. IsPart(Rest', Rest, 1) /\ Len(Rest') + 1 = Len(Rest)
      BY <1>1, <3>1, <3>2, Advancing
    <3>4. \A q \in 1 .. 1 : Rest[q].is # "byte"
      BY <3>1
    <3>. QED
      BY <1>3, <3>3, <3>4, FramingReadOver
  <2>2. CASE ReadsSizeLine
    <3>1. needSize = TRUE /\ Rest[1].n > 0 /\ bufPos' = bufPos + 2
      BY <1>1, <1>2, <2>2 DEF ReadsSizeLine, InvBody
    <3>2. Rest[1].is = "size"
      <4>1. 1 <= Len(Rest)
        BY <1>2
      <4>2. Rest[1].is = "size" \/ Rest[1] = LineEnd
        BY <1>1, <3>1, <4>1 DEF InvBody, Begins, EndsAt
      <4>. QED
        BY <3>1, <4>2 DEF LineEnd
    <3>3. Rest[1] # LineEnd
      BY <3>2 DEF LineEnd
    <3>4. 2 \in 0 .. Len(Buffered) /\ 1 \in 1 .. Len(Rest) /\ 1 + 1 <= Len(Rest)
      BY <1>2, <3>3
    <3>5. IsPart(Rest', Rest, 2) /\ Len(Rest') + 2 = Len(Rest)
      BY <1>1, <3>1, <3>4, Advancing
    <3>6. Rest[1 + 1] = LineEnd
      BY <1>1, <3>2, <3>4 DEF InvBody, Chunks
    <3>7. \A q \in 1 .. 2 : Rest[q].is # "byte"
      <4>1. Rest[1].is # "byte" /\ Rest[2].is # "byte"
        BY <3>2, <3>6 DEF LineEnd
      <4>2. \A q \in 1 .. 2 : q = 1 \/ q = 2
        OBVIOUS
      <4>. QED
        BY <4>1, <4>2
    <3>. QED
      BY <1>3, <3>5, <3>7, FramingReadOver
  <2>. QED
    BY <2>1, <2>2
<1>. QED
  BY <1>1, <1>4, MappedAhead

InOneSeq(S, p, r, u) == p \in Seq(S) /\ r \in Seq(S) /\ u \in Seq(S)

LEMMA Regrouped ==
  ASSUME NEW S, NEW p, NEW r, NEW u, InOneSeq(S, p, r, u)
  PROVE  (p \o r) \o u = p \o (r \o u)
  BY ConcatAssociative DEF InOneSeq

\* The data of a chunk moves to pending_.
LEMMA DataMovesToPending ==
  ASSUME StreamInv, StreamInv', ReadsChunkData
  PROVE  Ahead' = Ahead
<1>1. /\ InvBuf /\ InvBody /\ InvPending /\ UNCHANGED <<buf, wire, unsent, pendingPos>>
      /\ pending' = pending \o SubSeq(Buffered, 1, Takes) /\ bufPos' = bufPos + Takes
  BY DEF StreamInv, ReadsChunkData, sendVars
<1>2. Takes \in 0 .. Len(Buffered) /\ Takes \in Nat
  BY <1>1, TakesProperties
<1>. HIDE DEF Takes, Symbols
<1>3. IsPart(Rest', Rest, Takes) /\ Len(Rest') + Takes = Len(Rest)
  BY <1>1, <1>2, Advancing
<1>4. /\ Rest \in Seq(Symbols) /\ Rest' \in Seq(Symbols) /\ Pended \in Seq(Symbols)
      /\ Buffered \in Seq(Symbols) /\ Len(Buffered) \in Nat
      /\ Len(Rest) = Len(Buffered) + Len(wire) /\ Len(wire) \in Nat
      /\ \A q \in 1 .. Len(Buffered) : Rest[q] = Buffered[q]
  BY <1>1, AheadIsTyped, RestProperties
<1> DEFINE c == SubSeq(Buffered, 1, Takes)
<1>5. c \in Seq(Symbols) /\ Len(c) = Takes /\ \A q \in 1 .. Takes : c[q] = Buffered[q]
  BY <1>2, <1>4, FrontProperties
<1>6. Takes \in 0 .. Len(Rest) /\ Rest = SubSeq(Rest, 1, Takes) \o Rest'
  BY <1>3, <1>4, PartIsTheRest
<1>7. c = SubSeq(Rest, 1, Takes)
  <2> DEFINE d == SubSeq(Rest, 1, Takes)
  <2>1. d \in Seq(Symbols) /\ Len(d) = Takes /\ \A q \in 1 .. Takes : d[q] = Rest[q]
    BY <1>4, <1>6, FrontProperties
  <2>. HIDE DEF c, d
  <2>2. \A q \in 1 .. Len(c) : c[q] = d[q]
    <3> TAKE q \in 1 .. Len(c)
    <3>1. q \in 1 .. Takes /\ q \in 1 .. Len(Buffered)
      BY <1>2, <1>4, <1>5
    <3>. QED
      BY <1>4, <1>5, <2>1, <3>1
  <2>3. c = d
    BY <1>5, <2>1, <2>2, SeqEqual
  <2>. QED
    BY <2>3 DEF d
<1>8. Pended' = Pended \o c
  <2>1. /\ pending \in Seq(Symbols) /\ pendingPos \in 0 .. Len(pending)
    BY <1>1 DEF InvPending
  <2>2. pending' = pending \o c
    BY <1>1
  <2>. HIDE DEF c
  <2>3. Len(c) \in Nat /\ Len(c) \in 0 .. Len(c)
    BY <1>5, LenProperties
  <2>4. SubSeq(c, 1, Len(c)) = c
    BY <1>5, SubSeqFull
  <2>5. IsFilled(pending', pending, c, Len(c))
    BY <2>2, <2>4 DEF IsFilled
  <2>6. /\ pending' \in Seq(Symbols) /\ pendingPos \in 0 .. Len(pending')
        /\ Body(pending', pendingPos, After(c, Len(c))) = Body(pending, pendingPos, c)
    BY <1>5, <2>1, <2>3, <2>5, BodyFilled
  <2>7. After(c, Len(c)) \in Seq(Symbols) /\ Len(After(c, Len(c))) = Len(c) - Len(c)
    BY <1>5, <2>3, AfterProperties
  <2>8. After(c, Len(c)) = <<>>
    BY <2>3, <2>7, EmptySeq
  <2>9. After(pending', pendingPos) \in Seq(Symbols)
    BY <2>6, AfterProperties
  <2>10. After(pending', pendingPos) \o <<>> = After(pending', pendingPos)
    BY <2>9, ConcatEmptySeq
  <2>11. After(pending', pendingPos) = After(pending, pendingPos) \o c
    BY <2>6, <2>8, <2>10 DEF Body
  <2>. QED
    BY <1>1, <2>11 DEF Pended
<1>. HIDE DEF c
<1>9. (Pended \o c) \o Rest' = Pended \o (c \o Rest')
  <2>1. Pended \in Seq(Symbols) /\ c \in Seq(Symbols) /\ Rest' \in Seq(Symbols)
    BY <1>4, <1>5
  <2>. QED
    <3>1. InOneSeq(Symbols, Pended, c, Rest')
      BY <2>1 DEF InOneSeq
    <3>. QED
      BY <3>1, Regrouped
<1>10. Pended' \o Rest' = Pended \o Rest
  BY <1>6, <1>7, <1>8, <1>9
<1>. QED
  BY <1>1, <1>10 DEF Ahead

LEMMA FillingKeepsAhead ==
  ASSUME StreamInv, Receives \/ TimesOut
  PROVE  Ahead' = Ahead
<1>1. Rest' = Rest
  BY FillKeepsRest DEF StreamInv
<1>2. Pended' = Pended /\ unsent' = unsent
  BY DEF Receives, TimesOut, readVars, sendVars, Pended
<1>. QED
  BY <1>1, <1>2 DEF Ahead

\* The server's next envelope comes last.
LEMMA PublishingAppends ==
  ASSUME StreamInv, NEW f \in Frames, ServerPublishes(f)
  PROVE  /\ Envelope(f) \in Seq(Symbols) /\ Len(Envelope(f)) = EnvelopeSize(f)
         /\ \A k \in 1 .. EnvelopeSize(f) : Envelope(f)[k] = ByteAt(f, k)
         /\ Ahead' = Ahead \o Envelope(f)
<1> DEFINE e == Envelope(f)
           n == EnvelopeSize(f)
<1>1. n \in Nat
  BY StreamAssumption DEF EnvelopeSize
<1>2. \A k \in 1 .. n : ByteAt(f, k) \in Symbols
  BY <1>1 DEF ByteAt, Symbols
<1>3. e = [k \in 1 .. n |-> ByteAt(f, k)]
  BY DEF Envelope
<1>4. /\ Pended \in Seq(Symbols) /\ Rest \in Seq(Symbols) /\ unsent \in Seq(Symbols)
  BY AheadIsTyped
<1>. HIDE DEF n, e, Symbols
<1>5. e \in Seq(Symbols) /\ Len(e) = n /\ \A k \in 1 .. n : e[k] = ByteAt(f, k)
  BY <1>1, <1>2, <1>3
<1>6. unsent' = unsent \o e /\ Pended' = Pended /\ Rest' = Rest
  BY DEF ServerPublishes, readVars, bodyVars, Pended, Rest, e
<1>7. Pended \o Rest \in Seq(Symbols)
  BY <1>4, ConcatProperties
<1>8. ((Pended \o Rest) \o unsent) \o e = (Pended \o Rest) \o (unsent \o e)
  <2>1. Pended \o Rest \in Seq(Symbols) /\ unsent \in Seq(Symbols) /\ e \in Seq(Symbols)
    BY <1>4, <1>5, <1>7
  <2>. QED
    <3>1. InOneSeq(Symbols, Pended \o Rest, unsent, e)
      BY <2>1 DEF InOneSeq
    <3>. QED
      BY <3>1, Regrouped
<1>9. Ahead' = Ahead \o e
  BY <1>6, <1>8 DEF Ahead
<1>. QED
  BY <1>5, <1>9 DEF e, n

\* Cutting the unsent bytes into chunks adds framing only.
LEMMA SendingAddsFraming ==
  ASSUME StreamInv, StreamInv', ServerSendsChunk \/ ServerFinishes,
         NEW T, NEW g, LeavesFramingOut(g, T)
  PROVE  Mapped(Ahead', g) = Mapped(Ahead, g)
<1>1. /\ Pended \in Seq(Symbols) /\ Rest \in Seq(Symbols) /\ unsent \in Seq(Symbols)
      /\ wire \in Seq(Symbols) /\ buf \in Seq(Symbols) /\ bufPos \in 0 .. Len(buf)
      /\ Pended' = Pended /\ UNCHANGED <<buf, bufPos>>
  BY AheadIsTyped DEF StreamInv, InvBuf, ServerSendsChunk, ServerFinishes, readVars,
     bodyVars, Pended
<1>2. g \in [Symbols -> Seq(T)]
  BY DEF LeavesFramingOut
<1>3. LineEnd \in Symbols /\ LineEnd.is # "byte"
      /\ \A k \in Nat : ChunkSize(k) \in Symbols /\ ChunkSize(k).is # "byte"
  BY DEF LineEnd, ChunkSize, Symbols
<1>. HIDE DEF Symbols
<1>4. ASSUME NEW x \in Seq(Symbols), wire' = wire \o x
      PROVE  Mapped(Rest', g) = Mapped(Rest, g) \o Mapped(x, g)
  <2> DEFINE a == After(buf, bufPos)
  <2>1. a \in Seq(Symbols)
    BY <1>1, AfterProperties
  <2>2. Rest = a \o wire /\ Rest' = a \o (wire \o x)
    BY <1>1, <1>4 DEF Rest, Body
  <2>. HIDE DEF a
  <2>3. a \o (wire \o x) = (a \o wire) \o x
    <3>1. a \in Seq(Symbols) /\ wire \in Seq(Symbols) /\ x \in Seq(Symbols)
      BY <1>1, <2>1
    <3>. QED
      <4>1. InOneSeq(Symbols, a, wire, x)
        BY <3>1 DEF InOneSeq
      <4>. QED
        BY <4>1, Regrouped
  <2>4. Rest' = Rest \o x
    BY <2>2, <2>3
  <2>5. Mapped(Rest \o x, g) = Mapped(Rest, g) \o Mapped(x, g)
    <3>1. Rest \in Seq(Symbols)
      BY <1>1
    <3>. QED
      BY <1>2, <1>4, <3>1, MappedConcat
  <2>. QED
    BY <2>4, <2>5
<1>5. /\ Mapped(Pended, g) \in Seq(T) /\ Mapped(Rest, g) \in Seq(T)
      /\ Mapped(unsent, g) \in Seq(T)
  BY <1>1, <1>2, MappedInSeq
<1>6. CASE ServerSendsChunk
  <2>1. PICK k \in 1 .. Len(unsent) :
          /\ wire' = wire \o <<ChunkSize(k), LineEnd>>
                          \o SubSeq(unsent, 1, k) \o <<LineEnd>>
          /\ unsent' = After(unsent, k)
    BY <1>6 DEF ServerSendsChunk
  <2>2. k \in 0 .. Len(unsent) /\ k \in Nat
    BY <1>1, LenProperties
  <2> DEFINE h == <<ChunkSize(k), LineEnd>>
             d == SubSeq(unsent, 1, k)
             e == <<LineEnd>>
             u == After(unsent, k)
  <2>3. h \in Seq(Symbols) /\ Len(h) = 2 /\ h[1] = ChunkSize(k) /\ h[2] = LineEnd
        /\ e \in Seq(Symbols) /\ Len(e) = 1 /\ e[1] = LineEnd
    BY <1>3, <2>2
  <2>4. d \in Seq(Symbols) /\ u \in Seq(Symbols) /\ unsent = d \o u
    BY <1>1, <2>2, FrontProperties, AfterProperties, FrontAndRest
  <2>5. wire' = ((wire \o h) \o d) \o e /\ unsent' = u
    BY <2>1
  <2>. HIDE DEF h, d, e, u
  <2>6. (\A q \in 1 .. Len(h) : h[q].is # "byte") /\ (\A q \in 1 .. Len(e) : e[q].is # "byte")
    <3>1. \A q \in 1 .. 2 : q = 1 \/ q = 2
      OBVIOUS
    <3>2. \A q \in 1 .. 1 : q = 1
      OBVIOUS
    <3>. QED
      BY <1>3, <2>2, <2>3, <3>1, <3>2
  <2>7. Mapped(h, g) = <<>> /\ Mapped(e, g) = <<>>
    BY <2>3, <2>6, FramingGivesNothing
  <2> DEFINE x == (h \o d) \o e
  <2>8. wire' = wire \o x /\ x \in Seq(Symbols)
    <3>1. wire \in Seq(Symbols) /\ h \in Seq(Symbols) /\ d \in Seq(Symbols)
          /\ e \in Seq(Symbols)
      BY <1>1, <2>3, <2>4
    <3> DEFINE y == h \o d
    <3>2. y \in Seq(Symbols)
      BY <3>1, ConcatProperties
    <3>3. (wire \o h) \o d = wire \o y
      <4>1. InOneSeq(Symbols, wire, h, d)
        BY <3>1 DEF InOneSeq
      <4>. QED
        BY <4>1, Regrouped
    <3>. HIDE DEF y
    <3>4. (wire \o y) \o e = wire \o (y \o e)
      <4>1. InOneSeq(Symbols, wire, y, e)
        BY <3>1, <3>2 DEF InOneSeq
      <4>. QED
        BY <4>1, Regrouped
    <3>5. y \o e \in Seq(Symbols)
      BY <3>1, <3>2, ConcatProperties
    <3>. QED
      BY <2>5, <3>3, <3>4, <3>5 DEF y
  <2>9. Mapped(x, g) = Mapped(d, g) /\ Mapped(d, g) \in Seq(T)
    <3>1. Mapped(x, g) = Mapped(h, g) \o Mapped(d, g) \o Mapped(e, g)
      BY <1>2, <2>3, <2>4, Join
    <3>2. Mapped(d, g) \in Seq(T)
      BY <1>2, <2>4, MappedInSeq
    <3>3. <<>> \o Mapped(d, g) = Mapped(d, g) /\ Mapped(d, g) \o <<>> = Mapped(d, g)
      BY <3>2, ConcatEmptySeq
    <3>. QED
      BY <2>7, <3>1, <3>2, <3>3
  <2>. HIDE DEF x
  <2>10. Mapped(Rest', g) = Mapped(Rest, g) \o Mapped(d, g)
    BY <1>4, <2>8, <2>9
  <2>11. Mapped(unsent, g) = Mapped(d, g) \o Mapped(u, g) /\ Mapped(u, g) \in Seq(T)
    BY <1>2, <2>4, MappedConcat, MappedInSeq
  <2> DEFINE P == Mapped(Pended, g)
             R == Mapped(Rest, g)
             D == Mapped(d, g)
             U == Mapped(u, g)
  <2>12. Mapped(Ahead', g) = P \o (R \o D) \o U /\ Mapped(Ahead, g) = P \o R \o (D \o U)
    BY <1>1, <2>5, <2>10, <2>11, MappedAhead
  <2>13. P \in Seq(T) /\ R \in Seq(T) /\ D \in Seq(T) /\ U \in Seq(T)
    BY <1>5, <2>9, <2>11
  <2>. HIDE DEF P, R, D, U
  <2> DEFINE Q == P \o R
  <2>14. Q \in Seq(T)
    BY <2>13, ConcatProperties
  <2>15. P \o (R \o D) = Q \o D
    <3>1. InOneSeq(T, P, R, D)
      BY <2>13 DEF InOneSeq
    <3>. QED
      BY <3>1, Regrouped
  <2>16. Mapped(Ahead', g) = Q \o D \o U /\ Mapped(Ahead, g) = Q \o (D \o U)
    BY <2>12, <2>15
  <2>. HIDE DEF Q
  <2>17. (Q \o D) \o U = Q \o (D \o U)
    <3>1. InOneSeq(T, Q, D, U)
      BY <2>13, <2>14 DEF InOneSeq
    <3>. QED
      BY <3>1, Regrouped
  <2>. QED
    BY <2>16, <2>17
<1>7. CASE ServerFinishes
  <2> DEFINE x == <<ChunkSize(0), LineEnd, LineEnd>>
  <2>1. x \in Seq(Symbols) /\ Len(x) = 3 /\ x[1] = ChunkSize(0) /\ x[2] = LineEnd
        /\ x[3] = LineEnd
    BY <1>3
  <2>2. wire' = wire \o x /\ unsent' = unsent
    BY <1>7 DEF ServerFinishes
  <2>. HIDE DEF x
  <2>3. \A q \in 1 .. Len(x) : x[q].is # "byte"
    <3>1. \A q \in 1 .. 3 : q = 1 \/ q = 2 \/ q = 3
      OBVIOUS
    <3>. QED
      BY <1>3, <2>1, <3>1
  <2>4. Mapped(x, g) = <<>>
    BY <2>1, <2>3, FramingGivesNothing
  <2>5. Mapped(Rest', g) = Mapped(Rest, g)
    <3>1. Mapped(Rest, g) \o <<>> = Mapped(Rest, g)
      BY <1>5, ConcatEmptySeq
    <3>. QED
      BY <1>4, <2>1, <2>2, <2>4, <3>1
  <2>. QED
    BY <1>1, <2>2, <2>5, MappedAhead
<1>. QED
  BY <1>6, <1>7

\* What a broken connection loses is the last part of what was ahead.
LEMMA BreakingCutsOff ==
  ASSUME StreamInv, StreamInv', ConnectionBreaks
  PROVE  /\ Ahead' \in Seq(Symbols) /\ \E y \in Seq(Symbols) : Ahead = Ahead' \o y
         /\ \E v \in Seq(Symbols) : Rest = Rest' \o v
<1>1. PICK n \in 0 .. Len(wire) : wire' = SubSeq(wire, 1, n)
  BY DEF ConnectionBreaks
<1>2. /\ Pended' = Pended /\ UNCHANGED <<buf, bufPos>> /\ unsent' = <<>>
  BY DEF ConnectionBreaks, readVars, bodyVars, Pended
<1>3. /\ Pended \in Seq(Symbols) /\ unsent \in Seq(Symbols) /\ wire \in Seq(Symbols)
      /\ buf \in Seq(Symbols) /\ bufPos \in 0 .. Len(buf) /\ Rest' \in Seq(Symbols)
  BY AheadIsTyped DEF StreamInv, InvBuf
<1> DEFINE a == After(buf, bufPos)
           v == After(wire, n)
           w == SubSeq(wire, 1, n)
<1>. HIDE DEF Symbols
<1>4. a \in Seq(Symbols) /\ v \in Seq(Symbols) /\ w \in Seq(Symbols) /\ wire = w \o v
  BY <1>3, AfterProperties, FrontProperties, FrontAndRest
<1>5. Rest = a \o wire /\ Rest' = a \o w
  BY <1>1, <1>2 DEF Rest, Body
<1>. HIDE DEF a, v, w
<1>6. Rest = Rest' \o v
  <2>1. (a \o w) \o v = a \o (w \o v)
    <3>1. InOneSeq(Symbols, a, w, v)
      BY <1>4 DEF InOneSeq
    <3>. QED
      BY <3>1, Regrouped
  <2>. QED
    BY <1>4, <1>5, <2>1
<1> DEFINE x == Pended \o Rest'
           y == v \o unsent
<1>7. x \in Seq(Symbols) /\ y \in Seq(Symbols)
  BY <1>3, <1>4, ConcatProperties
<1>8. Pended \o Rest = x \o v
  <2>1. Pended \in Seq(Symbols) /\ Rest' \in Seq(Symbols) /\ v \in Seq(Symbols)
    BY <1>3, <1>4
  <2>2. (Pended \o Rest') \o v = Pended \o (Rest' \o v)
    <3>1. InOneSeq(Symbols, Pended, Rest', v)
      BY <2>1 DEF InOneSeq
    <3>. QED
      BY <3>1, Regrouped
  <2>. QED
    BY <1>6, <2>2
<1>9. Ahead' = x
  <2>1. Ahead' = x \o <<>>
    BY <1>2 DEF Ahead
  <2>. HIDE DEF x
  <2>. QED
    BY <1>7, <2>1, ConcatEmptySeq
<1>10. Ahead = x \o y
  <2>1. Ahead = (x \o v) \o unsent
    BY <1>8 DEF Ahead
  <2>. HIDE DEF x
  <2>2. x \in Seq(Symbols) /\ v \in Seq(Symbols) /\ unsent \in Seq(Symbols)
    BY <1>3, <1>4, <1>7
  <2>3. (x \o v) \o unsent = x \o (v \o unsent)
    <3>1. InOneSeq(Symbols, x, v, unsent)
      BY <2>2 DEF InOneSeq
    <3>. QED
      BY <3>1, Regrouped
  <2>. QED
    BY <2>1, <2>3
<1>. HIDE DEF x, y
<1>. QED
  BY <1>4, <1>6, <1>7, <1>9, <1>10

-----------------------------------------------------------------------------
(* Envelopes one behind the other                                            *)

\* The last byte of an envelope.
IsEnd(c) == c.n = EnvelopeSize(c.of)

\* b is the byte after a.
Follows(b, a) ==
  IF IsEnd(a) THEN b.n = 1 ELSE b = ByteAt(a.of, a.n + 1)

\* Whole envelopes, but for the last, which may not have come to its end.
Framed(d) ==
  /\ d \in Seq(Symbols)
  /\ \A i \in 1 .. Len(d) : IsData(d[i]) /\ d[i].n \in 1 .. EnvelopeSize(d[i].of)
  /\ d # <<>> => d[1].n = 1
  /\ \A i \in 1 .. Len(d) - 1 : Follows(d[i + 1], d[i])

EndsWhole(d) == d # <<>> => IsEnd(d[Len(d)])

\* The first bytes are those of the first envelope.
LEMMA FramedFront ==
  ASSUME NEW d, Framed(d), d # <<>>, NEW f, f = d[1].of
  PROVE  /\ f \in Frames /\ Len(d) \in Nat \ {0}
         /\ \A k \in 1 .. EnvelopeSize(f) : k <= Len(d) => d[k] = ByteAt(f, k)
<1>1. d \in Seq(Symbols) /\ Len(d) \in Nat \ {0}
  BY EmptySeq DEF Framed
<1>2. 1 \in 1 .. Len(d)
  BY <1>1
<1>3. f \in Frames /\ d[1] = ByteAt(f, 1)
  <2>1. d[1] \in Symbols
    BY <1>1, <1>2, ElementOfSeq
  <2>2. IsData(d[1]) /\ d[1].n = 1
    BY <1>2 DEF Framed
  <2>. QED
    BY <2>1, <2>2 DEF IsData, Symbols, ByteAt
<1> DEFINE n == EnvelopeSize(f)
           V == {k \in Nat : k + 1 <= n /\ k + 1 <= Len(d) => d[k + 1] = ByteAt(f, k + 1)}
<1>4. n \in Nat
  BY <1>3, StreamAssumption DEF EnvelopeSize
<1>5. 0 \in V
  <2>1. 0 + 1 = 1
    OBVIOUS
  <2>. QED
    BY <1>3, <2>1
<1>6. ASSUME NEW j \in V PROVE j + 1 \in V
  <2> DEFINE k == j + 1
  <2>1. j \in Nat /\ k \in Nat /\ k = j + 1
    OBVIOUS
  <2>2. k <= n /\ k <= Len(d) => d[k] = ByteAt(f, k)
    OBVIOUS
  <2>. HIDE DEF k
  <2>3. ASSUME k + 1 <= n, k + 1 <= Len(d) PROVE d[k + 1] = ByteAt(f, k + 1)
    <3>1. k \in 1 .. Len(d) - 1 /\ k # n /\ k <= n /\ k <= Len(d)
      BY <1>1, <1>4, <2>1, <2>3
    <3>2. d[k] = ByteAt(f, k)
      BY <2>2, <3>1
    <3>3. d[k].of = f /\ d[k].n = k
      BY <3>2 DEF ByteAt
    <3>4. ~IsEnd(d[k])
      BY <3>1, <3>3 DEF IsEnd
    <3>. QED
      BY <3>1, <3>3, <3>4 DEF Framed, Follows
  <2>. HIDE DEF n
  <2>4. k \in V
    BY <2>1, <2>3
  <2>. QED
    BY <2>4 DEF k
<1>7. V \in SUBSET Nat
  OBVIOUS
<1>. HIDE DEF V
<1>8. V = Nat
  BY <1>5, <1>6, <1>7, NaturalInduction
<1>. HIDE DEF n
<1>9. ASSUME NEW k \in 1 .. n, k <= Len(d) PROVE d[k] = ByteAt(f, k)
  <2> DEFINE j == k - 1
  <2>1. j \in Nat /\ j + 1 = k /\ k <= n
    BY <1>4
  <2>. HIDE DEF j
  <2>2. j \in V
    BY <1>8, <2>1
  <2>3. j + 1 <= n /\ j + 1 <= Len(d) => d[j + 1] = ByteAt(f, j + 1)
    BY <2>2 DEF V
  <2>. QED
    BY <1>9, <2>1, <2>3
<1>. QED
  BY <1>1, <1>3, <1>9 DEF n

\* An envelope behind whole ones, and what is left without the first.
LEMMA FramedJoin ==
  ASSUME NEW d, NEW e, Framed(d), Framed(e), EndsWhole(d)
  PROVE  Framed(d \o e) /\ (EndsWhole(e) => EndsWhole(d \o e))
<1> DEFINE m == Len(d)
           n == Len(e)
           s == d \o e
<1>1. d \in Seq(Symbols) /\ e \in Seq(Symbols)
  BY DEF Framed
<1>. HIDE DEF Symbols
<1>2. /\ s \in Seq(Symbols) /\ Len(s) = Len(d) + Len(e)
      /\ \A i \in 1 .. Len(d) + Len(e) :
           s[i] = IF i <= Len(d) THEN d[i] ELSE e[i - Len(d)]
  BY <1>1, ConcatProperties
<1>3. m \in Nat /\ n \in Nat /\ m = Len(d) /\ n = Len(e)
  BY <1>1, LenProperties
<1>. HIDE DEF m, n, s
<1>4. /\ \A i \in 1 .. m : s[i] = d[i] /\ i \in 1 .. m + n
      /\ \A j \in 1 .. n : s[m + j] = e[j]
  <2>1. ASSUME NEW i \in 1 .. m PROVE s[i] = d[i] /\ i \in 1 .. m + n
    <3>1. i <= m /\ i \in 1 .. m + n
      BY <1>3
    <3>. QED
      BY <1>2, <1>3, <3>1
  <2>2. ASSUME NEW j \in 1 .. n PROVE s[m + j] = e[j]
    <3> DEFINE i == m + j
    <3>1. ~(i <= m) /\ i \in 1 .. m + n /\ i - m = j
      BY <1>3
    <3>. HIDE DEF i
    <3>2. s[i] = e[j]
      BY <1>2, <1>3, <3>1
    <3>. QED
      BY <3>2 DEF i
  <2>. QED
    BY <2>1, <2>2
<1>5. ASSUME NEW i \in 1 .. m + n
      PROVE  IsData(s[i]) /\ s[i].n \in 1 .. EnvelopeSize(s[i].of)
  <2>1. CASE i \in 1 .. m
    BY <1>3, <1>4, <2>1 DEF Framed
  <2>2. CASE ~(i \in 1 .. m)
    <3> DEFINE j == i - m
    <3>1. j \in 1 .. n /\ m + j = i
      BY <1>3, <2>2
    <3>. HIDE DEF j
    <3>2. s[m + j] = e[j]
      BY <1>4, <3>1
    <3>3. s[i] = e[j]
      BY <3>1, <3>2
    <3>. QED
      BY <1>3, <3>1, <3>3 DEF Framed
  <2>. QED
    BY <2>1, <2>2
<1>6. s # <<>> => s[1].n = 1
  <2>1. CASE m >= 1
    <3>1. 1 \in 1 .. m /\ d # <<>>
      BY <1>3, <2>1
    <3>. QED
      BY <1>4, <3>1 DEF Framed
  <2>2. CASE m = 0
    <3>1. CASE n >= 1
      <4>1. 1 \in 1 .. n /\ m + 1 = 1 /\ e # <<>>
        BY <1>3, <2>2, <3>1
      <4>2. s[m + 1] = e[1]
        BY <1>4, <4>1
      <4>3. s[1] = e[1]
        BY <4>1, <4>2
      <4>. QED
        BY <4>1, <4>3 DEF Framed
    <3>2. CASE n = 0
      <4>1. Len(s) = 0
        BY <1>2, <1>3, <2>2, <3>2
      <4>. QED
        BY <1>2, <4>1, EmptySeq
    <3>. QED
      BY <1>3, <3>1, <3>2
  <2>. QED
    BY <1>3, <2>1, <2>2
<1>7. ASSUME NEW i \in 1 .. m + n - 1
      PROVE  Follows(s[i + 1], s[i])
  <2>1. CASE i + 1 <= m
    <3>1. i \in 1 .. m - 1 /\ i \in 1 .. m /\ i + 1 \in 1 .. m
      BY <1>3, <2>1
    <3>2. s[i] = d[i] /\ s[i + 1] = d[i + 1]
      BY <1>4, <3>1
    <3>. QED
      BY <1>3, <3>1, <3>2 DEF Framed
  <2>2. CASE i = m
    <3>1. m \in 1 .. m /\ 1 \in 1 .. n /\ n >= 1
      BY <1>3, <2>2
    <3>2. d # <<>> /\ e # <<>>
      BY <1>3, <3>1
    <3>3. s[i] = d[m] /\ s[i + 1] = e[1] /\ IsEnd(d[m]) /\ e[1].n = 1
      BY <1>3, <1>4, <2>2, <3>1, <3>2 DEF Framed, EndsWhole
    <3>. QED
      BY <3>3 DEF Follows
  <2>3. CASE i > m
    <3> DEFINE j == i - m
    <3>1. j \in 1 .. n /\ j + 1 \in 1 .. n /\ m + j = i /\ m + (j + 1) = i + 1
          /\ j \in 1 .. n - 1
      BY <1>3, <2>3
    <3>. HIDE DEF j
    <3>2. s[m + j] = e[j] /\ s[m + (j + 1)] = e[j + 1]
      BY <1>4, <3>1
    <3>3. s[i] = e[j] /\ s[i + 1] = e[j + 1]
      BY <3>1, <3>2
    <3>. QED
      BY <1>3, <3>1, <3>3 DEF Framed
  <2>4. i + 1 <= m \/ i = m \/ i > m
    BY <1>3
  <2>. QED
    BY <2>1, <2>2, <2>3, <2>4
<1>8. Len(s) = m + n
  BY <1>2, <1>3
<1>9. Framed(s)
  <2>1. \A i \in 1 .. Len(s) : IsData(s[i]) /\ s[i].n \in 1 .. EnvelopeSize(s[i].of)
    BY <1>5, <1>8
  <2>2. ASSUME NEW i \in 1 .. Len(s) - 1 PROVE Follows(s[i + 1], s[i])
    <3>1. Len(s) - 1 = m + n - 1
      BY <1>3, <1>8
    <3>2. i \in 1 .. m + n - 1
      BY <3>1
    <3>. QED
      BY <1>7, <3>2
  <2>. QED
    BY <1>2, <1>6, <2>1, <2>2 DEF Framed
<1>10. ASSUME EndsWhole(e), s # <<>> PROVE IsEnd(s[Len(s)])
  <2>1. CASE n >= 1
    <3>1. n \in 1 .. n /\ e # <<>>
      BY <1>3, <2>1
    <3>2. s[m + n] = e[n]
      BY <1>4, <3>1
    <3>. QED
      BY <1>3, <1>8, <1>10, <3>1, <3>2 DEF EndsWhole
  <2>2. CASE n = 0
    <3>1. m + n = m
      BY <1>3, <2>2
    <3>2. m # 0
      <4>1. m = 0 => Len(s) = 0
        BY <1>8, <3>1
      <4>. QED
        BY <1>2, <1>10, <4>1, EmptySeq
    <3>3. m \in 1 .. m /\ d # <<>>
      BY <1>3, <3>2
    <3>4. s[m] = d[m]
      BY <1>4, <3>3
    <3>. QED
      BY <1>3, <1>8, <3>1, <3>3, <3>4 DEF EndsWhole
  <2>. QED
    BY <1>3, <2>1, <2>2
<1>. QED
  BY <1>9, <1>10 DEF EndsWhole, s

LEMMA FramedParts ==
  ASSUME NEW d \in Seq(Symbols), NEW e \in Seq(Symbols), Framed(d \o e)
  PROVE  /\ Framed(d)
         /\ d # <<>> /\ EndsWhole(d) => Framed(e)
         /\ e # <<>> /\ EndsWhole(d \o e) => EndsWhole(e)
<1> DEFINE m == Len(d)
           n == Len(e)
           s == d \o e
<1>. HIDE DEF Symbols
<1>1. /\ s \in Seq(Symbols) /\ Len(s) = Len(d) + Len(e)
      /\ \A i \in 1 .. Len(d) + Len(e) :
           s[i] = IF i <= Len(d) THEN d[i] ELSE e[i - Len(d)]
  BY ConcatProperties
<1>2. m \in Nat /\ n \in Nat /\ m = Len(d) /\ n = Len(e)
  BY LenProperties
<1>3. Framed(s)
  OBVIOUS
<1>. HIDE DEF m, n, s
<1>4. ASSUME NEW i \in 1 .. m PROVE s[i] = d[i] /\ i \in 1 .. Len(s)
  <2>1. i <= m /\ i \in 1 .. m + n
    BY <1>2
  <2>. QED
    BY <1>1, <1>2, <2>1
<1>5. ASSUME NEW j \in 1 .. n PROVE s[m + j] = e[j] /\ m + j \in 1 .. Len(s)
  <2> DEFINE i == m + j
  <2>1. ~(i <= m) /\ i \in 1 .. m + n /\ i - m = j
    BY <1>2
  <2>. HIDE DEF i
  <2>2. s[i] = e[j] /\ i \in 1 .. Len(s)
    BY <1>1, <1>2, <2>1
  <2>. QED
    BY <2>2 DEF i
<1>6. Len(s) = m + n
  BY <1>1, <1>2
<1>7. Framed(d)
  <2>1. ASSUME NEW i \in 1 .. m
        PROVE  IsData(d[i]) /\ d[i].n \in 1 .. EnvelopeSize(d[i].of)
    BY <1>3, <1>4 DEF Framed
  <2>2. d # <<>> => d[1].n = 1
    <3> HAVE d # <<>>
    <3>1. m # 0
      BY <1>2, EmptySeq
    <3>2. 1 \in 1 .. m
      BY <1>2, <3>1
    <3>3. s[1] = d[1] /\ Len(s) # 0
      BY <1>2, <1>4, <1>6, <3>1, <3>2
    <3>4. s # <<>>
      BY <3>3, EmptySeq
    <3>. QED
      BY <1>3, <3>3, <3>4 DEF Framed
  <2>3. ASSUME NEW i \in 1 .. m - 1 PROVE Follows(d[i + 1], d[i])
    <3>1. i \in 1 .. m /\ i + 1 \in 1 .. m /\ i \in 1 .. Len(s) - 1
      BY <1>2, <1>6
    <3>2. s[i] = d[i] /\ s[i + 1] = d[i + 1]
      BY <1>4, <3>1
    <3>3. Follows(s[i + 1], s[i])
      BY <1>3, <3>1 DEF Framed
    <3>. QED
      BY <3>2, <3>3
  <2>. QED
    BY <1>2, <2>1, <2>2, <2>3 DEF Framed
<1>8. ASSUME d # <<>>, EndsWhole(d) PROVE Framed(e)
  <2>1. m # 0
    BY <1>2, <1>8, EmptySeq
  <2>2. m \in 1 .. m
    BY <1>2, <2>1
  <2>3. s[m] = d[m] /\ IsEnd(s[m])
    BY <1>2, <1>4, <1>8, <2>2 DEF EndsWhole
  <2>4. ASSUME NEW j \in 1 .. n
        PROVE  IsData(e[j]) /\ e[j].n \in 1 .. EnvelopeSize(e[j].of)
    BY <1>3, <1>5 DEF Framed
  <2>5. e # <<>> => e[1].n = 1
    <3> HAVE e # <<>>
    <3>1. n # 0
      BY <1>2, EmptySeq
    <3>2. 1 \in 1 .. n /\ m \in 1 .. Len(s) - 1
      BY <1>2, <1>6, <2>1, <3>1
    <3>3. s[m + 1] = e[1]
      BY <1>5, <3>2
    <3>4. Follows(s[m + 1], s[m])
      BY <1>3, <3>2 DEF Framed
    <3>. QED
      BY <2>3, <3>3, <3>4 DEF Follows
  <2>6. ASSUME NEW j \in 1 .. n - 1 PROVE Follows(e[j + 1], e[j])
    <3> DEFINE i == m + j
    <3>1. j \in 1 .. n /\ j + 1 \in 1 .. n /\ i + 1 = m + (j + 1) /\ i \in 1 .. Len(s) - 1
      BY <1>2, <1>6
    <3>2. s[m + j] = e[j] /\ s[m + (j + 1)] = e[j + 1]
      BY <1>5, <3>1
    <3>3. s[i] = e[j] /\ s[i + 1] = e[j + 1]
      BY <3>1, <3>2
    <3>. HIDE DEF i
    <3>4. Follows(s[i + 1], s[i])
      BY <1>3, <3>1 DEF Framed
    <3>. QED
      BY <3>3, <3>4
  <2>. QED
    BY <1>2, <2>4, <2>5, <2>6 DEF Framed
<1>9. ASSUME e # <<>>, EndsWhole(s) PROVE EndsWhole(e)
  <2>1. n # 0
    BY <1>2, <1>9, EmptySeq
  <2>2. n \in 1 .. n /\ Len(s) # 0
    BY <1>2, <1>6, <2>1
  <2>3. s # <<>> /\ s[m + n] = e[n]
    BY <1>5, <2>2, EmptySeq
  <2>. QED
    BY <1>2, <1>6, <1>9, <2>3 DEF EndsWhole
<1>. QED
  BY <1>7, <1>8, <1>9 DEF s

LEMMA EnvelopesAreFramed ==
  ASSUME NEW f \in Frames, NEW e \in Seq(Symbols), Len(e) = EnvelopeSize(f),
         \A k \in 1 .. EnvelopeSize(f) : e[k] = ByteAt(f, k)
  PROVE  Framed(e) /\ EndsWhole(e) /\ e # <<>>
         /\ Mapped(e, EndOf) = <<f>> /\ Mapped(e, DataOf) = e
<1> DEFINE n == EnvelopeSize(f)
<1>1. n \in Nat \ {0, 1}
  BY StreamAssumption DEF EnvelopeSize
<1>. HIDE DEF n
<1>2. Len(e) = n /\ \A k \in 1 .. n : e[k] = ByteAt(f, k)
  BY DEF n
<1>3. ASSUME NEW k \in 1 .. n
      PROVE  IsData(e[k]) /\ e[k].is = "byte" /\ e[k].of = f /\ e[k].n = k
             /\ e[k] \in Symbols
  <2>1. e[k] = ByteAt(f, k) /\ k \in Nat
    BY <1>1, <1>2
  <2>. QED
    BY <2>1 DEF ByteAt, IsData, Symbols
<1>4. \A k \in 1 .. n : IsEnd(e[k]) <=> k = n
  BY <1>3 DEF IsEnd, n
<1>5. Framed(e)
  <2>1. ASSUME NEW i \in 1 .. n
        PROVE  IsData(e[i]) /\ e[i].n \in 1 .. EnvelopeSize(e[i].of)
    BY <1>3 DEF n
  <2>2. 1 \in 1 .. n
    BY <1>1
  <2>3. ASSUME NEW i \in 1 .. n - 1 PROVE Follows(e[i + 1], e[i])
    <3>1. i \in 1 .. n /\ i + 1 \in 1 .. n /\ i # n
      BY <1>1
    <3>2. ~IsEnd(e[i]) /\ e[i + 1] = ByteAt(f, i + 1) /\ e[i].of = f /\ e[i].n = i
      BY <1>2, <1>3, <1>4, <3>1
    <3>. QED
      BY <3>2 DEF Follows
  <2>. QED
    BY <1>2, <1>3, <2>1, <2>2, <2>3 DEF Framed
<1>6. EndsWhole(e) /\ e # <<>>
  <2>1. n \in 1 .. n /\ n # 0
    BY <1>1
  <2>. QED
    BY <1>2, <1>4, <2>1, EmptySeq DEF EndsWhole
<1>. HIDE DEF Symbols, None
<1>7. EndOf \in [Symbols -> Seq(Frames \cup {None})]
  BY MapsLeaveFramingOut, Zenon DEF LeavesFramingOut
<1>10. DataOf \in [Symbols -> Seq(Symbols)]
  BY MapsLeaveFramingOut, Zenon DEF LeavesFramingOut
<1>8. Mapped(e, DataOf) = e
  <2>1. \A k \in 1 .. Len(e) : DataOf[e[k]] = <<e[k]>>
    BY <1>2, <1>3 DEF DataOf
  <2>. QED
    BY <1>10, <2>1, MappedToItself
<1>9. Mapped(e, EndOf) = <<f>>
  <2>1. \A k \in 1 .. n : EndOf[e[k]] = IF k = n THEN <<f>> ELSE <<>>
    <3> TAKE k \in 1 .. n
    <3>1. e[k] \in Symbols /\ e[k].is = "byte" /\ e[k].of = f /\ (IsEnd(e[k]) <=> k = n)
      BY <1>3, <1>4
    <3>. QED
      BY <3>1 DEF EndOf, IsEnd
  <2>2. n - 1 \in 0 .. Len(e) /\ n - 1 \in Nat /\ Len(e) - (n - 1) = 1
    BY <1>1, <1>2
  <2> DEFINE a == SubSeq(e, 1, n - 1)
             b == After(e, n - 1)
  <2>3. /\ a \in Seq(Symbols) /\ Len(a) = n - 1 /\ \A q \in 1 .. n - 1 : a[q] = e[q]
        /\ e = a \o b
    <3>1. e \in Seq(Symbols)
      BY <1>2
    <3>2. /\ SubSeq(e, 1, n - 1) \in Seq(Symbols) /\ Len(SubSeq(e, 1, n - 1)) = n - 1
          /\ \A q \in 1 .. n - 1 : SubSeq(e, 1, n - 1)[q] = e[q]
      BY <2>2, <3>1, FrontProperties
    <3>3. e = SubSeq(e, 1, n - 1) \o After(e, n - 1)
      BY <2>2, <3>1, FrontAndRest
    <3>. QED
      BY <3>2, <3>3
  <2>4. /\ b \in Seq(Symbols) /\ Len(b) = Len(e) - (n - 1)
        /\ \A q \in 1 .. Len(e) - (n - 1) : b[q] = e[q + (n - 1)]
    BY <2>2, AfterProperties
  <2>. HIDE DEF a, b
  <2>5. Mapped(a, EndOf) = <<>>
    <3>1. ASSUME NEW q \in 1 .. Len(a) PROVE EndOf[a[q]] = <<>>
      <4>1. q \in 1 .. n - 1 /\ q \in 1 .. n /\ q # n
        BY <1>1, <2>3
      <4>. QED
        BY <2>1, <2>3, <4>1
    <3>2. a \in Seq(Symbols)
      BY <2>3
    <3>3. GivesNothing(Symbols, Frames \cup {None}, a, EndOf)
      BY <1>7, <3>1, <3>2 DEF GivesNothing
    <3>. QED
      BY <3>3, MappedToNothing
  <2>6. Mapped(b, EndOf) = <<f>>
    <3>1. 1 \in 1 .. Len(e) - (n - 1) /\ 1 + (n - 1) = n /\ n \in 1 .. n
      BY <1>1, <2>2
    <3>2. b[1] = e[1 + (n - 1)]
      BY <2>4, <3>1
    <3>3. b[1] = e[n] /\ Len(b) = 1 /\ e[n] \in Symbols
      BY <1>3, <2>2, <2>4, <3>1, <3>2
    <3>4. <<e[n]>> \in Seq(Symbols) /\ Len(<<e[n]>>) = 1 /\ <<e[n]>>[1] = e[n]
      BY <3>3
    <3>5. \A i \in 1 .. Len(b) : b[i] = <<e[n]>>[i]
      <4>1. \A i \in 1 .. 1 : i = 1
        OBVIOUS
      <4>. QED
        BY <3>3, <3>4, <4>1
    <3>6. b = <<e[n]>>
      BY <2>4, <3>3, <3>4, <3>5, SeqEqual
    <3>7. Mapped(<<e[n]>>, EndOf) = EndOf[e[n]]
      BY <1>7, <3>3, MappedShort
    <3>. QED
      BY <2>1, <3>1, <3>6, <3>7
  <2>7. Mapped(e, EndOf) = Mapped(a, EndOf) \o Mapped(b, EndOf)
    BY <1>7, <2>3, <2>4, MappedConcat
  <2>8. <<>> \o <<f>> = <<f>>
    <3>1. <<f>> \in Seq(Frames)
      OBVIOUS
    <3>. QED
      BY <3>1, ConcatEmptySeq
  <2>. QED
    BY <2>5, <2>6, <2>7, <2>8
<1>. QED
  BY <1>5, <1>6, <1>8, <1>9

-----------------------------------------------------------------------------
(* The envelope in front                                                     *)

\* pending_ holds bytes of envelopes only, and they are the first there are.
LEMMA PendedIsData ==
  ASSUME StreamInv
  PROVE  /\ Pended \in Seq(Symbols) /\ Len(Pended) = Available /\ Available \in Nat
         /\ \A k \in 1 .. Available : Pended[k] = pending[k + pendingPos] /\ IsData(Pended[k])
         /\ \E z \in Seq(Symbols) : Data = Pended \o z
<1>1. /\ pending \in Seq(Symbols) /\ pendingPos \in 0 .. Len(pending)
      /\ \A k \in 1 .. Len(pending) : IsData(pending[k])
  BY DEF StreamInv, InvPending
<1>. HIDE DEF Symbols
<1>2. Len(pending) \in Nat /\ pendingPos \in Nat /\ pendingPos <= Len(pending)
  BY <1>1, LenProperties
<1>3. /\ Pended \in Seq(Symbols) /\ Len(Pended) = Len(pending) - pendingPos
      /\ \A q \in 1 .. Len(pending) - pendingPos : Pended[q] = pending[q + pendingPos]
  BY <1>1, AfterProperties DEF Pended
<1>4. Available = Len(pending) - pendingPos /\ Available \in Nat
  BY <1>2 DEF Available
<1>5. ASSUME NEW k \in 1 .. Available
      PROVE  Pended[k] = pending[k + pendingPos] /\ IsData(Pended[k])
  <2>1. k + pendingPos \in 1 .. Len(pending)
    BY <1>2, <1>4
  <2>2. Pended[k] = pending[k + pendingPos]
    BY <1>3, <1>4
  <2>. QED
    BY <1>1, <2>1, <2>2
<1>6. DataOf \in [Symbols -> Seq(Symbols)]
  BY MapsLeaveFramingOut, Zenon DEF LeavesFramingOut
<1>7. Mapped(Pended, DataOf) = Pended
  <2>1. ASSUME NEW i \in 1 .. Len(Pended) PROVE DataOf[Pended[i]] = <<Pended[i]>>
    <3>1. Pended[i] \in Symbols
      BY <1>3, ElementOfSeq
    <3>2. IsData(Pended[i])
      BY <1>3, <1>4, <1>5
    <3>. QED
      BY <3>1, <3>2 DEF DataOf
  <2>2. Pended \in Seq(Symbols)
    BY <1>3
  <2>. QED
    BY <1>6, <2>1, <2>2, MappedToItself
<1>8. \E z \in Seq(Symbols) : Data = Pended \o z
  <2> DEFINE y == Mapped(Rest, DataOf)
             w == Mapped(unsent, DataOf)
  <2>1. Rest \in Seq(Symbols) /\ unsent \in Seq(Symbols)
    BY AheadIsTyped
  <2>2. y \in Seq(Symbols) /\ w \in Seq(Symbols)
    BY <1>6, <2>1, MappedInSeq
  <2>3. Mapped(Ahead, DataOf) = Mapped(Pended, DataOf) \o y \o w
    BY MapsLeaveFramingOut, MappedAhead
  <2>. HIDE DEF y, w
  <2>4. Data = (Pended \o y) \o w
    BY <1>7, <2>3 DEF Data
  <2>5. Pended \in Seq(Symbols)
    BY <1>3
  <2>6. (Pended \o y) \o w = Pended \o (y \o w)
    <3>1. InOneSeq(Symbols, Pended, y, w)
      BY <2>2, <2>5 DEF InOneSeq
    <3>. QED
      BY <3>1, Regrouped
  <2>7. y \o w \in Seq(Symbols)
    BY <2>2, ConcatProperties
  <2>. QED
    BY <2>4, <2>6, <2>7
<1>. QED
  BY <1>3, <1>4, <1>5, <1>8

\* They are those of the frame whose byte comes first.
LEMMA PendedIsFramed ==
  ASSUME StreamInv, Framed(Data), Pended # <<>>
  PROVE  LET f == Pended[1].of
         IN  /\ f \in Frames
             /\ \A k \in 1 .. EnvelopeSize(f) : k <= Available => Pended[k] = ByteAt(f, k)
<1>1. PICK z \in Seq(Symbols) : Data = Pended \o z
  BY PendedIsData
<1>2. Pended \in Seq(Symbols) /\ Len(Pended) = Available
  BY PendedIsData
<1>3. Framed(Pended \o z)
  BY <1>1
<1>4. Framed(Pended)
  BY <1>2, <1>3, FramedParts
<1> DEFINE f == Pended[1].of
<1>5. /\ f \in Frames
      /\ \A k \in 1 .. EnvelopeSize(f) : k <= Len(Pended) => Pended[k] = ByteAt(f, k)
  BY <1>4, FramedFront
<1>. QED
  BY <1>2, <1>5

\* Part of an envelope.
Part(s, first, last) == SubSeq(s, first, last)

HasPart(s, p, first, last, f, a, b) ==
  /\ f \in Frames /\ a \in 1 .. EnvelopeSize(f) /\ b \in a .. EnvelopeSize(f)
  /\ s \in Seq(Symbols) /\ p \in Nat /\ p + b <= Len(s)
  /\ \A k \in a .. b : s[p + k] = ByteAt(f, k)
  /\ first = p + a /\ last = p + b

LEMMA EnvelopePart ==
  ASSUME NEW s, NEW p, NEW first, NEW last, NEW f, NEW a, NEW b,
         HasPart(s, p, first, last, f, a, b)
  PROVE  Part(s, first, last) = Part(Envelope(f), a, b)
<1>0. /\ f \in Frames /\ a \in 1 .. EnvelopeSize(f) /\ b \in a .. EnvelopeSize(f)
      /\ s \in Seq(Symbols) /\ p \in Nat /\ p + b <= Len(s)
      /\ \A k \in a .. b : s[p + k] = ByteAt(f, k)
      /\ first = p + a /\ last = p + b
  BY DEF HasPart
<1> DEFINE n == EnvelopeSize(f)
           e == Envelope(f)
           x == SubSeq(s, p + a, p + b)
           y == SubSeq(e, a, b)
<1>1. n \in Nat
  BY <1>0, StreamAssumption DEF EnvelopeSize
<1>2. \A k \in 1 .. n : ByteAt(f, k) \in Symbols
  BY <1>0, <1>1 DEF ByteAt, Symbols
<1>3. e = [k \in 1 .. n |-> ByteAt(f, k)]
  BY DEF Envelope
<1>. HIDE DEF Symbols, e
<1>4. e \in Seq(Symbols) /\ Len(e) = n /\ \A k \in 1 .. n : e[k] = ByteAt(f, k)
  <2>. HIDE DEF n
  <2>. QED
    BY <1>1, <1>2, <1>3
<1>5. n = EnvelopeSize(f)
  OBVIOUS
<1>. HIDE DEF n
<1>6. /\ a \in Nat /\ b \in Nat /\ 1 <= a /\ a <= b /\ b <= n
      /\ p + a \in Nat /\ p + b \in Nat /\ p + a <= p + b /\ (p + b) - (p + a) + 1 = b - a + 1
  BY <1>0, <1>1, <1>5
<1>7. Len(s) \in Nat
  BY <1>0, LenProperties
<1>8. /\ x \in Seq(Symbols) /\ Len(x) = b - a + 1
      /\ \A i \in 1 .. b - a + 1 : x[i] = s[p + a + i - 1]
  <2>1. \A i \in p + a .. p + b : s[i] \in Symbols
    <3>1. \A i \in p + a .. p + b : i \in 1 .. Len(s)
      BY <1>0, <1>6, <1>7
    <3>. QED
      BY <1>0, <3>1, ElementOfSeq
  <2>2. /\ x \in Seq(Symbols)
        /\ Len(x) = IF p + a <= p + b THEN (p + b) - (p + a) + 1 ELSE 0
        /\ \A i \in 1 .. (p + b) - (p + a) + 1 : x[i] = s[p + a + i - 1]
    BY <1>0, <1>6, <2>1, SubSeqProperties
  <2>. HIDE DEF x
  <2>. QED
    BY <1>6, <2>2
<1>9. /\ y \in Seq(Symbols) /\ Len(y) = b - a + 1
      /\ \A i \in 1 .. b - a + 1 : y[i] = e[a + i - 1]
  <2>1. \A i \in a .. b : e[i] \in Symbols
    <3>1. \A i \in a .. b : i \in 1 .. Len(e)
      BY <1>4, <1>6
    <3>2. \A i \in 1 .. Len(e) : e[i] \in Symbols
      BY <1>4, ElementOfSeq
    <3>. QED
      BY <3>1, <3>2
  <2>2. /\ y \in Seq(Symbols) /\ Len(y) = IF a <= b THEN b - a + 1 ELSE 0
        /\ \A i \in 1 .. b - a + 1 : y[i] = e[a + i - 1]
    BY <1>4, <1>6, <2>1, SubSeqProperties
  <2>. HIDE DEF y
  <2>. QED
    BY <1>6, <2>2
<1>10. ASSUME NEW i \in 1 .. b - a + 1 PROVE x[i] = y[i]
  <2> DEFINE k == a + i - 1
  <2>1. k \in a .. b /\ k \in 1 .. n /\ p + a + i - 1 = p + k
    BY <1>0, <1>6, <1>1
  <2>. HIDE DEF x, y
  <2>2. x[i] = s[p + k] /\ y[i] = e[k]
    BY <1>8, <1>9, <2>1
  <2>. HIDE DEF k
  <2>3. s[p + k] = ByteAt(f, k) /\ e[k] = ByteAt(f, k)
    BY <1>0, <1>4, <2>1
  <2>. QED
    BY <2>2, <2>3
<1>. HIDE DEF x, y
<1>11. x = y
  BY <1>8, <1>9, <1>10, SeqEqual
<1>. QED
  BY <1>0, <1>11 DEF x, y, e, Part

LEMMA EnvelopeIsTyped ==
  ASSUME NEW f \in Frames
  PROVE  /\ Envelope(f) \in Seq(Symbols) /\ Len(Envelope(f)) = EnvelopeSize(f)
         /\ \A k \in 1 .. EnvelopeSize(f) : Envelope(f)[k] = ByteAt(f, k)
         /\ EnvelopeSize(f) = HeaderSize + PayloadSize[f]
         /\ HeaderSize \in Nat \ {0, 1} /\ PayloadSize[f] \in Nat \ {0}
         /\ HeaderSize \in 1 .. EnvelopeSize(f) /\ HeaderSize + 1 \in 1 .. EnvelopeSize(f)
<1> DEFINE n == EnvelopeSize(f)
           e == Envelope(f)
<1>1. /\ HeaderSize \in Nat \ {0, 1} /\ PayloadSize[f] \in Nat \ {0}
      /\ n = HeaderSize + PayloadSize[f]
  BY StreamAssumption DEF EnvelopeSize
<1>2. \A k \in 1 .. n : ByteAt(f, k) \in Symbols
  BY <1>1 DEF ByteAt, Symbols
<1>3. e = [k \in 1 .. n |-> ByteAt(f, k)]
  BY DEF Envelope
<1>. HIDE DEF Symbols, e, n
<1>4. n \in Nat /\ HeaderSize \in 1 .. n /\ HeaderSize + 1 \in 1 .. n
  BY <1>1
<1>5. e \in Seq(Symbols) /\ Len(e) = n /\ \A k \in 1 .. n : e[k] = ByteAt(f, k)
  BY <1>2, <1>3, <1>4
<1>. QED
  BY <1>1, <1>4, <1>5 DEF n, e

\* The header in front declares the length of the frame it belongs to.
LEMMA HeaderInFront ==
  ASSUME StreamInv, Framed(Data), Available >= HeaderSize
  PROVE  LET f == Pended[1].of
         IN  /\ Pended # <<>> /\ f \in Frames
             /\ pending[pendingPos + 1].of = f
             /\ DeclaredLength = PayloadSize[f]
<1>1. /\ Pended \in Seq(Symbols) /\ Len(Pended) = Available /\ Available \in Nat
      /\ \A k \in 1 .. Available : Pended[k] = pending[k + pendingPos]
  BY PendedIsData
<1>2. HeaderSize \in Nat \ {0, 1}
  BY StreamAssumption
<1>3. Pended # <<>>
  BY <1>1, <1>2, EmptySeq
<1> DEFINE f == Pended[1].of
<1>4. f \in Frames
      /\ \A k \in 1 .. EnvelopeSize(f) : k <= Available => Pended[k] = ByteAt(f, k)
  BY <1>3, PendedIsFramed
<1>. HIDE DEF f, Symbols
<1>5. /\ Envelope(f) \in Seq(Symbols) /\ Len(Envelope(f)) = EnvelopeSize(f)
      /\ \A k \in 1 .. EnvelopeSize(f) : Envelope(f)[k] = ByteAt(f, k)
      /\ HeaderSize \in 1 .. EnvelopeSize(f)
  BY <1>4, EnvelopeIsTyped
<1>6. /\ pending \in Seq(Symbols) /\ pendingPos \in Nat /\ Len(pending) \in Nat
      /\ Available = Len(pending) - pendingPos
  <2>1. pending \in Seq(Symbols) /\ pendingPos \in 0 .. Len(pending)
    BY DEF StreamInv, InvPending
  <2>2. Len(pending) \in Nat
    BY <2>1, LenProperties
  <2>. QED
    BY <2>1, <2>2 DEF Available
<1> DEFINE n == EnvelopeSize(f)
<1>7. HeaderSize \in 1 .. n /\ 1 \in 1 .. n /\ n \in Nat
  BY <1>2, <1>4, <1>5, StreamAssumption DEF EnvelopeSize
<1>8. \A k \in 1 .. HeaderSize : pending[pendingPos + k] = ByteAt(f, k)
  <2> TAKE k \in 1 .. HeaderSize
  <2>1. k \in 1 .. Available /\ k \in 1 .. n /\ k <= Available /\ k + pendingPos = pendingPos + k
    BY <1>1, <1>2, <1>6, <1>7
  <2>2. Pended[k] = ByteAt(f, k)
    BY <1>4, <2>1
  <2>3. Pended[k] = pending[k + pendingPos]
    BY <1>1, <2>1
  <2>. QED
    BY <2>1, <2>2, <2>3
<1> DEFINE h == SubSeq(pending, pendingPos + 1, pendingPos + HeaderSize)
<1>9. h = SubSeq(Envelope(f), 1, HeaderSize)
  <2>1. pendingPos + HeaderSize <= Len(pending) /\ HeaderSize \in 1 .. n
    BY <1>2, <1>6, <1>7
  <2> DEFINE first == pendingPos + 1
             last == pendingPos + HeaderSize
  <2>2. HasPart(pending, pendingPos, first, last, f, 1, HeaderSize)
    BY <1>4, <1>6, <1>7, <1>8, <2>1 DEF HasPart
  <2>. HIDE DEF first, last
  <2>3. Part(pending, first, last) = Part(Envelope(f), 1, HeaderSize)
    BY <2>2, EnvelopePart
  <2>. QED
    BY <2>3 DEF Part, first, last
<1>10. h[1].of = f
  <2>1. HeaderSize \in 0 .. Len(Envelope(f))
    BY <1>5, <1>7
  <2>2. \A q \in 1 .. HeaderSize : SubSeq(Envelope(f), 1, HeaderSize)[q] = Envelope(f)[q]
    BY <1>5, <2>1, FrontProperties
  <2>3. 1 \in 1 .. HeaderSize
    BY <1>2
  <2>. HIDE DEF h, n
  <2>4. h[1] = ByteAt(f, 1)
    BY <1>5, <1>7, <1>9, <2>2, <2>3 DEF n
  <2>. QED
    BY <2>4 DEF ByteAt
<1>11. DeclaredLength = PayloadSize[f]
  <2>1. DeclaredLength = IF h = SubSeq(Envelope(h[1].of), 1, HeaderSize)
                         THEN PayloadSize[h[1].of] ELSE 0
    BY DEF DeclaredLength
  <2>. HIDE DEF h
  <2>. QED
    BY <1>9, <1>10, <2>1
<1>12. pending[pendingPos + 1].of = f
  <2>1. 1 \in 1 .. HeaderSize
    BY <1>2
  <2>2. pending[pendingPos + 1] = ByteAt(f, 1)
    BY <1>8, <2>1
  <2>. QED
    BY <2>2 DEF ByteAt
<1>. QED
  BY <1>3, <1>4, <1>11, <1>12 DEF f

\* What Read takes for an envelope is one: that of the frame in front.
LEMMA EnvelopeInFront ==
  ASSUME StreamInv, Framed(Data), HasEnvelope
  PROVE  LET f == Pended[1].of
         IN  /\ Pended # <<>> /\ f \in Frames
             /\ PayloadOf = f
             /\ HeaderSize + DeclaredLength = EnvelopeSize(f)
             /\ EnvelopeSize(f) <= Available
<1>1. /\ Pended \in Seq(Symbols) /\ Len(Pended) = Available /\ Available \in Nat
      /\ \A k \in 1 .. Available : Pended[k] = pending[k + pendingPos]
  BY PendedIsData
<1> DEFINE f == Pended[1].of
<1>2. /\ Pended # <<>> /\ f \in Frames /\ pending[pendingPos + 1].of = f
      /\ DeclaredLength = PayloadSize[f]
  BY HeaderInFront DEF HasEnvelope
<1>3. \A k \in 1 .. EnvelopeSize(f) : k <= Available => Pended[k] = ByteAt(f, k)
  BY <1>2, PendedIsFramed
<1>. HIDE DEF f, Symbols
<1>4. /\ EnvelopeSize(f) = HeaderSize + PayloadSize[f]
      /\ HeaderSize \in Nat /\ PayloadSize[f] \in Nat \ {0}
      /\ HeaderSize + 1 \in 1 .. EnvelopeSize(f)
  BY <1>2, EnvelopeIsTyped
<1>5. HeaderSize + DeclaredLength = EnvelopeSize(f) /\ EnvelopeSize(f) <= Available
  BY <1>2, <1>4 DEF HasEnvelope
<1>6. /\ pending \in Seq(Symbols) /\ pendingPos \in Nat /\ Len(pending) \in Nat
      /\ Available = Len(pending) - pendingPos
  <2>1. pending \in Seq(Symbols) /\ pendingPos \in 0 .. Len(pending)
    BY DEF StreamInv, InvPending
  <2>2. Len(pending) \in Nat
    BY <2>1, LenProperties
  <2>. QED
    BY <2>1, <2>2 DEF Available
<1> DEFINE n == EnvelopeSize(f)
           a == HeaderSize + 1
<1>7. n \in Nat /\ a \in 1 .. n /\ n \in a .. n /\ n <= Available
  BY <1>4, <1>5
<1>8. \A k \in a .. n : pending[pendingPos + k] = ByteAt(f, k)
  <2> TAKE k \in a .. n
  <2>. HIDE DEF n
  <2>1. k \in 1 .. Available /\ k \in 1 .. n /\ k <= Available /\ k + pendingPos = pendingPos + k
    BY <1>1, <1>6, <1>7
  <2>2. Pended[k] = ByteAt(f, k)
    BY <1>3, <2>1 DEF n
  <2>3. Pended[k] = pending[k + pendingPos]
    BY <1>1, <2>1
  <2>. QED
    BY <2>1, <2>2, <2>3
<1> DEFINE bytes == SubSeq(pending, pendingPos + a, pendingPos + n)
<1>9. bytes = SubSeq(Envelope(f), a, n)
  <2>1. pendingPos + n <= Len(pending)
    BY <1>6, <1>7
  <2>. HIDE DEF a
  <2> DEFINE first == pendingPos + a
             last == pendingPos + n
  <2>2. HasPart(pending, pendingPos, first, last, f, a, n)
    BY <1>2, <1>6, <1>7, <1>8, <2>1 DEF HasPart
  <2>. HIDE DEF first, last
  <2>3. Part(pending, first, last) = Part(Envelope(f), a, n)
    BY <2>2, EnvelopePart
  <2>. QED
    BY <2>3 DEF Part, first, last
<1>10. PayloadOf = f
  <2> DEFINE first == pendingPos + HeaderSize + 1
             other == SubSeq(pending, first, first + DeclaredLength - 1)
  <2>1. first = pendingPos + a /\ first + DeclaredLength - 1 = pendingPos + n
    BY <1>2, <1>4, <1>6
  <2>2. other = bytes
    BY <2>1
  <2>3. PayloadOf = IF other = SubSeq(Envelope(pending[pendingPos + 1].of), HeaderSize + 1,
                                      EnvelopeSize(pending[pendingPos + 1].of))
                    THEN pending[pendingPos + 1].of ELSE None
    BY DEF PayloadOf
  <2>. HIDE DEF other, bytes
  <2>. QED
    BY <1>2, <1>9, <2>2, <2>3
<1>. QED
  BY <1>2, <1>5, <1>10 DEF f

\* A header that is there without its envelope belongs to one that is longer.
LEMMA NoEnvelopeInFront ==
  ASSUME StreamInv, Framed(Data), ~HasEnvelope
  PROVE  Mapped(Pended, EndOf) = <<>>
<1>1. EndOf \in [Symbols -> Seq(Frames \cup {None})]
  BY MapsLeaveFramingOut, Zenon DEF LeavesFramingOut
<1>2. Pended \in Seq(Symbols) /\ Len(Pended) = Available /\ Available \in Nat
  BY PendedIsData
<1>3. CASE Pended = <<>>
  BY <1>1, <1>3, MappedShort
<1>4. CASE Pended # <<>>
  <2> DEFINE f == Pended[1].of
             n == EnvelopeSize(f)
  <2>1. f \in Frames /\ \A k \in 1 .. n : k <= Available => Pended[k] = ByteAt(f, k)
    BY <1>4, PendedIsFramed
  <2>2. /\ n = HeaderSize + PayloadSize[f] /\ HeaderSize \in Nat /\ PayloadSize[f] \in Nat \ {0}
    BY <2>1, EnvelopeIsTyped
  <2>3. Available < n
    <3>1. CASE Available >= HeaderSize
      <4>1. DeclaredLength = PayloadSize[f]
        BY <3>1, HeaderInFront
      <4>. HIDE DEF f, n
      <4>. QED
        BY <1>2, <2>2, <3>1, <4>1 DEF HasEnvelope
    <3>2. CASE ~(Available >= HeaderSize)
      <4>. HIDE DEF f, n
      <4>. QED
        BY <1>2, <2>2, <3>2
    <3>. QED
      BY <3>1, <3>2
  <2>. HIDE DEF f
  <2>4. ASSUME NEW k \in 1 .. Len(Pended) PROVE EndOf[Pended[k]] = <<>>
    <3>. HIDE DEF n
    <3>1. k \in 1 .. n /\ k <= Available /\ k # n
      BY <1>2, <2>2, <2>3
    <3>2. Pended[k] = ByteAt(f, k)
      BY <2>1, <3>1 DEF n
    <3>3. Pended[k] \in Symbols
      BY <1>2, ElementOfSeq
    <3>4. Pended[k].of = f /\ Pended[k].n = k
      BY <3>2 DEF ByteAt
    <3>5. Pended[k].n # EnvelopeSize(Pended[k].of)
      BY <3>1, <3>4 DEF n
    <3>. QED
      BY <3>3, <3>5 DEF EndOf
  <2>. HIDE DEF Symbols, None
  <2>5. Pended \in Seq(Symbols)
    BY <1>2
  <2>6. GivesNothing(Symbols, Frames \cup {None}, Pended, EndOf)
    BY <1>1, <2>4, <2>5 DEF GivesNothing
  <2>. QED
    BY <2>6, MappedToNothing
<1>. QED
  BY <1>3, <1>4

\* What is left of pending_ without the envelope in front.
LEMMA ConsumesFront ==
  ASSUME StreamInv, NEW n \in 0 .. Available, Consumes(n)
  PROVE  Pended' = After(Pended, n)
<1>1. pending \in Seq(Symbols) /\ pendingPos \in 0 .. Len(pending)
  BY DEF StreamInv, InvPending
<1>. HIDE DEF Symbols
<1>2. /\ Len(pending) \in Nat /\ pendingPos \in Nat
      /\ Available = Len(pending) - pendingPos /\ n \in 0 .. Len(pending) - pendingPos
  BY <1>1, LenProperties DEF Available
<1> DEFINE m == pendingPos + n
           a == After(pending, m)
           b == After(Pended, n)
<1>3. m \in 0 .. Len(pending)
  BY <1>2
<1>4. /\ a \in Seq(Symbols) /\ Len(a) = Len(pending) - m
      /\ \A q \in 1 .. Len(pending) - m : a[q] = pending[q + m]
  BY <1>1, <1>3, AfterProperties
<1>5. /\ Pended \in Seq(Symbols) /\ Len(Pended) = Len(pending) - pendingPos
      /\ \A q \in 1 .. Len(pending) - pendingPos : Pended[q] = pending[q + pendingPos]
  BY <1>1, AfterProperties DEF Pended
<1>6. n \in 0 .. Len(Pended)
  BY <1>2, <1>5
<1>7. /\ b \in Seq(Symbols) /\ Len(b) = Len(Pended) - n
      /\ \A q \in 1 .. Len(Pended) - n : b[q] = Pended[q + n]
  BY <1>5, <1>6, AfterProperties
<1>8. Pended' = a
  <2>1. CASE pending' = a /\ pendingPos' = 0
    <3>1. Pended' = SubSeq(a, 0 + 1, Len(a))
      BY <2>1 DEF Pended, After
    <3>. HIDE DEF a
    <3>2. SubSeq(a, 1, Len(a)) = a
      BY <1>4, SubSeqFull
    <3>. QED
      BY <3>1, <3>2
  <2>2. CASE pendingPos' = m /\ pending' = pending
    BY <2>2 DEF Pended
  <2>. QED
    BY <2>1, <2>2 DEF Consumes
<1>. HIDE DEF a, b
<1>9. Len(a) = Len(b)
  BY <1>2, <1>4, <1>5, <1>7
<1>10. ASSUME NEW q \in 1 .. Len(a) PROVE a[q] = b[q]
  <2> DEFINE j == q + n
  <2>1. /\ q \in 1 .. Len(pending) - m /\ q \in 1 .. Len(Pended) - n
        /\ j \in 1 .. Len(pending) - pendingPos /\ j + pendingPos = q + m
    BY <1>2, <1>4, <1>5
  <2>. HIDE DEF m
  <2>2. a[q] = pending[q + m]
    BY <1>4, <2>1
  <2>3. b[q] = Pended[j]
    BY <1>7, <2>1
  <2>. HIDE DEF j
  <2>4. Pended[j] = pending[j + pendingPos]
    BY <1>5, <2>1
  <2>. QED
    BY <2>1, <2>2, <2>3, <2>4
<1>11. a = b
  BY <1>4, <1>7, <1>9, <1>10, SeqEqual
<1>. QED
  BY <1>8, <1>11 DEF b

\* Read takes the envelope in front and leaves all that is behind it.
LEMMA ConsumingTakesEnvelope ==
  ASSUME StreamInv, StreamInv', Framed(Data), HasEnvelope,
         Consumes(HeaderSize + DeclaredLength),
         Rest' = Rest, unsent' = unsent
  PROVE  /\ PayloadOf \in Frames
         /\ Mapped(Ahead, EndOf) = <<PayloadOf>> \o Mapped(Ahead', EndOf)
         /\ Framed(Data') /\ (EndsWhole(Data) => EndsWhole(Data'))
<1> DEFINE f == PayloadOf
           n == EnvelopeSize(f)
           x == SubSeq(Pended, 1, n)
<1>1. /\ f = Pended[1].of /\ f \in Frames /\ Pended # <<>>
      /\ HeaderSize + DeclaredLength = n /\ n <= Available
  BY EnvelopeInFront
<1>2. \A k \in 1 .. n : k <= Available => Pended[k] = ByteAt(f, k)
  BY <1>1, PendedIsFramed
<1>3. Pended \in Seq(Symbols) /\ Len(Pended) = Available /\ Available \in Nat
  BY PendedIsData
<1>. HIDE DEF f
<1>4. n \in Nat
  <2>1. n = HeaderSize + PayloadSize[f] /\ HeaderSize \in Nat /\ PayloadSize[f] \in Nat
    BY <1>1, EnvelopeIsTyped
  <2>. HIDE DEF n
  <2>. QED
    BY <2>1
<1>. HIDE DEF Symbols, None
<1>5. n \in 0 .. Available
  BY <1>1, <1>3, <1>4
<1>6. Pended' = After(Pended, n)
  BY <1>1, <1>5, ConsumesFront
<1>7. n \in 0 .. Len(Pended)
  BY <1>3, <1>5
<1>8. x \in Seq(Symbols) /\ Len(x) = n /\ \A q \in 1 .. n : x[q] = Pended[q]
  BY <1>3, <1>7, FrontProperties
<1>9. Pended = x \o Pended'
  BY <1>3, <1>6, <1>7, FrontAndRest
<1>10. \A k \in 1 .. EnvelopeSize(f) : x[k] = ByteAt(f, k)
  <2> TAKE k \in 1 .. EnvelopeSize(f)
  <2>1. k <= Available
    BY <1>1, <1>3, <1>4
  <2>. QED
    BY <1>2, <1>8, <2>1
<1>. HIDE DEF x
<1>11. /\ EndsWhole(x) /\ x # <<>>
       /\ Mapped(x, EndOf) = <<f>> /\ Mapped(x, DataOf) = x
  BY <1>1, <1>8, <1>10, EnvelopesAreFramed
<1>12. /\ Pended' \in Seq(Symbols) /\ Rest' \in Seq(Symbols) /\ unsent' \in Seq(Symbols)
  BY AheadIsTyped
<1>13. Ahead = x \o Ahead' /\ Ahead' \in Seq(Symbols)
  <2>1. x \in Seq(Symbols) /\ Pended' \in Seq(Symbols) /\ Rest' \in Seq(Symbols)
        /\ unsent' \in Seq(Symbols)
    BY <1>8, <1>12
  <2> DEFINE y == Pended' \o Rest'
  <2>2. y \in Seq(Symbols)
    BY <2>1, ConcatProperties
  <2>3. (x \o Pended') \o Rest' = x \o y
    <3>1. InOneSeq(Symbols, x, Pended', Rest')
      BY <2>1 DEF InOneSeq
    <3>. QED
      BY <3>1, Regrouped
  <2>4. Ahead' = y \o unsent'
    BY DEF Ahead
  <2>. HIDE DEF y
  <2>5. (x \o y) \o unsent' = x \o (y \o unsent')
    <3>1. InOneSeq(Symbols, x, y, unsent')
      BY <2>1, <2>2 DEF InOneSeq
    <3>. QED
      BY <3>1, Regrouped
  <2>6. Ahead = ((x \o Pended') \o Rest') \o unsent'
    BY <1>9 DEF Ahead
  <2>7. y \o unsent' \in Seq(Symbols)
    BY <2>1, <2>2, ConcatProperties
  <2>. QED
    BY <2>3, <2>4, <2>5, <2>6, <2>7
<1>14. EndOf \in [Symbols -> Seq(Frames \cup {None})]
  BY MapsLeaveFramingOut, Zenon DEF LeavesFramingOut
<1>15. DataOf \in [Symbols -> Seq(Symbols)]
  BY MapsLeaveFramingOut, Zenon DEF LeavesFramingOut
<1>16. Mapped(x \o Ahead', EndOf) = <<f>> \o Mapped(Ahead', EndOf)
  <2>1. x \in Seq(Symbols) /\ Ahead' \in Seq(Symbols)
    BY <1>8, <1>13
  <2>2. Mapped(x \o Ahead', EndOf) = Mapped(x, EndOf) \o Mapped(Ahead', EndOf)
    BY <1>14, <2>1, MappedConcat
  <2>. QED
    BY <1>11, <2>2
<1>17. Data = x \o Data' /\ Data' \in Seq(Symbols)
  <2>1. x \in Seq(Symbols) /\ Ahead' \in Seq(Symbols)
    BY <1>8, <1>13
  <2>2. Mapped(x \o Ahead', DataOf) = Mapped(x, DataOf) \o Mapped(Ahead', DataOf)
    BY <1>15, <2>1, MappedConcat
  <2>3. Mapped(Ahead', DataOf) \in Seq(Symbols)
    BY <1>15, <2>1, MappedInSeq
  <2>4. Data' = Mapped(Ahead', DataOf)
    BY DEF Data, DataOf
  <2>5. Data = Mapped(x \o Ahead', DataOf)
    BY <1>13 DEF Data
  <2>. QED
    BY <1>11, <2>2, <2>3, <2>4, <2>5
<1>18. Framed(x \o Data')
  BY <1>17
<1>19. /\ Framed(Data')
       /\ Data' # <<>> /\ EndsWhole(x \o Data') => EndsWhole(Data')
  BY <1>8, <1>11, <1>17, <1>18, FramedParts
<1>20. EndsWhole(Data) => EndsWhole(Data')
  <2> HAVE EndsWhole(Data)
  <2>1. EndsWhole(x \o Data')
    BY <1>17
  <2>2. CASE Data' = <<>>
    BY <2>2 DEF EndsWhole
  <2>3. CASE Data' # <<>>
    BY <1>19, <2>1, <2>3
  <2>. QED
    BY <2>2, <2>3
<1>. QED
  BY <1>1, <1>13, <1>16, <1>19, <1>20 DEF f

-----------------------------------------------------------------------------
(* The end of the body                                                       *)

\* Nothing but framing comes behind the chunk of size 0, and it comes only
\* once the server is done.
NothingBehindEnd(r, done) ==
  \A p \in 1 .. Len(r) :
    r[p] = ChunkSize(0) => done /\ \A q \in p .. Len(r) : r[q].is # "byte"

LEMMA PartKeepsEndLast ==
  ASSUME NEW r \in Seq(Symbols), NEW t \in Seq(Symbols), NEW m, NEW done,
         IsPart(t, r, m), NothingBehindEnd(r, done)
  PROVE  NothingBehindEnd(t, done)
<1>1. Len(r) \in Nat /\ Len(t) \in Nat /\ m \in Nat /\ Len(t) + m <= Len(r)
  BY LenProperties DEF IsPart
<1> SUFFICES ASSUME NEW p \in 1 .. Len(t), t[p] = ChunkSize(0)
             PROVE  done /\ \A q \in p .. Len(t) : t[q].is # "byte"
  BY DEF NothingBehindEnd
<1>. HIDE DEF Symbols
<1> DEFINE j == p + m
<1>2. j \in 1 .. Len(r) /\ t[p] = r[j]
  BY <1>1 DEF IsPart
<1>3. done /\ \A q \in j .. Len(r) : r[q].is # "byte"
  BY <1>2 DEF NothingBehindEnd
<1>4. ASSUME NEW q \in p .. Len(t) PROVE t[q].is # "byte"
  <2> DEFINE i == q + m
  <2>1. i \in j .. Len(r) /\ q \in 1 .. Len(t)
    BY <1>1
  <2>2. t[q] = r[i]
    BY <2>1 DEF IsPart
  <2>. HIDE DEF i, j
  <2>. QED
    BY <1>3, <2>1, <2>2
<1>. QED
  BY <1>3, <1>4

\* A prefix is a part.
LEMMA PrefixIsPart ==
  ASSUME NEW t \in Seq(Symbols), NEW v \in Seq(Symbols), NEW r, r = t \o v
  PROVE  r \in Seq(Symbols) /\ IsPart(t, r, 0)
<1>1. Len(t) \in Nat /\ Len(v) \in Nat
  BY LenProperties
<1>. HIDE DEF Symbols
<1>2. /\ r \in Seq(Symbols) /\ Len(r) = Len(t) + Len(v)
      /\ \A i \in 1 .. Len(t) + Len(v) : r[i] = IF i <= Len(t) THEN t[i] ELSE v[i - Len(t)]
  BY ConcatProperties
<1>3. ASSUME NEW q \in 1 .. Len(t) PROVE t[q] = r[q + 0]
  <2>1. q \in 1 .. Len(t) + Len(v) /\ q <= Len(t) /\ q + 0 = q
    BY <1>1
  <2>2. t[q] = r[q]
    BY <1>2, <2>1
  <2>. QED
    BY <2>1, <2>2
<1>4. Len(t) + 0 <= Len(r)
  BY <1>1, <1>2
<1>. QED
  BY <1>2, <1>3, <1>4 DEF IsPart

LEMMA EndLastAppended ==
  ASSUME NEW r \in Seq(Symbols), NEW x \in Seq(Symbols), NEW done,
         NothingBehindEnd(r, FALSE),
         \/ \A i \in 1 .. Len(x) : x[i] # ChunkSize(0)
         \/ done /\ \A i \in 1 .. Len(x) : x[i].is # "byte"
  PROVE  NothingBehindEnd(r \o x, done)
<1> DEFINE m == Len(r)
           n == Len(x)
           s == r \o x
<1>1. m \in Nat /\ n \in Nat /\ m = Len(r) /\ n = Len(x)
  BY LenProperties
<1>2. /\ Len(s) = Len(r) + Len(x)
      /\ \A i \in 1 .. Len(r) + Len(x) : s[i] = IF i <= Len(r) THEN r[i] ELSE x[i - Len(r)]
  BY ConcatProperties
<1>3. \A p \in 1 .. m : r[p] # ChunkSize(0)
  BY DEF NothingBehindEnd
<1>. HIDE DEF Symbols, m, n, s
<1>4. ASSUME NEW i \in 1 .. Len(s), ~(i <= m) PROVE i - m \in 1 .. n /\ s[i] = x[i - m]
  BY <1>1, <1>2, <1>4
<1> SUFFICES ASSUME NEW p \in 1 .. Len(s), s[p] = ChunkSize(0)
             PROVE  done /\ \A q \in p .. Len(s) : s[q].is # "byte"
  BY DEF NothingBehindEnd, s
<1>5. ~(p <= m)
  <2> SUFFICES ASSUME p <= m PROVE FALSE
    OBVIOUS
  <2>1. p \in 1 .. m /\ p \in 1 .. m + n
    BY <1>1
  <2>2. s[p] = r[p]
    BY <1>1, <1>2, <2>1
  <2>. QED
    BY <1>3, <2>1, <2>2
<1>6. p - m \in 1 .. n /\ s[p] = x[p - m]
  BY <1>4, <1>5
<1>7. done /\ \A i \in 1 .. n : x[i].is # "byte"
  BY <1>1, <1>6
<1>8. ASSUME NEW q \in p .. Len(s) PROVE s[q].is # "byte"
  <2>1. q \in 1 .. Len(s) /\ ~(q <= m)
    BY <1>1, <1>2, <1>5
  <2>2. q - m \in 1 .. n /\ s[q] = x[q - m]
    BY <1>4, <2>1
  <2>. QED
    BY <1>7, <2>2
<1>. QED
  BY <1>7, <1>8

\* What the server writes comes behind the rest of the body.
LEMMA RestGrows ==
  ASSUME StreamInv, NEW x \in Seq(Symbols), wire' = wire \o x, UNCHANGED <<buf, bufPos>>
  PROVE  Rest' = Rest \o x
<1>1. wire \in Seq(Symbols) /\ buf \in Seq(Symbols) /\ bufPos \in 0 .. Len(buf)
  BY DEF StreamInv, InvBuf
<1>. HIDE DEF Symbols
<1> DEFINE a == After(buf, bufPos)
<1>2. a \in Seq(Symbols)
  BY <1>1, AfterProperties
<1>3. Rest = a \o wire /\ Rest' = a \o (wire \o x)
  BY DEF Rest, Body
<1>. HIDE DEF a
<1>4. a \in Seq(Symbols) /\ wire \in Seq(Symbols) /\ x \in Seq(Symbols)
  BY <1>1, <1>2
<1>5. (a \o wire) \o x = a \o (wire \o x)
  <2>1. InOneSeq(Symbols, a, wire, x)
    BY <1>4 DEF InOneSeq
  <2>. QED
    BY <2>1, Regrouped
<1>. QED
  BY <1>3, <1>5

\* A chunk of unsent bytes is not the chunk of size 0.
LEMMA ChunkAddsNoEnd ==
  ASSUME StreamInv, ServerSendsChunk
  PROVE  \E x \in Seq(Symbols) :
           Rest' = Rest \o x /\ \A i \in 1 .. Len(x) : x[i] # ChunkSize(0)
<1>1. PICK k \in 1 .. Len(unsent) :
        wire' = wire \o <<ChunkSize(k), LineEnd>> \o SubSeq(unsent, 1, k) \o <<LineEnd>>
  BY DEF ServerSendsChunk
<1>2. /\ unsent \in Seq(Symbols) /\ wire \in Seq(Symbols)
      /\ \A i \in 1 .. Len(unsent) : IsData(unsent[i])
  BY DEF StreamInv, InvUnsent, InvBuf
<1>3. LineEnd \in Symbols /\ \A j \in Nat : ChunkSize(j) \in Symbols
  BY DEF LineEnd, ChunkSize, Symbols
<1>4. /\ LineEnd # ChunkSize(0) /\ \A j \in Nat \ {0} : ChunkSize(j) # ChunkSize(0)
      /\ \A c : IsData(c) => c # ChunkSize(0)
  BY DEF LineEnd, ChunkSize, IsData
<1>. HIDE DEF Symbols
<1> DEFINE h == <<ChunkSize(k), LineEnd>>
           d == SubSeq(unsent, 1, k)
           e == <<LineEnd>>
<1>5. Len(unsent) \in Nat /\ k \in Nat \ {0} /\ k \in 0 .. Len(unsent)
  BY <1>2, LenProperties
<1>6. /\ h \in Seq(Symbols) /\ Len(h) = 2 /\ h[1] = ChunkSize(k) /\ h[2] = LineEnd
      /\ e \in Seq(Symbols) /\ Len(e) = 1 /\ e[1] = LineEnd
  BY <1>3, <1>5
<1>7. d \in Seq(Symbols) /\ Len(d) = k /\ \A q \in 1 .. k : d[q] = unsent[q]
  BY <1>2, <1>5, FrontProperties
<1>8. wire' = ((wire \o h) \o d) \o e
  BY <1>1
<1>. HIDE DEF h, d, e
<1> DEFINE y == h \o d
           x == y \o e
<1>9. /\ y \in Seq(Symbols) /\ Len(y) = Len(h) + Len(d)
      /\ \A i \in 1 .. Len(h) + Len(d) : y[i] = IF i <= Len(h) THEN h[i] ELSE d[i - Len(h)]
  BY <1>6, <1>7, ConcatProperties
<1>. HIDE DEF y
<1>10. /\ x \in Seq(Symbols) /\ Len(x) = Len(y) + Len(e)
       /\ \A i \in 1 .. Len(y) + Len(e) : x[i] = IF i <= Len(y) THEN y[i] ELSE e[i - Len(y)]
  <2>1. y \in Seq(Symbols) /\ e \in Seq(Symbols)
    BY <1>6, <1>9
  <2>. QED
    BY <2>1, ConcatProperties
<1>11. wire' = wire \o x
  <2>1. wire \in Seq(Symbols) /\ h \in Seq(Symbols) /\ d \in Seq(Symbols)
        /\ e \in Seq(Symbols)
    BY <1>2, <1>6, <1>7
  <2>2. (wire \o h) \o d = wire \o y
    <3>1. InOneSeq(Symbols, wire, h, d)
      BY <2>1 DEF InOneSeq
    <3>. QED
      BY <3>1, Regrouped DEF y
  <2>3. y \in Seq(Symbols)
    BY <1>9
  <2>4. (wire \o y) \o e = wire \o (y \o e)
    <3>1. InOneSeq(Symbols, wire, y, e)
      BY <2>1, <2>3 DEF InOneSeq
    <3>. QED
      BY <3>1, Regrouped
  <2>. QED
    BY <1>8, <2>2, <2>4
<1>. HIDE DEF x
<1>12. ASSUME NEW i \in 1 .. Len(x) PROVE x[i] # ChunkSize(0)
  <2>1. Len(y) = 2 + k /\ Len(x) = 3 + k
    BY <1>5, <1>6, <1>7, <1>9, <1>10
  <2>2. CASE i <= 2
    <3>1. i = 1 \/ i = 2
      BY <2>2
    <3>2. x[i] = h[i]
      BY <1>5, <1>6, <1>7, <1>9, <1>10, <2>1, <2>2
    <3>. QED
      BY <1>4, <1>5, <1>6, <3>1, <3>2
  <2>3. CASE 2 < i /\ i <= 2 + k
    <3> DEFINE j == i - 2
    <3>1. j \in 1 .. k /\ j \in 1 .. Len(unsent)
      BY <1>5, <2>3
    <3>2. x[i] = d[j]
      BY <1>5, <1>6, <1>7, <1>9, <1>10, <2>1, <2>3
    <3>. HIDE DEF j
    <3>3. IsData(x[i])
      BY <1>2, <1>7, <3>1, <3>2
    <3>. QED
      BY <1>4, <3>3
  <2>4. CASE i = 3 + k
    <3>1. x[i] = e[1]
      BY <1>5, <1>6, <1>10, <2>1, <2>4
    <3>. QED
      BY <1>4, <1>6, <3>1
  <2>. QED
    BY <1>5, <2>1, <2>2, <2>3, <2>4
<1>13. UNCHANGED <<buf, bufPos>>
  BY DEF ServerSendsChunk, bodyVars
<1>14. Rest' = Rest \o x
  BY <1>10, <1>11, <1>13, RestGrows
<1>. QED
  BY <1>10, <1>12, <1>14

LEMMA FinishingAddsFraming ==
  ASSUME StreamInv, ServerFinishes
  PROVE  \E x \in Seq(Symbols) :
           Rest' = Rest \o x /\ \A i \in 1 .. Len(x) : x[i].is # "byte"
<1> DEFINE x == <<ChunkSize(0), LineEnd, LineEnd>>
<1>1. /\ LineEnd \in Symbols /\ ChunkSize(0) \in Symbols
      /\ LineEnd.is # "byte" /\ ChunkSize(0).is # "byte"
  BY DEF LineEnd, ChunkSize, Symbols
<1>. HIDE DEF Symbols
<1>2. x \in Seq(Symbols) /\ Len(x) = 3 /\ x[1] = ChunkSize(0) /\ x[2] = LineEnd
      /\ x[3] = LineEnd
  BY <1>1
<1>3. wire' = wire \o x /\ UNCHANGED <<buf, bufPos>>
  BY DEF ServerFinishes, bodyVars
<1>. HIDE DEF x
<1>4. \A q \in 1 .. Len(x) : x[q].is # "byte"
  <2>1. \A q \in 1 .. 3 : q = 1 \/ q = 2 \/ q = 3
    OBVIOUS
  <2>. QED
    BY <1>1, <1>2, <2>1
<1>5. Rest' = Rest \o x
  BY <1>2, <1>3, RestGrows
<1>. QED
  BY <1>2, <1>4, <1>5

-----------------------------------------------------------------------------
(* The feed                                                                  *)

\* The frames that are still to come, when the thread reads.
Arriving == Mapped(Ahead, EndOf)

\* What is ahead of a reader are envelopes one behind the other.  Only a
\* broken connection cuts the last one off; the server has sent all it had
\* when it is done, and the chunk of size 0 has no data behind it.
FeedInv ==
  at = "reading" =>
    /\ Framed(Data)
    /\ up => EndsWhole(Data)
    /\ ~up \/ finished => unsent = <<>>
    /\ NothingBehindEnd(Rest, finished)

LEMMA UnreadIsArriving ==
  /\ Unread = IF at = "reading" THEN Arriving ELSE <<>>
  /\ Unread' = IF at' = "reading" THEN Arriving' ELSE <<>>
<1>1. Unread = IF at = "reading" THEN Arriving ELSE <<>>
  BY DEF Unread, Arriving, Ahead, Pended, Rest, Body
<1>2. Unread' = IF at' = "reading" THEN Arriving' ELSE <<>>
  BY DEF Unread, Arriving, Ahead, Pended, Rest, Body
<1>. QED
  BY <1>1, <1>2

LEMMA ArrivingIsTyped ==
  /\ StreamInv => Arriving \in Seq(Frames \cup {None}) /\ Data \in Seq(Symbols)
  /\ StreamInv' => Arriving' \in Seq(Frames \cup {None}) /\ Data' \in Seq(Symbols)
<1>1. EndOf \in [Symbols -> Seq(Frames \cup {None})]
  BY MapsLeaveFramingOut, Zenon DEF LeavesFramingOut
<1>2. DataOf \in [Symbols -> Seq(Symbols)]
  BY MapsLeaveFramingOut, Zenon DEF LeavesFramingOut
<1>3. /\ StreamInv => Ahead \in Seq(Symbols)
      /\ StreamInv' => Ahead' \in Seq(Symbols)
  BY MapsLeaveFramingOut, MappedAhead
<1>4. Arriving' = Mapped(Ahead', EndOf) /\ Data' = Mapped(Ahead', DataOf)
  BY DEF Arriving, Data, EndOf, DataOf
<1>. HIDE DEF Symbols, None
<1>5. \A s \in Seq(Symbols) :
        Mapped(s, EndOf) \in Seq(Frames \cup {None}) /\ Mapped(s, DataOf) \in Seq(Symbols)
  BY <1>1, <1>2, MappedInSeq
<1>. QED
  BY <1>3, <1>4, <1>5 DEF Arriving, Data

\* A step that replaces every symbol by the same as before keeps the feed.
LEMMA SameFeed ==
  ASSUME \A g, T : LeavesFramingOut(g, T) => Mapped(Ahead', g) = Mapped(Ahead, g)
  PROVE  Arriving' = Arriving /\ Data' = Data
<1>1. Mapped(Ahead', EndOf) = Mapped(Ahead, EndOf)
      /\ Mapped(Ahead', DataOf) = Mapped(Ahead, DataOf)
  BY MapsLeaveFramingOut
<1>2. Arriving' = Mapped(Ahead', EndOf) /\ Data' = Mapped(Ahead', DataOf)
  BY DEF Arriving, Data, EndOf, DataOf
<1>. QED
  BY <1>1, <1>2 DEF Arriving, Data

\* The steps of Read between two envelopes.
ReadsOn == SkipsBlankLine \/ ReadsSizeLine \/ ReadsChunkData \/ Receives \/ TimesOut

LEMMA ReadingOnKeepsFeed ==
  ASSUME StreamInv, StreamInv', ReadsOn
  PROVE  /\ Arriving' = Arriving /\ Data' = Data
         /\ \E m : IsPart(Rest', Rest, m)
<1>1. InvBuf /\ InvBody /\ Rest \in Seq(Symbols) /\ Rest' \in Seq(Symbols)
  BY AheadIsTyped DEF StreamInv
<1>. HIDE DEF Symbols
<1>2. Len(Buffered) \in Nat
  BY <1>1, RestProperties
<1>3. CASE SkipsBlankLine \/ ReadsSizeLine
  <2>1. \A g, T : LeavesFramingOut(g, T) => Mapped(Ahead', g) = Mapped(Ahead, g)
    BY <1>3, LinesAreReadOver
  <2>2. HasLine /\ UNCHANGED <<buf, wire>>
    BY <1>3 DEF SkipsBlankLine, ReadsSizeLine
  <2>3. Len(Buffered) >= 1 /\ (Rest[1] # LineEnd => Len(Buffered) >= 2)
        /\ Head(Buffered) = Rest[1]
    BY <1>1, <2>2, LinesAreWhole, HeadOfRest
  <2>4. \E m \in 0 .. Len(Buffered) : bufPos' = bufPos + m
    <3>1. CASE SkipsBlankLine
      <4>1. bufPos' = bufPos + 1 /\ 1 \in 0 .. Len(Buffered)
        BY <1>2, <2>3, <3>1 DEF SkipsBlankLine
      <4>. QED
        BY <4>1
    <3>2. CASE ReadsSizeLine
      <4>1. bufPos' = bufPos + 2 /\ Head(Buffered).n > 0
        BY <3>2 DEF ReadsSizeLine
      <4>2. Rest[1] # LineEnd
        BY <2>3, <4>1 DEF LineEnd
      <4>3. 2 \in 0 .. Len(Buffered)
        BY <1>2, <2>3, <4>2
      <4>. QED
        BY <4>1, <4>3
    <3>. QED
      BY <1>3, <3>1, <3>2
  <2>5. \E m : IsPart(Rest', Rest, m)
    BY <1>1, <2>2, <2>4, Advancing
  <2>. QED
    BY <2>1, <2>5, SameFeed
<1>4. CASE ReadsChunkData
  <2>1. Ahead' = Ahead
    BY <1>4, DataMovesToPending
  <2>2. Takes \in 0 .. Len(Buffered)
    BY <1>1, <1>4, TakesProperties
  <2>3. bufPos' = bufPos + Takes /\ UNCHANGED <<buf, wire>>
    BY <1>4 DEF ReadsChunkData
  <2>. HIDE DEF Takes
  <2>4. IsPart(Rest', Rest, Takes)
    BY <1>1, <2>2, <2>3, Advancing
  <2>. QED
    BY <2>1, <2>4, SameFeed
<1>5. CASE Receives \/ TimesOut
  <2>1. Ahead' = Ahead /\ Rest' = Rest
    BY <1>1, <1>5, FillingKeepsAhead, FillKeepsRest
  <2>2. Len(Rest) \in Nat
    BY <1>1, LenProperties
  <2>3. \A q \in 1 .. Len(Rest) : q + 0 = q
    BY <2>2
  <2>4. IsPart(Rest, Rest, 0)
    BY <2>2, <2>3 DEF IsPart
  <2>. QED
    BY <2>1, <2>4, SameFeed
<1>. QED
  BY <1>3, <1>4, <1>5 DEF ReadsOn

\* The stream ends, but for an envelope that ends it, when no frame is ahead:
\* on the chunk of size 0, and when nothing more can be received.
LEMMA NothingArrives ==
  ASSUME StreamInv, FeedInv, at = "reading", ReadsLastChunk \/ ReadFails
  PROVE  Arriving = <<>>
<1>1. /\ InvBuf /\ InvBody /\ Framed(Data) /\ ~HasEnvelope
      /\ Pended \in Seq(Symbols) /\ Rest \in Seq(Symbols) /\ unsent \in Seq(Symbols)
  BY AheadIsTyped DEF StreamInv, FeedInv, ReadsLastChunk, ReadFails, Fills, InBody
<1>2. Mapped(Pended, EndOf) = <<>>
  BY <1>1, NoEnvelopeInFront
<1>3. /\ Len(Rest) \in Nat /\ Len(Buffered) \in Nat /\ Len(Rest) = Len(Buffered) + Len(wire)
  BY <1>1, RestProperties
<1>4. unsent = <<>> /\ \A q \in 1 .. Len(Rest) : Rest[q].is # "byte"
  <2>1. CASE ReadsLastChunk
    <3>1. HasLine /\ Head(Buffered) = ChunkSize(0)
      BY <2>1 DEF ReadsLastChunk
    <3>2. Len(Buffered) >= 1
      BY <1>1, <3>1, LinesAreWhole
    <3>3. Rest[1] = ChunkSize(0) /\ Len(Rest) >= 1
      BY <1>1, <3>1, <3>2, HeadOfRest
    <3>4. 1 \in 1 .. Len(Rest)
      BY <1>3, <3>3
    <3>. QED
      BY <3>3, <3>4 DEF FeedInv, NothingBehindEnd
  <2>2. CASE ReadFails
    <3>1. Fills /\ wire = <<>> /\ ~up
      BY <2>2 DEF ReadFails
    <3>2. Len(Buffered) <= 1 /\ Len(wire) = 0
      BY <1>1, <3>1, LittleIsLeft
    <3>3. needSize \in BOOLEAN
      BY <1>1 DEF InvBody
    <3>4. ASSUME NEW q \in 1 .. Len(Rest) PROVE Rest[q].is # "byte"
      <4>1. q = 1 /\ Len(Rest) >= 1 /\ Len(Buffered) >= 1
        BY <1>3, <3>2
      <4>2. needSize
        <5>1. Buffered # <<>>
          BY <4>1
        <5>. QED
          BY <3>1, <5>1 DEF Fills
      <4>3. Rest[1].is = "size" \/ Rest[1] = LineEnd
        BY <1>1, <4>1, <4>2 DEF InvBody, Begins, EndsAt
      <4>. QED
        BY <4>1, <4>3 DEF LineEnd
    <3>. QED
      BY <3>1, <3>4 DEF FeedInv
  <2>. QED
    BY <2>1, <2>2
<1>. HIDE DEF Symbols, None
<1>5. LeavesFramingOut(EndOf, Frames \cup {None})
  BY MapsLeaveFramingOut
<1>6. Mapped(Rest, EndOf) = <<>>
  BY <1>1, <1>4, <1>5, FramingGivesNothing
<1>7. EndOf \in [Symbols -> Seq(Frames \cup {None})]
  BY <1>5, Zenon DEF LeavesFramingOut
<1>8. Mapped(unsent, EndOf) = <<>>
  BY <1>4, <1>7, MappedShort
<1>9. Arriving = Mapped(Pended, EndOf) \o Mapped(Rest, EndOf) \o Mapped(unsent, EndOf)
  BY <1>5, MappedAhead DEF Arriving
<1>10. <<>> \o <<>> \o <<>> = <<>>
  OBVIOUS
<1>. QED
  BY <1>2, <1>6, <1>8, <1>9, <1>10

\* A fresh subscription has nothing ahead.
LEMMA OpeningIsEmpty ==
  ASSUME Opens
  PROVE  Ahead' = <<>> /\ Arriving' = <<>> /\ Data' = <<>> /\ Rest' = <<>>
<1>1. /\ pending' = <<>> /\ pendingPos' = 0 /\ buf' = <<>> /\ bufPos' = 0
      /\ wire' = <<>> /\ unsent' = <<>>
  BY DEF Opens
<1>2. After(<<>>, 0) = <<>> /\ <<>> \o <<>> = <<>>
  BY DEF After
<1>3. Rest' = <<>> /\ Pended' = <<>>
  BY <1>1, <1>2 DEF Rest, Body, Pended
<1>4. Ahead' = <<>>
  BY <1>1, <1>2, <1>3 DEF Ahead
<1>5. EndOf \in [Symbols -> Seq(Frames \cup {None})]
  BY MapsLeaveFramingOut, Zenon DEF LeavesFramingOut
<1>6. DataOf \in [Symbols -> Seq(Symbols)]
  BY MapsLeaveFramingOut, Zenon DEF LeavesFramingOut
<1>7. Mapped(<<>>, EndOf) = <<>> /\ Mapped(<<>>, DataOf) = <<>>
  BY <1>5, <1>6, MappedShort
<1>8. Arriving' = Mapped(Ahead', EndOf) /\ Data' = Mapped(Ahead', DataOf)
  BY DEF Arriving, Data, EndOf, DataOf
<1>. QED
  BY <1>3, <1>4, <1>7, <1>8

\* A frame comes last in the feed it is published to.
LEMMA PublishingFeeds ==
  ASSUME StreamInv, NEW f \in Frames, ServerPublishes(f)
  PROVE  /\ Arriving' = Arriving \o <<f>>
         /\ \E e : Framed(e) /\ EndsWhole(e) /\ Data' = Data \o e
<1> DEFINE e == Envelope(f)
<1>1. /\ e \in Seq(Symbols) /\ Len(e) = EnvelopeSize(f)
      /\ \A k \in 1 .. EnvelopeSize(f) : e[k] = ByteAt(f, k)
      /\ Ahead' = Ahead \o e
  BY PublishingAppends
<1>. HIDE DEF e, Symbols, None
<1>2. Framed(e) /\ EndsWhole(e) /\ Mapped(e, EndOf) = <<f>> /\ Mapped(e, DataOf) = e
  BY <1>1, EnvelopesAreFramed
<1>3. EndOf \in [Symbols -> Seq(Frames \cup {None})]
  BY MapsLeaveFramingOut, Zenon DEF LeavesFramingOut
<1>4. DataOf \in [Symbols -> Seq(Symbols)]
  BY MapsLeaveFramingOut, Zenon DEF LeavesFramingOut
<1>5. Ahead \in Seq(Symbols) /\ e \in Seq(Symbols)
  BY <1>1, MapsLeaveFramingOut, MappedAhead
<1>6. Mapped(Ahead \o e, EndOf) = Mapped(Ahead, EndOf) \o Mapped(e, EndOf)
  BY <1>3, <1>5, MappedConcat
<1>7. Mapped(Ahead \o e, DataOf) = Mapped(Ahead, DataOf) \o Mapped(e, DataOf)
  BY <1>4, <1>5, MappedConcat
<1>8. Arriving' = Mapped(Ahead', EndOf) /\ Data' = Mapped(Ahead', DataOf)
  BY DEF Arriving, Data, EndOf, DataOf
<1>9. Data' = Data \o e
  BY <1>1, <1>2, <1>7, <1>8 DEF Data
<1>10. Arriving' = Arriving \o <<f>>
  BY <1>1, <1>2, <1>6, <1>8 DEF Arriving
<1>. QED
  BY <1>2, <1>9, <1>10

\* What a broken connection loses is the last part of the feed.
LEMMA BreakingLoses ==
  ASSUME StreamInv, StreamInv', ConnectionBreaks
  PROVE  /\ Arriving' \in Seq(Frames \cup {None})
         /\ \E y \in Seq(Frames \cup {None}) : Arriving = Arriving' \o y
         /\ Data' \in Seq(Symbols) /\ \E z \in Seq(Symbols) : Data = Data' \o z
         /\ \E v \in Seq(Symbols) : Rest = Rest' \o v
<1>1. PICK a \in Seq(Symbols) : Ahead = Ahead' \o a
  BY BreakingCutsOff
<1>2. Ahead' \in Seq(Symbols) /\ \E v \in Seq(Symbols) : Rest = Rest' \o v
  BY BreakingCutsOff
<1>. HIDE DEF Symbols, None
<1>3. EndOf \in [Symbols -> Seq(Frames \cup {None})]
  BY MapsLeaveFramingOut, Zenon DEF LeavesFramingOut
<1>4. DataOf \in [Symbols -> Seq(Symbols)]
  BY MapsLeaveFramingOut, Zenon DEF LeavesFramingOut
<1>5. Mapped(Ahead' \o a, EndOf) = Mapped(Ahead', EndOf) \o Mapped(a, EndOf)
  BY <1>2, <1>3, MappedConcat
<1>6. Mapped(Ahead' \o a, DataOf) = Mapped(Ahead', DataOf) \o Mapped(a, DataOf)
  <2>1. Ahead' \in Seq(Symbols) /\ a \in Seq(Symbols)
    BY <1>2
  <2>. QED
    BY <1>4, <2>1, MappedConcat
<1>7. Mapped(a, EndOf) \in Seq(Frames \cup {None}) /\ Mapped(a, DataOf) \in Seq(Symbols)
  BY <1>3, <1>4, MappedInSeq
<1>8. Arriving' = Mapped(Ahead', EndOf) /\ Data' = Mapped(Ahead', DataOf)
  BY DEF Arriving, Data, EndOf, DataOf
<1>9. Arriving = Arriving' \o Mapped(a, EndOf)
  BY <1>1, <1>5, <1>8 DEF Arriving
<1>10. Data = Data' \o Mapped(a, DataOf)
  BY <1>1, <1>6, <1>8 DEF Data
<1>11. Arriving' \in Seq(Frames \cup {None}) /\ Data' \in Seq(Symbols)
  BY ArrivingIsTyped
<1>. QED
  BY <1>2, <1>7, <1>9, <1>10, <1>11

-----------------------------------------------------------------------------
LEMMA FeedInit == Init => FeedInv
  BY DEF Init, FeedInv

LEMMA FeedStep ==
  ASSUME StreamInv, StreamInv', FeedInv, Next
  PROVE  FeedInv'
<1> SUFFICES ASSUME at' = "reading"
             PROVE  /\ Framed(Data')
                    /\ up' => EndsWhole(Data')
                    /\ ~up' \/ finished' => unsent' = <<>>
                    /\ NothingBehindEnd(Rest', finished')
  BY DEF FeedInv, NothingBehindEnd, Framed, EndsWhole, Follows, IsEnd, IsData
<1>1. CASE Opens
  <2>1. Data' = <<>> /\ Rest' = <<>> /\ unsent' = <<>>
    BY <1>1, OpeningIsEmpty DEF Opens
  <2>2. <<>> \in Seq(Symbols) /\ Len(<<>>) = 0
    OBVIOUS
  <2>3. Framed(<<>>) /\ EndsWhole(<<>>)
    BY <2>2 DEF Framed, EndsWhole
  <2>4. NothingBehindEnd(<<>>, finished')
    BY <2>2 DEF NothingBehindEnd
  <2>. QED
    BY <2>1, <2>3, <2>4
<1>2. CASE OpenFails \/ Closes \/ ReadsEnding \/ ReadsLastChunk \/ ReadFails
  BY <1>2 DEF OpenFails, Closes, ReadsEnding, ReadsLastChunk, ReadFails, ReadReturnsEnded
<1>3. CASE ReadsEvent
  <2>1. /\ at = "reading" /\ HasEnvelope /\ Consumes(HeaderSize + DeclaredLength)
        /\ UNCHANGED <<buf, bufPos, wire, unsent, up, finished>>
    BY <1>3 DEF ReadsEvent, bodyVars, sendVars
  <2>2. Rest' = Rest
    BY <2>1 DEF Rest
  <2>3. /\ Framed(Data) /\ (up => EndsWhole(Data)) /\ (~up \/ finished => unsent = <<>>)
        /\ NothingBehindEnd(Rest, finished)
    BY <2>1 DEF FeedInv
  <2>4. Framed(Data') /\ (EndsWhole(Data) => EndsWhole(Data'))
    BY <2>1, <2>2, <2>3, ConsumingTakesEnvelope
  <2>. QED
    BY <2>1, <2>2, <2>3, <2>4
<1>4. CASE ReadsOn
  <2>1. at = "reading" /\ UNCHANGED <<unsent, up, finished>>
    BY <1>4 DEF ReadsOn, SkipsBlankLine, ReadsSizeLine, ReadsChunkData, Receives, TimesOut,
       Fills, InBody, sendVars
  <2>2. Data' = Data /\ \E m : IsPart(Rest', Rest, m)
    BY <1>4, ReadingOnKeepsFeed
  <2>3. Rest \in Seq(Symbols) /\ Rest' \in Seq(Symbols)
    BY AheadIsTyped
  <2>4. NothingBehindEnd(Rest, finished)
    BY <2>1 DEF FeedInv
  <2>5. NothingBehindEnd(Rest', finished)
    BY <2>2, <2>3, <2>4, PartKeepsEndLast
  <2>. QED
    BY <2>1, <2>2, <2>5 DEF FeedInv
<1>5. ASSUME NEW f \in Frames, ServerPublishes(f)
      PROVE  /\ Framed(Data') /\ (up' => EndsWhole(Data'))
             /\ (~up' \/ finished' => unsent' = <<>>) /\ NothingBehindEnd(Rest', finished')
  <2>1. /\ at = "reading" /\ up /\ ~finished /\ up' = up /\ finished' = finished
        /\ UNCHANGED <<buf, bufPos, wire>>
    BY <1>5 DEF ServerPublishes, bodyVars
  <2>2. Rest' = Rest
    BY <2>1 DEF Rest
  <2>3. PICK e : Framed(e) /\ EndsWhole(e) /\ Data' = Data \o e
    BY <1>5, PublishingFeeds
  <2>4. Framed(Data) /\ EndsWhole(Data) /\ NothingBehindEnd(Rest, finished)
    BY <2>1 DEF FeedInv
  <2>5. Framed(Data \o e) /\ EndsWhole(Data \o e)
    BY <2>3, <2>4, FramedJoin
  <2>. QED
    BY <2>1, <2>2, <2>3, <2>4, <2>5
<1>6. CASE ServerSendsChunk \/ ServerFinishes
  <2>1. at = "reading" /\ up /\ up' = up
    BY <1>6 DEF ServerSendsChunk, ServerFinishes
  <2>2. \A g, T : LeavesFramingOut(g, T) => Mapped(Ahead', g) = Mapped(Ahead, g)
    BY <1>6, SendingAddsFraming
  <2>3. Data' = Data
    BY <2>2, SameFeed
  <2>4. Framed(Data) /\ EndsWhole(Data) /\ NothingBehindEnd(Rest, finished)
    BY <2>1 DEF FeedInv
  <2>5. Rest \in Seq(Symbols)
    BY AheadIsTyped
  <2>6. ~finished
    <3>1. CASE ServerSendsChunk
      <4>1. PICK k \in 1 .. Len(unsent) : unsent' = After(unsent, k)
        BY <3>1 DEF ServerSendsChunk
      <4>2. unsent # <<>>
        BY <4>1
      <4>. QED
        BY <2>1, <4>2 DEF FeedInv
    <3>2. CASE ServerFinishes
      BY <3>2 DEF ServerFinishes
    <3>. QED
      BY <1>6, <3>1, <3>2
  <2>7. NothingBehindEnd(Rest, FALSE)
    BY <2>4, <2>6 DEF NothingBehindEnd
  <2>8. CASE ServerSendsChunk
    <3>1. PICK x \in Seq(Symbols) :
            Rest' = Rest \o x /\ \A i \in 1 .. Len(x) : x[i] # ChunkSize(0)
      BY <2>8, ChunkAddsNoEnd
    <3>2. NothingBehindEnd(Rest \o x, finished')
      BY <2>5, <2>7, <3>1, EndLastAppended
    <3>3. finished' = finished
      BY <2>8 DEF ServerSendsChunk
    <3>. QED
      BY <2>1, <2>3, <2>4, <2>6, <3>1, <3>2, <3>3
  <2>9. CASE ServerFinishes
    <3>1. PICK x \in Seq(Symbols) :
            Rest' = Rest \o x /\ \A i \in 1 .. Len(x) : x[i].is # "byte"
      BY <2>9, FinishingAddsFraming
    <3>2. finished' = TRUE /\ unsent' = unsent /\ unsent = <<>>
      BY <2>9 DEF ServerFinishes
    <3>3. NothingBehindEnd(Rest \o x, finished')
      BY <2>5, <2>7, <3>1, <3>2, EndLastAppended
    <3>. QED
      BY <2>1, <2>3, <2>4, <3>1, <3>2, <3>3
  <2>. QED
    BY <1>6, <2>8, <2>9
<1>7. CASE ConnectionBreaks
  <2>1. at = "reading" /\ up' = FALSE /\ unsent' = <<>> /\ finished' = finished
    BY <1>7 DEF ConnectionBreaks
  <2>2. Framed(Data) /\ NothingBehindEnd(Rest, finished)
    BY <2>1 DEF FeedInv
  <2>3. PICK z \in Seq(Symbols) : Data = Data' \o z
    BY <1>7, BreakingLoses
  <2>4. PICK v \in Seq(Symbols) : Rest = Rest' \o v
    BY <1>7, BreakingLoses
  <2>5. Data' \in Seq(Symbols) /\ Framed(Data' \o z)
    BY <1>7, <2>2, <2>3, BreakingLoses
  <2>6. Framed(Data')
    BY <2>5, FramedParts
  <2>7. Rest' \in Seq(Symbols) /\ Rest \in Seq(Symbols)
    BY AheadIsTyped
  <2>8. IsPart(Rest', Rest, 0)
    BY <2>4, <2>7, PrefixIsPart
  <2>9. NothingBehindEnd(Rest', finished)
    BY <2>2, <2>7, <2>8, PartKeepsEndLast
  <2>. QED
    BY <2>1, <2>6, <2>9
<1>. QED
  BY <1>1, <1>2, <1>3, <1>4, <1>5, <1>6, <1>7 DEF Next, ReadSteps, ReadsOn

LEMMA FrontOfFeed ==
  ASSUME NEW T, NEW x \in T, NEW s \in Seq(T)
  PROVE  <<x>> \o s # <<>> /\ Head(<<x>> \o s) = x /\ Tail(<<x>> \o s) = s
<1> DEFINE e == <<x>>
           t == e \o s
<1>1. e \in Seq(T) /\ Len(e) = 1 /\ e[1] = x
  OBVIOUS
<1>. HIDE DEF e
<1>2. /\ t \in Seq(T) /\ Len(t) = Len(e) + Len(s)
      /\ \A i \in 1 .. Len(e) + Len(s) : t[i] = IF i <= Len(e) THEN e[i] ELSE s[i - Len(e)]
  BY <1>1, ConcatProperties
<1>3. Len(s) \in Nat
  BY LenProperties
<1>. HIDE DEF t
<1>4. Len(t) = Len(s) + 1 /\ Len(t) # 0 /\ 1 \in 1 .. Len(e) + Len(s)
  BY <1>1, <1>2, <1>3
<1>5. t # <<>>
  BY <1>2, <1>4, EmptySeq
<1>6. /\ Head(t) = t[1] /\ Tail(t) \in Seq(T) /\ Len(Tail(t)) = Len(t) - 1
      /\ \A i \in 1 .. Len(Tail(t)) : Tail(t)[i] = t[i + 1]
  BY <1>2, <1>5, HeadTailProperties
<1>7. t[1] = x
  BY <1>1, <1>2, <1>4
<1> DEFINE u == Tail(t)
<1>8. Len(u) = Len(s) /\ u \in Seq(T) /\ \A i \in 1 .. Len(s) : u[i] = t[i + 1]
  BY <1>3, <1>4, <1>6
<1>. HIDE DEF u
<1>9. ASSUME NEW i \in 1 .. Len(s) PROVE u[i] = s[i]
  <2> DEFINE j == i + 1
  <2>1. j \in 1 .. Len(e) + Len(s) /\ ~(j <= Len(e)) /\ j - Len(e) = i
    BY <1>1, <1>3
  <2>. HIDE DEF j
  <2>2. t[j] = s[i]
    BY <1>2, <2>1
  <2>3. u[i] = t[j]
    BY <1>8 DEF j
  <2>. QED
    BY <2>2, <2>3
<1>10. u = s
  BY <1>8, <1>9, SeqEqual
<1>. QED
  BY <1>5, <1>6, <1>7, <1>10 DEF t, e, u

\* What is left when the last part of a sequence is lost.
LEMMA FrontLeft ==
  ASSUME NEW T, NEW s \in Seq(T), NEW t \in Seq(T)
  PROVE  Len(s) \in 0 .. Len(s \o t) /\ SubSeq(s \o t, 1, Len(s)) = s
<1> DEFINE c == s \o t
           n == Len(s)
           f == SubSeq(c, 1, n)
<1>1. /\ c \in Seq(T) /\ Len(c) = Len(s) + Len(t)
      /\ \A i \in 1 .. Len(s) + Len(t) : c[i] = IF i <= Len(s) THEN s[i] ELSE t[i - Len(s)]
  BY ConcatProperties
<1>2. Len(s) \in Nat /\ Len(t) \in Nat /\ n = Len(s)
  BY LenProperties
<1>. HIDE DEF c, n
<1>3. n \in 0 .. Len(c)
  BY <1>1, <1>2
<1>4. f \in Seq(T) /\ Len(f) = n /\ \A q \in 1 .. n : f[q] = c[q]
  BY <1>1, <1>3, FrontProperties
<1>. HIDE DEF f
<1>5. ASSUME NEW q \in 1 .. Len(s) PROVE f[q] = s[q]
  <2>1. q \in 1 .. Len(s) + Len(t) /\ q <= Len(s) /\ q \in 1 .. n
    BY <1>2
  <2>2. c[q] = s[q]
    BY <1>1, <2>1
  <2>. QED
    BY <1>4, <2>1, <2>2
<1>6. f = s
  BY <1>2, <1>4, <1>5, SeqEqual
<1>. QED
  BY <1>2, <1>3, <1>6 DEF c, f, n

-----------------------------------------------------------------------------
(* The stream implements the feed                                            *)

LEMMA FeedInitially == Init => Feed!Init
<1> SUFFICES ASSUME Init PROVE Feed!Init
  OBVIOUS
<1>1. at = "closed" /\ result = Returned("none")
  BY DEF Init
<1>2. Unread = <<>>
  BY <1>1 DEF Unread
<1>. QED
  BY <1>1, <1>2 DEF Feed!Init, Feed!Returned, Returned, None

LEMMA ReadsEventHears ==
  ASSUME StreamInv, StreamInv', FeedInv, ReadsEvent
  PROVE  Feed!Hears
<1>1. /\ at = "reading" /\ at' = "reading" /\ HasEnvelope /\ PayloadOf \in Events
      /\ Consumes(HeaderSize + DeclaredLength) /\ UNCHANGED <<buf, bufPos, wire, unsent>>
      /\ result' = [kind |-> "event", frame |-> PayloadOf]
  BY DEF ReadsEvent, bodyVars, sendVars
<1>2. Rest' = Rest /\ Framed(Data)
  BY <1>1 DEF Rest, FeedInv
<1>3. PayloadOf \in Frames /\ Mapped(Ahead, EndOf) = <<PayloadOf>> \o Mapped(Ahead', EndOf)
  BY <1>1, <1>2, ConsumingTakesEnvelope
<1>4. Unread = Arriving /\ Unread' = Arriving'
  BY <1>1, UnreadIsArriving
<1>5. Arriving' \in Seq(Frames \cup {None})
  BY ArrivingIsTyped
<1>6. Arriving = <<PayloadOf>> \o Arriving'
  BY <1>3 DEF Arriving, EndOf
<1>7. PayloadOf \in Frames \cup {None}
  BY <1>3
<1>8. Arriving # <<>> /\ Head(Arriving) = PayloadOf /\ Tail(Arriving) = Arriving'
  BY <1>5, <1>6, <1>7, FrontOfFeed
<1>. QED
  BY <1>1, <1>4, <1>8 DEF Feed!Hears

LEMMA EndingEnds ==
  ASSUME StreamInv, StreamInv', FeedInv, at = "reading",
         ReadsEnding \/ ReadsLastChunk \/ ReadFails
  PROVE  Feed!Ends
<1>1. at' = "ended" /\ result' = Returned("ended")
  BY DEF ReadsEnding, ReadsLastChunk, ReadFails, ReadReturnsEnded
<1>2. Unread = Arriving /\ Unread' = <<>>
  BY <1>1, UnreadIsArriving
<1>3. result' = Feed!Returned("ended")
  BY <1>1 DEF Feed!Returned, Returned, None
<1>4. Arriving = <<>> \/ Head(Arriving) \in Endings
  <2>1. CASE ReadsLastChunk \/ ReadFails
    BY <2>1, NothingArrives
  <2>2. CASE ReadsEnding
    <3>1. /\ HasEnvelope /\ PayloadOf \notin Events
          /\ Consumes(HeaderSize + DeclaredLength) /\ UNCHANGED <<buf, bufPos, wire, unsent>>
      BY <2>2 DEF ReadsEnding, bodyVars, sendVars
    <3>2. Rest' = Rest /\ Framed(Data)
      BY <3>1 DEF Rest, FeedInv
    <3>3. PayloadOf \in Frames
          /\ Mapped(Ahead, EndOf) = <<PayloadOf>> \o Mapped(Ahead', EndOf)
      BY <3>1, <3>2, ConsumingTakesEnvelope
    <3>4. Arriving' \in Seq(Frames \cup {None})
      BY ArrivingIsTyped
    <3>5. Arriving = <<PayloadOf>> \o Arriving'
      BY <3>3 DEF Arriving, EndOf
    <3>6. PayloadOf \in Frames \cup {None}
      BY <3>3
    <3>7. Head(Arriving) = PayloadOf
      BY <3>4, <3>5, <3>6, FrontOfFeed
    <3>8. PayloadOf \in Endings
      BY <3>1, <3>3 DEF Frames
    <3>. QED
      BY <3>7, <3>8
  <2>. QED
    BY <2>1, <2>2
<1>. QED
  BY <1>1, <1>2, <1>3, <1>4 DEF Feed!Ends

LEMMA ReadingOnReads ==
  ASSUME StreamInv, StreamInv', ReadsOn
  PROVE  Feed!Reads \/ Feed!Waits
<1>1. at = "reading" /\ at' = "reading"
      /\ (result' = Returned("none") \/ result' = Returned("timeout"))
  BY DEF ReadsOn, SkipsBlankLine, ReadsSizeLine, ReadsChunkData, Receives, TimesOut,
     Fills, InBody
<1>2. Unread' = Unread
  BY <1>1, ReadingOnKeepsFeed, UnreadIsArriving
<1>3. \A kind : Returned(kind) = Feed!Returned(kind)
  BY DEF Feed!Returned, Returned, None
<1>. QED
  BY <1>1, <1>2, <1>3 DEF Feed!Reads, Feed!Waits

LEMMA PublishingPublishes ==
  ASSUME StreamInv, NEW f \in Frames, ServerPublishes(f)
  PROVE  Feed!Publish(f)
<1>1. at = "reading" /\ at' = "reading" /\ result' = result
  BY DEF ServerPublishes
<1>2. Unread = Arriving /\ Unread' = Arriving'
  BY <1>1, UnreadIsArriving
<1>3. Arriving' = Arriving \o <<f>>
  BY PublishingFeeds
<1>4. Arriving \in Seq(Frames \cup {None}) /\ f \in Frames \cup {None}
  BY ArrivingIsTyped
<1>5. Append(Arriving, f) = Arriving \o <<f>>
  BY <1>4, AppendIsConcat
<1>. QED
  BY <1>1, <1>2, <1>3, <1>5 DEF Feed!Publish

\* What the server sends of its own accord, and what is lost, shows only as
\* the loss of the last part of the feed.
LEMMA SendingStutters ==
  ASSUME StreamInv, StreamInv', ServerSendsChunk \/ ServerFinishes
  PROVE  UNCHANGED Feed!feedVars
<1>1. at' = at /\ result' = result
  BY DEF ServerSendsChunk, ServerFinishes
<1>2. \A g, T : LeavesFramingOut(g, T) => Mapped(Ahead', g) = Mapped(Ahead, g)
  BY SendingAddsFraming
<1>3. Arriving' = Arriving
  BY <1>2, SameFeed
<1>. QED
  BY <1>1, <1>3, UnreadIsArriving DEF Feed!feedVars

LEMMA BreakingIsLoss ==
  ASSUME StreamInv, StreamInv', ConnectionBreaks
  PROVE  Feed!Loses \/ UNCHANGED Feed!feedVars
<1>1. at' = at /\ result' = result
  BY DEF ConnectionBreaks
<1>2. CASE at = "reading"
  <2>1. Unread = Arriving /\ Unread' = Arriving'
    BY <1>1, <1>2, UnreadIsArriving
  <2>2. PICK y \in Seq(Frames \cup {None}) : Arriving = Arriving' \o y
    BY BreakingLoses
  <2>3. Arriving' \in Seq(Frames \cup {None})
    BY BreakingLoses
  <2>4. Len(Arriving') \in 0 .. Len(Arriving' \o y)
        /\ SubSeq(Arriving' \o y, 1, Len(Arriving')) = Arriving'
    BY <2>3, FrontLeft
  <2>5. /\ Len(Arriving') \in 0 .. Len(Arriving)
        /\ Arriving' = SubSeq(Arriving, 1, Len(Arriving'))
    BY <2>2, <2>4
  <2>6. \E n \in 0 .. Len(Unread) : Unread' = SubSeq(Unread, 1, n)
    BY <2>1, <2>5
  <2>. QED
    BY <1>1, <2>6 DEF Feed!Loses
<1>3. CASE at # "reading"
  <2>1. Unread' = Unread
    BY <1>1, <1>3, UnreadIsArriving
  <2>. QED
    BY <1>1, <2>1 DEF Feed!feedVars
<1>. QED
  BY <1>2, <1>3

LEMMA FeedSimulated ==
  ASSUME StreamInv, StreamInv', FeedInv, [Next]_vars
  PROVE  [Feed!Next]_(Feed!feedVars)
<1>1. CASE Opens
  <2>1. at = "closed" /\ at' = "reading" /\ result' = Returned("none")
    BY <1>1 DEF Opens
  <2>2. Unread' = <<>>
    BY <1>1, <2>1, OpeningIsEmpty, UnreadIsArriving
  <2>3. result' = Feed!Returned("none")
    BY <2>1 DEF Feed!Returned, Returned, None
  <2>4. Feed!Subscribe
    BY <2>1, <2>2, <2>3 DEF Feed!Subscribe
  <2>. QED
    BY <2>4 DEF Feed!Next
<1>2. CASE OpenFails
  <2>1. at = "closed" /\ at' = at /\ result' = Returned("ended")
    BY <1>2 DEF OpenFails
  <2>2. Unread = <<>> /\ Unread' = <<>>
    BY <2>1, UnreadIsArriving
  <2>3. result' = Feed!Returned("ended")
    BY <2>1 DEF Feed!Returned, Returned, None
  <2>4. Feed!Refused
    BY <2>1, <2>2, <2>3 DEF Feed!Refused
  <2>. QED
    BY <2>4 DEF Feed!Next
<1>3. CASE Closes
  <2>1. at = "ended" /\ at' = "closed" /\ result' = result
    BY <1>3 DEF Closes
  <2>2. Unread = <<>> /\ Unread' = <<>>
    BY <2>1, UnreadIsArriving
  <2>. QED
    BY <2>1, <2>2 DEF Feed!feedVars
<1>4. CASE ReadsEvent
  BY <1>4, ReadsEventHears DEF Feed!Next
<1>5. CASE ReadsEnding \/ ReadsLastChunk \/ ReadFails
  <2>1. at = "reading"
    BY <1>5 DEF ReadsEnding, ReadsLastChunk, ReadFails, Fills, InBody
  <2>. QED
    BY <1>5, <2>1, EndingEnds DEF Feed!Next
<1>6. CASE ReadsOn
  BY <1>6, ReadingOnReads DEF Feed!Next
<1>7. ASSUME NEW f \in Frames, ServerPublishes(f) PROVE [Feed!Next]_(Feed!feedVars)
  <2>1. Feed!Publish(f) /\ f \in Events \cup Endings
    BY <1>7, PublishingPublishes DEF Frames
  <2>. QED
    BY <2>1 DEF Feed!Next
<1>8. CASE ServerSendsChunk \/ ServerFinishes
  BY <1>8, SendingStutters
<1>9. CASE ConnectionBreaks
  BY <1>9, BreakingIsLoss DEF Feed!Next
<1>10. CASE UNCHANGED vars
  <2>1. UNCHANGED <<at, result, pending, pendingPos, buf, bufPos, wire, unsent>>
    BY <1>10 DEF vars, readVars, bodyVars, sendVars
  <2>2. Unread' = Unread
    BY <2>1 DEF Unread, EndOf
  <2>. QED
    BY <2>1, <2>2 DEF Feed!feedVars
<1>. QED
  BY <1>1, <1>2, <1>3, <1>4, <1>5, <1>6, <1>7, <1>8, <1>9, <1>10 DEF Next, ReadSteps, ReadsOn

LEMMA FeedStutters ==
  ASSUME FeedInv, UNCHANGED vars
  PROVE  FeedInv'
<1>1. UNCHANGED <<at, up, finished, pending, pendingPos, buf, bufPos, wire, unsent>>
  BY DEF vars, readVars, bodyVars, sendVars
<1>2. Rest' = Rest /\ Ahead' = Ahead
  BY <1>1 DEF Rest, Body, Ahead, Pended
<1>3. Data' = Data
  BY <1>2 DEF Data, DataOf
<1>. QED
  BY <1>1, <1>2, <1>3 DEF FeedInv

LEMMA FeedInvariant == Spec => []FeedInv
<1>1. StreamInv /\ StreamInv' /\ FeedInv /\ [Next]_vars => FeedInv'
  BY FeedStep, FeedStutters
<1>. QED
  BY <1>1, FeedInit, StreamInvariant, PTL DEF Spec

-----------------------------------------------------------------------------
\* Types, and neither read position ever leaves its buffer, however envelopes
\* are cut into chunks and chunks into reads: EventStream::Read, ReadBody,
\* ReadLine and Fill.
THEOREM StreamTypeOK == Spec => []TypeOK
  BY StreamInvariant, StreamInvImplies, PTL

\* However long a subscription lives, buf_ holds at most the consumed prefix
\* that is tolerated, one symbol and one Recv, and pending_ the prefix that is
\* tolerated, less than an envelope and what was in buf_.
THEOREM BuffersStayBounded == Spec => []BuffersAreReclaimed
  BY StreamInvariant, StreamInvImplies, PTL

\* However the server cuts its envelopes into chunks, the network the chunks
\* into reads, and the two layers their buffers, StreamLoop reads the frames
\* that arrive, each once, in order and whole; a timeout loses nothing, a
\* broken connection only what had not arrived; and the end is reported
\* behind the last frame.  This is ReadsTheFeed without its liveness.
THEOREM StreamReadsTheFeed == Spec => Feed!Spec
<1>1. Init => Feed!Init
  BY FeedInitially
<1>2. StreamInv /\ StreamInv' /\ FeedInv /\ [Next]_vars => [Feed!Next]_(Feed!feedVars)
  BY FeedSimulated
<1>. QED
  BY <1>1, <1>2, StreamInvariant, FeedInvariant, PTL DEF Spec, Feed!Spec
=============================================================================
