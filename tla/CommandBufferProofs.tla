------------------------ MODULE CommandBufferProofs ------------------------
(***************************************************************************)
(* For rings of every size, commands of every length and content, and any  *)
(* number of them: the two offsets stay apart, the engine never finds part *)
(* of a command, and CommandBuffer implements CommandStream.               *)
(*                                                                         *)
(* What makes these inductive is what the ring holds: between the reader's *)
(* and the writer's offset there are the commands that are written and not *)
(* yet executed, one after the other, each at its place.  Places are       *)
(* counted from the reader's offset, so that nothing here is larger than   *)
(* twice the ring.                                                         *)
(***************************************************************************)
EXTENDS CommandBuffer, TLAPS

\* The bytes of commands in the ring.
Used == From(shared.readerOffset, shared.writerOffset) - WORD

IsAligned(x) == x % WORD = 0

OffsetsInv ==
    /\ IsOffsets(shared) /\ IsOffsets(client) /\ IsOffsets(host)
    /\ IsAligned(shared.writerOffset) /\ IsAligned(shared.readerOffset)
    /\ client.writerOffset = shared.writerOffset
    /\ host.readerOffset = shared.readerOffset
    /\ control = "consume" => host.writerOffset = shared.writerOffset
    /\ Used \in 0 .. Size - 2 * WORD

\* Commands start one behind the other.
HistoryInv ==
    /\ written \in Seq(Messages) /\ handled \in Seq(Messages)
    /\ starts \in Seq(Nat) /\ Len(starts) = Len(written) + 1
    /\ \A i, j \in 1 .. Len(starts) :
            i < j => starts[i] + Aligned(Total(written[i])) <= starts[j]
    /\ \A i \in 1 .. Len(written) : starts[i + 1] = starts[i] + Aligned(Total(written[i]))
    /\ Len(handled) <= Len(written)
    /\ \A i \in 1 .. Len(handled) : handled[i] = written[i]

\* How many bytes have been written and read, and where the bytes not yet read that
\* begin with command i are, counted from the reader's offset.
Written == starts[Len(starts)]
Read == starts[Len(handled) + 1]
Ahead(i) == starts[i] - Read

\* Where byte k of command i is in the ring.
Place(i, k) == Normalize(shared.readerOffset + WORD + Ahead(i) + k)

ContentInv ==
    /\ DOMAIN memory = 0 .. Size - 1
    /\ Written - Read = Used
    /\ \A i \in Len(handled) + 1 .. Len(written) : \A k \in 0 .. Total(written[i]) - 1 :
            memory[Place(i, k)] = ByteOf(written[i], k)

ControlInv ==
    /\ control \in {"engine", "flushed", "cgame", "flush", "consume", "consumed", "too long"}
    /\ waiting \in Messages \cup {NoMessage}
    /\ control = "consumed" => Len(handled) = Len(written)

IInv == OffsetsInv /\ HistoryInv /\ ContentInv /\ ControlInv

-----------------------------------------------------------------------------
(* Arithmetic of the ring. *)

LEMMA AlignedFacts ==
    ASSUME NEW n \in Nat
    PROVE  /\ Aligned(n) \in Nat /\ IsAligned(Aligned(n))
           /\ n <= Aligned(n)
           /\ \A x \in Nat : IsAligned(x) /\ n <= x => Aligned(n) <= x
  BY DEF Aligned, IsAligned, WORD

LEMMA NormalizeFacts ==
    ASSUME NEW x \in 0 .. 2 * Size - 1
    PROVE  /\ IsOffset(Normalize(x))
           /\ Normalize(x) = x \/ Normalize(x) = x - Size
           /\ IsAligned(x) => IsAligned(Normalize(x))
  BY SizeAssumption DEF Normalize, IsOffset, IsAligned, WORD

LEMMA NormalizeTwice ==
    ASSUME NEW r \in 0 .. Size - 1, NEW k \in 0 .. Size - WORD - 1
    PROVE  Normalize(Normalize(r + WORD) + k) = Normalize(r + WORD + k)
<1>1. Size \in Nat /\ Size > 2 * WORD /\ WORD = 4
  BY SizeAssumption DEF WORD
<1>2. CASE r + WORD < Size
  <2>1. Normalize(r + WORD) = r + WORD
    BY <1>1, <1>2 DEF Normalize
  <2> QED
    BY <2>1
<1>3. CASE r + WORD >= Size
  <2>1. Normalize(r + WORD) = r + WORD - Size
    BY <1>1, <1>3 DEF Normalize
  <2>2. Normalize(r + WORD - Size + k) = r + WORD - Size + k
    BY <1>1, <1>3 DEF Normalize
  <2>3. Normalize(r + WORD + k) = r + WORD + k - Size
    BY <1>1, <1>3 DEF Normalize
  <2>4. r + WORD - Size + k = r + WORD + k - Size
    BY <1>1
  <2> QED
    BY <2>1, <2>2, <2>3, <2>4
<1> QED
  BY <1>1, <1>2, <1>3

LEMMA FromFacts ==
    ASSUME NEW o, NEW x, IsOffset(o), IsOffset(x)
    PROVE  /\ From(o, x) \in 0 .. Size - 1
           /\ From(o, x) = x - o \/ From(o, x) = x - o + Size
           /\ IsAligned(o) /\ IsAligned(x) => IsAligned(From(o, x))
  BY SizeAssumption DEF From, IsOffset, IsAligned, WORD

LEMMA MessageFacts ==
    ASSUME NEW m \in Messages
    PROVE  /\ m = [length |-> m.length, data |-> m.data]
           /\ m.length \in Nat /\ m.data \in [0 .. m.length - 1 -> Byte]
           /\ Total(m) \in Nat /\ Total(m) = m.length + WORD /\ Total(m) >= 2 * WORD
           /\ Aligned(Total(m)) \in Nat /\ Total(m) <= Aligned(Total(m))
<1>1. IsMessage(m)
  BY MessageAssumption
<1>2. Total(m) \in Nat /\ Total(m) = m.length + WORD /\ Total(m) >= 2 * WORD
  BY <1>1 DEF IsMessage, Total, WORD
<1> QED
  BY <1>1, <1>2, AlignedFacts DEF IsMessage

\* What the two processes compute of the offsets.
LEMMA RingFacts ==
    ASSUME IInv
    PROVE  /\ Used \in 0 .. Size - 2 * WORD /\ IsAligned(Used) /\ IsAligned(Size - 2 * WORD - Used)
           /\ From(shared.readerOffset, shared.writerOffset) = Used + WORD
           /\ From(shared.writerOffset, shared.readerOffset) = Size - WORD - Used
           /\ \/ shared.writerOffset = shared.readerOffset + WORD + Used
              \/ shared.writerOffset = shared.readerOffset + WORD + Used - Size
           /\ GetMaxReadLength(shared) = Used
           /\ GetMaxWriteLength(shared) = Size - 2 * WORD - Used
           /\ Loaded(client) = shared
<1> DEFINE r == shared.readerOffset
           w == shared.writerOffset
<1>1. r \in 0 .. Size - 1 /\ w \in 0 .. Size - 1 /\ IsAligned(r) /\ IsAligned(w)
      /\ From(r, w) - WORD \in 0 .. Size - 2 * WORD
  BY DEF IInv, OffsetsInv, IsOffsets, IsOffset, Used
<1>2. Size \in Nat /\ IsAligned(Size) /\ Size > 2 * WORD /\ SIZE_T \in Nat /\ WORD = 4
  BY SizeAssumption DEF IsAligned, WORD
<1>3. /\ From(r, w) = w - r \/ From(r, w) = w - r + Size
      /\ From(r, w) \in 0 .. Size - 1 /\ IsAligned(From(r, w))
      /\ From(w, r) = r - w \/ From(w, r) = r - w + Size
      /\ From(w, r) \in 0 .. Size - 1 /\ IsAligned(From(w, r))
  BY <1>1, FromFacts DEF IsOffset
<1>4. Loaded(client) = shared
  BY DEF IInv, OffsetsInv, Loaded, IsOffsets
<1> HIDE DEF r, w
<1>5. From(w, r) = Size - From(r, w)
  BY <1>1, <1>2, <1>3
<1>6. Unsigned(From(r, w) - WORD) = From(r, w) - WORD /\ Unsigned(From(w, r) - WORD) = From(w, r) - WORD
  BY <1>1, <1>2, <1>3, <1>5 DEF Unsigned
<1>7. IsAligned(From(r, w) - WORD) /\ IsAligned(Size - 2 * WORD - (From(r, w) - WORD))
  BY <1>1, <1>2, <1>3 DEF IsAligned
<1> QED
  BY <1>1, <1>2, <1>3, <1>4, <1>5, <1>6, <1>7 DEF Used, GetMaxReadLength, GetMaxWriteLength, r, w

\* Every byte of a command in the ring is between the two offsets.
LEMMA AheadFacts ==
    ASSUME IInv, NEW i \in Len(handled) + 1 .. Len(written)
    PROVE  /\ i \in 1 .. Len(written) /\ written[i] \in Messages
           /\ Ahead(i) \in Nat /\ Ahead(i) + Aligned(Total(written[i])) <= Used
<1> DEFINE h == Len(handled) + 1
           A == Aligned(Total(written[i]))
<1>1. /\ i \in Nat /\ h \in 1 .. Len(starts) /\ i \in 1 .. Len(starts)
      /\ Len(starts) \in Nat /\ Len(starts) \in 1 .. Len(starts)
      /\ i < Len(starts) /\ i \in 1 .. Len(written) /\ h \in 1 .. Len(written) /\ h <= i
  BY DEF IInv, HistoryInv
<1>2. written[i] \in Messages /\ written[h] \in Messages
  BY <1>1 DEF IInv, HistoryInv
<1>3. A \in Nat /\ Aligned(Total(written[h])) \in Nat
  BY <1>2, MessageFacts
<1>4. starts[i] \in Nat /\ Read \in Nat /\ Written \in Nat
  <2>1. starts \in Seq(Nat)
    BY DEF IInv, HistoryInv
  <2>2. \A j \in 1 .. Len(starts) : starts[j] \in Nat
    BY <2>1
  <2> QED
    BY <1>1, <2>2 DEF Read, Written
<1>5. starts[i] + A <= Written
  BY <1>1 DEF IInv, HistoryInv, Written
<1>6. Read <= starts[i]
  <2>1. CASE h = i
    BY <1>4, <2>1 DEF Read
  <2>2. CASE h < i
    <3>1. starts[h] + Aligned(Total(written[h])) <= starts[i]
      BY <1>1, <2>2 DEF IInv, HistoryInv
    <3> QED
      BY <1>3, <1>4, <3>1 DEF Read
  <2> QED
    BY <1>1, <2>1, <2>2
<1>7. Written - Read = Used
  BY DEF IInv, ContentInv
<1> HIDE DEF A
<1>8. Ahead(i) \in Nat /\ Ahead(i) + A <= Used
  BY <1>3, <1>4, <1>5, <1>6, <1>7 DEF Ahead
<1> QED
  BY <1>1, <1>2, <1>8 DEF A

LEMMA PlaceFacts ==
    ASSUME IInv, NEW x \in 0 .. Used - 1
    PROVE  LET p == Normalize(shared.readerOffset + WORD + x)
           IN  IsOffset(p) /\ From(shared.writerOffset, p) >= Size - Used
<1> DEFINE r == shared.readerOffset
           w == shared.writerOffset
           p == Normalize(r + WORD + x)
<1>1. /\ r \in 0 .. Size - 1 /\ w \in 0 .. Size - 1
      /\ Used \in 0 .. Size - 2 * WORD
      /\ w = r + WORD + Used \/ w = r + WORD + Used - Size
  BY RingFacts DEF IInv, OffsetsInv, IsOffsets, IsOffset
<1>2. Size \in Nat /\ WORD = 4
  BY SizeAssumption DEF WORD
<1> HIDE DEF r, w
<1>3. IsOffset(p) /\ (p = r + WORD + x \/ p = r + WORD + x - Size)
  BY <1>1, <1>2 DEF Normalize, IsOffset
<1>4. IsOffset(w)
  BY <1>1 DEF IsOffset
<1>5. From(w, p) \in 0 .. Size - 1 /\ (From(w, p) = p - w \/ From(w, p) = p - w + Size)
  BY <1>3, <1>4, FromFacts
<1> HIDE DEF p
<1>6. From(w, p) >= Size - Used
  <2>1. p \in 0 .. Size - 1
    BY <1>3 DEF IsOffset
  <2> QED
    BY <1>1, <1>2, <1>3, <1>5, <2>1
<1> QED
  BY <1>3, <1>6 DEF p, r, w

\* A byte of a command in the ring, counted from the reader's offset.
LEMMA ByteFacts ==
    ASSUME IInv, NEW i \in Len(handled) + 1 .. Len(written),
           NEW k \in 0 .. Total(written[i]) - 1
    PROVE  /\ k \in Nat /\ Ahead(i) + k \in 0 .. Used - 1
           /\ Place(i, k) = Normalize(shared.readerOffset + WORD + (Ahead(i) + k))
           /\ memory[Place(i, k)] = ByteOf(written[i], k)
<1> DEFINE T == Total(written[i])
<1>1. /\ Ahead(i) \in Nat /\ Ahead(i) + Aligned(T) <= Used
      /\ T \in Nat /\ Aligned(T) \in Nat /\ T <= Aligned(T)
  BY AheadFacts, MessageFacts
<1>2. Used \in Nat /\ shared.readerOffset \in Nat /\ WORD \in Nat
  BY RingFacts DEF IInv, OffsetsInv, IsOffsets, IsOffset, WORD
<1>3. k \in 0 .. T - 1
  OBVIOUS
<1>4. memory[Place(i, k)] = ByteOf(written[i], k)
  BY DEF IInv, ContentInv
<1> HIDE DEF T
<1>5. k \in Nat /\ Ahead(i) + k \in 0 .. Used - 1
  BY <1>1, <1>2, <1>3
<1>6. shared.readerOffset + WORD + Ahead(i) + k = shared.readerOffset + WORD + (Ahead(i) + k)
  BY <1>1, <1>2, <1>5
<1> QED
  BY <1>4, <1>5, <1>6 DEF Place

-----------------------------------------------------------------------------
\* The initial states satisfy the inductive invariant.
LEMMA InitIInv == Init => IInv
<1> SUFFICES ASSUME Init PROVE IInv
  OBVIOUS
<1> USE DEF Init
<1>1. Size \in Nat /\ Size > 2 * WORD /\ WORD = 4
  BY SizeAssumption DEF WORD
<1>2. shared.writerOffset = WORD /\ shared.readerOffset = 0 /\ Used = 0
  BY <1>1 DEF Offsets, Used, From
<1>3. OffsetsInv
  BY <1>1, <1>2 DEF OffsetsInv, IsOffsets, IsOffset, Offsets, IsAligned
<1>4. HistoryInv
  BY DEF HistoryInv
<1>5. ContentInv
  BY <1>2 DEF ContentInv, Written, Read
<1>6. ControlInv
  BY DEF ControlInv
<1> QED
  BY <1>3, <1>4, <1>5, <1>6 DEF IInv

-----------------------------------------------------------------------------
(* A command is written. *)

\* Behind those in the ring there is room for it, up to the safety offset.
LEMMA RoomFacts ==
    ASSUME IInv, NEW m \in Messages, Total(m) <= GetMaxWriteLength(shared)
    PROVE  Aligned(Total(m)) <= Size - 2 * WORD - Used
<1>1. /\ Total(m) <= Size - 2 * WORD - Used /\ IsAligned(Size - 2 * WORD - Used)
      /\ Used \in 0 .. Size - 2 * WORD
  BY RingFacts
<1>2. Size - 2 * WORD - Used \in Nat
  BY <1>1, SizeAssumption DEF WORD
<1> QED
  BY <1>1, <1>2, MessageFacts, AlignedFacts

\* What the writer does to the offsets.
LEMMA PutOffsets ==
    ASSUME IInv, NEW m \in Messages, Total(m) <= GetMaxWriteLength(Loaded(client)),
           PutMessage(Loaded(client), m), UNCHANGED host, control' = "cgame"
    PROVE  /\ OffsetsInv'
           /\ Used' = Used + Aligned(Total(m))
           /\ shared'.readerOffset = shared.readerOffset
<1> DEFINE A == Aligned(Total(m))
           r == shared.readerOffset
           w == shared.writerOffset
           v == Normalize(w + A)
<1>1. Loaded(client) = shared
  BY RingFacts
<1>2. /\ A \in Nat /\ IsAligned(A) /\ A <= Size - 2 * WORD - Used
  BY <1>1, MessageFacts, RoomFacts, AlignedFacts
<1>3. /\ r \in 0 .. Size - 1 /\ w \in 0 .. Size - 1 /\ IsAligned(r) /\ IsAligned(w)
      /\ Used \in 0 .. Size - 2 * WORD
      /\ w = r + WORD + Used \/ w = r + WORD + Used - Size
  BY RingFacts DEF IInv, OffsetsInv, IsOffsets, IsOffset
<1>4. Size \in Nat /\ WORD = 4 /\ Size % 4 = 0
  BY SizeAssumption DEF WORD
<1>5. client.writerOffset = w
  BY DEF IInv, OffsetsInv
<1>6. shared' = Offsets(v, r) /\ client' = Offsets(v, r)
  BY <1>1, <1>5 DEF PutMessage, AdvanceWritePointer
<1> HIDE DEF A, r, w
<1>7. /\ v \in 0 .. Size - 1 /\ IsAligned(v)
      /\ v = w + A \/ v = w + A - Size
  BY <1>2, <1>3, <1>4 DEF Normalize, IsAligned
<1> HIDE DEF v
<1>8. From(r, v) = Used + WORD + A
  BY <1>2, <1>3, <1>4, <1>7 DEF From
<1>9. shared'.writerOffset = v /\ shared'.readerOffset = r /\ client'.writerOffset = v
      /\ client'.readerOffset = r
  BY <1>6 DEF Offsets
<1>10. Used' = Used + A
  BY <1>2, <1>3, <1>4, <1>8, <1>9 DEF Used
<1>11. Used' \in 0 .. Size - 2 * WORD
  BY <1>2, <1>3, <1>4, <1>10
<1>12. OffsetsInv'
  BY <1>3, <1>6, <1>7, <1>9, <1>11 DEF r, IInv, OffsetsInv, IsOffsets, IsOffset
<1> QED
  BY <1>9, <1>10, <1>12 DEF A, r

LEMMA PutHistory ==
    ASSUME IInv, NEW m \in Messages, UNCHANGED handled,
           written' = Append(written, m),
           starts' = Append(starts, starts[Len(starts)] + Aligned(Total(m)))
    PROVE  /\ HistoryInv'
           /\ Len(written') = Len(written) + 1 /\ Len(starts') = Len(starts) + 1
           /\ written'[Len(written) + 1] = m
           /\ \A i \in 1 .. Len(written) : written'[i] = written[i]
           /\ \A i \in 1 .. Len(starts) : starts'[i] = starts[i]
           /\ starts'[Len(starts) + 1] = Written + Aligned(Total(m))
           /\ Read' = Read
<1> DEFINE n == Len(written)
           A == Aligned(Total(m))
<1>1. /\ written \in Seq(Messages) /\ handled \in Seq(Messages)
      /\ starts \in Seq(Nat) /\ Len(starts) = n + 1 /\ n \in Nat
      /\ Len(handled) <= n /\ Len(handled) \in Nat /\ Len(written) = n
  BY DEF IInv, HistoryInv
<1>2. A \in Nat /\ n \in Nat
  BY <1>1, MessageFacts
<1>3. starts[n + 1] \in Nat /\ Written = starts[n + 1] /\ Written \in Nat
  BY <1>1 DEF Written
<1> HIDE DEF A, n
<1>4. starts' = Append(starts, Written + A) /\ Written + A \in Nat
  BY <1>1, <1>2, <1>3 DEF A, Written
<1>5. /\ starts' \in Seq(Nat) /\ Len(starts') = n + 2
      /\ \A i \in 1 .. n + 1 : starts'[i] = starts[i]
      /\ starts'[n + 2] = Written + A
  BY <1>1, <1>4
<1>6. /\ written' \in Seq(Messages) /\ Len(written') = n + 1
      /\ \A i \in 1 .. n : written'[i] = written[i]
      /\ written'[n + 1] = m
  BY <1>1 DEF n
<1>7. Read' = Read
  BY <1>1, <1>5 DEF Read
<1>8. \A i \in 1 .. n : starts[i] + Aligned(Total(written[i])) <= Written
  BY <1>1, <1>3 DEF IInv, HistoryInv, n
<1>9. \A i, j \in 1 .. n + 2 :
            i < j => starts'[i] + Aligned(Total(written'[i])) <= starts'[j]
  <2> SUFFICES ASSUME NEW i \in 1 .. n + 2, NEW j \in 1 .. n + 2, i < j
               PROVE  starts'[i] + Aligned(Total(written'[i])) <= starts'[j]
    OBVIOUS
  <2>1. CASE j <= n + 1
    <3>1. i \in 1 .. n + 1 /\ j \in 1 .. n + 1 /\ i \in 1 .. n
      BY <1>1, <2>1
    <3>2. starts[i] + Aligned(Total(written[i])) <= starts[j]
      BY <1>1, <3>1 DEF IInv, HistoryInv
    <3> QED
      BY <1>5, <1>6, <3>1, <3>2
  <2>2. CASE j = n + 2 /\ i <= n
    <3>1. i \in 1 .. n
      BY <1>1, <2>2
    <3>2. starts[i] \in Nat /\ written[i] \in Messages
      BY <1>1, <3>1
    <3>3. starts[i] + Aligned(Total(written[i])) <= Written /\ Aligned(Total(written[i])) \in Nat
      BY <1>8, <3>1, <3>2, MessageFacts
    <3>4. i \in 1 .. n + 1 /\ j = n + 2
      BY <1>1, <2>2
    <3>5. starts'[i] = starts[i]
      BY <1>5, <3>4
    <3>6. written'[i] = written[i]
      BY <1>6, <3>1
    <3>7. starts'[j] = Written + A
      <4>1. j = n + 2
        BY <3>4
      <4>2. starts'[n + 2] = Written + A
        BY <1>5
      <4> QED
        BY <4>1, <4>2, Zenon
    <3>8. starts[i] + Aligned(Total(written[i])) <= Written + A
      BY <1>2, <1>3, <3>2, <3>3
    <3> QED
      BY <3>5, <3>6, <3>7, <3>8, Zenon
  <2>3. CASE j = n + 2 /\ i = n + 1
    <3>1. n + 1 \in 1 .. n + 1
      BY <1>1
    <3>2. starts'[i] = Written
      BY <1>3, <1>5, <2>3, <3>1
    <3>3. written'[i] = m
      BY <1>6, <2>3
    <3>4. starts'[j] = Written + A
      <4>1. j = n + 2
        BY <2>3
      <4>2. starts'[n + 2] = Written + A
        BY <1>5
      <4> QED
        BY <4>1, <4>2, Zenon
    <3>5. Written + A <= Written + A
      BY <1>2, <1>3
    <3> QED
      BY <3>2, <3>3, <3>4, <3>5, Zenon DEF A
  <2>4. j <= n + 1 \/ (j = n + 2 /\ i <= n) \/ (j = n + 2 /\ i = n + 1)
    BY <1>1
  <2> QED
    BY <2>1, <2>2, <2>3, <2>4
<1>10. \A i \in 1 .. n + 1 : starts'[i + 1] = starts'[i] + Aligned(Total(written'[i]))
  <2> SUFFICES ASSUME NEW i \in 1 .. n + 1
               PROVE  starts'[i + 1] = starts'[i] + Aligned(Total(written'[i]))
    OBVIOUS
  <2>1. CASE i \in 1 .. n
    <3>1. starts[i + 1] = starts[i] + Aligned(Total(written[i]))
      BY <2>1 DEF IInv, HistoryInv, n
    <3> QED
      BY <1>1, <1>5, <1>6, <2>1, <3>1
  <2>2. CASE i = n + 1
    <3>1. n + 1 \in 1 .. n + 1 /\ i + 1 = n + 2
      BY <1>1, <2>2
    <3>2. starts'[i] = Written /\ written'[i] = m /\ starts'[i + 1] = Written + A
      BY <1>3, <1>5, <1>6, <2>2, <3>1
    <3> QED
      BY <3>2 DEF A
  <2> QED
    BY <1>1, <2>1, <2>2
<1>11. \A i \in 1 .. Len(handled) : handled[i] = written'[i]
  BY <1>1, <1>6 DEF IInv, HistoryInv
<1>12. HistoryInv'
  <2>1. Len(starts') = Len(written') + 1 /\ Len(starts') = n + 2
        /\ Len(written') = n + 1 /\ handled' = handled /\ Len(handled) <= n + 1
    BY <1>1, <1>5, <1>6
  <2> QED
    BY <1>1, <1>5, <1>6, <1>9, <1>10, <1>11, <2>1 DEF HistoryInv
<1> QED
  BY <1>1, <1>5, <1>6, <1>7, <1>12 DEF A, n

\* The bytes behind the last command are those the writer finds at its offset.
LEMMA NewPlaceFacts ==
    ASSUME IInv, NEW k \in 0 .. Size - 2 * WORD - Used - 1
    PROVE  LET p == Normalize(shared.readerOffset + WORD + Used + k)
           IN  IsOffset(p) /\ From(shared.writerOffset, p) = k
<1> DEFINE r == shared.readerOffset
           w == shared.writerOffset
           p == Normalize(r + WORD + Used + k)
<1>1. /\ r \in 0 .. Size - 1 /\ w \in 0 .. Size - 1
      /\ Used \in 0 .. Size - 2 * WORD
      /\ w = r + WORD + Used \/ w = r + WORD + Used - Size
  BY RingFacts DEF IInv, OffsetsInv, IsOffsets, IsOffset
<1>2. Size \in Nat /\ WORD = 4
  BY SizeAssumption DEF WORD
<1> HIDE DEF r, w
<1>3. p \in 0 .. Size - 1 /\ (p = r + WORD + Used + k \/ p = r + WORD + Used + k - Size)
  BY <1>1, <1>2 DEF Normalize
<1> HIDE DEF p
<1>4. From(w, p) = k
  BY <1>1, <1>2, <1>3 DEF From
<1> QED
  BY <1>3, <1>4 DEF IsOffset, p, r, w

\* Writing a command leaves those in the ring as they are.
LEMMA PutContent ==
    ASSUME IInv, NEW m \in Messages, Total(m) <= GetMaxWriteLength(Loaded(client)),
           PutMessage(Loaded(client), m), UNCHANGED <<host, handled>>, control' = "cgame"
    PROVE  ContentInv'
<1>0. PICK n \in Nat : n = Len(written)
  BY DEF IInv, HistoryInv
<1> DEFINE A == Aligned(Total(m))
           r == shared.readerOffset
           w == shared.writerOffset
<1>1. /\ memory' = MemoryWith(m)
      /\ written' = Append(written, m)
      /\ starts' = Append(starts, starts[Len(starts)] + Aligned(Total(m)))
  BY DEF PutMessage
<1>2. /\ Used' = Used + A /\ shared'.readerOffset = r
  BY PutOffsets
<1>3. /\ Len(written') = n + 1 /\ Len(starts') = Len(starts) + 1 /\ Len(starts) = n + 1 /\ n = Len(written)
      /\ written'[n + 1] = m
      /\ \A i \in 1 .. n : written'[i] = written[i]
      /\ \A i \in 1 .. Len(starts) : starts'[i] = starts[i]
      /\ starts'[n + 2] = Written + A
      /\ Read' = Read
  BY <1>1, <1>0, PutHistory DEF IInv, HistoryInv
<1>4. /\ Total(m) \in Nat /\ A \in Nat /\ Total(m) <= A /\ Total(m) <= Size - 2 * WORD - Used
      /\ Used \in 0 .. Size - 2 * WORD /\ Size \in Nat /\ WORD = 4
  BY MessageFacts, RingFacts, SizeAssumption DEF WORD
<1>5. Written \in Nat /\ Read \in Nat /\ Written - Read = Used
  BY <1>3 DEF IInv, ContentInv, HistoryInv, Written, Read
<1>6. \A p \in 0 .. Size - 1 :
        memory'[p] = IF From(w, p) < Total(m) THEN ByteOf(m, From(w, p)) ELSE memory[p]
  BY <1>1 DEF MemoryWith, IInv, OffsetsInv
<1>7. DOMAIN memory' = 0 .. Size - 1
  BY <1>1 DEF MemoryWith
<1>8. Written' = Written + A
  BY <1>3 DEF Written
<1>9. Written' - Read' = Used'
  BY <1>2, <1>3, <1>4, <1>5, <1>8
<1>10. ASSUME NEW i \in Len(handled) + 1 .. n, NEW k \in 0 .. Total(written'[i]) - 1
       PROVE  memory'[Place(i, k)'] = ByteOf(written'[i], k)
  <2>1. i \in 1 .. n /\ i \in 1 .. Len(starts) /\ written'[i] = written[i]
    BY <1>3, AheadFacts
  <2>2. Ahead(i)' = Ahead(i)
    BY <1>3, <2>1 DEF Ahead
  <2>3. Place(i, k)' = Place(i, k)
    BY <1>2, <2>2 DEF Place
  <2>4. k \in 0 .. Total(written[i]) - 1
    BY <2>1
  <2>5. /\ Ahead(i) + k \in 0 .. Used - 1
        /\ Place(i, k) = Normalize(r + WORD + (Ahead(i) + k))
        /\ memory[Place(i, k)] = ByteOf(written[i], k)
    BY <1>0, <2>4, ByteFacts
  <2>6. IsOffset(Place(i, k)) /\ From(w, Place(i, k)) >= Size - Used
    <3> DEFINE x == Ahead(i) + k
    <3>1. x \in 0 .. Used - 1
      BY <2>5
    <3> HIDE DEF x
    <3>2. LET p == Normalize(r + WORD + x) IN IsOffset(p) /\ From(w, p) >= Size - Used
      BY <3>1, PlaceFacts
    <3> QED
      BY <2>5, <3>2 DEF x
  <2> DEFINE p == Place(i, k)
  <2> HIDE DEF p, w
  <2>7. p \in 0 .. Size - 1 /\ From(w, p) >= Size - Used /\ From(w, p) \in Int
    BY <1>4, <2>6, FromFacts DEF p, IsOffset, IInv, OffsetsInv, IsOffsets, w
  <2>8. ~(From(w, p) < Total(m))
    BY <1>4, <2>7
  <2>9. memory'[p] = memory[p]
    BY <1>6, <2>7, <2>8
  <2> QED
    BY <2>1, <2>3, <2>5, <2>9 DEF p
<1>11. ASSUME NEW k \in 0 .. Total(m) - 1
       PROVE  memory'[Place(n + 1, k)'] = ByteOf(m, k)
  <2>1. Ahead(n + 1)' = Used
    <3>1. starts'[n + 1] = Written
      BY <1>3 DEF Written
    <3> QED
      BY <1>3, <1>5, <3>1 DEF Ahead
  <2>2. Place(n + 1, k)' = Normalize(r + WORD + Used + k)
    BY <1>2, <2>1 DEF Place
  <2>3. k \in 0 .. Size - 2 * WORD - Used - 1
    BY <1>4
  <2> DEFINE p == Normalize(r + WORD + Used + k)
  <2>4. IsOffset(p) /\ From(w, p) = k
    BY <2>3, NewPlaceFacts
  <2> HIDE DEF p
  <2>5. memory'[p] = ByteOf(m, k)
    BY <1>4, <1>6, <2>4 DEF IsOffset
  <2> QED
    BY <2>2, <2>5 DEF p
<1>12. ASSUME NEW i \in Len(handled') + 1 .. Len(written'),
              NEW k \in 0 .. Total(written'[i]) - 1
       PROVE  memory'[Place(i, k)'] = ByteOf(written'[i], k)
  <2>1. i \in Len(handled) + 1 .. n + 1
    BY <1>3
  <2>2. CASE i = n + 1
    <3>1. k \in 0 .. Total(m) - 1
      BY <1>3, <2>2
    <3> QED
      BY <1>3, <1>11, <2>2, <3>1
  <2>3. CASE i # n + 1
    <3>1. i \in Len(handled) + 1 .. n
      BY <1>3, <2>1, <2>3 DEF IInv, HistoryInv
    <3> QED
      BY <1>10, <3>1
  <2> QED
    BY <2>2, <2>3
<1> QED
  BY <1>7, <1>9, <1>12 DEF ContentInv

LEMMA PutStep ==
    ASSUME IInv, NEW m \in Messages, Total(m) <= GetMaxWriteLength(Loaded(client)),
           PutMessage(Loaded(client), m), UNCHANGED <<host, handled>>, control' = "cgame",
           waiting' \in Messages \cup {NoMessage}
    PROVE  IInv'
<1>1. OffsetsInv' /\ HistoryInv' /\ ContentInv'
  BY PutOffsets, PutHistory, PutContent DEF PutMessage
<1>2. ControlInv'
  BY DEF ControlInv
<1> QED
  BY <1>1, <1>2 DEF IInv

-----------------------------------------------------------------------------
(* A command is read. *)

\* While the engine consumes, both processes have the same offsets.
LEMMA CurrentFacts ==
    ASSUME IInv, control = "consume"
    PROVE  host = shared /\ Current = shared
  BY DEF IInv, OffsetsInv, IsOffsets, Current, LoadWriterData

\* There is nothing to read, or all of the next command is there.
LEMMA NextFacts ==
    ASSUME IInv, control = "consume"
    PROVE  /\ Len(handled) = Len(written) => Used = 0
           /\ Len(handled) < Len(written) =>
                LET m == written[Len(handled) + 1]
                IN  /\ m \in Messages /\ Ahead(Len(handled) + 1) = 0
                    /\ Total(m) <= Aligned(Total(m)) /\ Aligned(Total(m)) <= Used
                    /\ Total(m) \in Nat /\ Total(m) >= 2 * WORD
                    /\ \A k \in 0 .. Total(m) - 1 : ByteAt(k) = ByteOf(m, k)
                    /\ NextLength = m.length /\ NextMessage = m
<1>1. ASSUME Len(handled) = Len(written) PROVE Used = 0
  <2>1. Written = Read
    BY <1>1 DEF IInv, HistoryInv, Written, Read
  <2>2. Written \in Nat
    BY DEF IInv, HistoryInv, Written
  <2> QED
    BY <2>1, <2>2 DEF IInv, ContentInv
<1>2. ASSUME Len(handled) < Len(written)
      PROVE  LET m == written[Len(handled) + 1]
             IN  /\ m \in Messages /\ Ahead(Len(handled) + 1) = 0
                 /\ Total(m) <= Aligned(Total(m)) /\ Aligned(Total(m)) <= Used
                 /\ Total(m) \in Nat /\ Total(m) >= 2 * WORD
                 /\ \A k \in 0 .. Total(m) - 1 : ByteAt(k) = ByteOf(m, k)
                 /\ NextLength = m.length /\ NextMessage = m
  <2>1. PICK i \in Nat : i = Len(handled) + 1
    BY DEF IInv, HistoryInv
  <2>2. PICK m \in Messages : m = written[i]
    BY <1>2, <2>1 DEF IInv, HistoryInv
  <2>3. i \in Len(handled) + 1 .. Len(written)
    BY <1>2, <2>1 DEF IInv, HistoryInv
  <2>4. Ahead(i) = 0
    <3>1. Read \in Nat /\ Read = starts[i]
      BY <1>2, <2>1 DEF IInv, HistoryInv, Read
    <3> QED
      BY <3>1 DEF Ahead
  <2>5. /\ Total(m) \in Nat /\ Total(m) = m.length + WORD /\ Total(m) >= 2 * WORD
        /\ Total(m) <= Aligned(Total(m)) /\ Aligned(Total(m)) \in Nat
        /\ m = [length |-> m.length, data |-> m.data]
        /\ m.length \in Nat /\ m.data \in [0 .. m.length - 1 -> Byte]
        /\ WORD = 4
    BY MessageFacts DEF WORD
  <2>6. Aligned(Total(m)) <= Used
    BY <2>2, <2>3, <2>4, <2>5, AheadFacts
  <2>7. ASSUME NEW k \in 0 .. Total(m) - 1
        PROVE  ByteAt(k) = ByteOf(m, k)
    <3>1. /\ k \in Nat /\ Ahead(i) + k \in 0 .. Used - 1
          /\ Place(i, k) = Normalize(shared.readerOffset + WORD + (Ahead(i) + k))
          /\ memory[Place(i, k)] = ByteOf(m, k)
      BY <2>2, <2>3, ByteFacts
    <3>2. /\ host.readerOffset = shared.readerOffset
          /\ shared.readerOffset \in 0 .. Size - 1 /\ Used \in 0 .. Size - 2 * WORD
          /\ Size \in Nat
      BY CurrentFacts, SizeAssumption DEF IInv, OffsetsInv, IsOffsets, IsOffset
    <3>3. Normalize(Normalize(shared.readerOffset + WORD) + k) = Normalize(shared.readerOffset + WORD + k)
      <4>1. k \in 0 .. Size - WORD - 1
        BY <2>4, <2>5, <3>1, <3>2
      <4> QED
        BY <3>2, <4>1, NormalizeTwice
    <3>4. Ahead(i) + k = k
      BY <2>4, <3>1
    <3> QED
      BY <3>1, <3>2, <3>3, <3>4 DEF ByteAt
  <2>8. \A k \in 0 .. WORD - 1 : ByteAt(k) = LengthByte(m.length, k)
    <3> SUFFICES ASSUME NEW k \in 0 .. WORD - 1 PROVE ByteAt(k) = LengthByte(m.length, k)
      OBVIOUS
    <3>1. k \in 0 .. Total(m) - 1 /\ k < WORD
      BY <2>5
    <3> QED
      BY <2>7, <3>1 DEF ByteOf
  <2>9. NextLength = m.length
    <3> DEFINE lengths == { n \in { l.length : l \in Messages } :
                                \A k \in 0 .. WORD - 1 : ByteAt(k) = LengthByte(n, k) }
    <3>1. m.length \in lengths
      BY <2>8
    <3>2. \A n \in lengths : n = m.length
      <4> SUFFICES ASSUME NEW n \in lengths PROVE n = m.length
        OBVIOUS
      <4>1. 0 \in 0 .. WORD - 1
        BY <2>5
      <4>2. LengthByte(n, 0) = LengthByte(m.length, 0)
        BY <2>8, <4>1
      <4> QED
        BY <4>2 DEF LengthByte
    <3>3. NextLength = CHOOSE n \in lengths : TRUE
      BY <3>1 DEF NextLength
    <3> HIDE DEF lengths
    <3> QED
      BY <3>1, <3>2, <3>3
  <2>10. NextMessage = m
    <3>1. ASSUME NEW k \in 0 .. m.length - 1
          PROVE  ByteAt(WORD + k) = m.data[k]
      <4>1. WORD + k \in 0 .. Total(m) - 1 /\ ~(WORD + k < WORD) /\ WORD + k - WORD = k
        BY <2>5
      <4>2. ByteAt(WORD + k) = ByteOf(m, WORD + k)
        BY <2>7, <4>1
      <4>3. ByteOf(m, WORD + k) = m.data[k]
        BY <2>5, <4>1 DEF ByteOf
      <4> QED
        BY <4>2, <4>3
    <3>2. [k \in 0 .. m.length - 1 |-> ByteAt(WORD + k)] = m.data
      BY <2>5, <3>1
    <3> QED
      BY <2>5, <2>9, <3>2 DEF NextMessage
  <2> QED
    BY <2>1, <2>2, <2>4, <2>5, <2>6, <2>7, <2>9, <2>10
<1> QED
  BY <1>1, <1>2

\* The reader's offset moves over a command; the others stay where they are.
LEMMA ConsumeStep ==
    ASSUME IInv, ConsumeOne, ConsumeMessage, Len(handled) < Len(written)
    PROVE  IInv' /\ handled' = Append(handled, written[Len(handled) + 1])
<1>0. PICK h \in Nat : h = Len(handled)
  BY DEF IInv, HistoryInv
<1>1. PICK m \in Messages : m = written[h + 1]
  BY <1>0 DEF IInv, HistoryInv
<1> DEFINE A == Aligned(Total(m))
           r == shared.readerOffset
           w == shared.writerOffset
           q == Normalize(r + A)
<1>2. control = "consume" /\ host = shared /\ Current = shared
  BY CurrentFacts DEF ConsumeOne
<1>3. /\ Ahead(h + 1) = 0 /\ A <= Used /\ NextLength = m.length /\ NextMessage = m
      /\ Total(m) >= 2 * WORD /\ Total(m) <= A
  BY <1>0, <1>1, <1>2, NextFacts
<1>4. A \in Nat /\ IsAligned(A) /\ WORD = 4 /\ NextLength + WORD = Total(m)
      /\ Size \in Nat /\ Size % 4 = 0
  BY <1>3, MessageFacts, AlignedFacts, SizeAssumption DEF WORD
<1>5. /\ r \in 0 .. Size - 1 /\ w \in 0 .. Size - 1 /\ IsAligned(r) /\ IsAligned(w)
      /\ Used \in 0 .. Size - 2 * WORD
      /\ w = r + WORD + Used \/ w = r + WORD + Used - Size
  BY RingFacts DEF IInv, OffsetsInv, IsOffsets, IsOffset
<1>6. /\ host' = Offsets(w, q) /\ shared' = Offsets(w, q)
      /\ handled' = Append(handled, m)
      /\ UNCHANGED <<control, memory, client, waiting, written, starts>>
  BY <1>2, <1>3, <1>4 DEF ConsumeOne, ConsumeMessage, AdvanceReadPointer
<1> HIDE DEF A, r, w
<1>7. q \in 0 .. Size - 1 /\ IsAligned(q) /\ (q = r + A \/ q = r + A - Size)
  BY <1>3, <1>4, <1>5 DEF Normalize, IsAligned
<1> HIDE DEF q
<1>8. From(q, w) = Used + WORD - A
  BY <1>3, <1>4, <1>5, <1>7 DEF From
<1>9. /\ shared'.writerOffset = w /\ shared'.readerOffset = q
      /\ host'.writerOffset = w /\ host'.readerOffset = q
  BY <1>6 DEF Offsets
<1>10. Used' = Used - A
  BY <1>3, <1>4, <1>5, <1>8, <1>9 DEF Used
<1>11. OffsetsInv'
  <2>1. Used' \in 0 .. Size - 2 * WORD
    BY <1>3, <1>4, <1>5, <1>10
  <2> QED
    BY <1>5, <1>6, <1>7, <1>9, <2>1 DEF w, IInv, OffsetsInv, IsOffsets, IsOffset
<1>12. /\ handled' \in Seq(Messages) /\ Len(handled') = h + 1 /\ h + 1 <= Len(written)
       /\ handled'[h + 1] = m /\ \A i \in 1 .. h : handled'[i] = handled[i]
  BY <1>0, <1>6 DEF IInv, HistoryInv
<1>13. HistoryInv'
  <2>1. \A i \in 1 .. h + 1 : handled'[i] = written[i]
    <3> SUFFICES ASSUME NEW i \in 1 .. h + 1 PROVE handled'[i] = written[i]
      OBVIOUS
    <3>1. CASE i = h + 1
      BY <1>1, <1>12, <3>1
    <3>2. CASE i \in 1 .. h
      <4>1. handled'[i] = handled[i]
        BY <1>12, <3>2
      <4>2. handled[i] = written[i]
        BY <1>0, <3>2 DEF IInv, HistoryInv
      <4> QED
        BY <4>1, <4>2
    <3> QED
      BY <3>1, <3>2
  <2> QED
    BY <1>6, <1>12, <2>1 DEF IInv, HistoryInv
<1>14. starts[h + 1] \in Nat /\ starts[h + 2] \in Nat /\ starts[h + 2] = starts[h + 1] + A
       /\ Read = starts[h + 1] /\ Read' = starts[h + 2] /\ Written' = Written /\ Written \in Nat
  <2>1. starts \in Seq(Nat) /\ Len(starts) = Len(written) + 1 /\ Len(written) \in Nat
    BY DEF IInv, HistoryInv
  <2>2. h + 1 \in 1 .. Len(written)
    BY <1>0, <2>1
  <2>3. starts[h + 2] = starts[h + 1] + A
    <3>1. \A i \in 1 .. Len(written) : starts[i + 1] = starts[i] + Aligned(Total(written[i]))
      BY DEF IInv, HistoryInv
    <3>2. starts[(h + 1) + 1] = starts[h + 1] + Aligned(Total(written[h + 1]))
      BY <2>2, <3>1
    <3>3. (h + 1) + 1 = h + 2
      BY <1>0
    <3>4. starts[h + 2] = starts[h + 1] + Aligned(Total(written[h + 1]))
      BY <3>2, <3>3, Zenon
    <3> QED
      BY <1>1, <3>4, Zenon DEF A
  <2>4. h + 1 \in 1 .. Len(starts) /\ h + 2 \in 1 .. Len(starts) /\ Len(starts) \in 1 .. Len(starts)
    BY <2>1, <2>2
  <2> QED
    BY <1>0, <1>6, <1>12, <2>1, <2>3, <2>4 DEF Read, Written
<1>15. ASSUME NEW i \in h + 2 .. Len(written), NEW k \in 0 .. Total(written[i]) - 1
       PROVE  memory'[Place(i, k)'] = ByteOf(written[i], k)
  <2>1. i \in Len(handled) + 1 .. Len(written)
    BY <1>0
  <2>2. /\ k \in Nat /\ Ahead(i) + k \in 0 .. Used - 1 /\ Ahead(i) \in Nat
        /\ Place(i, k) = Normalize(r + WORD + (Ahead(i) + k))
        /\ memory[Place(i, k)] = ByteOf(written[i], k)
    BY <2>1, ByteFacts, AheadFacts DEF r
  <2>3. i \in 1 .. Len(starts) /\ starts[i] \in Nat /\ h + 2 <= i
    <3>1. starts \in Seq(Nat) /\ Len(starts) = Len(written) + 1 /\ Len(written) \in Nat
      BY DEF IInv, HistoryInv
    <3>2. i \in 1 .. Len(starts) /\ h + 2 <= i
      BY <3>1
    <3> QED
      BY <3>1, <3>2
  <2>4. starts[h + 2] <= starts[i]
    <3>1. CASE i = h + 2
      BY <1>14, <3>1
    <3>2. CASE h + 2 < i
      <4>1. h + 2 \in 1 .. Len(starts) /\ h + 2 \in 1 .. Len(written)
        BY <2>3, <3>2 DEF IInv, HistoryInv
      <4>2. starts[h + 2] + Aligned(Total(written[h + 2])) <= starts[i]
        BY <2>3, <3>2, <4>1 DEF IInv, HistoryInv
      <4>3. written[h + 2] \in Messages
        BY <4>1 DEF IInv, HistoryInv
      <4>4. Aligned(Total(written[h + 2])) \in Nat
        BY <4>3, MessageFacts
      <4> QED
        BY <1>14, <2>3, <4>2, <4>4
    <3> QED
      BY <2>3, <3>1, <3>2
  <2>5. Ahead(i)' = starts[i] - starts[h + 2] /\ Ahead(i) = starts[i] - starts[h + 1]
    BY <1>6, <1>14 DEF Ahead
  <2> DEFINE x == Ahead(i)
             y == starts[i] - starts[h + 2]
  <2>6. x = y + A /\ x \in Nat /\ y \in Nat
    <3>1. \A a, b, c, d \in Nat : c = b + d /\ c <= a => a - b = (a - c) + d /\ a - c \in Nat
      OBVIOUS
    <3>2. /\ starts[i] - starts[h + 1] = (starts[i] - starts[h + 2]) + A
          /\ starts[i] - starts[h + 2] \in Nat
      BY <1>4, <1>14, <2>3, <2>4, <3>1
    <3> QED
      BY <2>2, <2>5, <3>2
  <2>7. Place(i, k)' = Normalize(q + WORD + y + k)
    BY <1>9, <2>5 DEF Place
  <2> HIDE DEF x, y
  <2>8. x + k \in 0 .. Used - 1 /\ k \in Nat
    BY <2>2 DEF x
  <2>9. Normalize(q + WORD + y + k) = Normalize(r + WORD + (x + k))
    <3>1. CASE q = r + A
      <4>1. q + WORD + y + k = r + WORD + (x + k)
        BY <1>4, <1>5, <2>6, <2>8, <3>1
      <4> QED
        BY <4>1
    <3>2. CASE q = r + A - Size
      <4>1. r + WORD + (x + k) >= Size /\ r + WORD + (x + k) < 2 * Size
        BY <1>4, <1>5, <1>7, <2>6, <2>8, <3>2
      <4>2. Normalize(r + WORD + (x + k)) = r + WORD + (x + k) - Size
        BY <1>4, <1>5, <2>6, <2>8, <4>1 DEF Normalize
      <4>3. q + WORD + y + k = r + WORD + (x + k) - Size
        BY <1>4, <1>5, <2>6, <2>8, <3>2
      <4>4. q + WORD + y + k < Size /\ q + WORD + y + k \in Int
        BY <1>4, <1>5, <1>7, <2>6, <2>8, <4>1, <4>3
      <4>5. Normalize(q + WORD + y + k) = q + WORD + y + k
        BY <1>4, <4>4 DEF Normalize
      <4> QED
        BY <4>2, <4>3, <4>5
    <3> QED
      BY <1>7, <3>1, <3>2
  <2> QED
    BY <1>6, <2>2, <2>7, <2>9 DEF x
<1>16. ContentInv'
  <2>1. Written' - Read' = Used'
    <3>1. Written - Read = Used /\ Read \in Nat /\ Written \in Nat /\ Used \in Nat
      BY <1>5, <1>14 DEF IInv, ContentInv
    <3>2. Read' = Read + A /\ Written' = Written /\ Used' = Used - A
      BY <1>10, <1>14
    <3> QED
      BY <1>4, <3>1, <3>2
  <2>2. DOMAIN memory' = 0 .. Size - 1
    BY <1>6 DEF IInv, ContentInv
  <2>3. ASSUME NEW i \in Len(handled') + 1 .. Len(written'), NEW k \in 0 .. Total(written'[i]) - 1
        PROVE  memory'[Place(i, k)'] = ByteOf(written'[i], k)
    <3>1. i \in h + 2 .. Len(written) /\ written' = written
      BY <1>6, <1>12
    <3> QED
      BY <1>15, <3>1
  <2> QED
    BY <2>1, <2>2, <2>3 DEF ContentInv
<1>17. ControlInv'
  BY <1>2, <1>6 DEF IInv, ControlInv
<1> QED
  BY <1>0, <1>1, <1>6, <1>11, <1>13, <1>16, <1>17 DEF IInv

-----------------------------------------------------------------------------
(* The invariant. *)

\* The offsets and the history are as they were.
LEMMA NothingMoved ==
    ASSUME IInv, UNCHANGED <<memory, shared, client, host, written, handled, starts>>,
           control' \in {"engine", "flushed", "cgame", "flush"} \/ (UNCHANGED control),
           waiting' \in Messages \cup {NoMessage}
    PROVE  IInv'
<1>1. OffsetsInv'
  BY DEF IInv, OffsetsInv, IsOffsets, Used
<1>2. HistoryInv'
  BY DEF IInv, HistoryInv
<1>3. ContentInv'
  BY DEF IInv, ContentInv, Written, Read, Used, Place, Ahead
<1>4. ControlInv'
  BY DEF IInv, ControlInv
<1> QED
  BY <1>1, <1>2, <1>3, <1>4 DEF IInv

\* A process loads the other's offset.
LEMMA OffsetsLoaded ==
    ASSUME IInv, client' \in {client, Loaded(client)}, host' \in {host, LoadWriterData(host)},
           control' = "consume" => host' = LoadWriterData(host) \/ (UNCHANGED <<host, control>>),
           UNCHANGED <<memory, shared, written, handled, starts>>
    PROVE  OffsetsInv' /\ HistoryInv' /\ ContentInv'
<1>1. OffsetsInv'
  <2>1. client' = shared \/ client' = client
    BY RingFacts
  <2>2. host' = shared \/ host' = host
    BY DEF IInv, OffsetsInv, IsOffsets, LoadWriterData
  <2>3. control' = "consume" => host' = shared \/ (UNCHANGED <<host, control>>)
    BY DEF IInv, OffsetsInv, IsOffsets, LoadWriterData
  <2> QED
    BY <2>1, <2>2, <2>3 DEF IInv, OffsetsInv, IsOffsets, Used
<1>2. HistoryInv'
  BY DEF IInv, HistoryInv
<1>3. ContentInv'
  BY DEF IInv, ContentInv, Written, Read, Used, Place, Ahead
<1> QED
  BY <1>1, <1>2, <1>3

\* There is nothing in the ring only if everything has been read.
LEMMA NothingAhead ==
    ASSUME IInv, Used = 0
    PROVE  Len(handled) = Len(written)
<1> SUFFICES ASSUME Len(handled) < Len(written) PROVE FALSE
  BY DEF IInv, HistoryInv
<1>0. PICK i \in Nat : i = Len(handled) + 1
  BY DEF IInv, HistoryInv
<1>1. i \in Len(handled) + 1 .. Len(written)
  BY <1>0 DEF IInv, HistoryInv
<1>2. PICK m \in Messages : m = written[i]
  BY <1>1 DEF IInv, HistoryInv
<1>3. Ahead(i) \in Nat /\ Ahead(i) + Aligned(Total(written[i])) <= Used
  BY <1>1, AheadFacts
<1>4. Total(m) \in Nat /\ Total(m) >= 2 * WORD /\ Aligned(Total(m)) \in Nat
      /\ Total(m) <= Aligned(Total(m)) /\ WORD = 4
  BY MessageFacts DEF WORD
<1> QED
  BY <1>2, <1>3, <1>4

\* The engine has read everything when there is nothing to read.
LEMMA ConsumedFacts ==
    ASSUME IInv, control = "consume"
    PROVE  /\ CanRead(Current, WORD) <=> Len(handled) < Len(written)
           /\ GetMaxReadLength(Current) = Used
<1>1. GetMaxReadLength(Current) = Used /\ Used \in Nat /\ WORD = 4
  BY CurrentFacts, RingFacts DEF WORD
<1>2. CASE Len(handled) < Len(written)
  <2>1. Used >= WORD
    <3>1. PICK m : m = written[Len(handled) + 1]
      OBVIOUS
    <3>2. /\ Total(m) <= Aligned(Total(m)) /\ Aligned(Total(m)) <= Used
          /\ Total(m) \in Nat /\ Total(m) >= 2 * WORD /\ m \in Messages
      BY <1>2, <3>1, NextFacts
    <3>3. Aligned(Total(m)) \in Nat
      BY <3>2, MessageFacts
    <3> QED
      BY <1>1, <3>2, <3>3
  <2> QED
    BY <1>1, <1>2, <2>1 DEF CanRead
<1>3. CASE ~(Len(handled) < Len(written))
  <2>1. Len(handled) = Len(written)
    BY <1>3 DEF IInv, HistoryInv
  <2>2. Used = 0
    BY <2>1, NextFacts
  <2> QED
    BY <1>1, <1>3, <2>2 DEF CanRead
<1> QED
  BY <1>1, <1>2, <1>3

\* What there is to read is a command, and all of it is there.
LEMMA NeverPart ==
    ASSUME IInv, control = "consume"
    PROVE  ~Incomplete
<1>1. CASE Len(handled) < Len(written)
  <2>1. PICK m : m = written[Len(handled) + 1]
    OBVIOUS
  <2>2. /\ m \in Messages /\ Aligned(Total(m)) <= Used /\ Total(m) <= Aligned(Total(m))
        /\ NextLength = m.length
    BY <1>1, <2>1, NextFacts
  <2>3. /\ m.length \in Nat /\ Total(m) = m.length + WORD /\ Total(m) \in Nat
        /\ Aligned(Total(m)) \in Nat /\ Used \in Nat
    BY <2>2, MessageFacts, RingFacts
  <2>4. NextLength # -1 /\ NextLength + WORD = Total(m) /\ Total(m) <= Used
    BY <2>2, <2>3
  <2> QED
    BY <1>1, <2>3, <2>4, ConsumedFacts DEF Incomplete, CanRead
<1>2. CASE ~(Len(handled) < Len(written))
  <2>1. Used = 0
    BY <1>2, NextFacts DEF IInv, HistoryInv
  <2> QED
    BY <1>2, <2>1, ConsumedFacts DEF Incomplete
<1> QED
  BY <1>1, <1>2

\* Every step, and a stutter, keeps it.
LEMMA NextIInv == IInv /\ [Next]_vars => IInv'
<1> SUFFICES ASSUME IInv, [Next]_vars PROVE IInv'
  OBVIOUS
<1>0. waiting \in Messages \cup {NoMessage} /\ Loaded(client) = shared
  BY RingFacts DEF IInv, ControlInv
<1>1. CASE Call
  BY <1>0, <1>1, NothingMoved DEF Call
<1>2. ASSUME NEW m \in Messages, Write(m) PROVE IInv'
  <2>1. CASE Total(m) <= GetMaxWriteLength(Loaded(client)) /\ PutMessage(Loaded(client), m)
             /\ UNCHANGED <<control, waiting>>
    BY <1>0, <1>2, <2>1, PutStep DEF Write
  <2>2. CASE /\ Total(m) > GetMaxWriteLength(Loaded(client))
             /\ client' = Loaded(client) /\ control' = "flush" /\ waiting' = m
             /\ UNCHANGED <<memory, shared, written, starts>>
    <3>1. OffsetsInv' /\ HistoryInv' /\ ContentInv'
      BY <1>2, <2>2, OffsetsLoaded DEF Write
    <3>2. ControlInv'
      BY <2>2 DEF ControlInv
    <3> QED
      BY <3>1, <3>2 DEF IInv
  <2> QED
    BY <1>2, <2>1, <2>2 DEF Write
<1>3. CASE WriteAfterFlush
  <2>1. CASE Total(waiting) <= GetMaxWriteLength(AfterFlush(client))
             /\ PutMessage(AfterFlush(client), waiting) /\ control' = "cgame"
    BY <1>0, <1>3, <2>1, PutStep DEF WriteAfterFlush, AfterFlush
  <2>2. CASE /\ control' = "too long" /\ client' = AfterFlush(client)
             /\ UNCHANGED <<memory, shared, written, starts>>
    <3>1. OffsetsInv' /\ HistoryInv' /\ ContentInv'
      BY <1>3, <2>2, OffsetsLoaded DEF WriteAfterFlush, AfterFlush
    <3>2. ControlInv'
      BY <1>3, <2>2 DEF WriteAfterFlush, ControlInv
    <3> QED
      BY <3>1, <3>2 DEF IInv
  <2> QED
    BY <1>3, <2>1, <2>2 DEF WriteAfterFlush
<1>4. CASE TryFlush
  <2>1. OffsetsInv' /\ HistoryInv' /\ ContentInv'
    BY <1>4, OffsetsLoaded DEF TryFlush
  <2>2. ControlInv'
    BY <1>0, <1>4 DEF TryFlush, ControlInv
  <2> QED
    BY <2>1, <2>2 DEF IInv
<1>5. CASE FlushReturns
  BY <1>0, <1>5, NothingMoved DEF FlushReturns
<1>6. CASE Return
  BY <1>0, <1>6, NothingMoved DEF Return
<1>7. CASE Consume
  <2>1. OffsetsInv' /\ HistoryInv' /\ ContentInv'
    BY <1>7, OffsetsLoaded DEF Consume
  <2>2. ControlInv'
    BY <1>0, <1>7 DEF Consume, ControlInv
  <2> QED
    BY <2>1, <2>2 DEF IInv
<1>8. CASE ConsumeOne
  <2>1. CASE ConsumeMessage
    <3>1. Len(handled) < Len(written)
      BY <1>8, <2>1, ConsumedFacts DEF ConsumeOne, ConsumeMessage
    <3> QED
      BY <1>8, <2>1, <3>1, ConsumeStep
  <2>2. CASE ConsumedAll
    <3>1. Current = shared /\ host = shared
      BY <1>8, CurrentFacts DEF ConsumeOne
    <3>2. Len(handled) = Len(written)
      BY <1>8, <2>2, ConsumedFacts DEF ConsumeOne, ConsumedAll, IInv, HistoryInv
    <3>3. OffsetsInv' /\ HistoryInv' /\ ContentInv'
      BY <1>8, <2>2, <3>1, OffsetsLoaded DEF ConsumeOne, ConsumedAll
    <3>4. ControlInv'
      BY <1>0, <1>8, <2>2, <3>2 DEF ConsumeOne, ConsumedAll, ControlInv
    <3> QED
      BY <3>3, <3>4 DEF IInv
  <2>3. CASE Incomplete
    BY <1>8, <2>3, NeverPart DEF ConsumeOne
  <2> QED
    BY <1>8, <2>1, <2>2, <2>3 DEF ConsumeOne
<1>9. CASE UNCHANGED vars
  BY <1>0, <1>9, NothingMoved DEF vars
<1> QED
  BY <1>1, <1>2, <1>3, <1>4, <1>5, <1>6, <1>7, <1>8, <1>9 DEF Next

\* So it holds in every behaviour.
LEMMA Invariant == Spec => []IInv
<1> QED
  BY InitIInv, NextIInv, PTL DEF Spec

\* The offsets of the ring and its commands are of their types, and the cgame and
\* the engine take turns.
THEOREM TypeCorrect == Spec => []TypeOK
<1>1. IInv => TypeOK
  BY DEF IInv, OffsetsInv, HistoryInv, ContentInv, ControlInv, TypeOK
<1> QED
  BY <1>1, Invariant, PTL

\* The reader's and the writer's offset stay a safety offset apart (GetMaxReadLength
\* and GetMaxWriteLength never go below zero).
THEOREM OffsetsApart == Spec => []SafetyOffsetKept
<1>1. IInv => SafetyOffsetKept
  <2> SUFFICES ASSUME IInv PROVE SafetyOffsetKept
    OBVIOUS
  <2>1. Size \in Nat /\ WORD = 4 /\ Used \in 0 .. Size - 2 * WORD
    BY RingFacts, SizeAssumption DEF WORD
  <2> QED
    BY <2>1, RingFacts DEF SafetyOffsetKept
<1> QED
  BY <1>1, Invariant, PTL

\* CommandBufferHost::ConsumeOne never finds part of a length or of a command.
THEOREM WholeCommands == Spec => []NeverIncomplete
<1>1. IInv => NeverIncomplete
  BY DEF IInv, ControlInv, NeverIncomplete
<1> QED
  BY <1>1, Invariant, PTL

-----------------------------------------------------------------------------
(* The ring implements the stream of commands.                             *)

\* A command put in the ring, by Write or after a flush, is issued; the cgame runs
\* before and after.
LEMMA PutIssues ==
    ASSUME IInv, NEW m \in Messages, NEW b, PutMessage(b, m), UNCHANGED handled,
           control \in {"cgame", "consumed"}, control' = "cgame"
    PROVE  Stream!Issue(m)
  BY DEF PutMessage, Stream!Issue

\* A flush executes all that was issued.
LEMMA AllExecuted ==
    ASSUME IInv, Len(handled) = Len(written)
    PROVE  handled = written
  BY DEF IInv, HistoryInv

\* Refinement: for every ring and every command, the engine executes what the cgame
\* wrote, each once and in order, and all of it before a flush returns.
THEOREM Refinement == Spec => ImplementsStream
<1>1. Init => Stream!Init
  BY DEF Init, Stream!Init
<1>2. IInv /\ [Next]_vars => [Stream!Next]_(Stream!vars)
  <2> SUFFICES ASSUME IInv, [Next]_vars, ~(UNCHANGED Stream!vars) PROVE Stream!Next
    OBVIOUS
  <2>1. CASE Call
    BY <2>1 DEF Call, Stream!Call, Stream!Next
  <2>2. ASSUME NEW m \in Messages, Write(m) PROVE Stream!Next
    <3>1. CASE PutMessage(Loaded(client), m) /\ UNCHANGED <<control, waiting>>
      BY <2>2, <3>1, PutIssues DEF Write, Stream!Next
    <3>2. CASE control' = "flush" /\ UNCHANGED <<memory, shared, written, starts>>
      BY <2>2, <3>2 DEF Write, Stream!vars
    <3> QED
      BY <2>2, <3>1, <3>2 DEF Write
  <2>3. CASE WriteAfterFlush
    <3>0. waiting \in Messages
      BY <2>3 DEF IInv, ControlInv, WriteAfterFlush
    <3>1. CASE PutMessage(AfterFlush(client), waiting) /\ control' = "cgame"
      BY <2>3, <3>0, <3>1, PutIssues DEF WriteAfterFlush, Stream!Next
    <3>2. CASE control' = "too long" /\ UNCHANGED <<memory, shared, written, starts>>
      BY <2>3, <3>2 DEF WriteAfterFlush, Stream!vars
    <3> QED
      BY <2>3, <3>1, <3>2 DEF WriteAfterFlush
  <2>4. CASE TryFlush
    <3>1. CASE control' = "flushed" /\ NothingToRead(Loaded(client))
      <4>1. GetMaxReadLength(shared) = 0 /\ GetMaxReadLength(shared) = Used
        BY <3>1, RingFacts DEF NothingToRead
      <4>2. Len(handled) = Len(written)
        BY <4>1, NothingAhead
      <4> QED
        BY <2>4, <3>1, <4>2, AllExecuted DEF TryFlush, Stream!FlushAndReturn, Stream!Next
    <3>2. CASE control' = "flush"
      BY <2>4, <3>2 DEF TryFlush, Stream!vars
    <3> QED
      BY <2>4, <3>1, <3>2 DEF TryFlush
  <2>5. CASE FlushReturns
    <3>1. handled = written
      BY <2>5, AllExecuted DEF FlushReturns, IInv, ControlInv
    <3> QED
      BY <2>5, <3>1 DEF FlushReturns, Stream!FlushAndReturn, Stream!Next
  <2>6. CASE Return
    BY <2>6 DEF Return, Stream!Return, Stream!Next
  <2>7. CASE Consume
    BY <2>7 DEF Consume, Stream!vars
  <2>8. CASE ConsumeOne
    <3>1. CASE ConsumeMessage
      <4>1. Len(handled) < Len(written)
        BY <2>8, <3>1, ConsumedFacts DEF ConsumeOne, ConsumeMessage
      <4>2. handled' = Append(handled, written[Len(handled) + 1])
        BY <2>8, <3>1, <4>1, ConsumeStep
      <4> QED
        BY <2>8, <3>1, <4>1, <4>2 DEF ConsumeOne, ConsumeMessage, Stream!Execute, Stream!Next
    <3>2. CASE ConsumedAll \/ Incomplete
      BY <2>8, <3>2, NeverPart DEF ConsumeOne, ConsumedAll, Stream!vars
    <3> QED
      BY <2>8, <3>1, <3>2 DEF ConsumeOne
  <2>9. CASE UNCHANGED vars
    BY <2>9 DEF vars, Stream!vars
  <2> QED
    BY <2>1, <2>2, <2>3, <2>4, <2>5, <2>6, <2>7, <2>8, <2>9 DEF Next
<1> QED
  BY <1>1, <1>2, Invariant, PTL DEF Spec, ImplementsStream, Stream!Spec
=============================================================================
