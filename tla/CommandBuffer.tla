--------------------------- MODULE CommandBuffer ----------------------------
(***************************************************************************)
(* The commands the cgame, a process of its own, issues to the engine: a   *)
(* ring of bytes in shared memory (common/IPC/CommandBuffer), which the    *)
(* cgame writes (shared/CommandBufferClient) and the engine reads when it  *)
(* is told to (framework/CommandBufferHost).                               *)
(*                                                                         *)
(* Each process keeps both offsets of the ring, publishes its own in the   *)
(* shared memory and loads the other's.  The message that has the engine   *)
(* consume the ring is synchronous: the cgame waits until it returns.      *)
(***************************************************************************)
EXTENDS Integers, Sequences

CONSTANTS
    Size,           \* bytes of the ring
    SIZE_T,         \* 2^w for the width w of size_t
    Byte,           \* values of a byte of a command
    Messages,       \* the commands, without the length the ring keeps before each
    MaxWritten      \* bound of the model: commands issued

WORD == 4           \* sizeof(uint32_t), SAFETY_OFFSET, and the alignment

\* A command begins with its number, a uint32_t.
IsMessage(m) ==
    /\ m = [length |-> m.length, data |-> m.data]
    /\ m.length \in Nat /\ m.length >= WORD
    /\ m.data \in [0 .. m.length - 1 -> Byte]

\* SharedMemory::Create rounds the size up to whole pages.
ASSUME SizeAssumption ==
    /\ Size \in Nat /\ Size % WORD = 0 /\ Size > 2 * WORD
    /\ SIZE_T \in Nat /\ SIZE_T > 2 * Size
    /\ MaxWritten \in Nat

ASSUME MessageAssumption == \A m \in Messages : IsMessage(m)

VARIABLES
    memory,             \* the ring
    shared,             \* the offsets in the shared memory
    client, host,       \* the offsets each process works with
    control,            \* who runs, and what the cgame waits for
    waiting,            \* the command that waits for room in the ring
    written, handled,   \* history: commands written and executed, and
    starts              \* where they start, counted from the first byte written

vars == <<memory, shared, client, host, control, waiting, written, handled, starts>>

\* How a byte of the length of a message is kept.
LengthByte(n, k) == [length |-> n, byte |-> k]

NoMessage == [length |-> 0, data |-> [i \in 0 .. -1 |-> 0]]

Offsets(w, r) == [writerOffset |-> w, readerOffset |-> r]

\* CommandBuffer::Reset and Init.
Init ==
    /\ memory = [p \in 0 .. Size - 1 |-> LengthByte(0, 0)]
    /\ shared = Offsets(WORD, 0) /\ client = shared /\ host = shared
    /\ control = "engine" /\ waiting = NoMessage
    /\ written = <<>> /\ handled = <<>> /\ starts = <<0>>

-----------------------------------------------------------------------------
(* CommandBuffer; b is the client or the host.                             *)

Normalize(x) ==
    LET y == IF x >= Size THEN x - Size ELSE x
    IN  IF y >= Size THEN y - Size ELSE y

\* FromRead and FromWrite: the place of x when origin is the first.
From(origin, x) == IF x < origin THEN x + Size - origin ELSE x - origin

Unsigned(x) == IF x < 0 THEN x + SIZE_T ELSE x

GetMaxReadLength(b) == Unsigned(From(b.readerOffset, b.writerOffset) - WORD)

\* Mutant: without the safety offset.
MaxWriteLengthUnsafe(b) == From(b.writerOffset, b.readerOffset)

GetMaxWriteLength(b) == Unsigned(From(b.writerOffset, b.readerOffset) - WORD)

Aligned(n) == ((n + WORD - 1) \div WORD) * WORD

Total(m) == m.length + WORD

\* The bytes of a message in the ring: its length, then its data.
ByteOf(m, k) == IF k < WORD THEN LengthByte(m.length, k) ELSE m.data[k - WORD]

\* The offsets after a message of n bytes, advanced to the next word.
\* Mutant: the reader goes to the end of the message.
AdvanceReadPointerUnaligned(n) == Normalize(host.readerOffset + n)

AdvanceReadPointer(n) == Normalize(host.readerOffset + Aligned(n))

AdvanceWritePointer(n) == Normalize(client.writerOffset + Aligned(n))

\* Write, twice, at the offset of the writer.
MemoryWith(m) ==
    [p \in 0 .. Size - 1 |->
        LET k == From(client.writerOffset, p)
        IN  IF k < Total(m) THEN ByteOf(m, k) ELSE memory[p]]

\* Read, of the byte at an offset from the reader.
ByteAt(k) == memory[Normalize(Normalize(host.readerOffset + WORD) + k)]

-----------------------------------------------------------------------------
(* CommandBufferClient, in the cgame.                                      *)

\* The engine calls a handler of the cgame.
Call ==
    /\ control \in {"engine", "flushed"}
    /\ control' = "cgame"
    /\ UNCHANGED <<memory, shared, client, host, waiting, written, handled, starts>>

\* LoadReaderData.
Loaded(b) == Offsets(b.writerOffset, shared.readerOffset)

AfterFlush(b) == Loaded(b)

\* The message is written and the writer's offset advanced.
PutMessage(b, m) ==
    LET w == AdvanceWritePointer(Total(m))
    IN  /\ memory' = MemoryWith(m)
        /\ client' = Offsets(w, b.readerOffset)
        /\ shared' = Offsets(w, shared.readerOffset)
        /\ written' = Append(written, m)
        /\ starts' = Append(starts, starts[Len(starts)] + Aligned(Total(m)))

\* Write: a message for which there is no room waits for the engine.
Write(m) ==
    /\ control = "cgame" /\ Len(written) < MaxWritten
    /\ \/ /\ Total(m) <= GetMaxWriteLength(Loaded(client))
          /\ PutMessage(Loaded(client), m)
          /\ UNCHANGED <<control, waiting>>
       \/ /\ Total(m) > GetMaxWriteLength(Loaded(client))
          /\ client' = Loaded(client)
          /\ control' = "flush" /\ waiting' = m
          /\ UNCHANGED <<memory, shared, written, starts>>
    /\ UNCHANGED <<host, handled>>

\* ... and is written when Flush has returned, or is too long.
WriteAfterFlush ==
    /\ control = "consumed" /\ waiting # NoMessage
    /\ waiting' = NoMessage
    /\ \/ /\ Total(waiting) <= GetMaxWriteLength(AfterFlush(client))
          /\ PutMessage(AfterFlush(client), waiting)
          /\ control' = "cgame"
       \/ /\ Total(waiting) > GetMaxWriteLength(AfterFlush(client))
          /\ control' = "too long"
          /\ client' = AfterFlush(client)
          /\ UNCHANGED <<memory, shared, written, starts>>
    /\ UNCHANGED <<host, handled>>

\* TryFlush, at the end of a handler.
\* Mutant: a ring that looks full is taken for empty.
NothingToReadOrFull(b) == GetMaxReadLength(b) = 0 \/ GetMaxWriteLength(b) = 0

NothingToRead(b) == GetMaxReadLength(b) = 0

TryFlush ==
    /\ control = "cgame"
    /\ client' = Loaded(client)
    /\ control' = IF NothingToRead(Loaded(client)) THEN "flushed" ELSE "flush"
    /\ UNCHANGED <<memory, shared, host, waiting, written, handled, starts>>

FlushReturns ==
    /\ control = "consumed" /\ waiting = NoMessage
    /\ control' = "flushed"
    /\ UNCHANGED <<memory, shared, client, host, waiting, written, handled, starts>>

\* The end of a handler that does not flush, as those of CG_SHUTDOWN and
\* CG_ROCKET_VM_INIT.
Return ==
    /\ control = "cgame"
    /\ control' = "engine"
    /\ UNCHANGED <<memory, shared, client, host, waiting, written, handled, starts>>

-----------------------------------------------------------------------------
(* CommandBufferHost, in the engine.                                       *)

LoadWriterData(b) == Offsets(shared.writerOffset, b.readerOffset)

\* Consume.
Consume ==
    /\ control = "flush"
    /\ host' = LoadWriterData(host)
    /\ control' = "consume"
    /\ UNCHANGED <<memory, shared, client, waiting, written, handled, starts>>

\* The host looks again when it has read everything.
Current == IF GetMaxReadLength(host) >= WORD THEN host ELSE LoadWriterData(host)

\* The length of the next message, -1 if the bytes read are not one.
NextLength ==
    LET lengths == { n \in { m.length : m \in Messages } :
                        \A k \in 0 .. WORD - 1 : ByteAt(k) = LengthByte(n, k) }
    IN  IF lengths = {} THEN -1 ELSE CHOOSE n \in lengths : TRUE

NextMessage ==
    [length |-> NextLength, data |-> [i \in 0 .. NextLength - 1 |-> ByteAt(WORD + i)]]

CanRead(b, n) == GetMaxReadLength(b) >= n

\* ConsumeOne: a message is copied and executed, the ring is empty, or what there
\* is is not a message.
ConsumeMessage ==
    /\ CanRead(Current, WORD) /\ NextLength # -1 /\ CanRead(Current, NextLength + WORD)
    /\ LET r == AdvanceReadPointer(NextLength + WORD)
       IN  /\ host' = Offsets(Current.writerOffset, r)
           /\ shared' = Offsets(shared.writerOffset, r)
    /\ handled' = Append(handled, NextMessage)
    /\ UNCHANGED control

ConsumedAll ==
    /\ ~CanRead(Current, WORD) /\ GetMaxReadLength(Current) = 0
    /\ host' = Current
    /\ control' = "consumed"
    /\ UNCHANGED <<shared, handled>>

Incomplete ==
    /\ \/ ~CanRead(Current, WORD) /\ GetMaxReadLength(Current) # 0
       \/ CanRead(Current, WORD) /\ (NextLength = -1 \/ ~CanRead(Current, NextLength + WORD))
    /\ host' = Current
    /\ control' = "incomplete"
    /\ UNCHANGED <<shared, handled>>

ConsumeOne ==
    /\ control = "consume"
    /\ ConsumeMessage \/ ConsumedAll \/ Incomplete
    /\ UNCHANGED <<memory, client, waiting, written, starts>>

Next ==
    \/ Call
    \/ \E m \in Messages : Write(m)
    \/ WriteAfterFlush
    \/ TryFlush
    \/ FlushReturns
    \/ Return
    \/ Consume
    \/ ConsumeOne

Spec == Init /\ [][Next]_vars

\* Both processes run on when it is their turn.
FairSpec ==
    /\ Spec
    /\ WF_vars(Consume) /\ WF_vars(ConsumeOne)
    /\ WF_vars(WriteAfterFlush) /\ WF_vars(FlushReturns)

-----------------------------------------------------------------------------
IsOffset(x) == x \in 0 .. Size - 1

IsOffsets(b) == b = Offsets(b.writerOffset, b.readerOffset) /\ IsOffset(b.writerOffset) /\ IsOffset(b.readerOffset)

TypeOK ==
    /\ DOMAIN memory = 0 .. Size - 1
    /\ IsOffsets(shared) /\ IsOffsets(client) /\ IsOffsets(host)
    /\ control \in {"engine", "flushed", "cgame", "flush", "consume", "consumed",
                    "too long", "incomplete"}
    /\ waiting \in Messages \cup {NoMessage}
    /\ written \in Seq(Messages)

\* The engine never finds part of a message, however lengths and the end of the
\* ring fall ("had an incomplete length write", "an incomplete message write",
\* CommandBufferHost::ConsumeOne).
NeverIncomplete == control # "incomplete"

\* The reader's and the writer's offset are never closer than the safety offset, in
\* either direction, so that a full ring does not look like an empty one.
SafetyOffsetKept ==
    /\ From(shared.readerOffset, shared.writerOffset) >= WORD
    /\ From(shared.writerOffset, shared.readerOffset) >= WORD

\* The ring implements the stream of commands the cgame counts on.
Stream ==
    INSTANCE CommandStream WITH
        runs     <- IF control \in {"engine", "flushed"} THEN control ELSE "cgame",
        issued   <- written,
        executed <- handled

ImplementsStream == Stream!Spec

\* A call that has the engine consume the ring comes back.
FlushComesBack ==
    control \in {"flush", "consume", "consumed"} ~>
        control \in {"cgame", "flushed", "too long"}
=============================================================================
