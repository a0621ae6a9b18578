---------------------------------- MODULE BuffConn ----------------------------------
(***************************************************************************)
(* com/buffconn/buffconn.go and the framing of com/protocol/tcpMessage.go: *)
(* messages over one direction of a TCP connection, from the Conn that     *)
(* writes them to the Conn that reads them.  Write is called by one        *)
(* goroutine, that shares the write buffer with the flusher of New; Read   *)
(* is called by one goroutine in a loop.                                   *)
(*                                                                         *)
(* Abstractions: a byte is its number among the bytes of all the messages  *)
(* given to Write, a message its first byte and its size, which Read finds *)
(* in the first MinimumMessageSize bytes.  TCP accepts bytes at once and   *)
(* delivers them in order, any number of them at a time.  writeMutex is    *)
(* held by Write while writer is not idle, and by the flusher for a step.  *)
(***************************************************************************)
EXTENDS Integers, Sequences

CONSTANTS
    readBufferSize, writeBufferSize, MinimumMessageSize,
    CompactAbove,   \* the 1400 of Read
    Sizes,          \* of messages
    MaxBytes,       \* bound: the bytes given to Write
    MaxModes        \* bound: Writes of OpSetBuffered and OpSetNoDelay

ASSUME SizesAssumption ==
    /\ {readBufferSize, writeBufferSize, MinimumMessageSize, CompactAbove} \subseteq Nat
    /\ MinimumMessageSize > 0
    /\ Sizes \subseteq {z \in Nat : z >= MinimumMessageSize}
    /\ {MaxBytes, MaxModes} \subseteq Nat

VARIABLES
    sizeAt,         \* history: first byte -> size of the messages given to Write
    written,        \* history: the number of their bytes
    modes,          \* how many of them changed the mode
    writer,         \* "idle", "mode" (sending to ch) or "append"
    size,           \* of the message being written
    buffering, ch,
    closed,         \* Close was called
    flusher,        \* "off", "on" (has a ticker), "tick" (wants writeMutex) or "gone"
    writeBuffer, writeIndex,
    up, stream,     \* the TCP connection: the bytes it accepted, ...
    sent, rcvd,     \* ... how many, and how many of them tcp.Read returned
    reader,         \* "buffer", "big" (filling bigBuffer) or "gone"
    readBuffer, readStart, readEnd,
    bigBuffer, index,
    got,            \* the message the last Read returned
    delivered       \* history: the number of bytes of all messages that Read returned

messages == <<sizeAt, written, modes, size>>
mode == <<buffering, ch, closed>>
pending == <<writeBuffer, writeIndex>>
tcp == <<up, stream, sent>>
input == <<rcvd, readBuffer, readStart, readEnd, bigBuffer, index>>
output == <<got, delivered>>
vars == <<messages, writer, mode, flusher, pending, tcp, reader, input, output>>

Slice(buf, a, b) == [i \in 0 .. b - a - 1 |-> buf[a + i]]       \* buf[a:b]
Bytes(a, n) == [i \in 0 .. n - 1 |-> a + i]
Joined(s, k, t, n) == [i \in 0 .. k + n - 1 |-> IF i < k THEN s[i] ELSE t[i - k]]
(* copy(buf[k:], t) for a t of n bytes *)
CopyInto(buf, k, t, n) == [i \in DOMAIN buf |-> IF i >= k /\ i < k + n THEN t[i - k] ELSE buf[i]]

(* An error closes the connection; it was lost already. *)
tcpWrite(buf, n) ==
    /\ stream' = IF up THEN Joined(stream, sent, buf, n) ELSE stream
    /\ sent' = IF up THEN sent + n ELSE sent
    /\ up' = up
--------------------------------------------------------------------------------------
(* Write *)

Begin(z) ==
    /\ writer = "idle" /\ ~closed
    /\ written + z <= MaxBytes
    /\ sizeAt' = [b \in DOMAIN sizeAt \cup {written} |-> IF b = written THEN z ELSE sizeAt[b]]
    /\ written' = written + z
    /\ size' = z

Write(z) ==
    /\ Begin(z) /\ writer' = "append"
    /\ UNCHANGED <<modes, mode, flusher, pending, tcp, reader, input, output>>

(* OpSetBuffered and OpSetNoDelay have no key and no value. *)
WriteMode(buffered) ==
    /\ Begin(MinimumMessageSize) /\ writer' = "mode"
    /\ modes < MaxModes /\ modes' = modes + 1
    /\ buffering' = buffered
    /\ UNCHANGED <<ch, closed, flusher, pending, tcp, reader, input, output>>

SendMode ==
    /\ writer = "mode" /\ Len(ch) < 1
    /\ ch' = Append(ch, IF buffering THEN 1 ELSE 0)
    /\ writer' = "append"
    /\ UNCHANGED <<messages, buffering, closed, flusher, pending, tcp, reader, input, output>>

tooLong == size > writeBufferSize - writeIndex

AppendUnflushed ==
    /\ writer = "append" /\ ~tooLong
    /\ writer' = "idle"
    /\ writeBuffer' = CopyInto(writeBuffer, writeIndex, Bytes(written - size, size), size)
    /\ writeIndex' = writeIndex + size
    /\ UNCHANGED <<messages, mode, flusher, tcp, reader, input, output>>

AppendFits ==
    /\ writer = "append" /\ ~tooLong
    /\ writer' = "idle"
    /\ writeBuffer' = CopyInto(writeBuffer, writeIndex, Bytes(written - size, size), size)
    /\ IF buffering THEN writeIndex' = writeIndex + size /\ UNCHANGED tcp
       ELSE writeIndex' = 0 /\ tcpWrite(writeBuffer', writeIndex + size)
    /\ UNCHANGED <<messages, mode, flusher, reader, input, output>>

(* Flush old data; Write gives up on an error. *)
AppendFlush ==
    /\ writer = "append" /\ tooLong /\ writeIndex > 0
    /\ tcpWrite(writeBuffer, writeIndex)
    /\ IF up THEN writeIndex' = 0 /\ writer' = writer ELSE writeIndex' = writeIndex /\ writer' = "idle"
    /\ UNCHANGED <<messages, mode, flusher, writeBuffer, reader, input, output>>

AppendBig ==
    /\ writer = "append" /\ tooLong /\ writeIndex = 0
    /\ tcpWrite(Bytes(written - size, size), size)
    /\ writer' = "idle"
    /\ UNCHANGED <<messages, mode, flusher, pending, reader, input, output>>

(* Called by the goroutine that writes; what is in the buffer is not flushed. *)
Close ==
    /\ writer = "idle" /\ ~closed
    /\ closed' = TRUE /\ up' = FALSE
    /\ UNCHANGED <<messages, writer, buffering, ch, flusher, pending, stream, sent, reader, input,
                   output>>
--------------------------------------------------------------------------------------
(* The flusher *)

TakeMode ==
    /\ flusher \in {"off", "on"} /\ ch # << >>
    /\ flusher' = IF Head(ch) = 1 THEN "on" ELSE "off"
    /\ ch' = Tail(ch)
    /\ UNCHANGED <<messages, writer, buffering, closed, pending, tcp, reader, input, output>>

StopFlusher ==
    /\ flusher \in {"off", "on"} /\ ch = << >> /\ closed
    /\ flusher' = "gone"
    /\ UNCHANGED <<messages, writer, mode, pending, tcp, reader, input, output>>

Tick ==
    /\ flusher = "on" /\ flusher' = "tick"
    /\ UNCHANGED <<messages, writer, mode, pending, tcp, reader, input, output>>

Flush ==
    /\ flusher = "tick" /\ writer = "idle"
    /\ tcpWrite(writeBuffer, writeIndex)
    /\ writeIndex' = 0
    /\ flusher' = "on"
    /\ UNCHANGED <<messages, writer, mode, writeBuffer, reader, input, output>>
--------------------------------------------------------------------------------------
(* Read *)

Have == readEnd - readStart

(* The first bytes of the message at readStart; without its start, they could be anything. *)
messageSize == IF readBuffer[readStart] \in DOMAIN sizeAt THEN sizeAt[readBuffer[readStart]]
               ELSE MinimumMessageSize

Big == Have >= MinimumMessageSize /\ messageSize > readBufferSize - readStart
Complete == Have >= MinimumMessageSize /\ ~Big /\ Have >= messageSize

(* A tcp.Read into a slice of room bytes; with no room it returns 0 and no error. *)
Receive(n, room) ==
    /\ n \in 1 .. room /\ n <= sent - rcvd
    /\ rcvd' = rcvd + n

ReadMore(n) ==
    /\ reader = "buffer" /\ ~Big /\ ~Complete
    /\ Receive(n, readBufferSize - readEnd)
    /\ readBuffer' = CopyInto(readBuffer, readEnd, Slice(stream, rcvd, rcvd + n), n)
    /\ readEnd' = readEnd + n
    /\ UNCHANGED <<messages, writer, mode, flusher, pending, tcp, reader, readStart, bigBuffer, index,
                   output>>

StartBig ==
    /\ reader = "buffer" /\ Big
    /\ reader' = "big"
    /\ bigBuffer' = Slice(readBuffer, readStart, readEnd) /\ index' = Have
    /\ UNCHANGED <<messages, writer, mode, flusher, pending, tcp, rcvd, readBuffer, readStart, readEnd,
                   output>>

FillBig(n) ==
    /\ reader = "big" /\ index < messageSize
    /\ Receive(n, messageSize - index)
    /\ bigBuffer' = Joined(bigBuffer, index, Slice(stream, rcvd, rcvd + n), n)
    /\ index' = index + n
    /\ UNCHANGED <<messages, writer, mode, flusher, pending, tcp, reader, readBuffer, readStart,
                   readEnd, output>>

ReturnBigKeepingStart ==
    /\ reader = "big" /\ index = messageSize
    /\ got' = bigBuffer /\ delivered' = delivered + messageSize
    /\ reader' = "buffer"
    /\ readEnd' = 0 /\ bigBuffer' = << >> /\ index' = 0
    /\ UNCHANGED <<messages, writer, mode, flusher, pending, tcp, rcvd, readBuffer, readStart>>

ReturnBigKeepingBuffer ==
    /\ reader = "big" /\ index = messageSize
    /\ got' = bigBuffer /\ delivered' = delivered + messageSize
    /\ reader' = "buffer"
    /\ bigBuffer' = << >> /\ index' = 0
    /\ UNCHANGED <<messages, writer, mode, flusher, pending, tcp, rcvd, readBuffer, readStart, readEnd>>

ReturnBig ==
    /\ reader = "big" /\ index = messageSize
    /\ got' = bigBuffer /\ delivered' = delivered + messageSize
    /\ reader' = "buffer"
    /\ readStart' = 0 /\ readEnd' = 0 /\ bigBuffer' = << >> /\ index' = 0
    /\ UNCHANGED <<messages, writer, mode, flusher, pending, tcp, rcvd, readBuffer>>

Return ==
    /\ reader = "buffer" /\ Complete
    /\ IF readStart > CompactAbove
       THEN /\ readBuffer' = CopyInto(readBuffer, 0, Slice(readBuffer, readStart, readEnd), Have)
            /\ readEnd' = Have
            /\ readStart' = messageSize
       ELSE /\ readStart' = readStart + messageSize
            /\ UNCHANGED <<readBuffer, readEnd>>
    /\ got' = Slice(readBuffer', readStart' - messageSize, readStart')
    /\ delivered' = delivered + messageSize
    /\ UNCHANGED <<messages, writer, mode, flusher, pending, tcp, reader, rcvd, bigBuffer, index>>

ReadError ==
    /\ ~up
    /\ \/ reader = "buffer" /\ ~Big /\ ~Complete /\ readEnd < readBufferSize
       \/ reader = "big" /\ index < messageSize
    /\ reader' = "gone"
    /\ UNCHANGED <<messages, writer, mode, flusher, pending, tcp, input, output>>

Disconnect ==
    /\ up /\ up' = FALSE
    /\ UNCHANGED <<messages, writer, mode, flusher, pending, stream, sent, reader, input, output>>
--------------------------------------------------------------------------------------
Init ==
    /\ sizeAt = << >> /\ written = 0 /\ modes = 0 /\ size = 0
    /\ writer = "idle" /\ buffering = TRUE /\ ch = <<1>> /\ closed = FALSE /\ flusher = "off"
    /\ writeBuffer = [i \in 0 .. writeBufferSize - 1 |-> 0] /\ writeIndex = 0
    /\ up = TRUE /\ stream = Bytes(0, 0) /\ sent = 0 /\ rcvd = 0
    /\ reader = "buffer" /\ readBuffer = [i \in 0 .. readBufferSize - 1 |-> 0]
    /\ readStart = 0 /\ readEnd = 0 /\ bigBuffer = << >> /\ index = 0
    /\ got = << >> /\ delivered = 0

WriterStep == SendMode \/ AppendFits \/ AppendFlush \/ AppendBig
FlusherStep == TakeMode \/ StopFlusher \/ Tick \/ Flush
ReaderStep == \/ \E n \in 1 .. sent - rcvd : ReadMore(n) \/ FillBig(n)
              \/ StartBig \/ ReturnBig \/ Return \/ ReadError

Next ==
    \/ \E z \in Sizes : Write(z)
    \/ \E b \in BOOLEAN : WriteMode(b)
    \/ WriterStep \/ FlusherStep \/ ReaderStep
    \/ Close \/ Disconnect

Spec == Init /\ [][Next]_vars

(* A goroutine that can run does, and a waiting one gets the mutex in the end (sync.Mutex does
   not starve); TCP delivers what it accepted while it is up.  Nobody has to write. *)
Fairness == WF_vars(WriterStep) /\ WF_vars(TakeMode) /\ WF_vars(Tick) /\ SF_vars(Flush)
            /\ WF_vars(ReaderStep)
FairSpec == Spec /\ Fairness
--------------------------------------------------------------------------------------
WriterTypes ==
    /\ written \in Nat /\ size \in Nat /\ sent \in Nat /\ modes \in Nat
    /\ DOMAIN sizeAt \subseteq Nat
    /\ writer \in {"idle", "mode", "append"} /\ flusher \in {"off", "on", "tick", "gone"}
    /\ buffering \in BOOLEAN /\ closed \in BOOLEAN /\ up \in BOOLEAN
    /\ ch \in Seq({0, 1}) /\ Len(ch) <= 1
    /\ writeBuffer \in [0 .. writeBufferSize - 1 -> Nat] /\ writeIndex \in 0 .. writeBufferSize
    /\ stream \in [0 .. sent - 1 -> Nat]

ReaderTypes ==
    /\ reader \in {"buffer", "big", "gone"}
    /\ rcvd \in 0 .. sent /\ index \in Nat /\ delivered \in Nat
    /\ readBuffer \in [0 .. readBufferSize - 1 -> Nat]
    /\ readStart \in 0 .. readEnd /\ readEnd \in 0 .. readBufferSize

(* Types; indices stay inside their buffers. *)
TypeOK == WriterTypes /\ ReaderTypes

(* Read returns the messages given to Write, each whole, once and in order, however TCP cuts
   the stream, the flusher's writes and those of Write alternate, a message needs a buffer of
   its own, or the rest of the buffer is moved to its start. *)
WholeMessages ==
    delivered > 0 => /\ got[0] \in DOMAIN sizeAt
                     /\ got = Bytes(got[0], sizeAt[got[0]])
                     /\ got[0] + sizeAt[got[0]] = delivered

(* Write sends a second mode to ch, that is full, and the flusher waits for writeMutex. *)
ModesDeadlock == writer = "mode" /\ Len(ch) = 1 /\ flusher = "tick"

(* Read wants more bytes and has no room left for them: tcp.Read returns 0, again and again. *)
ReadSpins == reader = "buffer" /\ ~Big /\ ~Complete /\ readEnd = readBufferSize

(* While the connection is up, all that was written is read in the end, unless two changes of
   mode meet a tick or Read has filled its buffer: no other order of writes, ticks, changes of
   mode and reads leaves a message in the write buffer without a flusher that will send it, or
   a goroutine that waits for ever. *)
AllArrives == []<>(delivered = written \/ ~up \/ ModesDeadlock \/ ReadSpins)
======================================================================================
