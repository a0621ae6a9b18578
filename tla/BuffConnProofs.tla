-------------------------------- MODULE BuffConnProofs --------------------------------
(***************************************************************************)
(* Messages arrive whole, once and in order, for all sizes of buffers and  *)
(* of messages, any cut of the stream and any interleaving of the writer,  *)
(* the flusher and the reader.  The invariant says of each place a byte    *)
(* can be in which byte it is: the stream has the bytes from 0 on, the     *)
(* write buffer those after the stream, the read buffers those after what  *)
(* was delivered; and that the messages tile the bytes.  A connection that *)
(* is down may lose bytes, so the write buffer counts only while it is up. *)
(***************************************************************************)
EXTENDS BuffConn, TLAPS

Tiles ==
    \A b \in DOMAIN sizeAt :
        /\ sizeAt[b] \in Nat /\ sizeAt[b] >= MinimumMessageSize
        /\ b + sizeAt[b] <= written
        /\ b + sizeAt[b] = written \/ b + sizeAt[b] \in DOMAIN sizeAt
Sent == sent <= written /\ \A i \in 0 .. sent - 1 : stream[i] = i
Pending ==
    /\ size <= written
    /\ up => /\ \A i \in 0 .. writeIndex - 1 : writeBuffer[i] = sent + i
             /\ sent + writeIndex = IF writer = "idle" THEN written ELSE written - size
WInv == WriterTypes /\ Tiles /\ Sent /\ Pending

AtStart == delivered = written \/ delivered \in DOMAIN sizeAt
Buffered ==
    reader # "gone" => \A i \in readStart .. readEnd - 1 : readBuffer[i] = delivered + (i - readStart)
Received ==
    /\ reader = "buffer" => rcvd = delivered + Have
    /\ reader = "big" => /\ Have > 0 /\ Have <= index /\ rcvd = delivered + index
                         /\ bigBuffer = Bytes(delivered, index)
RInv == ReaderTypes /\ AtStart /\ Buffered /\ Received /\ WholeMessages

IInv == WInv /\ RInv
---------------------------------------------------------------------------------------
(* The bytes of a message. *)
LEMMA BytesFacts ==
    ASSUME NEW a \in Nat, NEW n \in Nat
    PROVE  Bytes(a, n) \in [0 .. n - 1 -> Nat] /\ \A i \in 0 .. n - 1 : Bytes(a, n)[i] = a + i
BY DEF Bytes

(* Bytes that follow the stream make a longer stream of the same kind, if it is up. *)
LEMMA TcpWriteFacts ==
    ASSUME WriterTypes, Sent, NEW m \in Nat, NEW n \in Nat, n <= m, NEW buf \in [0 .. m - 1 -> Nat],
           tcpWrite(buf, n),
           up => (\A i \in 0 .. n - 1 : buf[i] = sent + i) /\ sent + n <= written, written' = written
    PROVE  /\ sent' \in Nat /\ stream' \in [0 .. sent' - 1 -> Nat] /\ Sent' /\ up' = up
           /\ sent' >= sent /\ (up => sent' = sent + n)
<1> USE DEF WriterTypes
<1>1. CASE up
  <2>1. sent' = sent + n /\ stream' = Joined(stream, sent, buf, n) /\ up' = up
    BY <1>1 DEF tcpWrite
  <2>2. stream' = [i \in 0 .. sent + n - 1 |-> IF i < sent THEN stream[i] ELSE buf[i - sent]]
    BY <2>1 DEF Joined
  <2>3. \A i \in 0 .. sent + n - 1 : stream'[i] = i
    <3> SUFFICES ASSUME NEW i \in 0 .. sent + n - 1 PROVE stream'[i] = i
      OBVIOUS
    <3>1. CASE i < sent
      BY <2>2, <3>1 DEF Sent
    <3>2. CASE ~(i < sent)
      <4>1. i - sent \in 0 .. n - 1
        BY <3>2
      <4> QED
        BY <1>1, <2>2, <3>2, <4>1
    <3> QED
      BY <3>1, <3>2
  <2>4. stream' \in [0 .. sent + n - 1 -> Nat]
    BY <2>2, <2>3
  <2> QED
    BY <1>1, <2>1, <2>3, <2>4 DEF Sent
<1>2. CASE ~up
  BY <1>2 DEF tcpWrite, Sent
<1> QED
  BY <1>1, <1>2
---------------------------------------------------------------------------------------
(* A new message starts where the last one ends. *)
LEMMA BeginKeeps ==
    ASSUME WInv, RInv, NEW z \in Nat, z >= MinimumMessageSize, Begin(z),
           UNCHANGED <<sent, stream, up, reader, input, output>>
    PROVE  /\ written' = written + z /\ size' = z /\ DOMAIN sizeAt' \subseteq Nat
           /\ Tiles' /\ Sent' /\ RInv'
<1> USE SizesAssumption DEF WInv, WriterTypes, Begin
<1>1. DOMAIN sizeAt' = DOMAIN sizeAt \cup {written} /\ sizeAt'[written] = z
  OBVIOUS
<1>2. \A b \in DOMAIN sizeAt : b # written /\ sizeAt'[b] = sizeAt[b]
  <2>1. ASSUME NEW b \in DOMAIN sizeAt PROVE b # written
    <3>1. b \in Nat /\ written \in Nat /\ MinimumMessageSize \in Nat /\ MinimumMessageSize > 0
      OBVIOUS
    <3>2. sizeAt[b] \in Nat /\ sizeAt[b] >= MinimumMessageSize /\ b + sizeAt[b] <= written
      BY DEF Tiles
    <3> QED
      BY ONLY <3>1, <3>2
  <2> QED
    BY <2>1
<1>3. Tiles'
  BY <1>1, <1>2, SMTT(30) DEF Tiles
<1>4. Sent'
  BY DEF Sent
<1>5. AtStart'
  BY <1>1 DEF AtStart, RInv, output
<1>6. WholeMessages'
  BY <1>1, <1>2 DEF WholeMessages, RInv, output
<1>7. ReaderTypes' /\ Buffered' /\ Received'
  BY DEF RInv, ReaderTypes, Buffered, Received, Have, input, output
<1> QED
  BY <1>1, <1>3, <1>4, <1>5, <1>6, <1>7 DEF RInv

(* What the other steps of the writer and the flusher do, the reader does not see. *)
LEMMA ReaderUnaware ==
    ASSUME WInv, RInv, UNCHANGED <<messages, reader, input, output>>, sent' \in Nat, sent' >= sent
    PROVE  RInv' /\ Tiles'
<1>1. ReaderTypes'
  BY DEF RInv, ReaderTypes, input, output, WInv, WriterTypes
<1> QED
  BY <1>1 DEF RInv, AtStart, Buffered, Received, WholeMessages, Have, Tiles, WInv, input, output, messages

(* Every step of a Write keeps the invariant. *)
LEMMA WriterKeepsInv ==
    ASSUME IInv, WriterStep \/ (\E z \in Sizes : Write(z)) \/ (\E b \in BOOLEAN : WriteMode(b)) \/ Close
    PROVE  IInv'
<1> USE SizesAssumption DEF IInv
<1>1. ASSUME NEW z \in Sizes, Write(z) PROVE IInv'
  <2>1. z \in Nat /\ z >= MinimumMessageSize /\ Begin(z) /\ writer' = "append" /\ writer = "idle"
        /\ UNCHANGED <<modes, mode, flusher, pending, tcp, reader, input, output>>
    BY <1>1 DEF Write, Begin
  <2>2. /\ written' = written + z /\ size' = z /\ DOMAIN sizeAt' \subseteq Nat
        /\ Tiles' /\ Sent' /\ RInv'
    BY <2>1, BeginKeeps DEF tcp
  <2>3. WriterTypes'
    BY <2>1, <2>2 DEF WInv, WriterTypes, mode, pending, tcp
  <2>4. Pending'
    BY <2>1, <2>2 DEF WInv, WriterTypes, Pending, pending, tcp
  <2> QED
    BY <2>2, <2>3, <2>4 DEF WInv
<1>2. ASSUME NEW b \in BOOLEAN, WriteMode(b) PROVE IInv'
  <2> DEFINE z == MinimumMessageSize
  <2>1. z \in Nat /\ z >= MinimumMessageSize /\ Begin(z) /\ writer' = "mode" /\ writer = "idle"
        /\ modes' = modes + 1 /\ buffering' = b
        /\ UNCHANGED <<ch, closed, flusher, pending, tcp, reader, input, output>>
    BY <1>2 DEF WriteMode, Begin
  <2>2. /\ written' = written + z /\ size' = z /\ DOMAIN sizeAt' \subseteq Nat
        /\ Tiles' /\ Sent' /\ RInv'
    BY <2>1, BeginKeeps DEF tcp
  <2>3. WriterTypes'
    BY <2>1, <2>2, SMTT(30) DEF WInv, WriterTypes, pending, tcp
  <2>4. Pending'
    BY <2>1, <2>2 DEF WInv, WriterTypes, Pending, pending, tcp
  <2> QED
    BY <2>2, <2>3, <2>4 DEF WInv
<1>3. ASSUME SendMode PROVE IInv'
  <2>1. /\ writer = "mode" /\ writer' = "append" /\ Len(ch) < 1
        /\ ch' = Append(ch, IF buffering THEN 1 ELSE 0)
        /\ UNCHANGED <<messages, buffering, closed, flusher, pending, tcp, reader, input, output>>
    BY <1>3 DEF SendMode
  <2>2. ch' \in Seq({0, 1}) /\ Len(ch') <= 1
    BY <2>1 DEF WInv, WriterTypes
  <2>3. WriterTypes'
    BY <2>1, <2>2 DEF WInv, WriterTypes, messages, pending, tcp
  <2>4. Sent' /\ Pending'
    BY <2>1 DEF WInv, Sent, Pending, messages, pending, tcp
  <2> QED
    <3>1. sent' \in Nat /\ sent' >= sent /\ UNCHANGED <<messages, reader, input, output>>
      BY <2>1 DEF WInv, WriterTypes, tcp
    <3> QED
      BY <2>3, <2>4, <3>1, ReaderUnaware, Zenon DEF WInv
<1>4. ASSUME AppendFits PROVE IInv'
  <2>0. PICK t : t = Bytes(written - size, size)
    OBVIOUS
  <2>1. /\ writer = "append" /\ writer' = "idle" /\ size <= writeBufferSize - writeIndex
        /\ writeBuffer' = CopyInto(writeBuffer, writeIndex, t, size)
        /\ UNCHANGED <<messages, mode, flusher, reader, input, output>>
    BY <1>4, <2>0 DEF AppendFits, tooLong, WInv, WriterTypes
  <2>2. /\ t \in [0 .. size - 1 -> Nat] /\ \A i \in 0 .. size - 1 : t[i] = written - size + i
    <3>1. size \in Nat /\ written - size \in Nat
      BY DEF WInv, WriterTypes, Pending
    <3> QED
      BY <2>0, <3>1, BytesFacts, Zenon
  <2>3. /\ writeBuffer' \in [0 .. writeBufferSize - 1 -> Nat]
        /\ \A i \in 0 .. writeIndex - 1 : writeBuffer'[i] = writeBuffer[i]
        /\ \A i \in writeIndex .. writeIndex + size - 1 : writeBuffer'[i] = t[i - writeIndex]
    <3>1. /\ writeBufferSize \in Nat /\ writeBuffer \in [0 .. writeBufferSize - 1 -> Nat]
          /\ writeIndex \in Nat /\ size \in Nat /\ writeIndex + size <= writeBufferSize
      BY <2>1 DEF WInv, WriterTypes
    <3>2. t \in [0 .. size - 1 -> Nat]
      BY <2>2
    <3>3. writeBuffer' = CopyInto(writeBuffer, writeIndex, t, size)
      BY <2>1
    <3>4. writeBuffer' = [i \in 0 .. writeBufferSize - 1 |->
                            IF i >= writeIndex /\ i < writeIndex + size THEN t[i - writeIndex]
                            ELSE writeBuffer[i]]
      BY ONLY <3>1, <3>3 DEF CopyInto
    <3>5. \A i \in 0 .. writeBufferSize - 1 :
            (IF i >= writeIndex /\ i < writeIndex + size THEN t[i - writeIndex] ELSE writeBuffer[i])
                \in Nat
      BY ONLY <3>1, <3>2
    <3>6. writeBuffer' \in [0 .. writeBufferSize - 1 -> Nat]
      BY ONLY <3>4, <3>5
    <3>7. \A i \in 0 .. writeIndex - 1 : writeBuffer'[i] = writeBuffer[i]
      BY ONLY <3>1, <3>4
    <3>8. \A i \in writeIndex .. writeIndex + size - 1 : writeBuffer'[i] = t[i - writeIndex]
      BY ONLY <3>1, <3>4
    <3> QED
      BY <3>6, <3>7, <3>8
  <2>4. up => /\ \A i \in 0 .. writeIndex + size - 1 : writeBuffer'[i] = sent + i
              /\ sent + writeIndex + size = written
    <3> SUFFICES ASSUME up PROVE /\ \A i \in 0 .. writeIndex + size - 1 : writeBuffer'[i] = sent + i
                                 /\ sent + writeIndex + size = written
      OBVIOUS
    <3>1. sent + writeIndex = written - size /\ \A i \in 0 .. writeIndex - 1 : writeBuffer[i] = sent + i
      BY <2>1 DEF WInv, Pending
    <3>2. ASSUME NEW i \in writeIndex .. writeIndex + size - 1 PROVE writeBuffer'[i] = sent + i
      <4>1. i - writeIndex \in 0 .. size - 1 /\ i \in Int
        BY DEF WInv, WriterTypes
      <4>2. writeBuffer'[i] = t[i - writeIndex] /\ t[i - writeIndex] = written - size + (i - writeIndex)
        BY <2>2, <2>3, <4>1
      <4> QED
        BY <3>1, <4>1, <4>2 DEF WInv, WriterTypes
    <3> QED
      BY <2>3, <3>1, <3>2 DEF WInv, WriterTypes
  <2>5. CASE buffering
    <3>1. writeIndex' = writeIndex + size /\ UNCHANGED tcp
      BY <1>4, <2>5 DEF AppendFits
    <3>2. WriterTypes' /\ Sent' /\ Pending'
      BY <2>1, <2>3, <2>4, <3>1, SMTT(30) DEF WInv, WriterTypes, Sent, Pending, messages, mode, tcp
    <3>3. sent' \in Nat /\ sent' >= sent
      BY <3>1 DEF WInv, WriterTypes, tcp
    <3> QED
      BY <2>1, <3>2, <3>3, ReaderUnaware DEF WInv
  <2>6. CASE ~buffering
    <3>1. writeIndex' = 0 /\ tcpWrite(writeBuffer', writeIndex + size)
      BY <1>4, <2>6 DEF AppendFits
    <3>2. /\ sent' \in Nat /\ stream' \in [0 .. sent' - 1 -> Nat] /\ Sent' /\ up' = up
          /\ sent' >= sent /\ (up => sent' = sent + (writeIndex + size))
      <4>1. /\ writeBufferSize \in Nat /\ writeIndex + size \in Nat /\ sent \in Nat
            /\ writeIndex + size <= writeBufferSize /\ WriterTypes /\ Sent
        BY <2>1, SMTT(30) DEF WInv, WriterTypes
      <4>2. up => /\ \A i \in 0 .. (writeIndex + size) - 1 : writeBuffer'[i] = sent + i
                  /\ sent + (writeIndex + size) <= written
        BY <2>4, <4>1 DEF WriterTypes
      <4>3. written' = written
        BY <2>1 DEF messages
      <4> QED
        BY <2>3, <3>1, <4>1, <4>2, <4>3, TcpWriteFacts, Zenon
    <3>3. WriterTypes'
      <4>1. writeIndex' \in 0 .. writeBufferSize
        BY <3>1
      <4> QED
        BY <2>1, <2>3, <3>2, <4>1, Zenon DEF WInv, WriterTypes, messages, mode
    <3>4. Pending'
      <4>1. size' <= written'
        BY <2>1 DEF WInv, Pending, messages
      <4>2. up' => sent' + writeIndex' = written'
        BY <2>1, <2>4, <3>1, <3>2 DEF WInv, WriterTypes, messages
      <4> QED
        BY <2>1, <3>1, <4>1, <4>2 DEF Pending
    <3> QED
      BY <2>1, <3>2, <3>3, <3>4, ReaderUnaware DEF WInv
  <2> QED
    BY <2>5, <2>6
<1>5. ASSUME AppendFlush PROVE IInv'
  <2>1. /\ writer = "append" /\ tcpWrite(writeBuffer, writeIndex)
        /\ UNCHANGED <<messages, mode, flusher, writeBuffer, reader, input, output>>
        /\ IF up THEN writeIndex' = 0 /\ writer' = writer ELSE writeIndex' = writeIndex /\ writer' = "idle"
    BY <1>5 DEF AppendFlush
  <2>2. /\ sent' \in Nat /\ stream' \in [0 .. sent' - 1 -> Nat] /\ Sent' /\ up' = up
        /\ sent' >= sent /\ (up => sent' = sent + writeIndex)
    <3>1. /\ writeBufferSize \in Nat /\ writeIndex \in Nat /\ sent \in Nat /\ written \in Nat
          /\ size \in Nat /\ writeIndex <= writeBufferSize /\ WriterTypes /\ Sent
          /\ writeBuffer \in [0 .. writeBufferSize - 1 -> Nat]
      BY SMTT(30) DEF WInv, WriterTypes
    <3>2. up => /\ \A i \in 0 .. writeIndex - 1 : writeBuffer[i] = sent + i
                /\ sent + writeIndex <= written
      BY <2>1, <3>1 DEF WInv, Pending
    <3>3. written' = written
      BY <2>1 DEF messages
    <3>4. tcpWrite(writeBuffer, writeIndex)
      BY <2>1
    <3> QED
      BY ONLY <3>1, <3>2, <3>3, <3>4, TcpWriteFacts
  <2>3. WriterTypes'
    <3>1. writeIndex' \in 0 .. writeBufferSize /\ writer' \in {"idle", "mode", "append"}
      BY <2>1 DEF WInv, WriterTypes
    <3> QED
      BY <2>1, <2>2, <3>1, Zenon DEF WInv, WriterTypes, messages, mode
  <2>4. Pending'
    <3>1. size' <= written'
      BY <2>1 DEF WInv, Pending, messages
    <3>2. CASE up
      <4>1. writer' = "append" /\ writeIndex' = 0 /\ sent' = sent + writeIndex
            /\ sent + writeIndex = written - size /\ UNCHANGED <<written, size>>
        BY <2>1, <2>2, <3>2 DEF WInv, Pending, messages
      <4>2. sent' + writeIndex' = written' - size'
        BY <4>1 DEF WInv, WriterTypes
      <4> QED
        BY <3>1, <4>1, <4>2 DEF Pending
    <3>3. CASE ~up
      BY <2>2, <3>1, <3>3 DEF Pending
    <3> QED
      BY <3>2, <3>3
  <2> QED
    BY <2>1, <2>2, <2>3, <2>4, ReaderUnaware DEF WInv
<1>6. ASSUME AppendBig PROVE IInv'
  <2>0. PICK t : t = Bytes(written - size, size)
    OBVIOUS
  <2>1. /\ writer = "append" /\ writer' = "idle" /\ writeIndex = 0 /\ tcpWrite(t, size)
        /\ UNCHANGED <<messages, mode, flusher, pending, reader, input, output>>
    BY <1>6, <2>0 DEF AppendBig
  <2>2. t \in [0 .. size - 1 -> Nat] /\ \A i \in 0 .. size - 1 : t[i] = written - size + i
    <3>1. size \in Nat /\ written - size \in Nat
      BY DEF WInv, WriterTypes, Pending
    <3> QED
      BY <2>0, <3>1, BytesFacts, Zenon
  <2>3. /\ sent' \in Nat /\ stream' \in [0 .. sent' - 1 -> Nat] /\ Sent' /\ up' = up
        /\ sent' >= sent /\ (up => sent' = sent + size)
    <3>1. size \in Nat /\ sent \in Nat /\ written \in Nat /\ WriterTypes /\ Sent
      BY DEF WInv, WriterTypes
    <3>2. up => sent = written - size
      BY <2>1, <3>1 DEF WInv, Pending
    <3>3. up => (\A i \in 0 .. size - 1 : t[i] = sent + i) /\ sent + size <= written
      <4>1. up => sent + size <= written
        BY <3>1, <3>2
      <4>2. up => \A i \in 0 .. size - 1 : t[i] = sent + i
        BY ONLY <2>2, <3>2, Zenon
      <4> QED
        BY <4>1, <4>2, Zenon
    <3>4. written' = written
      BY <2>1 DEF messages
    <3>5. t \in [0 .. size - 1 -> Nat] /\ tcpWrite(t, size) /\ size <= size
      BY <2>1, <2>2, <3>1
    <3> QED
      BY ONLY <3>1, <3>3, <3>4, <3>5, TcpWriteFacts
  <2>4. WriterTypes'
    BY <2>1, <2>3, Zenon DEF WInv, WriterTypes, messages, mode, pending
  <2>5. Pending'
    <3>1. size' <= written' /\ writeIndex' = 0
      BY <2>1 DEF WInv, Pending, messages, pending
    <3>2. up => sent' = written'
      BY <2>1, <2>3 DEF WInv, WriterTypes, Pending, messages
    <3>3. up' => sent' + writeIndex' = written'
      BY <2>3, <3>1, <3>2
    <3> QED
      BY <2>1, <3>1, <3>3 DEF Pending
  <2> QED
    BY <2>1, <2>3, <2>4, <2>5, ReaderUnaware DEF WInv
<1>7. ASSUME Close PROVE IInv'
  <2>1. WriterTypes' /\ Sent' /\ Pending'
    BY <1>7, Zenon DEF Close, WInv, WriterTypes, Sent, Pending, messages, pending
  <2> QED
    <3>1. sent' \in Nat /\ sent' >= sent /\ UNCHANGED <<messages, reader, input, output>>
      BY <1>7 DEF WInv, WriterTypes, Close
    <3> QED
      BY <2>1, <3>1, ReaderUnaware DEF WInv
<1> QED
  BY <1>1, <1>2, <1>3, <1>4, <1>5, <1>6, <1>7 DEF WriterStep
---------------------------------------------------------------------------------------
(* Every step of the flusher, and a lost connection, keep the invariant. *)
LEMMA FlusherKeepsInv ==
    ASSUME IInv, FlusherStep \/ Disconnect
    PROVE  IInv'
<1> USE SizesAssumption DEF IInv
<1>1. ASSUME TakeMode \/ StopFlusher \/ Tick PROVE IInv'
  <2>1. UNCHANGED <<messages, writer, buffering, closed, pending, tcp, reader, input, output>>
    BY <1>1 DEF TakeMode, StopFlusher, Tick, mode
  <2>2. flusher' \in {"off", "on", "tick", "gone"} /\ ch' \in Seq({0, 1}) /\ Len(ch') <= 1
    <3>1. CASE TakeMode
      BY <3>1 DEF TakeMode, WInv, WriterTypes
    <3>2. CASE StopFlusher \/ Tick
      BY <3>2 DEF StopFlusher, Tick, mode, WInv, WriterTypes
    <3> QED
      BY <1>1, <3>1, <3>2
  <2>3. WriterTypes'
    BY <2>1, <2>2, Zenon DEF WInv, WriterTypes, messages, pending, tcp
  <2>4. Sent' /\ Pending'
    BY <2>1 DEF WInv, Sent, Pending, messages, pending, tcp
  <2>5. sent' \in Nat /\ sent' >= sent
    BY <2>1 DEF WInv, WriterTypes, tcp
  <2> QED
    BY <2>1, <2>3, <2>4, <2>5, ReaderUnaware DEF WInv
<1>2. ASSUME Flush PROVE IInv'
  <2>1. /\ writer = "idle" /\ tcpWrite(writeBuffer, writeIndex) /\ writeIndex' = 0 /\ flusher' = "on"
        /\ UNCHANGED <<messages, writer, mode, writeBuffer, reader, input, output>>
    BY <1>2 DEF Flush
  <2>2. /\ sent' \in Nat /\ stream' \in [0 .. sent' - 1 -> Nat] /\ Sent' /\ up' = up
        /\ sent' >= sent /\ (up => sent' = sent + writeIndex)
    <3>1. /\ writeBufferSize \in Nat /\ writeIndex \in Nat /\ sent \in Nat /\ written \in Nat
          /\ writeIndex <= writeBufferSize /\ WriterTypes /\ Sent
          /\ writeBuffer \in [0 .. writeBufferSize - 1 -> Nat]
      BY SMTT(30) DEF WInv, WriterTypes
    <3>2. up => /\ \A i \in 0 .. writeIndex - 1 : writeBuffer[i] = sent + i
                /\ sent + writeIndex <= written
      BY <2>1, <3>1 DEF WInv, Pending
    <3>3. written' = written
      BY <2>1 DEF messages
    <3>4. tcpWrite(writeBuffer, writeIndex)
      BY <2>1
    <3> QED
      BY ONLY <3>1, <3>2, <3>3, <3>4, TcpWriteFacts
  <2>3. WriterTypes'
    <3>1. writeIndex' \in 0 .. writeBufferSize /\ flusher' \in {"off", "on", "tick", "gone"}
      BY <2>1
    <3> QED
      BY <2>1, <2>2, <3>1, Zenon DEF WInv, WriterTypes, messages, mode
  <2>4. Pending'
    <3>1. size' <= written'
      BY <2>1 DEF WInv, Pending, messages
    <3>2. up' => sent' + writeIndex' = written'
      BY <2>1, <2>2 DEF WInv, WriterTypes, Pending, messages
    <3> QED
      BY <2>1, <3>1, <3>2 DEF Pending
  <2> QED
    BY <2>1, <2>2, <2>3, <2>4, ReaderUnaware DEF WInv
<1>3. ASSUME Disconnect PROVE IInv'
  <2>1. WriterTypes' /\ Sent' /\ Pending'
    BY <1>3, Zenon DEF Disconnect, WInv, WriterTypes, Sent, Pending, messages, mode, pending
  <2>2. sent' \in Nat /\ sent' >= sent /\ UNCHANGED <<messages, reader, input, output>>
    BY <1>3 DEF WInv, WriterTypes, Disconnect
  <2> QED
    BY <2>1, <2>2, ReaderUnaware DEF WInv
<1> QED
  BY <1>1, <1>2, <1>3 DEF FlusherStep
---------------------------------------------------------------------------------------
(* The reader changes nothing of the writer's. *)
LEMMA WriterUnaware ==
    ASSUME WInv, UNCHANGED <<messages, writer, mode, flusher, pending, tcp>>
    PROVE  WInv'
<1>1. WriterTypes'
  BY Zenon DEF WInv, WriterTypes, messages, mode, pending, tcp
<1> QED
  BY <1>1 DEF WInv, Tiles, Sent, Pending, messages, pending, tcp

(* The bytes at readStart are the start of the message that comes after the delivered ones, so
   its size is read as it was written, and it ends where another one starts, or nothing does. *)
LEMMA MessageSizeFacts ==
    ASSUME IInv, reader # "gone", Have > 0
    PROVE  /\ delivered \in DOMAIN sizeAt /\ messageSize = sizeAt[delivered]
           /\ messageSize \in Nat /\ messageSize >= MinimumMessageSize
           /\ delivered + messageSize <= written
           /\ delivered + messageSize = written \/ delivered + messageSize \in DOMAIN sizeAt
<1>1. readStart \in Nat /\ readEnd \in Nat /\ readStart < readEnd /\ delivered \in Nat
      /\ rcvd \in Nat /\ index \in Nat /\ sent \in Nat /\ written \in Nat /\ rcvd <= sent /\ sent <= written
  BY SizesAssumption DEF IInv, WInv, RInv, WriterTypes, ReaderTypes, Sent, Have
<1>2. readBuffer[readStart] = delivered
  <2>1. readStart \in readStart .. readEnd - 1
    BY <1>1
  <2>2. readBuffer[readStart] = delivered + (readStart - readStart)
    BY <2>1 DEF IInv, RInv, Buffered
  <2> QED
    BY <1>1, <2>2
<1>3. delivered < rcvd
  <2>1. reader \in {"buffer", "big"}
    BY DEF IInv, RInv, ReaderTypes
  <2>2. rcvd = delivered + Have \/ (rcvd = delivered + index /\ Have <= index)
    BY <2>1 DEF IInv, RInv, Received
  <2> QED
    BY <1>1, <2>2 DEF Have
<1>4. delivered \in DOMAIN sizeAt
  BY <1>1, <1>3 DEF IInv, RInv, AtStart
<1> QED
  BY <1>2, <1>4 DEF messageSize, IInv, WInv, Tiles

(* The numbers of the reader, for the steps below. *)
LEMMA ReaderNumbers ==
    ASSUME IInv
    PROVE  /\ readStart \in Nat /\ readEnd \in Nat /\ readStart <= readEnd /\ readEnd <= readBufferSize
           /\ readBufferSize \in Nat /\ delivered \in Nat /\ index \in Nat
           /\ rcvd \in Nat /\ sent \in Nat /\ rcvd <= sent
BY SizesAssumption DEF IInv, WInv, RInv, WriterTypes, ReaderTypes, Sent

(* What the two ends hold. *)
LEMMA ReaderBuffers ==
    ASSUME IInv
    PROVE  /\ readBuffer \in [0 .. readBufferSize - 1 -> Nat]
           /\ \A i \in 0 .. sent - 1 : stream[i] = i
BY DEF IInv, WInv, RInv, ReaderTypes, Sent

(* tcp.Read returns the next bytes of the stream. *)
LEMMA NextBytes ==
    ASSUME IInv, NEW n \in Nat, n <= sent - rcvd
    PROVE  /\ Slice(stream, rcvd, rcvd + n) \in [0 .. n - 1 -> Nat]
           /\ \A i \in 0 .. n - 1 : Slice(stream, rcvd, rcvd + n)[i] = rcvd + i
<1>1. \A i \in 0 .. n - 1 : rcvd + i \in 0 .. sent - 1
  BY ReaderNumbers
<1>2. Slice(stream, rcvd, rcvd + n) = [i \in 0 .. n - 1 |-> stream[rcvd + i]]
  BY ReaderNumbers DEF Slice
<1>3. \A i \in 0 .. n - 1 : stream[rcvd + i] = rcvd + i
  BY <1>1, ReaderBuffers
<1>4. \A i \in 0 .. n - 1 : rcvd + i \in Nat
  BY ReaderNumbers
<1> QED
  BY <1>2, <1>3, <1>4

(* Read takes bytes into its buffer. *)
LEMMA ReadMoreKeepsInv ==
    ASSUME IInv, NEW n \in 1 .. sent - rcvd, ReadMore(n)
    PROVE  IInv'
<1>1. /\ reader = "buffer" /\ n <= readBufferSize - readEnd
      /\ rcvd' = rcvd + n /\ readEnd' = readEnd + n
      /\ UNCHANGED <<messages, writer, mode, flusher, pending, tcp, reader, readStart, bigBuffer, index,
                     output>>
  BY DEF ReadMore, Receive
<1>2. n \in Nat /\ n <= sent - rcvd
  BY ReaderNumbers
<1>3. PICK t : t = Slice(stream, rcvd, rcvd + n)
  OBVIOUS
<1>4. t \in [0 .. n - 1 -> Nat] /\ \A i \in 0 .. n - 1 : t[i] = rcvd + i
  BY <1>2, <1>3, NextBytes
<1>5. readBuffer' = [i \in 0 .. readBufferSize - 1 |->
                       IF i >= readEnd /\ i < readEnd + n THEN t[i - readEnd] ELSE readBuffer[i]]
  BY <1>3, ReaderBuffers DEF ReadMore, CopyInto
<1>6. ReaderTypes'
  <2>1. \A i \in 0 .. readBufferSize - 1 :
          (IF i >= readEnd /\ i < readEnd + n THEN t[i - readEnd] ELSE readBuffer[i]) \in Nat
    <3> SUFFICES ASSUME NEW i \in 0 .. readBufferSize - 1
                 PROVE  (IF i >= readEnd /\ i < readEnd + n THEN t[i - readEnd] ELSE readBuffer[i]) \in Nat
      OBVIOUS
    <3>1. CASE i >= readEnd /\ i < readEnd + n
      <4>1. i - readEnd \in 0 .. n - 1
        BY <1>2, <3>1, ReaderNumbers
      <4> QED
        BY <1>4, <3>1, <4>1
    <3>2. CASE ~(i >= readEnd /\ i < readEnd + n)
      BY <3>2, ReaderBuffers
    <3> QED
      BY <3>1, <3>2
  <2>2. readBuffer' \in [0 .. readBufferSize - 1 -> Nat]
    BY ONLY <1>5, <2>1
  <2> QED
    BY <1>1, <1>2, <2>2, ReaderNumbers DEF IInv, RInv, ReaderTypes, tcp, output
<1>7. Buffered'
  <2> SUFFICES ASSUME NEW i \in readStart .. readEnd + n - 1
               PROVE  readBuffer'[i] = delivered + (i - readStart)
    <3>1. UNCHANGED <<readStart, delivered>> /\ readEnd' = readEnd + n
      BY <1>1 DEF output
    <3> QED
      BY <1>2, <3>1, ReaderNumbers DEF Buffered
  <2>1. i \in 0 .. readBufferSize - 1
    BY <1>1, <1>2, ReaderNumbers
  <2>2. CASE i < readEnd
    <3>1. readBuffer'[i] = readBuffer[i]
      BY <1>5, <2>1, <2>2, ReaderNumbers
    <3>2. i \in readStart .. readEnd - 1
      BY <2>2, ReaderNumbers
    <3> QED
      BY <1>1, <3>1, <3>2 DEF IInv, RInv, Buffered
  <2>3. CASE ~(i < readEnd)
    <3>1. readBuffer'[i] = t[i - readEnd] /\ i - readEnd \in 0 .. n - 1
      BY <1>2, <1>5, <2>1, <2>3, ReaderNumbers, SMTT(30)
    <3>2. t[i - readEnd] = rcvd + (i - readEnd)
      BY <1>4, <3>1
    <3>3. rcvd = delivered + (readEnd - readStart)
      BY <1>1 DEF IInv, RInv, Received, Have
    <3> QED
      BY <2>1, <3>1, <3>2, <3>3, ReaderNumbers
  <2> QED
    BY <2>2, <2>3
<1>8. Received'
  BY <1>1, <1>2, ReaderNumbers DEF IInv, RInv, Received, Have, output
<1>9. AtStart' /\ WholeMessages'
  BY <1>1 DEF IInv, RInv, AtStart, WholeMessages, output, messages
<1>10. WInv'
  BY <1>1, WriterUnaware DEF IInv
<1> QED
  BY <1>6, <1>7, <1>8, <1>9, <1>10 DEF IInv, RInv

(* Read starts a buffer of its own for a big message, and fills it. *)
LEMMA BigKeepsInv ==
    ASSUME IInv, StartBig \/ \E n \in 1 .. sent - rcvd : FillBig(n)
    PROVE  IInv'
<1>1. ASSUME StartBig PROVE IInv'
  <2>1. /\ reader = "buffer" /\ reader' = "big" /\ Have >= MinimumMessageSize /\ index' = Have
        /\ bigBuffer' = Slice(readBuffer, readStart, readEnd)
        /\ UNCHANGED <<messages, writer, mode, flusher, pending, tcp, rcvd, readBuffer, readStart, readEnd,
                       output>>
    BY <1>1 DEF StartBig, Big
  <2>2. Have \in Nat /\ Have > 0
    BY <2>1, SizesAssumption, ReaderNumbers DEF Have
  <2>3. \A i \in 0 .. Have - 1 : readBuffer[readStart + i] = delivered + i
    <3> SUFFICES ASSUME NEW i \in 0 .. Have - 1 PROVE readBuffer[readStart + i] = delivered + i
      OBVIOUS
    <3>1. readStart + i \in readStart .. readEnd - 1
      BY ReaderNumbers DEF Have
    <3>2. readBuffer[readStart + i] = delivered + ((readStart + i) - readStart)
      BY <2>1, <3>1 DEF IInv, RInv, Buffered
    <3> QED
      BY <3>2, ReaderNumbers
  <2>4. bigBuffer' = Bytes(delivered, Have)
    BY <2>1, <2>3 DEF Slice, Bytes, Have
  <2>5. Received'
    BY <2>1, <2>2, <2>4 DEF IInv, RInv, Received, Have, output, Bytes
  <2>6. ReaderTypes'
    BY <2>1, <2>2, ReaderNumbers DEF IInv, RInv, ReaderTypes, output, tcp
  <2>7. AtStart' /\ WholeMessages' /\ Buffered'
    BY <2>1 DEF IInv, RInv, AtStart, WholeMessages, Buffered, output, messages
  <2> QED
    BY <2>1, <2>5, <2>6, <2>7, WriterUnaware DEF IInv, RInv
<1>2. ASSUME NEW n \in 1 .. sent - rcvd, FillBig(n) PROVE IInv'
  <2>1. /\ reader = "big" /\ rcvd' = rcvd + n /\ index' = index + n
        /\ UNCHANGED <<messages, writer, mode, flusher, pending, tcp, reader, readBuffer, readStart,
                       readEnd, output>>
    BY <1>2 DEF FillBig, Receive
  <2>2. n \in Nat /\ n <= sent - rcvd
    BY ReaderNumbers
  <2>3. PICK t : t = Slice(stream, rcvd, rcvd + n)
    OBVIOUS
  <2>4. t \in [0 .. n - 1 -> Nat] /\ \A i \in 0 .. n - 1 : t[i] = rcvd + i
    BY <2>2, <2>3, NextBytes
  <2>12. Have > 0 /\ Have <= index /\ rcvd = delivered + index
    BY <2>1 DEF IInv, RInv, Received
  <2>5. bigBuffer = [i \in 0 .. index - 1 |-> delivered + i]
    BY <2>1 DEF IInv, RInv, Received, Bytes
  <2>6. bigBuffer' = [i \in 0 .. index + n - 1 |-> IF i < index THEN bigBuffer[i] ELSE t[i - index]]
    BY <1>2, <2>3 DEF FillBig, Joined
  <2>7. \A i \in 0 .. index + n - 1 :
          (IF i < index THEN bigBuffer[i] ELSE t[i - index]) = delivered + i
    <3> SUFFICES ASSUME NEW i \in 0 .. index + n - 1
                 PROVE  (IF i < index THEN bigBuffer[i] ELSE t[i - index]) = delivered + i
      OBVIOUS
    <3>1. CASE i < index
      <4>1. i \in 0 .. index - 1
        BY <3>1, ReaderNumbers
      <4> QED
        BY <2>5, <3>1, <4>1
    <3>2. CASE ~(i < index)
      <4>1. i - index \in 0 .. n - 1
        BY <2>2, <3>2, ReaderNumbers
      <4>2. t[i - index] = rcvd + (i - index)
        BY <2>4, <4>1
      <4> QED
        BY <2>12, <3>2, <4>2, ReaderNumbers
    <3> QED
      BY <3>1, <3>2
  <2>8. bigBuffer' = [i \in 0 .. index' - 1 |-> delivered' + i]
    <3>1. bigBuffer' = [i \in 0 .. index + n - 1 |-> delivered + i]
      BY <2>6, <2>7
    <3>2. index' = index + n /\ delivered' = delivered
      BY <2>1 DEF output
    <3> QED
      BY <2>2, <3>1, <3>2, ReaderNumbers
  <2>9. Received'
    <3>1. Have' = Have /\ Have \in Nat
      BY <2>1, ReaderNumbers DEF Have
    <3>2. Have > 0 /\ Have <= index + n /\ rcvd + n = delivered + (index + n)
      BY <2>2, <2>12, <3>1, ReaderNumbers
    <3>3. Have' > 0 /\ Have' <= index' /\ rcvd' = delivered' + index'
      BY <2>1, <3>1, <3>2 DEF output
    <3> QED
      BY <2>1, <2>8, <3>3 DEF Received, Bytes
  <2>10. ReaderTypes'
    BY <2>1, <2>2, ReaderNumbers DEF IInv, RInv, ReaderTypes, output, tcp
  <2>11. AtStart' /\ WholeMessages' /\ Buffered'
    BY <2>1 DEF IInv, RInv, AtStart, WholeMessages, Buffered, output, messages
  <2> QED
    BY <2>1, <2>9, <2>10, <2>11, WriterUnaware DEF IInv, RInv
<1> QED
  BY <1>1, <1>2

(* A Read that returns the message at delivered leaves the next one to be read. *)
LEMMA Delivery ==
    ASSUME IInv, reader # "gone", Have > 0, NEW k, k = messageSize, got' = Bytes(delivered, k),
           delivered' = delivered + k, UNCHANGED messages
    PROVE  AtStart' /\ WholeMessages'
<1>1. /\ delivered \in DOMAIN sizeAt /\ k = sizeAt[delivered] /\ k \in Nat /\ k > 0
      /\ delivered + k = written \/ delivered + k \in DOMAIN sizeAt
  BY MessageSizeFacts, SizesAssumption
<1>2. got'[0] = delivered
  <2>1. 0 \in 0 .. k - 1 /\ delivered + 0 = delivered
    BY <1>1, ReaderNumbers
  <2> QED
    BY <2>1 DEF Bytes
<1>3. UNCHANGED <<sizeAt, written>>
  BY DEF messages
<1>4. AtStart'
  BY <1>1, <1>3 DEF AtStart
<1>5. WholeMessages'
  <2>1. got'[0] \in DOMAIN sizeAt' /\ got'[0] + sizeAt'[got'[0]] = delivered'
    BY <1>1, <1>2, <1>3
  <2>2. got' = [i \in 0 .. sizeAt'[got'[0]] - 1 |-> got'[0] + i]
    <3>1. got' = [i \in 0 .. k - 1 |-> delivered + i]
      BY DEF Bytes
    <3>2. sizeAt'[got'[0]] = k
      BY <1>1, <1>2, <1>3
    <3> QED
      BY <1>2, <3>1, <3>2
  <2> QED
    BY <2>1, <2>2, Zenon DEF WholeMessages, Bytes
<1> QED
  BY <1>4, <1>5

(* Read returns a message from its buffer, which it may move to the start first. *)
LEMMA ReturnKeepsInv ==
    ASSUME IInv, Return
    PROVE  IInv'
<1>1. /\ reader = "buffer" /\ Have >= MinimumMessageSize /\ Have >= messageSize
      /\ delivered' = delivered + messageSize
      /\ got' = Slice(readBuffer', readStart' - messageSize, readStart')
      /\ UNCHANGED <<messages, writer, mode, flusher, pending, tcp, reader, rcvd, bigBuffer, index>>
  BY DEF Return, Complete
<1>2. Have > 0
  BY <1>1, SizesAssumption, ReaderNumbers DEF Have
<1>3. PICK k : k = messageSize
  OBVIOUS
<1>4. k \in Nat /\ k <= readEnd - readStart
  BY <1>1, <1>2, <1>3, MessageSizeFacts DEF Have
<1>5. \A j \in 0 .. Have - 1 : readBuffer[readStart + j] = delivered + j
  <2> SUFFICES ASSUME NEW j \in 0 .. Have - 1 PROVE readBuffer[readStart + j] = delivered + j
    OBVIOUS
  <2>1. readStart + j \in readStart .. readEnd - 1
    BY ReaderNumbers DEF Have
  <2>2. readBuffer[readStart + j] = delivered + ((readStart + j) - readStart)
    BY <1>1, <2>1 DEF IInv, RInv, Buffered
  <2> QED
    BY <2>2, ReaderNumbers
(* After the move, if there is one, the message is at b. *)
<1>6. PICK b \in Nat : /\ readStart' = b + k /\ readEnd' = b + Have /\ b <= readStart
                       /\ readBuffer' \in [0 .. readBufferSize - 1 -> Nat]
                       /\ \A j \in 0 .. Have - 1 : readBuffer'[b + j] = delivered + j
  <2>1. CASE readStart > CompactAbove
    <3>1. /\ readBuffer' = CopyInto(readBuffer, 0, Slice(readBuffer, readStart, readEnd), Have)
          /\ readEnd' = Have /\ readStart' = k
      BY <1>3, <2>1 DEF Return
    <3>2. PICK t : t = Slice(readBuffer, readStart, readEnd)
      OBVIOUS
    <3>3. t = [i \in 0 .. Have - 1 |-> readBuffer[readStart + i]]
      BY <3>2 DEF Slice, Have
    <3>4. \A j \in 0 .. Have - 1 : t[j] = delivered + j /\ t[j] \in Nat
      BY <1>5, <3>3, ReaderNumbers
    <3>5. readBuffer' = [i \in 0 .. readBufferSize - 1 |->
                           IF i >= 0 /\ i < 0 + Have THEN t[i - 0] ELSE readBuffer[i]]
      BY <3>1, <3>2, ReaderBuffers DEF CopyInto
    <3>6. \A i \in 0 .. readBufferSize - 1 :
            (IF i >= 0 /\ i < 0 + Have THEN t[i - 0] ELSE readBuffer[i]) \in Nat
      <4> SUFFICES ASSUME NEW i \in 0 .. readBufferSize - 1
                   PROVE  (IF i >= 0 /\ i < 0 + Have THEN t[i - 0] ELSE readBuffer[i]) \in Nat
        OBVIOUS
      <4>1. CASE i < Have
        <5>1. i \in 0 .. Have - 1 /\ i - 0 = i
          BY <4>1, ReaderNumbers DEF Have
        <5> QED
          BY <3>4, <4>1, <5>1, ReaderNumbers DEF Have
      <4>2. CASE ~(i < Have)
        <5>1. ~(i < 0 + Have)
          BY <4>2, ReaderNumbers DEF Have
        <5> QED
          BY <5>1, ReaderBuffers
      <4> QED
        BY <4>1, <4>2
    <3>7. readBuffer' \in [0 .. readBufferSize - 1 -> Nat]
      BY ONLY <3>5, <3>6
    <3>8. \A j \in 0 .. Have - 1 : readBuffer'[0 + j] = delivered + j
      <4> SUFFICES ASSUME NEW j \in 0 .. Have - 1 PROVE readBuffer'[0 + j] = delivered + j
        OBVIOUS
      <4>1. j \in 0 .. readBufferSize - 1 /\ j >= 0 /\ j < 0 + Have /\ j - 0 = j /\ 0 + j = j
        BY ReaderNumbers DEF Have
      <4>2. readBuffer'[j] = t[j]
        BY <3>5, <4>1
      <4> QED
        BY <3>4, <4>1, <4>2
    <3>9. readStart' = 0 + k /\ readEnd' = 0 + Have /\ 0 <= readStart
      BY <1>4, <3>1, ReaderNumbers DEF Have
    <3> QED
      BY <3>7, <3>8, <3>9
  <2>2. CASE ~(readStart > CompactAbove)
    <3>1. readStart' = readStart + k /\ UNCHANGED <<readBuffer, readEnd>>
      BY <1>3, <2>2 DEF Return
    <3>2. readEnd' = readStart + Have /\ readStart \in Nat /\ readStart <= readStart
      BY <3>1, ReaderNumbers DEF Have
    <3> QED
      BY <1>5, <3>1, <3>2, ReaderBuffers
  <2> QED
    BY <2>1, <2>2
<1>7. got' = Bytes(delivered, k)
  <2>1. readStart' - k = b /\ readStart' - b = k
    BY <1>4, <1>6
  <2>2. got' = [i \in 0 .. k - 1 |-> readBuffer'[b + i]]
    BY <1>1, <1>3, <2>1 DEF Slice
  <2>3. \A i \in 0 .. k - 1 : i \in 0 .. Have - 1
    BY <1>4, ReaderNumbers DEF Have
  <2> QED
    BY <1>6, <2>2, <2>3 DEF Bytes
<1>8. AtStart' /\ WholeMessages'
  BY <1>1, <1>2, <1>3, <1>7, Delivery
<1>0. /\ Have \in Nat /\ k \in Nat /\ b \in Nat /\ delivered \in Nat /\ readBufferSize \in Nat
      /\ k <= Have /\ b + Have <= readBufferSize
      /\ readStart' = b + k /\ readEnd' = b + Have /\ delivered' = delivered + k
  <2>1. b \in Nat /\ b <= readStart /\ readStart' = b + k /\ readEnd' = b + Have
    BY <1>6
  <2>2. delivered' = delivered + k
    BY <1>1, <1>3
  <2> QED
    BY ONLY IInv, <1>4, <2>1, <2>2, ReaderNumbers DEF Have
<1>9. ReaderTypes'
  <2>1. delivered' \in Nat /\ readStart' \in 0 .. readEnd' /\ readEnd' \in 0 .. readBufferSize
    BY ONLY <1>0
  <2> QED
    BY <1>1, <1>6, <2>1 DEF IInv, RInv, ReaderTypes, tcp
<1>10. Buffered'
  <2> SUFFICES ASSUME NEW i \in readStart' .. readEnd' - 1
               PROVE  readBuffer'[i] = delivered' + (i - readStart')
    BY DEF Buffered
  <2>1. i - b \in 0 .. Have - 1 /\ b + (i - b) = i
    BY <1>0
  <2>2. readBuffer'[i] = delivered + (i - b)
    BY <1>6, <2>1
  <2>3. delivered + (i - b) = (delivered + k) + (i - (b + k))
    BY <1>0
  <2> QED
    BY <1>0, <2>2, <2>3
<1>11. Received'
  <2>1. rcvd = delivered + Have
    BY <1>1 DEF IInv, RInv, Received
  <2>2. delivered + Have = delivered' + (readEnd' - readStart')
    BY ONLY <1>0
  <2>3. rcvd' = delivered' + (readEnd' - readStart') /\ reader' = "buffer"
    BY <1>1, <2>1, <2>2, Zenon
  <2> QED
    BY <2>3 DEF Received, Have
<1>12. WInv'
  BY <1>1, WriterUnaware DEF IInv
<1> QED
  BY <1>8, <1>9, <1>10, <1>11, <1>12 DEF IInv, RInv

(* Read returns a message that had a buffer of its own, and starts its own buffer anew. *)
LEMMA ReturnBigKeepsInv ==
    ASSUME IInv, ReturnBig
    PROVE  IInv'
<1>1. /\ reader = "big" /\ index = messageSize /\ got' = bigBuffer
      /\ delivered' = delivered + messageSize /\ reader' = "buffer"
      /\ readStart' = 0 /\ readEnd' = 0 /\ index' = 0
      /\ UNCHANGED <<messages, writer, mode, flusher, pending, tcp, rcvd, readBuffer>>
  BY DEF ReturnBig
<1>2. Have > 0 /\ rcvd = delivered + index /\ bigBuffer = Bytes(delivered, index)
  BY <1>1 DEF IInv, RInv, Received
<1>3. AtStart' /\ WholeMessages'
  BY <1>1, <1>2, Delivery
<1>4. ReaderTypes'
  <2>1. delivered' \in Nat /\ readStart' \in 0 .. readEnd' /\ readEnd' \in 0 .. readBufferSize
        /\ index' \in Nat
    BY <1>1, ReaderNumbers
  <2> QED
    BY <1>1, <2>1 DEF IInv, RInv, ReaderTypes, tcp
<1>5. Buffered'
  BY <1>1 DEF Buffered
<1>6. Received'
  <2>1. rcvd' = delivered' + (readEnd' - readStart')
    BY <1>1, <1>2, ReaderNumbers
  <2> QED
    BY <1>1, <2>1 DEF Received, Have
<1>7. WInv'
  BY <1>1, WriterUnaware DEF IInv
<1> QED
  BY <1>3, <1>4, <1>5, <1>6, <1>7 DEF IInv, RInv

(* A Read that fails is the last one. *)
LEMMA ReadErrorKeepsInv ==
    ASSUME IInv, ReadError
    PROVE  IInv'
<1>1. reader' = "gone" /\ UNCHANGED <<messages, writer, mode, flusher, pending, tcp, input, output>>
  BY DEF ReadError
<1>2. ReaderTypes'
  BY <1>1 DEF IInv, RInv, ReaderTypes, tcp, input, output
<1>3. AtStart' /\ WholeMessages' /\ Buffered' /\ Received'
  BY <1>1 DEF IInv, RInv, AtStart, WholeMessages, Buffered, Received, messages, output
<1> QED
  BY <1>1, <1>2, <1>3, WriterUnaware DEF IInv, RInv

(* The invariant holds when New returns. *)
LEMMA InitInv == Init => IInv
<1> SUFFICES ASSUME Init PROVE IInv
  OBVIOUS
<1> USE SizesAssumption DEF Init
<1>2. WriterTypes
  <2>1. stream \in [0 .. sent - 1 -> Nat]
    <3>1. Bytes(0, 0) \in [0 .. 0 - 1 -> Nat]
      BY BytesFacts
    <3> QED
      BY <3>1, Zenon
  <2>2. ch \in Seq({0, 1}) /\ Len(ch) <= 1
    OBVIOUS
  <2>3. writeBuffer \in [0 .. writeBufferSize - 1 -> Nat] /\ writeIndex \in 0 .. writeBufferSize
    OBVIOUS
  <2>4. DOMAIN sizeAt \subseteq Nat
    OBVIOUS
  <2> QED
    BY <2>1, <2>2, <2>3, <2>4, Zenon DEF WriterTypes
<1>3. Tiles /\ Sent /\ Pending
  BY DEF Tiles, Sent, Pending
<1>4. ReaderTypes /\ AtStart /\ Buffered /\ WholeMessages
  BY DEF ReaderTypes, AtStart, Buffered, WholeMessages
<1>5. Received
  BY DEF Received, Have
<1> QED
  BY <1>2, <1>3, <1>4, <1>5 DEF IInv, WInv, RInv

(* IInv is inductive: one lemma for each of the three goroutines' steps. *)
LEMMA InvariantHolds == Spec => []IInv
<1>1. IInv /\ [Next]_vars => IInv'
  <2> SUFFICES ASSUME IInv, [Next]_vars PROVE IInv'
    OBVIOUS
  <2>1. CASE WriterStep \/ (\E z \in Sizes : Write(z)) \/ (\E b \in BOOLEAN : WriteMode(b)) \/ Close
    BY <2>1, WriterKeepsInv
  <2>2. CASE FlusherStep \/ Disconnect
    BY <2>2, FlusherKeepsInv
  <2>3. CASE ReaderStep
    BY <2>3, ReadMoreKeepsInv, BigKeepsInv, ReturnKeepsInv, ReturnBigKeepsInv, ReadErrorKeepsInv
       DEF ReaderStep
  <2>4. CASE UNCHANGED vars
    <3>1. WInv'
      BY <2>4, WriterUnaware DEF IInv, vars
    <3>2. ReaderTypes'
      BY <2>4 DEF IInv, RInv, ReaderTypes, vars, tcp, input, output
    <3>3. AtStart' /\ Buffered' /\ Received' /\ WholeMessages'
      BY <2>4 DEF IInv, RInv, AtStart, Buffered, Received, Have, WholeMessages, vars, messages, input, output
    <3> QED
      BY <3>1, <3>2, <3>3 DEF IInv, RInv
  <2> QED
    BY <2>1, <2>2, <2>3, <2>4 DEF Next
<1> QED
  BY <1>1, InitInv, PTL DEF Spec

(* Read returns the messages given to Write, each whole, once and in order (WholeMessages), for
   buffers and messages of any size. *)
THEOREM MessagesArriveWhole == Spec => []WholeMessages
<1>1. IInv => WholeMessages
  BY DEF IInv, RInv
<1> QED
  BY <1>1, InvariantHolds, PTL

(* The indices of Read and Write never leave their buffers (TypeOK). *)
THEOREM IndicesInBuffers == Spec => []TypeOK
<1>1. IInv => TypeOK
  BY DEF IInv, WInv, RInv, TypeOK
<1> QED
  BY <1>1, InvariantHolds, PTL
=======================================================================================
