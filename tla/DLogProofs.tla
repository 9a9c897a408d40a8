----------------------------- MODULE DLogProofs -----------------------------
(***************************************************************************)
(* ChunksWhole and LossAnnounced hold for a message of any length: an      *)
(* invariant that every step of a call keeps, and from which both follow.  *)
(* AgentPlatformProofs uses it for the composed specification.             *)
(***************************************************************************)
EXTENDS DLog, TLAPS

\* Chunk n starts after n - 1 whole chunks, and before the end of the buffer.
ChunkLines ==
  /\ from = LOG_CHUNK_SIZE * Len(lines)
  /\ \A n \in 1 .. Len(lines) :
       /\ lines[n].from = LOG_CHUNK_SIZE * (n - 1)
       /\ lines[n].from < BufLen
       /\ lines[n].len = ChunkLen(BufLen - lines[n].from)

\* The locals of the call agree with the statement it has reached.
DlogLocals ==
  /\ lpc \in {"idle", "malloc"} => size = 0
  /\ lpc \in {"idle", "malloc", "format"} => lines = <<>> /\ from = 0
  /\ lpc \in {"format", "chunk", "notice", "done"} => size = BufferSize
  /\ lpc \in {"notice", "done"} => from >= BufLen
  /\ lpc = "done" => notice = Notice

DlogInv == DLogTypeOK /\ ChunkLines /\ DlogLocals

-----------------------------------------------------------------------------
\* The buffer has room for the terminator, and what is formatted has a length.
LEMMA BufferLengths ==
  ASSUME DLogTypeOK, size = BufferSize
  PROVE  /\ size \in 1 .. LOG_BUFFER_SIZE
         /\ BufLen \in Nat
         /\ BufLen <= message
<1>1. TotalLen \in Nat /\ TotalLen >= 1
  BY DEF DLogTypeOK, TotalLen
<1>2. size \in 1 .. LOG_BUFFER_SIZE
  BY <1>1 DEF BufferSize, Minimum, LOG_BUFFER_SIZE
<1> QED
  BY <1>2 DEF BufLen, Formatted, Minimum, DLogTypeOK

\* The n-th chunk of b bytes is a line; it is whole, or the last one.
LEMMA ChunkLengths ==
  ASSUME NEW b \in Nat, NEW n \in Nat, n >= 1, 256 * (n - 1) < b
  PROVE  /\ ChunkLen(b - 256 * (n - 1)) \in 1 .. 256
         /\ 256 * n < b => ChunkLen(b - 256 * (n - 1)) = 256
         /\ 256 * n >= b => 256 * (n - 1) + ChunkLen(b - 256 * (n - 1)) = b
<1> DEFINE d == b - 256 * (n - 1)
<1>1. d \in Nat /\ d >= 1 /\ 256 * (n - 1) + d = b
  OBVIOUS
<1>2. ChunkLen(d) = IF d > 256 THEN 256 ELSE d
  BY DEF ChunkLen, LOG_CHUNK_SIZE
<1>3. 256 * n < b => d > 256
  OBVIOUS
<1>4. 256 * n >= b => d <= 256
  OBVIOUS
<1> HIDE DEF d
<1>5. ChunkLen(d) \in 1 .. 256
  BY <1>1, <1>2
<1>6. 256 * n < b => ChunkLen(d) = 256
  BY <1>1, <1>2, <1>3
<1>7. 256 * n >= b => ChunkLen(d) = d
  BY <1>1, <1>2, <1>4
<1> QED
  BY <1>1, <1>5, <1>6, <1>7 DEF d

\* Between calls nothing has been written.
LEMMA DlogInitInv ==
  ASSUME DLogInit
  PROVE  DlogInv
<1>1. DLogTypeOK
  BY DEF DLogInit, DLogTypeOK
<1> QED
  BY <1>1 DEF DLogInit, DlogInv, ChunkLines, DlogLocals, LOG_CHUNK_SIZE

\* The return of the handler, and the end of the process, reset the locals.
LEMMA DlogReturnInv ==
  ASSUME DlogReturn, size' = 0
  PROVE  DlogInv'
<1>1. DLogTypeOK'
  BY DEF DlogReturn, DLogTypeOK
<1> QED
  BY <1>1 DEF DlogReturn, DlogInv, ChunkLines, DlogLocals, LOG_CHUNK_SIZE

\* What the invariant speaks of is unchanged by other components' steps.
LEMMA DlogStutterInv ==
  ASSUME DlogInv, UNCHANGED dlog
  PROVE  DlogInv'
BY DEF DlogInv, dlog, DLogTypeOK, ChunkLines, DlogLocals, BufLen, BufferSize,
       TotalLen, Notice, Formatted, ChunkLen

\* A new call begins with its two lengths.
LEMMA DlogCallInv ==
  ASSUME DlogInv, DlogCall
  PROVE  DlogInv'
<1> USE DEF DlogInv, DlogCall
<1>1. DLogTypeOK'
  BY DLogAssumption DEF DLogTypeOK
<1>2. lines' = <<>> /\ from' = 0 /\ size' = 0
  BY DEF DlogLocals
<1>3. ChunkLines'
  BY <1>2 DEF ChunkLines, LOG_CHUNK_SIZE
<1> QED
  BY <1>1, <1>2, <1>3 DEF DlogLocals

\* malloc: the buffer is sized, nothing is written yet.
LEMMA DlogMallocInv ==
  ASSUME DlogInv, DlogMalloc
  PROVE  DlogInv'
<1>1. CASE lpc = "malloc" /\ DlogReturn /\ UNCHANGED size
  BY <1>1, DlogReturnInv DEF DlogInv, DlogLocals
<1>2. CASE /\ lpc = "malloc" /\ lpc' = "format"
           /\ size' = BufferSize
           /\ UNCHANGED <<prefix, message, from, lines, notice>>
  <2>1. BufferSize \in Nat
    BY DEF DlogInv, DLogTypeOK, BufferSize, TotalLen, Minimum, LOG_BUFFER_SIZE
  <2>2. DLogTypeOK'
    BY <1>2, <2>1 DEF DlogInv, DLogTypeOK
  <2>3. lines' = <<>> /\ from' = 0
    BY <1>2 DEF DlogInv, DlogLocals
  <2>4. ChunkLines'
    BY <2>3 DEF ChunkLines, LOG_CHUNK_SIZE
  <2>5. DlogLocals'
    BY <1>2, <2>3 DEF DlogLocals, BufferSize, TotalLen
  <2> QED
    BY <2>2, <2>4, <2>5 DEF DlogInv
<1> QED
  BY <1>1, <1>2 DEF DlogMalloc

\* vsnprintf: the message is in the buffer, or the buffer is freed.
LEMMA DlogFormatInv ==
  ASSUME DlogInv, DlogFormat
  PROVE  DlogInv'
<1>1. CASE FreeBuffer /\ DlogReturn
  BY <1>1, DlogReturnInv DEF FreeBuffer
<1>2. CASE /\ lpc = "format" /\ lpc' = "chunk"
           /\ UNCHANGED <<prefix, message, size, from, lines, notice>>
  <2>1. BufLen' = BufLen /\ BufferSize' = BufferSize
    BY <1>2 DEF BufLen, BufferSize, TotalLen, Formatted
  <2>2. DLogTypeOK'
    BY <1>2 DEF DlogInv, DLogTypeOK
  <2>3. ChunkLines'
    BY <1>2, <2>1 DEF DlogInv, ChunkLines, ChunkLen
  <2>4. DlogLocals'
    BY <1>2, <2>1 DEF DlogInv, DlogLocals
  <2> QED
    BY <2>2, <2>3, <2>4 DEF DlogInv
<1> QED
  BY <1>1, <1>2 DEF DlogFormat

\* One turn of the loop writes the next chunk.
LEMMA DlogChunkInv ==
  ASSUME DlogInv, DlogChunk
  PROVE  DlogInv'
<1> USE DEF DlogInv
<1>1. size = BufferSize /\ lpc = "chunk"
  BY DEF DlogChunk, DlogLocals
<1>2. BufLen \in Nat
  BY <1>1, BufferLengths
<1>3. UNCHANGED <<prefix, message, size, notice>>
  BY DEF DlogChunk
<1>4. BufLen' = BufLen /\ BufferSize' = BufferSize
  BY <1>3 DEF BufLen, BufferSize, TotalLen, Formatted
<1>5. CASE /\ from < BufLen
           /\ lines' = Append(lines, [from |-> from, len |-> ChunkLen(BufLen - from)])
           /\ from' = from + LOG_CHUNK_SIZE
           /\ UNCHANGED lpc
  <2> DEFINE line == [from |-> from, len |-> ChunkLen(BufLen - from)]
  <2>1. from \in Nat /\ lines \in Seq(Line) /\ Len(lines) \in Nat
    BY DEF DLogTypeOK
  <2>2. BufLen - from \in Nat /\ ChunkLen(BufLen - from) \in Nat
    BY <1>2, <1>5, <2>1 DEF ChunkLen, LOG_CHUNK_SIZE
  <2>3. line \in Line
    BY <2>1, <2>2 DEF Line
  <2>4. lines' \in Seq(Line) /\ Len(lines') = Len(lines) + 1
    BY <1>5, <2>1, <2>3
  <2>5. from' \in Nat
    BY <1>5, <2>1 DEF LOG_CHUNK_SIZE
  <2>6. DLogTypeOK'
    BY <1>1, <1>3, <1>5, <2>4, <2>5 DEF DLogTypeOK
  <2>7. from' = LOG_CHUNK_SIZE * Len(lines')
    BY <1>5, <2>1, <2>4 DEF ChunkLines, LOG_CHUNK_SIZE
  <2>8. ASSUME NEW n \in 1 .. Len(lines')
        PROVE  /\ lines'[n].from = LOG_CHUNK_SIZE * (n - 1)
               /\ lines'[n].from < BufLen
               /\ lines'[n].len = ChunkLen(BufLen - lines'[n].from)
    <3>1. CASE n \in 1 .. Len(lines)
      <4>1. lines'[n] = lines[n]
        BY <1>5, <2>1, <2>3, <3>1
      <4> QED
        BY <3>1, <4>1 DEF ChunkLines
    <3>2. CASE n = Len(lines) + 1
      <4>1. lines'[n] = line
        BY <1>5, <2>1, <2>3, <3>2
      <4>2. from = LOG_CHUNK_SIZE * (n - 1)
        BY <2>1, <3>2 DEF ChunkLines, LOG_CHUNK_SIZE
      <4>3. lines'[n].from = from /\ lines'[n].len = ChunkLen(BufLen - from)
        BY <4>1
      <4> QED
        BY <1>5, <4>2, <4>3
    <3> QED
      BY <2>1, <2>4, <3>1, <3>2
  <2>9. ChunkLines'
    BY <1>4, <2>7, <2>8 DEF ChunkLines, ChunkLen
  <2>10. DlogLocals'
    BY <1>1, <1>3, <1>4, <1>5 DEF DlogLocals
  <2> QED
    BY <2>6, <2>9, <2>10
<1>6. CASE from >= BufLen /\ lpc' = "notice" /\ UNCHANGED <<from, lines>>
  <2>1. DLogTypeOK'
    BY <1>3, <1>6 DEF DLogTypeOK
  <2>2. ChunkLines'
    BY <1>4, <1>6 DEF ChunkLines, ChunkLen
  <2>3. DlogLocals'
    BY <1>1, <1>3, <1>4, <1>6 DEF DlogLocals
  <2> QED
    BY <2>1, <2>2, <2>3
<1> QED
  BY <1>5, <1>6 DEF DlogChunk

\* The notice is the last line.
LEMMA DlogNoticeInv ==
  ASSUME DlogInv, DlogNotice
  PROVE  DlogInv'
<1> USE DEF DlogInv, DlogNotice
<1>1. Notice \in Nat
  BY DEF DLogTypeOK, Notice, TotalLen, LOG_BUFFER_SIZE
<1>2. DLogTypeOK'
  BY <1>1 DEF DLogTypeOK
<1>3. BufLen' = BufLen /\ BufferSize' = BufferSize /\ Notice' = Notice
  BY DEF BufLen, BufferSize, TotalLen, Formatted, Notice
<1>4. ChunkLines'
  BY <1>3 DEF ChunkLines, ChunkLen
<1>5. DlogLocals'
  BY <1>3 DEF DlogLocals
<1> QED
  BY <1>2, <1>4, <1>5

\* Every statement of the handler keeps the invariant.
LEMMA DlogStepInv ==
  ASSUME DlogInv, DlogStep
  PROVE  DlogInv'
BY DlogMallocInv, DlogFormatInv, DlogChunkInv, DlogNoticeInv, DlogReturnInv
   DEF DlogStep, DlogDone, FreeBuffer

-----------------------------------------------------------------------------
\* The lines are the beginning of the message, in order and without a gap.
LEMMA DlogChunksWhole ==
  ASSUME DlogInv
  PROVE  ChunksWhole
<1> USE DEF DlogInv, LOG_CHUNK_SIZE
<1>1. lines \in Seq(Line) /\ Len(lines) \in Nat
  BY DEF DLogTypeOK
<1>2. CASE lines = <<>>
  <2>1. lpc = "done" => BufLen = 0
    <3> SUFFICES ASSUME lpc = "done" PROVE BufLen = 0
      OBVIOUS
    <3>1. size = BufferSize /\ from >= BufLen
      BY DEF DlogLocals
    <3>2. BufLen \in Nat
      BY <3>1, BufferLengths
    <3>3. from = 0
      BY <1>2 DEF ChunkLines
    <3> QED
      BY <3>1, <3>2, <3>3
  <2> QED
    BY <1>2, <2>1 DEF ChunksWhole
<1>3. CASE lines # <<>>
  <2>1. Len(lines) >= 1
    BY <1>1, <1>3
  <2>2. size = BufferSize
    BY <1>3 DEF DlogLocals, DLogTypeOK
  <2>3. BufLen \in Nat
    BY <2>2, BufferLengths
  <2>4. ASSUME NEW n \in 1 .. Len(lines)
        PROVE  /\ lines[n].from = 256 * (n - 1)
               /\ 256 * (n - 1) < BufLen
               /\ lines[n].len = ChunkLen(BufLen - 256 * (n - 1))
    BY DEF ChunkLines
  <2>5. lines[1].from = 0
    BY <1>1, <2>1, <2>4
  <2>6. ASSUME NEW n \in 1 .. Len(lines)
        PROVE  lines[n].len \in 1 .. LOG_CHUNK_SIZE
    <3>1. n \in Nat /\ n >= 1 /\ 256 * (n - 1) < BufLen
      BY <1>1, <2>4
    <3>2. ChunkLen(BufLen - 256 * (n - 1)) \in 1 .. 256
      BY <2>3, <3>1, ChunkLengths
    <3> QED
      BY <2>4, <3>2
  <2>7. ASSUME NEW n \in 1 .. Len(lines) - 1
        PROVE  lines[n + 1].from = lines[n].from + lines[n].len
    <3>1. n \in Nat /\ n \in 1 .. Len(lines) /\ n + 1 \in 1 .. Len(lines)
      BY <1>1
    <3>2. lines[n + 1].from = 256 * n /\ 256 * n < BufLen
      BY <2>4, <3>1
    <3>3. lines[n].from = 256 * (n - 1) /\ lines[n].len = ChunkLen(BufLen - 256 * (n - 1))
      BY <2>4, <3>1
    <3>4. lines[n].len = 256
      BY <2>3, <2>4, <3>1, <3>2, <3>3, ChunkLengths
    <3> QED
      BY <3>1, <3>2, <3>3, <3>4
  <2>8. ASSUME lpc = "done"
        PROVE  lines[Len(lines)].from + lines[Len(lines)].len = BufLen
    <3> DEFINE n == Len(lines)
    <3>0. n \in Nat /\ n >= 1
      BY <1>1, <2>1
    <3>1. from >= BufLen /\ from = 256 * n
      BY <2>8 DEF DlogLocals, ChunkLines
    <3>2. /\ lines[n].from = 256 * (n - 1) /\ 256 * (n - 1) < BufLen
          /\ lines[n].len = ChunkLen(BufLen - 256 * (n - 1))
      BY <1>1, <2>1, <2>4
    <3>3. 256 * (n - 1) + ChunkLen(BufLen - 256 * (n - 1)) = BufLen
      <4> HIDE DEF n
      <4> QED
        BY <2>3, <3>0, <3>1, <3>2, ChunkLengths
    <3> QED
      BY <3>2, <3>3
  <2> QED
    BY <1>3, <2>5, <2>6, <2>7, <2>8 DEF ChunksWhole
<1> QED
  BY <1>2, <1>3

\* No loss without a notice of at least its size.
LEMMA DlogLossAnnounced ==
  ASSUME DlogInv
  PROVE  LossAnnounced
<1> SUFFICES ASSUME lpc = "done", Lost > 0 PROVE notice >= Lost
  BY DEF LossAnnounced
<1> USE DEF Lost
<1>1. prefix \in Nat /\ message \in Nat
  BY DEF DlogInv, DLogTypeOK
<1>2. size = BufferSize /\ notice = Notice
  BY DEF DlogInv, DlogLocals
<1>3. CASE TotalLen <= LOG_BUFFER_SIZE
  <2>1. size = prefix + message + 1 /\ notice = 0
    BY <1>1, <1>2, <1>3 DEF BufferSize, Notice, TotalLen, Minimum, LOG_BUFFER_SIZE
  <2>2. BufLen = message
    BY <1>1, <2>1 DEF BufLen, Formatted, Minimum
  <2> QED
    BY <1>1, <2>1, <2>2
<1>4. CASE TotalLen > LOG_BUFFER_SIZE
  <2>1. size = 4096 /\ notice = prefix + message + 1 - 4096 /\ prefix + message + 1 > 4096
    BY <1>1, <1>2, <1>4 DEF BufferSize, Notice, TotalLen, Minimum, LOG_BUFFER_SIZE
  <2>2. BufLen = IF message < 4095 THEN message ELSE 4095
    BY <1>1, <2>1 DEF BufLen, Formatted, Minimum
  <2> QED
    BY <1>1, <2>1, <2>2
<1> QED
  BY <1>1, <1>3, <1>4 DEF TotalLen, LOG_BUFFER_SIZE

=============================================================================
