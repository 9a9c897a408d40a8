-------------------------------- MODULE DLog --------------------------------
(***************************************************************************)
(* The debug log of log.c: evp_agent_dlog_handler, which the EVP library   *)
(* calls with a message of any length.  Characters do not matter, lengths  *)
(* do: a message is its length and the length of the "[file:line] "        *)
(* prefix, a line of the log is the part of the message it shows.          *)
(***************************************************************************)
EXTENDS Integers, Sequences

CONSTANTS
  Prefixes,   \* lengths of the prefix
  Lengths     \* lengths of the formatted message

ASSUME DLogAssumption == Prefixes \subseteq Nat /\ Lengths \subseteq Nat

LOG_BUFFER_SIZE == 4096
LOG_CHUNK_SIZE == 256

VARIABLES
  lpc,      \* next statement of the call, "idle" between calls
  prefix,   \* prefix_len
  message,  \* message_len
  size,     \* size of the buffer that is allocated for the message, 0 for none
  from,     \* the loop variable: where the next chunk starts
  lines,    \* what UtilityLogWriteDLog was given: parts of the message
  notice    \* the number of bytes reported as truncated, 0 without a notice

dlog == <<lpc, prefix, message, size, from, lines, notice>>

Line == [from : Nat, len : Nat]

DLogTypeOK ==
  /\ lpc \in {"idle", "malloc", "format", "chunk", "notice", "done"}
  /\ prefix \in Nat
  /\ message \in Nat
  /\ size \in Nat
  /\ from \in Nat
  /\ lines \in Seq(Line)
  /\ notice \in Nat

DLogInit ==
  /\ lpc = "idle"
  /\ prefix = 0 /\ message = 0 /\ size = 0
  /\ from = 0
  /\ lines = <<>>
  /\ notice = 0

Minimum(a, b) == IF a < b THEN a ELSE b

\* vsnprintf leaves room for the terminator
Formatted(len, bufferSize) == Minimum(len, bufferSize - 1)

-----------------------------------------------------------------------------
\* A call: the level is converted and the two lengths are computed.
DlogCall ==
  /\ lpc = "idle"
  /\ lpc' = "malloc"
  /\ prefix' \in Prefixes
  /\ message' \in Lengths
  /\ UNCHANGED <<size, from, lines, notice>>

TotalLen == prefix + message + 1

\* The buffer is as long as prefix and message, although only the message is
\* formatted into it
BufferSize == Minimum(TotalLen, LOG_BUFFER_SIZE)

\* The locals are gone; the buffer is not, unless it was freed
DlogReturn ==
  /\ lpc' = "idle"
  /\ prefix' = 0 /\ message' = 0 /\ from' = 0 /\ lines' = <<>> /\ notice' = 0

FreeBuffer == size' = 0

DlogMalloc ==
  /\ lpc = "malloc"
  /\ \/ /\ lpc' = "format"
        /\ size' = BufferSize
        /\ UNCHANGED <<prefix, message, from, lines, notice>>
     \/ DlogReturn /\ UNCHANGED size

\* A vsnprintf that fails ends the call without a line
DlogFormat ==
  /\ lpc = "format"
  /\ \/ /\ lpc' = "chunk"
        /\ UNCHANGED <<prefix, message, size, from, lines, notice>>
     \/ FreeBuffer /\ DlogReturn

BufLen == Formatted(message, size)

\* Mutant: the last chunk is as long as the others
ChunkLenWhole(remaining) == LOG_CHUNK_SIZE

ChunkLen(remaining) == IF remaining > LOG_CHUNK_SIZE THEN LOG_CHUNK_SIZE ELSE remaining

DlogChunk ==
  /\ lpc = "chunk"
  /\ \/ /\ from < BufLen
        /\ lines' = Append(lines, [from |-> from, len |-> ChunkLen(BufLen - from)])
        /\ from' = from + LOG_CHUNK_SIZE
        /\ UNCHANGED lpc
     \/ /\ from >= BufLen
        /\ lpc' = "notice"
        /\ UNCHANGED <<from, lines>>
  /\ UNCHANGED <<prefix, message, size, notice>>

\* Mutant: the notice is sent from two buffers on
NoticeFromTwo == IF TotalLen > 2 * LOG_BUFFER_SIZE THEN TotalLen - LOG_BUFFER_SIZE ELSE 0

\* The notice counts the prefix too
Notice == IF TotalLen > LOG_BUFFER_SIZE THEN TotalLen - LOG_BUFFER_SIZE ELSE 0

DlogNotice ==
  /\ lpc = "notice"
  /\ notice' = Notice
  /\ lpc' = "done"
  /\ UNCHANGED <<prefix, message, size, from, lines>>

DlogDone == lpc = "done" /\ FreeBuffer /\ DlogReturn

DlogStep == DlogMalloc \/ DlogFormat \/ DlogChunk \/ DlogNotice \/ DlogDone

-----------------------------------------------------------------------------
(* Properties                                                              *)

\* The lines of a call put together are the beginning of the message: they
\* start at its first byte, follow each other without a gap or an overlap,
\* are not empty, fit a line of the log and end where the buffer ends.
ChunksWhole ==
  /\ lines # <<>> => lines[1].from = 0
  /\ \A n \in 1 .. Len(lines) : lines[n].len \in 1 .. LOG_CHUNK_SIZE
  /\ \A n \in 1 .. Len(lines) - 1 : lines[n + 1].from = lines[n].from + lines[n].len
  /\ lpc = "done" =>
       IF lines = <<>> THEN BufLen = 0
       ELSE lines[Len(lines)].from + lines[Len(lines)].len = BufLen

\* The bytes of the message that no line shows
Lost == message - BufLen

\* A message that is not shown to its end is announced as truncated, and by
\* at least as many bytes as were lost: no loss is silent or played down.
LossAnnounced == lpc = "done" /\ Lost > 0 => notice >= Lost

\* "Send DLOG message if log was truncated due to buffer size limit": the
\* notice is sent only then, and "truncated %d bytes" is what was cut off.
NoticeTrue == lpc = "done" => notice = Lost

=============================================================================
