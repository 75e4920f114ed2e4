---------------------------- MODULE EventRecord ----------------------------
(***************************************************************************)
(* The byte encodings of the protocol crate (crates/protocol/src):         *)
(*  - event.rs: the EventMask bits, the 16-byte InotifyEvent header in     *)
(*    native (little-endian, x86-64) byte order, the name trailer with its *)
(*    NUL and padding to 4 bytes, and the header decoder;                  *)
(*  - message.rs: FramedMessage, the 4-byte little-endian length prefix.   *)
(* A byte is a number in 0..255 and a buffer a sequence of bytes.  Values  *)
(* are kept below 2^31, the range of TLC's integers, so a wd is never      *)
(* negative here.  A path component is one character, whose byte is given *)
(* by CharCode; "/" is byte 47.                                            *)
(***************************************************************************)
EXTENDS Naturals, Sequences, SequencesExt, FiniteSetsExt

CONSTANT CharCode   \* path component -> its byte (never 0 or 47)

\* bitflags! EventMask: the bit of each flag.  IN_ONESHOT (0x8000_0000)
\* lies outside TLC's integers and is left out.
EventMask ==
  [IN_ACCESS |-> 1, IN_MODIFY |-> 2, IN_ATTRIB |-> 4, IN_CLOSE_WRITE |-> 8,
   IN_CLOSE_NOWRITE |-> 16, IN_OPEN |-> 32, IN_MOVED_FROM |-> 64,
   IN_MOVED_TO |-> 128, IN_CREATE |-> 256, IN_DELETE |-> 512,
   IN_DELETE_SELF |-> 1024, IN_MOVE_SELF |-> 2048, IN_UNMOUNT |-> 8192,
   IN_Q_OVERFLOW |-> 16384, IN_IGNORED |-> 32768, IN_ONLYDIR |-> 2^24,
   IN_DONT_FOLLOW |-> 2^25, IN_MASK_ADD |-> 2^29, IN_ISDIR |-> 2^30]

\* mask.bits() of a set of flags: distinct bits, so OR is their sum.
bits(flags) == SumSet({EventMask[f] : f \in flags})

\* to_ne_bytes / to_le_bytes of a u32, and back.
U32Bytes(x) == [i \in 1..4 |-> (x \div 256^(i - 1)) % 256]
U32Value(b) == b[1] + 256 * b[2] + 65536 * b[3] + 16777216 * b[4]

Zeros(n) == [i \in 1..n |-> 0]

-----------------------------------------------------------------------------
(* event.rs                                                                *)

HEADER_SIZE == 16

InotifyEvent_new(wd, mask, cookie) == [wd |-> wd, mask |-> mask, cookie |-> cookie, len |-> 0]

\* Mutant: the mask and cookie fields written in each other's place.
header_to_bytes_swapped(e) ==
  U32Bytes(e.wd) \o U32Bytes(e.cookie) \o U32Bytes(e.mask) \o U32Bytes(e.len)

header_to_bytes(e) ==
  U32Bytes(e.wd) \o U32Bytes(e.mask) \o U32Bytes(e.cookie) \o U32Bytes(e.len)

\* (name.len() + 1 + 3) & !3: the name, its NUL, rounded up to 4 bytes.
PaddedLen(n) == ((n + 1 + 3) \div 4) * 4

to_bytes_with_name(e, name) ==
  LET padded == PaddedLen(Len(name))
  IN  header_to_bytes([e EXCEPT !.len = padded]) \o name \o Zeros(padded - Len(name))

\* None when the buffer is shorter than a header.
NoEvent == [wd |-> 0, mask |-> 0, cookie |-> 0, len |-> 0, none |-> TRUE]

from_bytes(buf) ==
  IF Len(buf) < HEADER_SIZE THEN NoEvent
  ELSE [wd |-> U32Value(SubSeq(buf, 1, 4)), mask |-> U32Value(SubSeq(buf, 5, 8)),
        cookie |-> U32Value(SubSeq(buf, 9, 12)), len |-> U32Value(SubSeq(buf, 13, 16)),
        none |-> FALSE]

event_size_with_name(n) == HEADER_SIZE + PaddedLen(n)

-----------------------------------------------------------------------------
(* message.rs FramedMessage                                                *)

frame(payload) == U32Bytes(Len(payload)) \o payload

read_length(buf) == IF Len(buf) < 4 THEN -1 ELSE U32Value(SubSeq(buf, 1, 4))

-----------------------------------------------------------------------------
(* The name as the dispatcher writes it, and as a C reader takes it back.  *)

\* to_str of a relative path: the components joined by "/".
NameBytes(comps) ==
  IF comps = <<>> THEN <<>>
  ELSE FoldLeft(LAMBDA acc, c : acc \o <<47, CharCode[c]>>, <<CharCode[Head(comps)]>>,
                Tail(comps))

\* The bytes of a NUL-terminated trailer up to the first NUL.
CString(b) ==
  LET nul == SelectInSeq(b, LAMBDA x : x = 0)
  IN  IF nul = 0 THEN b ELSE SubSeq(b, 1, nul - 1)

\* inotify(7): a read() buffer holds whole records, each a header followed
\* by len bytes of name; a reader walks it record by record.
RECURSIVE InotifyRecords(_)
InotifyRecords(buf) ==
  IF Len(buf) < HEADER_SIZE THEN <<>>
  ELSE LET h == from_bytes(buf)
           n == HEADER_SIZE + h.len
       IN  IF n > Len(buf) THEN <<>>
           ELSE <<[wd |-> h.wd, mask |-> h.mask, cookie |-> h.cookie,
                   name |-> CString(SubSeq(buf, HEADER_SIZE + 1, n))]>>
                \o InotifyRecords(SubSeq(buf, n + 1, Len(buf)))

=============================================================================
