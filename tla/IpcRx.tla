------------------------------- MODULE IpcRx --------------------------------
(***************************************************************************)
(* can_handler_poll and process_ipc_rx_buffer: frames from the RTOS are    *)
(* found in a byte stream that is read in pieces of any size and may hold  *)
(* noise, truncated frames and bytes that look like a header.              *)
(*                                                                         *)
(* rx_buffer is the part of the stream from position start (of rx_buffer   *)
(* [0]) to received; consuming bytes moves start.  Positions count from 0. *)
(***************************************************************************)
EXTENDS Naturals, Sequences

CONSTANTS
  Streams,         \* what the device may deliver
  Base,            \* number of byte values
  Sync, Start1, Start2,  \* IPC_SYNC, IPC_START1, IPC_START2
  PrepareSize,     \* IPC_PACKET_PREPARE_SIZE: the header, LENGTH at its end
  MinLength,       \* the bytes of CAN data that a frame needs
  MaxPacket,       \* IPC_MAX_PACKET_SIZE, also of one read
  BufferSize,      \* CAN_HANDLER_RX_BUFFER_SIZE
  EgoBytes,        \* first bytes of CAN data whose message_id is the ego status
  Crc(_)           \* ipc_calc_crc16

CrcSize == 2       \* IPC_PACKET_CRC_SIZE

ASSUME SizeAssumption ==
  /\ Base \in Nat
  /\ PrepareSize \in Nat /\ MinLength \in Nat /\ MaxPacket \in Nat /\ BufferSize \in Nat
  /\ 5 <= PrepareSize /\ PrepareSize + MinLength + CrcSize <= MaxPacket
  /\ 2 * MaxPacket <= BufferSize

ASSUME StreamAssumption == Streams \subseteq Seq(0..Base - 1)

VARIABLES
  stream,    \* all the device will deliver
  start,     \* position of rx_buffer[0]
  received,  \* position after rx_buffer[rx_buffer_len - 1]
  pc,        \* "poll": in can_handler_poll, "parse": in process_ipc_rx_buffer
  \* history
  taken,     \* positions of the frames consumed as a whole
  emitted    \* positions of those given to on_ego

vars == <<stream, start, received, pc, taken, emitted>>

Byte(p) == stream[p + 1]

Init ==
  /\ stream \in Streams
  /\ start = 0 /\ received = 0
  /\ pc = "poll"
  /\ taken = {} /\ emitted = {}

-----------------------------------------------------------------------------
(***************************************************************************)
(* What a frame is.                                                        *)
(***************************************************************************)
HeaderAt(p) ==
  /\ p + 3 <= Len(stream)
  /\ Byte(p) = Sync /\ Byte(p + 1) = Start1 /\ Byte(p + 2) = Start2

\* LENGTH is big-endian, in the last two bytes of the header.
DataLength(p) == Byte(p + PrepareSize - 2) * Base + Byte(p + PrepareSize - 1)

FrameLength(p) == PrepareSize + DataLength(p) + CrcSize

\* Mutant: the bound on a frame is that of the buffer.
LengthFits(p) == DataLength(p) >= MinLength /\ FrameLength(p) <= BufferSize
LengthValid(p) == DataLength(p) >= MinLength /\ FrameLength(p) <= MaxPacket

\* ipc_frame_parse: its other checks repeat those of the caller.
CrcMatches(p) ==
  LET end == p + FrameLength(p)
  IN  Byte(end - 2) * Base + Byte(end - 1) = Crc(SubSeq(stream, p + 1, end - CrcSize))

IsEgo(p) == Byte(p + PrepareSize) \in EgoBytes

-----------------------------------------------------------------------------
(***************************************************************************)
(* can_handler_poll: a timeout, an interrupted or failing select and an    *)
(* empty read change nothing.                                              *)
(***************************************************************************)
PollNothing == pc = "poll" /\ UNCHANGED vars

\* A piece that does not fit displaces all that is buffered; one that could
\* never fit is lost.
Read(n) ==
  /\ pc = "poll"
  /\ received + n <= Len(stream)
  /\ received' = received + n
  /\ start' = CASE n > BufferSize -> received + n
                [] n <= BufferSize /\ n > BufferSize - (received - start) -> received
                [] OTHER -> start
  /\ pc' = IF n > BufferSize THEN "poll" ELSE "parse"
  /\ UNCHANGED <<stream, taken, emitted>>

-----------------------------------------------------------------------------
(***************************************************************************)
(* process_ipc_rx_buffer: one pass of its loop per step.                   *)
(***************************************************************************)

\* find_ipc_header
FirstHeader(h) ==
  /\ h \in start..received /\ h + 3 <= received /\ HeaderAt(h)
  /\ \A q \in start..(h - 1) : ~HeaderAt(q)

\* Mutant: only one byte of a header that is cut off is kept.
KeptOne == 1
\* A header that is cut off shows at most two of its bytes.
Kept == 2

KeepTail == IF received - start > Kept THEN received - Kept ELSE start

FrameComplete(h) == received - h >= FrameLength(h)

\* Mutant: a bad header is not skipped.
SameHeader(h) == h
PastHeader(h) == h + 1

NoHeader ==
  /\ pc = "parse"
  /\ ~\E h \in start..received : FirstHeader(h)
  /\ start' = KeepTail
  /\ pc' = "poll"
  /\ UNCHANGED <<stream, received, taken, emitted>>

\* The frame is not complete: wait for the next read.
Await(h) ==
  /\ pc = "parse" /\ FirstHeader(h)
  /\ \/ received - h < PrepareSize
     \/ received - h >= PrepareSize /\ LengthValid(h) /\ ~FrameComplete(h)
  /\ start' = h
  /\ pc' = "poll"
  /\ UNCHANGED <<stream, received, taken, emitted>>

\* Not a frame after all.
Resynchronize(h) ==
  /\ pc = "parse" /\ FirstHeader(h)
  /\ received - h >= PrepareSize
  /\ ~LengthValid(h) \/ (FrameComplete(h) /\ ~CrcMatches(h))
  /\ start' = PastHeader(h)
  /\ UNCHANGED <<stream, received, pc, taken, emitted>>

Take(h) ==
  /\ pc = "parse" /\ FirstHeader(h)
  /\ received - h >= PrepareSize
  /\ LengthValid(h) /\ FrameComplete(h) /\ CrcMatches(h)
  /\ start' = h + FrameLength(h)
  /\ taken' = taken \cup {h}
  /\ UNCHANGED <<stream, received, pc>>

TakeEgo(h) == Take(h) /\ IsEgo(h) /\ emitted' = emitted \cup {h}
DropOther(h) == Take(h) /\ ~IsEgo(h) /\ UNCHANGED emitted

ParseStep ==
  NoHeader \/ \E h \in start..received :
                Await(h) \/ Resynchronize(h) \/ TakeEgo(h) \/ DropOther(h)

Next == PollNothing \/ (\E n \in 1..MaxPacket : Read(n)) \/ ParseStep

\* The thread is not stopped inside the loop; nothing makes the RTOS send.
Spec == Init /\ [][Next]_vars /\ WF_vars(ParseStep)

-----------------------------------------------------------------------------
(***************************************************************************)
(* Properties.                                                             *)
(***************************************************************************)

\* The buffer is a piece of the stream that fits into rx_buffer.
TypeOK ==
  /\ stream \in Seq(0..Base - 1)
  /\ received \in 0..Len(stream) /\ start \in 0..received
  /\ received - start <= BufferSize
  /\ pc \in {"poll", "parse"}
  /\ taken \subseteq 0..Len(stream) /\ emitted \subseteq taken

IntactFrame(p) ==
  /\ HeaderAt(p) /\ p + PrepareSize <= Len(stream)
  /\ LengthValid(p) /\ p + FrameLength(p) <= Len(stream) /\ CrcMatches(p)

Within(p, q) == q < p /\ p < q + FrameLength(q)

\* Whatever the pieces it is read in, the stream is cut into the same frames:
\* of what has left the buffer, an intact frame was taken, and once, unless it
\* lies inside one taken before, and nothing else was taken.  No frame is lost
\* to noise before it, to a header that is cut off or to a full buffer.
IntactFramesTaken ==
  \A p \in 0..Len(stream) :
    p < start => (p \in taken <=> IntactFrame(p) /\ ~\E q \in taken : Within(p, q))

\* A false header holds back what follows it for less than one packet, so there
\* is always room for what a read may bring and buffered data is never dropped.
HoldBackBounded == pc = "poll" => received - start < MaxPacket

\* The loop over the buffer ends, whatever is in it.
ParserReturns == pc = "parse" ~> pc = "poll"
=============================================================================
