---------------------------- MODULE IpcRx_proofs ----------------------------
(***************************************************************************)
(* That the receive buffer cuts every stream into the right frames, for    *)
(* every stream, checksum and size, and however it is read.                *)
(***************************************************************************)
EXTENDS IpcRx, TLAPS, WellFoundedInduction

(***************************************************************************)
(* IntactFramesTaken says which frames were taken but not that they lie    *)
(* behind the buffer, which is what keeps the next one from overlapping    *)
(* them; HoldBackBounded says nothing while the buffer is parsed, when it  *)
(* holds one read more.                                                    *)
(***************************************************************************)
TakenBehind == \A q \in taken : q < start /\ q + FrameLength(q) <= start

Backlog == received - start < (IF pc = "poll" THEN MaxPacket ELSE 2 * MaxPacket)

RxInv == TypeOK /\ IntactFramesTaken /\ TakenBehind /\ Backlog

LEMMA Sizes ==
  /\ PrepareSize \in Nat /\ MaxPacket \in Nat /\ BufferSize \in Nat /\ MinLength \in Nat
  /\ 5 <= PrepareSize /\ PrepareSize + 2 <= MaxPacket /\ 2 * MaxPacket <= BufferSize
BY SizeAssumption DEF CrcSize

\* A length read from the stream is a natural number.
LEMMA FrameLengthType ==
  ASSUME TypeOK, NEW p \in Nat, p + PrepareSize <= Len(stream)
  PROVE  FrameLength(p) \in Nat /\ PrepareSize + 2 <= FrameLength(p)
<1>1. Byte(p + PrepareSize - 2) \in Nat /\ Byte(p + PrepareSize - 1) \in Nat
  BY Sizes, SizeAssumption DEF TypeOK, Byte
<1>2. \A x, y \in Nat : x * Base + y \in Nat
  BY SizeAssumption
<1>3. DataLength(p) \in Nat
  BY <1>1, <1>2 DEF DataLength
<1> QED
  BY <1>3, Sizes DEF FrameLength, CrcSize

\* What a frame is depends on the stream alone.
LEMMA SameFrames ==
  ASSUME stream' = stream, NEW p
  PROVE  FrameLength(p)' = FrameLength(p) /\ (IntactFrame(p)' <=> IntactFrame(p))
<1>1. FrameLength(p)' = FrameLength(p) /\ DataLength(p)' = DataLength(p)
  BY DEF FrameLength, DataLength, Byte
<1>2. HeaderAt(p)' <=> HeaderAt(p)
  BY DEF HeaderAt, Byte
<1>3. LengthValid(p)' <=> LengthValid(p)
  BY <1>1 DEF LengthValid
<1>4. CrcMatches(p)' <=> CrcMatches(p)
  BY <1>1 DEF CrcMatches, Byte
<1> QED
  BY <1>1, <1>2, <1>3, <1>4 DEF IntactFrame

\* Moving start over positions that hold no intact frame loses none.
LEMMA SkipKeeps ==
  ASSUME RxInv, UNCHANGED <<stream, taken>>,
         start \in Nat, start' \in Nat, start <= start',
         \A p \in Nat : start <= p /\ p < start' => ~IntactFrame(p)
  PROVE  IntactFramesTaken' /\ TakenBehind'
<1>1. \A q \in taken : q \in Nat /\ q < start /\ FrameLength(q) \in Nat
  <2> TAKE q \in taken
  <2>1. q \in 0..Len(stream) /\ q < start
    BY DEF RxInv, TypeOK, TakenBehind
  <2>2. q + PrepareSize <= Len(stream)
    BY <2>1 DEF RxInv, IntactFramesTaken, IntactFrame
  <2> QED
    BY <2>1, <2>2, FrameLengthType DEF RxInv
<1>2. TakenBehind'
  <2> SUFFICES ASSUME NEW q \in taken
               PROVE  q < start' /\ q + FrameLength(q)' <= start'
    BY DEF TakenBehind
  <2> QED
    BY <1>1, SameFrames DEF RxInv, TakenBehind
<1>3. IntactFramesTaken'
  <2> SUFFICES ASSUME NEW p \in 0..Len(stream), p < start'
               PROVE  p \in taken <=> IntactFrame(p)' /\ ~\E q \in taken : Within(p, q)'
    BY DEF IntactFramesTaken
  <2>1. ASSUME NEW q \in taken PROVE Within(p, q)' <=> Within(p, q)
    <3>1. FrameLength(q)' = FrameLength(q)
      BY SameFrames
    <3> QED
      BY <3>1 DEF Within
  <2>2. IntactFrame(p)' <=> IntactFrame(p)
    BY SameFrames
  <2>3. CASE p < start
    <3>1. p \in taken <=> IntactFrame(p) /\ ~\E q \in taken : Within(p, q)
      BY <2>3 DEF RxInv, IntactFramesTaken
    <3> QED
      BY <2>1, <2>2, <3>1
  <2>4. CASE start <= p
    <3>1. p \in Nat
      BY DEF RxInv, TypeOK
    <3>2. p \notin taken
      BY <1>1, <2>4, <3>1
    <3>3. ~IntactFrame(p)
      BY <2>4, <3>1
    <3> QED
      BY <2>2, <3>2, <3>3
  <2> QED
    BY <2>3, <2>4
<1> QED
  BY <1>2, <1>3

\* A header that was found is the first in the buffer, and lies in it.
LEMMA Skipped ==
  ASSUME RxInv, NEW h, FirstHeader(h)
  PROVE  /\ h \in Nat /\ start <= h /\ h + 3 <= received
         /\ \A p \in start..(h - 1) : ~IntactFrame(p)
BY DEF RxInv, TypeOK, FirstHeader, IntactFrame

\* Every set of natural numbers that is not empty has a least element.
LEMMA LeastNat ==
  ASSUME NEW T \in SUBSET Nat, T # {}
  PROVE  \E m \in T : \A k \in T : m <= k
<1> DEFINE R == {ss \in Nat \X Nat : ss[1] < ss[2]}
<1>1. IsWellFoundedOn(R, Nat)
  BY NatLessThanWellFounded DEF OpToRel
<1>2. PICK m \in T : \A k \in T : ~(<<k, m>> \in R)
  <2> HIDE DEF R
  <2> QED
    BY <1>1, WFMin
<1>3. ASSUME NEW k \in T PROVE m <= k
  <2>1. k \in Nat /\ m \in Nat
    OBVIOUS
  <2>2. k < m => <<k, m>> \in R
    BY <2>1
  <2>3. ~(k < m)
    BY <1>2, <2>2
  <2> QED
    BY <2>1, <2>3
<1> QED
  BY <1>3

\* If there is a header in the buffer, one of them is the first.
LEMMA FirstHeaderExists ==
  ASSUME start \in Nat, received \in Nat,
         NEW p \in start..received, HeaderAt(p), p + 3 <= received
  PROVE  \E h \in start..received : FirstHeader(h)
<1> DEFINE headers == {h \in start..received : HeaderAt(h) /\ h + 3 <= received}
<1>1. headers \in SUBSET Nat /\ p \in headers
  OBVIOUS
<1>2. PICK h \in headers : \A q \in headers : h <= q
  <2> HIDE DEF headers
  <2> QED
    BY <1>1, LeastNat
<1>3. h \in start..received /\ HeaderAt(h) /\ h + 3 <= received
  OBVIOUS
<1>4. \A q \in start..(h - 1) : ~HeaderAt(q)
  <2> TAKE q \in start..(h - 1)
  <2>1. q \in start..received /\ q + 3 <= received /\ ~(h <= q)
    BY <1>3
  <2> QED
    BY <1>2, <2>1
<1> QED
  BY <1>3, <1>4 DEF FirstHeader

-----------------------------------------------------------------------------
(***************************************************************************)
(* One lemma per step of the handler.                                      *)
(***************************************************************************)

\* There is room for what is read, so the buffer keeps all it holds.
LEMMA ReadKeeps ==
  ASSUME RxInv, NEW n \in 1..MaxPacket, Read(n)
  PROVE  RxInv'
<1>1. /\ start \in Nat /\ received \in Nat /\ start <= received
      /\ received - start < MaxPacket /\ pc = "poll"
  BY DEF RxInv, TypeOK, Backlog, Read
<1>2. n \in Nat /\ n <= MaxPacket /\ n <= BufferSize /\ n <= BufferSize - (received - start)
  BY <1>1, Sizes
<1>3. start' = start /\ pc' = "parse"
  BY <1>1, <1>2, Sizes DEF Read
<1>4. IntactFramesTaken' /\ TakenBehind'
  BY <1>1, <1>3, SkipKeeps DEF Read
<1>5. TypeOK'
  BY <1>1, <1>2, <1>3, Sizes DEF RxInv, TypeOK, Read
<1>6. Backlog'
  BY <1>1, <1>2, <1>3, Sizes DEF Backlog, Read
<1> QED
  BY <1>4, <1>5, <1>6 DEF RxInv

\* A header that is cut off at the end of the buffer is kept.
LEMMA NoHeaderKeeps ==
  ASSUME RxInv, NoHeader
  PROVE  RxInv'
<1>1. start \in Nat /\ received \in Nat /\ start <= received
  BY DEF RxInv, TypeOK
<1>2. /\ start' \in Nat /\ start <= start' /\ start' <= received
      /\ start' = start \/ start' = received - 2
      /\ received - start' <= 2
  BY <1>1 DEF NoHeader, KeepTail, Kept
<1>3. \A p \in start..received : HeaderAt(p) => received < p + 3
  BY <1>1, FirstHeaderExists DEF NoHeader
<1>4. \A p \in Nat : start <= p /\ p < start' => ~IntactFrame(p)
  <2> SUFFICES ASSUME NEW p \in Nat, start <= p, p < start'
               PROVE  ~IntactFrame(p)
    OBVIOUS
  <2>1. start' = received - 2
    BY <1>1, <1>2
  <2>2. p + 3 <= received
    BY <1>1, <1>2, <2>1
  <2>3. p \in start..received
    BY <1>1, <2>2
  <2>4. ~HeaderAt(p)
    BY <1>1, <1>3, <2>2, <2>3
  <2> QED
    BY <2>4 DEF IntactFrame
<1>5. IntactFramesTaken' /\ TakenBehind'
  BY <1>1, <1>2, <1>4, SkipKeeps DEF NoHeader
<1>6. TypeOK' /\ Backlog'
  BY <1>1, <1>2, Sizes DEF RxInv, TypeOK, Backlog, NoHeader
<1> QED
  BY <1>5, <1>6 DEF RxInv

\* Nothing but the header that is waited for is left, and less than a packet.
LEMMA AwaitKeeps ==
  ASSUME RxInv, NEW h, Await(h)
  PROVE  RxInv'
<1>1. start \in Nat /\ received \in Nat /\ start <= received
  BY DEF RxInv, TypeOK
<1>2. /\ h \in Nat /\ start <= h /\ h + 3 <= received
      /\ \A p \in start..(h - 1) : ~IntactFrame(p)
  BY Skipped DEF Await
<1>3. IntactFramesTaken' /\ TakenBehind'
  BY <1>1, <1>2, SkipKeeps DEF Await
<1>4. received - h < MaxPacket
  <2>1. CASE received - h < PrepareSize
    BY <1>1, <1>2, <2>1, Sizes
  <2>2. CASE received - h >= PrepareSize /\ LengthValid(h) /\ ~FrameComplete(h)
    <3>1. h + PrepareSize <= Len(stream)
      BY <1>1, <1>2, <2>2, Sizes DEF RxInv, TypeOK
    <3>2. FrameLength(h) \in Nat /\ FrameLength(h) <= MaxPacket
      BY <1>2, <2>2, <3>1, FrameLengthType DEF RxInv, LengthValid
    <3> QED
      BY <1>1, <1>2, <2>2, <3>2, Sizes DEF FrameComplete
  <2> QED
    BY <2>1, <2>2 DEF Await
<1>5. TypeOK' /\ Backlog'
  BY <1>1, <1>2, <1>4, Sizes DEF RxInv, TypeOK, Backlog, Await
<1> QED
  BY <1>3, <1>5 DEF RxInv

\* What is skipped was no frame.
LEMMA ResynchronizeKeeps ==
  ASSUME RxInv, NEW h, Resynchronize(h)
  PROVE  RxInv'
<1>1. start \in Nat /\ received \in Nat /\ start <= received
  BY DEF RxInv, TypeOK
<1>2. /\ h \in Nat /\ start <= h /\ h + 3 <= received
      /\ \A p \in start..(h - 1) : ~IntactFrame(p)
  BY Skipped DEF Resynchronize
<1>3. ~IntactFrame(h)
  BY DEF Resynchronize, IntactFrame
<1>4. \A p \in Nat : start <= p /\ p < start' => ~IntactFrame(p)
  BY <1>1, <1>2, <1>3 DEF Resynchronize, PastHeader
<1>5. IntactFramesTaken' /\ TakenBehind'
  BY <1>1, <1>2, <1>4, SkipKeeps DEF Resynchronize, PastHeader
<1>6. TypeOK' /\ Backlog'
  BY <1>1, <1>2, Sizes DEF RxInv, TypeOK, Backlog, Resynchronize, PastHeader
<1> QED
  BY <1>5, <1>6 DEF RxInv

\* A frame is taken where it lies, and the positions inside it are skipped.
LEMMA TakeKeeps ==
  ASSUME RxInv, NEW h, TakeEgo(h) \/ DropOther(h)
  PROVE  RxInv'
<1>1. start \in Nat /\ received \in Nat /\ start <= received /\ received <= Len(stream)
  BY DEF RxInv, TypeOK
<1>2. Take(h) /\ FirstHeader(h)
  BY DEF TakeEgo, DropOther, Take
<1>3. /\ h \in Nat /\ start <= h /\ h + 3 <= received
      /\ \A p \in start..(h - 1) : ~IntactFrame(p)
  BY <1>2, Skipped
<1>4. h + PrepareSize <= Len(stream)
  BY <1>1, <1>2, <1>3, Sizes DEF Take
<1>5. FrameLength(h) \in Nat /\ 5 <= FrameLength(h) /\ h + FrameLength(h) <= received
  BY <1>1, <1>2, <1>3, <1>4, FrameLengthType, Sizes DEF RxInv, Take, FrameComplete
<1>6. /\ stream' = stream /\ received' = received /\ pc' = pc
      /\ start' = h + FrameLength(h) /\ taken' = taken \cup {h}
  BY <1>2 DEF Take
<1>7. IntactFrame(h)
  BY <1>1, <1>2, <1>4, <1>5 DEF Take, FirstHeader, IntactFrame
<1>8. ASSUME NEW q \in taken
      PROVE  /\ q \in Nat /\ FrameLength(q) \in Nat
             /\ q < start /\ q + FrameLength(q) <= start
  <2>1. q \in 0..Len(stream) /\ q < start /\ q + FrameLength(q) <= start
    BY <1>8 DEF RxInv, TypeOK, TakenBehind
  <2>2. q + PrepareSize <= Len(stream)
    BY <2>1, <1>8 DEF RxInv, IntactFramesTaken, IntactFrame
  <2> QED
    BY <2>1, <2>2, FrameLengthType DEF RxInv
<1>9. TakenBehind'
  <2> SUFFICES ASSUME NEW q \in taken'
               PROVE  q < start' /\ q + FrameLength(q)' <= start'
    BY DEF TakenBehind
  <2>1. CASE q = h
    BY <1>3, <1>5, <1>6, <2>1, SameFrames
  <2>2. CASE q \in taken
    BY <1>1, <1>3, <1>5, <1>6, <1>8, <2>2, SameFrames
  <2> QED
    BY <1>6, <2>1, <2>2
<1>10. IntactFramesTaken'
  <2> SUFFICES ASSUME NEW p \in 0..Len(stream), p < start'
               PROVE  p \in taken' <=> IntactFrame(p)' /\ ~\E q \in taken' : Within(p, q)'
    BY <1>6 DEF IntactFramesTaken
  <2>1. /\ IntactFrame(p)' <=> IntactFrame(p)
        /\ \A q : Within(p, q)' <=> Within(p, q)
    BY <1>6, SameFrames DEF Within
  <2>2. CASE p < start
    <3>1. p # h /\ ~Within(p, h)
      BY <1>1, <1>3, <2>2 DEF Within
    <3>2. p \in taken <=> IntactFrame(p) /\ ~\E q \in taken : Within(p, q)
      BY <2>2 DEF RxInv, IntactFramesTaken
    <3> QED
      BY <1>6, <2>1, <3>1, <3>2
  <2>3. CASE start <= p /\ p < h
    <3>1. p # h /\ p \notin taken /\ ~IntactFrame(p)
      BY <1>1, <1>3, <1>8, <2>3
    <3> QED
      BY <1>6, <2>1, <3>1
  <2>4. CASE p = h
    <3>1. \A q \in taken \cup {h} : ~Within(h, q)
      BY <1>1, <1>3, <1>8 DEF Within
    <3> QED
      BY <1>6, <1>7, <2>1, <2>4, <3>1
  <2>5. CASE h < p
    <3>1. Within(p, h) /\ p # h /\ p \notin taken
      BY <1>1, <1>3, <1>5, <1>6, <1>8, <2>5 DEF Within
    <3> QED
      BY <1>6, <2>1, <3>1
  <2> QED
    BY <1>1, <1>3, <2>2, <2>3, <2>4, <2>5
<1>11. emitted' \subseteq taken'
  BY <1>6 DEF RxInv, TypeOK, TakeEgo, DropOther
<1>12. TypeOK' /\ Backlog'
  BY <1>1, <1>3, <1>5, <1>6, <1>11, Sizes DEF RxInv, TypeOK, Backlog
<1> QED
  BY <1>9, <1>10, <1>12 DEF RxInv

LEMMA InitRx == Init => RxInv
BY Sizes, StreamAssumption DEF Init, RxInv, TypeOK, IntactFramesTaken, TakenBehind, Backlog

LEMMA StepRx == RxInv /\ [Next]_vars => RxInv'
<1> SUFFICES ASSUME RxInv, [Next]_vars PROVE RxInv'
  OBVIOUS
<1>1. CASE UNCHANGED vars
  BY <1>1 DEF vars, RxInv, TypeOK, IntactFramesTaken, TakenBehind, Backlog, IntactFrame, Within,
              HeaderAt, LengthValid, CrcMatches, FrameLength, DataLength, Byte
<1>2. CASE PollNothing
  BY <1>1, <1>2 DEF PollNothing
<1>3. CASE \E n \in 1..MaxPacket : Read(n)
  BY <1>3, ReadKeeps
<1>4. CASE ParseStep
  BY <1>4, NoHeaderKeeps, AwaitKeeps, ResynchronizeKeeps, TakeKeeps DEF ParseStep
<1> QED
  BY <1>1, <1>2, <1>3, <1>4 DEF Next

LEMMA RxInvariant == Spec => []RxInv
BY InitRx, StepRx, PTL DEF Spec

-----------------------------------------------------------------------------
(***************************************************************************)
(* The buffer is always a piece of the stream that fits into rx_buffer.    *)
(***************************************************************************)
THEOREM TypeCorrect == Spec => []TypeOK
<1>1. RxInv => TypeOK
  BY DEF RxInv
<1> QED
  BY <1>1, RxInvariant, PTL

(***************************************************************************)
(* Every intact frame of the stream is taken exactly once, unless it lies  *)
(* inside another, and nothing else is: process_ipc_rx_buffer loses no     *)
(* frame to the way the stream is read or to what surrounds the frame.     *)
(***************************************************************************)
THEOREM FramesCorrect == Spec => []IntactFramesTaken
<1>1. RxInv => IntactFramesTaken
  BY DEF RxInv
<1> QED
  BY <1>1, RxInvariant, PTL

(***************************************************************************)
(* Between polls less than one packet is held back, so the overflow branch *)
(* of can_handler_poll is never taken.                                     *)
(***************************************************************************)
THEOREM HoldBackCorrect == Spec => []HoldBackBounded
<1>1. RxInv => HoldBackBounded
  BY DEF RxInv, Backlog, HoldBackBounded
<1> QED
  BY <1>1, RxInvariant, PTL
=============================================================================
