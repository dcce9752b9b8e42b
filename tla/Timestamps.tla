----------------------------- MODULE Timestamps -----------------------------
(***************************************************************************)
(* The sensing time of an ego frame on its way: the RTOS keeps its clock   *)
(* by our NTP frames and sends the low bits with each frame, ntp_time.c    *)
(* extends them with the high bits of the Linux clock, and the codec puts  *)
(* the result into JSON as a double, from which another vehicle reads it.  *)
(*                                                                         *)
(* The RTOS is external; between two NTP frames its clock runs as fast as  *)
(* the Linux clock, which may also be set at any time.                     *)
(***************************************************************************)
EXTENDS Integers

CONSTANTS
  Modulo,    \* NTP_TS_MODULO_MS
  Width,     \* 2^64: values of uint64_t
  Exact,     \* 2^53: to there every integer is a double
  RefEpoch,  \* NTP_SYNC_EPOCH_UNIX_MS
  MaxClock   \* bounds the Linux clock

\* As in the code: in uint64_t's upper half a double is a multiple of half the modulo
\* (2^11 and 2^12), and no clock reaches the integers that are not doubles,
\*   MaxClock + Modulo < Exact < Width - Modulo.

VARIABLES
  clock,   \* CLOCK_REALTIME
  sync,    \* an NTP frame under way to the RTOS, or NoSync
  rtos,    \* the RTOS's idea of the time since the reference epoch
  frame,   \* an ego frame under way, or NoFrame
  info,    \* VehicleInfo.timestamp_ms, or NoStamp, with where it comes from
  inStep   \* history: the RTOS clock was set by a Linux clock that was itself set
           \* to after the reference epoch, and has not been set back since

vars == <<clock, sync, rtos, frame, info, inStep>>

\* ntp_time_sync_epoch_ms: zero while the clock is before the reference epoch.
SyncEpoch(unix) == IF unix >= RefEpoch THEN unix - RefEpoch ELSE 0

NoSync == [epoch |-> 0, valid |-> FALSE, set |-> FALSE]
Sync(epoch, set) == [epoch |-> epoch, valid |-> TRUE, set |-> set]
NoFrame == [sensed |-> 0, valid |-> FALSE, inStep |-> FALSE]
Frame(sensed) == [sensed |-> sensed, valid |-> TRUE, inStep |-> inStep]
NoStamp == [stamp |-> 0, sensed |-> 0, at |-> 0, inStep |-> FALSE]

(***************************************************************************)
(* ntp_time_reconstruct, in 64 bits.                                       *)
(***************************************************************************)
Extended(low, now) == (now - (now % Modulo)) + low

\* Mutants: the period before is never taken; and it is taken for the present moment
\* too.
ReconstructUpwards(low, now) == Extended(low, now)
ReconstructStrictly(low, now) ==
  LET e == Extended(low, now) IN IF e >= now THEN (e - Modulo) % Width ELSE e

Reconstruct(low, now) ==
  LET e == Extended(low, now) IN IF e > now THEN (e - Modulo) % Width ELSE e

(***************************************************************************)
(* What another vehicle may read from the JSON of a stamp: the nearest     *)
(* double, a tie going to the even one.  2^64 does not fit into uint64_t   *)
(* again; the conversion is undefined, and gives 0 or the largest value.   *)
(***************************************************************************)
Step == Modulo \div 2
Rounded(n) ==
  LET below == n - (n % Step)
      up == \/ 2 * (n - below) > Step
            \/ 2 * (n - below) = Step /\ (below \div Step) % 2 = 1
  IN  IF up THEN below + Step ELSE below

ToDouble(n) == IF n <= Exact THEN n ELSE Rounded(n)
FromDouble(d) == IF d < Width THEN {d} ELSE {0, Width - 1}
Received(stamp) == FromDouble(ToDouble(stamp))

Init ==
  /\ clock \in 0..MaxClock
  /\ sync = NoSync /\ rtos = 0 /\ frame = NoFrame /\ info = NoStamp
  /\ inStep = FALSE

-----------------------------------------------------------------------------
\* can_handler_send_ntp_sync: the epoch now, whether the clock was set or not.
SendNtpSync ==
  /\ ~sync.valid
  /\ sync' = Sync(SyncEpoch(clock), clock >= RefEpoch)
  /\ UNCHANGED <<clock, rtos, frame, info, inStep>>

\* External: the RTOS sets its clock.
ReceiveNtpSync ==
  /\ sync.valid
  /\ rtos' = sync.epoch /\ inStep' = sync.set
  /\ sync' = NoSync
  /\ UNCHANGED <<clock, frame, info>>

\* External: the RTOS sends its state, with the low bits of its clock.
Sense ==
  /\ ~frame.valid
  /\ frame' = Frame(rtos)
  /\ UNCHANGED <<clock, sync, rtos, info, inStep>>

\* on_ego_frame: the stamp is made from the time at which the frame is handled.
Handle ==
  /\ frame.valid
  /\ info' = [stamp |-> Reconstruct(frame.sensed % Modulo, SyncEpoch(clock)),
              sensed |-> frame.sensed, at |-> SyncEpoch(clock), inStep |-> frame.inStep]
  /\ frame' = NoFrame
  /\ UNCHANGED <<clock, sync, rtos, inStep>>

Tick ==
  /\ clock < MaxClock /\ rtos < MaxClock
  /\ clock' = clock + 1 /\ rtos' = rtos + 1
  /\ UNCHANGED <<sync, frame, info, inStep>>

\* The clock is set, by NTP or by hand; to go back breaks the step.
SetClock ==
  /\ clock' \in 0..MaxClock
  /\ inStep' = (inStep /\ clock' >= clock)
  /\ sync' = [sync EXCEPT !.set = @ /\ clock' >= clock]
  /\ frame' = [frame EXCEPT !.inStep = @ /\ clock' >= clock]
  /\ UNCHANGED <<rtos, info>>

Next == SendNtpSync \/ ReceiveNtpSync \/ Sense \/ Handle \/ Tick \/ SetClock
Spec == Init /\ [][Next]_vars

-----------------------------------------------------------------------------
(***************************************************************************)
(* Properties.                                                             *)
(***************************************************************************)

\* Every variable keeps to the values its C counterpart can hold.
TypeOK ==
  /\ clock \in 0..MaxClock /\ rtos \in 0..MaxClock
  /\ sync \in [epoch : 0..MaxClock, valid : BOOLEAN, set : BOOLEAN]
  /\ frame \in [sensed : 0..MaxClock, valid : BOOLEAN, inStep : BOOLEAN]
  /\ info \in [stamp : 0..Width - 1, sensed : 0..MaxClock, at : 0..MaxClock,
               inStep : BOOLEAN]
  /\ inStep \in BOOLEAN

\* A frame handled within a period of its sensing reaches the other vehicles with
\* exactly its sensing time, across every wrap of the low bits, though the RTOS
\* clock lags by however long the NTP frame took, as long as the Linux clock
\* is set and is not set back (ntp_time_reconstruct with the codec).
SensingTimeSurvives ==
  (info.inStep /\ info.at - info.sensed < Modulo) => Received(info.stamp) = {info.sensed}

\* Whatever the clocks do, a stamp lies in the last period before it was made and
\* keeps the RTOS's low bits, also in the frame that reports it to the other
\* vehicle's RTOS: a wrong clock costs whole periods only.  The first period
\* after the reference epoch, in which the subtraction wraps around, is excepted.
LowBitsSurvive ==
  info.at >= Modulo =>
    /\ info.at - Modulo < info.stamp /\ info.stamp <= info.at
    /\ \A r \in Received(info.stamp) : r % Modulo = info.sensed % Modulo
=============================================================================
