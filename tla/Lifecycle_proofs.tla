-------------------------- MODULE Lifecycle_proofs --------------------------
(***************************************************************************)
(* That shutdown destroys nothing in use and that the device descriptor is *)
(* neither leaked nor mistaken, for any number of descriptors.             *)
(***************************************************************************)
EXTENDS Lifecycle, TLAPS

\* A thread runs from its start by main until main has joined it.
Over == {"none", "done"}

StartOrder ==
  /\ mainPc \in {"init", "managers", "startRx"} => rxPc = "none"
  /\ mainPc \in {"init", "managers", "startRx", "startMqtt"} => mqttPc = "none"
  /\ mainPc \in {"init", "managers", "startRx", "startMqtt", "startTx"} => txPc = "none"

JoinOrder ==
  /\ mainPc \in {"joinTx", "joinMqtt", "cleanup", "exited"} => rxPc \in Over
  /\ mainPc \in {"joinMqtt", "cleanup", "exited"} => txPc \in Over
  /\ mainPc \in {"cleanup", "exited"} => mqttPc \in Over

\* The network loop lives inside the loop of the MQTT thread.
LoopOwned == netUp => mqttPc \in {"loop", "stop"}

\* What DeviceHeld needs of the other descriptors.
Descriptors ==
  /\ rxPc \in {"opened", "poll", "close"} => canFd # NoFd
  /\ netFd # NoFd => file[netFd] = "socket"

LifeInv == TypeOK /\ StartOrder /\ JoinOrder /\ LoopOwned /\ DeviceHeld /\ Descriptors

-----------------------------------------------------------------------------
LEMMA InitLife == Init => LifeInv
BY FdAssumption DEF Init, LifeInv, TypeOK, StartOrder, JoinOrder, LoopOwned, DeviceHeld, Descriptors,
   Fds, NoFd, Over

\* main starts the threads in one order and joins them in another.
LEMMA MainKeeps ==
  ASSUME LifeInv, Alive, MainStep
  PROVE  LifeInv'
<1>1. UNCHANGED <<canFd, canInit, txFd, mqttInit, netUp, netFd, file, misdirected>>
  BY DEF MainStep, SetRunning, InitManagers, StartRx, StartMqtt, StartTx, Join, Exit, can, mqtt
<1>2. running' \in BOOLEAN
  BY DEF LifeInv, TypeOK, MainStep, SetRunning, InitManagers, StartRx, StartMqtt, StartTx, Join, Exit
<1>3. TypeOK'
  <2>1. /\ mainPc' \in {"init", "managers", "startRx", "startMqtt", "startTx", "joinRx", "joinTx",
                        "joinMqtt", "cleanup", "exited", "crashed"}
        /\ rxPc' \in {rxPc, "init"} /\ mqttPc' \in {mqttPc, "init"} /\ txPc' \in {txPc, "tick"}
    BY DEF MainStep, SetRunning, InitManagers, StartRx, StartMqtt, StartTx, Join, Joined, Exit
  <2> QED
    BY <1>1, <1>2, <2>1 DEF LifeInv, TypeOK
<1>4. StartOrder' /\ JoinOrder'
  BY DEF LifeInv, TypeOK, StartOrder, JoinOrder, Over, Alive, MainStep, SetRunning, InitManagers,
         StartRx, StartMqtt, StartTx, Join, Joined, Exit
<1>5. LoopOwned' /\ DeviceHeld' /\ Descriptors'
  BY <1>1 DEF LifeInv, StartOrder, LoopOwned, DeviceHeld, Descriptors, MainStep, SetRunning,
              InitManagers, StartRx, StartMqtt, StartTx, Join, Exit
<1> QED
  BY <1>3, <1>4, <1>5 DEF LifeInv

\* The RX thread opens a free descriptor and closes the one it has opened.
LEMMA RxKeeps ==
  ASSUME LifeInv, RxStep
  PROVE  LifeInv'
<1>1. /\ UNCHANGED <<running, mainPc, txPc, mqttPc, txFd, mqttInit, netUp, netFd, misdirected>>
      /\ rxPc \notin Over
  BY DEF RxStep, RxBegin, RxOpen, RxRetry, RxReady, RxStop, RxClose, RxForget, RxDone, can, mqtt, Over
<1>2. StartOrder' /\ JoinOrder' /\ LoopOwned'
  BY <1>1 DEF LifeInv, StartOrder, JoinOrder, LoopOwned, Over
<1>3. TypeOK' /\ DeviceHeld' /\ Descriptors'
  <2>1. CASE RxOpen
    <3>1. PICK f \in Fds : /\ file[f] = "free" /\ canFd' = f
                           /\ file' = [file EXCEPT ![f] = "device"]
      BY <2>1 DEF RxOpen, LowestFree
    <3>2. f # NoFd
      BY FdAssumption DEF Fds, NoFd
    <3>3. TypeOK'
      BY <1>1, <2>1, <3>1 DEF LifeInv, TypeOK, RxOpen
    <3>4. DeviceHeld'
      BY <2>1, <3>1 DEF LifeInv, TypeOK, DeviceHeld, RxOpen
    <3>5. Descriptors'
      BY <1>1, <2>1, <3>1, <3>2 DEF LifeInv, TypeOK, Descriptors, RxOpen
    <3> QED
      BY <3>3, <3>4, <3>5
  <2>2. CASE RxClose
    <3>1. canFd \in Fds /\ file[canFd] = "device"
      BY <2>2 DEF LifeInv, TypeOK, DeviceHeld, Descriptors, RxClose
    <3>2. file' = [file EXCEPT ![canFd] = "free"] /\ UNCHANGED <<canFd, canInit>>
      BY <2>2 DEF RxClose, Closed, can
    <3>3. TypeOK'
      <4>1. file' \in [Fds -> {"free", "device", "socket"}]
        BY <3>2 DEF LifeInv, TypeOK
      <4>2. rxPc' = "forget"
        BY <2>2 DEF RxClose
      <4> QED
        BY <1>1, <3>2, <4>1, <4>2 DEF LifeInv, TypeOK
    <3>4. DeviceHeld'
      BY <2>2, <3>1, <3>2 DEF LifeInv, TypeOK, DeviceHeld, RxClose
    <3>5. Descriptors'
      <4>1. netFd # NoFd => netFd \in Fds /\ file[netFd] = "socket"
        BY DEF LifeInv, TypeOK, Descriptors
      <4>2. netFd' # NoFd => file'[netFd'] = "socket"
        BY <1>1, <3>1, <3>2, <4>1 DEF LifeInv, TypeOK
      <4>3. rxPc' = "forget"
        BY <2>2 DEF RxClose
      <4> QED
        BY <4>2, <4>3 DEF Descriptors
    <3> QED
      BY <3>3, <3>4, <3>5
  <2>3. CASE RxBegin \/ RxRetry \/ RxReady \/ RxStop \/ RxForget \/ RxDone
    <3>1. file' = file
      BY <2>3 DEF RxBegin, RxRetry, RxReady, RxStop, RxForget, RxDone
    <3>2. canInit' \in BOOLEAN
      BY <2>3 DEF LifeInv, TypeOK, RxBegin, RxRetry, RxReady, RxStop, RxForget, RxDone, can
    <3>3. TypeOK'
      BY <1>1, <2>3, <3>1, <3>2 DEF LifeInv, TypeOK, RxBegin, RxRetry, RxReady, RxStop, RxForget, RxDone, can
    <3>4. DeviceHeld' /\ Descriptors'
      BY <1>1, <2>3, <3>1 DEF LifeInv, DeviceHeld, Descriptors, RxBegin, RxRetry, RxReady, RxStop, RxForget, RxDone, can
    <3> QED
      BY <3>3, <3>4
  <2> QED
    BY <2>1, <2>2, <2>3 DEF RxStep
<1> QED
  BY <1>2, <1>3 DEF LifeInv

\* The TX thread changes nothing that others keep.
LEMMA TxKeeps ==
  ASSUME LifeInv, TxStep, ~TxRetries
  PROVE  LifeInv'
<1>1. /\ UNCHANGED <<running, mainPc, rxPc, mqttPc, canFd, canInit, mqttInit, netUp, netFd, file>>
      /\ txPc \notin Over
  BY DEF TxStep, TxTick, TxFrame, TxEndPass, TxCheckFd, TxFails, TxWrites, TxDone, can, mqtt, Over
<1>2. misdirected' \in BOOLEAN
  BY DEF LifeInv, TypeOK, TxStep, TxTick, TxFrame, TxEndPass, TxCheckFd, TxFails, TxWrites, TxRetries, TxDone
<1>3. /\ txFd' \in Fds \cup {NoFd} /\ txPc' \in {"tick", "pass", "checked", "write", "done"}
      /\ txPc' = "write" => txFd' # NoFd
  BY DEF LifeInv, TypeOK, TxStep, TxTick, TxFrame, TxEndPass, TxCheckFd, FdUsable, TxFails, TxWrites, TxRetries, TxDone
<1>4. TypeOK'
  BY <1>1, <1>2, <1>3 DEF LifeInv, TypeOK
<1> QED
  BY <1>1, <1>4 DEF LifeInv, StartOrder, JoinOrder, LoopOwned, DeviceHeld, Descriptors, Over

\* The socket takes a free descriptor and frees its own.
LEMMA SocketKeeps ==
  ASSUME LifeInv, UNCHANGED <<canFd, rxPc>>, netFd' \in Fds \cup {NoFd},
         \/ /\ netFd' # NoFd /\ file[netFd'] = "free"
            /\ file' = [file EXCEPT ![netFd'] = "socket"]
         \/ /\ netFd' = NoFd
            /\ file' = [f \in Fds |-> IF f = netFd THEN "free" ELSE file[f]]
  PROVE  DeviceHeld' /\ Descriptors' /\ file' \in [Fds -> {"free", "device", "socket"}]
<1>1. /\ file \in [Fds -> {"free", "device", "socket"}] /\ netFd \in Fds \cup {NoFd}
      /\ netFd # NoFd => file[netFd] = "socket"
  BY DEF LifeInv, TypeOK, Descriptors
<1>2. \A f \in Fds : (file[f] = "device" <=> file'[f] = "device")
  <2>1. CASE /\ netFd' # NoFd /\ file[netFd'] = "free"
             /\ file' = [file EXCEPT ![netFd'] = "socket"]
    <3>1. netFd' \in Fds
      BY <2>1
    <3> QED
      BY <1>1, <2>1, <3>1
  <2>2. CASE file' = [f \in Fds |-> IF f = netFd THEN "free" ELSE file[f]]
    <3>1. ASSUME NEW f \in Fds PROVE f = netFd => file[f] = "socket"
      <4>1. f # NoFd
        BY FdAssumption DEF Fds, NoFd
      <4> QED
        BY <1>1, <4>1
    <3> QED
      BY <2>2, <3>1
  <2> QED
    BY <2>1, <2>2
<1>3. DeviceHeld'
  BY <1>2 DEF LifeInv, DeviceHeld
<1>4. file' \in [Fds -> {"free", "device", "socket"}]
  BY DEF LifeInv, TypeOK
<1>5. Descriptors'
  BY DEF LifeInv, TypeOK, Descriptors
<1> QED
  BY <1>3, <1>4, <1>5

LEMMA MqttKeeps ==
  ASSUME LifeInv, MqttStep
  PROVE  LifeInv'
<1>1. /\ UNCHANGED <<running, mainPc, rxPc, txPc, canFd, canInit, txFd, misdirected>>
      /\ mqttPc \notin Over /\ mqttPc' \in {"init", "connecting", "loop", "stop", "destroy", "done"}
  BY DEF MqttStep, MqttBegin, MqttConnect, MqttRetry, MqttStop, MqttLoopStop, MqttDestroy, MqttDone, can, mqtt, Over
<1>2. StartOrder' /\ JoinOrder'
  BY <1>1 DEF LifeInv, StartOrder, JoinOrder, Over
<1>3. LoopOwned'
  BY DEF LifeInv, LoopOwned, MqttStep, MqttBegin, MqttConnect, MqttRetry, MqttStop, MqttLoopStop, LoopAfterStop,
         MqttDestroy, MqttDone, mqtt
<1>4. mqttInit' \in BOOLEAN /\ netUp' \in BOOLEAN
  BY DEF LifeInv, TypeOK, MqttStep, MqttBegin, MqttConnect, MqttRetry, MqttStop, MqttLoopStop, LoopAfterStop,
         MqttDestroy, MqttDone, mqtt
<1>5. /\ DeviceHeld' /\ Descriptors' /\ file' \in [Fds -> {"free", "device", "socket"}]
      /\ netFd' \in Fds \cup {NoFd}
  <2>1. CASE MqttConnect
    <3>1. PICK f \in Fds : file[f] = "free" /\ netFd' = f /\ file' = [file EXCEPT ![f] = "socket"]
      BY <2>1 DEF MqttConnect, LowestFree
    <3>2. f # NoFd
      BY FdAssumption DEF Fds, NoFd
    <3> QED
      BY <1>1, <3>1, <3>2, SocketKeeps
  <2>2. CASE MqttDestroy
    BY <1>1, <2>2, SocketKeeps DEF MqttDestroy
  <2>3. CASE MqttBegin \/ MqttRetry \/ MqttStop \/ MqttLoopStop \/ MqttDone
    <3>1. UNCHANGED <<file, netFd>>
      BY <2>3 DEF MqttBegin, MqttRetry, MqttStop, MqttLoopStop, MqttDone, mqtt
    <3> QED
      BY <1>1, <3>1 DEF LifeInv, TypeOK, DeviceHeld, Descriptors
  <2> QED
    BY <2>1, <2>2, <2>3 DEF MqttStep
<1>6. TypeOK'
  BY <1>1, <1>4, <1>5 DEF LifeInv, TypeOK
<1> QED
  BY <1>2, <1>3, <1>5, <1>6 DEF LifeInv

LEMMA NetKeeps ==
  ASSUME LifeInv, NetBreaks \/ NetReconnects
  PROVE  LifeInv'
<1>1. UNCHANGED <<running, mainPc, rxPc, txPc, mqttPc, canFd, canInit, txFd, mqttInit, netUp,
                  misdirected>>
  BY DEF NetBreaks, NetReconnects, can
<1>2. /\ DeviceHeld' /\ Descriptors' /\ file' \in [Fds -> {"free", "device", "socket"}]
      /\ netFd' \in Fds \cup {NoFd}
  <2>1. CASE NetReconnects
    <3>1. PICK f \in Fds : file[f] = "free" /\ netFd' = f /\ file' = [file EXCEPT ![f] = "socket"]
      BY <2>1 DEF NetReconnects, LowestFree
    <3>2. f # NoFd
      BY FdAssumption DEF Fds, NoFd
    <3> QED
      BY <1>1, <3>1, <3>2, SocketKeeps
  <2>2. CASE NetBreaks
    <3>1. netFd' = NoFd /\ file' = [f \in Fds |-> IF f = netFd THEN "free" ELSE file[f]]
      BY <2>2 DEF NetBreaks, LifeInv, TypeOK
    <3> QED
      BY <1>1, <3>1, SocketKeeps
  <2> QED
    BY <2>1, <2>2
<1>3. TypeOK'
  BY <1>1, <1>2 DEF LifeInv, TypeOK
<1> QED
  BY <1>1, <1>2, <1>3 DEF LifeInv, StartOrder, JoinOrder, LoopOwned

LEMMA StepLife == LifeInv /\ [Next]_vars => LifeInv'
<1> SUFFICES ASSUME LifeInv, [Next]_vars PROVE LifeInv'
  OBVIOUS
<1>1. CASE UNCHANGED vars
  BY <1>1 DEF vars, can, mqtt, LifeInv, TypeOK, StartOrder, JoinOrder, LoopOwned, DeviceHeld,
              Descriptors
<1>2. CASE TxRetries \/ Terminated
  BY <1>1, <1>2 DEF TxRetries, Terminated
<1>3. CASE Signal
  <2>1. /\ running' = FALSE
        /\ UNCHANGED <<mainPc, rxPc, txPc, mqttPc, canFd, canInit, txFd, mqttInit, netUp, netFd, file,
                       misdirected>>
    BY <1>3 DEF Signal, can, mqtt
  <2>2. running' \in BOOLEAN
    BY <2>1
  <2>3. TypeOK'
    BY <2>1, <2>2 DEF LifeInv, TypeOK
  <2> QED
    BY <2>1, <2>3 DEF LifeInv, StartOrder, JoinOrder, LoopOwned, DeviceHeld, Descriptors
<1>4. CASE Alive /\ (MainStep \/ RxStep \/ TxStep \/ MqttStep \/ NetBreaks \/ NetReconnects)
  BY <1>2, <1>4, MainKeeps, RxKeeps, TxKeeps, MqttKeeps, NetKeeps
<1> QED
  BY <1>1, <1>2, <1>3, <1>4 DEF Next

LEMMA LifeInvariant == Spec => []LifeInv
BY InitLife, StepLife, PTL DEF Spec

-----------------------------------------------------------------------------
(***************************************************************************)
(* Every variable keeps to its values, and frames are only sent to what    *)
(* was a descriptor.                                                       *)
(***************************************************************************)
THEOREM TypeCorrect == Spec => []TypeOK
<1>1. LifeInv => TypeOK
  BY DEF LifeInv
<1> QED
  BY <1>1, LifeInvariant, PTL

(***************************************************************************)
(* When app_cleanup destroys the managers no thread of the node and no     *)
(* callback of the network loop can use them, whatever failed to start.    *)
(***************************************************************************)
THEOREM DestroyedCorrect == Spec => []DestroyedUnused
<1>1. LifeInv => DestroyedUnused
  BY DEF LifeInv, JoinOrder, LoopOwned, Over, DestroyedUnused
<1> QED
  BY <1>1, LifeInvariant, PTL

(***************************************************************************)
(* The device is open exactly while can_handler_init and                   *)
(* can_handler_cleanup say so, whatever the socket does meanwhile.         *)
(***************************************************************************)
THEOREM DeviceCorrect == Spec => []DeviceHeld
<1>1. LifeInv => DeviceHeld
  BY DEF LifeInv
<1> QED
  BY <1>1, LifeInvariant, PTL
=============================================================================
