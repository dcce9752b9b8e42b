------------------------------ MODULE Lifecycle -----------------------------
(***************************************************************************)
(* Start-up and shutdown of the node: main, its three threads, the network *)
(* loop that mosquitto runs for the MQTT thread, the running flag, and the *)
(* file descriptors of the CAN device and of the broker's socket.          *)
(*                                                                         *)
(* What the threads do in their loops is in the other modules; here only   *)
(* the ends of the loops are left, and for CAN TX the sending of a frame.  *)
(***************************************************************************)
EXTENDS Naturals

CONSTANT MaxFd   \* number of file descriptors the process may open

ASSUME FdAssumption == MaxFd \in Nat

Fds == 1..MaxFd
NoFd == 0        \* -1 in the code

VARIABLES
  running,     \* AppContext.running
  mainPc,      \* where main is; "exited" once the managers are destroyed
  rxPc, txPc, mqttPc,  \* where the threads are, "none" if not started
  canFd,       \* CanHandler.fd
  canInit,     \* CanHandler.initialized
  txFd,        \* the descriptor given to ipc_frame_send
  mqttInit,    \* MqttHandler.initialized
  netUp,       \* the network loop runs (external)
  netFd,       \* its socket (external)
  file,        \* what each descriptor stands for (external)
  misdirected  \* history: a CAN frame was written to the socket

can == <<canFd, canInit>>
mqtt == <<mqttInit, netUp, netFd>>
vars == <<running, mainPc, rxPc, txPc, mqttPc, can, txFd, mqtt, file, misdirected>>

Alive == mainPc \notin {"exited", "crashed"}

Init ==
  /\ running = FALSE
  /\ mainPc = "init"
  /\ rxPc = "none" /\ txPc = "none" /\ mqttPc = "none"
  /\ canFd = NoFd /\ canInit = FALSE /\ txFd = NoFd
  /\ mqttInit = FALSE /\ netUp = FALSE /\ netFd = NoFd
  /\ file = [f \in Fds |-> "free"]
  /\ misdirected = FALSE

\* open() and socket() return the lowest free descriptor.
LowestFree(f) ==
  /\ f \in Fds /\ file[f] = "free"
  /\ \A g \in Fds : file[g] = "free" => f <= g

-----------------------------------------------------------------------------
(***************************************************************************)
(* main                                                                    *)
(***************************************************************************)

\* The handlers are installed first; a signal before app_init sets the flag
\* is overwritten.
Signal ==
  /\ Alive
  /\ running' = FALSE
  /\ UNCHANGED <<mainPc, rxPc, txPc, mqttPc, can, txFd, mqtt, file, misdirected>>

\* app_init: the flag first, then the map and the managers, any of which may
\* fail.
SetRunning ==
  /\ mainPc = "init"
  /\ running' = TRUE
  /\ mainPc' = "managers"
  /\ UNCHANGED <<rxPc, txPc, mqttPc, can, txFd, mqtt, file, misdirected>>

InitManagers ==
  /\ mainPc = "managers"
  /\ mainPc' \in {"startRx", "cleanup"}
  /\ UNCHANGED <<running, rxPc, txPc, mqttPc, can, txFd, mqtt, file, misdirected>>

\* A thread that cannot be started ends the others.
StartRx ==
  /\ mainPc = "startRx"
  /\ mainPc' = "startMqtt"
  /\ \/ rxPc' = "init" /\ running' = running
     \/ rxPc' = rxPc /\ running' = FALSE
  /\ UNCHANGED <<txPc, mqttPc, can, txFd, mqtt, file, misdirected>>

StartMqtt ==
  /\ mainPc = "startMqtt"
  /\ mainPc' = "startTx"
  /\ \/ mqttPc' = "init" /\ running' = running
     \/ mqttPc' = mqttPc /\ running' = FALSE
  /\ UNCHANGED <<rxPc, txPc, can, txFd, mqtt, file, misdirected>>

StartTx ==
  /\ mainPc = "startTx"
  /\ mainPc' = "joinRx"
  /\ \/ txPc' = "tick" /\ running' = running
     \/ txPc' = txPc /\ running' = FALSE
  /\ UNCHANGED <<rxPc, mqttPc, can, txFd, mqtt, file, misdirected>>

\* pthread_join: of a handle that was never set the outcome is undefined; it
\* returns an error or reads memory that is not there.
Joined(threadPc, next) ==
  \/ threadPc = "done" /\ mainPc' = next
  \/ threadPc = "none" /\ mainPc' \in {next, "crashed"}

Join ==
  /\ \/ mainPc = "joinRx" /\ Joined(rxPc, "joinTx")
     \/ mainPc = "joinTx" /\ Joined(txPc, "joinMqtt")
     \/ mainPc = "joinMqtt" /\ Joined(mqttPc, "cleanup")
  /\ UNCHANGED <<running, rxPc, txPc, mqttPc, can, txFd, mqtt, file, misdirected>>

\* app_cleanup, and the end of the process.
Exit ==
  /\ mainPc = "cleanup"
  /\ mainPc' = "exited"
  /\ UNCHANGED <<running, rxPc, txPc, mqttPc, can, txFd, mqtt, file, misdirected>>

MainStep == SetRunning \/ InitManagers \/ StartRx \/ StartMqtt \/ StartTx \/ Join \/ Exit

-----------------------------------------------------------------------------
(***************************************************************************)
(* CAN RX thread: can_handler_init until it works, poll while running,     *)
(* can_handler_cleanup.                                                    *)
(***************************************************************************)
RxBegin ==
  /\ rxPc = "init" /\ running
  /\ rxPc' = "opening"
  /\ UNCHANGED <<running, mainPc, txPc, mqttPc, can, txFd, mqtt, file, misdirected>>

RxOpen ==
  /\ rxPc = "opening"
  /\ \E f \in Fds :
       /\ LowestFree(f)
       /\ file' = [file EXCEPT ![f] = "device"]
       /\ canFd' = f
  /\ rxPc' = "opened"
  /\ UNCHANGED <<running, mainPc, txPc, mqttPc, canInit, txFd, mqtt, misdirected>>

\* open() fails; the thread sleeps and tries again.
RxRetry ==
  /\ rxPc = "opening"
  /\ rxPc' = "init"
  /\ UNCHANGED <<running, mainPc, txPc, mqttPc, can, txFd, mqtt, file, misdirected>>

RxReady ==
  /\ rxPc = "opened"
  /\ canInit' = TRUE
  /\ rxPc' = "poll"
  /\ UNCHANGED <<running, mainPc, txPc, mqttPc, canFd, txFd, mqtt, file, misdirected>>

\* Mutant: the loop does not end as long as the device is there.
LeavesWithoutDevice == ~running /\ ~canInit
\* What a poll returns is not looked at, and nothing but can_handler_cleanup
\* clears initialized: the loop ends with running, and only then.
Leaves == ~running \/ ~canInit

RxStop ==
  /\ rxPc = "poll" /\ Leaves
  /\ rxPc' = "close"
  /\ UNCHANGED <<running, mainPc, txPc, mqttPc, can, txFd, mqtt, file, misdirected>>

\* Mutant: the descriptor is only forgotten.
LeftOpen(f) == file
Closed(f) == [file EXCEPT ![f] = "free"]

RxClose ==
  /\ rxPc = "close"
  /\ file' = Closed(canFd)
  /\ rxPc' = "forget"
  /\ UNCHANGED <<running, mainPc, txPc, mqttPc, can, txFd, mqtt, misdirected>>

RxForget ==
  /\ rxPc = "forget"
  /\ canFd' = NoFd /\ canInit' = FALSE
  /\ rxPc' = "init"
  /\ UNCHANGED <<running, mainPc, txPc, mqttPc, txFd, mqtt, file, misdirected>>

RxDone ==
  /\ rxPc = "init" /\ ~running
  /\ rxPc' = "done"
  /\ UNCHANGED <<running, mainPc, txPc, mqttPc, can, txFd, mqtt, file, misdirected>>

RxStep == RxBegin \/ RxOpen \/ RxRetry \/ RxReady \/ RxStop \/ RxClose \/ RxForget \/ RxDone

-----------------------------------------------------------------------------
(***************************************************************************)
(* CAN TX thread: can_handler_send_frame and ipc_frame_send.               *)
(***************************************************************************)
TxTick ==
  /\ txPc = "tick" /\ running
  /\ txPc' = "pass"
  /\ UNCHANGED <<running, mainPc, rxPc, mqttPc, can, txFd, mqtt, file, misdirected>>

\* A pass sends some frames or none.
TxFrame ==
  /\ txPc = "pass" /\ canInit
  /\ txPc' = "checked"
  /\ UNCHANGED <<running, mainPc, rxPc, mqttPc, can, txFd, mqtt, file, misdirected>>

TxEndPass ==
  /\ txPc = "pass"
  /\ txPc' = "tick"
  /\ UNCHANGED <<running, mainPc, rxPc, mqttPc, can, txFd, mqtt, file, misdirected>>

FdUsable == canFd # NoFd

TxCheckFd ==
  /\ txPc = "checked"
  /\ IF FdUsable THEN txFd' = canFd /\ txPc' = "write" ELSE txFd' = txFd /\ txPc' = "pass"
  /\ UNCHANGED <<running, mainPc, rxPc, mqttPc, can, mqtt, file, misdirected>>

\* The descriptor was closed in the meantime.
TxFails ==
  /\ txPc = "write" /\ file[txFd] = "free"
  /\ txPc' = "pass"
  /\ UNCHANGED <<running, mainPc, rxPc, mqttPc, can, txFd, mqtt, file, misdirected>>

\* The frame is taken by whatever the descriptor now stands for, or refused for
\* good.
TxWrites ==
  /\ txPc = "write" /\ file[txFd] # "free"
  /\ txPc' = "pass"
  /\ misdirected' \in {misdirected, misdirected \/ file[txFd] = "socket"}
  /\ UNCHANGED <<running, mainPc, rxPc, mqttPc, can, txFd, mqtt, file>>

\* EAGAIN or ETIME: once more after 100 ms, without a look at running.
TxRetries == txPc = "write" /\ file[txFd] # "free" /\ UNCHANGED vars

TxDone ==
  /\ txPc = "tick" /\ ~running
  /\ txPc' = "done"
  /\ UNCHANGED <<running, mainPc, rxPc, mqttPc, can, txFd, mqtt, file, misdirected>>

TxStep == TxTick \/ TxFrame \/ TxEndPass \/ TxCheckFd \/ TxFails \/ TxWrites \/ TxRetries \/ TxDone

-----------------------------------------------------------------------------
(***************************************************************************)
(* MQTT thread: mqtt_handler_init until it works, passes while running,    *)
(* mqtt_handler_cleanup.                                                   *)
(***************************************************************************)
MqttBegin ==
  /\ mqttPc = "init" /\ running
  /\ mqttPc' = "connecting"
  /\ UNCHANGED <<running, mainPc, rxPc, txPc, can, txFd, mqtt, file, misdirected>>

MqttConnect ==
  /\ mqttPc = "connecting"
  /\ \E f \in Fds :
       /\ LowestFree(f)
       /\ file' = [file EXCEPT ![f] = "socket"]
       /\ netFd' = f
  /\ netUp' = TRUE /\ mqttInit' = TRUE
  /\ mqttPc' = "loop"
  /\ UNCHANGED <<running, mainPc, rxPc, txPc, can, txFd, misdirected>>

\* The connection or the start of the network loop fails; the thread sleeps
\* and tries again.
MqttRetry ==
  /\ mqttPc = "connecting"
  /\ mqttPc' = "init"
  /\ UNCHANGED <<running, mainPc, rxPc, txPc, can, txFd, mqtt, file, misdirected>>

MqttStop ==
  /\ mqttPc = "loop" /\ (~running \/ ~mqttInit)
  /\ mqttPc' = "stop"
  /\ UNCHANGED <<running, mainPc, rxPc, txPc, can, txFd, mqtt, file, misdirected>>

\* Mutant: the network loop is left running.
LoopKept == netUp
\* mosquitto_loop_stop with force: the network thread is cancelled and joined.
LoopAfterStop == FALSE

MqttLoopStop ==
  /\ mqttPc = "stop"
  /\ netUp' = LoopAfterStop
  /\ mqttPc' = "destroy"
  /\ UNCHANGED <<running, mainPc, rxPc, txPc, can, txFd, mqttInit, netFd, file, misdirected>>

MqttDestroy ==
  /\ mqttPc = "destroy"
  /\ file' = [f \in Fds |-> IF f = netFd THEN "free" ELSE file[f]]
  /\ netFd' = NoFd
  /\ mqttInit' = FALSE
  /\ mqttPc' = "init"
  /\ UNCHANGED <<running, mainPc, rxPc, txPc, can, txFd, netUp, misdirected>>

MqttDone ==
  /\ mqttPc = "init" /\ ~running
  /\ mqttPc' = "done"
  /\ UNCHANGED <<running, mainPc, rxPc, txPc, can, txFd, mqtt, file, misdirected>>

MqttStep == MqttBegin \/ MqttConnect \/ MqttRetry \/ MqttStop \/ MqttLoopStop \/ MqttDestroy \/ MqttDone

(***************************************************************************)
(* The network loop closes its socket when the connection breaks and opens *)
(* another one to reconnect.                                               *)
(***************************************************************************)
NetBreaks ==
  /\ netUp /\ netFd # NoFd
  /\ file' = [file EXCEPT ![netFd] = "free"]
  /\ netFd' = NoFd
  /\ UNCHANGED <<running, mainPc, rxPc, txPc, mqttPc, can, txFd, mqttInit, netUp, misdirected>>

NetReconnects ==
  /\ netUp /\ netFd = NoFd
  /\ \E f \in Fds :
       /\ LowestFree(f)
       /\ file' = [file EXCEPT ![f] = "socket"]
       /\ netFd' = f
  /\ UNCHANGED <<running, mainPc, rxPc, txPc, mqttPc, can, txFd, mqttInit, netUp, misdirected>>

Terminated == ~Alive /\ UNCHANGED vars

Next ==
  \/ Alive /\ (MainStep \/ RxStep \/ TxStep \/ MqttStep \/ NetBreaks \/ NetReconnects)
  \/ Signal
  \/ Terminated

\* main and the threads are scheduled, and open() and connect() return.  But
\* the device need not take a frame: of CAN TX only the steps that do not wait
\* for that are fair.
Spec ==
  /\ Init /\ [][Next]_vars
  /\ WF_vars(Alive /\ MainStep)
  /\ WF_vars(Alive /\ RxStep)
  /\ WF_vars(Alive /\ (TxTick \/ TxFrame \/ TxEndPass \/ TxCheckFd \/ TxFails \/ TxDone))
  /\ WF_vars(Alive /\ MqttStep)

-----------------------------------------------------------------------------
(***************************************************************************)
(* Properties.                                                             *)
(***************************************************************************)

\* Every variable keeps to its values, and a frame is only sent to what was a
\* descriptor.
TypeOK ==
  /\ running \in BOOLEAN /\ canInit \in BOOLEAN /\ mqttInit \in BOOLEAN /\ netUp \in BOOLEAN
  /\ misdirected \in BOOLEAN
  /\ mainPc \in {"init", "managers", "startRx", "startMqtt", "startTx", "joinRx", "joinTx",
                 "joinMqtt", "cleanup", "exited", "crashed"}
  /\ rxPc \in {"none", "init", "opening", "opened", "poll", "close", "forget", "done"}
  /\ txPc \in {"none", "tick", "pass", "checked", "write", "done"}
  /\ mqttPc \in {"none", "init", "connecting", "loop", "stop", "destroy", "done"}
  /\ canFd \in Fds \cup {NoFd} /\ netFd \in Fds \cup {NoFd} /\ txFd \in Fds \cup {NoFd}
  /\ txPc = "write" => txFd # NoFd
  /\ file \in [Fds -> {"free", "device", "socket"}]

\* The managers are destroyed only when nobody can call them any more, the
\* callbacks of the network loop included: main joins the threads, and the MQTT
\* thread does not end before its network loop has.
DestroyedUnused ==
  mainPc = "exited" =>
    rxPc \in {"none", "done"} /\ txPc \in {"none", "done"} /\ mqttPc \in {"none", "done"} /\ ~netUp

\* The device is open exactly while the handler has its descriptor: none is
\* leaked over retries and shutdown, and an initialized handler's is not another
\* file, except between the close and the assignment that follows it.
DeviceHeld ==
  \A f \in Fds : file[f] = "device" <=> f = canFd /\ rxPc \in {"opened", "poll", "close"}

\* A signal, or a thread that did not start, ends the process, even if the
\* device stays full and CAN TX repeats its write for ever: CAN RX closes the
\* device under it.
ShutdownCompletes == mainPc # "init" /\ ~running ~> ~Alive

\* can_handler.c:408 says that a frame is sent to the descriptor of the device:
\* no frame goes to the connection with the broker.
FramesReachDevice == ~misdirected
=============================================================================
