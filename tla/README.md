# Verification of the Bluedroid host stack

TLA+ models, TLC runs and TLAPS proofs for the Bluetooth host stack under
`src/bluedroid` (a port of Bluedroid to an RTOS with the `aos_*` kernel API).
Paths below are relative to `src/bluedroid`.

## 1. Inventory

Tasks, from the bottom up: the UART receive thread (H4 or H5), the H5 helper
threads, the timer service, the HCI host task, the BTU task (the whole core
stack: L2CAP, SDP, RFCOMM, GATT, SMP, AVDT, BTM, and BTA), and the BTC task that
talks to the application. They share memory, pass messages through bounded
kernel queues and call back into each other.

| Part | State | Operations | Hard behaviour |
|---|---|---|---|
| HCI layer (`hci/hci_layer.c`) | command and packet queues, `command_credits`, commands pending a response, one response timer | transmit_command(_futured), transmit_downward, host task loop, filter_incoming_event, timer callback | unlocked credit counter, one signal per item, lost posts, answers racing the sender |
| Packet fragmenter (`hci/packet_fragmenter.c`) | current fragment packet, partial packets per handle | fragment_and_dispatch, reassemble_and_dispatch | packets handed back half sent, lost or overlong fragments |
| H5 transport (`hci/hci_h5.c`, `hci/hci_hal_h5.c`) | link state, sequence numbers, un-acked, reliable and unreliable queues, three timers | link establishment, enqueue, dequeue, ack processing, retransmission thread | lossy UART, window, retransmission racing acks, controller reset |
| H4 transport (`hci/hci_hal_h4.c`) | receive parser state | parse, transmit | truncated packets |
| OSI (`osi/`) | fixed_queue, alarm, future, semaphore, mutex, list, hash map | enqueue/dequeue, set/cancel, ready/await | blocking, capacity, shared alarm table |
| L2CAP channels and links (`l2c_csm.c`, `l2c_main.c`, `l2c_utils.c`, `l2c_api.c`, `l2c_link.c`) | a control block per channel and per link, the pool of each, signalling identifiers, queues | channel state machine, signalling commands, API calls, link events, timeouts | crossing requests, answers after their timeout, blocks released inside loops, security in between |
| L2CAP retransmission (`l2c_fcr.c`) | windows, five queues, two timers per channel | I- and S-frames, segmentation, retransmission, flow control | numbers modulo 64, damaged frames of every kind, timers whose message is already posted |
| RFCOMM (`stack/rfcomm`) | multiplexer and port state machines, credits, transmit and receive queues | PN, SABME/UA/DM/DISC, MSC, data, credits, timers | both ends close at once, a client that comes back, credits under congestion |
| GATT (`stack/gatt`) | client/server command queues, indication queue, prepare-write queue | read/write/notify/indicate, MTU exchange | one outstanding request, timeouts |
| SMP (`stack/smp`) | pairing state machine | pairing, key distribution | out-of-order PDUs, timeout |
| AVDTP/AVCTP/AVRCP (`stack/avdt`, `avct`, `avrc`) | CCB/SCB state machines | discovery, open/start/suspend/close | crossing commands, retransmission |
| SDP (`stack/sdp`) | connection and discovery state | connect, search, continuation | disconnect during search |
| BTM (`stack/btm`) | ACL, SCO, security, inquiry records | security requests, mode changes | collisions, pending requests |
| BTA (`bta/*`) | per-profile state machines | API and stack events | reentrancy, ordering |
| BTC (`btc/*`) | task queue, profile queue, configuration store | dispatch, callbacks, save | message ownership |
| Device, vendor start-up (`device/controller.c`, `hci/vendor.c`) | controller properties | awaited command sequence | answers that never come |
| SBC codec (`external/sbc`), HCI command builders, UUID and address utilities | none or data only | conversion | none |

Properties that make each part correct: flow control never overruns the peer;
a response reaches the request it answers, exactly once; a buffer has one owner
and is freed once; a timer is armed exactly while something waits for it; what
is queued is eventually sent; data comes out as it went in, in order; two peers
of a protocol never disagree for good about a connection.

Where they touch: callers hand commands and packets to the HCI layer, which
hands them to the H4 or H5 transport in the HCI host task; the transport's
receive thread calls `hal_says_packet_ready`, which completes commands in that
thread and passes everything else through the fragmenter to the BTU queue. The
BTU task runs L2CAP and everything above it, handler by handler; RFCOMM calls
`L2CA_*` and is called back with data, congestion and disconnection. The timer
service runs every alarm callback in its own task (`osi/alarm.c:131`, "FIXME");
the callbacks of the BTU timers only post a message to the BTU task.
`PROJECT.json` lists every component, and under `hazards` what is hard to test in it.

## 2. Modules

| Module | Models | Composes |
|---|---|---|
| HciLayer, MCHciLayer, HciLayerProofs | HCI layer, downward fragmenter | four tasks and the controller |
| H5, H5Proofs, H5EventProofs | three-wire transport | five threads, the line, the controller |
| L2capChannel, L2capChannelProofs | connection-oriented channels and their link | two devices that run the same code, security manager, applications, controllers |
| L2capErtm, L2capErtmProofs | enhanced retransmission mode | two ends that run the same code over a link that damages frames |
| SduService | what L2capErtm promises its users | refined by L2capErtm |
| RfcommPort | RFCOMM ports over a connected multiplexer | two ends that run the same code over a reliable channel |
| SequenceLemmas | lemmas about the community modules' sequence operators, used by the proofs of all three layers | |

Where a handler runs to completion in the BTU task (the L2CAP and RFCOMM modules) it is
one step, written as an operator from an end's record to an end's record, as the
C function is one from control block to control block; frames it sends collect
in `out` and leave when the step commits. The HCI and H5 modules, whose code
runs in several tasks without a common lock, are cut into finer steps.

### HciLayer (with MCHciLayer, HciLayerProofs)

State and actions of `hci/hci_layer.c` and the downward half of
`hci/packet_fragmenter.c`. Four kinds of actors interleave:

| Actor | Actions | Code |
|---|---|---|
| callers | `TransmitCommand`, `TransmitPacket` queue an item, `Post` sends its signal | `transmit_command`, `transmit_command_futured`, `transmit_downward` |
| host task | `HostReceive`, `HostContinue`, `HostSelect`, `HostPacket`, `HostDequeue`, `HostLoad`, `HostStore`, `HostAppend`, `HostSend`, `HostTimer` | `hci_host_thread_handler`, `event_command_ready`, `event_packet_ready` |
| receive thread | `RxEvent`, `RxMatch`, `RxTimer`, `RxTest`, `RxPost`, `RxFree` | `filter_incoming_event` |
| timer service | `AlarmExpires`, `TimedOutRead`, `TimedOutLog` | `command_timed_out` |
| controller (external) | `CtlReceive`, `CtlAnswer`, `CtlNop` | |

Granularity: a step ends wherever another task can run between two accesses to
shared state. `command_credits--` takes no lock, so it is a load (`HostLoad`) and
a store (`HostStore`); list operations under `commands_pending_response_lock`
are one step. `command_timed_out` finds the first pending command under the lock
(`TimedOutRead`) and reads its opcode after the unlock (`TimedOutLog`), so that an
answer may free it in between. Abstraction: buffers have an owner and an opcode, no contents. A
command's kind says which callbacks it carries. The controller has `CtlSlots`
command buffers, works on the commands in order, answers each with Command
Complete or Command Status, and may advertise fewer free buffers than it has
and give the rest back later with a Command Complete for opcode 0.

### H5 (with H5Proofs, H5EventProofs)

The three-wire transport of `hci/hci_h5.c`: link establishment and go-back-N.

| Thread | Actions | Code |
|---|---|---|
| "app", the HCI host task | `AppInit`, `AppSend`, `StartSync` | `hci_h5_send_*`, `h5_enqueue` |
| "rx", the H5 task | `RxOutOfOrder`, `RxReliable`, `RxUnreliable`, `AckedLock`, `AckedWalk`, `AckedFirst`, `AckedFree`, `RacedFree`, `RxAcked`, `RxPassUp`, `RxSync` .. `RxStartConf` | `h5_recv`, `h5_complete_rx_pkt`, `h5_remove_acked_pkt`, `h5_process_ctl_pkts` |
| "timer" | `Expire`, then `DataTimeout`, `SyncTimeout`, `ConfTimeout` + `CountRetrans`, `BaudTimeout` | the four timeout handlers |
| "retrans" | `RetransStart`, `RetransTake`, `RetransPut`, `RetransDone` | `data_retransfer_thread` |
| any of the four, in `h5_wake_up` | `Lock`, `DequeueUnrel`, `DequeueRel`, `SendRel`, `DequeueAck`, `Unlock` | `h5_wake_up`, `h5_dequeue`, `h5_prepare_pkt` |
| `data_ready_cb_thread` | `DataReady` | |
| line and controller (external) | `LineLoses`, `Ctl*` | |

A thread that calls `h5_wake_up` goes to "lock" and remembers in `cont` where it
continues. `h5_wakeup_mutex` is `mutex`. A packet is a number, in the order the
HCI layer gave it; a reliable packet being sent is in no queue between
`DequeueRel` and `SendRel`, one being retransmitted in none between `RetransTake`
and `RetransPut`. `sent`, `released`, `discarded` and `given` record history.
`h5_remove_acked_pkt` holds `h5_wakeup_mutex`, which `data_retransfer_thread` does
not take, and `skb_unlink` takes no lock of the queue. So it is cut where that
thread may come between: `msgq_txseq` is read (`AckedLock`), then the length of
`unack` (`AckedWalk`), the first packet is found (`AckedFirst`), each is unlinked and
freed (`AckedFree`), and the alarm stopped (`RxAcked`). If `RetransTake` takes a
packet the loop stands on (`TakenFromLoop`), the receive thread goes to "raced",
where `RacedFree` frees the packet that is now in the other thread's hand. What the
loop does after that is undefined, and the receive thread does no more in the model.
`Preemptive = FALSE` keeps only the schedules in which handlers run to
completion. The controller receives go-back-N, sends its own events stop-and-wait,
and may restart (`CtlSend("sync")`).

Abstractions: a damaged packet (SLIP, header checksum, CRC) is a lost one, which
is what `h5_recv` makes of it; `msgq_txseq--` and `skb_queue_head` of the
retransmission are one step; reading and clearing `h5_ready_events` (lines
1659-1660) is one step, an expiry between them being absorbed by the round that
starts there. Left out:
`hci_h5_cleanup`, `int_cmd` (queued, never read), the firmware-download interception
of internal events, allocation failures, uninitialised memory.

### L2capChannel (with L2capChannelProofs)

Two devices, A and B, with one ACL link. `dev[d]` is what L2CAP on d keeps: the
control blocks by CID (state, remote CID, the two signalling identifiers, the
configuration flags, the timer), the free list and the link's list in their
order, the state of the link, and what the security manager is working on.

| Group | Operators | Code |
|---|---|---|
| the application | `L2CA_ConnectReq`, `L2CA_ConnectRsp`, `L2CA_ConfigReq`, `L2CA_ConfigRsp`, `L2CA_DisconnectReq`, `L2CA_DisconnectRsp` | `l2c_api.c` and the handlers of `l2c_csm.c` they reach |
| a received command | `RecvConnReq` .. `RecvInfoRsp` | `process_l2cap_cmd` and the handlers it reaches |
| timers | `Timeout`, `InfoTimeout` | `l2c_process_timeout`, `l2c_info_timeout` |
| the link | `LinkUp`, `LinkDown`, `PageFails`, `IdleDisconnect`, `LinkLost` | `l2c_link.c` |
| security | `AccessReq`, `SecurityAnswer`, `EncryptionChange`, `Resubmit`, `AbortAccessReq` | `btm_sec.c` as L2CAP uses it, `l2c_link_sec_comp` |
| pool | `AllocateCcb`, `ReleaseCcb` | `l2cu_allocate_ccb`, `l2cu_release_ccb` |
| external | `LinkBreaks`, `PageSucceeds`, `LoseLink` | controllers |

`app[c]` is what the owner of a CID knows and still has to do; it makes it
possible to say that an owner is told. The loops over a link's channels are
written as the code has them: `Each` for the loops that save the next pointer
first, `EachUntilReleased` for those that read it after the handler and so end
where a handler released its control block. Both are recursive functions on the
number of rounds, so that they can be proved about. A verdict on a configuration is
an input, the options behind it are not modelled.

### L2capErtm (with L2capErtmProofs) and SduService

One open channel in enhanced retransmission mode. `ccb[d]` holds the sequence
variables, the four queues and the two timers of `tL2C_FCRB` and what the
application at d wrote and received. `l2c_fcr_proc_pdu`, `process_reqseq`,
`process_s_frame`, `process_i_frame`, `retransmit_i_frames` and the others keep
their names. Actions: `DataWrite`, `L2CA_FlowControl` (application), `Receive`,
`BadFcs` (a frame arrives, whole or damaged), `CompletedPackets` (the controller
gives buffers back), `Alarm`, `AckAlarm` (a timer goes off, which only posts a
message) and `Timeout`, `AckTimeout` (the BTU task handles that message, whether
or not the timer was stopped meanwhile). A timer is off, ticking or expired; an
expired one counts as in use, since nothing clears the mark.

`SduService` is the promise: each direction is a FIFO of whole SDUs, and an SDU
is reported complete only when the peer's application has it. `L2capErtm`
implements it: `Service` is its instance under the mapping that forgets frames,
windows and timers, and `ReliableFifo == Service!Spec` is a property of
`ertm_fifo`.

### RfcommPort (with RfcommPortProofs)

Two ends over one multiplexer that is connected at the start. `end[s]` is the
multiplexer of s (state, release timer, congestion, `cmd_q`) and its ports
(`tPORT` and `tRFC_PORT`: states, `port_ctrl`, credits, flow-control flags,
timer, queues). Actions: the application's `RFCOMM_CreateConnection`,
`RemovePort`, `PORT_Write`, `PORT_Read`, `PORT_FlowControl`; `Receive` of one
frame, dispatched as `RFCOMM_BufDataInd` does; `SecurityAnswers`; L2CAP's
`Congestion` and `CongestionEnds`; `PortTimeout` and `MxTimeout`. A server port
keeps its handle (`keep_port_handle`) and listens again when a connection ends.
While L2CAP is congested commands wait in `cmd_q` and data in the ports'
transmit queues, as in `rfc_check_send_cmd` and `rfc_send_buf_uih`'s callers.

## 3. Runs

Bounds are small values of the code's own limits, so that each limit is reached.
The numbers are exhaustive for those instances. Every instance has a finite
workload and ends when it is done, or runs out of calls, losses or allowed
stops, so deadlock is not checked; that the work gets done is what the liveness
properties say.

| Run | Instance | Shows | States |
|---|---|---|---|
| hci_commands | two commands of one opcode, with and without status callback, two controller buffers, a signal queue of one, a timer that expires while the answer comes | TypeOK, TimerGuardsPending, ResponseFindsCommand (an answer that overtakes the end of `event_command_ready` still finds its command), CommandReleasedOnce | @hci_commands@ |
| hci_flow | future, legacy command, HCI_HOST_NUM_PACKETS_DONE, a packet of three fragments, one controller buffer | OneCredit, PacketSingleOwner | @hci_flow@ |
| h5_data | five packets (one SCO), one event, three numbers, window two, two retransmissions, one loss, alarms at any time, no preemption, fair threads | TypeOK, InOrderDelivery, AckedWereDelivered, SentDelivered | @h5_data@ |
| h5_threads | two packets, window two, eight numbers, two retransmissions, full preemption, no loss | PacketInOnePlace between the statements of `h5_dequeue`, `h5_remove_acked_pkt` and the retransfer, up to the first packet freed in another thread's hand | @h5_threads@ |
| h5_link | two events (one answers a baud rate change), one loss, a controller that restarts or asks for the configuration, full preemption | ConfKeepsTrying, EventsInOrder | 1.7 M |
| l2cap_cross | both devices call, configure and close; one control block each; checks and configurations fail or are put off on B; every timer at any time | PoolIntact, OwnerInformed, OpenIsPartnered | 0.27 M |
| l2cap_link | one channel from the page to the end, security and configuration that fail or are put off on B, the exchange of features, one loss of the link or late answer | TypeOK, NoLostWakeup, OpenIsPartnered, ChannelsSettle | 82 k |
| l2cap_loop_skip | violation | LinkUpReachesAll: a handler that releases its control block ends the loop of `l2c_link_hci_conn_comp` | |
| ertm_fifo | two SDUs one way (one of four frames), one the other, four numbers, window two, one retransmission, one stop of the flow by each end, one damaged frame | TypeOK, SrejHoldsFrame, UnackedIsWindow, ReliableFifo | @ertm_fifo@ |
| ertm_live | three SDUs (one of two frames) one way, window six so that acknowledgements are delayed, two damaged frames of any kind | OnlyRetriesClose, SdusArrive | @ertm_live@ |
| rfcomm_port | a port opened twice, two buffers one way and one the other, one of them as long as the MTU, one stop by an application or by L2CAP | TypeOK, CreditsConserved, InOrder, NoIdleData, WaitsEnd | 0.23 M |
| rfcomm_orphan | violation | NoOrphans: the release timer expires between PN and SABME | |

The two violations are described, with the lines they contradict, under
`findings` in `PROJECT.json`. Each passing property has a mutant there: an edit of
one mapped definition, such as a dropped guard, under which TLC finds it violated.

Bounds. HCI_HOST_QUEUE_LEN (40) and QUEUE_SIZE_MAX (254) become 1 to 2; the eight
sequence numbers of H5 and the 64 of L2CAP become two to twelve so that they wrap
while old frames are under way (`2 * TxWin <= Modulus`, which the specification
of the mode requires and the code does not check, is an assumption);
retransmission limits are one or two; the line loses at most two packets and
holds at most two each way. In L2capErtm `LinkRoom` keeps an alarm from expiring
while two or more frames are under way, and at most one message of each timer is
posted; without it the same poll could be repeated until the link is full of
copies. `MaxBusy`, `MaxLoss`, `MaxConn`, `MaxCfg`, `MaxDrop`, `MaxOpens` and
`MaxHolds` count calls and faults; `MAX_RFC_PORTS`, the size of the
table that `PORT_FlowInd` walks, is one. h5_data has no preemption: with it,
InOrderDelivery and AckedWereDelivered inherit the races of section 5, and nothing
in the code keeps the threads apart, so what h5_data shows is the protocol and not
the locking. h5_threads and h5_link preempt at every step. ertm_live has data in
one direction; with both, SdusArrive is false (section 5). Two opens of a port are needed for a
connection that meets the remains of the one before; one control block per device for
a request that meets an empty pool. `MaxTimeouts = 0`: a port timer that awaits
an answer (T1 of 20 s, 60 s with a user deciding) expires only when no answer is
under way; see section 5 for what happens otherwise. Checked once, outside the
runs: the invariants of rfcomm_port with two buffers in each direction, without
fairness (2.8 M states).

Fairness. H5: weak fairness of each thread, of the line's delivery and of the
controller's answers, no more: in h5_data an alarm may expire before the answer
arrives, and SentDelivered allows for the DATA_RETRANS_COUNT retransmissions being
used up. In h5_link `PromptPeer` lets an alarm expire only when the line is
quiet: the alarms run for 250 to 1000 ms, the peer answers within a few.
L2capChannel: the BTU task receives, timers expire, the security manager and the
link answer; of the applications only one that has been refused a configuration
must react. L2capErtm: the BTU task of an end is not idle for ever while it has
work (weak fairness of `Work`, with its enabling condition `HasWork` written
out, which is the same and cheaper to check), and a timer that ticks goes off.
RfcommPort: the BTU task receives, the security manager answers, congestion
ends, timers expire, and an application reads what it got and lets the flow go
on after it has stopped it; nobody has to open, write or close.

## 4. Proofs

All theorems hold for every value of the constants that satisfies
`ConstantsAssumption` (HciLayer), `H5Assumption` (H5), `DeviceAssumption`
(L2capChannel), `ErtmAssumption` (L2capErtm) or `RfcommAssumption` (RfcommPort).

`HciLayerProofs`
- TypeCorrect: TypeOK. It needs HostState, that the host task dequeues only from a
  non-empty command queue: it is the only consumer, so what it saw stays true.
- OneCreditInvariant: OneCredit, with a controller of one command buffer (the
  usual value of Num_HCI_Command_Packets). There is one credit and it is in exactly
  one place: in `command_credits`, with the host task between its load and its write
  to the transport, in the transport, in the controller, in the last event on its way
  up, or withheld. While the host task is between load and store no event carries a
  credit, so the receive thread stores nothing over it. With more buffers
  the counter is overwritten with absolute values and the argument fails (section 5).
- TimerInvariant: TimerGuardsPending for any controller.
- PacketOwnership: PacketSingleOwner. PacketInv says that what the host task queues or
  fragments is the HCI layer's, in one place, and has a fragment left to send.
- ResponsesFindCommands, CommandsReleasedOnce: ResponseFindsCommand and
  CommandReleasedOnce. The inductive invariant CommandInv puts the event being
  matched, the events on their way up, the controller, the transport and the host
  task about to send on one line of places, `At(k, c)`. A command waits in
  `commands_pending_response` exactly while it is at one place of that line, and
  commands of one opcode are there in the order of the list. So the first
  command of an opcode in the list is the one whose answer comes first, which is
  what `get_waiting_command` takes for granted. LifeInv follows one command:
  queued, held by the host task, waiting, answered, freed, never two of them; when it
  is freed it may still be on its way to the controller (HCI_HOST_NUM_PACKETS_DONE). The
  lemmas OrderRxEvent .. OrderRxMatch move the line by one action each.

`SequenceLemmas`
- What Append, Tail, Cons, Remove and concatenation do to the elements of a
  sequence and to its freedom from repetitions (AppendSet .. ConcatInjective), and
  AfterRounds, the induction on the rounds of a loop.

`H5Proofs`
- PacketsConserved: PacketInOnePlace for every schedule, preemption included,
  with the steps of `h5_remove_acked_pkt` and of the retransfer interleaved. It
  speaks of the states before RacedFree can happen: the race itself is described
  in section 5, and after it a packet is both freed and in hand. The inductive
  invariant adds Holder: the mutex is held by exactly the thread inside `h5_dequeue` or
  `h5_remove_acked_pkt`, that thread is at "tail" exactly when a packet is between
  `rel` and `unack`, and `data_retransfer_thread` is at "put" exactly when it has one
  in hand; and that a loop about to unlink has a packet to unlink. A second
  thread at "tail" would overwrite the first one's packet, hence the need for it.
  Most actions move no packet (MovesNothing, MovesNobody); the others
  each have a lemma.
- MutexHolds: mutual exclusion in `h5_dequeue` and `h5_remove_acked_pkt`, from the
  same invariant.
- TypeCorrect: TypeOK. It is inductive only together with OnePlaceInv: that the
  packet `h5_prepare_pkt` writes is one, is known because the thread at "tail" holds it.
- ConfRequestWatched: ConfKeepsTrying for every schedule and loss. ConfWatched says
  that in H5_INITIALIZED the alarm runs, or its handler has been called, or the
  receive task is about to set it, or the host has given up; Pending says that a
  continuation is pending only inside `h5_wake_up`.

`H5EventProofs`
- EventsArriveInOrder: EventsInOrder with preemption, losses and a controller that
  restarts. The inductive invariant has a witness m, the last event the host
  accepted (AcceptedUpTo): what was passed up is in order and, unless the
  controller restarted, complete up to m; the events on the line rise, and an
  old copy of m never carries the number the host expects.
  Hypothesis OneBaudAnswer: at most one event answers a change of baud rate. The
  vendor code asks once, during start-up (`hardware.c:565`). Without it the
  invariant is false, see section 5.

`L2capChannelProofs`
- TypeCorrect, PoolConserved, OwnersInformed: TypeOK, PoolIntact and OwnerInformed
  for pools of any size on either device, any number of calls, retries and losses
  of the link, and any refusals. One inductive invariant, ChannelInv
  (ChannelInvariant), carries the three. Its parts, for each device: Device, the
  types of its record; Pool, free list and link's list without repetitions and each
  with just the blocks its mark names; Owned, what a channel's owner knows fits the
  state the channel is in; Away, a host whose link is not up has no accepted
  connection, and a channel waits for the end of a link only while the link ends;
  and between the devices LinkInv, how what a host believes of the link lags behind
  what the controllers have. Away and LinkInv are needed since a channel between
  security check and indication has no owner: if it survived the link, the next
  link would move it into a state that must have one. TLC checked ChannelInv on the
  instances of l2cap_cross and l2cap_link, and once with two control blocks on each
  device (1.6 M states).
- The argument follows the code: an operator from record to record is Quiet (it
  changes nothing the invariant speaks of), Moves (it touches only channel c, and the
  pool if it releases c) or Settles (Moves, and c's owner knows). The lemmas say which
  of `l2cu_*`, `btm_sec_*` and the handlers is which, and compose (SettlesTwice);
  one lemma per action, `RecvConnReqKeeps` .. `LinkBreaksKeeps`, puts them together.
- The loops over a link's channels (Each) release the blocks they walk over.
  RoundsExist shows that the rounds of a loop are well defined, and LoopKeeps, by
  induction on them, that a loop whose handler settles its channel keeps the
  invariant. The induction (AfterRounds) takes the least counterexample that WFMin
  gives, since the library's induction theorems take an operator as a parameter.

`L2capErtmProofs`
- TypesKept, WindowKept, SrejHasFrame: TypeOK, UnackedIsWindow and SrejHoldsFrame
  for every modulus, window, retransmission limit, segmentation, loss, timing and
  use of flow control.
- RetriesClose: OnlyRetriesClose. FifoImplemented: ReliableFifo, that is, the two
  ends implement SduService in both directions at once.
- One inductive invariant, IInv, carries the five. What one end knows of itself
  is Local: Typed, its record's types and that an SREJ that is out has a frame behind
  it; and, while the channel is open, Window. Window has three parts, Holds (the SDUs
  not yet sent are the last ones written), Unacked (the frames that wait for an
  acknowledgement have consecutive positions and fit the window) and Resends (what
  waits to be sent again is one of the last TxWin frames built).
- A *position* tells what a number modulo `Modulus` does not: all frames an end will
  ever send are the pieces of its SDUs in order, and Pos is a piece's place among
  them. What relates the ends is Joint. Gathers: what an end has delivered, and what
  it has of an unfinished SDU, are exactly the pieces before the one it expects, and
  the frames it holds follow behind the lost one. Arrives: every frame on its way is
  within a window of what the receiver expects, none is a window older than a frame
  behind it, and the acknowledgements on their way (AcksFit) are positions that
  never go back, between what the peer has heard and what was taken. Two windows
  fit in the modulus, so a number names one position: an old frame is recognised
  for what it is, and no handler takes the branch that disconnects for an invalid
  number.
- Most of a handler's operators either do nothing to the receiving half (Goes) or
  keep what one end is to the other (Moves), and these compose; Rests says that
  between two handlers frames are held only behind a lost one. The loops
  (`l2c_link_check_send_pkts` and ProcessHeld) are recursive functions on
  their rounds and use AfterRounds. There is one lemma per action (CompletedInv ..
  DataWriteInv), and InvNext puts them together. The refinement has ServiceStart for
  the initial states, and ServiceStep from ServiceWrite and ServiceProgress: every
  step is one of the service or a stutter.
- Hypothesis `MaxBusy = 0` of RetriesClose and FifoImplemented: the user never calls
  `L2CA_FlowControl`. Nothing in the repository does (it is declared at
  `l2c_api.h:740` and defined at `l2c_api.c:986`). With it the two properties are
  false of longer runs, see section 5; ertm_fifo, which allows one such call
  at each end, has too few frames for that.

`RfcommPortProofs`
- TypesKept: TypeOK, and so that no end ever grants more credits than
  `credit_rx_max`, whatever the two applications, the security managers, the timers
  and L2CAP do. TypeInv adds that an end knows its own side and that `cmd_q` holds
  something only while L2CAP is congested. For each handler a lemma (PutActs ..
  HangUpActs) says which port it alters, what the port becomes and which frames it
  sends (Alters); most send a few frames of one port, and these compose (AltersThen).
  The loops of `PORT_FlowInd` and of the transmit queue are recursive functions on
  their rounds, over AfterRounds (FlowIndRounds, SendTxRounds). One case per action
  in TypeStep puts them together.
- CreditsKept, OrderKept and DataMoves: CreditsConserved, InOrder and NoIdleData in
  every reachable state in which no port has been opened twice (OpenedOnce), for
  any number of ports, credits, buffers, lost answers, timeouts and congestions.
  Nothing is assumed of the behaviour: the ports of a multiplexer open, close, time
  out and are removed in any order, and a behaviour counts up to the first
  `RFCOMM_CreateConnection` for a port that had a connection. From there on the
  three are not true: section 5 has two ways in which the code opens a port over
  what is left of the connection before, and each breaks CreditsConserved. The
  argument goes through OnlyAtRest, an action property: a client opens a
  port only when the server's port has nothing of an earlier connection (Rested)
  and no frame of the port is under way. SafeStep keeps the inductive invariant
  through every step that is OnlyAtRest, also those that open a port again after an
  orderly close, and FirstAtRest shows that the first opening of a port always is:
  until a client opens it, a port is Unopened, a part of PortInv that says neither
  end has a control block or data for it and no frame of it is under way, and that
  each move keeps (Rests) whatever happens to the other ports of the multiplexer, to
  its timer and to L2CAP. The argument has three parts.
  - What an end keeps by itself: for each port Fit says which fields go
    together (Sound), that data waits only for a reason (Idle, which is
    NoIdleData) and that a multiplexer being released has no open port (Quits).
  - What two ends and the frames between them keep: ServerInv (at most one PN or SABME
    is under way, ahead of everything else, to a server at rest; until it is
    answered no data, credits or modem status is) and LinkInv, the stages of a connection
    that the client has or is about to have: Asks for PN, Checks with security, Calls
    for SABME, Talks. In the last stage FlowInv holds from the moment the server is open,
    with UA still to come: it is CreditsConserved and InOrder of both directions.
    ClientStep and ServerStep show that PairInv survives what one port may
    do, written without the handlers (ClientMove, ServerMove); ClientDrops, that it
    survives a client that leaves with the commands still in its `cmd_q`.
  - That each handler does for each port one of these moves (PortStep), for the port it
    is called for and all others: FrameStep for the frames of a port,
    MxFrameStep for those of the multiplexer, and one lemma per call, answer and timer.
    The data path is one chain, from FlowSend, FlowDirect, FlowRead, FlowReceive
    and FlowFull on the arithmetic of one buffer or grant, over the loop that empties
    a transmit queue (SendNextSends, SendTxSends), to `PORT_FlowInd` (FlowIndEmpties).
  SafeStep puts the three together, one case per action.
- FirstConnection: with `MaxOpens <= 1`, and any number of ports, OpenedOnce is always
  true, so that OnlyAtRest and the three invariants hold of Spec. rfcomm_port has
  `MaxOpens = 2`, one opening more than the theorems cover.

With these, every safety invariant that a passing run checks is a theorem, but for
those listed next; two of HciLayer and L2capErtm and three of RfcommPort under the
condition given with them.

Only model-checked:
- the liveness properties, which are outside the prover's reach;
- NoLostWakeup of L2capChannel. It is not true of every instance: with two channels on
  a device the loop of the finding `l2cap_loop_skip` leaves one in CST_CLOSED without
  a timer. l2cap_link has one channel per device, where it holds, and a theorem
  would have to assume that;
- OpenIsPartnered of L2capChannel. It relates the two devices through every command
  under way, so its inductive invariant has to say which commands can still be
  on the channel for each pair of states and each use of a CID, and would have to
  bound the requests: identifiers come round after 255 (`l2c_utils.c`), and an
  answer that old passes for a new one;
- InOrderDelivery and AckedWereDelivered of H5. They are true of handlers that run to
  completion, which the code does not ensure, so there is no theorem about the
  program to prove; TLC shows that go-back-N, with numbers that wrap and alarms that
  race late acknowledgements, is right where the locking plays no part;
- CreditsConserved, InOrder and NoIdleData of RfcommPort after a port has been
  opened again. rfcomm_port has such behaviours (a client that is removed
  while its PN is under way and calls again) and the properties hold there, with one
  port and no SABME timeout; they are not true of every instance (section 5).

## 5. What the models show beyond the runs

Behaviours found while modelling for which no run is kept. Each can be seen
again by adding the formula to the module and the instance named.

- A command can stay in `command_queue`. The comment at `hci_layer.c:246` says "And
  command queue has high priority", but the host task turns one signal into one action
  and spends it on the packet being fragmented first (line 259), and
  `fragment_and_dispatch` posts nothing for the fragment after that. With one command
  and one packet of two fragments the command's only signal goes to the second
  fragment; no command is pending, so no event posts another. In the same way the one
  signal that an answer posts (line 515) can go to HCI_HOST_NUM_PACKETS_DONE, which
  has no answer, and the command behind it waits. HciLayer with weak fairness of the
  tasks, the callers and the controller: `c \in issued ~> freed[c] = 1` is violated in
  either instance; with two commands, a packet of one fragment and no
  HCI_HOST_NUM_PACKETS_DONE it holds, with a signal queue of one as well.
- A data packet can stay in `packet_queue`. The host task prefers a queued command
  (`hci_layer.c:264`). When an event returns a credit, a packet's signal can be spent
  on a command whose own signal was spent while there was no credit;
  `filter_incoming_event` then finds nothing to post for. Same fairness, two commands,
  one packet, one controller buffer: `owner[p] = "hci" ~> owner[p] # "hci"` is violated.
- The count of command credits can be wrong with a controller of two or more command
  buffers. `command_credits--` (`hci_layer.c:357`) takes no lock and the receive
  thread stores the count of an answer (lines 477 and 493), which was true when the
  controller sent it: a command sent in between is not counted, and one more is sent
  than the controller has room for. HciLayer with four commands of one opcode, `QueueLen = 2` and
  `CtlSlots = 2`: `Len(ctl) <= CtlSlots` is violated, after some seconds of
  `tlc -simulate -depth 120`.
- `command_timed_out` reads the opcode of the first pending command after the unlock
  (`hci_layer.c:445`), when the receive thread may have matched and freed it. The model
  has the two steps; the value is only logged.
- `data_retransfer_thread` takes packets out of `unack` and turns `msgq_txseq` back
  without `h5_wakeup_mutex` (`hci_h5.c:1668`). A sender that runs while it has a packet
  of a full window in hand finds `unack` one short and sends another, under the number
  of the one in hand, although the comment at line 961 says "We can only send a
  reliable packet if the number of packets sent but not yet ack'ed is < than the
  winsize". H5 as in h5_threads with three packets:
  `Cardinality(sent \ released) <= window` is violated.
- `h5_remove_acked_pkt` unlinks and frees under `h5_wakeup_mutex` packets that
  `data_retransfer_thread` may take off the same queue at the same time;
  `bt_skbuff.c:412` says of `RtbRemoveNode` "It don't hold spinlock itself, so caller
  must hold it at someplace". H5 as in h5_threads:
  `released \cap ({hand} \cup ToSet(rel)) = {}` is violated by RacedFree.
- `h5_sync_retrans_timeout_handler` (`hci_h5.c:2235`), unlike the handler of the
  configuration request, does not set its one-shot alarm again: after two lost
  packets the host waits in H5_UNINITIALIZED for ever, although line 67 says
  "20*250 = 5000ms(5s)" of `SYNC_RETRANS_COUNT`. H5 with FairSpec, `PromptPeer`, no
  packets, `SyncRetrans = 3` and `MaxLoss = 2`: `started ~> (link = "active")` is
  violated; with `MaxLoss = 1` it holds.
- A second answer to a change of baud rate that arrives between the expiry of the
  baud alarm and its handler overwrites `internal_skb` and sets the alarm again;
  the handler passes up the second event and, when it runs again, a NULL; the
  first is lost (`hci_h5.c:1227`, 1292, 2290). H5 with `Baud = {1, 2}`: EventsInOrder is violated.
  The vendor code asks only once.
- `h5_complete_rx_pkt` wakes the sender before it removes acknowledged packets, and
  only for reliable packets (`hci_h5.c:1400`): a packet that met a full window
  waits for unrelated traffic after the window has opened.
- An ERTM timer that has expired stays marked `in_use` (`btu_task.c:524`), and
  `l2c_fcr_start_timer` (`l2c_fcr.c:182`) does not start it again, although the
  comment at `l2c_fcr.c:950` says "If anything still waiting for ack, restart the timer
  if it was stopped". `l2c_fcr_proc_tout` sends nothing while an SREJ is out, so an
  end whose timer expires then never sends its own lost frame again, and the channel
  neither delivers nor closes. L2capErtm with `SdusA = SdusB = 2`, `Long = {}`,
  `MaxTransmit = 2`, `MaxLoss = 2` and the other constants of ertm_fifo: TLC reaches a
  state with nothing under way, no timer ticking, no work and an SDU undelivered.
- With `L2CA_FlowControl`, `srej_rcv_hold_q` can keep a frame too long. While
  the user takes no data `l2c_fcr_proc_pdu` leaves the held frames where they are
  (`l2c_fcr.c:744`), but `process_i_frame` goes on accepting what comes in sequence,
  the answer to the SREJ and the frames behind it included, and acknowledges it. The
  peer goes on, its numbers come round, and when the user takes data again the held
  frame passes for a new one: its SAR bits do not fit and the channel is closed.
  OnlyRetriesClose is violated with four numbers, window two, `Quota = 4`, nine and
  five SDUs (the 1st, 2nd, 5th and 6th long, of two frames), `MaxTransmit = 0`,
  `MaxBusy = 2`, `MaxLoss = 2` and `LinkRoom = 2`, after some seconds of
  `tlc -simulate -depth 120`.
- A server whose client gave up (SABME timeout) while the server's user was still
  deciding is opened again with the credits and `port_ctrl` of the first attempt.
  CreditsConserved and NoOrphans of RfcommPort are violated with
  `MaxTimeouts = 1`.
- A client can open a port again while the server still has the last connection's
  data to read: after DISC the port is RFCOMM_STATE_CLOSED but stays bound, and keeps
  its buffers, credits and `port_ctrl` until its timer expires or its user closes it
  (`rfc_port_fsm.c:419`). The new connection then starts with the old `rx` queue and
  without waiting for the modem status. With one port the multiplexer is released in
  between; with a second port that keeps it up (`Ports` and `ClientsOfA` {1, 2},
  `MaxOpens = 2`, `WritesB = 2`, `MaxHolds = 0`) CreditsConserved, InOrder and
  NoIdleData are violated.
- A server that writes between the peer's MSC and the confirmation of its own
  overtakes what `port_write` queued before; InOrder exempts these buffers.

## 6. Plan

1. Proofs, with the rounds and the induction of L2capChannelProofs: OpenIsPartnered
   of L2capChannel from an invariant on the commands under way.
2. `FixedQueue` (`osi/fixed_queue.c`), two semaphores and a mutex, shown to refine
   a bounded FIFO; `Reassembly` (`packet_fragmenter.c:131`), composed with the
   bounded BTU queue.
3. The RFCOMM multiplexer's own establishment, composed with RfcommPort;
   `L2capLink` (quotas, round robin, the partially sent segment), composed with
   HciLayer's packet path.
4. `Gatt` (client and server queues), `Smp` (pairing), `Avdt` (stream control
   block), then BTM, BTA and BTC.

## 7. Not modelled

HCI: start-up and shut-down (`hci_start_up`, `hci_shut_down`), the byte formats of
H4, H5 and HCI, the vendor firmware download. L2CAP: the LE credit-based,
connectionless and fixed channels, echo, the option encodings and the
negotiation of the mode, streaming mode, link quotas and the congestion
callback, registration and deregistration, writes from within a data callback,
a timer message that outlives its control block. RFCOMM: the establishment and
restart of the multiplexer, TS 07.10 flow control, RPN, RLS, TEST, FCON and
FCOFF, the data callbacks, `PORT_Purge`, the limits of the transmit queue, and
`PORT_FlowControl_MaxCredit`, which nobody calls. The codec, and every component
`PROJECT.json` marks `not_modelled`, with the reason there. Most of the
repository's lines are message layouts, tables and per-profile adapters above
the modelled layers; the state machines among them are in the plan.
