------------------------------ MODULE HciLayer ------------------------------
(***************************************************************************)
(* The transmit side of the HCI layer (hci/hci_layer.c) and the            *)
(* fragmentation half of hci/packet_fragmenter.c.                          *)
(*                                                                         *)
(* Four kinds of actors interleave:                                        *)
(*   - callers (BTU and other tasks) queue commands and packets and post   *)
(*     SIG_HCI_HOST_SEND_AVAILABLE;                                        *)
(*   - the host task (hci_host_thread_handler) turns one signal into one   *)
(*     fragment, command or packet;                                        *)
(*   - the receive thread runs filter_incoming_event for every HCI event;  *)
(*   - the timer service fires the command response alarm.                 *)
(* The controller and the transport are external: a FIFO each way, a       *)
(* controller with CtlSlots command buffers that answers in any legal way. *)
(*                                                                         *)
(* command_credits is an unprotected int: its decrement is a load and a    *)
(* store, and every access that another task can separate is a step of its *)
(* own.  What the buffers contain is abstracted away; who owns them is not.*)
(***************************************************************************)
EXTENDS Integers, Sequences, SequencesExt

CONSTANTS
  Cmds,          \* command buffers (waiting_command_t)
  Pkts,          \* data packets (BT_HDR) queued with transmit_downward
  Kind,          \* [Cmds -> CmdKinds]: which callbacks the entry carries
  Opcode,        \* the opcode of each command
  Frags,         \* [Pkts -> Nat \ {0}]: ACL fragments the packet needs
  SegLimits,     \* values L2CAP gives layer_specific (0: no limit)
  QueueLen,      \* HCI_HOST_QUEUE_LEN, the signal queue
  QueueSizeMax,  \* QUEUE_SIZE_MAX, command_queue and packet_queue
  CtlSlots,      \* command buffers of the controller
  None

(***************************************************************************)
(* "btu": complete and status callbacks; "vendor": complete callback only; *)
(* "future": transmit_command_futured; "legacy": a command given to        *)
(* transmit_downward, no callback; "npd": HCI_HOST_NUM_PACKETS_DONE.       *)
(***************************************************************************)
CmdKinds == {"btu", "vendor", "future", "legacy", "npd"}

ASSUME ConstantsAssumption ==
  /\ Cmds \cap Pkts = {}
  /\ None \notin Cmds \cup Pkts
  /\ Kind \in [Cmds -> CmdKinds]
  /\ DOMAIN Opcode = Cmds
  /\ Frags \in [Pkts -> Nat \ {0}]
  /\ SegLimits \subseteq Nat
  /\ QueueLen \in Nat \ {0}
  /\ QueueSizeMax \in Nat \ {0}
  /\ CtlSlots \in 1..255

VARIABLES
  credits,   \* hci_host_env.command_credits
  cmdQ,      \* hci_host_env.command_queue
  pktQ,      \* hci_host_env.packet_queue
  pending,   \* cmd_waiting_q.commands_pending_response
  timerSet,  \* cmd_waiting_q.timer_is_set
  alarm,     \* command_response_timer: "off", "armed" or "fired"
  timPc,     \* where the timer service is in command_timed_out
  timCmd,    \* its wait_entry
  signals,   \* messages in hcihost_queue
  posting,   \* posts a caller still owes after its enqueue
  cur,       \* packet_fragmenter.c: current_fragment_packet
  left,      \* fragments of each packet not yet handed to the HAL
  seg,       \* layer_specific of each packet
  owner,     \* who owns each packet: "l2cap", "hci", "returned", "freed"
  hostPc,    \* where the host task is
  hostCmd,   \* its wait_entry
  hostTmp,   \* the loaded half of command_credits--
  rxPc,      \* where the receive thread is
  rxEvt,     \* the event it handles
  rxCmd,     \* its wait_entry
  issued,    \* commands given to transmit_command*
  notified,  \* callbacks run or futures readied, per command
  freed,     \* releases of the command buffer, per command
  toCtl,     \* external: commands in the transport
  ctl,       \* external: commands the controller works on, in order
  adv,       \* external: command slots the controller last advertised
  evtQ       \* external: events in the transport

qVars    == <<cmdQ, pktQ>>
wakeVars == <<timPc, timCmd>>
timVars  == <<pending, timerSet, alarm, wakeVars>>
fragVars == <<cur, left, seg, owner>>
hostVars == <<hostPc, hostCmd, hostTmp>>
rxVars   == <<rxPc, rxEvt, rxCmd>>
bookVars == <<issued, notified, freed>>
ctlVars  == <<toCtl, ctl, adv, evtQ>>
vars == <<credits, qVars, timVars, signals, posting, fragVars,
          hostVars, rxVars, bookVars, ctlVars>>

-----------------------------------------------------------------------------
Events == [type : {"complete", "status"}, n : 0..CtlSlots,
           cmd : Cmds \cup {None}]
NoEvent == [type |-> "complete", n |-> 0, cmd |-> None]

HostPcs == {"recv", "select", "dequeue", "packet", "load", "store",
            "append", "send", "timer"}
RxPcs   == {"idle", "match", "timer", "test", "post", "free"}
TimPcs  == {"idle", "lock", "log"}

(* hci_layer_init_env: one command may be sent before the first event. *)
Init ==
  /\ credits = 1
  /\ cmdQ = <<>> /\ pktQ = <<>>
  /\ pending = <<>> /\ timerSet = FALSE /\ alarm = "off"
  /\ timPc = "idle" /\ timCmd = None
  /\ signals = 0
  /\ posting = [x \in Cmds \cup Pkts |-> 0]
  /\ cur = None
  /\ left = Frags
  /\ seg = [p \in Pkts |-> 0]
  /\ owner = [p \in Pkts |-> "l2cap"]
  /\ hostPc = "recv" /\ hostCmd = None /\ hostTmp = 0
  /\ rxPc = "idle" /\ rxEvt = NoEvent /\ rxCmd = None
  /\ issued = {}
  /\ notified = [c \in Cmds |-> 0]
  /\ freed = [c \in Cmds |-> 0]
  /\ toCtl = <<>> /\ ctl = <<>> /\ adv = 1 /\ evtQ = <<>>

-----------------------------------------------------------------------------
(* Callers *)

(* Mutant: the limit of the signal queue is forgotten. *)
PostSignalUnbounded == signals' = signals + 1

(* hci_host_task_post: a full queue loses the signal, no caller looks. *)
PostSignal == signals' = IF signals < QueueLen THEN signals + 1 ELSE signals

(* transmit_command, transmit_command_futured and, for a "legacy" command, *)
(* transmit_downward, which posts a second time after transmit_command.    *)
TransmitCommand(c) ==
  /\ c \notin issued
  /\ Len(cmdQ) < QueueSizeMax
  /\ issued' = issued \cup {c}
  /\ cmdQ' = Append(cmdQ, c)
  /\ posting' = [posting EXCEPT ![c] = IF Kind[c] = "legacy" THEN 2 ELSE 1]
  /\ UNCHANGED <<credits, pktQ, timVars, signals, fragVars, hostVars, rxVars,
                 notified, freed, ctlVars>>

(* transmit_downward for data: a packet L2CAP owns, new or handed back to  *)
(* it with fragments still to send.                                        *)
TransmitPacket(p, s) ==
  /\ owner[p] \in {"l2cap", "returned"}
  /\ posting[p] = 0
  /\ Len(pktQ) < QueueSizeMax
  /\ pktQ' = Append(pktQ, p)
  /\ seg' = [seg EXCEPT ![p] = s]
  /\ owner' = [owner EXCEPT ![p] = "hci"]
  /\ posting' = [posting EXCEPT ![p] = 1]
  /\ UNCHANGED <<credits, cmdQ, timVars, signals, cur, left, hostVars, rxVars,
                 bookVars, ctlVars>>

Post(x) ==
  /\ posting[x] > 0
  /\ posting' = [posting EXCEPT ![x] = @ - 1]
  /\ PostSignal
  /\ UNCHANGED <<credits, qVars, timVars, fragVars, hostVars, rxVars,
                 bookVars, ctlVars>>

-----------------------------------------------------------------------------
(* Mutant: timer_is_set is not reset when nothing is pending any more. *)
RestartTimerSticky ==
  /\ timerSet' = (timerSet \/ pending # <<>>)
  /\ alarm' = IF pending # <<>> THEN "armed"
              ELSE IF timerSet THEN "off" ELSE alarm

(* restart_command_waiting_response_timer, atomic under its mutex. *)
RestartTimer ==
  /\ timerSet' = (pending # <<>>)
  /\ alarm' = IF pending # <<>> THEN "armed"
              ELSE IF timerSet THEN "off" ELSE alarm

(* Mutant: current_fragment_packet is not reset before the packet is       *)
(* handed back.                                                            *)
FragmentAndDispatchKeepCurrent(p) ==
  /\ left' = [left EXCEPT ![p] = @ - 1]
  /\ \/ /\ left[p] > 1 /\ seg[p] # 1
        /\ cur' = p
        /\ seg' = [seg EXCEPT ![p] = IF @ = 0 THEN 0 ELSE @ - 1]
        /\ owner' = owner
     \/ /\ left[p] > 1 /\ seg[p] = 1
        /\ cur' = p
        /\ seg' = [seg EXCEPT ![p] = 0]
        /\ owner' = [owner EXCEPT ![p] = "returned"]
     \/ /\ left[p] = 1
        /\ cur' = None
        /\ seg' = seg
        /\ owner' = [owner EXCEPT ![p] = "freed"]

(***************************************************************************)
(* fragment_and_dispatch for a data packet, with its callbacks             *)
(* transmit_fragment (frees the packet with its last fragment) and         *)
(* fragmenter_transmit_finished (hands a packet whose segment limit is     *)
(* reached back to BTU; dispatch_reassembled frees it if BTU's queue is    *)
(* full).                                                                  *)
(***************************************************************************)
FragmentAndDispatch(p) ==
  /\ left' = [left EXCEPT ![p] = @ - 1]
  /\ \/ /\ left[p] > 1 /\ seg[p] # 1
        /\ cur' = p
        /\ seg' = [seg EXCEPT ![p] = IF @ = 0 THEN 0 ELSE @ - 1]
        /\ owner' = owner
     \/ /\ left[p] > 1 /\ seg[p] = 1
        /\ cur' = None
        /\ seg' = [seg EXCEPT ![p] = 0]
        /\ \E o \in {"returned", "freed"} : owner' = [owner EXCEPT ![p] = o]
     \/ /\ left[p] = 1
        /\ cur' = None
        /\ seg' = seg
        /\ owner' = [owner EXCEPT ![p] = "freed"]

(* Host task: hci_host_thread_handler *)

HostReceive ==
  /\ hostPc = "recv" /\ signals > 0
  /\ signals' = signals - 1
  /\ hostPc' = "select"
  /\ UNCHANGED <<credits, qVars, timVars, posting, fragVars, hostCmd, hostTmp,
                 rxVars, bookVars, ctlVars>>

(* A packet being fragmented goes first and takes the signal. *)
HostContinue ==
  /\ hostPc = "select" /\ cur # None
  /\ FragmentAndDispatch(cur)
  /\ hostPc' = "recv"
  /\ UNCHANGED <<credits, qVars, timVars, signals, posting, hostCmd, hostTmp,
                 rxVars, bookVars, ctlVars>>

(* Mutant: the credit test is dropped. *)
HostSelectNoCredits ==
  /\ hostPc = "select" /\ cur = None
  /\ hostPc' = IF cmdQ # <<>> THEN "dequeue" ELSE "packet"
  /\ UNCHANGED <<credits, qVars, timVars, signals, posting, fragVars, hostCmd,
                 hostTmp, rxVars, bookVars, ctlVars>>

(* Only this task removes from command_queue, so the emptiness test and    *)
(* the credit test are one step at the time the credits are read.          *)
HostSelect ==
  /\ hostPc = "select" /\ cur = None
  /\ hostPc' = IF cmdQ # <<>> /\ credits > 0 THEN "dequeue" ELSE "packet"
  /\ UNCHANGED <<credits, qVars, timVars, signals, posting, fragVars, hostCmd,
                 hostTmp, rxVars, bookVars, ctlVars>>

(* event_packet_ready, or nothing to do for this signal. *)
HostPacket ==
  /\ hostPc = "packet"
  /\ hostPc' = "recv"
  /\ \/ /\ pktQ = <<>>
        /\ UNCHANGED <<pktQ, fragVars>>
     \/ /\ pktQ # <<>>
        /\ FragmentAndDispatch(Head(pktQ))
        /\ pktQ' = Tail(pktQ)
  /\ UNCHANGED <<credits, cmdQ, timVars, signals, posting, hostCmd, hostTmp,
                 rxVars, bookVars, ctlVars>>

(* event_command_ready.  HCI_HOST_NUM_PACKETS_DONE is sent without taking  *)
(* a credit or waiting for a response.                                     *)
HostDequeue ==
  /\ hostPc = "dequeue"
  /\ cmdQ' = Tail(cmdQ)
  /\ IF Kind[Head(cmdQ)] = "npd"
     THEN /\ hostPc' = "recv"
          /\ toCtl' = Append(toCtl, Head(cmdQ))
          /\ freed' = [freed EXCEPT ![Head(cmdQ)] = @ + 1]
          /\ hostCmd' = hostCmd
     ELSE /\ hostPc' = "load"
          /\ hostCmd' = Head(cmdQ)
          /\ UNCHANGED <<toCtl, freed>>
  /\ UNCHANGED <<credits, pktQ, timVars, signals, posting, fragVars, hostTmp,
                 rxVars, issued, notified, ctl, adv, evtQ>>

(* command_credits-- is a load and a store. *)
HostLoad ==
  /\ hostPc = "load"
  /\ hostTmp' = credits
  /\ hostPc' = "store"
  /\ UNCHANGED <<credits, qVars, timVars, signals, posting, fragVars, hostCmd,
                 rxVars, bookVars, ctlVars>>

HostStore ==
  /\ hostPc = "store"
  /\ credits' = hostTmp - 1
  /\ hostPc' = "append"
  /\ UNCHANGED <<qVars, timVars, signals, posting, fragVars, hostCmd, hostTmp,
                 rxVars, bookVars, ctlVars>>

(* Mutant: the entry is put in front of the list. *)
HostAppendFront ==
  /\ hostPc = "append"
  /\ pending' = <<hostCmd>> \o pending
  /\ hostPc' = "send"
  /\ UNCHANGED <<credits, qVars, timerSet, alarm, wakeVars, signals, posting,
                 fragVars, hostCmd, hostTmp, rxVars, bookVars, ctlVars>>

HostAppend ==
  /\ hostPc = "append"
  /\ pending' = Append(pending, hostCmd)
  /\ hostPc' = "send"
  /\ UNCHANGED <<credits, qVars, timerSet, alarm, wakeVars, signals, posting,
                 fragVars, hostCmd, hostTmp, rxVars, bookVars, ctlVars>>

HostSend ==
  /\ hostPc = "send"
  /\ toCtl' = Append(toCtl, hostCmd)
  /\ hostPc' = "timer"
  /\ UNCHANGED <<credits, qVars, timVars, signals, posting, fragVars, hostCmd,
                 hostTmp, rxVars, bookVars, ctl, adv, evtQ>>

HostTimer ==
  /\ hostPc = "timer"
  /\ RestartTimer
  /\ hostPc' = "recv" /\ hostCmd' = None
  /\ UNCHANGED <<credits, qVars, pending, wakeVars, signals, posting,
                 fragVars, hostTmp, rxVars, bookVars, ctlVars>>

HostTask == HostReceive \/ HostContinue \/ HostSelect \/ HostPacket
            \/ HostDequeue \/ HostLoad \/ HostStore \/ HostAppend
            \/ HostSend \/ HostTimer

-----------------------------------------------------------------------------
(* Receive thread: hal_says_packet_ready, filter_incoming_event *)

(* The event's Num_HCI_Command_Packets overwrites command_credits. *)
RxEvent ==
  /\ rxPc = "idle" /\ evtQ # <<>>
  /\ rxEvt' = Head(evtQ)
  /\ evtQ' = Tail(evtQ)
  /\ credits' = Head(evtQ).n
  /\ rxPc' = "match"
  /\ UNCHANGED <<qVars, timVars, signals, posting, fragVars, hostVars, rxCmd,
                 bookVars, toCtl, ctl, adv>>

(* The positions in the pending list whose opcode is that of command c. *)
Matches(c) == {i \in 1..Len(pending) : Opcode[pending[i]] = Opcode[c]}

(* A callback or a future exists for this kind of event. *)
Notifies(c, type) ==
  \/ type = "complete" /\ Kind[c] \in {"btu", "vendor", "future"}
  \/ type = "status" /\ Kind[c] = "btu"

(* Mutant: the entry found is not removed from the list. *)
RxMatchKeep ==
  /\ rxPc = "match"
  /\ rxPc' = "timer"
  /\ \/ /\ \/ rxEvt.cmd = None
           \/ rxEvt.cmd # None /\ Matches(rxEvt.cmd) = {}
        /\ rxCmd' = None
        /\ UNCHANGED notified
     \/ /\ rxEvt.cmd # None
        /\ \E i \in Matches(rxEvt.cmd) :
             /\ \A j \in Matches(rxEvt.cmd) : i <= j
             /\ rxCmd' = pending[i]
             /\ notified' = IF Notifies(pending[i], rxEvt.type)
                            THEN [notified EXCEPT ![pending[i]] = @ + 1]
                            ELSE notified
  /\ UNCHANGED <<credits, qVars, timVars, signals, posting, fragVars,
                 hostVars, rxEvt, issued, freed, ctlVars>>

(* get_waiting_command, then the callback or future_ready. *)
RxMatch ==
  /\ rxPc = "match"
  /\ rxPc' = "timer"
  /\ \/ /\ \/ rxEvt.cmd = None
           \/ rxEvt.cmd # None /\ Matches(rxEvt.cmd) = {}
        /\ rxCmd' = None
        /\ UNCHANGED <<pending, notified>>
     \/ /\ rxEvt.cmd # None
        /\ \E i \in Matches(rxEvt.cmd) :
             /\ \A j \in Matches(rxEvt.cmd) : i <= j
             /\ rxCmd' = pending[i]
             /\ pending' = RemoveAt(pending, i)
             /\ notified' = IF Notifies(pending[i], rxEvt.type)
                            THEN [notified EXCEPT ![pending[i]] = @ + 1]
                            ELSE notified
  /\ UNCHANGED <<credits, qVars, timerSet, alarm, wakeVars, signals, posting,
                 fragVars, hostVars, rxEvt, issued, freed, ctlVars>>

RxTimer ==
  /\ rxPc = "timer"
  /\ RestartTimer
  /\ rxPc' = "test"
  /\ UNCHANGED <<credits, qVars, pending, wakeVars, signals, posting,
                 fragVars, hostVars, rxEvt, rxCmd, bookVars, ctlVars>>

(* "if (command_credits && ...": credits are read before the queue. *)
RxTest ==
  /\ rxPc = "test"
  /\ rxPc' = IF credits # 0 THEN "post" ELSE "free"
  /\ UNCHANGED <<credits, qVars, timVars, signals, posting, fragVars, hostVars,
                 rxEvt, rxCmd, bookVars, ctlVars>>

RxPost ==
  /\ rxPc = "post"
  /\ \/ cmdQ # <<>> /\ PostSignal
     \/ cmdQ = <<>> /\ signals' = signals
  /\ rxPc' = "free"
  /\ UNCHANGED <<credits, qVars, timVars, posting, fragVars, hostVars, rxEvt,
                 rxCmd, bookVars, ctlVars>>

(* The command buffer is freed here, or by the status callback (on the BTU *)
(* task) that was given it.                                                *)
RxFree ==
  /\ rxPc = "free"
  /\ freed' = IF rxCmd = None THEN freed
              ELSE [freed EXCEPT ![rxCmd] = @ + 1]
  /\ rxPc' = "idle" /\ rxEvt' = NoEvent /\ rxCmd' = None
  /\ UNCHANGED <<credits, qVars, timVars, signals, posting, fragVars, hostVars,
                 issued, notified, ctlVars>>

RxThread == RxEvent \/ RxMatch \/ RxTimer \/ RxTest \/ RxPost \/ RxFree

(***************************************************************************)
(* The timer service.  The alarm is one-shot; command_timed_out reads the  *)
(* front of the pending list under the lock and, after releasing it, logs  *)
(* the opcode of that entry, which the receive thread may have released.   *)
(***************************************************************************)
AlarmExpires ==
  /\ alarm = "armed" /\ timPc = "idle"
  /\ alarm' = "fired"
  /\ timPc' = "lock"
  /\ UNCHANGED <<credits, qVars, pending, timerSet, timCmd, signals, posting,
                 fragVars, hostVars, rxVars, bookVars, ctlVars>>

TimedOutRead ==
  /\ timPc = "lock"
  /\ timCmd' = IF pending = <<>> THEN None ELSE Head(pending)
  /\ timPc' = "log"
  /\ UNCHANGED <<credits, qVars, pending, timerSet, alarm, signals, posting,
                 fragVars, hostVars, rxVars, bookVars, ctlVars>>

TimedOutLog ==
  /\ timPc = "log"
  /\ timCmd' = None
  /\ timPc' = "idle"
  /\ UNCHANGED <<credits, qVars, pending, timerSet, alarm, signals, posting,
                 fragVars, hostVars, rxVars, bookVars, ctlVars>>

CommandTimedOut == AlarmExpires \/ TimedOutRead \/ TimedOutLog

-----------------------------------------------------------------------------
(* External: transport and controller *)

(* HCI_HOST_NUM_PACKETS_DONE takes no command buffer and has no answer. *)
CtlReceive ==
  /\ toCtl # <<>>
  /\ toCtl' = Tail(toCtl)
  /\ IF Kind[Head(toCtl)] = "npd"
     THEN UNCHANGED <<ctl, adv>>
     ELSE /\ ctl' = Append(ctl, Head(toCtl))
          /\ adv' = IF adv > 0 THEN adv - 1 ELSE 0
  /\ UNCHANGED <<credits, qVars, timVars, signals, posting, fragVars, hostVars,
                 rxVars, bookVars, evtQ>>

(* Answers any command, commands of one opcode in order, and advertises    *)
(* any number of its free buffers.                                         *)
CtlAnswer ==
  \E i \in 1..Len(ctl), type \in {"complete", "status"}, n \in 0..CtlSlots :
    /\ \A j \in 1..Len(ctl) : j < i => Opcode[ctl[j]] # Opcode[ctl[i]]
    /\ n + Len(ctl) - 1 <= CtlSlots
    /\ evtQ' = Append(evtQ, [type |-> type, n |-> n, cmd |-> ctl[i]])
    /\ ctl' = RemoveAt(ctl, i)
    /\ adv' = n
    /\ UNCHANGED <<credits, qVars, timVars, signals, posting, fragVars,
                   hostVars, rxVars, bookVars, toCtl>>

(* A Command Complete for opcode 0 gives credits back that were withheld. *)
CtlNop ==
  /\ adv = 0 /\ Len(ctl) < CtlSlots
  /\ \E n \in 1..CtlSlots :
       /\ n + Len(ctl) <= CtlSlots
       /\ adv' = n
       /\ evtQ' = Append(evtQ, [type |-> "complete", n |-> n, cmd |-> None])
  /\ UNCHANGED <<credits, qVars, timVars, signals, posting, fragVars, hostVars,
                 rxVars, bookVars, toCtl, ctl>>

Controller == CtlReceive \/ CtlAnswer \/ CtlNop

-----------------------------------------------------------------------------
Callers ==
  \/ \E c \in Cmds : TransmitCommand(c)
  \/ \E p \in Pkts, s \in SegLimits : TransmitPacket(p, s)
  \/ \E x \in Cmds \cup Pkts : Post(x)

Next == Callers \/ HostTask \/ RxThread \/ CommandTimedOut \/ Controller

Spec == Init /\ [][Next]_vars

-----------------------------------------------------------------------------
(* The variables keep their types. *)
TypeOK ==
  /\ credits \in Int
  /\ cmdQ \in Seq(Cmds) /\ pktQ \in Seq(Pkts)
  /\ pending \in Seq(Cmds) /\ timerSet \in BOOLEAN
  /\ alarm \in {"off", "armed", "fired"}
  /\ timPc \in TimPcs /\ timCmd \in Cmds \cup {None}
  /\ signals \in 0..QueueLen
  /\ posting \in [Cmds \cup Pkts -> 0..2]
  /\ cur \in Pkts \cup {None}
  /\ left \in [Pkts -> Int]
  /\ seg \in [Pkts -> Nat]
  /\ owner \in [Pkts -> {"l2cap", "hci", "returned", "freed"}]
  /\ hostPc \in HostPcs /\ hostCmd \in Cmds \cup {None} /\ hostTmp \in Int
  /\ rxPc \in RxPcs /\ rxEvt \in Events /\ rxCmd \in Cmds \cup {None}
  /\ issued \subseteq Cmds
  /\ notified \in [Cmds -> Nat] /\ freed \in [Cmds -> Nat]
  /\ toCtl \in Seq(Cmds) /\ ctl \in Seq(Cmds)
  /\ adv \in 0..CtlSlots /\ evtQ \in Seq(Events)

(* What the host task's program counter implies. *)
HostState ==
  /\ hostPc = "dequeue" => cmdQ # <<>>
  /\ hostPc \in {"load", "store", "append", "send", "timer"} =>
       hostCmd \in Cmds /\ Kind[hostCmd] # "npd"

NoCommandIn(s) == \A i \in 1..Len(s) : Kind[s[i]] = "npd"
OneCommandIn(s) ==
  \E i \in 1..Len(s) : /\ Kind[s[i]] # "npd"
                       /\ \A j \in 1..Len(s) : j # i => Kind[s[j]] = "npd"
NoCreditIn(s) == \A i \in 1..Len(s) : s[i].n = 0
CreditLastIn(s) ==
  s # <<>> /\ s[Len(s)].n = 1 /\ \A i \in 1..(Len(s) - 1) : s[i].n = 0

HostTakesCredit == hostPc \in {"dequeue", "load", "store"}
HostHasCredit   == hostPc \in {"append", "send"}
CreditNotAtHost == credits = 0 /\ ~HostTakesCredit /\ ~HostHasCredit

(***************************************************************************)
(* With a controller of one command buffer there is one credit and it is   *)
(* in exactly one place: command_credits, a command the host task is about *)
(* to send, the transport, the controller, an event on its way up, or      *)
(* withheld by the controller.  The host task, which tests and decrements  *)
(* command_credits without a lock while the receive thread overwrites it,  *)
(* therefore never has a second command under way.  With more buffers this *)
(* fails: an event's absolute count (hci_layer.c:477, 493) knows nothing   *)
(* of a command in the transport or between the load and the store.        *)
(***************************************************************************)
OneCredit ==
  /\ hostPc = "store" => hostTmp = 1
  /\ \/ /\ credits = 1 /\ ~HostHasCredit
        /\ NoCommandIn(toCtl) /\ ctl = <<>> /\ adv = 1 /\ evtQ = <<>>
     \/ /\ credits = 0 /\ HostHasCredit
        /\ NoCommandIn(toCtl) /\ ctl = <<>> /\ adv = 1 /\ evtQ = <<>>
     \/ /\ CreditNotAtHost
        /\ OneCommandIn(toCtl) /\ ctl = <<>> /\ adv = 1 /\ evtQ = <<>>
     \/ /\ CreditNotAtHost
        /\ NoCommandIn(toCtl) /\ Len(ctl) = 1 /\ adv = 0 /\ evtQ = <<>>
     \/ /\ CreditNotAtHost
        /\ NoCommandIn(toCtl) /\ ctl = <<>> /\ adv = 1 /\ CreditLastIn(evtQ)
     \/ /\ CreditNotAtHost
        /\ NoCommandIn(toCtl) /\ ctl = <<>> /\ adv = 0 /\ NoCreditIn(evtQ)

(***************************************************************************)
(* The response timer guards the pending list: once neither task is        *)
(* between changing commands_pending_response and restarting the timer,    *)
(* the timer is set iff a command waits, and timer_is_set tells the truth  *)
(* about the alarm, armed or already expired.                              *)
(***************************************************************************)
TimerGuardsPending ==
  /\ timerSet <=> alarm # "off"
  /\ hostPc \notin {"send", "timer"} /\ rxPc # "timer"
       => (timerSet <=> pending # <<>>)

(***************************************************************************)
(* get_waiting_command finds, by opcode alone, the very command the event  *)
(* answers: never nothing, never another command of the same opcode.       *)
(***************************************************************************)
ResponseFindsCommand ==
  rxPc \in {"timer", "test", "post", "free"} => rxCmd = rxEvt.cmd

(***************************************************************************)
(* A command buffer is released once, its caller is notified at most once  *)
(* and before the release, and neither queue, nor the pending list, nor    *)
(* the host task before it has sent the command, holds a released buffer.  *)
(***************************************************************************)
CommandReleasedOnce ==
  \A c \in Cmds :
    /\ freed[c] <= 1 /\ notified[c] <= 1
    /\ notified[c] = 1 => freed[c] = 1 \/ rxCmd = c
    /\ freed[c] = 1 =>
         /\ c \notin ToSet(cmdQ) \cup ToSet(pending)
         /\ hostCmd = c => hostPc = "timer"

(***************************************************************************)
(* A packet has one owner: what the host task queues or fragments still    *)
(* has a fragment to send and is neither freed nor back with L2CAP, and it *)
(* is queued or current, not both (fragment_and_dispatch resets            *)
(* current_fragment_packet before it hands the rest back).                 *)
(***************************************************************************)
PacketSingleOwner ==
  /\ \A p \in ToSet(pktQ) \cup ({cur} \ {None}) :
       owner[p] = "hci" /\ left[p] >= 1
  /\ \A i \in 1..Len(pktQ) : pktQ[i] # cur
  /\ \A i, j \in 1..Len(pktQ) : pktQ[i] = pktQ[j] => i = j

=============================================================================
