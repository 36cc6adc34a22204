--------------------------------- MODULE H5 ---------------------------------
(***************************************************************************)
(* The three-wire UART transport (hci/hci_h5.c): link establishment and    *)
(* the go-back-N sliding window that carries HCI packets over a serial     *)
(* line that loses them.                                                   *)
(*                                                                         *)
(* Four threads share rtk_h5:                                              *)
(*   - "app": the HCI host task, in hci_h5_send_*;                         *)
(*   - "rx": the H5 task, in h5_recv;                                      *)
(*   - "timer": the timer task, which runs the alarm callbacks;            *)
(*   - "retrans": data_retransfer_thread.                                  *)
(* A fifth, data_ready_cb_thread, only drains recv_data.                   *)
(* h5_wakeup_mutex serialises h5_wake_up and h5_remove_acked_pkt, but      *)
(* data_retransfer_thread moves packets and turns msgq_txseq back without  *)
(* it, so its loop is modelled packet by packet.                           *)
(*                                                                         *)
(* Bytes are abstracted: a damaged packet (SLIP, header checksum, CRC) is  *)
(* a lost packet, since h5_recv discards it without a trace.  Packets and  *)
(* events are numbered in the order they are given to the transport.       *)
(***************************************************************************)
EXTENDS Integers, Sequences, SequencesExt, FiniteSets

CONSTANTS
  NPkts,        \* packets the HCI layer sends, 1..NPkts
  Sco,          \* the SCO packets among them
  NEvts,        \* events the controller sends, 1..NEvts
  Baud,         \* the events that answer HCI_VSC_UPDATE_BAUDRATE
  SeqNums,       \* sequence numbers (8)
  CtlWindow,    \* external: window offered in the configuration response
  DataRetrans,  \* DATA_RETRANS_COUNT
  SyncRetrans,  \* SYNC_RETRANS_COUNT
  ConfRetrans,  \* CONF_RETRANS_COUNT
  Preemptive,   \* may a thread run while another is inside a handler?
  PromptPeer,   \* external: is every answer faster than every alarm?
  ChanCap,      \* external: packets the line holds in each direction
  MaxLoss,      \* external: packets the line may lose
  CtlKinds,     \* external: link messages the controller sends by itself
  CtlMsgs       \* external: how many of them

ASSUME H5Assumption ==
  /\ NPkts \in Nat /\ Sco \subseteq 1..NPkts
  /\ NEvts \in Nat /\ Baud \subseteq 1..NEvts
  /\ SeqNums \in Nat /\ SeqNums > 1
  /\ CtlWindow \in 1..(SeqNums - 1)
  /\ {DataRetrans, SyncRetrans, ConfRetrans} \subseteq Nat
  /\ {Preemptive, PromptPeer} \subseteq BOOLEAN
  /\ ChanCap \in Nat \ {0}
  /\ MaxLoss \in Nat /\ CtlMsgs \in Nat
  /\ CtlKinds \subseteq {"sync", "conf"}

VARIABLES
  link,        \* link_estab_state
  window,      \* sliding_window_size
  unack, rel, unrel,   \* the three transmit queues
  recvData,    \* recv_data
  txseq,       \* msgq_txseq
  rxseq,       \* rxseq_txack
  txackReq,    \* is_txack_req
  armed,       \* [alarm -> is it running]
  count,       \* [alarm -> retransmissions]
  event,       \* h5_ready_events holds H5_EVENT_RX
  internal,    \* internal_skb
  mutex,       \* holder of h5_wakeup_mutex
  pc, cont,    \* where each thread is; where h5_wake_up returns to
  seqno, toFree,  \* h5_remove_acked_pkt's seqno and pkts_to_be_removed
  hand,        \* the skb data_retransfer_thread holds
  skb,         \* the packet h5_dequeue holds
  rxPkt,       \* the packet h5_recv has parsed
  given,       \* packets the HCI layer has sent so far
  started,     \* HCI_VSC_H5_INIT was sent
  sent,        \* reliable packets written to the UART at least once
  released,    \* packets freed by h5_remove_acked_pkt
  discarded,   \* packets h5_enqueue freed
  up,          \* what h5_data_ready_cb was given, in order
  toCtl, toHost,   \* external: the line
  ctlRx, ctlGot, ctlAckReq,   \* external: the controller's receiver
  ctlSeq, ctlOut, ctlNext,    \* external: its stop-and-wait sender
  ctlMsgs, lost    \* external: budgets used

txVars   == <<window, unack, rel, unrel, txseq>>
timVars  == <<armed, count, event>>
bookVars == <<given, started, sent, released, discarded>>
upVars   == <<recvData, internal, up>>
ctlVars  == <<ctlRx, ctlGot, ctlAckReq, ctlSeq, ctlOut, ctlNext, ctlMsgs>>
ackVars  == <<seqno, toFree>>
vars == <<link, txVars, rxseq, txackReq, timVars, upVars, mutex, pc, cont,
          ackVars, hand, skb, rxPkt, bookVars, toCtl, toHost, ctlVars, lost>>

-----------------------------------------------------------------------------
Threads == {"app", "rx", "timer", "retrans"}
Alarms  == {"data", "sync", "conf", "baud"}
LinkMsgs == {"sync", "syncResp", "conf", "confResp"}
None   == 0
Notify == NEvts + 1     \* the event rtk_notify_hw_h5_init_result makes up
Seqs   == 0..(SeqNums - 1)

Packet(t, seq, ack, id) == [t |-> t, seq |-> seq, ack |-> ack, id |-> id]
Packets(n) == [t : LinkMsgs \cup {"ack", "data"}, seq : Seqs, ack : Seqs, id : 0..n]
NoPkt == Packet("ack", 0, 0, None)

Up(n)   == (n + 1) % SeqNums
Down(n) == (n + SeqNums - 1) % SeqNums

Conts == {"idle", "acked", "startConf", "startSync", "resync", "syncInc", "confInc"}
Pcs   == Conts \cup {"lock", "dequeue", "tail", "walk", "first", "unlink", "stop",
                     "raced", "ctl", "pass", "data", "sync", "conf", "baud", "move", "put"}
(* Where h5_wakeup_mutex is held: in h5_dequeue, in h5_remove_acked_pkt. *)
Holding == {"dequeue", "tail", "walk", "first", "unlink", "stop", "raced"}

Init ==
  /\ link = "uninit" /\ window = 0
  /\ unack = <<>> /\ rel = <<>> /\ unrel = <<>> /\ recvData = <<>>
  /\ txseq = 0 /\ rxseq = 0 /\ txackReq = FALSE
  /\ armed = [a \in Alarms |-> FALSE]
  /\ count = [a \in Alarms |-> 0]
  /\ event = FALSE /\ internal = None /\ mutex = "none"
  /\ pc = [t \in Threads |-> "idle"]
  /\ cont = [t \in Threads |-> "idle"]
  /\ seqno = 0 /\ toFree = 0
  /\ hand = None /\ skb = NoPkt /\ rxPkt = NoPkt
  /\ given = 0 /\ started = FALSE
  /\ sent = {} /\ released = {} /\ discarded = {}
  /\ up = <<>>
  /\ toCtl = <<>> /\ toHost = <<>>
  /\ ctlRx = 0 /\ ctlGot = <<>> /\ ctlAckReq = FALSE
  /\ ctlSeq = 0 /\ ctlOut = None /\ ctlNext = 1
  /\ ctlMsgs = 0 /\ lost = 0

(***************************************************************************)
(* A thread enters a handler.  With Preemptive = FALSE handlers run to     *)
(* completion, the schedules in which no thread preempts another.          *)
(***************************************************************************)
MayRun(t) ==
  /\ pc[t] = "idle"
  /\ Preemptive \/ \A u \in Threads : pc[u] = "idle"

Goto(t, where) == pc' = [pc EXCEPT ![t] = where]

(* Leave for h5_wake_up and continue at `where' afterwards. *)
WakeUpThen(t, where) ==
  /\ Goto(t, "lock")
  /\ cont' = [cont EXCEPT ![t] = where]

(* osi_alarm_set and osi_alarm_cancel: alarms are one-shot. *)
Arm(a)    == armed' = [armed EXCEPT ![a] = TRUE]
Cancel(a) == armed' = [armed EXCEPT ![a] = FALSE]

-----------------------------------------------------------------------------
(* h5_wake_up and h5_dequeue *)

(* Mutant: h5_wake_up takes no lock. *)
MutexFreeAlways == TRUE
MutexFree == mutex = "none"

Lock(t) ==
  /\ pc[t] = "lock" /\ MutexFree
  /\ mutex' = t
  /\ Goto(t, "dequeue")
  /\ UNCHANGED <<link, txVars, rxseq, txackReq, timVars, upVars, cont, ackVars, hand, skb,
                 rxPkt, bookVars, toCtl, toHost, ctlVars, lost>>

(* h5_dequeue picks the unreliable packet at the head, if there is one. *)
DequeueUnrel(t) ==
  /\ pc[t] = "dequeue" /\ unrel # <<>> /\ Len(toCtl) < ChanCap
  /\ toCtl' = Append(toCtl, Packet(Head(unrel), 0, rxseq, None))
  /\ unrel' = Tail(unrel)
  /\ txackReq' = FALSE
  /\ UNCHANGED <<link, window, unack, rel, txseq, rxseq, timVars, upVars, mutex, pc,
                 cont, ackVars, hand, skb, rxPkt, bookVars, toHost, ctlVars, lost>>

WindowOpen == Len(unack) < window

(* Mutant: msgq_txseq is not masked. *)
NextSeqUnmasked == txseq + 1
NextSeq == Up(txseq)

(* h5_prepare_pkt numbers the packet; it is in no queue until "tail". *)
DequeueRel(t) ==
  /\ pc[t] = "dequeue" /\ unrel = <<>>
  /\ WindowOpen /\ rel # <<>>
  /\ skb' = Packet("data", txseq, rxseq, Head(rel))
  /\ rel' = Tail(rel)
  /\ txseq' = NextSeq
  /\ txackReq' = FALSE
  /\ Goto(t, "tail")
  /\ UNCHANGED <<link, window, unack, unrel, rxseq, timVars, upVars, mutex, cont,
                 ackVars, hand, rxPkt, bookVars, toCtl, toHost, ctlVars, lost>>

(* skb_queue_tail(unack), the retransmission timer, uart_send. *)
SendRel(t) ==
  /\ pc[t] = "tail" /\ Len(toCtl) < ChanCap
  /\ unack' = Append(unack, skb.id)
  /\ Arm("data")
  /\ toCtl' = Append(toCtl, skb)
  /\ sent' = sent \cup {skb.id}
  /\ skb' = NoPkt
  /\ Goto(t, "dequeue")
  /\ UNCHANGED <<link, window, rel, unrel, txseq, rxseq, txackReq, count, event,
                 upVars, mutex, cont, ackVars, hand, rxPkt, given, started, released,
                 discarded, toHost, ctlVars, lost>>

NothingToSend == unrel = <<>> /\ ~(WindowOpen /\ rel # <<>>)

DequeueAck(t) ==
  /\ pc[t] = "dequeue" /\ NothingToSend /\ txackReq /\ Len(toCtl) < ChanCap
  /\ toCtl' = Append(toCtl, Packet("ack", 0, rxseq, None))
  /\ txackReq' = FALSE
  /\ UNCHANGED <<link, txVars, rxseq, timVars, upVars, mutex, pc, cont, ackVars, hand, skb,
                 rxPkt, bookVars, toHost, ctlVars, lost>>

Unlock(t) ==
  /\ pc[t] = "dequeue" /\ NothingToSend /\ ~txackReq
  /\ mutex' = "none"
  /\ Goto(t, cont[t])
  /\ cont' = [cont EXCEPT ![t] = "idle"]
  /\ UNCHANGED <<link, txVars, rxseq, txackReq, timVars, upVars, ackVars, hand, skb,
                 rxPkt, bookVars, toCtl, toHost, ctlVars, lost>>

WakeUp(t) == Lock(t) \/ DequeueUnrel(t) \/ DequeueRel(t) \/ SendRel(t)
             \/ DequeueAck(t) \/ Unlock(t)

-----------------------------------------------------------------------------
(* The HCI host task *)

(* h5_transmit_data(HCI_VSC_H5_INIT): hci_h5_send_sync_cmd. *)
AppInit ==
  /\ ~started /\ MayRun("app")
  /\ started' = TRUE
  /\ unrel' = Append(unrel, "sync")
  /\ WakeUpThen("app", "startSync")
  /\ UNCHANGED <<link, window, unack, rel, txseq, rxseq, txackReq, timVars, upVars,
                 mutex, ackVars, hand, skb, rxPkt, given, sent, released, discarded, toCtl,
                 toHost, ctlVars, lost>>

(* h5_enqueue of an HCI packet: there is no case for SCO, which is freed. *)
Enqueue(p) ==
  IF p \in Sco THEN discarded' = discarded \cup {p} /\ rel' = rel
              ELSE rel' = Append(rel, p) /\ discarded' = discarded

(***************************************************************************)
(* hci_h5_send_cmd, _acl_data, _sco_data: h5_enqueue, then h5_wake_up.     *)
(* The HCI layer sends nothing before it was given the Notify event.       *)
(***************************************************************************)
AppSend ==
  /\ given < NPkts /\ Contains(up, Notify) /\ MayRun("app")
  /\ given' = given + 1
  /\ Enqueue(given + 1)
  /\ WakeUpThen("app", "idle")
  /\ UNCHANGED <<link, window, unack, unrel, txseq, rxseq, txackReq, timVars, upVars,
                 mutex, ackVars, hand, skb, rxPkt, started, sent, released, toCtl, toHost,
                 ctlVars, lost>>

(* h5_start_sync_retrans_timer after the request was sent. *)
StartSync(t) ==
  /\ pc[t] = "startSync"
  /\ Arm("sync")
  /\ Goto(t, "idle")
  /\ UNCHANGED <<link, txVars, rxseq, txackReq, count, event, upVars, mutex, cont,
                 ackVars, hand, skb, rxPkt, bookVars, toCtl, toHost, ctlVars, lost>>

-----------------------------------------------------------------------------
(* The H5 receive task *)

(* A reliable packet that is not the expected one: ask for an ack, drop it. *)
RxOutOfOrder ==
  /\ MayRun("rx") /\ toHost # <<>>
  /\ Head(toHost).t = "data" /\ Head(toHost).seq # rxseq
  /\ toHost' = Tail(toHost)
  /\ txackReq' = TRUE
  /\ WakeUpThen("rx", "idle")
  /\ UNCHANGED <<link, txVars, rxseq, timVars, upVars, mutex, ackVars, hand, skb, rxPkt,
                 bookVars, toCtl, ctlVars, lost>>

(* Mutant: every reliable packet is taken, expected or not. *)
ExpectedAny(p) == TRUE
Expected(p) == p.seq = rxseq

(* h5_complete_rx_pkt up to its h5_wake_up, for the expected packet. *)
RxReliable ==
  /\ MayRun("rx") /\ toHost # <<>> /\ mutex = "none"
  /\ Head(toHost).t = "data" /\ Expected(Head(toHost))
  /\ toHost' = Tail(toHost)
  /\ rxPkt' = Head(toHost)
  /\ rxseq' = Up(Head(toHost).seq)
  /\ txackReq' = TRUE
  /\ WakeUpThen("rx", "acked")
  /\ UNCHANGED <<link, txVars, timVars, upVars, mutex, ackVars, hand, skb, bookVars, toCtl,
                 ctlVars, lost>>

RxUnreliable ==
  /\ MayRun("rx") /\ toHost # <<>> /\ Head(toHost).t # "data"
  /\ toHost' = Tail(toHost)
  /\ rxPkt' = Head(toHost)
  /\ Goto("rx", "acked")
  /\ UNCHANGED <<link, txVars, rxseq, txackReq, timVars, upVars, mutex, cont, ackVars, hand,
                 skb, bookVars, toCtl, ctlVars, lost>>

(* Mutant: the walk starts at the last number used, not at the next one. *)
AckedCountOffByOne(ack) ==
  LET steps == (seqno - 1 + SeqNums - ack) % SeqNums
  IN IF steps <= Len(unack) THEN Len(unack) - steps ELSE 0

(***************************************************************************)
(* The walk of h5_remove_acked_pkt: seqno goes back from msgq_txseq while  *)
(* it differs from the acknowledgement, at most Len(unack) times.  What is *)
(* left of the count is how many packets are freed; it is 0 when the       *)
(* acknowledgement is outside the window.                                  *)
(***************************************************************************)
AckedCount(ack) ==
  LET steps == (seqno + SeqNums - ack) % SeqNums
  IN IF steps \in 0..Len(unack) THEN Len(unack) - steps ELSE 0

(***************************************************************************)
(* h5_remove_acked_pkt holds h5_wakeup_mutex, which keeps senders out but  *)
(* not data_retransfer_thread, and takes no lock of the queue: reading     *)
(* msgq_txseq, reading the length, finding the first packet and unlinking  *)
(* each are steps.                                                         *)
(***************************************************************************)
AckedLock ==
  /\ pc["rx"] = "acked" /\ MutexFree
  /\ mutex' = "rx"
  /\ seqno' = txseq
  /\ Goto("rx", "walk")
  /\ UNCHANGED <<link, txVars, rxseq, txackReq, timVars, upVars, cont, toFree, hand,
                 skb, rxPkt, bookVars, toCtl, toHost, ctlVars, lost>>

AckedWalk ==
  /\ pc["rx"] = "walk"
  /\ toFree' = AckedCount(rxPkt.ack)
  /\ Goto("rx", "first")
  /\ UNCHANGED <<link, txVars, rxseq, txackReq, timVars, upVars, mutex, cont, seqno,
                 hand, skb, rxPkt, bookVars, toCtl, toHost, ctlVars, lost>>

AckedFirst ==
  /\ pc["rx"] = "first"
  /\ Goto("rx", IF unack # <<>> /\ toFree > 0 THEN "unlink" ELSE "stop")
  /\ UNCHANGED <<link, txVars, rxseq, txackReq, timVars, upVars, mutex, cont, ackVars,
                 hand, skb, rxPkt, bookVars, toCtl, toHost, ctlVars, lost>>

(* skb_unlink and skb_free of one acknowledged packet. *)
AckedFree ==
  /\ pc["rx"] = "unlink"
  /\ released' = released \cup {Head(unack)}
  /\ unack' = Tail(unack)
  /\ toFree' = toFree - 1
  /\ Goto("rx", IF toFree > 1 /\ Len(unack) > 1 THEN "unlink" ELSE "stop")
  /\ UNCHANGED <<link, window, rel, unrel, txseq, rxseq, txackReq, timVars, upVars,
                 mutex, cont, seqno, hand, skb, rxPkt, given, started, sent, discarded,
                 toCtl, toHost, ctlVars, lost>>

(* data_retransfer_thread has taken a packet the loop is about to free: the
   one it stands on is freed in the thread's hand.  What the loop does after
   that is undefined. *)
RacedFree ==
  /\ pc["rx"] = "raced" /\ unack = <<>> /\ hand # None
  /\ released' = released \cup {hand}
  /\ UNCHANGED <<link, txVars, rxseq, txackReq, timVars, upVars, mutex, pc, cont,
                 ackVars, hand, skb, rxPkt, given, started, sent, discarded, toCtl,
                 toHost, ctlVars, lost>>

(* Mutant: the timer stops although packets are unacknowledged. *)
StopWhenEmptyAlways == Cancel("data") /\ count' = [count EXCEPT !["data"] = 0]
StopWhenEmpty ==
  IF unack = <<>>
    THEN Cancel("data") /\ count' = [count EXCEPT !["data"] = 0]
    ELSE UNCHANGED <<armed, count>>

(* The end of h5_remove_acked_pkt, and h5_complete_rx_pkt from there. *)
RxAcked ==
  /\ pc["rx"] = "stop"
  /\ StopWhenEmpty
  /\ mutex' = "none"
  /\ Goto("rx", CASE rxPkt.t \in LinkMsgs -> "ctl"
                  [] rxPkt.t = "data" -> "pass"
                  [] OTHER -> "idle")
  /\ rxPkt' = IF rxPkt.t = "ack" THEN NoPkt ELSE rxPkt
  /\ UNCHANGED <<link, txVars, rxseq, txackReq, event, upVars, cont, ackVars, hand, skb,
                 bookVars, toCtl, toHost, ctlVars, lost>>

RemoveAcked == AckedLock \/ AckedWalk \/ AckedFirst \/ AckedFree \/ RacedFree \/ RxAcked

(* Pass the event up, or keep the answer to a baud rate change back. *)
RxPassUp ==
  /\ pc["rx"] = "pass"
  /\ IF rxPkt.id \in Baud
       THEN internal' = rxPkt.id /\ Arm("baud") /\ recvData' = recvData
       ELSE recvData' = Append(recvData, rxPkt.id) /\ UNCHANGED <<internal, armed>>
  /\ Goto("rx", "idle")
  /\ rxPkt' = NoPkt
  /\ UNCHANGED <<link, txVars, rxseq, txackReq, count, event, up, mutex, cont,
                 ackVars, hand, skb, bookVars, toCtl, toHost, ctlVars, lost>>

(* h5_process_ctl_pkts, one action per message that has an effect. *)
CtlAnswer(m, states, answer, where) ==
  /\ pc["rx"] = "ctl" /\ rxPkt.t = m /\ link \in states
  /\ unrel' = Append(unrel, answer)
  /\ WakeUpThen("rx", where)
  /\ rxPkt' = NoPkt
  /\ UNCHANGED <<link, window, unack, rel, txseq, rxseq, txackReq, timVars, upVars,
                 mutex, ackVars, hand, skb, bookVars, toCtl, toHost, ctlVars, lost>>

RxSync == CtlAnswer("sync", {"uninit", "init"}, "syncResp", "idle")
RxConf == CtlAnswer("conf", {"init", "active"}, "confResp", "idle")
(* A peer that has restarted: answer, then establish the link again. *)
RxSyncActive == CtlAnswer("sync", {"active"}, "syncResp", "resync")

RxSyncResp ==
  /\ pc["rx"] = "ctl" /\ rxPkt.t = "syncResp" /\ link = "uninit"
  /\ Cancel("sync") /\ count' = [count EXCEPT !["sync"] = 0]
  /\ link' = "init"
  /\ unrel' = Append(unrel, "conf")
  /\ WakeUpThen("rx", "startConf")
  /\ rxPkt' = NoPkt
  /\ UNCHANGED <<window, unack, rel, txseq, rxseq, txackReq, event, upVars, mutex,
                 ackVars, hand, skb, bookVars, toCtl, toHost, ctlVars, lost>>

RxConfResp ==
  /\ pc["rx"] = "ctl" /\ rxPkt.t = "confResp" /\ link = "init"
  /\ Cancel("conf") /\ count' = [count EXCEPT !["conf"] = 0]
  /\ link' = "active"
  /\ window' = CtlWindow
  /\ recvData' = Append(recvData, Notify)
  /\ Goto("rx", "idle")
  /\ rxPkt' = NoPkt
  /\ UNCHANGED <<unack, rel, unrel, txseq, rxseq, txackReq, event, internal, up,
                 mutex, cont, ackVars, hand, skb, bookVars, toCtl, toHost, ctlVars, lost>>

RxCtlIgnored ==
  /\ pc["rx"] = "ctl"
  /\ \/ rxPkt.t = "conf" /\ link = "uninit"
     \/ rxPkt.t = "syncResp" /\ link # "uninit"
     \/ rxPkt.t = "confResp" /\ link # "init"
  /\ Goto("rx", "idle")
  /\ rxPkt' = NoPkt
  /\ UNCHANGED <<link, txVars, rxseq, txackReq, timVars, upVars, mutex, cont, ackVars, hand,
                 skb, bookVars, toCtl, toHost, ctlVars, lost>>

(* The second half of the sync request in H5_ACTIVE; the queues and the *)
(* sequence numbers stay as they are.                                   *)
RxResync ==
  /\ pc["rx"] = "resync"
  /\ link' = "uninit"
  /\ unrel' = Append(unrel, "sync")
  /\ WakeUpThen("rx", "startSync")
  /\ UNCHANGED <<window, unack, rel, txseq, rxseq, txackReq, timVars, upVars, mutex,
                 ackVars, hand, skb, rxPkt, bookVars, toCtl, toHost, ctlVars, lost>>

RxStartConf ==
  /\ pc["rx"] = "startConf"
  /\ Arm("conf")
  /\ Goto("rx", "idle")
  /\ UNCHANGED <<link, txVars, rxseq, txackReq, count, event, upVars, mutex, cont,
                 ackVars, hand, skb, rxPkt, bookVars, toCtl, toHost, ctlVars, lost>>

(* data_ready_cb_thread *)
DataReady ==
  /\ recvData # <<>>
  /\ up' = Append(up, Head(recvData))
  /\ recvData' = Tail(recvData)
  /\ UNCHANGED <<link, txVars, rxseq, txackReq, timVars, internal, mutex, pc, cont,
                 ackVars, hand, skb, rxPkt, bookVars, toCtl, toHost, ctlVars, lost>>

-----------------------------------------------------------------------------
(* The timer task: an alarm expires, then its callback runs. *)

LineQuiet == toCtl = <<>> /\ toHost = <<>> /\ ~ctlAckReq

Expire(a) ==
  /\ MayRun("timer") /\ armed[a]
  /\ PromptPeer => LineQuiet
  /\ Cancel(a)
  /\ Goto("timer", a)
  /\ UNCHANGED <<link, txVars, rxseq, txackReq, count, event, upVars, mutex, cont,
                 ackVars, hand, skb, rxPkt, bookVars, toCtl, toHost, ctlVars, lost>>

(* h5_retransfer_timeout_handler *)
DataTimeout ==
  /\ pc["timer"] = "data"
  /\ event' = TRUE
  /\ Goto("timer", "idle")
  /\ UNCHANGED <<link, txVars, rxseq, txackReq, armed, count, upVars, mutex, cont,
                 ackVars, hand, skb, rxPkt, bookVars, toCtl, toHost, ctlVars, lost>>

(* h5_sync_retrans_timeout_handler: the one-shot alarm is not set again. *)
SyncTimeout ==
  /\ pc["timer"] = "sync"
  /\ IF count["sync"] < SyncRetrans
       THEN unrel' = Append(unrel, "sync") /\ WakeUpThen("timer", "syncInc") /\ armed' = armed
       ELSE Cancel("sync") /\ Goto("timer", "idle") /\ UNCHANGED <<unrel, cont>>
  /\ UNCHANGED <<link, window, unack, rel, txseq, rxseq, txackReq, count, event,
                 upVars, mutex, ackVars, hand, skb, rxPkt, bookVars, toCtl, toHost,
                 ctlVars, lost>>

(* Mutant: the alarm is not set again. *)
ConfTimeoutOnce ==
  /\ pc["timer"] = "conf"
  /\ unrel' = Append(unrel, "conf") /\ WakeUpThen("timer", "confInc")
  /\ UNCHANGED <<link, window, unack, rel, txseq, rxseq, txackReq, armed, count, event,
                 upVars, mutex, ackVars, hand, skb, rxPkt, bookVars, toCtl, toHost,
                 ctlVars, lost>>

(* h5_conf_retrans_timeout_handler *)
ConfTimeout ==
  /\ pc["timer"] = "conf"
  /\ IF count["conf"] < ConfRetrans
       THEN Arm("conf") /\ unrel' = Append(unrel, "conf") /\ WakeUpThen("timer", "confInc")
       ELSE Cancel("conf") /\ Goto("timer", "idle") /\ UNCHANGED <<unrel, cont>>
  /\ UNCHANGED <<link, window, unack, rel, txseq, rxseq, txackReq, count, event,
                 upVars, mutex, ackVars, hand, skb, rxPkt, bookVars, toCtl, toHost,
                 ctlVars, lost>>

CountRetrans ==
  /\ pc["timer"] \in {"syncInc", "confInc"}
  /\ LET a == IF pc["timer"] = "syncInc" THEN "sync" ELSE "conf"
     IN count' = [count EXCEPT ![a] = @ + 1]
  /\ Goto("timer", "idle")
  /\ UNCHANGED <<link, txVars, rxseq, txackReq, armed, event, upVars, mutex, cont,
                 ackVars, hand, skb, rxPkt, bookVars, toCtl, toHost, ctlVars, lost>>

(* h5_wait_controller_baudrate_ready_timeout_handler *)
BaudTimeout ==
  /\ pc["timer"] = "baud"
  /\ recvData' = Append(recvData, internal)
  /\ internal' = None
  /\ Goto("timer", "idle")
  /\ UNCHANGED <<link, txVars, rxseq, txackReq, timVars, up, mutex, cont, ackVars, hand,
                 skb, rxPkt, bookVars, toCtl, toHost, ctlVars, lost>>

-----------------------------------------------------------------------------
(* data_retransfer_thread, outside h5_wakeup_mutex *)

RetransStart ==
  /\ MayRun("retrans") /\ event
  /\ event' = FALSE
  /\ Goto("retrans", IF count["data"] < DataRetrans THEN "move" ELSE "idle")
  /\ UNCHANGED <<link, txVars, rxseq, txackReq, armed, count, upVars, mutex, cont,
                 ackVars, hand, skb, rxPkt, bookVars, toCtl, toHost, ctlVars, lost>>

(* The packet the loop of h5_remove_acked_pkt stands on (Iter), or the next
   one (Temp) when that is to be freed too. *)
TakenFromLoop == Len(unack) <= 2 /\ Len(unack) <= toFree

(* skb_dequeue_tail(unack), under the queue's own lock, which a loop of
   h5_remove_acked_pkt that is unlinking does not hold. *)
RetransTake ==
  /\ pc["retrans"] = "move" /\ unack # <<>>
  /\ hand' = Last(unack)
  /\ unack' = Front(unack)
  /\ pc' = [pc EXCEPT !["retrans"] = "put",
                      !["rx"] = IF @ = "unlink" /\ TakenFromLoop THEN "raced" ELSE @]
  /\ UNCHANGED <<link, window, rel, unrel, txseq, rxseq, txackReq, timVars, upVars,
                 mutex, cont, ackVars, skb, rxPkt, bookVars, toCtl, toHost, ctlVars,
                 lost>>

(* Mutant: the packets go back to the wrong end. *)
PutBackTail == rel' = Append(rel, hand)
PutBack == rel' = <<hand>> \o rel

RetransPut ==
  /\ pc["retrans"] = "put"
  /\ txseq' = Down(txseq)
  /\ PutBack
  /\ hand' = None
  /\ Goto("retrans", "move")
  /\ UNCHANGED <<link, window, unack, unrel, rxseq, txackReq, timVars, upVars, mutex,
                 cont, ackVars, skb, rxPkt, bookVars, toCtl, toHost, ctlVars, lost>>

RetransDone ==
  /\ pc["retrans"] = "move" /\ unack = <<>>
  /\ count' = [count EXCEPT !["data"] = @ + 1]
  /\ WakeUpThen("retrans", "idle")
  /\ UNCHANGED <<link, txVars, rxseq, txackReq, armed, event, upVars, mutex, ackVars, hand,
                 skb, rxPkt, bookVars, toCtl, toHost, ctlVars, lost>>

-----------------------------------------------------------------------------
(* External: the line and the controller *)

hostUnchanged == UNCHANGED <<link, txVars, rxseq, txackReq, timVars, upVars, mutex,
                             pc, cont, ackVars, hand, skb, rxPkt, bookVars>>

LineLoses ==
  /\ lost < MaxLoss
  /\ lost' = lost + 1
  /\ \/ toCtl # <<>> /\ toCtl' = Tail(toCtl) /\ toHost' = toHost
     \/ toHost # <<>> /\ toHost' = Tail(toHost) /\ toCtl' = toCtl
  /\ hostUnchanged /\ UNCHANGED ctlVars

(* What the controller's sender does with an acknowledgement. *)
CtlTakeAck(p) ==
  IF ctlOut # None /\ p.ack = Up(ctlSeq)
    THEN ctlOut' = None /\ ctlSeq' = Up(ctlSeq)
    ELSE UNCHANGED <<ctlOut, ctlSeq>>

CtlRecvData ==
  /\ toCtl # <<>> /\ Head(toCtl).t = "data"
  /\ LET p == Head(toCtl) IN
     /\ IF p.seq = ctlRx
          THEN ctlGot' = Append(ctlGot, p.id) /\ ctlRx' = Up(ctlRx)
          ELSE UNCHANGED <<ctlGot, ctlRx>>
     /\ CtlTakeAck(p)
  /\ ctlAckReq' = TRUE
  /\ toCtl' = Tail(toCtl)
  /\ hostUnchanged /\ UNCHANGED <<ctlNext, ctlMsgs, toHost, lost>>

CtlReply == [m \in {"sync", "conf"} |-> IF m = "sync" THEN "syncResp" ELSE "confResp"]

CtlRecvOther ==
  /\ toCtl # <<>> /\ Head(toCtl).t # "data"
  /\ LET p == Head(toCtl) IN
     /\ CtlTakeAck(p)
     /\ IF p.t \in DOMAIN CtlReply
          THEN /\ Len(toHost) < ChanCap
               /\ toHost' = Append(toHost, Packet(CtlReply[p.t], 0, ctlRx, None))
          ELSE toHost' = toHost
  /\ toCtl' = Tail(toCtl)
  /\ hostUnchanged /\ UNCHANGED <<ctlRx, ctlGot, ctlAckReq, ctlNext, ctlMsgs, lost>>

CtlAck ==
  /\ ctlAckReq /\ Len(toHost) < ChanCap
  /\ toHost' = Append(toHost, Packet("ack", 0, ctlRx, None))
  /\ ctlAckReq' = FALSE
  /\ hostUnchanged /\ UNCHANGED <<ctlRx, ctlGot, ctlSeq, ctlOut, ctlNext, ctlMsgs, toCtl, lost>>

CtlEvent ==
  /\ ctlOut = None /\ ctlNext <= NEvts /\ Contains(up, Notify)
  /\ Len(toHost) < ChanCap
  /\ toHost' = Append(toHost, Packet("data", ctlSeq, ctlRx, ctlNext))
  /\ ctlOut' = ctlNext /\ ctlNext' = ctlNext + 1 /\ ctlAckReq' = FALSE
  /\ hostUnchanged /\ UNCHANGED <<ctlRx, ctlGot, ctlSeq, ctlMsgs, toCtl, lost>>

(* The controller's retransmission, when nothing else is on the line. *)
CtlResend ==
  /\ ctlOut # None /\ toHost = <<>>
  /\ toHost' = Append(toHost, Packet("data", ctlSeq, ctlRx, ctlOut))
  /\ ctlAckReq' = FALSE
  /\ hostUnchanged /\ UNCHANGED <<ctlRx, ctlGot, ctlSeq, ctlOut, ctlNext, ctlMsgs, toCtl, lost>>

(* A sync request comes from a controller that has just restarted. *)
CtlSend(k) ==
  /\ ctlMsgs < CtlMsgs /\ Len(toHost) < ChanCap
  /\ ctlMsgs' = ctlMsgs + 1
  /\ toHost' = Append(toHost, Packet(k, 0, IF k = "sync" THEN 0 ELSE ctlRx, None))
  /\ IF k = "sync"
       THEN ctlRx' = 0 /\ ctlSeq' = 0 /\ ctlOut' = None /\ ctlAckReq' = FALSE
       ELSE UNCHANGED <<ctlRx, ctlSeq, ctlOut, ctlAckReq>>
  /\ hostUnchanged /\ UNCHANGED <<ctlGot, ctlNext, toCtl, lost>>

-----------------------------------------------------------------------------
AppStep == AppInit \/ AppSend \/ StartSync("app") \/ WakeUp("app")
RxStep ==
  \/ RxOutOfOrder \/ RxReliable \/ RxUnreliable \/ RemoveAcked \/ RxPassUp
  \/ RxSync \/ RxConf \/ RxSyncActive \/ RxSyncResp \/ RxConfResp \/ RxCtlIgnored
  \/ RxResync \/ RxStartConf \/ StartSync("rx") \/ WakeUp("rx")
TimerStep ==
  \/ \E a \in Alarms : Expire(a)
  \/ DataTimeout \/ SyncTimeout \/ ConfTimeout \/ CountRetrans \/ BaudTimeout
  \/ WakeUp("timer")
RetransStep == RetransStart \/ RetransTake \/ RetransPut \/ RetransDone \/ WakeUp("retrans")
CtlStep ==
  \/ CtlRecvData \/ CtlRecvOther \/ CtlAck \/ CtlEvent \/ CtlResend
  \/ \E k \in CtlKinds : CtlSend(k)

Next == AppStep \/ RxStep \/ DataReady \/ TimerStep \/ RetransStep \/ CtlStep \/ LineLoses

Spec == Init /\ [][Next]_vars

(* Each thread runs when it can; the line drains; the controller answers. *)
FairSpec ==
  /\ Spec
  /\ WF_vars(AppStep) /\ WF_vars(RxStep) /\ WF_vars(DataReady)
  /\ WF_vars(TimerStep) /\ WF_vars(RetransStep)
  /\ WF_vars(CtlRecvData \/ CtlRecvOther) /\ WF_vars(CtlAck)
  /\ WF_vars(CtlEvent) /\ WF_vars(CtlResend)

-----------------------------------------------------------------------------
(* Every value stays in its range; in particular the sequence numbers stay
   below SeqNums, which their three bits in the packet header assume. *)
TypeOK ==
  /\ link \in {"uninit", "init", "active"}
  /\ window \in {0, CtlWindow}
  /\ unack \in Seq(1..NPkts) /\ rel \in Seq(1..NPkts) /\ unrel \in Seq(LinkMsgs)
  /\ recvData \in Seq(0..Notify) /\ up \in Seq(0..Notify)
  /\ txseq \in Seqs /\ rxseq \in Seqs /\ txackReq \in BOOLEAN
  /\ armed \in [Alarms -> BOOLEAN] /\ count \in [Alarms -> Nat]
  /\ event \in BOOLEAN /\ internal \in 0..NEvts
  /\ mutex \in Threads \cup {"none"} /\ seqno \in Seqs /\ toFree \in Nat
  /\ pc \in [Threads -> Pcs] /\ cont \in [Threads -> Conts]
  /\ hand \in 0..NPkts /\ skb \in Packets(NPkts) /\ rxPkt \in Packets(NEvts)
  /\ given \in 0..NPkts /\ started \in BOOLEAN
  /\ sent \subseteq 1..NPkts /\ released \subseteq 1..NPkts /\ discarded \subseteq 1..NPkts
  /\ toCtl \in Seq(Packets(NPkts)) /\ toHost \in Seq(Packets(NEvts))
  /\ ctlRx \in Seqs /\ ctlGot \in Seq(0..NPkts) /\ ctlAckReq \in BOOLEAN
  /\ ctlSeq \in Seqs /\ ctlOut \in 0..NEvts /\ ctlNext \in 1..(NEvts + 1)
  /\ ctlMsgs \in 0..CtlMsgs /\ lost \in 0..MaxLoss

(* The controller accepts the reliable packets in the order the HCI layer
   sent them, each once, whatever is lost and retransmitted. *)
InOrderDelivery ==
  /\ \A i, j \in DOMAIN ctlGot : i < j => ctlGot[i] < ctlGot[j]
  /\ \E k \in 0..given : ToSet(ctlGot) = (1..k) \ Sco

(* h5_remove_acked_pkt frees only packets the controller has accepted: no
   acknowledgement, late or repeated, is taken for a later packet. *)
AckedWereDelivered == released \subseteq ToSet(ctlGot)

(* Events reach the HCI layer in order and once, and none is missing unless
   the controller restarted; only the answer to a baud rate change, which is
   held back, may be overtaken. *)
EventsInOrder ==
  LET order  == up \o recvData
      passed == {i \in DOMAIN order : order[i] \notin Baud \cup {Notify}}
  IN /\ \A i, j \in passed : i < j => order[i] < order[j]
     /\ ctlMsgs = 0 => \E k \in 0..NEvts : {order[i] : i \in passed} = (1..k) \ Baud

(* A reliable packet is in exactly one place: in rel, in unack, in the hands
   of h5_dequeue or of data_retransfer_thread, or freed.  However senders,
   acknowledgements and retransmissions preempt each other the host neither
   loses nor duplicates it, as long as data_retransfer_thread does not take a
   packet that the unlocked loop of h5_remove_acked_pkt is about to free. *)
PacketInOnePlace ==
  LET InHand   == {hand} \ {None}
      Dequeued == {skb.id} \ {None}
  IN pc["rx"] # "raced" =>
     /\ IsInjective(rel) /\ IsInjective(unack)
     /\ ToSet(rel) \cap ToSet(unack) = {}
     /\ released \cap (ToSet(rel) \cup ToSet(unack)) = {}
     /\ InHand \cap (ToSet(rel) \cup ToSet(unack) \cup released \cup Dequeued) = {}
     /\ Dequeued \cap (ToSet(rel) \cup ToSet(unack) \cup released) = {}
     /\ ToSet(rel) \cup ToSet(unack) \cup released \cup InHand \cup Dequeued
          = (1..given) \ Sco

(* The host stops asking for the configuration only after ConfRetrans
   retransmissions: no interleaving of h5_conf_retrans_timeout_handler with
   the receive task leaves H5_INITIALIZED without a running alarm. *)
ConfKeepsTrying ==
  (link = "init" /\ pc["rx"] = "idle" /\ pc["timer"] = "idle" /\ ~armed["conf"])
     => count["conf"] >= ConfRetrans

(* What was written to the UART is eventually acknowledged and freed, although
   the line loses it or its acknowledgement and the alarm expires early, until
   DATA_RETRANS_COUNT retransmissions are used up. *)
SentDelivered ==
  []<>(sent \ Sco \subseteq released \/ count["data"] >= DataRetrans)
=============================================================================
