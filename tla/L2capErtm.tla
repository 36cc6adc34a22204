----------------------------- MODULE L2capErtm -----------------------------
(***************************************************************************)
(* Enhanced retransmission mode of an open L2CAP channel (l2c_fcr.c): two  *)
(* ends that both run this code exchange I-frames and S-frames over an ACL *)
(* link on which a frame may arrive damaged.                               *)
(*                                                                         *)
(* Every handler runs to completion in the BTU task, so a handler is one   *)
(* step: an operator from an end's record to an end's record.  The alarm   *)
(* of a timer expires in another task, which only posts a message; the     *)
(* handler runs when the BTU task takes it, whether or not the timer has   *)
(* been stopped or restarted in between.                                   *)
(***************************************************************************)
EXTENDS Integers, Sequences, SequencesExt, FiniteSets

CONSTANTS
    A, B,           \* the two ends
    Modulus,        \* number of sequence numbers (L2CAP_FCR_SEQ_MODULO + 1 = 64)
    TxWin,          \* tx_win_sz of both ends
    MaxTransmit,    \* max_transmit of both ends, 0 for no limit
    Quota,          \* link_xmit_quota: I-frames are built while the link takes them
    SdusA, SdusB,   \* bound: SDUs each application writes
    Long,           \* the SDUs, by number, that do not fit in one frame
    Segments,       \* frames such an SDU takes
    MaxBusy,        \* bound: L2CA_FlowControl calls of each application
    MaxLoss,        \* bound: damaged frames
    LinkRoom        \* bound: an alarm expires only with fewer frames than this under way

ASSUME ErtmAssumption ==
    /\ A # B
    /\ {Modulus, TxWin, Quota, Segments, LinkRoom} \subseteq Nat \ {0}
    /\ {MaxTransmit, SdusA, SdusB, MaxBusy, MaxLoss} \subseteq Nat
    /\ 2 * TxWin <= Modulus
    /\ Segments > 1
    /\ Long \subseteq Nat

VARIABLES
    ccb,     \* ccb[d]: the channel control block of end d
    link,    \* link[d]: frames from d that the peer has not received yet
    busy,    \* busy[d]: calls of L2CA_FlowControl so far
    losses   \* damaged frames so far

vars == <<ccb, link, busy, losses>>

Ends == {A, B}
Peer(d) == IF d = A THEN B ELSE A
Sdus(d) == IF d = A THEN SdusA ELSE SdusB
Seqs == 0 .. Modulus - 1

(* An SDU is its pieces: piece k of SDU i is <<i, k>>. *)
Pieces(i) == IF i \in Long THEN Segments ELSE 1
Sdu(i) == [k \in 1 .. Pieces(i) |-> <<i, k>>]

Sar(x) ==
    CASE Pieces(x[1]) = 1 -> "UNSEG"
      [] Pieces(x[1]) > 1 /\ x[2] = 1 -> "START"
      [] Pieces(x[1]) > 1 /\ x[2] = Pieces(x[1]) -> "END"
      [] OTHER -> "CONT"

(* A timer is off, ticking, or expired and still marked in_use, since no   *)
(* one clears the mark of an alarm that went off.                          *)
Timers == {"off", "ticking", "expired"}

max_held_acks == TxWin \div 3

InitCcb ==
    [open |-> TRUE, next_tx_seq |-> 0, last_rx_ack |-> 0,
     next_seq_expected |-> 0, last_ack_sent |-> 0, num_tries |-> 0,
     remote_busy |-> FALSE, local_busy |-> FALSE, wait_ack |-> FALSE,
     send_f_rsp |-> FALSE, rej_sent |-> FALSE, srej_sent |-> FALSE,
     rej_after_srej |-> FALSE,
     waiting_for_ack_q |-> <<>>, retrans_q |-> <<>>, srej_rcv_hold_q |-> <<>>,
     xmit_hold_q |-> <<>>,    \* SDUs not yet sent, the first perhaps in part
     segmented |-> 0,         \* pieces of the first that were sent
     rx_sdu |-> <<>>,         \* pieces gathered so far
     timer |-> "off", timer_msg |-> FALSE,  \* mon_retrans_timer and its message
     ack |-> "off", ack_msg |-> FALSE,      \* ack_timer and its message
     out |-> <<>>,            \* frames sent in this step and before
     wrote |-> 0,             \* SDUs taken from the application
     rcvd |-> <<>>,           \* SDUs handed to the application
     complete |-> 0,          \* SDUs reported by TxComplete_Cb
     cause |-> "none"]        \* why this end disconnected

-----------------------------------------------------------------------------
(* Timers *)

l2c_fcr_start_timer(e) ==
    IF e.timer = "off" THEN [e EXCEPT !.timer = "ticking"] ELSE e

l2c_fcr_stop_timer(e) == [e EXCEPT !.timer = "off"]

StopAckTimer(e) == [e EXCEPT !.ack = "off"]

(* A frame that acknowledges all that was received has gone out. *)
Acked(e) == StopAckTimer([e EXCEPT !.last_ack_sent = e.next_seq_expected])

NextSeqNoWrap(n) == n + 1

NextSeq(n) == (n + 1) % Modulus

-----------------------------------------------------------------------------
(* Sending *)

FlowControlledLate(e) ==
    e.remote_busy \/ Len(e.waiting_for_ack_q) > TxWin

l2c_fcr_is_flow_controlled(e) ==
    e.remote_busy \/ Len(e.waiting_for_ack_q) >= TxWin

(* Whether l2cu_get_next_buffer_to_send finds a frame of this channel. *)
Sendable(e) ==
    /\ e.open
    /\ Len(e.out) < Quota
    /\ ~e.wait_ack /\ ~e.remote_busy
    /\ \/ e.retrans_q # <<>>
       \/ e.xmit_hold_q # <<>> /\ ~l2c_fcr_is_flow_controlled(e)

(* prepare_I_frame without its timer. *)
PrepareUntimed(e, seq, piece) ==
    Acked([e EXCEPT !.out = Append(@, [k |-> "I", seq |-> seq, piece |-> piece, p |-> FALSE,
                                       f |-> e.send_f_rsp, req |-> e.next_seq_expected]),
                    !.send_f_rsp = FALSE])

(* The frame takes the F bit that a poll asked for, and acknowledges. *)
prepare_I_frame(e, seq, piece) ==
    LET frame == [k |-> "I", seq |-> seq, piece |-> piece, p |-> FALSE,
                  f |-> e.send_f_rsp, req |-> e.next_seq_expected]
    IN l2c_fcr_start_timer(Acked(
           [e EXCEPT !.out = Append(@, frame), !.send_f_rsp = FALSE]))

l2c_fcr_get_next_xmit_sdu_seg(e) ==
    IF e.retrans_q # <<>>
    THEN LET b == Head(e.retrans_q)
         IN prepare_I_frame([e EXCEPT !.retrans_q = Tail(@)], b.seq, b.piece)
    ELSE LET i == Head(e.xmit_hold_q)
             b == [seq |-> e.next_tx_seq, piece |-> <<i, e.segmented + 1>>]
             last == e.segmented + 1 = Pieces(i)
         IN prepare_I_frame(
                [e EXCEPT !.xmit_hold_q = IF last THEN Tail(@) ELSE @,
                          !.segmented = IF last THEN 0 ELSE @ + 1,
                          !.next_tx_seq = NextSeq(@),
                          !.waiting_for_ack_q = Append(@, b)],
                b.seq, b.piece)

(* Frames are built while there is one to send and the link takes it.      *)
SendIfAny(e) == IF Sendable(e) THEN l2c_fcr_get_next_xmit_sdu_seg(e) ELSE e

l2c_link_check_send_pkts(e) ==
    LET after[i \in 0 .. Quota] == IF i = 0 THEN e ELSE SendIfAny(after[i - 1])
    IN  after[Quota]

l2c_fcr_send_S_frame(e, type, pf) ==
    LET polled == IF pf = "P"
                  THEN l2c_fcr_start_timer(l2c_fcr_stop_timer([e EXCEPT !.wait_ack = TRUE]))
                  ELSE e
        frame == [k |-> type, req |-> e.next_seq_expected, p |-> pf = "P", f |-> pf = "F"]
    IN IF e.open
       THEN Acked(l2c_link_check_send_pkts([polled EXCEPT !.out = Append(@, frame)]))
       ELSE e

(* RNR or RR, for a handler that says whether this end takes data. *)
SendReady(e, pf) ==
    l2c_fcr_send_S_frame(e, IF e.local_busy THEN "RNR" ELSE "RR", pf)

SendFinal(e) ==
    IF e.srej_sent THEN l2c_fcr_send_S_frame(e, "SREJ", "F") ELSE SendReady(e, "F")

(* What is left of an end without the channel. *)
Closed(e, why) ==
    [InitCcb EXCEPT !.open = FALSE, !.out = e.out, !.wrote = e.wrote,
                    !.rcvd = e.rcvd, !.complete = e.complete, !.cause = why]

(* The disconnect request goes out, the control block goes back. *)
l2cu_disconnect_chnl(e, why) ==
    Closed(l2c_link_check_send_pkts([e EXCEPT !.out = Append(@, [k |-> "DISC"])]), why)

TooManyTries(e) ==
    e.waiting_for_ack_q # <<>> /\ MaxTransmit # 0 /\ e.num_tries >= MaxTransmit

(* A try, if anything is still unacknowledged. *)
CountTry(e) ==
    IF e.waiting_for_ack_q = <<>> THEN e
    ELSE l2c_fcr_start_timer([e EXCEPT !.num_tries = @ + 1])

Retransmit(e, again) == CountTry(l2c_link_check_send_pkts([e EXCEPT !.retrans_q = again]))

RetransmitAll(e) ==
    IF TooManyTries(e) THEN l2cu_disconnect_chnl(e, "tries")
    ELSE Retransmit(e, e.waiting_for_ack_q)

RetransmitOne(e, seq) ==
    CASE TooManyTries(e) -> l2cu_disconnect_chnl(e, "tries")
      [] e.waiting_for_ack_q = <<>> -> e
      [] OTHER ->
           LET i == SelectInSeq(e.waiting_for_ack_q, LAMBDA b : b.seq = seq)
           IN  Retransmit(e, IF i = 0 THEN e.retrans_q
                             ELSE Append(e.retrans_q, e.waiting_for_ack_q[i]))

-----------------------------------------------------------------------------
(* Receiving *)

CountFrames(q) == Len(q)

(* The SDUs that end in these frames. *)
FullSdus(q) == Cardinality({i \in DOMAIN q : Sar(q[i].piece) \in {"UNSEG", "END"}})

process_reqseq(e, f) ==
    LET n == (f.req - e.last_rx_ack) % Modulus
        acked == SubSeq(e.waiting_for_ack_q, 1, n)
        rest == SubSeq(e.waiting_for_ack_q, n + 1, Len(e.waiting_for_ack_q))
        full == FullSdus(acked)
        freed == [e EXCEPT !.last_rx_ack = f.req, !.waiting_for_ack_q = rest,
                           !.num_tries = IF n # 0 THEN 0 ELSE @,
                           !.timer = IF n # 0 /\ ~e.wait_ack THEN "off" ELSE @,
                           !.complete = @ + full]
        timed(x) == IF x.waiting_for_ack_q = <<>> THEN x ELSE l2c_fcr_start_timer(x)
    IN CASE f.k = "SREJ" /\ ~f.p -> timed(e)
         [] f.k # "SREJ" \/ f.p ->
              IF n > Len(e.waiting_for_ack_q) THEN l2cu_disconnect_chnl(e, "reqseq")
              ELSE timed(freed)

(* The final bit that a poll asked for goes with an S-frame, if it has not *)
(* gone with an I-frame.                                                   *)
AnswerPoll(e) ==
    IF e.open /\ e.send_f_rsp THEN [SendFinal(e) EXCEPT !.send_f_rsp = FALSE] ELSE e

process_s_frame(e, f) ==
    LET asked == IF f.p THEN [e EXCEPT !.rej_sent = FALSE, !.send_f_rsp = TRUE] ELSE e
        free == [asked EXCEPT !.remote_busy = FALSE]
        again == f.k = "REJ" \/ f.f \/ e.remote_busy
    IN AnswerPoll(
         CASE f.k = "RNR" -> l2c_fcr_stop_timer([asked EXCEPT !.remote_busy = TRUE])
           [] f.k = "SREJ" -> RetransmitOne(free, f.req)
           [] f.k \in {"RR", "REJ"} -> IF again THEN RetransmitAll(free) ELSE free)

(* OutOfSequence, which forgets to keep the frame it sends SREJ for. *)
SrejWithoutHold(e, f) ==
    IF e.srej_sent \/ e.rej_sent THEN e
    ELSE l2c_fcr_send_S_frame([e EXCEPT !.srej_sent = TRUE], "SREJ", "0")

(* A frame that is not the next: a duplicate, one to hold behind the lost  *)
(* frame that SREJ asked for, or the first sign of a loss.                 *)
OutOfSequence(e, f) ==
    LET lost == (f.seq - e.next_seq_expected) % Modulus
        hold == [e EXCEPT !.srej_rcv_hold_q = Append(@, f)]
    IN CASE lost >= TxWin -> e
         [] lost < TxWin /\ e.srej_sent ->
              IF /\ f.seq = NextSeq(Last(e.srej_rcv_hold_q).seq)
                 /\ Len(e.srej_rcv_hold_q) < TxWin
              THEN hold ELSE [e EXCEPT !.rej_after_srej = TRUE]
         [] lost < TxWin /\ ~e.srej_sent /\ e.rej_sent -> e
         [] OTHER ->
              StopAckTimer(
                IF lost > 1
                THEN l2c_fcr_send_S_frame([e EXCEPT !.rej_sent = TRUE], "REJ", "0")
                ELSE l2c_fcr_send_S_frame([hold EXCEPT !.srej_sent = TRUE], "SREJ", "0"))

(* do_sar_reassembly, which does not clear p_rx_sdu after the last piece. *)
SarKeepsSdu(e, x) ==
    CASE Sar(x) = "UNSEG" ->
           IF e.rx_sdu # <<>> THEN l2cu_disconnect_chnl(e, "sar")
           ELSE [e EXCEPT !.rcvd = Append(@, <<x>>)]
      [] Sar(x) = "END" ->
           [e EXCEPT !.rx_sdu = Append(@, x), !.rcvd = Append(@, Append(e.rx_sdu, x))]
      [] OTHER -> [e EXCEPT !.rx_sdu = Append(@, x)]

(* The piece joins the SDU it belongs to; a whole SDU goes to DataInd_Cb. *)
do_sar_reassembly(e, x) ==
    LET sar == Sar(x)
        sdu == Append(e.rx_sdu, x)
        len == Pieces(sdu[1][1])      \* rx_sdu_len, from the first piece
        ok == CASE sar \in {"UNSEG", "START"} -> e.rx_sdu = <<>>
                [] sar = "CONT" -> e.rx_sdu # <<>> /\ Len(sdu) <= len
                [] sar = "END" -> e.rx_sdu # <<>> /\ Len(sdu) = len
    IN IF ~ok THEN l2cu_disconnect_chnl(e, "sar")
       ELSE IF sar \in {"UNSEG", "END"}
            THEN [e EXCEPT !.rx_sdu = <<>>, !.rcvd = Append(@, sdu)]
            ELSE [e EXCEPT !.rx_sdu = sdu]

(* The frame is acknowledged by an S-frame now, by a timer, or by an       *)
(* I-frame that is about to go.                                            *)
Acknowledge(e, delay) ==
    LET n == (e.next_seq_expected - e.last_ack_sent) % Modulus
        late == delay \/ (n < max_held_acks /\ ~e.local_busy)
    IN CASE ~e.open \/ n = 0 -> e
         [] e.open /\ n # 0 /\ late ->
              IF e.ack = "off" THEN [e EXCEPT !.ack = "ticking"] ELSE e
         [] OTHER ->
              IF /\ e.xmit_hold_q = <<>> \/ l2c_fcr_is_flow_controlled(e)
                 /\ e.srej_rcv_hold_q = <<>>
              THEN SendReady(e, "0") ELSE e

InSequence(e, f, delay) ==
    Acknowledge(
        do_sar_reassembly([e EXCEPT !.rej_sent = FALSE, !.srej_sent = FALSE,
                                    !.next_seq_expected = NextSeq(f.seq)],
                          f.piece),
        delay)

TakeFrame(e, f, delay) ==
    CASE ~e.open -> e
      [] e.open /\ f.seq # e.next_seq_expected ->
           IF e.local_busy THEN l2c_fcr_send_S_frame(e, "RNR", "0") ELSE OutOfSequence(e, f)
      [] OTHER -> InSequence(e, f, delay)

process_i_frame(e, f, final, delay) ==
    TakeFrame(IF final THEN RetransmitAll(e) ELSE e, f, delay)

(* A frame that had to go while SREJ was out is asked for with REJ. *)
RejectAfterSrej(e) ==
    IF e.rej_after_srej
    THEN l2c_fcr_send_S_frame([e EXCEPT !.rej_after_srej = FALSE, !.rej_sent = TRUE], "REJ", "0")
    ELSE e

AcknowledgeHeld(e) ==
    IF /\ ~e.local_busy /\ ~e.rej_sent /\ ~e.srej_sent
       /\ e.next_seq_expected # e.last_ack_sent
    THEN l2c_fcr_send_S_frame(e, "RR", "0") ELSE e

ProcessOneHeld(e, f) ==
    RejectAfterSrej(IF e.open THEN process_i_frame(e, f, f.f, TRUE) ELSE e)

(* The SREJ was answered: the frames held behind it are received now, with *)
(* the control words they came with, and acknowledged together.            *)
ProcessHeld(e) ==
    LET q == e.srej_rcv_hold_q
        after[i \in 0 .. Len(q)] ==
            IF i = 0 THEN [e EXCEPT !.srej_rcv_hold_q = <<>>]
            ELSE ProcessOneHeld(after[i - 1], q[i])
    IN  IF e.open /\ ~e.local_busy /\ ~e.srej_sent /\ q # <<>>
        THEN AcknowledgeHeld(after[Len(q)])
        ELSE e

SendMore(e) ==
    IF e.open /\ ~e.wait_ack /\ ~l2c_fcr_is_flow_controlled(e)
    THEN l2c_link_check_send_pkts(e) ELSE e

ProcessBody(e, f, final) ==
    CASE ~e.open -> e
      [] e.open /\ f.k = "I" -> process_i_frame(e, f, final, FALSE)
      [] OTHER -> process_s_frame(e, [f EXCEPT !.f = final])

(* What follows the check sequence and the wait for a final bit. *)
ProcessFrame(e, f, final) ==
    SendMore(ProcessHeld(ProcessBody(process_reqseq(e, f), f, final)))

(* After a poll only a final answer counts. *)
l2c_fcr_proc_pdu(e, f) ==
    LET answered == l2c_fcr_stop_timer([e EXCEPT !.wait_ack = FALSE,
                        !.num_tries = IF e.waiting_for_ack_q = <<>> THEN 0 ELSE @])
    IN IF e.wait_ack /\ ~f.f
       THEN IF f.p THEN [SendFinal(e) EXCEPT !.timer = "ticking"] ELSE e
       ELSE ProcessFrame(IF e.wait_ack THEN answered ELSE e, f, e.wait_ack)

-----------------------------------------------------------------------------
(* Timeouts *)

l2c_fcr_proc_tout(e) ==
    LET tries == IF MaxTransmit = 0 THEN e.num_tries ELSE e.num_tries + 1
        counted == [e EXCEPT !.num_tries = tries]
    IN CASE MaxTransmit # 0 /\ tries > MaxTransmit -> l2cu_disconnect_chnl(counted, "tries")
         [] (MaxTransmit = 0 \/ tries <= MaxTransmit) /\ ~e.srej_sent /\ ~e.rej_sent ->
              SendReady(counted, "P")
         [] OTHER -> counted

l2c_fcr_proc_ack_tout(e) ==
    IF ~e.wait_ack /\ e.last_ack_sent # e.next_seq_expected THEN SendReady(e, "0") ELSE e

-----------------------------------------------------------------------------
(* Steps *)

(* End d takes over e; the frames that e sent are on the link. *)
Commit(d, e) ==
    /\ ccb' = [ccb EXCEPT ![d] = [e EXCEPT !.out = <<>>]]
    /\ link' = [link EXCEPT ![d] = e.out]

(* The control block of d as a handler starts with it. *)
Self(d) == [ccb[d] EXCEPT !.out = link[d]]

Init ==
    /\ ccb = [d \in Ends |-> InitCcb]
    /\ link = [d \in Ends |-> <<>>]
    /\ busy = [d \in Ends |-> 0]
    /\ losses = 0

(* L2CA_DataWrite *)
DataWrite(d) ==
    /\ ccb[d].open
    /\ ccb[d].wrote < Sdus(d)
    /\ Commit(d, l2c_link_check_send_pkts(
           [Self(d) EXCEPT !.wrote = @ + 1,
                           !.xmit_hold_q = Append(@, ccb[d].wrote + 1)]))
    /\ UNCHANGED <<busy, losses>>

(* L2CA_FlowControl with the other value of data_enabled. *)
L2CA_FlowControl(d) ==
    LET e == [Self(d) EXCEPT !.local_busy = ~@]
    IN /\ ccb[d].open
       /\ busy[d] < MaxBusy
       /\ Commit(d, IF e.wait_ack THEN e
                    ELSE SendReady(e, IF e.local_busy THEN "0" ELSE "P"))
       /\ busy' = [busy EXCEPT ![d] = @ + 1]
       /\ UNCHANGED losses

(* The same, and d took the frame that the peer sent first. *)
Handled(d, e) ==
    /\ ccb' = [ccb EXCEPT ![d] = [e EXCEPT !.out = <<>>]]
    /\ link' = [link EXCEPT ![d] = e.out, ![Peer(d)] = Tail(@)]

(* A frame reaches d.  An end without the channel drops it; a disconnect   *)
(* request is answered and closes the end.                                 *)
Receive(d) ==
    LET f == Head(link[Peer(d)])
    IN /\ link[Peer(d)] # <<>>
       /\ Handled(d, CASE ~ccb[d].open -> Self(d)
                       [] ccb[d].open /\ f.k = "DISC" -> Closed(Self(d), "peer")
                       [] OTHER -> l2c_fcr_proc_pdu(Self(d), f))
       /\ UNCHANGED <<busy, losses>>

(* A frame reaches d with a wrong check sequence and is dropped. *)
BadFcs(d) ==
    /\ losses < MaxLoss
    /\ ccb[d].open
    /\ link[Peer(d)] # <<>>
    /\ Head(link[Peer(d)]).k # "DISC"
    /\ link' = [link EXCEPT ![Peer(d)] = Tail(@)]
    /\ losses' = losses + 1
    /\ UNCHANGED <<ccb, busy>>

(* The controller reports completed packets: the link takes more. *)
CompletedPackets(d) ==
    /\ Sendable(Self(d))
    /\ Commit(d, l2c_link_check_send_pkts(Self(d)))
    /\ UNCHANGED <<busy, losses>>

(* The alarm of a timer goes off and posts a message to the BTU task. *)
Alarm(d) ==
    /\ ccb[d].timer = "ticking"
    /\ ~ccb[d].timer_msg
    /\ Len(link[A]) + Len(link[B]) < LinkRoom
    /\ ccb' = [ccb EXCEPT ![d].timer = "expired", ![d].timer_msg = TRUE]
    /\ UNCHANGED <<link, busy, losses>>

AckAlarm(d) ==
    /\ ccb[d].ack = "ticking"
    /\ ~ccb[d].ack_msg
    /\ Len(link[A]) + Len(link[B]) < LinkRoom
    /\ ccb' = [ccb EXCEPT ![d].ack = "expired", ![d].ack_msg = TRUE]
    /\ UNCHANGED <<link, busy, losses>>

(* The BTU task takes the message. *)
Timeout(d) ==
    /\ ccb[d].timer_msg
    /\ Commit(d, l2c_fcr_proc_tout([Self(d) EXCEPT !.timer_msg = FALSE]))
    /\ UNCHANGED <<busy, losses>>

AckTimeout(d) ==
    /\ ccb[d].ack_msg
    /\ Commit(d, l2c_fcr_proc_ack_tout([Self(d) EXCEPT !.ack_msg = FALSE]))
    /\ UNCHANGED <<busy, losses>>

Next ==
    \E d \in Ends :
        \/ DataWrite(d) \/ L2CA_FlowControl(d)
        \/ Receive(d) \/ BadFcs(d) \/ CompletedPackets(d)
        \/ Alarm(d) \/ AckAlarm(d) \/ Timeout(d) \/ AckTimeout(d)

Spec == Init /\ [][Next]_vars

(* What the BTU task of end d has to do, and that it does some of it.      *)
HasWork(d) ==
    \/ link[Peer(d)] # <<>>
    \/ ccb[d].timer_msg \/ ccb[d].ack_msg
    \/ Sendable(Self(d))

Work(d) == Receive(d) \/ Timeout(d) \/ AckTimeout(d) \/ CompletedPackets(d)

(* The BTU task of each end does not idle while it has work (this is weak  *)
(* fairness of Work(d), with the condition that enables it written out),   *)
(* and an alarm that ticks goes off.                                       *)
Fairness ==
    \A d \in Ends :
        /\ <>[]HasWork(d) => []<><<Work(d)>>_vars
        /\ WF_vars(Alarm(d)) /\ WF_vars(AckAlarm(d))

FairSpec == Spec /\ Fairness

-----------------------------------------------------------------------------
(* Properties *)

Piece == {<<i, j>> : i \in 1 .. SdusA + SdusB, j \in 1 .. Segments}

IFrame == [k : {"I"}, seq : Seqs, piece : Piece, p : {FALSE}, f : BOOLEAN, req : Seqs]

SFrame == [k : {"RR", "RNR", "REJ", "SREJ"}, req : Seqs, p : BOOLEAN, f : BOOLEAN]

Frame == IFrame \cup SFrame \cup {[k |-> "DISC"]}

(* The types of the control blocks and of the frames under way: sequence   *)
(* numbers stay below the modulus and a frame is never a poll and a final  *)
(* answer at once (l2c_fcr_send_S_frame, prepare_I_frame).                 *)
TypeOK ==
    /\ \A d \in Ends :
        /\ {ccb[d].next_tx_seq, ccb[d].last_rx_ack, ccb[d].next_seq_expected,
             ccb[d].last_ack_sent} \subseteq Seqs
        /\ {ccb[d].timer, ccb[d].ack} \subseteq Timers
        /\ ToSet(link[d]) \subseteq Frame
        /\ \A i \in DOMAIN link[d] : link[d][i].k # "DISC" => ~(link[d][i].p /\ link[d][i].f)
    /\ losses \in 0 .. MaxLoss

(* What the two applications see is a reliable FIFO in each direction:     *)
(* SDUs arrive whole, once and in order in spite of damaged frames, the    *)
(* two kinds of rejection, polls, flow control and late alarms, and        *)
(* TxComplete_Cb reports only SDUs the peer's application has              *)
(* (l2c_fcr_proc_pdu and all it calls).                                    *)
Service == INSTANCE SduService WITH
    Msg <- {Sdu(i) : i \in 1 .. SdusA + SdusB},
    sent <- [d \in Ends |-> [i \in 1 .. ccb[d].wrote |-> Sdu(i)]],
    rcvd <- [d \in Ends |-> ccb[d].rcvd],
    complete <- [d \in Ends |-> ccb[d].complete],
    open <- [d \in Ends |-> ccb[d].open]

ReliableFifo == Service!Spec

(* Two ends that run this code never give each other a reason to close the *)
(* channel: an acknowledgement is always for frames that wait for one, and *)
(* segments always join (process_reqseq, do_sar_reassembly).  Only the     *)
(* limit of retransmissions ends a channel.                                *)
OnlyRetriesClose ==
    \A d \in Ends : ccb[d].cause \in {"none", "peer", "tries"}

(* While an SREJ is out there is a held frame: process_i_frame reads the   *)
(* sequence number of the last one without asking whether there is one.    *)
SrejHoldsFrame ==
    \A d \in Ends : ccb[d].srej_sent => ccb[d].srej_rcv_hold_q # <<>>

(* Whatever an end has sent and not heard about can be sent again: the     *)
(* frames that wait for an acknowledgement are those from last_rx_ack up   *)
(* to next_tx_seq, in order and within the window (process_reqseq,         *)
(* l2c_fcr_get_next_xmit_sdu_seg).                                         *)
UnackedIsWindow ==
    \A d \in Ends : LET q == ccb[d].waiting_for_ack_q IN
        /\ Len(q) <= TxWin
        /\ ccb[d].open =>
              /\ \A i \in DOMAIN q : q[i].seq = (ccb[d].last_rx_ack + i - 1) % Modulus
              /\ ccb[d].next_tx_seq = (ccb[d].last_rx_ack + Len(q)) % Modulus

(* Every SDU that is written arrives, unless the channel ends: the         *)
(* retransmission timer finds what was lost (l2c_fcr_proc_tout).           *)
SdusArrive ==
    \A d \in Ends : \A n \in 1 .. Sdus(d) :
        ccb[d].wrote >= n ~> \/ Len(ccb[Peer(d)].rcvd) >= n
                            \/ ~ccb[d].open
=============================================================================
