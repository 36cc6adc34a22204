----------------------------- MODULE RfcommPort -----------------------------
(***************************************************************************)
(* RFCOMM ports over one multiplexer that is already connected: two ends,  *)
(* both running this code, negotiate (PN), open (SABME, UA), set up (MSC), *)
(* use and close (DISC) serial ports, and release the multiplexer when its *)
(* last port is gone.  Data is subject to credits.                         *)
(*                                                                         *)
(* The BTU task runs every handler and every call of the application to    *)
(* completion, so each is one step: an operator from an end's record to an *)
(* end's record.  L2CAP, underneath, delivers in order and loses nothing.  *)
(***************************************************************************)
EXTENDS Naturals, Sequences

CONSTANTS
    A, B,            \* the two ends; A is the multiplexer's initiator
    MAX_RFC_PORTS,   \* entries of the table of ports
    Ports,           \* the ports in use, by their place in the table
    ClientsOfA,      \* those opened from A; the others are opened from B
    credit_rx_max, credit_rx_low, rx_buf_critical,  \* from port_select_mtu
    RFCOMM_K_MAX,    \* most credits a PN frame can grant
    Full,            \* the buffers, by number, as long as peer_mtu
    MaxOpens,        \* bound: calls of RFCOMM_CreateConnection for a port
    WritesA, WritesB, \* bound: buffers written to a port at A and at B
    MaxHolds,        \* bound: times PORT_FlowControl(FALSE) or L2CAP holds data up
    MaxTimeouts      \* bound: port timers that expire before the answer

ASSUME RfcommAssumption ==
    /\ A # B
    /\ MAX_RFC_PORTS \in Nat
    /\ Ports \subseteq 1..MAX_RFC_PORTS /\ ClientsOfA \subseteq Ports
    /\ {credit_rx_max, rx_buf_critical, RFCOMM_K_MAX} \subseteq Nat \ {0}
    /\ credit_rx_low \in Nat /\ credit_rx_low < credit_rx_max
    /\ credit_rx_max <= rx_buf_critical
    /\ Full \subseteq Nat
    /\ {MaxOpens, WritesA, WritesB, MaxHolds, MaxTimeouts} \subseteq Nat

VARIABLES
    end,      \* end[s]: the multiplexer and the ports of end s
    wire,     \* wire[s]: frames on their way to end s
    written,  \* written[s][p]: buffers the application wrote
    early,    \* early[s][p]: those written when the peer had set up the port,
              \* but had not confirmed that this end did
    used      \* how much of each bound is used up

vars == <<end, wire, written, early, used>>

Sides == {A, B}
Peer(s) == IF s = A THEN B ELSE A
Client(p) == IF p \in ClientsOfA THEN A ELSE B
IsServer(s, p) == s # Client(p)
Writes(s) == IF s = A THEN WritesA ELSE WritesB

Least(x, y) == IF x < y THEN x ELSE y

k == Least(credit_rx_max, RFCOMM_K_MAX)

(* Control frames of a port, data with its credits, and frames of DLCI 0.  *)
Frame(t, p) == [t |-> t, p |-> p, n |-> 0, d |-> 0]
Credits(t, p, n) == [t |-> t, p |-> p, n |-> n, d |-> 0]
Data(p, n, d) == [t |-> "DATA", p |-> p, n |-> n, d |-> d]
Mx(t) == [t |-> t, p |-> 0, n |-> 0, d |-> 0]

PORT_CTRL == {"REQ_SENT", "REQ_CONFIRMED", "IND_RECEIVED"}

Unused ==
    [state |-> "CLOSED", rfc |-> "CLOSED", mcb |-> FALSE, keep |-> FALSE,
     rsp |-> {}, ctrl |-> {}, credit_tx |-> 0, credit_rx |-> 0,
     peer_fc |-> FALSE,    \* tx.peer_fc
     user_fc |-> FALSE,    \* rx.user_fc
     timer |-> FALSE, tx |-> <<>>, rx |-> <<>>]

Listening == [Unused EXCEPT !.state = "OPENING", !.keep = TRUE]

Put(e, p, q) == [e EXCEPT !.port[p] = q]

rfc_check_send_cmd(e, f) ==
    IF e.congested
    THEN [e EXCEPT !.cmd_q = Append(@, f)]
    ELSE [e EXCEPT !.out = Append(@, f)]

-----------------------------------------------------------------------------
(* Sending data *)

RFCOMM_DataReq(e, p, d) ==
    LET q == e.port[p]
        grant == IF d \notin Full /\ ~q.user_fc /\ credit_rx_max > q.credit_rx
                 THEN credit_rx_max - q.credit_rx
                 ELSE 0
    IN IF q.rfc # "OPENED"
       THEN e
       ELSE [Put(e, p, [q EXCEPT !.credit_rx = @ + grant,
                                 !.credit_tx = IF @ > 0 THEN @ - 1 ELSE 0,
                                 !.peer_fc = @ \/ q.credit_tx <= 1])
                EXCEPT !.out = Append(@, Data(p, grant, d))]

MaySend(e, p) == ~e.port[p].peer_fc /\ e.port[p].mcb /\ ~e.congested

(* A round of the loop of port_rfc_send_tx_data.                           *)
SendNext(e, p) ==
    IF MaySend(e, p) /\ e.port[p].tx # <<>>
    THEN RFCOMM_DataReq(Put(e, p, [e.port[p] EXCEPT !.tx = Tail(@)]), p, Head(e.port[p].tx))
    ELSE e

port_rfc_send_tx_data(e, p) ==
    LET n == Len(e.port[p].tx)
        round[i \in 0..n] == IF i = 0 THEN e ELSE SendNext(round[i - 1], p)
    IN round[n]

SetUp(q) == {"REQ_SENT", "IND_RECEIVED"} \subseteq q.ctrl

(* Mutant: does not wait for the exchange of the modem status.             *)
port_write_Unset(e, p, d) ==
    IF MaySend(e, p) /\ e.port[p].rfc = "OPENED"
    THEN RFCOMM_DataReq(e, p, d)
    ELSE Put(e, p, [e.port[p] EXCEPT !.tx = Append(@, d)])

port_write(e, p, d) ==
    IF MaySend(e, p) /\ e.port[p].rfc = "OPENED" /\ SetUp(e.port[p])
    THEN RFCOMM_DataReq(e, p, d)
    ELSE Put(e, p, [e.port[p] EXCEPT !.tx = Append(@, d)])

(* Mutant: the credits received replace those held.                        *)
rfc_inc_credit_Replaces(e, p, n) ==
    IF n = 0
    THEN e
    ELSE port_rfc_send_tx_data(
             Put(e, p, [e.port[p] EXCEPT !.credit_tx = n, !.peer_fc = FALSE]), p)

rfc_inc_credit(e, p, n) ==
    LET c == Put(e, p, [e.port[p] EXCEPT !.credit_tx = @ + n, !.peer_fc = FALSE])
    IN IF n = 0
       THEN e
       ELSE IF e.port[p].peer_fc
            THEN port_rfc_send_tx_data(c, p)
            ELSE c

port_get_credits(q, n) ==
    [q EXCEPT !.credit_tx = n, !.peer_fc = @ \/ n = 0]

(* Mutant: grants credit_rx_max on top of the credits that are left.       *)
port_flow_control_peer_OnTop(e, p, count) ==
    IF e.port[p].mcb
    THEN rfc_check_send_cmd([e EXCEPT !.port[p].credit_rx = @ + credit_rx_max],
                            Credits("CREDIT", p, credit_rx_max))
    ELSE e

(* port_flow_control_peer(p_port, TRUE, count) *)
port_flow_control_peer(e, p, count) ==
    LET q == e.port[p]
        left == q.credit_rx - Least(count, q.credit_rx)
    IN IF ~q.mcb
       THEN e
       ELSE IF left <= credit_rx_low /\ ~q.user_fc
            THEN rfc_check_send_cmd(Put(e, p, [q EXCEPT !.credit_rx = credit_rx_max]),
                                    Credits("CREDIT", p, credit_rx_max - left))
            ELSE Put(e, p, [q EXCEPT !.credit_rx = left])

-----------------------------------------------------------------------------
(* Closing *)

NoPorts(e) == \A p \in Ports : ~e.port[p].mcb

rfc_mx_close(e) ==
    IF e.mx = "CONNECTED"
    THEN rfc_check_send_cmd([e EXCEPT !.mx = "DISC_WAIT_UA", !.timer = TRUE], Mx("DISC"))
    ELSE e

rfc_check_mcb_active(e, is_disc_initiator) ==
    IF ~NoPorts(e)
    THEN e
    ELSE IF is_disc_initiator THEN rfc_mx_close(e) ELSE [e EXCEPT !.timer = TRUE]

(* A kept handle keeps expected_rsp, which port_set_defaults leaves alone. *)
port_release_port(q) == IF q.keep THEN [Listening EXCEPT !.rsp = q.rsp] ELSE Unused

(* What port_rfc_closed leaves of a port: a server that was not told of    *)
(* the connection yet only waits again.                                    *)
Closed(s, p, q) ==
    IF q.state = "OPENING" /\ IsServer(s, p)
    THEN [q EXCEPT !.timer = FALSE, !.rfc = "CLOSED", !.mcb = FALSE]
    ELSE port_release_port(q)

port_rfc_closed(e, p, is_disc_initiator) ==
    LET c == Put(e, p, Closed(e.self, p, e.port[p]))
    IN IF e.port[p].mcb THEN rfc_check_mcb_active(c, is_disc_initiator) ELSE c

CloseAll(e) ==
    [e EXCEPT !.port = [p \in Ports |->
        IF e.port[p].mcb THEN Closed(e.self, p, e.port[p]) ELSE e.port[p]]]

Port_TimeOutCloseMux(e) == rfc_check_mcb_active(CloseAll(e), FALSE)

rfc_release_multiplexer_channel(e) ==
    [e EXCEPT !.mx = "IDLE", !.timer = FALSE, !.cmd_q = <<>>, !.congested = FALSE]

PORT_CloseInd(e) == rfc_release_multiplexer_channel(CloseAll(e))

(* The channel of a released multiplexer carries nothing more.             *)
L2CA_DisconnectReq(e) == [e EXCEPT !.out = Append(@, Mx("HANGUP"))]

(* RFCOMM_RemoveConnection, and RFCOMM_RemoveServer when forget            *)
port_start_close(e, p, forget) ==
    LET q == [e.port[p] EXCEPT !.state = "CLOSING", !.keep = @ /\ ~forget]
        c == Put(e, p, q)
    IN CASE q.rfc = "CLOSED" \/ ~q.mcb ->
              LET r == Put(e, p, port_release_port(q))
              IN IF q.mcb THEN rfc_check_mcb_active(r, FALSE) ELSE r
         [] q.mcb /\ q.rfc \in {"SABME_WAIT_UA", "OPENED"} ->
              rfc_check_send_cmd(
                  Put(e, p, [q EXCEPT !.timer = TRUE, !.rsp = {}, !.rfc = "DISC_WAIT_UA"]),
                  Frame("DISC", p))
         [] q.mcb /\ q.rfc = "ORIG_WAIT_SEC_CHECK" -> port_rfc_closed(c, p, FALSE)
         [] OTHER -> c

-----------------------------------------------------------------------------
(* Opening *)

RFCOMM_ParNegReq(e, p) ==
    rfc_check_send_cmd(
        Put(e, p, [e.port[p] EXCEPT !.credit_rx = k, !.rsp = @ \cup {"PN"}, !.timer = TRUE]),
        Credits("PN", p, k))

RFCOMM_ControlReq(e, p) ==
    IF e.port[p].state = "OPENED" /\ e.port[p].rfc = "OPENED"
    THEN rfc_check_send_cmd(
             Put(e, p, [e.port[p] EXCEPT !.ctrl = @ \cup {"REQ_SENT"},
                                         !.rsp = @ \cup {"MSC"}, !.timer = TRUE]),
             Frame("MSC", p))
    ELSE e

port_find_dlci_port(e, p) ==
    IsServer(e.self, p) /\ e.port[p].state # "CLOSED" /\ ~e.port[p].mcb

PORT_ParNegInd(e, p, n) ==
    LET q == e.port[p]
    IN IF q.mcb \/ port_find_dlci_port(e, p)
       THEN rfc_check_send_cmd(
                Put(e, p, [port_get_credits(q, n) EXCEPT !.mcb = TRUE, !.credit_rx = k]),
                Credits("PNR", p, k))
       ELSE rfc_check_mcb_active(rfc_check_send_cmd(e, Frame("DM", p)), FALSE)

rfc_process_pn(e, f) ==
    LET p == f.p
        q == e.port[p]
        c == [port_get_credits(q, f.n) EXCEPT !.rsp = @ \ {"PN"}, !.timer = FALSE]
    IN CASE f.t = "PN" /\ e.mx = "DISC_WAIT_UA" -> rfc_check_send_cmd(e, Frame("DM", p))
         [] f.t = "PN" /\ e.mx # "DISC_WAIT_UA" -> PORT_ParNegInd(e, p, f.n)
         [] f.t = "PNR" /\ (~q.mcb \/ "PN" \notin q.rsp) -> e
         [] f.t = "PNR" /\ q.mcb /\ "PN" \in q.rsp ->
              IF q.state = "OPENING" /\ e.mx # "CONNECTED"
              THEN port_rfc_closed(Put(e, p, c), p, FALSE)
              ELSE Put(e, p, [c EXCEPT !.rfc =
                       IF q.state = "OPENING" /\ @ = "CLOSED"
                       THEN "ORIG_WAIT_SEC_CHECK" ELSE @])

(* The port is told PORT_SUCCESS even when RFCOMM_DlcEstablishRsp released *)
(* it because the multiplexer is being disconnected.                       *)
PORT_DlcEstablishInd(e, p) ==
    LET c == [e EXCEPT !.timer = FALSE]
        r == IF e.mx = "CONNECTED"
             THEN rfc_check_send_cmd([c EXCEPT !.port[p].rfc = "OPENED"], Frame("UA", p))
             ELSE port_rfc_closed(c, p, FALSE)
    IN [r EXCEPT !.port[p].state = "OPENED"]

(* The answer of the security manager.  A multiplexer that was released    *)
(* under a waiting port has no entry for it, so success changes nothing.   *)
rfc_sec_check_complete(e, p, ok) ==
    CASE e.port[p].rfc = "ORIG_WAIT_SEC_CHECK" /\ ok ->
           rfc_check_send_cmd(
               Put(e, p, [e.port[p] EXCEPT !.rfc = "SABME_WAIT_UA", !.timer = TRUE]),
               Frame("SABME", p))
      [] e.port[p].rfc = "ORIG_WAIT_SEC_CHECK" /\ ~ok -> port_rfc_closed(e, p, TRUE)
      [] e.port[p].rfc = "TERM_WAIT_SEC_CHECK" /\ ok ->
           IF e.mx = "IDLE" THEN e ELSE PORT_DlcEstablishInd(e, p)
      [] e.port[p].rfc = "TERM_WAIT_SEC_CHECK" /\ ~ok ->
           port_rfc_closed(rfc_check_send_cmd(e, Frame("DM", p)), p, TRUE)

-----------------------------------------------------------------------------
(* Frames of a port *)

DM(e, p) == rfc_check_send_cmd(e, Frame("DM", p))
UA(e, p) == rfc_check_send_cmd(e, Frame("UA", p))

OnSABME(e, p) ==
    LET c == IF e.port[p].mcb THEN e ELSE [e EXCEPT !.port[p].mcb = TRUE]
        rfc == e.port[p].rfc
    IN CASE ~e.port[p].mcb /\ ~port_find_dlci_port(e, p) -> DM(e, p)
         [] OTHER ->
              CASE rfc = "CLOSED" ->
                     [c EXCEPT !.port[p].rfc = "TERM_WAIT_SEC_CHECK", !.timer = FALSE]
                [] rfc \in {"SABME_WAIT_UA", "OPENED"} -> UA(c, p)
                [] rfc = "DISC_WAIT_UA" -> DM(c, p)
                [] OTHER -> c

OnUA(e, p) ==
    CASE e.port[p].rfc = "SABME_WAIT_UA" ->
           RFCOMM_ControlReq(
               [Put(e, p, [e.port[p] EXCEPT !.rfc = "OPENED", !.state = "OPENED",
                                            !.timer = FALSE])
                   EXCEPT !.timer = FALSE], p)
      [] e.port[p].rfc = "DISC_WAIT_UA" -> port_rfc_closed(e, p, TRUE)
      [] OTHER -> e

OnDM(e, p) ==
    CASE e.port[p].rfc = "SABME_WAIT_UA" -> port_rfc_closed(e, p, TRUE)
      [] e.port[p].rfc \in {"CLOSED", "OPENED", "DISC_WAIT_UA"} -> port_rfc_closed(e, p, FALSE)
      [] OTHER -> e

OnDISC(e, p) ==
    LET rfc == e.port[p].rfc
    IN CASE rfc \in {"CLOSED", "DISC_WAIT_UA"} -> DM(e, p)
         [] rfc \in {"SABME_WAIT_UA", "TERM_WAIT_SEC_CHECK"}
            \/ (rfc = "OPENED" /\ e.port[p].rx = <<>>) ->
              port_rfc_closed(UA(e, p), p, FALSE)
         [] rfc = "OPENED" /\ e.port[p].rx # <<>> ->
              UA(Put(e, p, [e.port[p] EXCEPT !.rfc = "CLOSED", !.timer = TRUE]), p)
         [] OTHER -> e

(* Data is delivered, or dropped with the credits it carries still counted *)
OnDATA(e, f) ==
    LET p == f.p
        rfc == e.port[p].rfc
        c == CASE rfc = "OPENED" /\ Len(e.port[p].rx) < rx_buf_critical ->
                    Put(e, p, [e.port[p] EXCEPT !.rx = Append(@, f.d)])
               [] rfc \in {"CLOSED", "DISC_WAIT_UA"} -> DM(e, p)
               [] OTHER -> e
    IN rfc_inc_credit(c, p, f.n)

(* Mutant: a server that is told the modem status does not tell its own.   *)
rfc_process_msc_OneSided(e, f) ==
    CASE ~e.port[f.p].mcb -> e
      [] e.port[f.p].mcb /\ f.t = "MSC" ->
           rfc_check_send_cmd([e EXCEPT !.port[f.p].ctrl = @ \cup {"IND_RECEIVED"}],
                              Frame("MSCR", f.p))
      [] e.port[f.p].mcb /\ f.t = "MSCR" ->
           [e EXCEPT !.port[f.p].rsp = @ \ {"MSC"}, !.port[f.p].timer = FALSE,
                     !.port[f.p].ctrl = @ \cup {"REQ_CONFIRMED"}]

rfc_process_msc(e, f) ==
    LET p == f.p
        q == e.port[p]
        r == rfc_check_send_cmd(e, Frame("MSCR", p))
        c == CASE "REQ_SENT" \notin q.ctrl -> RFCOMM_ControlReq(r, p)
               [] {"REQ_SENT", "REQ_CONFIRMED"} \subseteq q.ctrl -> port_rfc_send_tx_data(r, p)
               [] OTHER -> r
        cnf == Put(e, p, [q EXCEPT !.rsp = @ \ {"MSC"}, !.timer = FALSE,
                                   !.ctrl = @ \cup {"REQ_CONFIRMED"}])
    IN CASE ~q.mcb -> e
         [] q.mcb /\ f.t = "MSC" -> [c EXCEPT !.port[p].ctrl = @ \cup {"IND_RECEIVED"}]
         [] q.mcb /\ f.t = "MSCR" /\ "MSC" \notin q.rsp -> e
         [] q.mcb /\ f.t = "MSCR" /\ "MSC" \in q.rsp ->
              IF "IND_RECEIVED" \in q.ctrl THEN port_rfc_send_tx_data(cnf, p) ELSE cnf

(* Frames of the multiplexer *)
OnMx(e, t) ==
    LET ua == rfc_check_send_cmd(e, Mx("UA"))
    IN CASE t = "HANGUP" -> PORT_CloseInd(e)
         [] t = "DISC" /\ e.mx = "DISC_WAIT_UA" -> ua
         [] t = "DISC" /\ e.mx = "CONNECTED" ->
              PORT_CloseInd(IF e.self = A THEN L2CA_DisconnectReq(ua) ELSE ua)
         [] t = "UA" /\ e.mx = "DISC_WAIT_UA" ->
              rfc_release_multiplexer_channel(L2CA_DisconnectReq(e))
         [] OTHER -> e

RFCOMM_BufDataInd(e, f) ==
    LET p == f.p
    IN CASE e.mx = "IDLE" -> e
         [] e.mx # "IDLE" /\ p = 0 -> OnMx(e, f.t)
         [] e.mx # "IDLE" /\ p # 0 ->
              CASE f.t \in {"PN", "PNR"} -> rfc_process_pn(e, f)
                [] f.t \in {"MSC", "MSCR"} -> rfc_process_msc(e, f)
                [] f.t = "SABME" -> OnSABME(e, p)
                [] f.t \in {"UA", "DM"} /\ ~e.port[p].mcb -> e
                [] f.t \in {"DISC", "DATA", "CREDIT"} /\ ~e.port[p].mcb -> DM(e, p)
                [] f.t = "UA" /\ e.port[p].mcb -> OnUA(e, p)
                [] f.t = "DM" /\ e.port[p].mcb -> OnDM(e, p)
                [] f.t = "DISC" /\ e.port[p].mcb -> OnDISC(e, p)
                [] f.t = "DATA" /\ e.port[p].mcb -> OnDATA(e, f)
                [] f.t = "CREDIT" /\ e.port[p].mcb -> rfc_inc_credit(e, p, f.n)

(* rfc_port_sm_execute with RFC_EVENT_TIMEOUT                              *)
PortExpires(e, p) ==
    LET c == [e EXCEPT !.port[p].timer = FALSE]
    IN CASE e.port[p].rfc \in {"CLOSED", "OPENED"} -> Port_TimeOutCloseMux(c)
         [] e.port[p].rfc \in {"SABME_WAIT_UA", "DISC_WAIT_UA"} -> port_rfc_closed(c, p, FALSE)
         [] OTHER -> c

(* rfc_mx_sm_execute with RFC_EVENT_TIMEOUT                                *)
MxExpires(e) ==
    LET c == [e EXCEPT !.timer = FALSE]
    IN CASE e.mx = "CONNECTED" -> rfc_mx_close(c)
         [] e.mx = "DISC_WAIT_UA" -> rfc_release_multiplexer_channel(L2CA_DisconnectReq(c))
         [] OTHER -> c

-----------------------------------------------------------------------------
Init ==
    /\ end = [s \in Sides |->
           [self |-> s, mx |-> "CONNECTED", timer |-> FALSE, congested |-> FALSE,
            cmd_q |-> <<>>, out |-> <<>>,
            port |-> [p \in Ports |-> IF IsServer(s, p) THEN Listening ELSE Unused]]]
    /\ wire = [s \in Sides |-> <<>>]
    /\ written = [s \in Sides |-> [p \in Ports |-> 0]]
    /\ early = [s \in Sides |-> [p \in Ports |-> {}]]
    /\ used = [opens |-> [p \in Ports |-> 0], holds |-> 0, timeouts |-> 0]

(* End s becomes e; what it sent goes on the wire to its peer.             *)
Becomes(s, e) ==
    /\ end' = [end EXCEPT ![s] = [e EXCEPT !.out = <<>>]]
    /\ wire' = [wire EXCEPT ![Peer(s)] = @ \o e.out]

Runs(s, e) == Becomes(s, e) /\ UNCHANGED <<written, early, used>>

RFCOMM_CreateConnection(p) ==
    LET s == Client(p)
        e == [end[s] EXCEPT !.timer = FALSE,
                 !.port[p] = [Unused EXCEPT !.state = "OPENING", !.mcb = TRUE]]
    IN /\ end[s].port[p].state = "CLOSED"
       /\ end[s].mx = "CONNECTED"
       /\ used.opens[p] < MaxOpens
       /\ used' = [used EXCEPT !.opens[p] = @ + 1]
       /\ Becomes(s, RFCOMM_ParNegReq(e, p))
       /\ UNCHANGED <<written, early>>

(* Of a server that listens, only the server itself is removed             *)
(* (bta_jv_free_sr_rfc_cb).                                                *)
RemovePort(s, p, forget) ==
    /\ end[s].port[p].state \in {"OPENING", "OPENED"}
    /\ IsServer(s, p) /\ ~forget => end[s].port[p].state = "OPENED"
    /\ forget => IsServer(s, p)
    /\ Runs(s, port_start_close(end[s], p, forget))

SecurityAnswers(s, p, ok) ==
    /\ end[s].port[p].rfc \in {"ORIG_WAIT_SEC_CHECK", "TERM_WAIT_SEC_CHECK"}
    /\ ok \/ end[s].mx # "IDLE"   \* DM is queued to a queue that is gone: an assertion
    /\ Runs(s, rfc_sec_check_complete(end[s], p, ok))

PORT_Write(s, p) ==
    LET q == end[s].port[p]
        d == written[s][p] + 1
    IN /\ q.state \in {"OPENING", "OPENED"}
       /\ IsServer(s, p) => q.rfc = "OPENED"
       /\ written[s][p] < Writes(s)
       /\ written' = [written EXCEPT ![s][p] = d]
       /\ early' = [early EXCEPT ![s][p] =
              IF SetUp(q) /\ "REQ_CONFIRMED" \notin q.ctrl THEN @ \cup {d} ELSE @]
       /\ Becomes(s, port_write(end[s], p, d))
       /\ UNCHANGED used

PORT_Read(s, p) ==
    /\ end[s].port[p].state = "OPENED"
    /\ end[s].port[p].rx # <<>>
    /\ Runs(s, port_flow_control_peer([end[s] EXCEPT !.port[p].rx = Tail(@)], p, 1))

PORT_FlowControl(s, p, enable) ==
    LET c == [end[s] EXCEPT !.port[p].user_fc = ~enable]
    IN /\ end[s].port[p].state = "OPENED" /\ end[s].port[p].mcb
       /\ end[s].port[p].user_fc = enable
       /\ enable \/ used.holds < MaxHolds
       /\ used' = IF enable THEN used ELSE [used EXCEPT !.holds = @ + 1]
       /\ Becomes(s, IF enable THEN port_flow_control_peer(c, p, 0) ELSE c)
       /\ UNCHANGED <<written, early>>

Receive(s) ==
    /\ wire[s] # <<>>
    /\ LET e == RFCOMM_BufDataInd(end[s], Head(wire[s]))
       IN /\ end' = [end EXCEPT ![s] = [e EXCEPT !.out = <<>>]]
          /\ wire' = [wire EXCEPT ![s] = Tail(@), ![Peer(s)] = @ \o e.out]
    /\ UNCHANGED <<written, early, used>>

Congestion(s) ==
    /\ end[s].mx # "IDLE" /\ ~end[s].congested
    /\ used.holds < MaxHolds
    /\ used' = [used EXCEPT !.holds = @ + 1]
    /\ end' = [end EXCEPT ![s].congested = TRUE]
    /\ UNCHANGED <<wire, written, early>>

(* Mutant: the commands that waited are sent, the ports are not told.      *)
CongestionEndsUntold(s) ==
    /\ end[s].congested
    /\ Runs(s, [end[s] EXCEPT !.congested = FALSE, !.cmd_q = <<>>, !.out = end[s].cmd_q])

(* PORT_FlowInd for every open port                                        *)
PORT_FlowInd(e) ==
    LET told[i \in 0..MAX_RFC_PORTS] ==
            IF i = 0 THEN e
            ELSE IF i \in Ports /\ e.port[i].mcb /\ e.port[i].rfc = "OPENED"
                 THEN port_rfc_send_tx_data(told[i - 1], i)
                 ELSE told[i - 1]
    IN told[MAX_RFC_PORTS]

(* rfc_process_l2cap_congestion                                            *)
CongestionEnds(s) ==
    /\ end[s].congested
    /\ Runs(s, PORT_FlowInd([end[s] EXCEPT !.congested = FALSE, !.cmd_q = <<>>,
                                            !.out = end[s].cmd_q]))

(* No answer is on its way, and no user is deciding about a connection.    *)
Quiet ==
    \A s \in Sides :
        /\ wire[s] = <<>> /\ end[s].cmd_q = <<>>
        /\ \A p \in Ports : end[s].port[p].rfc # "TERM_WAIT_SEC_CHECK"

(* A timer that awaits an answer expires early MaxTimeouts times; others   *)
(* expire at any time.                                                     *)
Expires(soon) ==
    /\ soon => used.timeouts < MaxTimeouts
    /\ used' = IF soon THEN [used EXCEPT !.timeouts = @ + 1] ELSE used

(* With data left to read when the peer has closed, the timer awaits none. *)
PortTimeout(s, p) ==
    LET q == end[s].port[p]
    IN /\ q.timer
       /\ Expires(~Quiet /\ (q.rfc # "CLOSED" \/ q.rsp # {}))
       /\ Becomes(s, PortExpires(end[s], p))
       /\ UNCHANGED <<written, early>>

(* A multiplexer without ports waits for nothing but a client to come back *)
MxTimeout(s) ==
    /\ end[s].timer
    /\ Expires(~Quiet /\ end[s].mx = "DISC_WAIT_UA")
    /\ Becomes(s, MxExpires(end[s]))
    /\ UNCHANGED <<written, early>>

Next ==
    \/ \E p \in Ports : RFCOMM_CreateConnection(p)
    \/ \E s \in Sides :
         \/ Receive(s)
         \/ Congestion(s)
         \/ CongestionEnds(s)
         \/ MxTimeout(s)
         \/ \E p \in Ports :
              \/ PORT_Write(s, p)
              \/ PORT_Read(s, p)
              \/ PortTimeout(s, p)
              \/ \E b \in BOOLEAN :
                   \/ RemovePort(s, p, b)
                   \/ SecurityAnswers(s, p, b)
                   \/ PORT_FlowControl(s, p, b)

Spec == Init /\ [][Next]_vars

Answers(s) ==
    \/ CongestionEnds(s)
    \/ \E p \in Ports : \E ok \in BOOLEAN : SecurityAnswers(s, p, ok)

Expiry(s) == MxTimeout(s) \/ \E p \in Ports : PortTimeout(s, p)

Application(s) ==
    \E p \in Ports : PORT_Read(s, p) \/ PORT_FlowControl(s, p, TRUE)

(* The BTU task handles what arrives and what L2CAP and the security       *)
(* manager answer, timers run out, and the applications read and, once     *)
(* they stopped the flow, start it again.  Nobody has to open, write,      *)
(* close or stop anything.                                                 *)
Fairness ==
    \A s \in Sides :
        /\ WF_vars(Receive(s)) /\ WF_vars(Answers(s))
        /\ WF_vars(Expiry(s)) /\ WF_vars(Application(s))

FairSpec == Spec /\ Fairness

-----------------------------------------------------------------------------
(* Properties *)

States == {"CLOSED", "ORIG_WAIT_SEC_CHECK", "TERM_WAIT_SEC_CHECK",
           "SABME_WAIT_UA", "OPENED", "DISC_WAIT_UA"}

Buffers == 1..(WritesA + WritesB)

Port == [state : {"CLOSED", "OPENING", "OPENED", "CLOSING"}, rfc : States,
         mcb : BOOLEAN, keep : BOOLEAN, rsp : SUBSET {"PN", "MSC"}, ctrl : SUBSET PORT_CTRL,
         credit_tx : Nat, credit_rx : 0..credit_rx_max, peer_fc : BOOLEAN,
         user_fc : BOOLEAN, timer : BOOLEAN, tx : Seq(Buffers), rx : Seq(Buffers)]

(* Data carries a buffer; that the channel is gone concerns no single port. *)
Frames ==
    {f \in [t : {"PN", "PNR", "MSC", "MSCR", "SABME", "UA", "DM", "DISC",
                 "DATA", "CREDIT", "HANGUP"},
            p : Ports \cup {0}, n : 0..credit_rx_max, d : {0} \cup Buffers] :
        /\ f.t = "DATA" => f.d \in Buffers
        /\ f.t = "HANGUP" => f.p = 0}

End == [self : Sides, mx : {"IDLE", "CONNECTED", "DISC_WAIT_UA"}, timer : BOOLEAN,
        congested : BOOLEAN, cmd_q : Seq(Frames), out : {<<>>}, port : [Ports -> Port]]

(* The ends, the frames and the counters are what the code declares them   *)
(* to be; in particular no end ever grants more than credit_rx_max.        *)
TypeOK ==
    /\ end \in [Sides -> End]
    /\ wire \in [Sides -> Seq(Frames)]
    /\ written \in [Sides -> [Ports -> {0} \cup Buffers]]
    /\ early \in [Sides -> [Ports -> SUBSET Buffers]]
    /\ used \in [opens : [Ports -> 0..MaxOpens], holds : 0..MaxHolds,
                 timeouts : 0..MaxTimeouts]

BothOpened(p) == \A s \in Sides : end[s].port[p].rfc = "OPENED"

(* The frames of q that are in T, and the credits the frames of q carry.   *)
Only(q, T) ==
    LET kept[i \in 0..Len(q)] ==
            IF i = 0 THEN <<>>
            ELSE IF q[i] \in T THEN Append(kept[i - 1], q[i]) ELSE kept[i - 1]
    IN kept[Len(q)]

Granted(q) ==
    LET sum[i \in 0..Len(q)] == IF i = 0 THEN 0 ELSE sum[i - 1] + q[i].n
    IN sum[Len(q)]

(* What is on its way to s for port p.                                     *)
Pipe(s) == wire[s] \o end[Peer(s)].cmd_q

Coming(s, p, kinds) == Only(Pipe(s), {f \in Frames : f.p = p /\ f.t \in kinds})

CreditsComing(s, p) == Granted(Coming(s, p, {"DATA", "CREDIT"}))

(* While a port is open at both ends, the credits that s holds, those on   *)
(* their way to it, the buffers it sent and those its peer has not read    *)
(* are what the peer has granted: no credit is lost when a frame has to    *)
(* wait, when the flow is stopped or when it travels with data, and no     *)
(* buffer is dropped.                                                      *)
CreditsConserved ==
    \A s \in Sides, p \in Ports :
        BothOpened(p) =>
            end[s].port[p].credit_tx + CreditsComing(s, p)
                + Len(Coming(Peer(s), p, {"DATA"})) + Len(end[Peer(s)].port[p].rx)
            = end[Peer(s)].port[p].credit_rx

(* What s wrote to p that the peer's application has not read, in the      *)
(* order in which it will.                                                 *)
Stream(s, p) ==
    LET data == Coming(Peer(s), p, {"DATA"})
    IN end[Peer(s)].port[p].rx \o [i \in DOMAIN data |-> data[i].d] \o end[s].port[p].tx

(* While a port is open at both ends, the buffers are in the order in      *)
(* which they were written.  Only one that was written when the peer had   *)
(* set up the port, but had not confirmed that this end did, may have      *)
(* overtaken those that port_write queued before.                          *)
InOrder ==
    \A s \in Sides, p \in Ports :
        LET f == Stream(s, p)
        IN BothOpened(p) =>
             \A i, j \in DOMAIN f : i < j => f[i] < f[j] \/ f[i] \in early[s][p]

(* A port that waits with data for its peer has a reason to: the peer owes *)
(* it credits, the setup is not over, or L2CAP is congested.               *)
NoIdleData ==
    \A s \in Sides, p \in Ports :
        LET q == end[s].port[p]
        IN q.rfc = "OPENED" /\ q.tx # <<>> =>
             q.credit_tx = 0 \/ ~SetUp(q) \/ "REQ_CONFIRMED" \notin q.ctrl \/ end[s].congested

(* A multiplexer that was released has no port bound to it.                *)
NoOrphans ==
    \A s \in Sides : end[s].mx = "IDLE" => NoPorts(end[s])

(* Nobody waits for ever: not a client for its connection, nor a buffer    *)
(* that was written for the setup, for credits or for L2CAP; and while the *)
(* multiplexer is up, a port is not in use at one end only.                *)
Waiting ==
    \/ \E p \in Ports : end[Client(p)].port[p].state = "OPENING"
    \/ \E s \in Sides, p \in Ports : end[s].port[p].tx # <<>>
    \/ /\ \A s \in Sides : end[s].mx # "IDLE"
       /\ \E p \in Ports : end[A].port[p].mcb # end[B].port[p].mcb

WaitsEnd == Waiting ~> ~Waiting
=============================================================================
