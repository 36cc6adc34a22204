---------------------------- MODULE L2capChannel ----------------------------
(***************************************************************************)
(* L2CAP connection-oriented channels: the channel state machine           *)
(* (l2c_csm.c), the signalling commands that drive it (process_l2cap_cmd), *)
(* the control-block pool and the message builders (l2c_utils.c), the API  *)
(* calls (l2c_api.c) and the link events (l2c_link.c), in two devices that *)
(* both run this code over one ACL link.                                   *)
(*                                                                         *)
(* Every handler runs to completion in the BTU task, so a handler is one   *)
(* step.  It is an operator from a device record to a device record; the   *)
(* commands it sends collect in the field "out" until the step commits.    *)
(* External: the applications above L2CAP, the security manager (answers   *)
(* at once, later or never for a link that is gone) and the controller.    *)
(***************************************************************************)
EXTENDS Naturals, Sequences, SequencesExt, FiniteSets

CONSTANTS
    A, B,          \* the two devices
    PoolA, PoolB,  \* MAX_L2CAP_CHANNELS of each
    Connected,     \* whether the behaviour starts with a link whose features are known
    Failing,       \* devices on which checks and configurations may fail or be put off
    Callers,       \* devices whose application opens channels
    MaxConn,       \* bound: L2CA_ConnectReq calls per device
    MaxCfg,        \* bound: configuration requests, pending and negative answers per device
    MaxDrop        \* bound: losses of the link, and answers to INFO_REQ that come late

ASSUME DeviceAssumption ==
    /\ A # B
    /\ Connected \in BOOLEAN
    /\ Failing \cup Callers \subseteq {A, B}
    /\ {PoolA, PoolB} \subseteq Nat \ {0}
    /\ {MaxConn, MaxCfg, MaxDrop} \subseteq Nat

VARIABLES
    dev,    \* dev[d]: L2CAP's control blocks on device d
    net,    \* net[d]: signalling commands on their way to d
    evt,    \* evt[d]: the HCI link event the host of d has not seen yet
    phys,   \* whether the controllers have an ACL link
    drops   \* number of losses and late answers so far

vars == <<dev, net, evt, phys, drops>>

Dev == {A, B}
Peer(d) == IF d = A THEN B ELSE A
Cids(d) == 1 .. (IF d = A THEN PoolA ELSE PoolB)
NoCid == 0

(* CST_CLOSED ... CST_W4_L2CA_DISCONNECT_RSP *)
States == {"CLOSED", "ORIG_W4_SEC_COMP", "TERM_W4_SEC_COMP",
           "W4_L2CAP_CONNECT_RSP", "W4_L2CA_CONNECT_RSP", "CONFIG", "OPEN",
           "W4_L2CAP_DISCONNECT_RSP", "W4_L2CA_DISCONNECT_RSP"}

(* What a channel's owner knows and still has to do: it holds the CID, has *)
(* to answer a ConnectInd, a ConfigInd or a DisconnectInd, or has to react *)
(* to a refused configuration.                                             *)
Duties == {"own", "connrsp", "cfgrsp", "discrsp", "recfg"}

NoCcb == [used |-> FALSE, st |-> "CLOSED", rcid |-> NoCid, lid |-> 0,
          rid |-> 0, cfg |-> {}, timer |-> FALSE, pnd |-> FALSE,
          noretry |-> FALSE, modes |-> TRUE, indid |-> 0]

InitDev(d) ==
    [ccb |-> [c \in Cids(d) |-> NoCcb],
     free |-> [i \in Cids(d) |-> i],       \* p_free_ccb_first ..
     chans |-> <<>>,                       \* p_lcb->ccb_queue
     sec |-> NoCid, delay |-> FALSE,       \* whose check btm_sec works on (p_callback, p_ref_data)
     again |-> FALSE, orphan |-> FALSE,    \* sec_req_pending; history: a check was dropped
     id |-> 0, w4info |-> FALSE,
     link |-> IF Connected THEN "connected" ELSE "none", pending |-> NoCid,
     app |-> [c \in Cids(d) |-> {}],
     conns |-> 0, cfgs |-> 0, out |-> <<>>]

Init ==
    /\ dev = [d \in Dev |-> InitDev(d)]
    /\ net = [d \in Dev |-> <<>>]
    /\ evt = [d \in Dev |-> "none"]
    /\ phys = Connected
    /\ drops = 0

(* A step of device d ends in the record D; what it sent follows what is   *)
(* already on its way, unless the link is gone.                            *)
Commit(d, D, rest) ==
    /\ dev' = [dev EXCEPT ![d] = [D EXCEPT !.out = <<>>]]
    /\ net' = [net EXCEPT ![d] = rest,
                          ![Peer(d)] = IF phys THEN @ \o D.out ELSE @]

---------------------------------------------------------------------------
(* l2c_utils.c *)

Send(D, m) == [D EXCEPT !.out = Append(@, m)]

(* p_lcb->id++ and l2cu_adj_id: one byte, never 0. *)
NextId(i) == IF (i + 1) % 256 = 0 THEN 1 ELSE (i + 1) % 256

(* A request takes a new identifier and the channel remembers it. *)
SendRequest(D, c, m) ==
    LET i == NextId(D.id)
    IN  Send([D EXCEPT !.id = i, !.ccb[c].lid = i], [m EXCEPT !.id = i])

SendConnectReq(D, c) ==
    SendRequest(D, c, [cmd |-> "CONN_REQ", id |-> 0, scid |-> c])

(* A pending answer is sent once per channel (CCB_FLAG_SENT_PENDING). *)
SendConnectRsp(D, c, result) ==
    IF result = "PENDING" /\ D.ccb[c].pnd
    THEN D
    ELSE Send([D EXCEPT !.ccb[c].pnd = (result = "PENDING") \/ @],
              [cmd |-> "CONN_RSP", id |-> D.ccb[c].rid, dcid |-> c,
               scid |-> D.ccb[c].rcid, result |-> result])

RejectConnection(D, rcid, id) ==
    Send(D, [cmd |-> "CONN_RSP", id |-> id, dcid |-> NoCid,
             scid |-> rcid, result |-> "NEG"])

SendConfigReq(D, c) ==
    SendRequest(D, c, [cmd |-> "CONFIG_REQ", id |-> 0, dcid |-> D.ccb[c].rcid])

SendConfigRsp(D, c, result) ==
    Send(D, [cmd |-> "CONFIG_RSP", id |-> D.ccb[c].rid,
             scid |-> D.ccb[c].rcid, result |-> result])

SendDiscReq(D, c) ==
    SendRequest(D, c, [cmd |-> "DISC_REQ", id |-> 0, dcid |-> D.ccb[c].rcid,
                       scid |-> c])

SendDiscRsp(D, id, lcid, rcid) ==
    Send(D, [cmd |-> "DISC_RSP", id |-> id, dcid |-> lcid, scid |-> rcid])

SendInfoReq(D, type) ==
    LET i == NextId(D.id)
    IN  Send([D EXCEPT !.id = i, !.w4info = TRUE],
             [cmd |-> "INFO_REQ", id |-> i, type |-> type])

(* The control block at the head of the free list; the remote CID and the  *)
(* identifiers of its last use stay in it.                                 *)
AllocateCcb(D) ==
    LET c == Head(D.free)
    IN  [D EXCEPT !.free = Tail(@), !.chans = Append(@, c),
                  !.ccb[c] = [@ EXCEPT !.used = TRUE, !.st = "CLOSED",
                                       !.cfg = {}, !.timer = FALSE,
                                       !.pnd = FALSE, !.noretry = FALSE,
                                       !.modes = TRUE]]

(* Mutant: the control block is not taken off the link's queue. *)
ReleaseCcbKeepsQueue(D, c) ==
    IF ~D.ccb[c].used
    THEN D
    ELSE [D EXCEPT !.ccb[c].used = FALSE, !.ccb[c].timer = FALSE,
                   !.free = Append(@, c)]

(* l2cu_dequeue_ccb *)
Unlink(q, c) == RemoveAt(q, CHOOSE i \in DOMAIN q : q[i] = c)

ReleaseCcb(D, c) ==
    IF ~D.ccb[c].used
    THEN D
    ELSE [D EXCEPT !.ccb[c].used = FALSE, !.ccb[c].timer = FALSE,
                   !.free = Append(@, c), !.chans = Unlink(@, c)]

(* l2cu_find_ccb_by_cid *)
Finds(D, c) == c \in DOMAIN D.ccb /\ D.ccb[c].used

(* A callback that ends the owner's interest in the channel. *)
Tell(D, c) == [D EXCEPT !.app[c] = {}]
ReleaseAndTell(D, c) == Tell(ReleaseCcb(D, c), c)

Enter(D, c, st) == [D EXCEPT !.ccb[c].st = st]
StartTimer(D, c) == [D EXCEPT !.ccb[c].timer = TRUE]
StopTimer(D, c) == [D EXCEPT !.ccb[c].timer = FALSE]
Owes(D, c, duties) == [D EXCEPT !.app[c] = @ \cup duties]

(* Ask the peer to close and wait for its answer. *)
StartDisconnect(D, c) ==
    StartTimer(Enter(SendDiscReq(D, c), c, "W4_L2CAP_DISCONNECT_RSP"), c)

(* Mutant: the peer is not told. *)
DisconnectChnlSilently(D, c) == ReleaseAndTell(D, c)

(* Mutant: the owner is not told. *)
DisconnectChnlNoInd(D, c) == ReleaseCcb(SendDiscReq(D, c), c)

(* l2cu_disconnect_chnl: ask the peer to close and do not wait. *)
DisconnectChnl(D, c) == ReleaseAndTell(SendDiscReq(D, c), c)

(* A loop over the channels of the link, in the order of its list.         *)
Each(Handler(_, _), D) ==
    LET E[i \in 0 .. Len(D.chans)] ==
            IF i = 0 THEN D ELSE Handler(E[i - 1], D.chans[i])
    IN  E[Len(D.chans)]

(* The loops that continue with p_ccb->p_next_ccb after the handler ran: a *)
(* handler that releases its control block puts it at the end of the free  *)
(* list, so the loop ends there.                                           *)
EachUntilReleased(Handler(_, _), D) ==
    Each(LAMBDA E, c : IF E.chans = D.chans THEN Handler(E, c) ELSE E, D)

---------------------------------------------------------------------------
(* Connection: security, the peer's features, the request and its answer   *)

(* Mutant: the answer is not timed. *)
StartConnectUntimed(D, c) ==
    IF D.ccb[c].modes THEN SendConnectReq(D, c) ELSE ReleaseAndTell(D, c)

(* The connection request, once the peer's features are known; a channel   *)
(* none of whose modes the peer supports is given up.                      *)
StartConnect(D, c) ==
    IF D.ccb[c].modes
    THEN StartTimer(SendConnectReq(D, c), c)
    ELSE ReleaseAndTell(D, c)

(* pL2CA_ConnectInd_Cb; the application keeps the identifier it is given.  *)
ConnectInd(D, c) ==
    Owes([StartTimer(D, c) EXCEPT !.ccb[c].indid = D.ccb[c].rid],
         c, {"own", "connrsp"})

(* L2CEVT_SEC_COMP in the states that wait for it. *)
SecComp(D, c) ==
    CASE D.ccb[c].st \in {"CLOSED", "ORIG_W4_SEC_COMP"} ->
            LET E == Enter(D, c, "W4_L2CAP_CONNECT_RSP")
            IN  IF D.w4info THEN E ELSE StartConnect(E, c)
      [] D.ccb[c].st = "TERM_W4_SEC_COMP" ->
            LET E == Enter(D, c, "W4_L2CA_CONNECT_RSP")
            IN  IF D.w4info
                THEN SendConnectRsp(E, c, "PENDING")
                ELSE ConnectInd(E, c)
      [] OTHER -> D

(* L2CEVT_SEC_COMP_NEG *)
SecCompNeg(D, c) ==
    CASE D.ccb[c].st \in {"CLOSED", "ORIG_W4_SEC_COMP"} -> ReleaseAndTell(D, c)
      [] D.ccb[c].st = "TERM_W4_SEC_COMP" ->
            ReleaseCcb(SendConnectRsp(D, c, "NEG"), c)
      [] OTHER -> D

(* btm_sec_l2cap_access_req: the answer comes in the call, or later to     *)
(* l2c_link_sec_comp.  The security manager works on one check of a device *)
(* at a time; a check that finds it busy is asked again when it is free.   *)
(* An accepting device that has not seen the encryption yet is told to     *)
(* wait a little (BTM_DELAY_CHECK).                                        *)
AccessReq(D, c, answer) ==
    CASE answer = "SUCCESS" -> SecComp(D, c)
      [] answer = "FAIL" -> SecCompNeg(D, c)
      [] answer \in {"STARTED", "DELAY"} /\ D.sec # NoCid -> [D EXCEPT !.again = TRUE]
      [] answer = "STARTED" /\ D.sec = NoCid -> [D EXCEPT !.sec = c, !.delay = FALSE]
      [] answer = "DELAY" /\ D.sec = NoCid ->
            StartTimer([D EXCEPT !.sec = c, !.delay = TRUE], c)

WaitsForSecurity(D, c) ==
    D.ccb[c].used /\ D.ccb[c].st \in {"ORIG_W4_SEC_COMP", "TERM_W4_SEC_COMP"}

(* l2cu_resubmit_pending_sec_req: every channel that waits asks again. *)
Resubmit(D, answer) ==
    Each(LAMBDA E, c : IF WaitsForSecurity(E, c) THEN AccessReq(E, c, answer) ELSE E, D)

(* btm_sec_abort_access_req, called for channel c: authentication and      *)
(* authorization are dropped, whichever channel they are for; other        *)
(* procedures go on.  The checks that wait for their turn are not asked    *)
(* again.                                                                  *)
AbortAccessReq(D, c, aborts) ==
    IF D.sec # NoCid /\ ~D.delay /\ aborts
    THEN [D EXCEPT !.sec = NoCid,
                   !.orphan = @ \/ \E e \in DOMAIN D.ccb \ {c} : WaitsForSecurity(D, e)]
    ELSE D

Answers(d) == {"STARTED", "SUCCESS"} \cup (IF d \in Failing THEN {"FAIL"} ELSE {})

(* Mutant: an accepted connection is forgotten when the features arrive. *)
InfoRspEventOrigOnly(D, c) ==
    IF D.ccb[c].st = "W4_L2CAP_CONNECT_RSP" THEN StartConnect(D, c) ELSE D

(* L2CEVT_L2CAP_INFO_RSP *)
InfoRspEvent(D, c) ==
    CASE D.ccb[c].st = "W4_L2CAP_CONNECT_RSP" -> StartConnect(D, c)
      [] D.ccb[c].st = "W4_L2CA_CONNECT_RSP" -> ConnectInd(D, c)
      [] OTHER -> D

InfoRspAll(D) == EachUntilReleased(InfoRspEvent, D)

---------------------------------------------------------------------------
(* Calls of the application (l2c_api.c) *)

(* L2CA_ErtmConnectReq with a free control block. *)
L2CA_ConnectReq(d, modes, answer) ==
    LET D == AllocateCcb([dev[d] EXCEPT !.conns = @ + 1])
        c == Head(dev[d].free)
        E == [D EXCEPT !.ccb[c].modes = modes, !.app[c] = {"own"}]
    IN  /\ dev[d].free # <<>>
        /\ d \in Callers /\ dev[d].conns < MaxConn
        /\ modes \/ d \in Failing
        /\ \/ /\ E.link = "connected"
              /\ Commit(d, IF answer = "STARTED"
                           THEN Enter(AccessReq(E, c, answer), c, "ORIG_W4_SEC_COMP")
                           ELSE AccessReq(E, c, answer), net[d])
           \/ /\ E.link # "connected"
              /\ answer = "STARTED"
              /\ Commit(d, CASE E.link = "none" -> [E EXCEPT !.link = "connecting"]
                             [] E.link = "disconnecting" -> [E EXCEPT !.pending = c]
                             [] OTHER -> E, net[d])
        /\ UNCHANGED <<evt, phys, drops>>

(* L2CA_ErtmConnectRsp: the identifier must still be the channel's. *)
L2CA_ConnectRsp(d, c, result) ==
    LET D == [dev[d] EXCEPT !.app[c] = @ \ {"connrsp"}]
        heeded == Finds(D, c) /\ D.ccb[c].rid = D.ccb[c].indid
                  /\ D.ccb[c].st = "W4_L2CA_CONNECT_RSP"
    IN  /\ "connrsp" \in dev[d].app[c]
        /\ result = "OK" \/ d \in Failing
        /\ Commit(d,
              CASE ~heeded -> D
                [] heeded /\ result = "OK" ->
                     StartTimer(Enter(SendConnectRsp(D, c, "OK"), c, "CONFIG"), c)
                [] heeded /\ result = "PENDING" ->
                     StartTimer(SendConnectRsp(Owes(D, c, {"connrsp"}), c, "PENDING"), c)
                [] heeded /\ result = "NEG" ->
                     ReleaseAndTell(SendConnectRsp(D, c, "NEG"), c), net[d])
        /\ UNCHANGED <<evt, phys, drops>>

(* L2CA_ConfigReq: from OPEN it starts a reconfiguration. *)
L2CA_ConfigReq(d, c) ==
    LET D == [dev[d] EXCEPT !.cfgs = @ + 1, !.app[c] = @ \ {"recfg"}]
        E == IF D.ccb[c].st = "OPEN"
             THEN [D EXCEPT !.ccb[c].st = "CONFIG", !.ccb[c].cfg = {}]
             ELSE D
    IN  /\ "own" \in dev[d].app[c]
        /\ dev[d].cfgs < MaxCfg
        /\ Finds(D, c) /\ D.ccb[c].st \in {"CONFIG", "OPEN"}
        /\ Commit(d, StartTimer(SendConfigReq(E, c), c), net[d])
        /\ UNCHANGED <<evt, phys, drops>>

(* Both directions are configured: open the channel, or close it if the    *)
(* two ends settled on different modes.  CONFIG only.                      *)
FinishConfig(D, c, sameMode) ==
    IF ~(D.ccb[c].cfg = {"IB", "OB"}) THEN D
    ELSE IF sameMode THEN StopTimer(Enter(D, c, "OPEN"), c)
    ELSE DisconnectChnl(D, c)

(* L2CA_ConfigRsp *)
L2CA_ConfigRsp(d, c, result, sameMode) ==
    LET D == [dev[d] EXCEPT !.app[c] = @ \ {"cfgrsp"},
                            !.cfgs = IF result = "OK" THEN @ ELSE @ + 1]
        E == FinishConfig([D EXCEPT !.ccb[c].cfg = @ \cup {"IB"}], c, sameMode)
    IN  /\ "cfgrsp" \in dev[d].app[c]
        /\ result = "OK" \/ dev[d].cfgs < MaxCfg
        /\ (result = "OK" /\ sameMode) \/ d \in Failing
        /\ Commit(d,
              CASE ~Finds(D, c) \/ D.ccb[c].st # "CONFIG" -> D
                [] Finds(D, c) /\ D.ccb[c].st = "CONFIG" /\ result = "OK" ->
                     IF Finds(E, c) THEN SendConfigRsp(E, c, "OK") ELSE E
                [] Finds(D, c) /\ D.ccb[c].st = "CONFIG" /\ result = "PENDING" ->
                     SendConfigRsp(Owes(D, c, {"cfgrsp"}), c, "PENDING")
                [] Finds(D, c) /\ D.ccb[c].st = "CONFIG" /\ result = "NEG" ->
                     StartTimer(SendConfigRsp(D, c, "NEG"), c), net[d])
        /\ UNCHANGED <<evt, phys, drops>>

(* L2CA_DisconnectReq: the owner is done with a channel that closes at     *)
(* once and hears of the others by a DisconnectCfm.                        *)
L2CA_DisconnectReq(d, c, aborts) ==
    LET D == dev[d]
        st == D.ccb[c].st
        waits == [D EXCEPT !.app[c] = {"own"}]
    IN  /\ "own" \in D.app[c]
        /\ Finds(D, c) /\ st # "W4_L2CAP_DISCONNECT_RSP"
        /\ aborts \/ st = "ORIG_W4_SEC_COMP"
        /\ Commit(d,
              CASE st = "CLOSED" -> ReleaseAndTell(D, c)
                [] st = "ORIG_W4_SEC_COMP" ->
                     ReleaseAndTell(AbortAccessReq(D, c, aborts), c)
                [] st = "W4_L2CAP_CONNECT_RSP" ->
                     IF D.ccb[c].rcid # NoCid THEN StartDisconnect(waits, c)
                     ELSE ReleaseAndTell(D, c)
                [] st = "W4_L2CA_DISCONNECT_RSP" ->
                     ReleaseAndTell(SendDiscRsp(D, D.ccb[c].rid, c, D.ccb[c].rcid), c)
                [] OTHER -> StartDisconnect(waits, c), net[d])
        /\ UNCHANGED <<evt, phys, drops>>

(* L2CA_DisconnectRsp *)
L2CA_DisconnectRsp(d, c) ==
    LET D == dev[d]
    IN  /\ "discrsp" \in D.app[c]
        /\ Finds(D, c) /\ D.ccb[c].st = "W4_L2CA_DISCONNECT_RSP"
        /\ Commit(d, ReleaseAndTell(SendDiscRsp(D, D.ccb[c].rid, c, D.ccb[c].rcid), c),
                  net[d])
        /\ UNCHANGED <<evt, phys, drops>>

---------------------------------------------------------------------------
(* Commands of the peer (process_l2cap_cmd) *)

(* The next command for d.  Commands that arrive before the host has seen  *)
(* the connection are held (l2c_process_held_packets).                     *)
Receives(d, cmd) ==
    /\ net[d] # <<>>
    /\ Head(net[d]).cmd = cmd
    /\ dev[d].link \in {"connected", "disconnecting"}

RecvConnReq(d, served, answer) ==
    LET m == Head(net[d])
        c == Head(dev[d].free)
        D == [AllocateCcb(dev[d]) EXCEPT !.ccb[c].rid = m.id, !.ccb[c].rcid = m.scid,
                                         !.ccb[c].st = "TERM_W4_SEC_COMP"]
        E == AccessReq(D, c, answer)
    IN  /\ Receives(d, "CONN_REQ")
        /\ (served /\ answer # "DELAY") \/ d \in Failing
        /\ Commit(d, IF ~served \/ dev[d].free = <<>>
                     THEN RejectConnection(dev[d], m.scid, m.id)
                     ELSE IF answer = "STARTED" THEN SendConnectRsp(E, c, "PENDING")
                     ELSE E, Tail(net[d]))
        /\ UNCHANGED <<evt, phys, drops>>

(* An answer counts only with the identifier of the channel's last request. *)
RecvConnRsp(d) ==
    LET m == Head(net[d])
        c == m.scid
        D == [dev[d] EXCEPT !.ccb[c].rcid = m.dcid]
        heeded == Finds(dev[d], c) /\ dev[d].ccb[c].lid = m.id
                  /\ dev[d].ccb[c].st = "W4_L2CAP_CONNECT_RSP"
    IN  /\ Receives(d, "CONN_RSP")
        /\ Commit(d,
              CASE ~heeded -> dev[d]
                [] heeded /\ m.result = "OK" -> StartTimer(Enter(D, c, "CONFIG"), c)
                [] heeded /\ m.result = "PENDING" -> StartTimer(D, c)
                [] heeded /\ m.result = "NEG" -> ReleaseAndTell(dev[d], c), Tail(net[d]))
        /\ UNCHANGED <<evt, phys, drops>>

(* l2cu_process_peer_cfg_req's verdict on the options is an input.  A      *)
(* request in OPEN reopens the configuration unless it is unacceptable.    *)
RecvConfigReq(d, verdict) ==
    LET m == Head(net[d])
        c == m.dcid
        D == [dev[d] EXCEPT !.ccb[c].rid = m.id]
        st == dev[d].ccb[c].st
        E == IF st = "OPEN"
             THEN StartTimer([D EXCEPT !.ccb[c].st = "CONFIG", !.ccb[c].cfg = {}], c)
             ELSE D
    IN  /\ Receives(d, "CONFIG_REQ")
        /\ verdict = "OK" \/ d \in Failing
        /\ Commit(d,
              CASE ~Finds(dev[d], c) ->
                     Send(dev[d], [cmd |-> "REJECT", id |-> m.id, dcid |-> NoCid,
                                   scid |-> NoCid])
                [] Finds(dev[d], c) /\ st \notin {"CONFIG", "OPEN"} -> D
                [] Finds(dev[d], c) /\ st \in {"CONFIG", "OPEN"} ->
                     CASE verdict = "OK" -> Owes(E, c, {"cfgrsp"})
                       [] verdict = "UNACCEPTABLE" -> SendConfigRsp(D, c, "NEG")
                       [] verdict = "DISCONNECT" -> DisconnectChnl(D, c),
              Tail(net[d]))
        /\ UNCHANGED <<evt, phys, drops>>

RecvConfigRsp(d, sameMode) ==
    LET m == Head(net[d])
        c == m.scid
        D == dev[d]
        heeded == Finds(D, c) /\ D.ccb[c].lid = m.id /\ D.ccb[c].st = "CONFIG"
    IN  /\ Receives(d, "CONFIG_RSP")
        /\ sameMode \/ d \in Failing
        /\ Commit(d,
              CASE ~heeded \/ m.result = "PENDING" -> D
                [] heeded /\ m.result = "OK" ->
                     FinishConfig([D EXCEPT !.ccb[c].cfg = @ \cup {"OB"}], c, sameMode)
                [] heeded /\ m.result = "NEG" ->
                     Owes(StopTimer(D, c), c, {"recfg"}), Tail(net[d]))
        /\ UNCHANGED <<evt, phys, drops>>

RecvDiscReq(d, aborts) ==
    LET m == Head(net[d])
        c == m.dcid
        D == [dev[d] EXCEPT !.ccb[c].rid = m.id]
        st == dev[d].ccb[c].st
    IN  /\ Receives(d, "DISC_REQ")
        /\ Commit(d,
              CASE ~Finds(dev[d], c) -> SendDiscRsp(dev[d], m.id, c, m.scid)
                [] Finds(dev[d], c) /\ dev[d].ccb[c].rcid # m.scid -> dev[d]
                [] Finds(dev[d], c) /\ dev[d].ccb[c].rcid = m.scid ->
                     CASE st = "TERM_W4_SEC_COMP" ->
                            ReleaseCcb(AbortAccessReq(SendDiscRsp(D, m.id, c, m.scid),
                                                      c, aborts), c)
                       [] st \in {"CONFIG", "OPEN"} ->
                            Owes(StartTimer(Enter(D, c, "W4_L2CA_DISCONNECT_RSP"), c),
                                 c, {"discrsp"})
                       [] st = "W4_L2CAP_DISCONNECT_RSP" ->
                            ReleaseAndTell(SendDiscRsp(D, m.id, c, m.scid), c)
                       [] OTHER -> D,
              Tail(net[d]))
        /\ UNCHANGED <<evt, phys, drops>>

RecvDiscRsp(d) ==
    LET m == Head(net[d])
        c == m.scid
        D == dev[d]
    IN  /\ Receives(d, "DISC_RSP")
        /\ Commit(d, IF /\ Finds(D, c)
                        /\ D.ccb[c].rcid = m.dcid /\ D.ccb[c].lid = m.id
                        /\ D.ccb[c].st = "W4_L2CAP_DISCONNECT_RSP"
                     THEN ReleaseAndTell(D, c) ELSE D, Tail(net[d]))
        /\ UNCHANGED <<evt, phys, drops>>

(* L2CAP_CMD_REJECT with an invalid CID acts as a loss of the link for the *)
(* channel it names; this stack's own rejects name none.                   *)
RecvReject(d) ==
    LET m == Head(net[d])
        D == dev[d]
    IN  /\ Receives(d, "REJECT")
        /\ Commit(d, IF Finds(D, m.scid) /\ D.ccb[m.scid].rcid = m.dcid
                     THEN ReleaseAndTell(D, m.scid) ELSE D, Tail(net[d]))
        /\ UNCHANGED <<evt, phys, drops>>

RecvInfoReq(d) ==
    LET m == Head(net[d])
    IN  /\ Receives(d, "INFO_REQ")
        /\ Commit(d, Send(dev[d], [cmd |-> "INFO_RSP", id |-> m.id, type |-> m.type]),
                  Tail(net[d]))
        /\ UNCHANGED <<evt, phys, drops>>

(* The extended features announce fixed channels, which are asked for next; *)
(* the channels go on when that answer has come.                            *)
RecvInfoRsp(d) ==
    LET m == Head(net[d])
        D == [dev[d] EXCEPT !.w4info = FALSE]
    IN  /\ Receives(d, "INFO_RSP")
        /\ Commit(d, IF m.type = "FEATURES" THEN SendInfoReq(D, "FIXED")
                     ELSE InfoRspAll(D), Tail(net[d]))
        /\ UNCHANGED <<evt, phys, drops>>

---------------------------------------------------------------------------
(* Timers, security and the link (l2c_main.c, l2c_link.c) *)

(* The controllers lose the link; each host has yet to see the event. *)
LoseLink(d, reason) ==
    /\ phys' = FALSE
    /\ evt' = [e \in Dev |-> IF e = d THEN "other" ELSE reason]
    /\ net' = [e \in Dev |-> <<>>]

(* L2CEVT_TIMEOUT of a channel *)
Timeout(d, c) ==
    LET D == StopTimer(dev[d], c)
        st == D.ccb[c].st
    IN  /\ dev[d].ccb[c].timer
        /\ \/ /\ st # "TERM_W4_SEC_COMP"
              /\ Commit(d,
                    CASE st \in {"CLOSED", "W4_L2CAP_CONNECT_RSP",
                                 "W4_L2CAP_DISCONNECT_RSP"} -> ReleaseAndTell(D, c)
                      [] st = "W4_L2CA_CONNECT_RSP" ->
                           ReleaseAndTell(SendConnectRsp(D, c, "NEG"), c)
                      [] st = "CONFIG" -> DisconnectChnl(D, c)
                      [] st = "W4_L2CA_DISCONNECT_RSP" ->
                           ReleaseAndTell(SendDiscRsp(D, D.ccb[c].rid, c,
                                                      D.ccb[c].rcid), c)
                      [] OTHER -> D, net[d])
              /\ UNCHANGED <<evt, phys>>
           \/ /\ st = "TERM_W4_SEC_COMP"    \* btsnd_hcic_disconnect
              /\ dev' = [dev EXCEPT ![d] = D]
              /\ IF phys THEN LoseLink(d, "other") ELSE UNCHANGED <<evt, phys, net>>
        /\ UNCHANGED drops

(* l2c_info_timeout: wait on while a channel's security check runs. *)
InfoTimeout(d) ==
    LET D == [dev[d] EXCEPT !.w4info = FALSE]
    IN  /\ dev[d].w4info
        /\ \A i \in DOMAIN D.chans :
              D.ccb[D.chans[i]].st \notin {"ORIG_W4_SEC_COMP", "TERM_W4_SEC_COMP"}
        /\ drops < MaxDrop /\ drops' = drops + 1
        /\ Commit(d, IF D.link = "disconnecting" THEN D ELSE InfoRspAll(D), net[d])
        /\ UNCHANGED <<evt, phys>>

(* btm_sec_dev_rec_cback_event: the answer goes to the control block it    *)
(* was asked for, if that is on the link (l2c_link_sec_comp), and the      *)
(* checks that found the manager busy are asked again.                     *)
SecurityAnswer(d, result, answer) ==
    LET c == dev[d].sec
        D == [dev[d] EXCEPT !.sec = NoCid]
        E == CASE ~Finds(D, c) -> D
               [] Finds(D, c) /\ result = "SUCCESS" -> SecComp(D, c)
               [] Finds(D, c) /\ result = "FAIL" -> SecCompNeg(D, c)
    IN  /\ c # NoCid /\ ~dev[d].delay
        /\ Commit(d, IF E.again THEN Resubmit([E EXCEPT !.again = FALSE], answer) ELSE E,
                  net[d])
        /\ UNCHANGED <<evt, phys, drops>>

(* Mutant: the manager goes on waiting for the encryption. *)
EncryptionChangeStillDelayed(d, answer) ==
    /\ dev[d].sec # NoCid /\ dev[d].delay
    /\ Commit(d, Resubmit([dev[d] EXCEPT !.sec = NoCid], answer), net[d])
    /\ UNCHANGED <<evt, phys, drops>>

(* btm_sec_encrypt_change after BTM_DELAY_CHECK *)
EncryptionChange(d, answer) ==
    /\ dev[d].sec # NoCid /\ dev[d].delay
    /\ Commit(d, Resubmit([dev[d] EXCEPT !.sec = NoCid, !.delay = FALSE], answer), net[d])
    /\ UNCHANGED <<evt, phys, drops>>

(* The controllers set up the link for whoever asked; the other host is    *)
(* told of the connection request and accepts it.                          *)
PageSucceeds(d) ==
    /\ dev[d].link = "connecting"
    /\ ~phys /\ \A e \in Dev : evt[e] = "none"
    /\ phys' = TRUE
    /\ evt' = [e \in Dev |-> "up"]
    /\ dev' = [dev EXCEPT ![Peer(d)].link = "connecting"]
    /\ UNCHANGED <<net, drops>>

ReleaseAll(D) == Each(ReleaseAndTell, D)

(* L2CEVT_LP_CONNECT_CFM_NEG or l2c_link_timeout while connecting: the     *)
(* channels that wait for the link are given up with it.                   *)
PageFails(d) ==
    LET D == dev[d]
        E == ReleaseAll(D)
    IN  /\ D.link = "connecting"
        /\ ~phys /\ evt[d] = "none"
        /\ Commit(d, [E EXCEPT !.link = "none", !.w4info = FALSE, !.id = 0], net[d])
        /\ UNCHANGED <<evt, phys, drops>>

ConfirmAll(D, answer) ==
    EachUntilReleased(
        LAMBDA E, c : AccessReq(Enter(E, c, "ORIG_W4_SEC_COMP"), c, answer), D)

(* l2c_link_hci_conn_comp: ask for the peer's features, then start the     *)
(* security check of every channel that waits.                             *)
LinkUp(d, answer) ==
    LET D == SendInfoReq([dev[d] EXCEPT !.link = "connected"], "FEATURES")
    IN  /\ evt[d] = "up"
        /\ evt' = [evt EXCEPT ![d] = "none"]
        /\ Commit(d, ConfirmAll(D, answer), net[d])
        /\ UNCHANGED <<phys, drops>>

(* L2CEVT_LP_DISCONNECT_IND; a channel whose request may have crossed the  *)
(* peer's disconnection is tried once more.                                *)
LinkLost(D, c, reason) ==
    IF /\ D.ccb[c].st = "W4_L2CAP_CONNECT_RSP"
       /\ reason = "user" /\ ~D.ccb[c].noretry
    THEN [D EXCEPT !.ccb[c].st = "CLOSED", !.ccb[c].noretry = TRUE]
    ELSE ReleaseAndTell(D, c)

LinkLostAll(D, reason) ==
    Each(LAMBDA E, c : IF c # D.pending THEN LinkLost(E, c, reason) ELSE E, D)

(* l2c_link_hci_disc_comp *)
LinkDown(d) ==
    LET D == [dev[d] EXCEPT !.sec = NoCid, !.delay = FALSE]
        E == LinkLostAll(D, evt[d])
        again == E.chans # <<>> \/ E.pending # NoCid
    IN  /\ evt[d] \in {"user", "other"}
        /\ evt' = [evt EXCEPT ![d] = "none"]
        /\ Commit(d, IF again THEN [E EXCEPT !.link = "connecting", !.pending = NoCid]
                     ELSE [E EXCEPT !.link = "none", !.w4info = FALSE, !.id = 0], net[d])
        /\ UNCHANGED <<phys, drops>>

(* The idle timer of a link without channels: l2c_link_timeout. *)
IdleDisconnect(d) ==
    /\ dev[d].link = "connected" /\ dev[d].chans = <<>>
    /\ phys /\ \A e \in Dev : evt[e] = "none"
    /\ drops < MaxDrop
    /\ drops' = drops + 1
    /\ dev' = [dev EXCEPT ![d].link = "disconnecting"]
    /\ LoseLink(d, "user")

(* The link breaks. *)
LinkBreaks ==
    /\ phys /\ \A e \in Dev : evt[e] = "none"
    /\ drops < MaxDrop
    /\ drops' = drops + 1
    /\ LoseLink(A, "other")
    /\ UNCHANGED dev

---------------------------------------------------------------------------
AppCall(d) ==
    \/ \E modes \in BOOLEAN, s \in Answers(d) : L2CA_ConnectReq(d, modes, s)
    \/ \E c \in Cids(d) :
          \/ \E r \in {"OK", "PENDING", "NEG"} : L2CA_ConnectRsp(d, c, r)
          \/ L2CA_ConfigReq(d, c)
          \/ \E r \in {"OK", "PENDING", "NEG"}, s \in BOOLEAN : L2CA_ConfigRsp(d, c, r, s)
          \/ \E aborts \in BOOLEAN : L2CA_DisconnectReq(d, c, aborts)
          \/ L2CA_DisconnectRsp(d, c)

Receive(d) ==
    \/ \E served \in BOOLEAN, s \in Answers(d) \cup {"DELAY"} : RecvConnReq(d, served, s)
    \/ RecvConnRsp(d)
    \/ \E v \in {"OK", "UNACCEPTABLE", "DISCONNECT"} : RecvConfigReq(d, v)
    \/ \E s \in BOOLEAN : RecvConfigRsp(d, s)
    \/ \E aborts \in BOOLEAN : RecvDiscReq(d, aborts)
    \/ RecvDiscRsp(d) \/ RecvReject(d)
    \/ RecvInfoReq(d) \/ RecvInfoRsp(d)

Security(d) ==
    \E s \in Answers(d) :
       \/ \E r \in {"SUCCESS", "FAIL"} : SecurityAnswer(d, r, s)
       \/ EncryptionChange(d, s)

Link(d) ==
    \/ PageSucceeds(d) \/ PageFails(d)
    \/ \E s \in Answers(d) : LinkUp(d, s)
    \/ LinkDown(d)

Next ==
    \/ \E d \in Dev :
          \/ AppCall(d) \/ Receive(d) \/ Security(d) \/ Link(d)
          \/ \E c \in Cids(d) : Timeout(d, c)
          \/ InfoTimeout(d) \/ IdleDisconnect(d)
    \/ LinkBreaks

Spec == Init /\ [][Next]_vars

(* The owner of a channel whose configuration was refused asks again or    *)
(* gives the channel up; everything else an application may leave undone.  *)
Recover(d, c) ==
    /\ "recfg" \in dev[d].app[c]
    /\ L2CA_ConfigReq(d, c) \/ L2CA_DisconnectReq(d, c, TRUE)

FairSpec ==
    /\ Spec
    /\ \A d \in Dev :
          /\ WF_vars(Receive(d)) /\ WF_vars(Security(d)) /\ WF_vars(Link(d))
          /\ \A c \in Cids(d) : WF_vars(Timeout(d, c)) /\ WF_vars(Recover(d, c))

---------------------------------------------------------------------------
(* The control blocks keep their types, and encryption is put off only     *)
(* while the security manager works for a channel (btm_sec_encrypt_change).*)
TypeOK ==
    /\ \A d \in Dev :
          /\ \A c \in Cids(d) :
                /\ dev[d].ccb[c].st \in States
                /\ dev[d].ccb[c].cfg \subseteq {"IB", "OB"}
                /\ dev[d].app[c] \subseteq Duties
          /\ dev[d].sec \in Cids(d) \cup {NoCid}
          /\ dev[d].delay => dev[d].sec # NoCid
          /\ dev[d].link \in {"none", "connecting", "connected", "disconnecting"}
          /\ dev[d].out = <<>>
    /\ evt \in [Dev -> {"none", "up", "user", "other"}]
    /\ phys \in BOOLEAN /\ drops \in 0 .. MaxDrop

(* Every control block is on the free list or on the link, never both. *)
PoolIntact ==
    \A d \in Dev :
       /\ IsInjective(dev[d].free \o dev[d].chans)
       /\ ToSet(dev[d].chans) = {c \in Cids(d) : dev[d].ccb[c].used}
       /\ ToSet(dev[d].free) = {c \in Cids(d) : ~dev[d].ccb[c].used}

(* What will wake a channel that waits. *)
Wakeup(d, c) ==
    LET D == dev[d]
        r == D.ccb[c]
    IN  \/ r.timer \/ evt[d] # "none"
        \/ r.st = "OPEN"
        \/ r.st = "CLOSED" /\ D.link # "connected"
        \/ /\ WaitsForSecurity(D, c)
           /\ D.sec = c \/ D.orphan \/ (D.sec # NoCid /\ D.again)
        \/ r.st \in {"W4_L2CAP_CONNECT_RSP", "W4_L2CA_CONNECT_RSP"} /\ D.w4info
        \/ r.st = "CONFIG" /\ "recfg" \in D.app[c]

(* A channel that waits for security, for the peer's features, for an      *)
(* answer or for its owner has something that will wake it: no handler of  *)
(* l2c_csm.c leaves a wait without a timer or an event to come.            *)
NoLostWakeup ==
    \A d \in Dev : \A c \in Cids(d) : dev[d].ccb[c].used => Wakeup(d, c)

(* Every channel opens or is given back, whatever the peer, the security   *)
(* manager and the link do and whether or not the application answers.     *)
ChannelsSettle ==
    \A d \in Dev : \A c \in Cids(d) :
       dev[d].ccb[c].used ~> (~dev[d].ccb[c].used \/ dev[d].ccb[c].st = "OPEN")

(* l2c_link.c:216, "For all channels, send the event through their FSMs":  *)
(* once the link is up no channel is left waiting for it.                  *)
LinkUpReachesAll ==
    \A d \in Dev : \A c \in Cids(d) :
       dev[d].ccb[c].used /\ dev[d].link = "connected" => dev[d].ccb[c].st # "CLOSED"

(* The owner of a CID holds a channel in use, and every channel past the   *)
(* connection indication has an owner.                                     *)
OwnerInformed ==
    \A d \in Dev : \A c \in Cids(d) :
       LET r == dev[d].ccb[c]
       IN  /\ "own" \in dev[d].app[c] => r.used
           /\ r.used /\ r.st \notin {"TERM_W4_SEC_COMP", "W4_L2CA_CONNECT_RSP"}
              => "own" \in dev[d].app[c]

(* An open channel has an end on the other device, unless that end's       *)
(* request to close, or the loss of the link, is on its way.               *)
Closing(d, c, r) ==
    \/ evt[d] \in {"user", "other"}
    \/ \E i \in DOMAIN net[d] : /\ net[d][i].cmd = "DISC_REQ"
                                /\ net[d][i].dcid = c /\ net[d][i].scid = r

Partnered(d, c) ==
    LET r == dev[d].ccb[c].rcid
        p == dev[Peer(d)]
    IN  /\ Finds(p, r) /\ p.ccb[r].rcid = c
        /\ p.ccb[r].st \in {"CONFIG", "OPEN", "W4_L2CAP_DISCONNECT_RSP",
                            "W4_L2CA_DISCONNECT_RSP"}

OpenIsPartnered ==
    \A d \in Dev : \A c \in Cids(d) :
       dev[d].ccb[c].used /\ dev[d].ccb[c].st = "OPEN" =>
          Partnered(d, c) \/ Closing(d, c, dev[d].ccb[c].rcid)

=============================================================================
