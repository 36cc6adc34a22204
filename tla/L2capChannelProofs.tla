------------------------- MODULE L2capChannelProofs -------------------------
(* The control blocks of L2CAP channels: theorems for pools of any size, any *)
(* number of calls, losses and refusals on either device.                    *)
EXTENDS L2capChannel, SequenceLemmas

-----------------------------------------------------------------------------
(* The inductive invariant *)

Results == {"OK", "PENDING", "NEG"}

Msgs ==
  [cmd : {"CONN_REQ"}, id : Nat, scid : Nat]
  \cup [cmd : {"CONN_RSP"}, id : Nat, dcid : Nat, scid : Nat, result : Results]
  \cup [cmd : {"CONFIG_REQ"}, id : Nat, dcid : Nat]
  \cup [cmd : {"CONFIG_RSP"}, id : Nat, scid : Nat, result : Results]
  \cup [cmd : {"DISC_REQ", "DISC_RSP", "REJECT"}, id : Nat, dcid : Nat, scid : Nat]
  \cup [cmd : {"INFO_REQ", "INFO_RSP"}, id : Nat, type : {"FEATURES", "FIXED"}]

(* The types of a control block and of a device's record. *)
Ccb(r) ==
  /\ DOMAIN r = DOMAIN NoCcb
  /\ r.st \in States /\ r.cfg \subseteq {"IB", "OB"}
  /\ r.rcid \in Nat /\ r.lid \in Nat /\ r.rid \in Nat /\ r.indid \in Nat
  /\ r.used \in BOOLEAN /\ r.timer \in BOOLEAN /\ r.pnd \in BOOLEAN
  /\ r.noretry \in BOOLEAN /\ r.modes \in BOOLEAN

Links == {"none", "connecting", "connected", "disconnecting"}

Device(d, D) ==
  /\ DOMAIN D = {"ccb", "free", "chans", "sec", "delay", "again", "orphan", "id",
                 "w4info", "link", "pending", "app", "conns", "cfgs", "out"}
  /\ DOMAIN D.ccb = Cids(d) /\ \A c \in Cids(d) : Ccb(D.ccb[c])
  /\ D.free \in Seq(Cids(d)) /\ D.chans \in Seq(Cids(d))
  /\ D.sec \in Cids(d) \cup {NoCid} /\ D.pending \in Cids(d) \cup {NoCid}
  /\ D.delay \in BOOLEAN /\ D.again \in BOOLEAN /\ D.orphan \in BOOLEAN
  /\ D.w4info \in BOOLEAN /\ D.id \in Nat /\ D.link \in Links
  /\ D.app \in [Cids(d) -> SUBSET Duties] /\ D.out \in Seq(Msgs)

(* Each control block is once in the list that its mark names. *)
Pool(d, D) ==
  /\ IsInjective(D.free) /\ IsInjective(D.chans)
  /\ \A c \in Cids(d) : c \in ToSet(D.chans) <=> D.ccb[c].used
  /\ \A c \in Cids(d) : c \in ToSet(D.free) <=> ~D.ccb[c].used

Sound(d, D) == Device(d, D) /\ Pool(d, D)

(* The states of an accepted connection before its owner has it. *)
Unowned == {"TERM_W4_SEC_COMP", "W4_L2CA_CONNECT_RSP"}

(* What the owner of a channel knows fits the state the channel is in. *)
Owned(D, c) ==
  /\ D.app[c] # {} => "own" \in D.app[c] /\ D.ccb[c].used
  /\ D.ccb[c].used /\ D.ccb[c].st \notin Unowned => "own" \in D.app[c]
  /\ D.ccb[c].used /\ D.ccb[c].st = "TERM_W4_SEC_COMP" => D.app[c] = {}

(* A device whose link is not up has no accepted connection, and a channel
   waits for the end of the link only while that ends. *)
Away(d, D) ==
  /\ D.link # "connected" =>
       \A c \in Cids(d) : D.ccb[c].used => D.ccb[c].st \notin Unowned
  /\ D.pending # NoCid => D.link = "disconnecting"

Fits(d, D) ==
  /\ Sound(d, D) /\ Away(d, D)
  /\ \A c \in Cids(d) : Owned(D, c)
  /\ D.delay => D.sec # NoCid

(* What the hosts know of the link and what the controllers have. *)
LinkInv ==
  \A d \in Dev :
    IF phys THEN \/ evt[d] = "none" /\ dev[d].link = "connected"
                 \/ evt[d] = "up" /\ dev[d].link = "connecting"
    ELSE /\ net[d] = <<>>
         /\ \/ evt[d] \in {"user", "other"}
            \/ evt[d] = "none" /\ dev[d].link \in {"none", "connecting"}

ChannelInv ==
  /\ DOMAIN dev = Dev /\ \A d \in Dev : Fits(d, dev[d]) /\ dev[d].out = <<>>
  /\ net \in [Dev -> Seq(Msgs)]
  /\ evt \in [Dev -> {"none", "up", "user", "other"}]
  /\ phys \in BOOLEAN /\ drops \in 0..MaxDrop
  /\ LinkInv

-----------------------------------------------------------------------------
(* One field of a device's record, or one control block, is replaced. *)

(* Everything but the control blocks that the invariant speaks of. *)
SameRest(D, E) ==
  /\ E.free = D.free /\ E.chans = D.chans /\ E.app = D.app /\ E.sec = D.sec
  /\ E.delay = D.delay /\ E.link = D.link /\ E.pending = D.pending

(* Nothing the invariant speaks of. *)
Quiet(d, D, E) ==
  /\ Device(d, E) /\ SameRest(D, E)
  /\ \A c \in Cids(d) : E.ccb[c].used = D.ccb[c].used /\ E.ccb[c].st = D.ccb[c].st

LEMMA WithCcb ==
  ASSUME NEW d, NEW D, Device(d, D), NEW c \in Cids(d), NEW r, Ccb(r)
  PROVE  /\ Device(d, [D EXCEPT !.ccb[c] = r])
         /\ SameRest(D, [D EXCEPT !.ccb[c] = r])
         /\ [D EXCEPT !.ccb[c] = r].ccb[c] = r
         /\ \A e \in Cids(d) \ {c} : [D EXCEPT !.ccb[c] = r].ccb[e] = D.ccb[e]
<1> DEFINE E == [D EXCEPT !.ccb[c] = r]
<1>1. DOMAIN E = DOMAIN D /\ DOMAIN E.ccb = Cids(d)
  BY DEF Device
<1>2. E.ccb[c] = r /\ \A e \in Cids(d) \ {c} : E.ccb[e] = D.ccb[e]
  BY DEF Device
<1>3. SameRest(D, E)
  BY DEF Device, SameRest
<1>4. E.again = D.again /\ E.orphan = D.orphan /\ E.id = D.id
      /\ E.w4info = D.w4info /\ E.out = D.out
  BY DEF Device
<1> HIDE DEF E
<1>5. \A e \in Cids(d) : Ccb(E.ccb[e])
  BY <1>2 DEF Device
<1>6. Device(d, E)
  BY <1>1, <1>3, <1>4, <1>5 DEF Device, SameRest
<1> QED BY <1>2, <1>3, <1>6 DEF E

LEMMA WithFields ==
  ASSUME NEW d, NEW D, Device(d, D)
  PROVE  /\ \A m \in Msgs : Quiet(d, D, Send(D, m))
         /\ \A i \in Nat : Quiet(d, D, [D EXCEPT !.id = i])
         /\ \A b \in BOOLEAN : /\ Quiet(d, D, [D EXCEPT !.w4info = b])
                               /\ Quiet(d, D, [D EXCEPT !.again = b])
                               /\ Quiet(d, D, [D EXCEPT !.orphan = b])
         /\ \A n : /\ Quiet(d, D, [D EXCEPT !.conns = n])
                   /\ Quiet(d, D, [D EXCEPT !.cfgs = n])
         /\ \A out \in Seq(Msgs) : Quiet(d, D, [D EXCEPT !.out = out])
<1>1. \A m \in Msgs : Quiet(d, D, Send(D, m))
  BY DEF Device, Quiet, SameRest, Send
<1>2. \A i \in Nat : Quiet(d, D, [D EXCEPT !.id = i])
  BY DEF Device, Quiet, SameRest
<1>3. \A b \in BOOLEAN : Quiet(d, D, [D EXCEPT !.w4info = b])
  BY DEF Device, Quiet, SameRest
<1>4. \A b \in BOOLEAN : Quiet(d, D, [D EXCEPT !.again = b])
  BY DEF Device, Quiet, SameRest
<1>5. \A b \in BOOLEAN : Quiet(d, D, [D EXCEPT !.orphan = b])
  BY DEF Device, Quiet, SameRest
<1>6. \A n : Quiet(d, D, [D EXCEPT !.conns = n])
  BY DEF Device, Quiet, SameRest
<1>7. \A n : Quiet(d, D, [D EXCEPT !.cfgs = n])
  BY DEF Device, Quiet, SameRest
<1>8. \A out \in Seq(Msgs) : Quiet(d, D, [D EXCEPT !.out = out])
  BY DEF Device, Quiet, SameRest
<1> QED BY <1>1, <1>2, <1>3, <1>4, <1>5, <1>6, <1>7, <1>8

LEMMA QuietTwice ==
  ASSUME NEW d, NEW D, NEW E, NEW F, Quiet(d, D, E), Quiet(d, E, F)
  PROVE  Quiet(d, D, F)
BY DEF Quiet, SameRest

LEMMA QuietSelf == ASSUME NEW d, NEW D, Device(d, D) PROVE Quiet(d, D, D)
BY DEF Quiet, SameRest

LEMMA QuietSound ==
  ASSUME NEW d, NEW D, NEW E, Sound(d, D), Quiet(d, D, E)
  PROVE  Sound(d, E)
BY DEF Quiet, SameRest, Sound, Pool

(* A control block's fields that the invariant does not speak of. *)
LEMMA QuietCcb ==
  ASSUME NEW d, NEW D, Device(d, D), NEW c \in Cids(d), NEW r, Ccb(r),
         r.used = D.ccb[c].used, r.st = D.ccb[c].st
  PROVE  Quiet(d, D, [D EXCEPT !.ccb[c] = r])
<1> DEFINE E == [D EXCEPT !.ccb[c] = r]
<1>1. /\ Device(d, E) /\ SameRest(D, E) /\ E.ccb[c] = r
      /\ \A e \in Cids(d) \ {c} : E.ccb[e] = D.ccb[e]
  BY WithCcb
<1> HIDE DEF E
<1>2. \A e \in Cids(d) : E.ccb[e].used = D.ccb[e].used /\ E.ccb[e].st = D.ccb[e].st
  BY <1>1
<1> QED BY <1>1, <1>2 DEF Quiet, E

(* A control block with another value in one field. *)
SameCcb(r, q) == Ccb(q) /\ q.used = r.used /\ q.st = r.st

LEMMA CcbFields ==
  ASSUME NEW r, Ccb(r)
  PROVE  /\ \A i \in Nat : /\ SameCcb(r, [r EXCEPT !.lid = i])
                           /\ SameCcb(r, [r EXCEPT !.rid = i])
                           /\ SameCcb(r, [r EXCEPT !.rcid = i])
                           /\ SameCcb(r, [r EXCEPT !.indid = i])
         /\ \A b \in BOOLEAN : /\ SameCcb(r, [r EXCEPT !.timer = b])
                               /\ SameCcb(r, [r EXCEPT !.pnd = b])
                               /\ SameCcb(r, [r EXCEPT !.noretry = b])
                               /\ SameCcb(r, [r EXCEPT !.modes = b])
         /\ \A f \in SUBSET {"IB", "OB"} : SameCcb(r, [r EXCEPT !.cfg = f])
         /\ \A st \in States : /\ Ccb([r EXCEPT !.st = st])
                               /\ [r EXCEPT !.st = st].used = r.used
                               /\ [r EXCEPT !.st = st].st = st
         /\ \A b \in BOOLEAN : /\ Ccb([r EXCEPT !.used = b])
                               /\ [r EXCEPT !.used = b].used = b
                               /\ [r EXCEPT !.used = b].st = r.st
<1>1. \A i \in Nat : /\ SameCcb(r, [r EXCEPT !.lid = i])
                     /\ SameCcb(r, [r EXCEPT !.rid = i])
  BY DEF Ccb, NoCcb, SameCcb
<1>2. \A i \in Nat : /\ SameCcb(r, [r EXCEPT !.rcid = i])
                     /\ SameCcb(r, [r EXCEPT !.indid = i])
  BY DEF Ccb, NoCcb, SameCcb
<1>3. \A b \in BOOLEAN : /\ SameCcb(r, [r EXCEPT !.timer = b])
                         /\ SameCcb(r, [r EXCEPT !.pnd = b])
  BY DEF Ccb, NoCcb, SameCcb
<1>4. \A b \in BOOLEAN : /\ SameCcb(r, [r EXCEPT !.noretry = b])
                         /\ SameCcb(r, [r EXCEPT !.modes = b])
  BY DEF Ccb, NoCcb, SameCcb
<1>5. \A f \in SUBSET {"IB", "OB"} : SameCcb(r, [r EXCEPT !.cfg = f])
  BY DEF Ccb, NoCcb, SameCcb
<1>6. \A st \in States : /\ Ccb([r EXCEPT !.st = st])
                         /\ [r EXCEPT !.st = st].used = r.used
                         /\ [r EXCEPT !.st = st].st = st
  BY DEF Ccb, NoCcb
<1>7. \A b \in BOOLEAN : /\ Ccb([r EXCEPT !.used = b])
                         /\ [r EXCEPT !.used = b].used = b
                         /\ [r EXCEPT !.used = b].st = r.st
  BY DEF Ccb, NoCcb
<1> QED BY <1>1, <1>2, <1>3, <1>4, <1>5, <1>6, <1>7

(* The fields of a control block that the invariant does not speak of. *)
LEMMA QuietFields ==
  ASSUME NEW d, NEW D, Device(d, D), NEW c \in Cids(d)
  PROVE  /\ \A i \in Nat : /\ Quiet(d, D, [D EXCEPT !.ccb[c].lid = i])
                           /\ Quiet(d, D, [D EXCEPT !.ccb[c].rid = i])
                           /\ Quiet(d, D, [D EXCEPT !.ccb[c].rcid = i])
                           /\ Quiet(d, D, [D EXCEPT !.ccb[c].indid = i])
         /\ \A b \in BOOLEAN : /\ Quiet(d, D, [D EXCEPT !.ccb[c].timer = b])
                               /\ Quiet(d, D, [D EXCEPT !.ccb[c].pnd = b])
                               /\ Quiet(d, D, [D EXCEPT !.ccb[c].noretry = b])
                               /\ Quiet(d, D, [D EXCEPT !.ccb[c].modes = b])
         /\ \A f \in SUBSET {"IB", "OB"} : Quiet(d, D, [D EXCEPT !.ccb[c].cfg = f])
<1>1. Ccb(D.ccb[c])
  BY DEF Device
<1>2. \A q : SameCcb(D.ccb[c], q) => Quiet(d, D, [D EXCEPT !.ccb[c] = q])
  BY QuietCcb DEF SameCcb
<1> QED BY Zenon, <1>1, <1>2, CcbFields

LEMMA TimersQuiet ==
  ASSUME NEW d, NEW D, Device(d, D), NEW c \in Cids(d)
  PROVE  Quiet(d, D, StartTimer(D, c)) /\ Quiet(d, D, StopTimer(D, c))
BY QuietFields DEF StartTimer, StopTimer

(* The commands a channel sends. *)
LEMMA MsgIds ==
  ASSUME NEW m \in Msgs, NEW i \in Nat
  PROVE  [m EXCEPT !.id = i] \in Msgs
BY DEF Msgs

LEMMA NextIdType == ASSUME NEW i \in Nat PROVE NextId(i) \in Nat
BY DEF NextId

LEMMA SendRequestQuiet ==
  ASSUME NEW d, NEW D, Device(d, D), NEW c \in Cids(d), NEW m \in Msgs
  PROVE  Quiet(d, D, SendRequest(D, c, m))
<1> DEFINE i == NextId(D.id)
           E == [D EXCEPT !.id = i]
           F == [E EXCEPT !.ccb[c].lid = i]
<1>1. i \in Nat
  BY NextIdType DEF Device
<1> HIDE DEF i
<1>2. Quiet(d, D, E) /\ Device(d, E)
  BY <1>1, WithFields DEF Quiet
<1>3. F = [D EXCEPT !.id = i, !.ccb[c].lid = i]
  BY DEF Device
<1> HIDE DEF E
<1>4. Quiet(d, E, F) /\ Device(d, F)
  <2>1. \A k \in Nat : Quiet(d, E, [E EXCEPT !.ccb[c].lid = k])
    BY <1>2, QuietFields
  <2>2. Quiet(d, E, F)
    BY <1>1, <2>1
  <2> QED BY <2>2 DEF Quiet
<1> HIDE DEF F
<1>5. Quiet(d, F, Send(F, [m EXCEPT !.id = i]))
  BY <1>1, <1>4, WithFields, MsgIds
<1>6. SendRequest(D, c, m) = Send(F, [m EXCEPT !.id = i])
  BY <1>3 DEF SendRequest, i
<1> QED BY <1>2, <1>4, <1>5, <1>6, QuietTwice

LEMMA CidsNat == \A d : Cids(d) \subseteq Nat /\ NoCid \in Nat /\ NoCid \notin Cids(d)
BY DeviceAssumption DEF Cids, NoCid

LEMMA SendsQuiet ==
  ASSUME NEW d, NEW D, Device(d, D), NEW c \in Cids(d)
  PROVE  /\ Quiet(d, D, SendConnectReq(D, c)) /\ Quiet(d, D, SendConfigReq(D, c))
         /\ Quiet(d, D, SendDiscReq(D, c))
         /\ \A result \in Results : /\ Quiet(d, D, SendConnectRsp(D, c, result))
                                    /\ Quiet(d, D, SendConfigRsp(D, c, result))
<1>1. /\ D.ccb[c].rcid \in Nat /\ D.ccb[c].rid \in Nat
      /\ c \in Nat /\ D.ccb[c].pnd \in BOOLEAN
  BY CidsNat DEF Device, Ccb
<1>2. /\ [cmd |-> "CONN_REQ", id |-> 0, scid |-> c] \in Msgs
      /\ [cmd |-> "CONFIG_REQ", id |-> 0, dcid |-> D.ccb[c].rcid] \in Msgs
      /\ [cmd |-> "DISC_REQ", id |-> 0, dcid |-> D.ccb[c].rcid, scid |-> c] \in Msgs
  BY <1>1 DEF Msgs
<1>3. /\ Quiet(d, D, SendConnectReq(D, c)) /\ Quiet(d, D, SendConfigReq(D, c))
      /\ Quiet(d, D, SendDiscReq(D, c))
  BY <1>2, SendRequestQuiet DEF SendConnectReq, SendConfigReq, SendDiscReq
<1>4. ASSUME NEW result \in Results
      PROVE  Quiet(d, D, SendConfigRsp(D, c, result))
  <2>1. [cmd |-> "CONFIG_RSP", id |-> D.ccb[c].rid, scid |-> D.ccb[c].rcid,
         result |-> result] \in Msgs
    BY <1>1 DEF Msgs
  <2> QED BY <2>1, WithFields DEF SendConfigRsp
<1>5. ASSUME NEW result \in Results
      PROVE  Quiet(d, D, SendConnectRsp(D, c, result))
  <2> DEFINE b == (result = "PENDING") \/ D.ccb[c].pnd
             E == [D EXCEPT !.ccb[c].pnd = b]
             m == [cmd |-> "CONN_RSP", id |-> D.ccb[c].rid, dcid |-> c,
                   scid |-> D.ccb[c].rcid, result |-> result]
  <2>1. m \in Msgs
    BY <1>1 DEF Msgs
  <2>2. b \in BOOLEAN
    OBVIOUS
  <2>3. \A k \in BOOLEAN : Quiet(d, D, [D EXCEPT !.ccb[c].pnd = k])
    BY QuietFields
  <2>4. Quiet(d, D, E)
    BY <2>2, <2>3
  <2>5. SendConnectRsp(D, c, result)
        = IF result = "PENDING" /\ D.ccb[c].pnd THEN D ELSE Send(E, m)
    BY DEF SendConnectRsp
  <2> HIDE DEF m, E
  <2>6. Device(d, E)
    BY <2>4 DEF Quiet
  <2>7. Quiet(d, E, Send(E, m))
    BY <2>1, <2>6, WithFields
  <2> QED BY <2>4, <2>5, <2>7, QuietTwice, QuietSelf
<1> QED BY <1>3, <1>4, <1>5

LEMMA RepliesQuiet ==
  ASSUME NEW d, NEW D, Device(d, D)
  PROVE  /\ \A i, k, l \in Nat : /\ Quiet(d, D, SendDiscRsp(D, i, k, l))
                                 /\ Quiet(d, D, RejectConnection(D, k, i))
         /\ \A type \in {"FEATURES", "FIXED"} : Quiet(d, D, SendInfoReq(D, type))
<1>1. ASSUME NEW i \in Nat, NEW k \in Nat, NEW l \in Nat
      PROVE  Quiet(d, D, SendDiscRsp(D, i, k, l))
  <2>1. [cmd |-> "DISC_RSP", id |-> i, dcid |-> k, scid |-> l] \in Msgs
    BY DEF Msgs
  <2> QED BY <2>1, WithFields DEF SendDiscRsp
<1>2. ASSUME NEW i \in Nat, NEW k \in Nat
      PROVE  Quiet(d, D, RejectConnection(D, k, i))
  <2>1. [cmd |-> "CONN_RSP", id |-> i, dcid |-> NoCid, scid |-> k, result |-> "NEG"]
          \in Msgs
    BY CidsNat DEF Msgs, Results
  <2> QED BY <2>1, WithFields DEF RejectConnection
<1>3. ASSUME NEW type \in {"FEATURES", "FIXED"}
      PROVE  Quiet(d, D, SendInfoReq(D, type))
  <2> DEFINE i == NextId(D.id)
             E == [D EXCEPT !.id = i]
             F == [E EXCEPT !.w4info = TRUE]
             m == [cmd |-> "INFO_REQ", id |-> i, type |-> type]
  <2>1. i \in Nat
    BY NextIdType DEF Device
  <2> HIDE DEF i
  <2>2. m \in Msgs
    BY <2>1 DEF Msgs
  <2>3. F = [D EXCEPT !.id = i, !.w4info = TRUE]
    BY DEF Device
  <2> HIDE DEF F
  <2>4. SendInfoReq(D, type) = Send(F, m)
    BY <2>3 DEF SendInfoReq, i
  <2> HIDE DEF m
  <2>5. Quiet(d, D, E) /\ Device(d, E)
    BY <2>1, WithFields DEF Quiet
  <2> HIDE DEF E
  <2>6. Quiet(d, E, F) /\ Device(d, F)
    <3>1. \A b \in BOOLEAN : Quiet(d, E, [E EXCEPT !.w4info = b])
      BY <2>5, WithFields
    <3>2. Quiet(d, E, F)
      BY <3>1 DEF F
    <3> QED BY <3>2 DEF Quiet
  <2>7. Quiet(d, F, Send(F, m))
    BY <2>2, <2>6, WithFields
  <2> QED BY <2>4, <2>5, <2>6, <2>7, QuietTwice
<1> QED BY <1>1, <1>2, <1>3

-----------------------------------------------------------------------------
(* What a handler may do to the channel it runs for, and to no other. *)
Moves(d, D, E, c) ==
  /\ Sound(d, E) /\ E.link = D.link /\ E.pending = D.pending
  /\ (D.delay => D.sec # NoCid) => (E.delay => E.sec # NoCid)
  /\ \A e \in Cids(d) \ {c} : /\ E.ccb[e].used = D.ccb[e].used
                              /\ E.ccb[e].st = D.ccb[e].st
                              /\ E.app[e] = D.app[e]

LEMMA MovesTwice ==
  ASSUME NEW d, NEW D, NEW E, NEW F, NEW c, Moves(d, D, E, c), Moves(d, E, F, c)
  PROVE  Moves(d, D, F, c)
BY DEF Moves

LEMMA MovesSelf ==
  ASSUME NEW d, NEW D, Sound(d, D), NEW c
  PROVE  Moves(d, D, D, c)
BY DEF Moves

LEMMA QuietMoves ==
  ASSUME NEW d, NEW D, Sound(d, D), NEW E, Quiet(d, D, E), NEW c \in Cids(d)
  PROVE  /\ Moves(d, D, E, c)
         /\ E.ccb[c].used = D.ccb[c].used /\ E.ccb[c].st = D.ccb[c].st
         /\ E.app[c] = D.app[c]
<1>1. Sound(d, E)
  BY QuietSound
<1> QED BY <1>1 DEF Moves, Quiet, SameRest

LEMMA EnterMoves ==
  ASSUME NEW d, NEW D, Sound(d, D), NEW c \in Cids(d), NEW st \in States
  PROVE  /\ Moves(d, D, Enter(D, c, st), c)
         /\ Enter(D, c, st).ccb[c].st = st
         /\ Enter(D, c, st).ccb[c].used = D.ccb[c].used
         /\ Enter(D, c, st).app = D.app /\ Enter(D, c, st).chans = D.chans
<1> DEFINE r == [D.ccb[c] EXCEPT !.st = st]
           E == [D EXCEPT !.ccb[c] = r]
<1>1. Ccb(r) /\ r.used = D.ccb[c].used /\ r.st = st
  BY CcbFields DEF Sound, Device
<1>2. Enter(D, c, st) = E
  BY DEF Enter
<1> HIDE DEF r
<1>3. /\ Device(d, E) /\ SameRest(D, E) /\ E.ccb[c] = r
      /\ \A e \in Cids(d) \ {c} : E.ccb[e] = D.ccb[e]
  BY <1>1, WithCcb DEF Sound
<1> HIDE DEF E
<1>4. \A e \in Cids(d) : E.ccb[e].used = D.ccb[e].used
  BY <1>1, <1>3
<1>5. Sound(d, E)
  BY <1>3, <1>4 DEF Sound, Pool, SameRest
<1> QED BY <1>1, <1>2, <1>3, <1>5 DEF Moves, SameRest

(* What the owner knows changes. *)
LEMMA AppMoves ==
  ASSUME NEW d, NEW D, Sound(d, D), NEW c \in Cids(d), NEW a \in SUBSET Duties
  PROVE  /\ Moves(d, D, [D EXCEPT !.app[c] = a], c)
         /\ [D EXCEPT !.app[c] = a].ccb = D.ccb
         /\ [D EXCEPT !.app[c] = a].app[c] = a
<1> DEFINE E == [D EXCEPT !.app[c] = a]
<1>1. /\ DOMAIN E = DOMAIN D /\ E.ccb = D.ccb /\ E.free = D.free /\ E.chans = D.chans
      /\ E.sec = D.sec /\ E.delay = D.delay /\ E.link = D.link
      /\ E.pending = D.pending
  BY DEF Sound, Device
<1>2. /\ E.again = D.again /\ E.orphan = D.orphan /\ E.id = D.id
      /\ E.w4info = D.w4info /\ E.out = D.out
  BY DEF Sound, Device
<1>3. /\ E.app \in [Cids(d) -> SUBSET Duties] /\ E.app[c] = a
      /\ \A e \in Cids(d) \ {c} : E.app[e] = D.app[e]
  BY DEF Sound, Device
<1> HIDE DEF E
<1>4. Sound(d, E)
  BY <1>1, <1>2, <1>3 DEF Sound, Device, Pool
<1> QED BY <1>1, <1>3, <1>4 DEF Moves, E

LEMMA OwesMoves ==
  ASSUME NEW d, NEW D, Sound(d, D), NEW c \in Cids(d), NEW a \in SUBSET Duties
  PROVE  /\ Moves(d, D, Owes(D, c, a), c) /\ Owes(D, c, a).ccb = D.ccb
         /\ Owes(D, c, a).app[c] = D.app[c] \cup a
<1> DEFINE b == D.app[c] \cup a
<1>1. b \in SUBSET Duties
  BY DEF Sound, Device
<1>2. Owes(D, c, a) = [D EXCEPT !.app[c] = b]
  BY DEF Owes
<1> HIDE DEF b
<1> QED BY <1>1, <1>2, AppMoves DEF b

LEMMA TellMoves ==
  ASSUME NEW d, NEW D, Sound(d, D), NEW c \in Cids(d)
  PROVE  /\ Moves(d, D, Tell(D, c), c) /\ Tell(D, c).ccb = D.ccb
         /\ Tell(D, c).app[c] = {}
<1>1. {} \in SUBSET Duties
  OBVIOUS
<1>2. PICK a \in SUBSET Duties : a = {}
  BY <1>1
<1>3. Tell(D, c) = [D EXCEPT !.app[c] = a]
  BY <1>2 DEF Tell
<1> QED BY <1>2, <1>3, AppMoves

(* A control block leaves the link's queue for the end of the free list. *)
LEMMA ReleaseMoves ==
  ASSUME NEW d, NEW D, Sound(d, D), NEW c \in Cids(d)
  PROVE  /\ Moves(d, D, ReleaseCcb(D, c), c)
         /\ ReleaseCcb(D, c).ccb[c].used = FALSE
         /\ ReleaseCcb(D, c).app = D.app
<1>1. CASE ~D.ccb[c].used
  <2>1. D.ccb[c].used = FALSE
    BY <1>1 DEF Sound, Device, Ccb
  <2> QED BY <1>1, <2>1, MovesSelf DEF ReleaseCcb
<1>2. CASE D.ccb[c].used
  <2> DEFINE r == [D.ccb[c] EXCEPT !.used = FALSE, !.timer = FALSE]
             E == [D EXCEPT !.ccb[c] = r]
             q == Unlink(D.chans, c)
             F == [E EXCEPT !.free = Append(D.free, c), !.chans = q]
             i == CHOOSE i \in DOMAIN D.chans : D.chans[i] = c
  <2>1. Ccb(r) /\ r.used = FALSE /\ r.st = D.ccb[c].st
    <3>1. Ccb(D.ccb[c])
      BY DEF Sound, Device
    <3> QED BY <3>1 DEF Ccb, NoCcb
  <2>2. F = ReleaseCcb(D, c)
    <3>1. ReleaseCcb(D, c) =
            [D EXCEPT !.ccb[c].used = FALSE, !.ccb[c].timer = FALSE,
                      !.free = Append(@, c), !.chans = Unlink(@, c)]
      BY <1>2 DEF ReleaseCcb
    <3> QED BY <3>1 DEF Sound, Device, Ccb, NoCcb
  <2> HIDE DEF r
  <2>3. /\ Device(d, E) /\ SameRest(D, E) /\ E.ccb[c] = r
        /\ \A e \in Cids(d) \ {c} : E.ccb[e] = D.ccb[e]
    BY <2>1, WithCcb DEF Sound
  <2> HIDE DEF E
  <2>4. /\ D.free \in Seq(Cids(d)) /\ D.chans \in Seq(Cids(d))
        /\ IsInjective(D.free) /\ IsInjective(D.chans)
        /\ c \in ToSet(D.chans) /\ c \notin ToSet(D.free)
    BY <1>2 DEF Sound, Device, Pool
  <2>5. i \in 1..Len(D.chans) /\ D.chans[i] = c
    <3>1. \E k \in DOMAIN D.chans : D.chans[k] = c
      BY <2>4 DEF ToSet
    <3>2. i \in DOMAIN D.chans /\ D.chans[i] = c
      BY <3>1
    <3> QED BY <2>4, <3>2, LenProperties
  <2>6. /\ q \in Seq(Cids(d)) /\ ToSet(q) = ToSet(D.chans) \ {c} /\ IsInjective(q)
    <3>1. q = RemoveAt(D.chans, i)
      BY DEF Unlink
    <3> HIDE DEF q, i
    <3> QED BY <2>4, <2>5, <3>1, RemoveAtSet
  <2>7. /\ Append(D.free, c) \in Seq(Cids(d)) /\ IsInjective(Append(D.free, c))
        /\ ToSet(Append(D.free, c)) = ToSet(D.free) \cup {c}
    BY <2>4, AppendSet
  <2> HIDE DEF q, i
  <2>8. /\ DOMAIN F = DOMAIN E /\ F.ccb = E.ccb /\ F.free = Append(D.free, c)
        /\ F.chans = q /\ F.app = E.app /\ F.sec = E.sec /\ F.delay = E.delay
        /\ F.link = E.link /\ F.pending = E.pending
    BY <2>3 DEF Device
  <2>9. F.again = E.again /\ F.orphan = E.orphan /\ F.id = E.id
        /\ F.w4info = E.w4info /\ F.out = E.out
    BY <2>3 DEF Device
  <2> HIDE DEF F
  <2>10. Device(d, F)
    BY <2>3, <2>6, <2>7, <2>8, <2>9 DEF Device
  <2>11. Pool(d, F)
    BY <2>1, <2>3, <2>6, <2>7, <2>8 DEF Pool, Sound
  <2>12. Moves(d, D, F, c)
    BY <2>3, <2>8, <2>10, <2>11 DEF Moves, Sound, SameRest
  <2> QED BY <2>1, <2>2, <2>3, <2>8, <2>12 DEF SameRest
<1> QED BY <1>1, <1>2

LEMMA ReleaseAndTellMoves ==
  ASSUME NEW d, NEW D, Sound(d, D), NEW c \in Cids(d)
  PROVE  /\ Moves(d, D, ReleaseAndTell(D, c), c)
         /\ ReleaseAndTell(D, c).ccb[c].used = FALSE
         /\ ReleaseAndTell(D, c).app[c] = {}
<1> DEFINE E == ReleaseCcb(D, c)
<1>1. Moves(d, D, E, c) /\ E.ccb[c].used = FALSE
  BY ReleaseMoves
<1>2. ReleaseAndTell(D, c) = Tell(E, c)
  BY DEF ReleaseAndTell
<1> HIDE DEF E
<1>3. Sound(d, E)
  BY <1>1 DEF Moves
<1>4. /\ Moves(d, E, Tell(E, c), c) /\ Tell(E, c).ccb = E.ccb
      /\ Tell(E, c).app[c] = {}
  BY <1>3, TellMoves
<1> QED BY <1>1, <1>2, <1>4, MovesTwice

(* Only the security manager's fields change. *)
OnlySec(D, E) ==
  /\ DOMAIN E = DOMAIN D /\ E.ccb = D.ccb /\ E.free = D.free /\ E.chans = D.chans
  /\ E.link = D.link /\ E.pending = D.pending /\ E.app = D.app
  /\ E.again = D.again /\ E.id = D.id /\ E.w4info = D.w4info /\ E.out = D.out

LEMMA SecMoves ==
  ASSUME NEW d, NEW D, Sound(d, D), NEW c \in Cids(d), NEW E, OnlySec(D, E),
         E.sec \in Cids(d) \cup {NoCid}, E.delay \in BOOLEAN,
         E.delay => E.sec # NoCid, E.orphan \in BOOLEAN
  PROVE  Moves(d, D, E, c) /\ E.ccb = D.ccb /\ E.app = D.app
<1>1. Sound(d, E)
  BY DEF Sound, Device, Pool, OnlySec
<1> QED BY <1>1 DEF Moves, OnlySec

LEMMA FreeHead ==
  ASSUME NEW d, NEW D, Sound(d, D), D.free # <<>>
  PROVE  Head(D.free) \in Cids(d)
<1>1. D.free \in Seq(Cids(d))
  BY DEF Sound, Device
<1> QED BY <1>1, HeadTailProperties

(* A control block leaves the free list for the link's queue. *)
LEMMA AllocateMoves ==
  ASSUME NEW d, NEW D, Sound(d, D), D.free # <<>>,
         NEW c \in Cids(d), c = Head(D.free)
  PROVE  /\ ~D.ccb[c].used
         /\ Moves(d, D, AllocateCcb(D), c)
         /\ AllocateCcb(D).ccb[c].used = TRUE
         /\ AllocateCcb(D).ccb[c].st = "CLOSED"
         /\ AllocateCcb(D).app = D.app
<1>1. /\ D.free \in Seq(Cids(d)) /\ D.chans \in Seq(Cids(d))
      /\ IsInjective(D.free) /\ IsInjective(D.chans)
  BY DEF Sound, Device, Pool
<1>2. /\ Tail(D.free) \in Seq(Cids(d)) /\ c \in ToSet(D.free)
      /\ ToSet(Tail(D.free)) = ToSet(D.free) \ {c} /\ IsInjective(Tail(D.free))
  BY <1>1, TailSet
<1>3. ~D.ccb[c].used /\ c \notin ToSet(D.chans)
  BY <1>2 DEF Sound, Pool
<1>4. /\ Append(D.chans, c) \in Seq(Cids(d)) /\ IsInjective(Append(D.chans, c))
      /\ ToSet(Append(D.chans, c)) = ToSet(D.chans) \cup {c}
  BY <1>1, <1>2, <1>3, AppendSet
<1> DEFINE r == [D.ccb[c] EXCEPT !.used = TRUE, !.st = "CLOSED", !.cfg = {},
                                 !.timer = FALSE, !.pnd = FALSE,
                                 !.noretry = FALSE, !.modes = TRUE]
           E == [D EXCEPT !.ccb[c] = r]
           p == Tail(D.free)
           q == Append(D.chans, c)
           F == [E EXCEPT !.free = p, !.chans = q]
<1>5. Ccb(r) /\ r.used = TRUE /\ r.st = "CLOSED"
  <2>1. Ccb(D.ccb[c])
    BY <1>2 DEF Sound, Device
  <2> QED BY <2>1 DEF Ccb, NoCcb, States
<1>6. AllocateCcb(D) = F
  <2>1. AllocateCcb(D) = [D EXCEPT !.free = p, !.chans = q, !.ccb[c] = r]
    BY DEF AllocateCcb
  <2> HIDE DEF r, p, q
  <2> QED BY <2>1 DEF Sound, Device
<1> HIDE DEF r
<1>7. /\ Device(d, E) /\ SameRest(D, E) /\ E.ccb[c] = r
      /\ \A e \in Cids(d) \ {c} : E.ccb[e] = D.ccb[e]
  <2>1. Device(d, D)
    BY DEF Sound
  <2> QED BY <1>5, <2>1, WithCcb
<1> HIDE DEF E, p, q
<1>8. /\ DOMAIN F = DOMAIN E /\ F.ccb = E.ccb /\ F.free = p /\ F.chans = q
      /\ F.app = E.app /\ F.sec = E.sec /\ F.delay = E.delay
      /\ F.link = E.link /\ F.pending = E.pending
  BY <1>7 DEF Device
<1>9. F.again = E.again /\ F.orphan = E.orphan /\ F.id = E.id
      /\ F.w4info = E.w4info /\ F.out = E.out
  BY <1>7 DEF Device
<1> HIDE DEF F
<1>10. Device(d, F)
  <2>1. p \in Seq(Cids(d)) /\ q \in Seq(Cids(d))
    BY <1>2, <1>4 DEF p, q
  <2> QED BY <1>7, <1>8, <1>9, <2>1 DEF Device
<1>11. Pool(d, F)
  BY <1>2, <1>4, <1>5, <1>7, <1>8 DEF Pool, Sound, p, q
<1>12. Moves(d, D, F, c)
  BY <1>7, <1>8, <1>10, <1>11 DEF Moves, Sound, SameRest
<1> QED BY <1>2, <1>3, <1>5, <1>6, <1>7, <1>8, <1>12 DEF SameRest

-----------------------------------------------------------------------------
(* A handler for channel c that leaves its owner informed. *)
Accepted(D, c) == D.ccb[c].used /\ D.ccb[c].st \in Unowned

Settles(d, D, E, c) ==
  /\ Moves(d, D, E, c) /\ Owned(E, c)
  /\ Accepted(E, c) => Accepted(D, c)

LEMMA SettlesTwice ==
  ASSUME NEW d, NEW D, NEW E, NEW F, NEW c, Settles(d, D, E, c), Settles(d, E, F, c)
  PROVE  Settles(d, D, F, c)
BY MovesTwice DEF Settles

LEMMA QuietSettles ==
  ASSUME NEW d, NEW D, Sound(d, D), NEW E, Quiet(d, D, E), NEW c \in Cids(d),
         Owned(D, c)
  PROVE  Settles(d, D, E, c)
<1>1. /\ Moves(d, D, E, c) /\ E.ccb[c].used = D.ccb[c].used
      /\ E.ccb[c].st = D.ccb[c].st /\ E.app[c] = D.app[c]
  BY QuietMoves
<1> QED BY <1>1 DEF Settles, Owned, Accepted

LEMMA ReleaseSettles ==
  ASSUME NEW d, NEW D, NEW E, NEW c \in Cids(d), Moves(d, D, E, c)
  PROVE  Settles(d, D, ReleaseAndTell(E, c), c)
<1> DEFINE F == ReleaseAndTell(E, c)
<1>1. Sound(d, E)
  BY DEF Moves
<1>2. Moves(d, E, F, c) /\ F.ccb[c].used = FALSE /\ F.app[c] = {}
  BY <1>1, ReleaseAndTellMoves
<1> HIDE DEF F
<1>3. Moves(d, D, F, c)
  BY <1>2, MovesTwice
<1> QED BY <1>2, <1>3 DEF Settles, Owned, Accepted, F

(* The channel changes its state. *)
LEMMA EnterSettles ==
  ASSUME NEW d, NEW D, Sound(d, D), NEW c \in Cids(d), Owned(D, c),
         NEW st \in States,
         st \in Unowned => Accepted(D, c) /\ st # "TERM_W4_SEC_COMP",
         Accepted(D, c) /\ st \notin Unowned => "own" \in D.app[c]
  PROVE  /\ Settles(d, D, Enter(D, c, st), c)
         /\ Enter(D, c, st).ccb[c].st = st
         /\ Enter(D, c, st).ccb[c].used = D.ccb[c].used
<1> DEFINE E == Enter(D, c, st)
<1>1. /\ Moves(d, D, E, c) /\ E.ccb[c].st = st
      /\ E.ccb[c].used = D.ccb[c].used /\ E.app = D.app
  BY EnterMoves
<1> HIDE DEF E
<1>2. Owned(E, c)
  BY <1>1 DEF Owned, Accepted, Unowned
<1>3. Accepted(E, c) => Accepted(D, c)
  BY <1>1 DEF Accepted
<1> QED BY <1>1, <1>2, <1>3 DEF Settles, E

(* A channel with an owner gives it another duty, or the identity. *)
LEMMA OwesSettles ==
  ASSUME NEW d, NEW D, Sound(d, D), NEW c \in Cids(d), D.ccb[c].used,
         D.ccb[c].st # "TERM_W4_SEC_COMP", NEW a \in SUBSET Duties,
         "own" \in D.app[c] \cup a
  PROVE  Settles(d, D, Owes(D, c, a), c)
<1> DEFINE E == Owes(D, c, a)
<1>1. Moves(d, D, E, c) /\ E.ccb = D.ccb /\ E.app[c] = D.app[c] \cup a
  BY OwesMoves
<1> HIDE DEF E
<1>2. Owned(E, c) /\ (Accepted(E, c) => Accepted(D, c))
  BY <1>1 DEF Owned, Accepted
<1> QED BY <1>1, <1>2 DEF Settles, E

LEMMA StartConnectSettles ==
  ASSUME NEW d, NEW D, Sound(d, D), NEW c \in Cids(d), Owned(D, c)
  PROVE  Settles(d, D, StartConnect(D, c), c)
<1>1. CASE D.ccb[c].modes
  <2> DEFINE E == SendConnectReq(D, c)
  <2>1. Quiet(d, D, E)
    BY SendsQuiet DEF Sound
  <2>2. StartConnect(D, c) = StartTimer(E, c)
    BY <1>1 DEF StartConnect
  <2> HIDE DEF E
  <2>3. Quiet(d, E, StartTimer(E, c))
    BY <2>1, TimersQuiet DEF Quiet
  <2> QED BY <2>1, <2>2, <2>3, QuietTwice, QuietSettles
<1>2. CASE ~D.ccb[c].modes
  BY <1>2, MovesSelf, ReleaseSettles DEF StartConnect
<1> QED BY <1>1, <1>2

LEMMA ConnectIndSettles ==
  ASSUME NEW d, NEW D, Sound(d, D), NEW c \in Cids(d), Owned(D, c),
         D.ccb[c].used, D.ccb[c].st = "W4_L2CA_CONNECT_RSP"
  PROVE  Settles(d, D, ConnectInd(D, c), c)
<1> DEFINE E == StartTimer(D, c)
           F == [E EXCEPT !.ccb[c].indid = D.ccb[c].rid]
<1>1. ConnectInd(D, c) = Owes(F, c, {"own", "connrsp"})
  BY DEF ConnectInd
<1>2. D.ccb[c].rid \in Nat
  BY DEF Sound, Device, Ccb
<1>3. Quiet(d, D, E) /\ Device(d, E)
  BY TimersQuiet DEF Sound, Quiet
<1> HIDE DEF E
<1>4. Quiet(d, E, F)
  <2>1. \A i \in Nat : Quiet(d, E, [E EXCEPT !.ccb[c].indid = i])
    BY <1>3, QuietFields
  <2> QED BY <1>2, <2>1
<1> HIDE DEF F
<1>5. Quiet(d, D, F)
  BY <1>3, <1>4, QuietTwice
<1>6. Settles(d, D, F, c) /\ Sound(d, F)
      /\ F.ccb[c].used /\ F.ccb[c].st # "TERM_W4_SEC_COMP"
  BY <1>5, QuietSettles, QuietSound, QuietMoves
<1>7. Settles(d, F, Owes(F, c, {"own", "connrsp"}), c)
  <2>1. {"own", "connrsp"} \in SUBSET Duties
    BY DEF Duties
  <2>2. PICK a \in SUBSET Duties : a = {"own", "connrsp"}
    BY <2>1
  <2>3. Settles(d, F, Owes(F, c, a), c)
    BY <1>6, <2>2, OwesSettles
  <2> QED BY <2>2, <2>3
<1> QED BY <1>1, <1>6, <1>7, SettlesTwice

(* l2c_csm_execute's reactions to the security manager. *)
LEMMA SecCompSettles ==
  ASSUME NEW d, NEW D, Sound(d, D), NEW c \in Cids(d), Owned(D, c), D.ccb[c].used
  PROVE  Settles(d, D, SecComp(D, c), c)
<1>1. CASE D.ccb[c].st \in {"CLOSED", "ORIG_W4_SEC_COMP"}
  <2> DEFINE E == Enter(D, c, "W4_L2CAP_CONNECT_RSP")
  <2>1. SecComp(D, c) = IF D.w4info THEN E ELSE StartConnect(E, c)
    BY <1>1 DEF SecComp
  <2>2. Settles(d, D, E, c)
    <3>1. "W4_L2CAP_CONNECT_RSP" \in States \ Unowned /\ ~Accepted(D, c)
      BY <1>1 DEF States, Unowned, Accepted
    <3> QED BY <3>1, EnterSettles
  <2> HIDE DEF E
  <2>3. Sound(d, E) /\ Owned(E, c)
    BY <2>2 DEF Settles, Moves
  <2>4. Settles(d, E, StartConnect(E, c), c)
    BY <2>3, StartConnectSettles
  <2> QED BY <2>1, <2>2, <2>4, SettlesTwice
<1>2. CASE D.ccb[c].st = "TERM_W4_SEC_COMP"
  <2> DEFINE E == Enter(D, c, "W4_L2CA_CONNECT_RSP")
  <2>1. SecComp(D, c) = IF D.w4info THEN SendConnectRsp(E, c, "PENDING")
                        ELSE ConnectInd(E, c)
    BY <1>2 DEF SecComp
  <2>2. /\ Settles(d, D, E, c) /\ E.ccb[c].used
        /\ E.ccb[c].st = "W4_L2CA_CONNECT_RSP"
    <3>1. "W4_L2CA_CONNECT_RSP" \in States \cap Unowned /\ Accepted(D, c)
      BY <1>2 DEF States, Unowned, Accepted
    <3> QED BY <3>1, EnterSettles
  <2> HIDE DEF E
  <2>3. Sound(d, E) /\ Owned(E, c) /\ Device(d, E)
    BY <2>2 DEF Settles, Moves, Sound
  <2>4. Quiet(d, E, SendConnectRsp(E, c, "PENDING"))
    <3>1. "PENDING" \in Results
      BY DEF Results
    <3> QED BY <2>3, <3>1, SendsQuiet
  <2>5. Settles(d, E, SendConnectRsp(E, c, "PENDING"), c)
    BY <2>3, <2>4, QuietSettles
  <2>6. Settles(d, E, ConnectInd(E, c), c)
    BY <2>2, <2>3, ConnectIndSettles
  <2> QED BY <2>1, <2>2, <2>5, <2>6, SettlesTwice
<1>3. CASE D.ccb[c].st \notin {"CLOSED", "ORIG_W4_SEC_COMP", "TERM_W4_SEC_COMP"}
  <2>1. SecComp(D, c) = D
    BY <1>3 DEF SecComp
  <2> QED BY <2>1, QuietSelf, QuietSettles DEF Sound
<1> QED BY <1>1, <1>2, <1>3

LEMMA SecCompNegSettles ==
  ASSUME NEW d, NEW D, Sound(d, D), NEW c \in Cids(d), Owned(D, c), D.ccb[c].used
  PROVE  Settles(d, D, SecCompNeg(D, c), c)
<1>1. CASE D.ccb[c].st \in {"CLOSED", "ORIG_W4_SEC_COMP"}
  <2>1. SecCompNeg(D, c) = ReleaseAndTell(D, c)
    BY <1>1 DEF SecCompNeg
  <2> QED BY <2>1, MovesSelf, ReleaseSettles
<1>2. CASE D.ccb[c].st = "TERM_W4_SEC_COMP"
  <2> DEFINE E == SendConnectRsp(D, c, "NEG")
             F == ReleaseCcb(E, c)
  <2>1. SecCompNeg(D, c) = F
    BY <1>2 DEF SecCompNeg
  <2>2. Quiet(d, D, E)
    <3>1. "NEG" \in Results
      BY DEF Results
    <3> QED BY <3>1, SendsQuiet DEF Sound
  <2> HIDE DEF E
  <2>3. Sound(d, E) /\ Moves(d, D, E, c) /\ E.app[c] = {}
    BY <1>2, <2>2, QuietSound, QuietMoves DEF Owned
  <2>4. Moves(d, E, F, c) /\ F.ccb[c].used = FALSE /\ F.app = E.app
    BY <2>3, ReleaseMoves
  <2> HIDE DEF F
  <2>5. Moves(d, D, F, c)
    BY <2>3, <2>4, MovesTwice
  <2> QED BY <2>1, <2>3, <2>4, <2>5 DEF Settles, Owned, Accepted
<1>3. CASE D.ccb[c].st \notin {"CLOSED", "ORIG_W4_SEC_COMP", "TERM_W4_SEC_COMP"}
  <2>1. SecCompNeg(D, c) = D
    BY <1>3 DEF SecCompNeg
  <2> QED BY <2>1, QuietSelf, QuietSettles DEF Sound
<1> QED BY <1>1, <1>2, <1>3

AnswerSet == {"STARTED", "SUCCESS", "FAIL", "DELAY"}

LEMMA AccessReqSettles ==
  ASSUME NEW d, NEW D, Sound(d, D), NEW c \in Cids(d), Owned(D, c), D.ccb[c].used,
         NEW answer \in AnswerSet
  PROVE  Settles(d, D, AccessReq(D, c, answer), c)
<1>1. CASE answer = "SUCCESS"
  BY <1>1, SecCompSettles DEF AccessReq
<1>2. CASE answer = "FAIL"
  BY <1>2, SecCompNegSettles DEF AccessReq
<1>3. CASE answer \in {"STARTED", "DELAY"} /\ D.sec # NoCid
  <2>1. AccessReq(D, c, answer) = [D EXCEPT !.again = TRUE]
    BY <1>3 DEF AccessReq
  <2>2. \A b \in BOOLEAN : Quiet(d, D, [D EXCEPT !.again = b])
    BY WithFields DEF Sound
  <2> QED BY <2>1, <2>2, QuietSettles
<1>4. CASE answer = "STARTED" /\ D.sec = NoCid
  <2>1. PICK E : E = [D EXCEPT !.sec = c, !.delay = FALSE]
    OBVIOUS
  <2>2. AccessReq(D, c, answer) = E
    BY <1>4, <2>1 DEF AccessReq
  <2>3. OnlySec(D, E) /\ E.sec = c /\ E.delay = FALSE /\ E.orphan = D.orphan
    BY <2>1 DEF Sound, Device, OnlySec
  <2>4. Moves(d, D, E, c) /\ E.ccb = D.ccb /\ E.app = D.app
    <3>1. D.orphan \in BOOLEAN
      BY DEF Sound, Device
    <3>2. /\ E.sec \in Cids(d) \cup {NoCid} /\ E.orphan \in BOOLEAN
          /\ E.delay \in BOOLEAN /\ (E.delay => E.sec # NoCid)
      BY <2>3, <3>1
    <3> QED BY <2>3, <3>2, SecMoves
  <2> QED BY <2>2, <2>4 DEF Settles, Owned, Accepted
<1>5. CASE answer = "DELAY" /\ D.sec = NoCid
  <2>1. PICK E : E = [D EXCEPT !.sec = c, !.delay = TRUE]
    OBVIOUS
  <2>2. AccessReq(D, c, answer) = StartTimer(E, c)
    BY <1>5, <2>1 DEF AccessReq
  <2>3. OnlySec(D, E) /\ E.sec = c /\ E.delay = TRUE /\ E.orphan = D.orphan
    BY <2>1 DEF Sound, Device, OnlySec
  <2>4. Moves(d, D, E, c) /\ E.ccb = D.ccb /\ E.app = D.app
    <3>1. D.orphan \in BOOLEAN /\ c # NoCid
      BY CidsNat DEF Sound, Device
    <3>2. /\ E.sec \in Cids(d) \cup {NoCid} /\ E.orphan \in BOOLEAN
          /\ E.delay \in BOOLEAN /\ (E.delay => E.sec # NoCid)
      BY <2>3, <3>1
    <3> QED BY <2>3, <3>2, SecMoves
  <2>5. Settles(d, D, E, c) /\ Sound(d, E) /\ Owned(E, c)
    BY <2>4 DEF Settles, Owned, Accepted, Moves
  <2>6. Quiet(d, E, StartTimer(E, c))
    BY <2>5, TimersQuiet DEF Sound
  <2>7. Settles(d, E, StartTimer(E, c), c)
    BY <2>5, <2>6, QuietSettles
  <2> QED BY <2>2, <2>5, <2>7, SettlesTwice
<1> QED BY <1>1, <1>2, <1>3, <1>4, <1>5 DEF AnswerSet

LEMMA SettlesFits ==
  ASSUME NEW d, NEW D, NEW E, NEW c \in Cids(d), Fits(d, D), Settles(d, D, E, c)
  PROVE  Fits(d, E) /\ E.link = D.link /\ E.pending = D.pending
<1>1. \A e \in Cids(d) : Owned(E, e)
  BY DEF Fits, Settles, Moves, Owned
<1>2. \A e \in Cids(d) : Accepted(E, e) => Accepted(D, e)
  BY DEF Settles, Moves, Accepted
<1>3. Away(d, E)
  BY <1>2 DEF Fits, Settles, Moves, Away, Accepted
<1> QED BY <1>1, <1>3 DEF Fits, Settles, Moves

-----------------------------------------------------------------------------
(* The loops over a link's channels. *)

(* One round of each loop, for channel c. *)
Round(loop, D, x, E, c) ==
  CASE loop = "resubmit" ->
         IF WaitsForSecurity(E, c) THEN AccessReq(E, c, x) ELSE E
    [] loop = "info" ->
         IF E.chans = D.chans THEN InfoRspEvent(E, c) ELSE E
    [] loop = "fails" -> ReleaseAndTell(E, c)
    [] loop = "up" ->
         IF E.chans = D.chans
         THEN AccessReq(Enter(E, c, "ORIG_W4_SEC_COMP"), c, x) ELSE E
    [] loop = "down" -> IF c # D.pending THEN LinkLost(E, c, x) ELSE E

(* q[i] is the device after the i-th round. *)
Rounds(loop, D, x, q) ==
  q = [i \in 0..Len(D.chans) |->
         IF i = 0 THEN D ELSE Round(loop, D, x, q[i - 1], D.chans[i])]

LEMMA RoundsExist ==
  ASSUME NEW loop, NEW D, NEW x, Len(D.chans) \in Nat
  PROVE  \E q : Rounds(loop, D, x, q)
<1> DEFINE n == Len(D.chans)
           Run(q, k) == q = [i \in 0..k |-> IF i = 0 THEN D
                               ELSE Round(loop, D, x, q[i - 1], D.chans[i])]
           T == {k \in 0..n : \E q : Run(q, k)}
<1>1. 0 \in T
  <2>1. Run([i \in 0..0 |-> D], 0)
    OBVIOUS
  <2>2. 0 \in 0..n
    OBVIOUS
  <2> HIDE DEF Run, n
  <2> QED BY <2>1, <2>2
<1>2. ASSUME NEW k \in 1..n, k - 1 \in T PROVE k \in T
  <2>1. PICK r : Run(r, k - 1)
    BY <1>2
  <2> DEFINE q == [i \in 0..k |-> IF i = k THEN Round(loop, D, x, r[k - 1], D.chans[k])
                                  ELSE r[i]]
  <2>2. \A i \in 0..k :
          q[i] = IF i = 0 THEN D ELSE Round(loop, D, x, q[i - 1], D.chans[i])
    <3> SUFFICES ASSUME NEW i \in 0..k
                 PROVE q[i] = IF i = 0 THEN D
                              ELSE Round(loop, D, x, q[i - 1], D.chans[i])
      OBVIOUS
    <3>1. CASE i = k
      <4>1. q[i] = Round(loop, D, x, r[k - 1], D.chans[k]) /\ q[i - 1] = r[k - 1]
            /\ i # 0
        BY <3>1
      <4> QED BY <3>1, <4>1
    <3>2. CASE i # k
      <4>1. i \in 0..(k - 1) /\ (i # 0 => i - 1 \in 0..k /\ i - 1 # k)
        BY <3>2
      <4>2. q[i] = r[i] /\ (i # 0 => q[i - 1] = r[i - 1])
        BY <3>2, <4>1
      <4>3. r[i] = IF i = 0 THEN D ELSE Round(loop, D, x, r[i - 1], D.chans[i])
        BY <2>1, <4>1
      <4> QED BY <4>2, <4>3
    <3> QED BY <3>1, <3>2
  <2>3. Run(q, k)
    BY <2>2
  <2>4. k \in 0..n
    OBVIOUS
  <2> HIDE DEF q, Run, n
  <2> QED BY <2>3, <2>4
<1>3. n \in T
  <2> HIDE DEF T, n
  <2> QED BY <1>1, <1>2, AfterRounds DEF n
<1> QED BY <1>3 DEF Rounds

LEMMA ResubmitRounds ==
  ASSUME NEW D, NEW answer, Len(D.chans) \in Nat
  PROVE  \E q : /\ Rounds("resubmit", D, answer, q)
                /\ Resubmit(D, answer) = q[Len(D.chans)]
<1> DEFINE Run(q) ==
      q = [i \in 0..Len(D.chans) |-> IF i = 0 THEN D ELSE
             IF WaitsForSecurity(q[i - 1], D.chans[i])
             THEN AccessReq(q[i - 1], D.chans[i], answer) ELSE q[i - 1]]
<1>1. \A q : Rounds("resubmit", D, answer, q) <=> Run(q)
  BY DEF Rounds, Round
<1>2. \E q : Run(q)
  BY <1>1, RoundsExist
<1>3. \E q : Run(q) /\ Resubmit(D, answer) = q[Len(D.chans)]
  BY Zenon, <1>2 DEF Resubmit, Each
<1> QED BY <1>1, <1>3

LEMMA InfoRspRounds ==
  ASSUME NEW D, Len(D.chans) \in Nat
  PROVE  \E q : /\ Rounds("info", D, "", q)
                /\ InfoRspAll(D) = q[Len(D.chans)]
<1> DEFINE Run(q) ==
      q = [i \in 0..Len(D.chans) |-> IF i = 0 THEN D ELSE
             IF q[i - 1].chans = D.chans
             THEN InfoRspEvent(q[i - 1], D.chans[i]) ELSE q[i - 1]]
<1>1. \A q : Rounds("info", D, "", q) <=> Run(q)
  BY DEF Rounds, Round
<1>2. \E q : Run(q)
  BY <1>1, RoundsExist
<1>3. \E q : Run(q) /\ InfoRspAll(D) = q[Len(D.chans)]
  BY Zenon, <1>2 DEF InfoRspAll, EachUntilReleased, Each
<1> QED BY <1>1, <1>3

LEMMA ReleaseAllRounds ==
  ASSUME NEW D, Len(D.chans) \in Nat
  PROVE  \E q : /\ Rounds("fails", D, "", q)
                /\ ReleaseAll(D) = q[Len(D.chans)]
<1> DEFINE Run(q) ==
      q = [i \in 0..Len(D.chans) |-> IF i = 0 THEN D ELSE
             ReleaseAndTell(q[i - 1], D.chans[i])]
<1>1. \A q : Rounds("fails", D, "", q) <=> Run(q)
  BY DEF Rounds, Round
<1>2. \E q : Run(q)
  BY <1>1, RoundsExist
<1>3. \E q : Run(q) /\ ReleaseAll(D) = q[Len(D.chans)]
  BY Zenon, <1>2 DEF ReleaseAll, Each
<1> QED BY <1>1, <1>3

LEMMA ConfirmRounds ==
  ASSUME NEW D, NEW answer, Len(D.chans) \in Nat
  PROVE  \E q : /\ Rounds("up", D, answer, q)
                /\ ConfirmAll(D, answer) = q[Len(D.chans)]
<1> DEFINE Run(q) ==
      q = [i \in 0..Len(D.chans) |-> IF i = 0 THEN D ELSE
             IF q[i - 1].chans = D.chans
             THEN AccessReq(Enter(q[i - 1], D.chans[i], "ORIG_W4_SEC_COMP"),
                            D.chans[i], answer)
             ELSE q[i - 1]]
<1>1. \A q : Rounds("up", D, answer, q) <=> Run(q)
  BY DEF Rounds, Round
<1>2. \E q : Run(q)
  BY <1>1, RoundsExist
<1>3. \E q : Run(q) /\ ConfirmAll(D, answer) = q[Len(D.chans)]
  BY Zenon, <1>2 DEF ConfirmAll, EachUntilReleased, Each
<1> QED BY <1>1, <1>3

LEMMA LinkLostRounds ==
  ASSUME NEW D, NEW reason, Len(D.chans) \in Nat
  PROVE  \E q : /\ Rounds("down", D, reason, q)
                /\ LinkLostAll(D, reason) = q[Len(D.chans)]
<1> DEFINE Run(q) ==
      q = [i \in 0..Len(D.chans) |-> IF i = 0 THEN D ELSE
             IF D.chans[i] # D.pending
             THEN LinkLost(q[i - 1], D.chans[i], reason) ELSE q[i - 1]]
<1>1. \A q : Rounds("down", D, reason, q) <=> Run(q)
  BY DEF Rounds, Round
<1>2. \E q : Run(q)
  BY <1>1, RoundsExist
<1>3. \E q : Run(q) /\ LinkLostAll(D, reason) = q[Len(D.chans)]
  BY Zenon, <1>2 DEF LinkLostAll, Each
<1> QED BY <1>1, <1>3

LEMMA RoundsAre ==
  ASSUME NEW loop, NEW D, NEW x, NEW q, Rounds(loop, D, x, q), Len(D.chans) \in Nat
  PROVE  /\ q[0] = D
         /\ \A i \in 1..Len(D.chans) : q[i] = Round(loop, D, x, q[i - 1], D.chans[i])
BY DEF Rounds

LEMMA ChansAre ==
  ASSUME NEW d, NEW D, Sound(d, D)
  PROVE  /\ Len(D.chans) \in Nat
         /\ \A i \in 1..Len(D.chans) : D.chans[i] \in Cids(d)
         /\ \A c \in Cids(d) : D.ccb[c].used => \E i \in 1..Len(D.chans) : D.chans[i] = c
         /\ \A i \in 1..Len(D.chans) : D.ccb[D.chans[i]].used
<1>1. D.chans \in Seq(Cids(d)) /\ Len(D.chans) \in Nat
  BY LenProperties DEF Sound, Device
<1>2. \A c \in Cids(d) : c \in ToSet(D.chans) <=> D.ccb[c].used
  BY DEF Sound, Pool
<1>3. \A c : c \in ToSet(D.chans) <=> \E i \in 1..Len(D.chans) : D.chans[i] = c
  BY <1>1, LenProperties DEF ToSet
<1>4. \A i \in 1..Len(D.chans) : D.chans[i] \in Cids(d)
  BY <1>1, ElementOfSeq
<1> QED BY <1>1, <1>2, <1>3, <1>4

(* A loop whose rounds settle their channel keeps the invariant. *)
NoneAccepted(d, D, E) == \A e \in Cids(d) : Accepted(E, e) => Accepted(D, e)

Kept(d, D, E) ==
  /\ Fits(d, E) /\ E.link = D.link /\ E.pending = D.pending
  /\ NoneAccepted(d, D, E)

LEMMA SettlesKept ==
  ASSUME NEW d, NEW D, NEW E, NEW F, NEW c \in Cids(d), Kept(d, D, E),
         Settles(d, E, F, c)
  PROVE  Kept(d, D, F)
<1>1. Fits(d, F) /\ F.link = E.link /\ F.pending = E.pending
  BY SettlesFits DEF Kept
<1>2. \A e \in Cids(d) : Accepted(F, e) => Accepted(E, e)
  BY DEF Settles, Moves, Accepted
<1> QED BY <1>1, <1>2 DEF Kept, NoneAccepted

LEMMA LoopKeeps ==
  ASSUME NEW d, NEW D, Fits(d, D), NEW loop, NEW x, NEW q, Rounds(loop, D, x, q),
         \A E : \A c \in Cids(d) :
           D.ccb[c].used /\ Kept(d, D, E) => Settles(d, E, Round(loop, D, x, E, c), c)
  PROVE  /\ \A i \in 0..Len(D.chans) : Kept(d, D, q[i])
         /\ Kept(d, D, q[Len(D.chans)])
<1> DEFINE n == Len(D.chans)
<1>1. n \in Nat /\ \A i \in 1..n : D.chans[i] \in Cids(d) /\ D.ccb[D.chans[i]].used
  BY ChansAre DEF Fits
<1>2. q[0] = D /\ \A i \in 1..n : q[i] = Round(loop, D, x, q[i - 1], D.chans[i])
  BY <1>1, RoundsAre
<1>3. n \in 0..n
  BY <1>1
<1> HIDE DEF n
<1> SUFFICES ASSUME NEW m \in 0..n PROVE Kept(d, D, q[m])
  BY <1>3 DEF n
<1> DEFINE T == {i \in 0..m : Kept(d, D, q[i])}
<1>4. m \in Nat /\ 0 \in T
  <2>1. Kept(d, D, q[0])
    BY <1>2 DEF Kept, NoneAccepted
  <2> QED BY <1>1, <2>1
<1>5. ASSUME NEW i \in 1..m, i - 1 \in T PROVE i \in T
  <2>1. i \in 1..n /\ i \in 0..m
    BY <1>1
  <2>2. PICK c \in Cids(d) : c = D.chans[i] /\ D.ccb[c].used
    BY <1>1, <2>1
  <2>3. PICK E : E = q[i - 1]
    OBVIOUS
  <2>4. Kept(d, D, E)
    BY <1>5, <2>3
  <2>5. q[i] = Round(loop, D, x, E, c)
    BY <1>2, <2>1, <2>2, <2>3
  <2>6. Settles(d, E, Round(loop, D, x, E, c), c)
    BY <2>2, <2>4
  <2>7. Kept(d, D, q[i])
    BY <2>4, <2>5, <2>6, SettlesKept
  <2> QED BY <2>1, <2>7
<1>6. m \in T
  <2> HIDE DEF T
  <2> QED BY <1>4, <1>5, AfterRounds
<1> QED BY <1>6

(* A round that leaves the device as it is. *)
LEMMA SettlesSelf ==
  ASSUME NEW d, NEW D, Sound(d, D), NEW c \in Cids(d), Owned(D, c)
  PROVE  Settles(d, D, D, c)
BY QuietSelf, QuietSettles DEF Sound

(* l2cu_resubmit_pending_sec_req *)
LEMMA ResubmitKept ==
  ASSUME NEW d, NEW D, Fits(d, D), NEW answer \in AnswerSet
  PROVE  Kept(d, D, Resubmit(D, answer))
<1>1. Len(D.chans) \in Nat
  BY ChansAre DEF Fits
<1>2. PICK q : /\ Rounds("resubmit", D, answer, q)
               /\ Resubmit(D, answer) = q[Len(D.chans)]
  BY <1>1, ResubmitRounds
<1>3. ASSUME NEW E, NEW c \in Cids(d), Kept(d, D, E)
      PROVE  Settles(d, E, Round("resubmit", D, answer, E, c), c)
  <2>1. Sound(d, E) /\ Owned(E, c)
    BY <1>3 DEF Kept, Fits
  <2>2. Round("resubmit", D, answer, E, c)
        = IF WaitsForSecurity(E, c) THEN AccessReq(E, c, answer) ELSE E
    BY DEF Round
  <2>3. CASE WaitsForSecurity(E, c)
    <3>1. E.ccb[c].used
      BY <2>3 DEF WaitsForSecurity
    <3> QED BY <2>1, <2>2, <2>3, <3>1, AccessReqSettles
  <2>4. CASE ~WaitsForSecurity(E, c)
    BY <2>1, <2>2, <2>4, SettlesSelf
  <2> QED BY <2>3, <2>4
<1> QED BY <1>2, <1>3, LoopKeeps

(* L2CEVT_L2CAP_INFO_RSP for every channel of the link. *)
LEMMA InfoRspEventSettles ==
  ASSUME NEW d, NEW D, Sound(d, D), NEW c \in Cids(d), Owned(D, c), D.ccb[c].used
  PROVE  Settles(d, D, InfoRspEvent(D, c), c)
<1>1. CASE D.ccb[c].st = "W4_L2CAP_CONNECT_RSP"
  BY <1>1, StartConnectSettles DEF InfoRspEvent
<1>2. CASE D.ccb[c].st = "W4_L2CA_CONNECT_RSP"
  BY <1>2, ConnectIndSettles DEF InfoRspEvent
<1>3. CASE D.ccb[c].st \notin {"W4_L2CAP_CONNECT_RSP", "W4_L2CA_CONNECT_RSP"}
  BY <1>3, SettlesSelf DEF InfoRspEvent
<1> QED BY <1>1, <1>2, <1>3

(* A channel of D is in use while no control block has left the queue. *)
LEMMA StillUsed ==
  ASSUME NEW d, NEW D, NEW E, Sound(d, D), Sound(d, E), E.chans = D.chans,
         NEW c \in Cids(d), D.ccb[c].used
  PROVE  E.ccb[c].used
BY DEF Sound, Pool

LEMMA InfoRspAllKept ==
  ASSUME NEW d, NEW D, Fits(d, D)
  PROVE  Kept(d, D, InfoRspAll(D))
<1>1. Len(D.chans) \in Nat
  BY ChansAre DEF Fits
<1>2. PICK q : Rounds("info", D, "", q) /\ InfoRspAll(D) = q[Len(D.chans)]
  BY <1>1, InfoRspRounds
<1>3. ASSUME NEW E, NEW c \in Cids(d), D.ccb[c].used, Kept(d, D, E)
      PROVE  Settles(d, E, Round("info", D, "", E, c), c)
  <2>1. Sound(d, E) /\ Owned(E, c)
    BY <1>3 DEF Kept, Fits
  <2>2. Round("info", D, "", E, c)
        = IF E.chans = D.chans THEN InfoRspEvent(E, c) ELSE E
    BY DEF Round
  <2>3. CASE E.chans = D.chans
    <3>1. E.ccb[c].used
      BY <1>3, <2>1, <2>3, StillUsed DEF Fits
    <3> QED BY <2>1, <2>2, <2>3, <3>1, InfoRspEventSettles
  <2>4. CASE E.chans # D.chans
    BY <2>1, <2>2, <2>4, SettlesSelf
  <2> QED BY <2>3, <2>4
<1> QED BY <1>2, <1>3, LoopKeeps

LEMMA ReleaseAllKept ==
  ASSUME NEW d, NEW D, Fits(d, D)
  PROVE  Kept(d, D, ReleaseAll(D))
<1>1. Len(D.chans) \in Nat
  BY ChansAre DEF Fits
<1>2. PICK q : Rounds("fails", D, "", q) /\ ReleaseAll(D) = q[Len(D.chans)]
  BY <1>1, ReleaseAllRounds
<1>3. ASSUME NEW E, NEW c \in Cids(d), D.ccb[c].used, Kept(d, D, E)
      PROVE  Settles(d, E, Round("fails", D, "", E, c), c)
  <2>1. Moves(d, E, E, c)
    BY <1>3, MovesSelf DEF Kept, Fits
  <2>2. Round("fails", D, "", E, c) = ReleaseAndTell(E, c)
    BY DEF Round
  <2> QED BY <2>1, <2>2, ReleaseSettles
<1> QED BY <1>2, <1>3, LoopKeeps

(* l2c_link_hci_conn_comp: no channel of a link that comes up was accepted. *)
LEMMA ConfirmAllKept ==
  ASSUME NEW d, NEW D, Fits(d, D), NEW answer \in AnswerSet,
         \A c \in Cids(d) : ~Accepted(D, c)
  PROVE  Kept(d, D, ConfirmAll(D, answer))
<1>1. Len(D.chans) \in Nat
  BY ChansAre DEF Fits
<1>2. PICK q : Rounds("up", D, answer, q) /\ ConfirmAll(D, answer) = q[Len(D.chans)]
  BY <1>1, ConfirmRounds
<1>3. ASSUME NEW E, NEW c \in Cids(d), D.ccb[c].used, Kept(d, D, E)
      PROVE  Settles(d, E, Round("up", D, answer, E, c), c)
  <2>1. Sound(d, E) /\ Owned(E, c) /\ ~Accepted(E, c)
    BY <1>3 DEF Kept, Fits, NoneAccepted
  <2> DEFINE F == Enter(E, c, "ORIG_W4_SEC_COMP")
  <2>2. Round("up", D, answer, E, c)
        = IF E.chans = D.chans THEN AccessReq(F, c, answer) ELSE E
    BY DEF Round
  <2>3. CASE E.chans = D.chans
    <3>1. E.ccb[c].used
      BY <1>3, <2>1, <2>3, StillUsed DEF Fits
    <3>2. "ORIG_W4_SEC_COMP" \in States \ Unowned
      BY DEF States, Unowned
    <3>3. Settles(d, E, F, c) /\ F.ccb[c].used
      BY <2>1, <3>1, <3>2, EnterSettles
    <3> HIDE DEF F
    <3>4. Sound(d, F) /\ Owned(F, c)
      BY <3>3 DEF Settles, Moves
    <3>5. Settles(d, F, AccessReq(F, c, answer), c)
      BY <3>3, <3>4, AccessReqSettles
    <3> QED BY <2>2, <2>3, <3>3, <3>5, SettlesTwice
  <2>4. CASE E.chans # D.chans
    BY <2>1, <2>2, <2>4, SettlesSelf
  <2> QED BY <2>3, <2>4
<1> QED BY <1>2, <1>3, LoopKeeps

(* L2CEVT_LP_DISCONNECT_IND for every channel but the one that waits. *)
LEMMA LinkLostSettles ==
  ASSUME NEW d, NEW D, Sound(d, D), NEW c \in Cids(d), Owned(D, c), NEW reason
  PROVE  Settles(d, D, LinkLost(D, c, reason), c) /\ ~Accepted(LinkLost(D, c, reason), c)
<1>1. CASE /\ D.ccb[c].st = "W4_L2CAP_CONNECT_RSP"
           /\ reason = "user" /\ ~D.ccb[c].noretry
  <2> DEFINE E == Enter(D, c, "CLOSED")
             F == [E EXCEPT !.ccb[c].noretry = TRUE]
  <2>1. F = [D EXCEPT !.ccb[c].st = "CLOSED", !.ccb[c].noretry = TRUE]
    BY DEF Enter, Sound, Device
  <2>2. Settles(d, D, E, c) /\ E.ccb[c].st = "CLOSED"
    <3>1. "CLOSED" \in States \ Unowned /\ ~Accepted(D, c)
      BY <1>1 DEF States, Unowned, Accepted
    <3> QED BY <3>1, EnterSettles
  <2> HIDE DEF E
  <2>3. Sound(d, E) /\ Owned(E, c)
    BY <2>2 DEF Settles, Moves
  <2>4. Quiet(d, E, F)
    <3>1. \A b \in BOOLEAN : Quiet(d, E, [E EXCEPT !.ccb[c].noretry = b])
      BY <2>3, QuietFields DEF Sound
    <3> QED BY <3>1
  <2> HIDE DEF F
  <2>5. Settles(d, E, F, c) /\ F.ccb[c].st = "CLOSED"
    BY <2>2, <2>3, <2>4, QuietSettles, QuietMoves
  <2>6. LinkLost(D, c, reason) = F
    BY <1>1, <2>1 DEF LinkLost
  <2>7. ~Accepted(F, c)
    BY <2>5 DEF Accepted, Unowned
  <2> QED BY <2>2, <2>5, <2>6, <2>7, SettlesTwice
<1>2. CASE ~(/\ D.ccb[c].st = "W4_L2CAP_CONNECT_RSP"
             /\ reason = "user" /\ ~D.ccb[c].noretry)
  <2>1. LinkLost(D, c, reason) = ReleaseAndTell(D, c)
    BY <1>2 DEF LinkLost
  <2>2. ~Accepted(ReleaseAndTell(D, c), c)
    BY ReleaseAndTellMoves DEF Accepted
  <2> QED BY <2>1, <2>2, MovesSelf, ReleaseSettles
<1> QED BY <1>1, <1>2

LEMMA LinkLostAllKept ==
  ASSUME NEW d, NEW D, Fits(d, D), NEW reason
  PROVE  /\ Kept(d, D, LinkLostAll(D, reason))
         /\ \A c \in Cids(d) : ~Accepted(LinkLostAll(D, reason), c)
<1> DEFINE n == Len(D.chans)
<1>1. /\ n \in Nat /\ \A i \in 1..n : D.chans[i] \in Cids(d)
      /\ \A c \in Cids(d) : D.ccb[c].used => \E i \in 1..n : D.chans[i] = c
  BY ChansAre DEF Fits
<1>2. PICK q : Rounds("down", D, reason, q) /\ LinkLostAll(D, reason) = q[n]
  BY <1>1, LinkLostRounds
<1>3. ASSUME NEW E, NEW c \in Cids(d), Kept(d, D, E)
      PROVE  /\ Settles(d, E, Round("down", D, reason, E, c), c)
             /\ c # D.pending => ~Accepted(Round("down", D, reason, E, c), c)
  <2>1. Sound(d, E) /\ Owned(E, c)
    BY <1>3 DEF Kept, Fits
  <2>2. Round("down", D, reason, E, c)
        = IF c # D.pending THEN LinkLost(E, c, reason) ELSE E
    BY DEF Round
  <2> QED BY <2>1, <2>2, LinkLostSettles, SettlesSelf
<1>4. (\A i \in 0..n : Kept(d, D, q[i])) /\ Kept(d, D, q[n])
  BY <1>2, <1>3, LoopKeeps
<1>5. CASE D.pending # NoCid
  <2>1. \A c \in Cids(d) : ~Accepted(D, c)
    BY <1>5 DEF Fits, Away, Accepted
  <2> QED BY <1>2, <1>4, <2>1 DEF Kept, NoneAccepted
<1>6. CASE D.pending = NoCid
  <2>1. q[0] = D /\ \A i \in 1..n : q[i] = Round("down", D, reason, q[i - 1], D.chans[i])
    BY <1>1, <1>2, RoundsAre
  <2> HIDE DEF n
  <2> DEFINE Done(i) == \A j \in 1..i : ~Accepted(q[i], D.chans[j])
             T == {i \in 0..n : Done(i)}
  <2>2. 0 \in T
    BY <1>1
  <2>3. ASSUME NEW i \in 1..n, i - 1 \in T PROVE i \in T
    <3>1. PICK c \in Cids(d) : c = D.chans[i]
      BY <1>1
    <3>2. PICK E : E = q[i - 1]
      OBVIOUS
    <3>3. PICK F : F = q[i]
      OBVIOUS
    <3>4. Kept(d, D, E)
      <4>1. i - 1 \in 0..n
        BY <1>1
      <4> QED BY <1>4, <3>2, <4>1
    <3>5. Settles(d, E, F, c) /\ ~Accepted(F, c)
      <4>1. c # D.pending
        BY <1>6, CidsNat
      <4>2. F = Round("down", D, reason, E, c)
        BY <2>1, <3>1, <3>2, <3>3
      <4> QED BY <1>3, <3>4, <4>1, <4>2
    <3>6. \A e \in Cids(d) : Accepted(F, e) => Accepted(E, e)
      BY <3>5 DEF Settles, Moves, Accepted
    <3>7. \A j \in 1..(i - 1) : ~Accepted(F, D.chans[j])
      <4> SUFFICES ASSUME NEW j \in 1..(i - 1) PROVE ~Accepted(F, D.chans[j])
        OBVIOUS
      <4>1. D.chans[j] \in Cids(d)
        BY <1>1
      <4>2. ~Accepted(E, D.chans[j])
        BY <2>3, <3>2
      <4> QED BY <3>6, <4>1, <4>2
    <3>8. Done(i)
      <4> SUFFICES ASSUME NEW j \in 1..i PROVE ~Accepted(F, D.chans[j])
        BY <3>3
      <4>1. CASE j = i
        BY <3>1, <3>5, <4>1
      <4>2. CASE j # i
        BY <3>7, <4>2
      <4> QED BY <4>1, <4>2
    <3>9. i \in 0..n
      BY <1>1
    <3> HIDE DEF Done
    <3> QED BY <3>8, <3>9
  <2>4. n \in T
    <3> HIDE DEF T
    <3> QED BY <1>1, <2>2, <2>3, AfterRounds
  <2>5. ASSUME NEW c \in Cids(d), Accepted(q[n], c) PROVE FALSE
    <3>1. Accepted(D, c)
      BY <1>4, <2>5 DEF Kept, NoneAccepted
    <3>2. PICK j \in 1..n : D.chans[j] = c
      BY <1>1, <3>1 DEF Accepted
    <3> QED BY <2>4, <2>5, <3>2
  <2> QED BY <1>2, <1>4, <2>5
<1> QED BY <1>5, <1>6

-----------------------------------------------------------------------------
(* A step of one device. *)

LEMMA PeerDev == \A d \in Dev : Peer(d) \in Dev \ {d}
BY DeviceAssumption DEF Dev, Peer

LEMMA QuietFits ==
  ASSUME NEW d, NEW D, NEW E, Fits(d, D), Quiet(d, D, E)
  PROVE  Fits(d, E) /\ E.link = D.link /\ E.pending = D.pending
<1>1. Sound(d, E)
  BY QuietSound DEF Fits
<1>2. SameRest(D, E)
      /\ \A c \in Cids(d) : E.ccb[c].used = D.ccb[c].used /\ E.ccb[c].st = D.ccb[c].st
  BY DEF Quiet
<1>3. \A c \in Cids(d) : Owned(E, c)
  BY <1>2 DEF Fits, Owned, SameRest
<1>4. Away(d, E)
  BY <1>2 DEF Fits, Away, SameRest
<1> QED BY <1>1, <1>2, <1>3, <1>4 DEF Fits, SameRest

LEMMA CommitStep ==
  ASSUME ChannelInv, NEW d \in Dev, NEW E, Fits(d, E), NEW rest \in Seq(Msgs),
         ~phys => rest = <<>>, Commit(d, E, rest)
  PROVE  /\ DOMAIN dev' = Dev
         /\ \A e \in Dev : Fits(e, dev'[e]) /\ dev'[e].out = <<>>
         /\ dev'[d].link = E.link /\ \A e \in Dev \ {d} : dev'[e] = dev[e]
         /\ net' \in [Dev -> Seq(Msgs)]
         /\ ~phys => \A e \in Dev : net'[e] = <<>>
<1> DEFINE F == [E EXCEPT !.out = <<>>]
<1>1. Fits(d, F) /\ F.link = E.link /\ F.out = <<>>
  <2>1. Device(d, E)
    BY DEF Fits, Sound
  <2>2. F.out = <<>>
    BY <2>1 DEF Device
  <2>3. Quiet(d, E, F)
    <3>1. \A out \in Seq(Msgs) : Quiet(d, E, [E EXCEPT !.out = out])
      BY <2>1, WithFields
    <3>2. <<>> \in Seq(Msgs)
      OBVIOUS
    <3> QED BY <3>1, <3>2
  <2> HIDE DEF F
  <2> QED BY <2>2, <2>3, QuietFits
<1>2. dev' = [dev EXCEPT ![d] = F]
  BY DEF Commit
<1> HIDE DEF F
<1>3. DOMAIN dev' = Dev /\ dev'[d] = F /\ \A e \in Dev \ {d} : dev'[e] = dev[e]
  BY <1>2 DEF ChannelInv
<1>4. \A e \in Dev : Fits(e, dev'[e]) /\ dev'[e].out = <<>>
  BY <1>1, <1>3 DEF ChannelInv
<1>5. Peer(d) \in Dev /\ Peer(d) # d /\ net \in [Dev -> Seq(Msgs)]
  BY PeerDev DEF ChannelInv
<1>6. \A e \in Dev : e = d \/ e = Peer(d)
  BY DEF Dev, Peer
<1> DEFINE s == IF phys THEN net[Peer(d)] \o E.out ELSE net[Peer(d)]
<1>7. s \in Seq(Msgs)
  <2>1. E.out \in Seq(Msgs) /\ net[Peer(d)] \in Seq(Msgs)
    BY <1>5 DEF Fits, Sound, Device
  <2> QED BY <2>1, ConcatProperties
<1>8. net' = [net EXCEPT ![d] = rest, ![Peer(d)] = s]
  BY <1>5 DEF Commit
<1>9. ~phys => s = <<>>
  BY <1>5 DEF ChannelInv, LinkInv
<1> HIDE DEF s
<1>10. net' \in [Dev -> Seq(Msgs)] /\ net'[d] = rest /\ net'[Peer(d)] = s
  BY <1>5, <1>7, <1>8
<1>11. ~phys => \A e \in Dev : net'[e] = <<>>
  BY <1>6, <1>9, <1>10
<1> QED BY <1>1, <1>3, <1>4, <1>10, <1>11

(* The step leaves the link and what the host knows of it as they are. *)
LEMMA CommitKeeps ==
  ASSUME ChannelInv, NEW d \in Dev, NEW E, Fits(d, E), E.link = dev[d].link,
         NEW rest \in Seq(Msgs), ~phys => rest = <<>>, Commit(d, E, rest),
         UNCHANGED <<evt, phys>>, drops' \in 0..MaxDrop
  PROVE  ChannelInv'
<1>1. /\ DOMAIN dev' = Dev
      /\ \A e \in Dev : Fits(e, dev'[e]) /\ dev'[e].out = <<>>
      /\ \A e \in Dev : dev'[e].link = dev[e].link
      /\ net' \in [Dev -> Seq(Msgs)]
      /\ ~phys => \A e \in Dev : net'[e] = <<>>
  BY CommitStep
<1>2. LinkInv'
  BY <1>1 DEF ChannelInv, LinkInv
<1>3. \A e \in Dev : Fits(e, dev[e])' /\ dev'[e].out = <<>>
  BY <1>1 DEF Fits, Sound, Device, Pool, Away, Owned
<1> QED BY <1>1, <1>2, <1>3 DEF ChannelInv

(* The host's step for one channel. *)
LEMMA SettleStep ==
  ASSUME ChannelInv, NEW d \in Dev, NEW c \in Cids(d), NEW E,
         Settles(d, dev[d], E, c), NEW rest \in Seq(Msgs), ~phys => rest = <<>>,
         Commit(d, E, rest), UNCHANGED <<evt, phys, drops>>
  PROVE  ChannelInv'
<1>1. Fits(d, E) /\ E.link = dev[d].link
  BY SettlesFits DEF ChannelInv
<1>2. drops' \in 0..MaxDrop
  BY DEF ChannelInv
<1> QED BY <1>1, <1>2, CommitKeeps

LEMMA QuietStep ==
  ASSUME ChannelInv, NEW d \in Dev, NEW E, Quiet(d, dev[d], E),
         NEW rest \in Seq(Msgs), ~phys => rest = <<>>,
         Commit(d, E, rest), UNCHANGED <<evt, phys, drops>>
  PROVE  ChannelInv'
<1>1. Fits(d, E) /\ E.link = dev[d].link
  BY QuietFits DEF ChannelInv
<1>2. drops' \in 0..MaxDrop
  BY DEF ChannelInv
<1> QED BY <1>1, <1>2, CommitKeeps

(* Commands already on their way are still there. *)
LEMMA NetRest ==
  ASSUME ChannelInv, NEW d \in Dev
  PROVE  net[d] \in Seq(Msgs) /\ (~phys => net[d] = <<>>)
BY DEF ChannelInv, LinkInv

-----------------------------------------------------------------------------
(* What several handlers do. *)

LEMMA QuietAfter ==
  ASSUME NEW d, NEW D, NEW E, NEW F, NEW c \in Cids(d), Settles(d, D, E, c),
         Quiet(d, E, F)
  PROVE  Settles(d, D, F, c)
<1>1. Sound(d, E) /\ Owned(E, c)
  BY DEF Settles, Moves
<1>2. Settles(d, E, F, c)
  BY <1>1, QuietSettles
<1> QED BY <1>2, SettlesTwice

LEMMA SettledIs ==
  ASSUME NEW d, NEW D, NEW E, NEW c, Settles(d, D, E, c)
  PROVE  Sound(d, E) /\ Device(d, E) /\ Owned(E, c) /\ Moves(d, D, E, c)
BY DEF Settles, Moves, Sound

LEMMA StartDisconnectSettles ==
  ASSUME NEW d, NEW D, Sound(d, D), NEW c \in Cids(d), Owned(D, c),
         Accepted(D, c) => "own" \in D.app[c]
  PROVE  Settles(d, D, StartDisconnect(D, c), c)
<1> DEFINE E == SendDiscReq(D, c)
           F == Enter(E, c, "W4_L2CAP_DISCONNECT_RSP")
<1>1. StartDisconnect(D, c) = StartTimer(F, c)
  BY DEF StartDisconnect
<1>2. Quiet(d, D, E)
  BY SendsQuiet DEF Sound
<1> HIDE DEF E
<1>3. Settles(d, D, E, c) /\ Sound(d, E) /\ Owned(E, c)
  BY <1>2, QuietSettles, SettledIs
<1>4. Accepted(E, c) => "own" \in E.app[c]
  BY <1>2, QuietMoves DEF Accepted
<1>5. "W4_L2CAP_DISCONNECT_RSP" \in States \ Unowned
  BY DEF States, Unowned
<1>6. Settles(d, E, F, c)
  BY <1>3, <1>4, <1>5, EnterSettles
<1> HIDE DEF F
<1>7. Settles(d, D, F, c) /\ Device(d, F)
  BY <1>3, <1>6, SettlesTwice, SettledIs
<1>8. Quiet(d, F, StartTimer(F, c))
  BY <1>7, TimersQuiet
<1> QED BY <1>1, <1>7, <1>8, QuietAfter

LEMMA DisconnectChnlSettles ==
  ASSUME NEW d, NEW D, Sound(d, D), NEW c \in Cids(d)
  PROVE  Settles(d, D, DisconnectChnl(D, c), c)
<1> DEFINE E == SendDiscReq(D, c)
<1>1. Quiet(d, D, E)
  BY SendsQuiet DEF Sound
<1>2. DisconnectChnl(D, c) = ReleaseAndTell(E, c)
  BY DEF DisconnectChnl
<1> HIDE DEF E
<1>3. Moves(d, D, E, c)
  BY <1>1, QuietMoves
<1> QED BY <1>2, <1>3, ReleaseSettles

LEMMA AbortMoves ==
  ASSUME NEW d, NEW D, Sound(d, D), NEW c \in Cids(d), NEW aborts
  PROVE  /\ Moves(d, D, AbortAccessReq(D, c, aborts), c)
         /\ AbortAccessReq(D, c, aborts).ccb = D.ccb
         /\ AbortAccessReq(D, c, aborts).app = D.app
<1>1. CASE D.sec # NoCid /\ ~D.delay /\ aborts
  <2> DEFINE b == D.orphan \/ \E e \in DOMAIN D.ccb \ {c} : WaitsForSecurity(D, e)
  <2>1. PICK E : E = [D EXCEPT !.sec = NoCid, !.orphan = b]
    OBVIOUS
  <2>2. AbortAccessReq(D, c, aborts) = E
    BY <1>1, <2>1 DEF AbortAccessReq
  <2>3. b \in BOOLEAN
    OBVIOUS
  <2> HIDE DEF b
  <2>4. /\ OnlySec(D, E) /\ E.sec = NoCid /\ E.delay = D.delay /\ E.orphan = b
    BY <2>1 DEF Sound, Device, OnlySec
  <2>5. D.delay = FALSE
    BY <1>1 DEF Sound, Device
  <2> QED BY <2>2, <2>3, <2>4, <2>5, SecMoves
<1>2. CASE ~(D.sec # NoCid /\ ~D.delay /\ aborts)
  <2>1. AbortAccessReq(D, c, aborts) = D
    BY <1>2 DEF AbortAccessReq
  <2> QED BY <2>1, MovesSelf
<1> QED BY <1>1, <1>2

(* The owner's duties change; it keeps the channel. *)
LEMMA AppSettles ==
  ASSUME NEW d, NEW D, Sound(d, D), NEW c \in Cids(d), D.ccb[c].used,
         D.ccb[c].st # "TERM_W4_SEC_COMP", NEW a \in SUBSET Duties, "own" \in a
  PROVE  Settles(d, D, [D EXCEPT !.app[c] = a], c)
<1> DEFINE E == [D EXCEPT !.app[c] = a]
<1>1. Moves(d, D, E, c) /\ E.ccb = D.ccb /\ E.app[c] = a
  BY AppMoves
<1> HIDE DEF E
<1>2. Settles(d, D, E, c)
  BY <1>1 DEF Settles, Owned, Accepted
<1> QED BY <1>2 DEF E

LEMMA FinishConfigSettles ==
  ASSUME NEW d, NEW D, Sound(d, D), NEW c \in Cids(d), Owned(D, c),
         D.ccb[c].st = "CONFIG", NEW sameMode \in BOOLEAN
  PROVE  Settles(d, D, FinishConfig(D, c, sameMode), c)
<1>1. CASE ~(D.ccb[c].cfg = {"IB", "OB"})
  BY <1>1, SettlesSelf DEF FinishConfig
<1>2. CASE D.ccb[c].cfg = {"IB", "OB"} /\ sameMode
  <2> DEFINE E == Enter(D, c, "OPEN")
  <2>1. FinishConfig(D, c, sameMode) = StopTimer(E, c)
    BY <1>2 DEF FinishConfig
  <2>2. "OPEN" \in States \ Unowned /\ ~Accepted(D, c)
    BY DEF States, Unowned, Accepted
  <2>3. Settles(d, D, E, c)
    BY <2>2, EnterSettles
  <2> HIDE DEF E
  <2>4. Quiet(d, E, StopTimer(E, c))
    BY <2>3, SettledIs, TimersQuiet
  <2> QED BY <2>1, <2>3, <2>4, QuietAfter
<1>3. CASE D.ccb[c].cfg = {"IB", "OB"} /\ ~sameMode
  BY <1>3, DisconnectChnlSettles DEF FinishConfig
<1> QED BY <1>1, <1>2, <1>3

LEMMA SettlesAfterQuiet ==
  ASSUME NEW d, NEW D, Sound(d, D), NEW E, NEW F, NEW c \in Cids(d), Owned(D, c),
         Quiet(d, D, E), Settles(d, E, F, c)
  PROVE  Settles(d, D, F, c)
BY QuietSettles, SettlesTwice

LEMMA QuietRelease ==
  ASSUME NEW d, NEW D, Sound(d, D), NEW E, NEW c \in Cids(d), Quiet(d, D, E)
  PROVE  Settles(d, D, ReleaseAndTell(E, c), c)
BY QuietMoves, ReleaseSettles

(* The channel changes its state and its timer starts. *)
LEMMA EnterTimed ==
  ASSUME NEW d, NEW D, Sound(d, D), NEW c \in Cids(d), Owned(D, c),
         NEW st \in States \ Unowned, "own" \in D.app[c]
  PROVE  /\ Settles(d, D, StartTimer(Enter(D, c, st), c), c)
         /\ StartTimer(Enter(D, c, st), c).ccb[c].used = D.ccb[c].used
         /\ StartTimer(Enter(D, c, st), c).ccb[c].st = st
<1>1. st \in States /\ st \notin Unowned
  OBVIOUS
<1>2. PICK E : E = Enter(D, c, st)
  OBVIOUS
<1>3. /\ Settles(d, D, Enter(D, c, st), c) /\ Enter(D, c, st).ccb[c].st = st
      /\ Enter(D, c, st).ccb[c].used = D.ccb[c].used
  BY <1>1, EnterSettles
<1>4. Settles(d, D, E, c) /\ E.ccb[c].st = st /\ E.ccb[c].used = D.ccb[c].used
  BY <1>2, <1>3
<1>5. Sound(d, E) /\ Quiet(d, E, StartTimer(E, c))
  BY <1>4, SettledIs, TimersQuiet
<1>6. Settles(d, D, StartTimer(E, c), c)
  BY <1>4, <1>5, QuietAfter
<1>7. /\ StartTimer(E, c).ccb[c].used = E.ccb[c].used
      /\ StartTimer(E, c).ccb[c].st = E.ccb[c].st
  BY <1>5, QuietMoves
<1> QED BY <1>2, <1>6, <1>7, <1>4

-----------------------------------------------------------------------------
(* The commands of the peer. *)

LEMMA HostIs ==
  ASSUME ChannelInv, NEW d \in Dev
  PROVE  /\ Fits(d, dev[d]) /\ Sound(d, dev[d]) /\ Device(d, dev[d])
         /\ \A c \in Cids(d) : Owned(dev[d], c)
         /\ \A c : Finds(dev[d], c) <=> c \in Cids(d) /\ dev[d].ccb[c].used
<1>1. Fits(d, dev[d])
  BY DEF ChannelInv
<1> QED BY <1>1 DEF Fits, Sound, Device, Finds

LEMMA MsgFields ==
  ASSUME NEW m \in Msgs
  PROVE  /\ m.id \in Nat
         /\ m.cmd \in {"CONN_REQ", "CONN_RSP", "CONFIG_RSP", "DISC_REQ", "DISC_RSP",
                       "REJECT"} => m.scid \in Nat
         /\ m.cmd \in {"CONN_RSP", "CONFIG_REQ", "DISC_REQ", "DISC_RSP", "REJECT"}
              => m.dcid \in Nat
         /\ m.cmd \in {"CONN_RSP", "CONFIG_RSP"} => m.result \in Results
         /\ m.cmd \in {"INFO_REQ", "INFO_RSP"} => m.type \in {"FEATURES", "FIXED"}
<1>1. m.id \in Nat
  BY DEF Msgs
<1>2. m.cmd \in {"CONN_REQ", "CONN_RSP", "CONFIG_RSP", "DISC_REQ", "DISC_RSP", "REJECT"}
        => m.scid \in Nat
  BY DEF Msgs
<1>3. m.cmd \in {"CONN_RSP", "CONFIG_REQ", "DISC_REQ", "DISC_RSP", "REJECT"}
        => m.dcid \in Nat
  BY DEF Msgs
<1>4. m.cmd \in {"CONN_RSP", "CONFIG_RSP"} => m.result \in Results
  BY DEF Msgs
<1>5. m.cmd \in {"INFO_REQ", "INFO_RSP"} => m.type \in {"FEATURES", "FIXED"}
  BY DEF Msgs
<1> QED BY <1>1, <1>2, <1>3, <1>4, <1>5

LEMMA Received ==
  ASSUME ChannelInv, NEW d \in Dev, NEW cmd, Receives(d, cmd)
  PROVE  /\ phys /\ dev[d].link = "connected"
         /\ Head(net[d]) \in Msgs /\ Head(net[d]).cmd = cmd
         /\ Tail(net[d]) \in Seq(Msgs)
<1>1. net[d] \in Seq(Msgs) /\ net[d] # <<>> /\ Head(net[d]).cmd = cmd
  BY DEF ChannelInv, Receives
<1>2. phys /\ dev[d].link = "connected"
  BY <1>1 DEF ChannelInv, LinkInv, Receives
<1> QED BY <1>1, <1>2, HeadTailProperties

LEMMA RecvConnRspKeeps ==
  ASSUME ChannelInv, NEW d \in Dev, RecvConnRsp(d) PROVE ChannelInv'
<1> DEFINE D == dev[d]
           m == Head(net[d])
           c == m.scid
           E == [D EXCEPT !.ccb[c].rcid = m.dcid]
           heeded == Finds(D, c) /\ D.ccb[c].lid = m.id
                     /\ D.ccb[c].st = "W4_L2CAP_CONNECT_RSP"
<1>1. /\ phys /\ m \in Msgs /\ m.cmd = "CONN_RSP" /\ Tail(net[d]) \in Seq(Msgs)
      /\ UNCHANGED <<evt, phys, drops>>
  BY Received DEF RecvConnRsp
<1>2. m.dcid \in Nat /\ m.result \in Results
  BY <1>1, MsgFields
<1>3. Sound(d, D) /\ Device(d, D)
  BY HostIs
<1>4. CASE ~heeded
  <2>1. Commit(d, D, Tail(net[d]))
    BY <1>4 DEF RecvConnRsp
  <2> QED BY <1>1, <1>3, <2>1, QuietSelf, QuietStep
<1>5. CASE heeded
  <2>1. c \in Cids(d) /\ D.ccb[c].used /\ Owned(D, c)
    BY <1>5, HostIs
  <2>2. "own" \in D.app[c]
    BY <1>5, <2>1 DEF Owned, Unowned
  <2>3. Quiet(d, D, E)
    <3>1. \A i \in Nat : Quiet(d, D, [D EXCEPT !.ccb[c].rcid = i])
      BY <1>3, <2>1, QuietFields
    <3> QED BY <1>2, <3>1
  <2>4. CASE m.result = "OK"
    <3>1. Commit(d, StartTimer(Enter(E, c, "CONFIG"), c), Tail(net[d]))
      BY <1>5, <2>4 DEF RecvConnRsp
    <3> HIDE DEF E, D, c
    <3>2. /\ Settles(d, D, E, c) /\ Sound(d, E) /\ Owned(E, c) /\ E.ccb[c].used
          /\ "own" \in E.app[c]
      BY <1>3, <2>1, <2>2, <2>3, QuietSettles, QuietMoves, SettledIs
    <3>3. "CONFIG" \in States \ Unowned
      BY DEF States, Unowned
    <3>4. Settles(d, E, StartTimer(Enter(E, c, "CONFIG"), c), c)
      BY <2>1, <3>2, <3>3, EnterTimed
    <3>5. Settles(d, D, StartTimer(Enter(E, c, "CONFIG"), c), c)
      BY <3>2, <3>4, SettlesTwice
    <3> QED BY <1>1, <2>1, <3>1, <3>5, SettleStep DEF D
  <2>5. CASE m.result = "PENDING"
    <3>1. Commit(d, StartTimer(E, c), Tail(net[d]))
      BY <1>5, <2>5 DEF RecvConnRsp
    <3> HIDE DEF E, D, c
    <3>2. Quiet(d, E, StartTimer(E, c))
      BY <2>1, <2>3, TimersQuiet DEF Quiet
    <3>3. Quiet(d, D, StartTimer(E, c))
      BY <2>3, <3>2, QuietTwice
    <3> QED BY <1>1, <3>1, <3>3, QuietStep DEF D
  <2>6. CASE m.result = "NEG"
    <3>1. Commit(d, ReleaseAndTell(D, c), Tail(net[d]))
      BY <1>5, <2>6 DEF RecvConnRsp
    <3> HIDE DEF E, D, c
    <3>2. Settles(d, D, ReleaseAndTell(D, c), c)
      BY <1>3, <2>1, MovesSelf, ReleaseSettles
    <3> QED BY <1>1, <2>1, <3>1, <3>2, SettleStep DEF D
  <2> QED BY <1>2, <2>4, <2>5, <2>6 DEF Results
<1> QED BY <1>4, <1>5

(* An open channel goes back to its configuration. *)
Reopen(D, c) == [D EXCEPT !.ccb[c].st = "CONFIG", !.ccb[c].cfg = {}]

LEMMA ReopenSettles ==
  ASSUME NEW d, NEW D, Sound(d, D), NEW c \in Cids(d), Owned(D, c),
         D.ccb[c].st = "OPEN"
  PROVE  /\ Settles(d, D, Reopen(D, c), c)
         /\ Reopen(D, c).ccb[c].used = D.ccb[c].used
         /\ Reopen(D, c).ccb[c].st = "CONFIG" /\ Reopen(D, c).app[c] = D.app[c]
<1>1. PICK F : F = Reopen(D, c)
  OBVIOUS
<1>2. F = [Enter(D, c, "CONFIG") EXCEPT !.ccb[c].cfg = {}]
  BY <1>1 DEF Enter, Sound, Device, Reopen
<1>3. PICK G : G = Enter(D, c, "CONFIG")
  OBVIOUS
<1>4. "CONFIG" \in States /\ "CONFIG" \notin Unowned /\ "OPEN" \notin Unowned
  BY DEF States, Unowned
<1>5. Settles(d, D, G, c) /\ G.ccb[c].st = "CONFIG"
  <2>1. ~Accepted(D, c)
    BY <1>4 DEF Accepted
  <2> QED BY <1>3, <1>4, <2>1, EnterSettles
<1>6. G.app = D.app /\ G.ccb[c].used = D.ccb[c].used
  <2>1. Enter(D, c, "CONFIG").app = D.app
    BY <1>4, EnterMoves
  <2>2. Enter(D, c, "CONFIG").ccb[c].used = D.ccb[c].used
    BY <1>4, EnterMoves
  <2> QED BY <1>3, <2>1, <2>2
<1>7. Quiet(d, G, F)
  <2>1. \A f \in SUBSET {"IB", "OB"} : Quiet(d, G, [G EXCEPT !.ccb[c].cfg = f])
    BY <1>5, SettledIs, QuietFields
  <2>2. F = [G EXCEPT !.ccb[c].cfg = {}]
    BY <1>2, <1>3
  <2> QED BY <2>1, <2>2
<1>8. Settles(d, D, F, c) /\ Sound(d, G)
  BY <1>5, <1>7, QuietAfter, SettledIs
<1>9. /\ F.ccb[c].used = G.ccb[c].used /\ F.ccb[c].st = G.ccb[c].st
      /\ F.app[c] = G.app[c]
  <2>1. F.ccb[c].used = G.ccb[c].used
    BY <1>7, <1>8, QuietMoves
  <2>2. F.ccb[c].st = G.ccb[c].st /\ F.app[c] = G.app[c]
    BY <1>7, <1>8, QuietMoves
  <2> QED BY <2>1, <2>2
<1>10. F.ccb[c].used = D.ccb[c].used
  BY <1>6, <1>9
<1>11. F.ccb[c].st = "CONFIG" /\ F.app[c] = D.app[c]
  BY <1>5, <1>6, <1>9
<1> QED BY <1>1, <1>8, <1>10, <1>11

LEMMA RecvConfigReqKeeps ==
  ASSUME ChannelInv, NEW d \in Dev, NEW verdict \in {"OK", "UNACCEPTABLE", "DISCONNECT"},
         RecvConfigReq(d, verdict)
  PROVE  ChannelInv'
<1> DEFINE D0 == dev[d]
           m == Head(net[d])
           c == m.dcid
           D == [D0 EXCEPT !.ccb[c].rid = m.id]
           st == D0.ccb[c].st
<1>1. /\ phys /\ m \in Msgs /\ m.cmd = "CONFIG_REQ" /\ Tail(net[d]) \in Seq(Msgs)
      /\ UNCHANGED <<evt, phys, drops>>
  BY Received DEF RecvConfigReq
<1>2. m.dcid \in Nat /\ m.id \in Nat
  BY <1>1, MsgFields
<1>3. Sound(d, D0) /\ Device(d, D0)
  BY HostIs
<1>4. CASE ~Finds(D0, c)
  <2> DEFINE r == [cmd |-> "REJECT", id |-> m.id, dcid |-> NoCid, scid |-> NoCid]
  <2>1. Commit(d, Send(D0, r), Tail(net[d]))
    BY <1>4 DEF RecvConfigReq
  <2>2. r \in Msgs
    BY <1>2, CidsNat DEF Msgs
  <2> HIDE DEF r
  <2>3. Quiet(d, D0, Send(D0, r))
    BY <1>3, <2>2, WithFields
  <2> QED BY <1>1, <2>1, <2>3, QuietStep
<1>5. CASE Finds(D0, c)
  <2>1. c \in Cids(d) /\ D0.ccb[c].used /\ Owned(D0, c)
    BY <1>5, HostIs
  <2>2. Quiet(d, D0, D)
    <3>1. \A i \in Nat : Quiet(d, D0, [D0 EXCEPT !.ccb[c].rid = i])
      BY <1>3, <2>1, QuietFields
    <3> QED BY <1>2, <3>1
  <2>3. CASE st \notin {"CONFIG", "OPEN"}
    <3>1. Commit(d, D, Tail(net[d]))
      BY <1>5, <2>3 DEF RecvConfigReq
    <3> QED BY <1>1, <2>2, <3>1, QuietStep
  <2>4. CASE st \in {"CONFIG", "OPEN"} /\ verdict = "OK"
    <3> DEFINE F == [D EXCEPT !.ccb[c].st = "CONFIG", !.ccb[c].cfg = {}]
               E == IF st = "OPEN" THEN StartTimer(F, c) ELSE D
    <3>1. Commit(d, Owes(E, c, {"cfgrsp"}), Tail(net[d]))
      BY <1>5, <2>4 DEF RecvConfigReq
    <3>2. "own" \in D0.app[c]
      BY <2>1, <2>4 DEF Owned, Unowned
    <3>3. /\ Settles(d, D0, D, c) /\ Sound(d, D) /\ Owned(D, c)
          /\ D.ccb[c].used /\ D.ccb[c].st = st
          /\ D.app[c] = D0.app[c]
      <4> HIDE DEF D
      <4> QED BY <1>3, <2>1, <2>2, QuietSettles, QuietMoves, SettledIs
    <3>4. /\ Settles(d, D, E, c) /\ E.ccb[c].used /\ "own" \in E.app[c]
          /\ E.ccb[c].st = "CONFIG"
      <4>1. CASE st # "OPEN"
        <5>1. E = D /\ D.ccb[c].st = "CONFIG"
          BY <2>4, <3>3, <4>1
        <5> HIDE DEF D, E
        <5> QED BY <2>1, <3>2, <3>3, <5>1, SettlesSelf
      <4>2. CASE st = "OPEN"
        <5>1. PICK G : G = Reopen(D, c)
          OBVIOUS
        <5>2. E = StartTimer(G, c)
          BY <4>2, <5>1 DEF Reopen
        <5> HIDE DEF D, E, F
        <5>3. Settles(d, D, G, c) /\ G.ccb[c].used = D.ccb[c].used
          <6>1. Sound(d, D) /\ Owned(D, c) /\ D.ccb[c].st = "OPEN"
            BY <3>3, <4>2
          <6> QED BY <2>1, <5>1, <6>1, ReopenSettles
        <5>4. /\ Settles(d, D, G, c) /\ G.ccb[c].used /\ G.ccb[c].st = "CONFIG"
              /\ "own" \in G.app[c]
          <6>1. G.ccb[c].st = "CONFIG" /\ G.app[c] = D.app[c]
            BY <2>1, <3>3, <4>2, <5>1, ReopenSettles
          <6> QED BY <3>2, <3>3, <5>3, <6>1
        <5>5. Sound(d, G) /\ Quiet(d, G, E)
          BY <2>1, <5>2, <5>4, SettledIs, TimersQuiet
        <5>6. Settles(d, D, E, c)
          BY <2>1, <5>4, <5>5, QuietAfter
        <5>7. E.ccb[c].used /\ E.ccb[c].st = "CONFIG" /\ "own" \in E.app[c]
          BY <2>1, <5>4, <5>5, QuietMoves
        <5> QED BY <5>6, <5>7
      <4> QED BY <4>1, <4>2
    <3> HIDE DEF E, F, D
    <3>5. Settles(d, E, Owes(E, c, {"cfgrsp"}), c)
      <4>1. E.ccb[c].used /\ "own" \in E.app[c] /\ Sound(d, E)
        BY <2>1, <3>4, SettledIs
      <4>2. {"cfgrsp"} \in SUBSET Duties
        BY DEF Duties
      <4> QED BY <2>1, <3>4, <4>1, <4>2, OwesSettles
    <3>6. Settles(d, D0, Owes(E, c, {"cfgrsp"}), c)
      BY <3>3, <3>4, <3>5, SettlesTwice
    <3> QED BY <1>1, <2>1, <3>1, <3>6, SettleStep
  <2>5. CASE st \in {"CONFIG", "OPEN"} /\ verdict = "UNACCEPTABLE"
    <3>1. Commit(d, SendConfigRsp(D, c, "NEG"), Tail(net[d]))
      BY <1>5, <2>5 DEF RecvConfigReq
    <3> HIDE DEF D
    <3>2. Quiet(d, D, SendConfigRsp(D, c, "NEG"))
      BY <2>1, <2>2, SendsQuiet DEF Quiet, Results
    <3> QED BY <1>1, <2>2, <3>1, <3>2, QuietTwice, QuietStep
  <2>6. CASE st \in {"CONFIG", "OPEN"} /\ verdict = "DISCONNECT"
    <3>1. Commit(d, DisconnectChnl(D, c), Tail(net[d]))
      BY <1>5, <2>6 DEF RecvConfigReq
    <3> HIDE DEF D
    <3>2. Settles(d, D, DisconnectChnl(D, c), c)
      BY <1>3, <2>1, <2>2, QuietSound, DisconnectChnlSettles
    <3>3. Settles(d, D0, DisconnectChnl(D, c), c)
      BY <1>3, <2>1, <2>2, <3>2, SettlesAfterQuiet
    <3> QED BY <1>1, <2>1, <3>1, <3>3, SettleStep
  <2> QED BY <2>3, <2>4, <2>5, <2>6
<1> QED BY <1>4, <1>5

LEMMA RecvConfigRspKeeps ==
  ASSUME ChannelInv, NEW d \in Dev, NEW sameMode \in BOOLEAN, RecvConfigRsp(d, sameMode)
  PROVE  ChannelInv'
<1> DEFINE D == dev[d]
           m == Head(net[d])
           c == m.scid
           heeded == Finds(D, c) /\ D.ccb[c].lid = m.id /\ D.ccb[c].st = "CONFIG"
<1>1. /\ phys /\ m \in Msgs /\ m.cmd = "CONFIG_RSP" /\ Tail(net[d]) \in Seq(Msgs)
      /\ UNCHANGED <<evt, phys, drops>>
  BY Received DEF RecvConfigRsp
<1>2. m.result \in Results
  BY <1>1, MsgFields
<1>3. Sound(d, D) /\ Device(d, D)
  BY HostIs
<1>4. CASE ~heeded \/ m.result = "PENDING"
  <2>1. Commit(d, D, Tail(net[d]))
    BY <1>4 DEF RecvConfigRsp
  <2> QED BY <1>1, <1>3, <2>1, QuietSelf, QuietStep
<1>5. CASE heeded /\ m.result = "OK"
  <2> DEFINE f == D.ccb[c].cfg \cup {"OB"}
             E == [D EXCEPT !.ccb[c].cfg = f]
  <2>1. Commit(d, FinishConfig(E, c, sameMode), Tail(net[d]))
    BY <1>5 DEF RecvConfigRsp
  <2>2. c \in Cids(d) /\ D.ccb[c].used /\ Owned(D, c)
    BY <1>5, HostIs
  <2>3. Quiet(d, D, E)
    <3>1. f \in SUBSET {"IB", "OB"}
      BY <1>3, <2>2 DEF Device, Ccb
    <3>2. \A g \in SUBSET {"IB", "OB"} : Quiet(d, D, [D EXCEPT !.ccb[c].cfg = g])
      BY <1>3, <2>2, QuietFields
    <3> QED BY <3>1, <3>2
  <2> HIDE DEF E
  <2>4. Settles(d, D, E, c) /\ Sound(d, E) /\ Owned(E, c) /\ E.ccb[c].st = "CONFIG"
    BY <1>3, <1>5, <2>2, <2>3, QuietSettles, QuietMoves, SettledIs
  <2>5. Settles(d, E, FinishConfig(E, c, sameMode), c)
    BY <2>2, <2>4, FinishConfigSettles
  <2>6. Settles(d, D, FinishConfig(E, c, sameMode), c)
    BY <2>4, <2>5, SettlesTwice
  <2> QED BY <1>1, <2>1, <2>2, <2>6, SettleStep
<1>6. CASE heeded /\ m.result = "NEG"
  <2> DEFINE E == StopTimer(D, c)
  <2>1. Commit(d, Owes(E, c, {"recfg"}), Tail(net[d]))
    BY <1>6 DEF RecvConfigRsp
  <2>2. c \in Cids(d) /\ D.ccb[c].used /\ Owned(D, c)
    BY <1>6, HostIs
  <2>3. Quiet(d, D, E)
    BY <1>3, <2>2, TimersQuiet
  <2>4. "own" \in D.app[c]
    BY <1>6, <2>2 DEF Owned, Unowned
  <2> HIDE DEF E
  <2>5. /\ Settles(d, D, E, c) /\ Sound(d, E) /\ E.ccb[c].used
        /\ E.ccb[c].st = "CONFIG" /\ E.app[c] = D.app[c]
    BY <1>3, <1>6, <2>2, <2>3, QuietSettles, QuietMoves, SettledIs
  <2>6. Settles(d, E, Owes(E, c, {"recfg"}), c)
    <3>1. {"recfg"} \in SUBSET Duties /\ E.ccb[c].used /\ "own" \in E.app[c]
      BY <2>2, <2>4, <2>5 DEF Duties
    <3> QED BY <2>2, <2>5, <3>1, OwesSettles
  <2>7. Settles(d, D, Owes(E, c, {"recfg"}), c)
    BY <2>5, <2>6, SettlesTwice
  <2> QED BY <1>1, <2>1, <2>2, <2>7, SettleStep
<1> QED BY <1>2, <1>4, <1>5, <1>6 DEF Results

LEMMA RecvDiscReqKeeps ==
  ASSUME ChannelInv, NEW d \in Dev, NEW aborts \in BOOLEAN, RecvDiscReq(d, aborts)
  PROVE  ChannelInv'
<1> DEFINE D0 == dev[d]
           m == Head(net[d])
           c == m.dcid
           D == [D0 EXCEPT !.ccb[c].rid = m.id]
           E == SendDiscRsp(D, m.id, c, m.scid)
           st == D0.ccb[c].st
           rest == Tail(net[d])
<1>1. /\ phys /\ m \in Msgs /\ m.cmd = "DISC_REQ" /\ rest \in Seq(Msgs)
      /\ UNCHANGED <<evt, phys, drops>>
  BY Received DEF RecvDiscReq
<1>2. m.dcid \in Nat /\ m.scid \in Nat /\ m.id \in Nat
  BY <1>1, MsgFields
<1>3. Sound(d, D0) /\ Device(d, D0)
  BY HostIs
<1>4. CASE ~Finds(D0, c)
  <2>1. Commit(d, SendDiscRsp(D0, m.id, c, m.scid), rest)
    BY <1>4 DEF RecvDiscReq
  <2>2. Quiet(d, D0, SendDiscRsp(D0, m.id, c, m.scid))
    BY <1>2, <1>3, RepliesQuiet
  <2> QED BY <1>1, <2>1, <2>2, QuietStep
<1>5. CASE Finds(D0, c) /\ D0.ccb[c].rcid # m.scid
  <2>1. Commit(d, D0, rest)
    BY <1>5 DEF RecvDiscReq
  <2> QED BY <1>1, <1>3, <2>1, QuietSelf, QuietStep
<1>6. CASE Finds(D0, c) /\ D0.ccb[c].rcid = m.scid
  <2>1. c \in Cids(d) /\ D0.ccb[c].used /\ Owned(D0, c)
    BY <1>6, HostIs
  <2>2. Quiet(d, D0, D)
    <3>1. \A i \in Nat : Quiet(d, D0, [D0 EXCEPT !.ccb[c].rid = i])
      BY <1>3, <2>1, QuietFields
    <3> QED BY <1>2, <3>1
  <2>3. Device(d, D) /\ Sound(d, D)
    <3> HIDE DEF D
    <3> QED BY <1>3, <2>2, QuietSound DEF Sound
  <2>4. Quiet(d, D0, E)
    <3>1. Quiet(d, D, E)
      <4> HIDE DEF D
      <4> QED BY <1>2, <2>3, RepliesQuiet
    <3> HIDE DEF E, D
    <3> QED BY <2>2, <3>1, QuietTwice
  <2>5. CASE st = "TERM_W4_SEC_COMP"
    <3>1. PICK F : F = AbortAccessReq(E, c, aborts)
      OBVIOUS
    <3>2. Commit(d, ReleaseCcb(F, c), rest)
      BY <1>6, <2>5, <3>1 DEF RecvDiscReq
    <3>3. D0.app[c] = {}
      BY <2>1, <2>5 DEF Owned
    <3> HIDE DEF D, E, D0, c
    <3>4. Sound(d, E) /\ Moves(d, D0, E, c) /\ E.app[c] = {}
      BY <1>3, <2>1, <2>4, <3>3, QuietSound, QuietMoves
    <3>5. Moves(d, E, F, c) /\ F.app = E.app
      BY <2>1, <3>1, <3>4, AbortMoves
    <3>6. PICK G : G = ReleaseCcb(F, c)
      OBVIOUS
    <3>7. Moves(d, F, G, c) /\ G.ccb[c].used = FALSE /\ G.app = F.app
      <4>1. Sound(d, F)
        BY <3>5 DEF Moves
      <4> QED BY <2>1, <3>6, <4>1, ReleaseMoves
    <3>8. Moves(d, D0, G, c)
      BY <3>4, <3>5, <3>7, MovesTwice
    <3>9. Settles(d, D0, G, c)
      <4>1. G.app[c] = {}
        BY <3>4, <3>5, <3>7
      <4> QED BY <3>7, <3>8, <4>1 DEF Settles, Owned, Accepted
    <3> QED BY <1>1, <2>1, <3>2, <3>6, <3>9, SettleStep DEF D0
  <2>6. CASE st \in {"CONFIG", "OPEN"}
    <3>1. PICK F : F = StartTimer(Enter(D, c, "W4_L2CA_DISCONNECT_RSP"), c)
      OBVIOUS
    <3>2. Commit(d, Owes(F, c, {"discrsp"}), rest)
      BY <1>6, <2>6, <3>1 DEF RecvDiscReq
    <3>3. "own" \in D0.app[c]
      BY <2>1, <2>6 DEF Owned, Unowned
    <3> HIDE DEF D, D0, c
    <3>4. /\ Settles(d, D0, D, c) /\ Owned(D, c) /\ D.ccb[c].used
          /\ "own" \in D.app[c]
      BY <1>3, <2>1, <2>2, <3>3, QuietSettles, QuietMoves, SettledIs
    <3>5. /\ Settles(d, D, F, c) /\ F.ccb[c].used
          /\ F.ccb[c].st = "W4_L2CA_DISCONNECT_RSP"
      <4>1. "W4_L2CA_DISCONNECT_RSP" \in States \ Unowned
        BY DEF States, Unowned
      <4> QED BY <2>1, <2>3, <3>1, <3>4, <4>1, EnterTimed
    <3>6. Settles(d, F, Owes(F, c, {"discrsp"}), c)
      <4>1. Sound(d, F) /\ Owned(F, c)
        BY <3>5, SettledIs
      <4>2. {"discrsp"} \in SUBSET Duties /\ "own" \in F.app[c]
        BY <3>5, <4>1 DEF Duties, Owned, Unowned
      <4> QED BY <2>1, <3>5, <4>1, <4>2, OwesSettles
    <3>7. Settles(d, D0, Owes(F, c, {"discrsp"}), c)
      BY <3>4, <3>5, <3>6, SettlesTwice
    <3> QED BY <1>1, <2>1, <3>2, <3>7, SettleStep DEF D0
  <2>7. CASE st = "W4_L2CAP_DISCONNECT_RSP"
    <3>1. Commit(d, ReleaseAndTell(E, c), rest)
      BY <1>6, <2>7 DEF RecvDiscReq
    <3> HIDE DEF E
    <3>2. Settles(d, D0, ReleaseAndTell(E, c), c)
      BY <1>3, <2>1, <2>4, QuietRelease
    <3> QED BY <1>1, <2>1, <3>1, <3>2, SettleStep
  <2>8. CASE st \notin {"TERM_W4_SEC_COMP", "CONFIG", "OPEN", "W4_L2CAP_DISCONNECT_RSP"}
    <3>1. Commit(d, D, rest)
      BY <1>6, <2>8 DEF RecvDiscReq
    <3> QED BY <1>1, <2>2, <3>1, QuietStep
  <2> QED BY <2>5, <2>6, <2>7, <2>8
<1> QED BY <1>4, <1>5, <1>6

LEMMA RecvDiscRspKeeps ==
  ASSUME ChannelInv, NEW d \in Dev, RecvDiscRsp(d) PROVE ChannelInv'
<1> DEFINE D == dev[d]
           m == Head(net[d])
           c == m.scid
           heeded == /\ Finds(D, c)
                     /\ D.ccb[c].rcid = m.dcid /\ D.ccb[c].lid = m.id
                     /\ D.ccb[c].st = "W4_L2CAP_DISCONNECT_RSP"
<1>1. /\ phys /\ Tail(net[d]) \in Seq(Msgs) /\ UNCHANGED <<evt, phys, drops>>
      /\ Sound(d, D) /\ Device(d, D)
  BY Received, HostIs DEF RecvDiscRsp
<1>2. CASE heeded
  <2>1. Commit(d, ReleaseAndTell(D, c), Tail(net[d])) /\ c \in Cids(d)
    BY <1>2, HostIs DEF RecvDiscRsp
  <2>2. Settles(d, D, ReleaseAndTell(D, c), c)
    BY <1>1, <2>1, MovesSelf, ReleaseSettles
  <2> QED BY <1>1, <2>1, <2>2, SettleStep
<1>3. CASE ~heeded
  <2>1. Commit(d, D, Tail(net[d]))
    BY <1>3 DEF RecvDiscRsp
  <2> QED BY <1>1, <2>1, QuietSelf, QuietStep
<1> QED BY <1>2, <1>3

LEMMA RecvRejectKeeps ==
  ASSUME ChannelInv, NEW d \in Dev, RecvReject(d) PROVE ChannelInv'
<1> DEFINE D == dev[d]
           m == Head(net[d])
           c == m.scid
           heeded == Finds(D, c) /\ D.ccb[c].rcid = m.dcid
<1>1. /\ phys /\ Tail(net[d]) \in Seq(Msgs) /\ UNCHANGED <<evt, phys, drops>>
      /\ Sound(d, D) /\ Device(d, D)
  BY Received, HostIs DEF RecvReject
<1>2. CASE heeded
  <2>1. Commit(d, ReleaseAndTell(D, c), Tail(net[d])) /\ c \in Cids(d)
    BY <1>2, HostIs DEF RecvReject
  <2>2. Settles(d, D, ReleaseAndTell(D, c), c)
    BY <1>1, <2>1, MovesSelf, ReleaseSettles
  <2> QED BY <1>1, <2>1, <2>2, SettleStep
<1>3. CASE ~heeded
  <2>1. Commit(d, D, Tail(net[d]))
    BY <1>3 DEF RecvReject
  <2> QED BY <1>1, <2>1, QuietSelf, QuietStep
<1> QED BY <1>2, <1>3

LEMMA RecvInfoReqKeeps ==
  ASSUME ChannelInv, NEW d \in Dev, RecvInfoReq(d) PROVE ChannelInv'
<1> DEFINE m == Head(net[d])
           r == [cmd |-> "INFO_RSP", id |-> m.id, type |-> m.type]
<1>1. /\ phys /\ m \in Msgs /\ m.cmd = "INFO_REQ" /\ Tail(net[d]) \in Seq(Msgs)
      /\ UNCHANGED <<evt, phys, drops>> /\ Device(d, dev[d])
  BY Received, HostIs DEF RecvInfoReq
<1>2. Commit(d, Send(dev[d], r), Tail(net[d]))
  BY DEF RecvInfoReq
<1>3. r \in Msgs
  <2>1. m.id \in Nat /\ m.type \in {"FEATURES", "FIXED"}
    BY <1>1, MsgFields
  <2> QED BY <2>1 DEF Msgs
<1> HIDE DEF r
<1>4. Quiet(d, dev[d], Send(dev[d], r))
  BY <1>1, <1>3, WithFields
<1> QED BY <1>1, <1>2, <1>4, QuietStep

LEMMA RecvInfoRspKeeps ==
  ASSUME ChannelInv, NEW d \in Dev, RecvInfoRsp(d) PROVE ChannelInv'
<1>1. PICK D : D = [dev[d] EXCEPT !.w4info = FALSE]
  OBVIOUS
<1>2. /\ phys /\ Tail(net[d]) \in Seq(Msgs) /\ UNCHANGED <<evt, phys, drops>>
      /\ Fits(d, dev[d]) /\ Device(d, dev[d])
  BY Received, HostIs DEF RecvInfoRsp
<1>3. Quiet(d, dev[d], D)
  <2>1. \A b \in BOOLEAN : Quiet(d, dev[d], [dev[d] EXCEPT !.w4info = b])
    BY <1>2, WithFields
  <2> QED BY <1>1, <2>1
<1>4. CASE Head(net[d]).type = "FEATURES"
  <2>1. Commit(d, SendInfoReq(D, "FIXED"), Tail(net[d]))
    BY <1>1, <1>4 DEF RecvInfoRsp
  <2>2. Quiet(d, D, SendInfoReq(D, "FIXED"))
    <3>1. Device(d, D)
      BY <1>3 DEF Quiet
    <3> QED BY <3>1, RepliesQuiet
  <2> QED BY <1>2, <1>3, <2>1, <2>2, QuietTwice, QuietStep
<1>5. CASE Head(net[d]).type # "FEATURES"
  <2>1. Commit(d, InfoRspAll(D), Tail(net[d]))
    BY <1>1, <1>5 DEF RecvInfoRsp
  <2>2. Fits(d, D) /\ D.link = dev[d].link
    BY <1>2, <1>3, QuietFits
  <2>3. Fits(d, InfoRspAll(D)) /\ InfoRspAll(D).link = dev[d].link
    BY <2>2, InfoRspAllKept DEF Kept
  <2>4. drops' \in 0..MaxDrop
    BY <1>2 DEF ChannelInv
  <2> QED BY <1>2, <2>1, <2>3, <2>4, CommitKeeps
<1> QED BY <1>4, <1>5

(* A control block comes into use: its first state needs no earlier one. *)
LEMMA MovesFits ==
  ASSUME NEW d, NEW D, NEW E, NEW c \in Cids(d), Fits(d, D), Moves(d, D, E, c),
         Owned(E, c), Accepted(E, c) => D.link = "connected"
  PROVE  Fits(d, E) /\ E.link = D.link /\ E.pending = D.pending
<1>1. \A e \in Cids(d) : Owned(E, e)
  BY DEF Fits, Moves, Owned
<1>2. D.link # "connected" => \A e \in Cids(d) : Accepted(E, e) => Accepted(D, e)
  BY DEF Moves, Accepted
<1>3. Away(d, E)
  BY <1>2 DEF Fits, Moves, Away, Accepted
<1> QED BY <1>1, <1>3 DEF Fits, Moves

LEMMA AnswersAre == \A d : Answers(d) \cup {"DELAY"} \subseteq AnswerSet
BY DEF Answers, AnswerSet

LEMMA RecvConnReqKeeps ==
  ASSUME ChannelInv, NEW d \in Dev, NEW served \in BOOLEAN,
         NEW answer \in Answers(d) \cup {"DELAY"}, RecvConnReq(d, served, answer)
  PROVE  ChannelInv'
<1> DEFINE m == Head(net[d])
           rest == Tail(net[d])
<1>1. /\ phys /\ dev[d].link = "connected" /\ m \in Msgs /\ m.cmd = "CONN_REQ"
      /\ rest \in Seq(Msgs) /\ UNCHANGED <<evt, phys, drops>>
  BY Received DEF RecvConnReq
<1>2. m.scid \in Nat /\ m.id \in Nat
  BY <1>1, MsgFields
<1>3. Fits(d, dev[d]) /\ Sound(d, dev[d]) /\ Device(d, dev[d])
  BY HostIs
<1>4. CASE ~served \/ dev[d].free = <<>>
  <2>1. Commit(d, RejectConnection(dev[d], m.scid, m.id), rest)
    BY <1>4 DEF RecvConnReq
  <2>2. Quiet(d, dev[d], RejectConnection(dev[d], m.scid, m.id))
    BY <1>2, <1>3, RepliesQuiet
  <2> QED BY <1>1, <2>1, <2>2, QuietStep
<1>5. CASE served /\ dev[d].free # <<>>
  <2>1. PICK c \in Cids(d) : c = Head(dev[d].free)
    BY <1>3, <1>5, FreeHead
  <2>2. PICK D1 : D1 = AllocateCcb(dev[d])
    OBVIOUS
  <2>3. PICK D2 : D2 = [D1 EXCEPT !.ccb[c].rid = m.id]
    OBVIOUS
  <2>4. PICK D3 : D3 = [D2 EXCEPT !.ccb[c].rcid = m.scid]
    OBVIOUS
  <2>5. PICK D : D = Enter(D3, c, "TERM_W4_SEC_COMP")
    OBVIOUS
  <2>6. PICK E : E = AccessReq(D, c, answer)
    OBVIOUS
  <2>7. /\ ~dev[d].ccb[c].used /\ Moves(d, dev[d], D1, c) /\ D1.app = dev[d].app
        /\ D1.ccb[c].used = TRUE
    <3>1. PICK D0 : D0 = dev[d]
      OBVIOUS
    <3>2. Sound(d, D0) /\ D0.free # <<>> /\ c = Head(D0.free) /\ D1 = AllocateCcb(D0)
      BY <1>3, <1>5, <2>1, <2>2, <3>1
    <3>3. ~D0.ccb[c].used /\ Moves(d, D0, D1, c) /\ D1.app = D0.app
      BY <3>2, AllocateMoves
    <3>4. D1.ccb[c].used = TRUE
      BY <3>2, AllocateMoves
    <3> QED BY <3>1, <3>3, <3>4
  <2>8. Sound(d, D1) /\ Device(d, D1)
    BY <2>7 DEF Moves, Sound
  <2>9. D = [D1 EXCEPT !.ccb[c].rid = m.id, !.ccb[c].rcid = m.scid,
                       !.ccb[c].st = "TERM_W4_SEC_COMP"]
    BY <2>3, <2>4, <2>5, <2>8 DEF Enter, Device
  <2>10. Commit(d, IF answer = "STARTED" THEN SendConnectRsp(E, c, "PENDING") ELSE E, rest)
    BY <1>5, <2>1, <2>2, <2>6, <2>9 DEF RecvConnReq
  <2>11. Quiet(d, D1, D2)
    <3>1. \A i \in Nat : Quiet(d, D1, [D1 EXCEPT !.ccb[c].rid = i])
      BY <2>8, QuietFields
    <3> QED BY <1>2, <2>3, <3>1
  <2>12. Quiet(d, D2, D3)
    <3>1. Device(d, D2)
      BY <2>11 DEF Quiet
    <3>2. \A i \in Nat : Quiet(d, D2, [D2 EXCEPT !.ccb[c].rcid = i])
      BY <3>1, QuietFields
    <3> QED BY <1>2, <2>4, <3>2
  <2>13. Quiet(d, D1, D3)
    BY <2>11, <2>12, QuietTwice
  <2>14. /\ Sound(d, D3) /\ Moves(d, D1, D3, c) /\ D3.app[c] = D1.app[c]
         /\ D3.ccb[c].used = D1.ccb[c].used
    BY <2>8, <2>13, QuietSound, QuietMoves
  <2>15. /\ Moves(d, D3, D, c) /\ D.ccb[c].st = "TERM_W4_SEC_COMP"
         /\ D.app = D3.app /\ D.ccb[c].used = D3.ccb[c].used
    <3>1. "TERM_W4_SEC_COMP" \in States
      BY DEF States
    <3> QED BY <2>5, <2>14, <3>1, EnterMoves
  <2>16. D.ccb[c].used = TRUE /\ D.app[c] = {}
    <3>1. dev[d].app[c] = {}
      BY <2>7, HostIs DEF Owned
    <3> QED BY <2>7, <2>14, <2>15, <3>1
  <2>17. Owned(D, c) /\ Sound(d, D) /\ D.ccb[c].used
    BY <2>15, <2>16 DEF Owned, Moves, Unowned
  <2>18. Settles(d, D, E, c)
    <3>1. answer \in AnswerSet
      BY AnswersAre
    <3> QED BY <2>6, <2>17, <3>1, AccessReqSettles
  <2>19. PICK F : F = IF answer = "STARTED" THEN SendConnectRsp(E, c, "PENDING") ELSE E
    OBVIOUS
  <2>20. Settles(d, D, F, c)
    <3>1. Quiet(d, E, SendConnectRsp(E, c, "PENDING"))
      <4>1. Device(d, E) /\ "PENDING" \in Results
        BY <2>18, SettledIs DEF Results
      <4> QED BY <4>1, SendsQuiet
    <3>2. Settles(d, D, SendConnectRsp(E, c, "PENDING"), c)
      BY <2>18, <3>1, QuietAfter
    <3> QED BY <2>18, <2>19, <3>2
  <2>21. Moves(d, dev[d], F, c) /\ Owned(F, c)
    <3>1. Moves(d, dev[d], D3, c)
      BY <2>7, <2>14, MovesTwice
    <3>2. Moves(d, dev[d], D, c)
      BY <2>15, <3>1, MovesTwice
    <3> QED BY <2>20, <3>2, SettledIs, MovesTwice
  <2>22. Fits(d, F) /\ F.link = dev[d].link
    BY <1>1, <1>3, <2>21, MovesFits
  <2>23. drops' \in 0..MaxDrop
    BY <1>1 DEF ChannelInv
  <2> QED BY <1>1, <2>10, <2>19, <2>22, <2>23, CommitKeeps
<1> QED BY <1>4, <1>5

-----------------------------------------------------------------------------
(* The calls of the application. *)

(* Only what the host knows of the link changes. *)
OnlyLink(D, E) ==
  /\ DOMAIN E = DOMAIN D /\ E.ccb = D.ccb /\ E.free = D.free /\ E.chans = D.chans
  /\ E.sec = D.sec /\ E.delay = D.delay /\ E.app = D.app
  /\ E.again = D.again /\ E.orphan = D.orphan /\ E.out = D.out

LEMMA LinkFits ==
  ASSUME NEW d, NEW D, Fits(d, D), NEW E, OnlyLink(D, E), E.link \in Links,
         E.pending \in Cids(d) \cup {NoCid}, E.id \in Nat, E.w4info \in BOOLEAN,
         E.link # "connected" => \A c \in Cids(d) : ~Accepted(D, c),
         E.pending # NoCid => E.link = "disconnecting"
  PROVE  Fits(d, E)
<1>1. Device(d, E)
  BY DEF Fits, Sound, Device, OnlyLink
<1>2. Pool(d, E)
  BY DEF Fits, Sound, Pool, OnlyLink
<1>3. \A c \in Cids(d) : Owned(E, c)
  BY DEF Fits, Owned, OnlyLink
<1>4. Away(d, E)
  BY DEF Away, Accepted, OnlyLink
<1>5. E.delay => E.sec # NoCid
  BY DEF Fits, OnlyLink
<1> QED BY <1>1, <1>2, <1>3, <1>4, <1>5 DEF Fits, Sound

(* A step after which the host sees its link in another way. *)
LEMMA LinkStep ==
  ASSUME ChannelInv, NEW d \in Dev, NEW E, Fits(d, E), Commit(d, E, net[d]),
         UNCHANGED <<phys, drops>>, NEW x \in {"none", "up", "user", "other"},
         evt' = [evt EXCEPT ![d] = x],
         IF phys THEN \/ x = "none" /\ E.link = "connected"
                      \/ x = "up" /\ E.link = "connecting"
         ELSE \/ x \in {"user", "other"}
              \/ x = "none" /\ E.link \in {"none", "connecting"}
  PROVE  ChannelInv'
<1>1. net[d] \in Seq(Msgs) /\ (~phys => net[d] = <<>>)
  BY NetRest
<1>2. /\ DOMAIN dev' = Dev
      /\ \A e \in Dev : Fits(e, dev'[e]) /\ dev'[e].out = <<>>
      /\ dev'[d].link = E.link /\ \A e \in Dev \ {d} : dev'[e] = dev[e]
      /\ net' \in [Dev -> Seq(Msgs)]
      /\ ~phys => \A e \in Dev : net'[e] = <<>>
  BY <1>1, CommitStep
<1>3. /\ evt' \in [Dev -> {"none", "up", "user", "other"}]
      /\ evt'[d] = x /\ \A e \in Dev \ {d} : evt'[e] = evt[e]
  BY DEF ChannelInv
<1>4. LinkInv'
  BY <1>2, <1>3 DEF ChannelInv, LinkInv
<1>5. \A e \in Dev : Fits(e, dev[e])' /\ dev'[e].out = <<>>
  BY <1>2 DEF Fits, Sound, Device, Pool, Away, Owned
<1>6. phys' \in BOOLEAN /\ drops' \in 0..MaxDrop
  BY DEF ChannelInv
<1> QED BY <1>2, <1>3, <1>4, <1>5, <1>6 DEF ChannelInv

LEMMA ConnectReqKeeps ==
  ASSUME ChannelInv, NEW d \in Dev, NEW modes \in BOOLEAN, NEW answer \in Answers(d),
         L2CA_ConnectReq(d, modes, answer)
  PROVE  ChannelInv'
<1>1. /\ Fits(d, dev[d]) /\ Sound(d, dev[d]) /\ Device(d, dev[d])
      /\ dev[d].free # <<>> /\ UNCHANGED <<evt, phys, drops>>
  BY HostIs DEF L2CA_ConnectReq
<1>2. PICK D0 : D0 = [dev[d] EXCEPT !.conns = @ + 1]
  OBVIOUS
<1>3. PICK c \in Cids(d) : c = Head(dev[d].free)
  BY <1>1, FreeHead
<1>4. PICK D1 : D1 = AllocateCcb(D0)
  OBVIOUS
<1>5. PICK D2 : D2 = [D1 EXCEPT !.ccb[c].modes = modes]
  OBVIOUS
<1>6. PICK E : E = [D2 EXCEPT !.app[c] = {"own"}]
  OBVIOUS
<1>7. Quiet(d, dev[d], D0)
  <2>1. \A n : Quiet(d, dev[d], [dev[d] EXCEPT !.conns = n])
    BY <1>1, WithFields
  <2> QED BY <1>2, <2>1
<1>8. /\ Fits(d, D0) /\ Sound(d, D0) /\ D0.link = dev[d].link
      /\ D0.pending = dev[d].pending /\ D0.free = dev[d].free
  BY <1>1, <1>7, QuietFits DEF Fits, Quiet, SameRest
<1>9. D0.free # <<>> /\ c = Head(D0.free) /\ Sound(d, D0)
  BY <1>1, <1>3, <1>8
<1>10. Moves(d, D0, D1, c) /\ D1.ccb[c].st = "CLOSED"
  BY <1>4, <1>9, AllocateMoves
<1>11. D1.ccb[c].used = TRUE
  BY <1>4, <1>9, AllocateMoves
<1>12. Sound(d, D1) /\ Device(d, D1)
  BY <1>10 DEF Moves, Sound
<1>13. Quiet(d, D1, D2)
  <2>1. \A b \in BOOLEAN : Quiet(d, D1, [D1 EXCEPT !.ccb[c].modes = b])
    BY <1>12, QuietFields
  <2> QED BY <1>5, <2>1
<1>14. Moves(d, D1, D2, c) /\ Sound(d, D2) /\ D2.ccb[c].st = D1.ccb[c].st
  BY <1>12, <1>13, QuietMoves, QuietSound
<1>15. D2.ccb[c].used = D1.ccb[c].used
  BY <1>12, <1>13, QuietMoves
<1>16. Moves(d, D2, E, c) /\ E.ccb = D2.ccb /\ E.app[c] = {"own"}
  <2>1. {"own"} \in SUBSET Duties
    BY DEF Duties
  <2>2. \A a \in SUBSET Duties : /\ Moves(d, D2, [D2 EXCEPT !.app[c] = a], c)
                                 /\ [D2 EXCEPT !.app[c] = a].ccb = D2.ccb
                                 /\ [D2 EXCEPT !.app[c] = a].app[c] = a
    BY <1>14, AppMoves
  <2> QED BY <1>6, <2>1, <2>2
<1>17. Moves(d, D0, E, c)
  BY <1>10, <1>14, <1>16, MovesTwice
<1>18. Owned(E, c) /\ ~Accepted(E, c) /\ E.ccb[c].used
  <2>1. E.ccb[c].used = TRUE /\ E.ccb[c].st = "CLOSED"
    BY <1>10, <1>11, <1>14, <1>15, <1>16
  <2> QED BY <1>16, <2>1 DEF Owned, Accepted, Unowned
<1>19. Fits(d, E) /\ E.link = dev[d].link /\ E.pending = dev[d].pending
  BY <1>8, <1>17, <1>18, MovesFits
<1>20. E = [[AllocateCcb(D0) EXCEPT !.ccb[c].modes = modes] EXCEPT !.app[c] = {"own"}]
  BY <1>4, <1>5, <1>6
<1>21. E = [AllocateCcb(D0) EXCEPT !.ccb[c].modes = modes, !.app[c] = {"own"}]
  BY <1>4, <1>12, <1>20 DEF Device
<1>22. drops' \in 0..MaxDrop
  BY <1>1 DEF ChannelInv
<1>23. CASE E.link = "connected"
  <2>1. PICK F : F = AccessReq(E, c, answer)
    OBVIOUS
  <2>2. Commit(d, IF answer = "STARTED" THEN Enter(F, c, "ORIG_W4_SEC_COMP") ELSE F, net[d])
    BY <1>2, <1>3, <1>21, <1>23, <2>1 DEF L2CA_ConnectReq
  <2>3. Settles(d, E, F, c) /\ ~Accepted(F, c)
    <3>1. answer \in AnswerSet /\ Sound(d, E)
      BY <1>19, AnswersAre DEF Fits
    <3>2. Settles(d, E, F, c)
      BY <1>18, <2>1, <3>1, AccessReqSettles
    <3> QED BY <1>18, <3>2 DEF Settles
  <2>4. Settles(d, F, Enter(F, c, "ORIG_W4_SEC_COMP"), c)
    <3>1. "ORIG_W4_SEC_COMP" \in States /\ "ORIG_W4_SEC_COMP" \notin Unowned
      BY DEF States, Unowned
    <3>2. Sound(d, F) /\ Owned(F, c)
      BY <2>3, SettledIs
    <3> QED BY <2>3, <3>1, <3>2, EnterSettles
  <2>5. PICK G : G = IF answer = "STARTED" THEN Enter(F, c, "ORIG_W4_SEC_COMP") ELSE F
    OBVIOUS
  <2>6. Settles(d, E, G, c)
    BY <2>3, <2>4, <2>5, SettlesTwice
  <2>7. Fits(d, G) /\ G.link = dev[d].link
    BY <1>19, <2>6, SettlesFits
  <2> QED BY <1>1, <1>22, <2>2, <2>5, <2>7, NetRest, CommitKeeps
<1>24. CASE E.link # "connected"
  <2>1. PICK F : F = CASE E.link = "none" -> [E EXCEPT !.link = "connecting"]
                       [] E.link = "disconnecting" -> [E EXCEPT !.pending = c]
                       [] OTHER -> E
    OBVIOUS
  <2>2. Commit(d, F, net[d])
    BY <1>2, <1>3, <1>21, <1>24, <2>1 DEF L2CA_ConnectReq
  <2>3. /\ Device(d, E) /\ \A e \in Cids(d) : ~Accepted(E, e)
        /\ E.pending # NoCid => E.link = "disconnecting"
    BY <1>19, <1>24 DEF Fits, Sound, Away, Accepted
  <2>4. CASE E.link = "none"
    <3>1. OnlyLink(E, F) /\ F.link = "connecting" /\ F.pending = E.pending
          /\ F.id = E.id /\ F.w4info = E.w4info
      BY <2>1, <2>3, <2>4 DEF Device, OnlyLink
    <3>2. Fits(d, F)
      <4>1. F.link \in Links /\ F.pending \in Cids(d) \cup {NoCid} /\ F.id \in Nat
            /\ F.w4info \in BOOLEAN
        BY <2>3, <3>1 DEF Device, Links
      <4>2. F.pending # NoCid => F.link = "disconnecting"
        BY <2>3, <2>4, <3>1
      <4> QED BY <1>19, <2>3, <3>1, <4>1, <4>2, LinkFits
    <3>3. ~phys /\ evt[d] \in {"none", "user", "other"}
      BY <1>19, <2>4 DEF ChannelInv, LinkInv
    <3>4. evt' = [evt EXCEPT ![d] = evt[d]]
      BY <1>1 DEF ChannelInv
    <3> QED BY <1>1, <2>2, <3>1, <3>2, <3>3, <3>4, LinkStep
  <2>5. CASE E.link = "disconnecting"
    <3>1. OnlyLink(E, F) /\ F.link = E.link /\ F.pending = c
          /\ F.id = E.id /\ F.w4info = E.w4info
      BY <2>1, <2>3, <2>5 DEF Device, OnlyLink
    <3>2. Fits(d, F)
      <4>1. F.link \in Links /\ F.pending \in Cids(d) \cup {NoCid} /\ F.id \in Nat
            /\ F.w4info \in BOOLEAN
        BY <2>3, <3>1 DEF Device, Links
      <4> QED BY <1>19, <2>3, <2>5, <3>1, <4>1, LinkFits
    <3> QED BY <1>1, <1>19, <1>22, <2>2, <3>1, <3>2, NetRest, CommitKeeps
  <2>6. CASE E.link \notin {"none", "disconnecting"}
    <3>1. F = E
      BY <2>1, <2>6
    <3> QED BY <1>1, <1>19, <1>22, <2>2, <3>1, NetRest, CommitKeeps
  <2> QED BY <2>4, <2>5, <2>6
<1> QED BY <1>23, <1>24

(* Who has something to do for a channel holds it, and may drop a duty. *)
LEMMA OwnerIs ==
  ASSUME ChannelInv, NEW d \in Dev, NEW c \in Cids(d), dev[d].app[c] # {}
  PROVE  /\ dev[d].ccb[c].used /\ dev[d].ccb[c].st # "TERM_W4_SEC_COMP"
         /\ "own" \in dev[d].app[c]
         /\ \A duty : dev[d].app[c] \ {duty} \in SUBSET Duties
<1>1. Owned(dev[d], c) /\ dev[d].app \in [Cids(d) -> SUBSET Duties]
  BY HostIs DEF Device
<1> QED BY <1>1 DEF Owned

LEMMA DropsDuty ==
  ASSUME ChannelInv, NEW d \in Dev, NEW c \in Cids(d), dev[d].app[c] # {},
         NEW duty \in Duties \ {"own"}
  PROVE  /\ Settles(d, dev[d], [dev[d] EXCEPT !.app[c] = @ \ {duty}], c)
         /\ [dev[d] EXCEPT !.app[c] = @ \ {duty}].ccb = dev[d].ccb
         /\ "own" \in [dev[d] EXCEPT !.app[c] = @ \ {duty}].app[c]
<1>1. PICK D : D = dev[d]
  OBVIOUS
<1>2. PICK a : a = D.app[c] \ {duty}
  OBVIOUS
<1>3. /\ D.ccb[c].used /\ D.ccb[c].st # "TERM_W4_SEC_COMP"
      /\ a \in SUBSET Duties /\ "own" \in a
  BY <1>1, <1>2, OwnerIs
<1>4. Sound(d, D)
  BY <1>1, HostIs
<1>5. Settles(d, D, [D EXCEPT !.app[c] = a], c)
  BY <1>3, <1>4, AppSettles
<1>6. [D EXCEPT !.app[c] = a].ccb = D.ccb /\ [D EXCEPT !.app[c] = a].app[c] = a
  BY <1>4 DEF Sound, Device
<1>7. [dev[d] EXCEPT !.app[c] = @ \ {duty}] = [D EXCEPT !.app[c] = a]
  BY <1>1, <1>2
<1> QED BY <1>1, <1>3, <1>5, <1>6, <1>7

LEMMA ConnectRspKeeps ==
  ASSUME ChannelInv, NEW d \in Dev, NEW c \in Cids(d), NEW result \in Results,
         L2CA_ConnectRsp(d, c, result)
  PROVE  ChannelInv'
<1>1. PICK D : D = [dev[d] EXCEPT !.app[c] = @ \ {"connrsp"}]
  OBVIOUS
<1> DEFINE heeded == Finds(D, c) /\ D.ccb[c].rid = D.ccb[c].indid
                     /\ D.ccb[c].st = "W4_L2CA_CONNECT_RSP"
<1>2. dev[d].app[c] # {} /\ UNCHANGED <<evt, phys, drops>>
  BY DEF L2CA_ConnectRsp
<1>3. Settles(d, dev[d], D, c) /\ D.ccb = dev[d].ccb /\ "own" \in D.app[c]
  <2>1. "connrsp" \in Duties \ {"own"}
    BY DEF Duties
  <2> QED BY <1>1, <1>2, <2>1, DropsDuty
<1>4. Sound(d, D) /\ Device(d, D) /\ Owned(D, c)
  BY <1>3, SettledIs
<1>5. D.ccb[c].used /\ D.ccb[c].st # "TERM_W4_SEC_COMP"
  BY <1>2, <1>3, OwnerIs
<1>6. SUFFICES ASSUME NEW E, Settles(d, D, E, c), Commit(d, E, net[d])
               PROVE  ChannelInv'
  <2>1. CASE ~heeded
    <3>1. Commit(d, D, net[d])
      BY <1>1, <2>1 DEF L2CA_ConnectRsp
    <3> QED BY <1>4, <1>6, <3>1, SettlesSelf
  <2>2. CASE heeded /\ result = "OK"
    <3>1. PICK E : E = SendConnectRsp(D, c, "OK")
      OBVIOUS
    <3>2. Commit(d, StartTimer(Enter(E, c, "CONFIG"), c), net[d])
      BY <1>1, <2>2, <3>1 DEF L2CA_ConnectRsp
    <3>3. Quiet(d, D, E)
      <4>1. "OK" \in Results
        BY DEF Results
      <4> QED BY <1>4, <3>1, <4>1, SendsQuiet
    <3>4. Settles(d, D, E, c) /\ Sound(d, E) /\ Owned(E, c)
      BY <1>4, <3>3, QuietSettles, SettledIs
    <3>5. "own" \in E.app[c]
      BY <1>3, <1>4, <3>3, QuietMoves
    <3>6. Settles(d, E, StartTimer(Enter(E, c, "CONFIG"), c), c)
      <4>1. "CONFIG" \in States \ Unowned
        BY DEF States, Unowned
      <4> QED BY <3>4, <3>5, <4>1, EnterTimed
    <3>7. Settles(d, D, StartTimer(Enter(E, c, "CONFIG"), c), c)
      BY <3>4, <3>6, SettlesTwice
    <3> QED BY <1>6, <3>2, <3>7
  <2>3. CASE heeded /\ result = "PENDING"
    <3>1. PICK E : E = Owes(D, c, {"connrsp"})
      OBVIOUS
    <3>2. PICK F : F = SendConnectRsp(E, c, "PENDING")
      OBVIOUS
    <3>3. Commit(d, StartTimer(F, c), net[d])
      BY <1>1, <2>3, <3>1, <3>2 DEF L2CA_ConnectRsp
    <3>4. Settles(d, D, E, c)
      <4>1. {"connrsp"} \in SUBSET Duties
        BY DEF Duties
      <4> QED BY <1>3, <1>4, <1>5, <3>1, <4>1, OwesSettles
    <3>5. Quiet(d, E, F)
      <4>1. Device(d, E) /\ "PENDING" \in Results
        BY <3>4, SettledIs DEF Results
      <4> QED BY <3>2, <4>1, SendsQuiet
    <3>6. Quiet(d, F, StartTimer(F, c))
      <4>1. Device(d, F)
        BY <3>5 DEF Quiet
      <4> QED BY <4>1, TimersQuiet
    <3>7. Settles(d, D, StartTimer(F, c), c)
      BY <3>4, <3>5, <3>6, QuietTwice, QuietAfter
    <3> QED BY <1>6, <3>3, <3>7
  <2>4. CASE heeded /\ result = "NEG"
    <3>1. PICK E : E = SendConnectRsp(D, c, "NEG")
      OBVIOUS
    <3>2. Commit(d, ReleaseAndTell(E, c), net[d])
      BY <1>1, <2>4, <3>1 DEF L2CA_ConnectRsp
    <3>3. Quiet(d, D, E)
      <4>1. "NEG" \in Results
        BY DEF Results
      <4> QED BY <1>4, <3>1, <4>1, SendsQuiet
    <3> QED BY <1>4, <1>6, <3>2, <3>3, QuietRelease
  <2> QED BY <2>1, <2>2, <2>3, <2>4 DEF Results
<1>7. Settles(d, dev[d], E, c)
  BY <1>3, <1>6, SettlesTwice
<1> QED BY <1>2, <1>6, <1>7, NetRest, SettleStep

LEMMA ConfigReqKeeps ==
  ASSUME ChannelInv, NEW d \in Dev, NEW c \in Cids(d), L2CA_ConfigReq(d, c)
  PROVE  ChannelInv'
<1>1. PICK D0 : D0 = [dev[d] EXCEPT !.app[c] = @ \ {"recfg"}]
  OBVIOUS
<1>2. PICK D : D = [D0 EXCEPT !.cfgs = dev[d].cfgs + 1]
  OBVIOUS
<1>3. PICK E : E = IF D.ccb[c].st = "OPEN" THEN Reopen(D, c) ELSE D
  OBVIOUS
<1>4. dev[d].app[c] # {} /\ UNCHANGED <<evt, phys, drops>>
  BY DEF L2CA_ConfigReq
<1>5. Settles(d, dev[d], D0, c)
  <2>1. "recfg" \in Duties \ {"own"}
    BY DEF Duties
  <2> QED BY <1>1, <1>4, <2>1, DropsDuty
<1>6. Quiet(d, D0, D)
  <2>1. \A n : Quiet(d, D0, [D0 EXCEPT !.cfgs = n])
    BY <1>5, SettledIs, WithFields
  <2> QED BY <1>2, <2>1
<1>7. D = [dev[d] EXCEPT !.cfgs = @ + 1, !.app[c] = @ \ {"recfg"}]
  BY <1>1, <1>2, HostIs DEF Device
<1>8. Commit(d, StartTimer(SendConfigReq(E, c), c), net[d])
  BY <1>3, <1>7 DEF L2CA_ConfigReq, Reopen
<1>9. Settles(d, dev[d], D, c)
  BY <1>5, <1>6, QuietAfter
<1>10. Settles(d, D, E, c)
  <2>1. Sound(d, D) /\ Owned(D, c)
    BY <1>9, SettledIs
  <2> QED BY <1>3, <2>1, ReopenSettles, SettlesSelf
<1>11. Quiet(d, E, SendConfigReq(E, c))
  BY <1>10, SettledIs, SendsQuiet
<1>12. Quiet(d, SendConfigReq(E, c), StartTimer(SendConfigReq(E, c), c))
  <2>1. Device(d, SendConfigReq(E, c))
    BY <1>11 DEF Quiet
  <2> QED BY <2>1, TimersQuiet
<1>13. Settles(d, D, StartTimer(SendConfigReq(E, c), c), c)
  BY <1>10, <1>11, <1>12, QuietTwice, QuietAfter
<1>14. Settles(d, dev[d], StartTimer(SendConfigReq(E, c), c), c)
  BY <1>9, <1>13, SettlesTwice
<1> QED BY <1>4, <1>8, <1>14, NetRest, SettleStep

LEMMA ConfigRspKeeps ==
  ASSUME ChannelInv, NEW d \in Dev, NEW c \in Cids(d), NEW result \in Results,
         NEW sameMode \in BOOLEAN, L2CA_ConfigRsp(d, c, result, sameMode)
  PROVE  ChannelInv'
<1>1. PICK D0 : D0 = [dev[d] EXCEPT !.app[c] = @ \ {"cfgrsp"}]
  OBVIOUS
<1>2. PICK n : n = IF result = "OK" THEN dev[d].cfgs ELSE dev[d].cfgs + 1
  OBVIOUS
<1>3. PICK D : D = [D0 EXCEPT !.cfgs = n]
  OBVIOUS
<1>4. dev[d].app[c] # {} /\ UNCHANGED <<evt, phys, drops>>
  BY DEF L2CA_ConfigRsp
<1>5. Settles(d, dev[d], D0, c) /\ "own" \in D0.app[c]
  <2>1. "cfgrsp" \in Duties \ {"own"}
    BY DEF Duties
  <2> QED BY <1>1, <1>4, <2>1, DropsDuty
<1>6. Quiet(d, D0, D)
  <2>1. \A k : Quiet(d, D0, [D0 EXCEPT !.cfgs = k])
    BY <1>5, SettledIs, WithFields
  <2> QED BY <1>3, <2>1
<1>7. D = [dev[d] EXCEPT !.app[c] = @ \ {"cfgrsp"},
                         !.cfgs = IF result = "OK" THEN @ ELSE @ + 1]
  BY <1>1, <1>2, <1>3, HostIs DEF Device
<1>8. Settles(d, dev[d], D, c) /\ Sound(d, D) /\ Device(d, D) /\ Owned(D, c)
  BY <1>5, <1>6, QuietAfter, SettledIs
<1>9. "own" \in D.app[c]
  BY <1>5, <1>6, SettledIs, QuietMoves
<1>10. SUFFICES ASSUME NEW E, Settles(d, D, E, c), Commit(d, E, net[d])
                PROVE  ChannelInv'
  <2>1. CASE ~Finds(D, c) \/ D.ccb[c].st # "CONFIG"
    <3>1. Commit(d, D, net[d])
      BY <1>7, <2>1 DEF L2CA_ConfigRsp
    <3> QED BY <1>8, <1>10, <3>1, SettlesSelf
  <2>2. CASE Finds(D, c) /\ D.ccb[c].st = "CONFIG" /\ result = "OK"
    <3>1. PICK f : f = D.ccb[c].cfg \cup {"IB"}
      OBVIOUS
    <3>2. PICK F : F = [D EXCEPT !.ccb[c].cfg = f]
      OBVIOUS
    <3>3. PICK E : E = FinishConfig(F, c, sameMode)
      OBVIOUS
    <3>4. F = [D EXCEPT !.ccb[c].cfg = @ \cup {"IB"}]
      BY <3>1, <3>2
    <3>5. Commit(d, IF Finds(E, c) THEN SendConfigRsp(E, c, "OK") ELSE E, net[d])
      BY <1>7, <2>2, <3>3, <3>4 DEF L2CA_ConfigRsp
    <3>6. Quiet(d, D, F)
      <4>1. f \in SUBSET {"IB", "OB"}
        BY <1>8, <3>1 DEF Device, Ccb
      <4>2. \A g \in SUBSET {"IB", "OB"} : Quiet(d, D, [D EXCEPT !.ccb[c].cfg = g])
        BY <1>8, QuietFields
      <4> QED BY <3>2, <4>1, <4>2
    <3>7. Settles(d, D, F, c) /\ Sound(d, F) /\ Owned(F, c) /\ F.ccb[c].st = "CONFIG"
      BY <1>8, <2>2, <3>6, QuietSettles, QuietMoves, SettledIs
    <3>8. Settles(d, F, E, c)
      BY <3>3, <3>7, FinishConfigSettles
    <3>9. Settles(d, D, E, c)
      BY <3>7, <3>8, SettlesTwice
    <3>10. Settles(d, D, SendConfigRsp(E, c, "OK"), c)
      <4>1. Device(d, E) /\ "OK" \in Results
        BY <3>9, SettledIs DEF Results
      <4>2. Quiet(d, E, SendConfigRsp(E, c, "OK"))
        BY <4>1, SendsQuiet
      <4> QED BY <3>9, <4>2, QuietAfter
    <3> QED BY <1>10, <3>5, <3>9, <3>10
  <2>3. CASE Finds(D, c) /\ D.ccb[c].st = "CONFIG" /\ result = "PENDING"
    <3>1. PICK E : E = Owes(D, c, {"cfgrsp"})
      OBVIOUS
    <3>2. Commit(d, SendConfigRsp(E, c, "PENDING"), net[d])
      BY <1>7, <2>3, <3>1 DEF L2CA_ConfigRsp
    <3>3. Settles(d, D, E, c)
      <4>1. {"cfgrsp"} \in SUBSET Duties /\ D.ccb[c].used
        BY <2>3 DEF Duties, Finds
      <4> QED BY <1>8, <1>9, <2>3, <3>1, <4>1, OwesSettles
    <3>4. Quiet(d, E, SendConfigRsp(E, c, "PENDING"))
      <4>1. Device(d, E) /\ "PENDING" \in Results
        BY <3>3, SettledIs DEF Results
      <4> QED BY <4>1, SendsQuiet
    <3> QED BY <1>10, <3>2, <3>3, <3>4, QuietAfter
  <2>4. CASE Finds(D, c) /\ D.ccb[c].st = "CONFIG" /\ result = "NEG"
    <3>1. PICK E : E = SendConfigRsp(D, c, "NEG")
      OBVIOUS
    <3>2. Commit(d, StartTimer(E, c), net[d])
      BY <1>7, <2>4, <3>1 DEF L2CA_ConfigRsp
    <3>3. Quiet(d, D, E)
      <4>1. "NEG" \in Results
        BY DEF Results
      <4> QED BY <1>8, <3>1, <4>1, SendsQuiet
    <3>4. Quiet(d, E, StartTimer(E, c))
      <4>1. Device(d, E)
        BY <3>3 DEF Quiet
      <4> QED BY <4>1, TimersQuiet
    <3>5. Settles(d, D, StartTimer(E, c), c)
      BY <1>8, <3>3, <3>4, QuietTwice, QuietSettles
    <3> QED BY <1>10, <3>2, <3>5
  <2> QED BY <2>1, <2>2, <2>3, <2>4 DEF Results
<1>11. Settles(d, dev[d], E, c)
  BY <1>8, <1>10, SettlesTwice
<1> QED BY <1>4, <1>10, <1>11, NetRest, SettleStep

LEMMA DisconnectReqKeeps ==
  ASSUME ChannelInv, NEW d \in Dev, NEW c \in Cids(d), NEW aborts \in BOOLEAN,
         L2CA_DisconnectReq(d, c, aborts)
  PROVE  ChannelInv'
<1>1. PICK D : D = dev[d]
  OBVIOUS
<1>2. PICK W : W = [D EXCEPT !.app[c] = {"own"}]
  OBVIOUS
<1> DEFINE st == D.ccb[c].st
           answer == SendDiscRsp(D, D.ccb[c].rid, c, D.ccb[c].rcid)
<1>3. /\ "own" \in D.app[c] /\ Finds(D, c) /\ st # "W4_L2CAP_DISCONNECT_RSP"
      /\ UNCHANGED <<evt, phys, drops>>
  BY <1>1 DEF L2CA_DisconnectReq
<1>4. Sound(d, D) /\ Device(d, D) /\ Owned(D, c)
  BY <1>1, HostIs
<1>5. D.ccb[c].used /\ st # "TERM_W4_SEC_COMP"
  BY <1>1, <1>3, OwnerIs
<1>6. Settles(d, D, W, c) /\ "own" \in W.app[c]
  <2>1. {"own"} \in SUBSET Duties /\ "own" \in {"own"}
    BY DEF Duties
  <2>2. \A a \in SUBSET Duties : "own" \in a => Settles(d, D, [D EXCEPT !.app[c] = a], c)
    BY <1>4, <1>5, AppSettles
  <2>3. W.app[c] = {"own"}
    BY <1>2, <1>4 DEF Device
  <2> QED BY <1>2, <2>1, <2>2, <2>3
<1>7. Settles(d, D, StartDisconnect(W, c), c)
  <2>1. Settles(d, W, StartDisconnect(W, c), c)
    BY <1>6, SettledIs, StartDisconnectSettles
  <2> QED BY <1>6, <2>1, SettlesTwice
<1>8. Settles(d, D, ReleaseAndTell(D, c), c)
  BY <1>4, MovesSelf, ReleaseSettles
<1>9. SUFFICES ASSUME NEW E, Settles(d, D, E, c), Commit(d, E, net[d])
               PROVE  ChannelInv'
  <2>1. CASE st = "CLOSED" \/ (st = "W4_L2CAP_CONNECT_RSP" /\ D.ccb[c].rcid = NoCid)
    <3>1. Commit(d, ReleaseAndTell(D, c), net[d])
      BY <1>1, <2>1 DEF L2CA_DisconnectReq
    <3> QED BY <1>8, <1>9, <3>1
  <2>2. CASE st = "ORIG_W4_SEC_COMP"
    <3>1. PICK F : F = AbortAccessReq(D, c, aborts)
      OBVIOUS
    <3>2. Commit(d, ReleaseAndTell(F, c), net[d])
      BY <1>1, <2>2, <3>1 DEF L2CA_DisconnectReq
    <3>3. Moves(d, D, F, c)
      BY <1>4, <3>1, AbortMoves
    <3> QED BY <1>9, <3>2, <3>3, ReleaseSettles
  <2>3. CASE st = "W4_L2CA_DISCONNECT_RSP"
    <3>1. Commit(d, ReleaseAndTell(answer, c), net[d])
      BY <1>1, <2>3 DEF L2CA_DisconnectReq
    <3>2. Quiet(d, D, answer)
      <4>1. D.ccb[c].rid \in Nat /\ D.ccb[c].rcid \in Nat /\ c \in Nat
        BY <1>4, CidsNat DEF Device, Ccb
      <4> QED BY <1>4, <4>1, RepliesQuiet
    <3> HIDE DEF answer
    <3> QED BY <1>4, <1>9, <3>1, <3>2, QuietRelease
  <2>4. CASE /\ st \notin {"CLOSED", "ORIG_W4_SEC_COMP", "W4_L2CA_DISCONNECT_RSP"}
             /\ ~(st = "W4_L2CAP_CONNECT_RSP" /\ D.ccb[c].rcid = NoCid)
    <3>1. Commit(d, StartDisconnect(W, c), net[d])
      BY <1>1, <1>2, <2>4 DEF L2CA_DisconnectReq
    <3> QED BY <1>7, <1>9, <3>1
  <2> QED BY <2>1, <2>2, <2>3, <2>4
<1> QED BY <1>1, <1>3, <1>9, NetRest, SettleStep

LEMMA DisconnectRspKeeps ==
  ASSUME ChannelInv, NEW d \in Dev, NEW c \in Cids(d), L2CA_DisconnectRsp(d, c)
  PROVE  ChannelInv'
<1>1. PICK D : D = dev[d]
  OBVIOUS
<1>2. PICK E : E = SendDiscRsp(D, D.ccb[c].rid, c, D.ccb[c].rcid)
  OBVIOUS
<1>3. Commit(d, ReleaseAndTell(E, c), net[d]) /\ UNCHANGED <<evt, phys, drops>>
  BY <1>1, <1>2 DEF L2CA_DisconnectRsp
<1>4. Sound(d, D) /\ Device(d, D)
  BY <1>1, HostIs
<1>5. Quiet(d, D, E)
  <2>1. D.ccb[c].rid \in Nat /\ D.ccb[c].rcid \in Nat /\ c \in Nat
    BY <1>4, CidsNat DEF Device, Ccb
  <2> QED BY <1>2, <1>4, <2>1, RepliesQuiet
<1>6. Settles(d, D, ReleaseAndTell(E, c), c)
  BY <1>4, <1>5, QuietRelease
<1> QED BY <1>1, <1>3, <1>6, NetRest, SettleStep

-----------------------------------------------------------------------------
(* The timers, the security manager and the link. *)

(* The controllers lose the link. *)
LEMMA LoseStep ==
  ASSUME ChannelInv, NEW d \in Dev, NEW reason \in {"user", "other"},
         LoseLink(d, reason), DOMAIN dev' = Dev,
         \A e \in Dev : Fits(e, dev'[e]) /\ dev'[e].out = <<>>, drops' \in 0..MaxDrop
  PROVE  ChannelInv'
<1>1. /\ phys' = FALSE /\ net' = [e \in Dev |-> <<>>]
      /\ evt' = [e \in Dev |-> IF e = d THEN "other" ELSE reason]
  BY DEF LoseLink
<1>2. /\ net' \in [Dev -> Seq(Msgs)] /\ \A e \in Dev : net'[e] = <<>>
      /\ evt' \in [Dev -> {"none", "up", "user", "other"}]
      /\ \A e \in Dev : evt'[e] \in {"user", "other"}
  BY <1>1
<1>3. LinkInv'
  BY <1>1, <1>2 DEF LinkInv
<1>4. \A e \in Dev : Fits(e, dev[e])' /\ dev'[e].out = <<>>
  BY DEF Fits, Sound, Device, Pool, Away, Owned
<1> QED BY <1>1, <1>2, <1>3, <1>4 DEF ChannelInv

LEMMA TimeoutKeeps ==
  ASSUME ChannelInv, NEW d \in Dev, NEW c \in Cids(d), Timeout(d, c)
  PROVE  ChannelInv'
<1>1. PICK D0 : D0 = dev[d]
  OBVIOUS
<1>2. PICK D : D = StopTimer(D0, c)
  OBVIOUS
<1> DEFINE st == D.ccb[c].st
<1>3. /\ Fits(d, D0) /\ Sound(d, D0) /\ Device(d, D0) /\ Owned(D0, c)
      /\ D0.out = <<>>
  BY <1>1, HostIs DEF ChannelInv
<1>4. Quiet(d, D0, D)
  BY <1>2, <1>3, TimersQuiet
<1>5. Sound(d, D) /\ Device(d, D) /\ Settles(d, D0, D, c) /\ Owned(D, c)
  BY <1>3, <1>4, QuietSettles, SettledIs
<1>6. UNCHANGED drops /\ drops' \in 0..MaxDrop
  BY DEF Timeout, ChannelInv
<1>7. CASE st # "TERM_W4_SEC_COMP"
  <2>1. UNCHANGED <<evt, phys>>
    BY <1>1, <1>2, <1>7 DEF Timeout
  <2>2. SUFFICES ASSUME NEW E, Settles(d, D, E, c), Commit(d, E, net[d])
                 PROVE  ChannelInv'
    <3>1. CASE st \in {"CLOSED", "W4_L2CAP_CONNECT_RSP", "W4_L2CAP_DISCONNECT_RSP"}
      <4>1. Commit(d, ReleaseAndTell(D, c), net[d])
        BY <1>1, <1>2, <3>1 DEF Timeout
      <4> QED BY <1>5, <2>2, <4>1, MovesSelf, ReleaseSettles
    <3>2. CASE st = "W4_L2CA_CONNECT_RSP"
      <4>1. PICK E : E = SendConnectRsp(D, c, "NEG")
        OBVIOUS
      <4>2. Commit(d, ReleaseAndTell(E, c), net[d])
        BY <1>1, <1>2, <3>2, <4>1 DEF Timeout
      <4>3. Quiet(d, D, E)
        <5>1. "NEG" \in Results
          BY DEF Results
        <5> QED BY <1>5, <4>1, <5>1, SendsQuiet
      <4> QED BY <1>5, <2>2, <4>2, <4>3, QuietRelease
    <3>3. CASE st = "CONFIG"
      <4>1. Commit(d, DisconnectChnl(D, c), net[d])
        BY <1>1, <1>2, <3>3 DEF Timeout
      <4> QED BY <1>5, <2>2, <4>1, DisconnectChnlSettles
    <3>4. CASE st = "W4_L2CA_DISCONNECT_RSP"
      <4>1. PICK E : E = SendDiscRsp(D, D.ccb[c].rid, c, D.ccb[c].rcid)
        OBVIOUS
      <4>2. Commit(d, ReleaseAndTell(E, c), net[d])
        BY <1>1, <1>2, <3>4, <4>1 DEF Timeout
      <4>3. Quiet(d, D, E)
        <5>1. D.ccb[c].rid \in Nat /\ D.ccb[c].rcid \in Nat /\ c \in Nat
          BY <1>5, CidsNat DEF Device, Ccb
        <5> QED BY <1>5, <4>1, <5>1, RepliesQuiet
      <4> QED BY <1>5, <2>2, <4>2, <4>3, QuietRelease
    <3>5. CASE st \notin {"CLOSED", "W4_L2CAP_CONNECT_RSP", "W4_L2CAP_DISCONNECT_RSP",
                          "W4_L2CA_CONNECT_RSP", "CONFIG", "W4_L2CA_DISCONNECT_RSP"}
      <4>1. Commit(d, D, net[d])
        BY <1>1, <1>2, <1>7, <3>5 DEF Timeout
      <4> QED BY <1>5, <2>2, <4>1, SettlesSelf
    <3> QED BY <3>1, <3>2, <3>3, <3>4, <3>5
  <2>3. Settles(d, D0, E, c)
    BY <1>5, <2>2, SettlesTwice
  <2> QED BY <1>1, <1>6, <2>1, <2>2, <2>3, NetRest, SettleStep
<1>8. CASE st = "TERM_W4_SEC_COMP"
  <2>1. /\ dev' = [dev EXCEPT ![d] = D]
        /\ IF phys THEN LoseLink(d, "other") ELSE UNCHANGED <<evt, phys, net>>
    BY <1>1, <1>2, <1>8 DEF Timeout
  <2>2. Fits(d, D) /\ D.link = D0.link /\ D.out = <<>>
    <3>1. Fits(d, D) /\ D.link = D0.link
      BY <1>3, <1>4, QuietFits
    <3>2. D.out = D0.out
      BY <1>2, <1>3 DEF StopTimer, Device
    <3> QED BY <1>3, <3>1, <3>2
  <2>3. /\ DOMAIN dev' = Dev /\ \A e \in Dev : dev'[e].link = dev[e].link
        /\ \A e \in Dev : Fits(e, dev'[e]) /\ dev'[e].out = <<>>
    BY <1>1, <2>1, <2>2 DEF ChannelInv
  <2>4. CASE phys
    BY <1>6, <2>1, <2>3, <2>4, LoseStep
  <2>5. CASE ~phys
    <3>1. UNCHANGED <<evt, phys, net>>
      BY <2>1, <2>5
    <3>2. LinkInv'
      BY <2>3, <3>1 DEF ChannelInv, LinkInv
    <3>3. \A e \in Dev : Fits(e, dev[e])' /\ dev'[e].out = <<>>
      BY <2>3 DEF Fits, Sound, Device, Pool, Away, Owned
    <3> QED BY <1>6, <2>3, <3>1, <3>2, <3>3 DEF ChannelInv
  <2> QED BY <2>4, <2>5
<1> QED BY <1>7, <1>8

LEMMA InfoTimeoutKeeps ==
  ASSUME ChannelInv, NEW d \in Dev, InfoTimeout(d) PROVE ChannelInv'
<1>1. PICK D : D = [dev[d] EXCEPT !.w4info = FALSE]
  OBVIOUS
<1>2. PICK E : E = IF D.link = "disconnecting" THEN D ELSE InfoRspAll(D)
  OBVIOUS
<1>3. Commit(d, E, net[d]) /\ UNCHANGED <<evt, phys>>
  BY <1>1, <1>2 DEF InfoTimeout
<1>4. drops' \in 0..MaxDrop
  <2>1. drops \in 0..MaxDrop /\ drops < MaxDrop /\ drops' = drops + 1 /\ MaxDrop \in Nat
    BY DeviceAssumption DEF InfoTimeout, ChannelInv
  <2> QED BY <2>1
<1>5. Fits(d, dev[d]) /\ Device(d, dev[d])
  BY HostIs
<1>6. Fits(d, D) /\ D.link = dev[d].link
  <2>1. \A b \in BOOLEAN : Quiet(d, dev[d], [dev[d] EXCEPT !.w4info = b])
    BY <1>5, WithFields
  <2>2. Quiet(d, dev[d], D)
    BY <1>1, <2>1
  <2> QED BY <1>5, <2>2, QuietFits
<1>7. Fits(d, E) /\ E.link = dev[d].link
  <2>1. Fits(d, InfoRspAll(D)) /\ InfoRspAll(D).link = D.link
    BY <1>6, InfoRspAllKept DEF Kept
  <2> QED BY <1>2, <1>6, <2>1
<1> QED BY <1>3, <1>4, <1>7, NetRest, CommitKeeps

LEMMA SecurityAnswerKeeps ==
  ASSUME ChannelInv, NEW d \in Dev, NEW result \in {"SUCCESS", "FAIL"},
         NEW answer \in Answers(d), SecurityAnswer(d, result, answer)
  PROVE  ChannelInv'
<1>1. PICK D0 : D0 = dev[d]
  OBVIOUS
<1>2. PICK c : c = D0.sec
  OBVIOUS
<1>3. PICK D : D = [D0 EXCEPT !.sec = NoCid]
  OBVIOUS
<1>4. PICK E : E = CASE ~Finds(D, c) -> D
                     [] Finds(D, c) /\ result = "SUCCESS" -> SecComp(D, c)
                     [] Finds(D, c) /\ result = "FAIL" -> SecCompNeg(D, c)
  OBVIOUS
<1>5. /\ Commit(d, IF E.again THEN Resubmit([E EXCEPT !.again = FALSE], answer) ELSE E,
                net[d])
      /\ c # NoCid /\ ~D0.delay /\ UNCHANGED <<evt, phys, drops>>
  BY <1>1, <1>2, <1>3, <1>4 DEF SecurityAnswer
<1>6. Fits(d, D0) /\ Sound(d, D0) /\ Device(d, D0)
  BY <1>1, HostIs
<1>7. c \in Cids(d)
  BY <1>2, <1>5, <1>6 DEF Device
<1>8. Settles(d, D0, D, c)
  <2>1. /\ OnlySec(D0, D) /\ D.sec = NoCid /\ D.delay = FALSE /\ D.orphan \in BOOLEAN
    BY <1>3, <1>5, <1>6 DEF Device, OnlySec
  <2>2. Moves(d, D0, D, c) /\ D.ccb = D0.ccb /\ D.app = D0.app
    BY <1>6, <1>7, <2>1, SecMoves
  <2> QED BY <1>6, <1>7, <2>2 DEF Fits, Settles, Owned, Accepted
<1>9. Settles(d, D, E, c)
  <2>1. Sound(d, D) /\ Owned(D, c) /\ (Finds(D, c) => D.ccb[c].used)
    BY <1>8, SettledIs DEF Finds
  <2>2. ~Finds(D, c) => E = D
    BY <1>4
  <2>3. Finds(D, c) => E \in {SecComp(D, c), SecCompNeg(D, c)}
    BY <1>4
  <2> QED BY <1>7, <2>1, <2>2, <2>3, SettlesSelf, SecCompSettles, SecCompNegSettles
<1>10. Fits(d, E) /\ E.link = D0.link /\ Device(d, E)
  <2>1. Settles(d, D0, E, c)
    BY <1>8, <1>9, SettlesTwice
  <2> QED BY <1>6, <1>7, <2>1, SettlesFits, SettledIs
<1>11. PICK F : F = [E EXCEPT !.again = FALSE]
  OBVIOUS
<1>12. Fits(d, F) /\ F.link = E.link
  <2>1. \A b \in BOOLEAN : Quiet(d, E, [E EXCEPT !.again = b])
    BY <1>10, WithFields
  <2>2. Quiet(d, E, F)
    BY <1>11, <2>1
  <2> QED BY <1>10, <2>2, QuietFits
<1>13. Fits(d, Resubmit(F, answer)) /\ Resubmit(F, answer).link = F.link
  BY <1>12, AnswersAre, ResubmitKept DEF Kept
<1>14. PICK G : G = IF E.again THEN Resubmit(F, answer) ELSE E
  OBVIOUS
<1>15. Fits(d, G) /\ G.link = D0.link /\ Commit(d, G, net[d])
  BY <1>5, <1>10, <1>11, <1>12, <1>13, <1>14
<1>16. drops' \in 0..MaxDrop
  BY <1>5 DEF ChannelInv
<1> QED BY <1>1, <1>5, <1>15, <1>16, NetRest, CommitKeeps

LEMMA EncryptionChangeKeeps ==
  ASSUME ChannelInv, NEW d \in Dev, NEW answer \in Answers(d), EncryptionChange(d, answer)
  PROVE  ChannelInv'
<1>1. PICK D0 : D0 = dev[d]
  OBVIOUS
<1>2. PICK D : D = [D0 EXCEPT !.sec = NoCid, !.delay = FALSE]
  OBVIOUS
<1>3. PICK c : c = D0.sec
  OBVIOUS
<1>4. /\ Commit(d, Resubmit(D, answer), net[d]) /\ c # NoCid
      /\ UNCHANGED <<evt, phys, drops>>
  BY <1>1, <1>2, <1>3 DEF EncryptionChange
<1>5. Fits(d, D0) /\ Sound(d, D0) /\ Device(d, D0)
  BY <1>1, HostIs
<1>6. c \in Cids(d)
  BY <1>3, <1>4, <1>5 DEF Device
<1>7. Settles(d, D0, D, c)
  <2>1. /\ OnlySec(D0, D) /\ D.sec = NoCid /\ D.delay = FALSE /\ D.orphan \in BOOLEAN
    BY <1>2, <1>5 DEF Device, OnlySec
  <2>2. Moves(d, D0, D, c) /\ D.ccb = D0.ccb /\ D.app = D0.app
    BY <1>5, <1>6, <2>1, SecMoves
  <2> QED BY <1>5, <1>6, <2>2 DEF Fits, Settles, Owned, Accepted
<1>8. Fits(d, D) /\ D.link = D0.link
  BY <1>5, <1>6, <1>7, SettlesFits
<1>9. Fits(d, Resubmit(D, answer)) /\ Resubmit(D, answer).link = D.link
  BY <1>8, AnswersAre, ResubmitKept DEF Kept
<1>10. drops' \in 0..MaxDrop
  BY <1>4 DEF ChannelInv
<1> QED BY <1>1, <1>4, <1>8, <1>9, <1>10, NetRest, CommitKeeps

LEMMA PageSucceedsKeeps ==
  ASSUME ChannelInv, NEW d \in Dev, PageSucceeds(d) PROVE ChannelInv'
<1>1. PICK p : p = Peer(d)
  OBVIOUS
<1>2. PICK D : D = dev[p]
  OBVIOUS
<1>3. PICK E : E = [D EXCEPT !.link = "connecting"]
  OBVIOUS
<1>4. /\ dev[d].link = "connecting" /\ ~phys /\ \A e \in Dev : evt[e] = "none"
      /\ phys' = TRUE /\ evt' = [e \in Dev |-> "up"] /\ UNCHANGED <<net, drops>>
      /\ dev' = [dev EXCEPT ![p] = E]
  BY <1>1, <1>2, <1>3 DEF PageSucceeds
<1>5. p \in Dev /\ p # d /\ \A e \in Dev : e = d \/ e = p
  BY <1>1, PeerDev DEF Dev, Peer
<1>6. D.link \in {"none", "connecting"} /\ Fits(d, dev[d]) /\ Fits(p, D) /\ D.out = <<>>
  BY <1>2, <1>4, <1>5 DEF ChannelInv, LinkInv
<1>7. Fits(p, E) /\ E.link = "connecting" /\ E.out = <<>>
  <2>1. Device(p, D) /\ D.pending = NoCid /\ \A c \in Cids(p) : ~Accepted(D, c)
    BY <1>6 DEF Fits, Sound, Away, Accepted
  <2>2. /\ OnlyLink(D, E) /\ E.link = "connecting" /\ E.pending = NoCid
        /\ E.id = D.id /\ E.w4info = D.w4info
    BY <1>3, <2>1 DEF Device, OnlyLink
  <2>3. /\ E.link \in Links /\ E.pending \in Cids(p) \cup {NoCid} /\ E.id \in Nat
        /\ E.w4info \in BOOLEAN
    BY <2>1, <2>2 DEF Device, Links
  <2>4. Fits(p, E)
    BY <1>6, <2>1, <2>2, <2>3, LinkFits
  <2> QED BY <1>6, <2>2, <2>4 DEF OnlyLink
<1>8. /\ DOMAIN dev' = Dev
      /\ \A e \in Dev : /\ Fits(e, dev'[e]) /\ dev'[e].out = <<>>
                        /\ dev'[e].link = "connecting"
  BY <1>4, <1>5, <1>6, <1>7 DEF ChannelInv
<1>9. evt' \in [Dev -> {"none", "up", "user", "other"}] /\ \A e \in Dev : evt'[e] = "up"
  BY <1>4
<1>10. LinkInv'
  BY <1>4, <1>8, <1>9 DEF LinkInv
<1>11. \A e \in Dev : Fits(e, dev[e])' /\ dev'[e].out = <<>>
  BY <1>8 DEF Fits, Sound, Device, Pool, Away, Owned
<1> QED BY <1>4, <1>8, <1>9, <1>10, <1>11 DEF ChannelInv

LEMMA PageFailsKeeps ==
  ASSUME ChannelInv, NEW d \in Dev, PageFails(d) PROVE ChannelInv'
<1>1. PICK D : D = dev[d]
  OBVIOUS
<1>2. PICK E : E = ReleaseAll(D)
  OBVIOUS
<1>3. PICK F : F = [E EXCEPT !.link = "none", !.w4info = FALSE, !.id = 0]
  OBVIOUS
<1>4. /\ Commit(d, F, net[d]) /\ D.link = "connecting" /\ ~phys /\ evt[d] = "none"
      /\ UNCHANGED <<evt, phys, drops>>
  BY <1>1, <1>2, <1>3 DEF PageFails
<1>5. Fits(d, D)
  BY <1>1, HostIs
<1>6. Fits(d, E) /\ E.link = "connecting"
  BY <1>2, <1>4, <1>5, ReleaseAllKept DEF Kept
<1>7. Fits(d, F) /\ F.link = "none"
  <2>1. Device(d, E) /\ E.pending = NoCid /\ \A c \in Cids(d) : ~Accepted(E, c)
    BY <1>6 DEF Fits, Sound, Away, Accepted
  <2>2. OnlyLink(E, F) /\ F.link = "none" /\ F.pending = NoCid
    BY <1>3, <2>1 DEF Device, OnlyLink
  <2>3. F.id \in Nat /\ F.w4info \in BOOLEAN
    BY <1>3, <2>1 DEF Device
  <2>4. F.link \in Links /\ F.pending \in Cids(d) \cup {NoCid}
    BY <2>2 DEF Links
  <2> QED BY <1>6, <2>1, <2>2, <2>3, <2>4, LinkFits
<1>8. evt' = [evt EXCEPT ![d] = "none"]
  BY <1>4 DEF ChannelInv
<1> QED BY <1>4, <1>7, <1>8, LinkStep

LEMMA LinkUpKeeps ==
  ASSUME ChannelInv, NEW d \in Dev, NEW answer \in Answers(d), LinkUp(d, answer)
  PROVE  ChannelInv'
<1>1. PICK D0 : D0 = dev[d]
  OBVIOUS
<1>2. PICK D1 : D1 = [D0 EXCEPT !.link = "connected"]
  OBVIOUS
<1>3. PICK D : D = SendInfoReq(D1, "FEATURES")
  OBVIOUS
<1>4. PICK E : E = ConfirmAll(D, answer)
  OBVIOUS
<1>5. /\ Commit(d, E, net[d]) /\ evt[d] = "up" /\ evt' = [evt EXCEPT ![d] = "none"]
      /\ UNCHANGED <<phys, drops>>
  BY <1>1, <1>2, <1>3, <1>4 DEF LinkUp
<1>6. Fits(d, D0) /\ Device(d, D0) /\ phys /\ D0.link = "connecting"
  BY <1>1, <1>5, HostIs DEF ChannelInv, LinkInv
<1>7. D0.pending = NoCid /\ \A c \in Cids(d) : ~Accepted(D0, c)
  BY <1>6 DEF Fits, Away, Accepted
<1>8. Fits(d, D1) /\ D1.link = "connected" /\ D1.ccb = D0.ccb
  <2>1. /\ OnlyLink(D0, D1) /\ D1.link = "connected" /\ D1.pending = NoCid
        /\ D1.id = D0.id /\ D1.w4info = D0.w4info
    BY <1>2, <1>6, <1>7 DEF Device, OnlyLink
  <2>2. /\ D1.link \in Links /\ D1.pending \in Cids(d) \cup {NoCid} /\ D1.id \in Nat
        /\ D1.w4info \in BOOLEAN
    BY <1>6, <2>1 DEF Device, Links
  <2>3. Fits(d, D1)
    BY <1>6, <1>7, <2>1, <2>2, LinkFits
  <2> QED BY <2>1, <2>3 DEF OnlyLink
<1>9. Quiet(d, D1, D)
  BY <1>3, <1>8, RepliesQuiet DEF Fits, Sound
<1>10. Fits(d, D) /\ D.link = "connected" /\ \A c \in Cids(d) : ~Accepted(D, c)
  <2>1. Fits(d, D) /\ D.link = D1.link
    BY <1>8, <1>9, QuietFits
  <2>2. \A c \in Cids(d) : Accepted(D, c) => Accepted(D1, c)
    BY <1>9 DEF Quiet, Accepted
  <2> QED BY <1>7, <1>8, <2>1, <2>2 DEF Accepted
<1>11. Fits(d, E) /\ E.link = "connected"
  <2>1. answer \in AnswerSet
    BY AnswersAre
  <2> QED BY <1>4, <1>10, <2>1, ConfirmAllKept DEF Kept
<1> QED BY <1>5, <1>6, <1>11, LinkStep

LEMMA LinkDownKeeps ==
  ASSUME ChannelInv, NEW d \in Dev, LinkDown(d) PROVE ChannelInv'
<1>1. PICK D0 : D0 = dev[d]
  OBVIOUS
<1>2. PICK D : D = [D0 EXCEPT !.sec = NoCid, !.delay = FALSE]
  OBVIOUS
<1>3. PICK E : E = LinkLostAll(D, evt[d])
  OBVIOUS
<1> DEFINE again == E.chans # <<>> \/ E.pending # NoCid
<1>4. PICK F : F = IF again THEN [E EXCEPT !.link = "connecting", !.pending = NoCid]
                   ELSE [E EXCEPT !.link = "none", !.w4info = FALSE, !.id = 0]
  OBVIOUS
<1>5. /\ Commit(d, F, net[d]) /\ evt[d] \in {"user", "other"}
      /\ evt' = [evt EXCEPT ![d] = "none"] /\ UNCHANGED <<phys, drops>>
  BY <1>1, <1>2, <1>3, <1>4 DEF LinkDown
<1>6. Fits(d, D0) /\ Sound(d, D0) /\ Device(d, D0) /\ ~phys
  BY <1>1, <1>5, HostIs DEF ChannelInv, LinkInv
<1>7. Fits(d, D)
  <2>1. /\ OnlySec(D0, D) /\ D.sec = NoCid /\ D.delay = FALSE /\ D.orphan = D0.orphan
    BY <1>2, <1>6 DEF Device, OnlySec
  <2>2. Sound(d, D)
    BY <1>6, <2>1 DEF Sound, Device, Pool, OnlySec
  <2>3. Away(d, D) /\ \A c \in Cids(d) : Owned(D, c)
    BY <1>6, <2>1 DEF Fits, Away, Owned, OnlySec
  <2> QED BY <2>1, <2>2, <2>3 DEF Fits
<1>8. Fits(d, E) /\ \A c \in Cids(d) : ~Accepted(E, c)
  BY <1>3, <1>7, LinkLostAllKept DEF Kept
<1>9. Fits(d, F) /\ F.link \in {"none", "connecting"}
  <2>1. Device(d, E)
    BY <1>8 DEF Fits, Sound
  <2>2. CASE again
    <3>1. /\ OnlyLink(E, F) /\ F.link = "connecting" /\ F.pending = NoCid
          /\ F.id = E.id /\ F.w4info = E.w4info
      BY <1>4, <2>1, <2>2 DEF Device, OnlyLink
    <3>2. /\ F.link \in Links /\ F.pending \in Cids(d) \cup {NoCid} /\ F.id \in Nat
          /\ F.w4info \in BOOLEAN
      BY <2>1, <3>1 DEF Device, Links
    <3> QED BY <1>8, <3>1, <3>2, LinkFits
  <2>3. CASE ~again
    <3>1. OnlyLink(E, F) /\ F.link = "none" /\ F.pending = NoCid
      BY <1>4, <2>1, <2>3 DEF Device, OnlyLink
    <3>2. F.id \in Nat /\ F.w4info \in BOOLEAN
      BY <1>4, <2>1, <2>3 DEF Device
    <3>3. F.link \in Links /\ F.pending \in Cids(d) \cup {NoCid}
      BY <3>1 DEF Links
    <3> QED BY <1>8, <3>1, <3>2, <3>3, LinkFits
  <2> QED BY <2>2, <2>3
<1> QED BY <1>5, <1>6, <1>9, LinkStep

LEMMA IdleDisconnectKeeps ==
  ASSUME ChannelInv, NEW d \in Dev, IdleDisconnect(d) PROVE ChannelInv'
<1>1. PICK D : D = dev[d]
  OBVIOUS
<1>2. PICK E : E = [D EXCEPT !.link = "disconnecting"]
  OBVIOUS
<1>3. /\ dev' = [dev EXCEPT ![d] = E] /\ D.link = "connected" /\ D.chans = <<>>
      /\ LoseLink(d, "user")
  BY <1>1, <1>2 DEF IdleDisconnect
<1>4. drops' \in 0..MaxDrop
  <2>1. drops \in 0..MaxDrop /\ drops < MaxDrop /\ drops' = drops + 1 /\ MaxDrop \in Nat
    BY DeviceAssumption DEF IdleDisconnect, ChannelInv
  <2> QED BY <2>1
<1>5. Fits(d, D) /\ Sound(d, D) /\ Device(d, D) /\ D.out = <<>>
  BY <1>1, HostIs DEF ChannelInv
<1>6. \A c \in Cids(d) : ~Accepted(D, c)
  BY <1>3, <1>5 DEF Sound, Pool, ToSet, Accepted
<1>7. /\ OnlyLink(D, E) /\ E.link = "disconnecting" /\ E.pending = D.pending
      /\ E.id = D.id /\ E.w4info = D.w4info
  BY <1>2, <1>5 DEF Device, OnlyLink
<1>8. /\ E.link \in Links /\ E.pending \in Cids(d) \cup {NoCid} /\ E.id \in Nat
      /\ E.w4info \in BOOLEAN
  BY <1>5, <1>7 DEF Device, Links
<1>9. Fits(d, E) /\ E.out = <<>>
  <2>1. Fits(d, E)
    BY <1>5, <1>6, <1>7, <1>8, LinkFits
  <2> QED BY <1>5, <1>7, <2>1 DEF OnlyLink
<1>10. DOMAIN dev' = Dev /\ \A e \in Dev : Fits(e, dev'[e]) /\ dev'[e].out = <<>>
  BY <1>3, <1>9 DEF ChannelInv
<1> QED BY <1>3, <1>4, <1>10, LoseStep

LEMMA LinkBreaksKeeps ==
  ASSUME ChannelInv, LinkBreaks PROVE ChannelInv'
<1>1. LoseLink(A, "other") /\ dev' = dev /\ A \in Dev
  BY DEF LinkBreaks, Dev
<1>2. drops' \in 0..MaxDrop
  <2>1. drops \in 0..MaxDrop /\ drops < MaxDrop /\ drops' = drops + 1 /\ MaxDrop \in Nat
    BY DeviceAssumption DEF LinkBreaks, ChannelInv
  <2> QED BY <2>1
<1>3. DOMAIN dev' = Dev /\ \A e \in Dev : Fits(e, dev'[e]) /\ dev'[e].out = <<>>
  BY <1>1 DEF ChannelInv
<1> QED BY <1>1, <1>2, <1>3, LoseStep

-----------------------------------------------------------------------------
(* The invariant of the specification. *)

LEMMA InitFits ==
  ASSUME NEW d \in Dev
  PROVE  Fits(d, InitDev(d)) /\ InitDev(d).out = <<>>
<1> DEFINE D == InitDev(d)
           n == IF d = A THEN PoolA ELSE PoolB
<1>1. n \in Nat /\ Cids(d) = 1..n
  BY DeviceAssumption DEF Cids
<1>2. /\ D.free = [i \in Cids(d) |-> i] /\ D.chans = <<>> /\ D.out = <<>>
      /\ D.app = [c \in Cids(d) |-> {}] /\ D.ccb = [c \in Cids(d) |-> NoCcb]
      /\ D.link \in {"none", "connected"} /\ D.pending = NoCid /\ D.sec = NoCid
      /\ D.delay = FALSE
  BY DEF InitDev
<1>3. D.again = FALSE /\ D.orphan = FALSE /\ D.w4info = FALSE /\ D.id = 0
  BY DEF InitDev
<1>4. DOMAIN D = {"ccb", "free", "chans", "sec", "delay", "again", "orphan", "id",
                  "w4info", "link", "pending", "app", "conns", "cfgs", "out"}
  BY DEF InitDev
<1> HIDE DEF D, n
<1>5. D.free \in Seq(Cids(d)) /\ DOMAIN D.free = Cids(d)
  BY <1>1, <1>2
<1>6. Ccb(NoCcb) /\ NoCcb.used = FALSE
  BY CidsNat DEF Ccb, NoCcb, States
<1>7. Device(d, D)
  <2>1. \A c \in Cids(d) : Ccb(D.ccb[c])
    BY <1>2, <1>6
  <2>2. D.free \in Seq(Cids(d)) /\ D.chans \in Seq(Cids(d)) /\ D.out \in Seq(Msgs)
    BY <1>2, <1>5
  <2>3. D.app \in [Cids(d) -> SUBSET Duties] /\ DOMAIN D.ccb = Cids(d)
    BY <1>2
  <2>4. D.sec \in Cids(d) \cup {NoCid} /\ D.pending \in Cids(d) \cup {NoCid}
        /\ D.link \in Links
    BY <1>2 DEF Links
  <2>5. D.delay \in BOOLEAN /\ D.again \in BOOLEAN /\ D.orphan \in BOOLEAN
        /\ D.w4info \in BOOLEAN
    BY Zenon, <1>2, <1>3
  <2>6. D.id \in Nat
    BY <1>3
  <2> QED BY <1>4, <2>1, <2>2, <2>3, <2>4, <2>5, <2>6 DEF Device
<1>8. Pool(d, D)
  <2>1. IsInjective(D.free) /\ IsInjective(D.chans)
    BY <1>2, <1>5 DEF IsInjective
  <2>2. ToSet(D.chans) = {} /\ ToSet(D.free) = Cids(d)
    BY <1>2, <1>5 DEF ToSet
  <2>3. \A c \in Cids(d) : D.ccb[c].used = FALSE
    BY <1>2, <1>6
  <2> QED BY <2>1, <2>2, <2>3 DEF Pool
<1>9. \A c \in Cids(d) : D.ccb[c].used = FALSE /\ D.app[c] = {}
  BY <1>2, <1>6
<1>10. Away(d, D) /\ \A c \in Cids(d) : Owned(D, c)
  BY <1>2, <1>9 DEF Away, Owned
<1> QED BY <1>2, <1>7, <1>8, <1>10 DEF Fits, Sound, D

LEMMA InitKeeps == Init => ChannelInv
<1> SUFFICES ASSUME Init PROVE ChannelInv
  OBVIOUS
<1>1. DOMAIN dev = Dev /\ \A d \in Dev : Fits(d, dev[d]) /\ dev[d].out = <<>>
  BY InitFits DEF Init
<1>2. /\ net \in [Dev -> Seq(Msgs)] /\ evt \in [Dev -> {"none", "up", "user", "other"}]
      /\ \A d \in Dev : net[d] = <<>> /\ evt[d] = "none"
  BY DEF Init
<1>3. phys \in BOOLEAN /\ drops \in 0..MaxDrop
  BY DeviceAssumption DEF Init
<1>4. LinkInv
  <2>1. \A d \in Dev : dev[d].link = IF Connected THEN "connected" ELSE "none"
    BY DEF Init, InitDev
  <2> QED BY <1>2, <2>1 DEF Init, LinkInv
<1> QED BY <1>1, <1>2, <1>3, <1>4 DEF ChannelInv

LEMMA NextKeeps == ChannelInv /\ [Next]_vars => ChannelInv'
<1> SUFFICES ASSUME ChannelInv, [Next]_vars PROVE ChannelInv'
  OBVIOUS
<1>1. ASSUME NEW d \in Dev, AppCall(d) PROVE ChannelInv'
  BY <1>1, ConnectReqKeeps, ConnectRspKeeps, ConfigReqKeeps, ConfigRspKeeps,
     DisconnectReqKeeps, DisconnectRspKeeps DEF AppCall, Results
<1>2. ASSUME NEW d \in Dev, Receive(d) PROVE ChannelInv'
  BY <1>2, RecvConnReqKeeps, RecvConnRspKeeps, RecvConfigReqKeeps, RecvConfigRspKeeps,
     RecvDiscReqKeeps, RecvDiscRspKeeps, RecvRejectKeeps, RecvInfoReqKeeps,
     RecvInfoRspKeeps DEF Receive
<1>3. ASSUME NEW d \in Dev, Security(d) PROVE ChannelInv'
  BY <1>3, SecurityAnswerKeeps, EncryptionChangeKeeps DEF Security
<1>4. ASSUME NEW d \in Dev, Link(d) PROVE ChannelInv'
  BY <1>4, PageSucceedsKeeps, PageFailsKeeps, LinkUpKeeps, LinkDownKeeps DEF Link
<1>5. ASSUME NEW d \in Dev, NEW c \in Cids(d), Timeout(d, c) PROVE ChannelInv'
  BY <1>5, TimeoutKeeps
<1>6. ASSUME NEW d \in Dev, InfoTimeout(d) \/ IdleDisconnect(d) PROVE ChannelInv'
  BY <1>6, InfoTimeoutKeeps, IdleDisconnectKeeps
<1>7. CASE LinkBreaks
  BY <1>7, LinkBreaksKeeps
<1>8. CASE UNCHANGED vars
  <2>1. dev' = dev /\ net' = net /\ evt' = evt /\ phys' = phys /\ drops' = drops
    BY <1>8 DEF vars
  <2>2. \A d \in Dev : Fits(d, dev[d])' /\ dev'[d].out = <<>>
    BY <2>1 DEF ChannelInv, Fits, Sound, Device, Pool, Away, Owned
  <2> QED BY <2>1, <2>2 DEF ChannelInv, LinkInv
<1> QED BY <1>1, <1>2, <1>3, <1>4, <1>5, <1>6, <1>7, <1>8 DEF Next

(* The control blocks, the link and what the hosts know of it stay related  *)
(* for every size of the pools and every number of calls and losses.        *)
THEOREM ChannelInvariant == Spec => []ChannelInv
BY InitKeeps, NextKeeps, PTL DEF Spec

(* The records of l2c_int.h keep their types, nothing a handler sent is     *)
(* left behind, and the security manager puts encryption off only while it  *)
(* works for a channel (btm_sec_encrypt_change).                            *)
THEOREM TypeCorrect == Spec => []TypeOK
<1>1. ChannelInv => TypeOK
  <2> SUFFICES ASSUME ChannelInv PROVE TypeOK
    OBVIOUS
  <2>1. ASSUME NEW d \in Dev, NEW c \in Cids(d)
        PROVE  /\ dev[d].ccb[c].st \in States /\ dev[d].ccb[c].cfg \subseteq {"IB", "OB"}
               /\ dev[d].app[c] \subseteq Duties
    <3>1. Ccb(dev[d].ccb[c]) /\ dev[d].app \in [Cids(d) -> SUBSET Duties]
      BY HostIs DEF Device
    <3> QED BY <3>1 DEF Ccb
  <2>2. ASSUME NEW d \in Dev
        PROVE  /\ dev[d].sec \in Cids(d) \cup {NoCid}
               /\ dev[d].delay => dev[d].sec # NoCid
               /\ dev[d].link \in {"none", "connecting", "connected", "disconnecting"}
               /\ dev[d].out = <<>>
    BY HostIs DEF ChannelInv, Fits, Device, Links
  <2> QED BY <2>1, <2>2 DEF ChannelInv, TypeOK
<1> QED BY <1>1, ChannelInvariant, PTL

(* l2cu_allocate_ccb and l2cu_release_ccb never lose, duplicate or mix up a *)
(* control block: each is once on the free list or once on the link's queue, *)
(* whichever its in_use mark says, whatever the handlers do in the loops.   *)
THEOREM PoolConserved == Spec => []PoolIntact
<1>1. ChannelInv => PoolIntact
  <2> SUFFICES ASSUME ChannelInv, NEW d \in Dev
               PROVE  /\ IsInjective(dev[d].free \o dev[d].chans)
                      /\ ToSet(dev[d].chans) = {c \in Cids(d) : dev[d].ccb[c].used}
                      /\ ToSet(dev[d].free) = {c \in Cids(d) : ~dev[d].ccb[c].used}
    BY DEF PoolIntact
  <2>1. PICK D : D = dev[d]
    OBVIOUS
  <2>2. Device(d, D) /\ Pool(d, D)
    BY <2>1, HostIs DEF Sound
  <2>3. D.free \in Seq(Cids(d)) /\ D.chans \in Seq(Cids(d))
    BY <2>2 DEF Device
  <2>4. ToSet(D.chans) \subseteq Cids(d) /\ ToSet(D.free) \subseteq Cids(d)
    BY <2>3 DEF ToSet
  <2>5. /\ ToSet(D.chans) = {c \in Cids(d) : D.ccb[c].used}
        /\ ToSet(D.free) = {c \in Cids(d) : ~D.ccb[c].used}
    BY <2>2, <2>4 DEF Pool
  <2>6. ToSet(D.free) \cap ToSet(D.chans) = {}
    BY <2>5
  <2>7. IsInjective(D.free) /\ IsInjective(D.chans)
    BY <2>2 DEF Pool
  <2>8. IsInjective(D.free \o D.chans)
    BY <2>3, <2>6, <2>7, ConcatInjective
  <2> QED BY <2>1, <2>5, <2>8
<1> QED BY <1>1, ChannelInvariant, PTL

(* An application that holds a CID holds a channel in use, and a channel    *)
(* past the connection indication has an owner: no handler of l2c_csm.c     *)
(* gives a channel back, or moves it on, without telling its user.          *)
THEOREM OwnersInformed == Spec => []OwnerInformed
<1>1. ChannelInv => OwnerInformed
  <2> SUFFICES ASSUME ChannelInv, NEW d \in Dev, NEW c \in Cids(d)
               PROVE  /\ "own" \in dev[d].app[c] => dev[d].ccb[c].used
                      /\ /\ dev[d].ccb[c].used
                         /\ dev[d].ccb[c].st
                              \notin {"TERM_W4_SEC_COMP", "W4_L2CA_CONNECT_RSP"}
                         => "own" \in dev[d].app[c]
    BY DEF OwnerInformed
  <2>1. Owned(dev[d], c)
    BY HostIs
  <2> QED BY <2>1 DEF Owned, Unowned
<1> QED BY <1>1, ChannelInvariant, PTL
=============================================================================
