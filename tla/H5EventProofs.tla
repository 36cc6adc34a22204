---------------------------- MODULE H5EventProofs ----------------------------
(* The way of an event from the controller to the HCI layer: theorems for    *)
(* every number of events, loss, retransmission and schedule.                *)
EXTENDS H5Proofs

(* The vendor code asks for one change of the baud rate, during start-up
   (hardware.c:565), so at most one event answers it. *)
OneBaudAnswer == \A a, b \in Baud : a = b

-----------------------------------------------------------------------------
(* The inductive invariant: m is the last event the host has accepted. *)

Counted(s) == {i \in DOMAIN s : s[i] \notin Baud \cup {Notify}}
Passed(s)  == {s[i] : i \in Counted(s)}
Rising(s)  == \A i, j \in Counted(s) : i < j => s[i] < s[j]
Order      == up \o recvData

(* An event that h5_recv has accepted is on its way to "pass". *)
RxHolds ==
  /\ rxPkt.t = "data" => pc["rx"] \in {"acked", "pass"} \cup Freeing \/ cont["rx"] = "acked"
  /\ pc["rx"] = "pass" => rxPkt.t = "data"

(* What was passed up is in order, and complete unless the controller restarted. *)
PassedUpTo(m) ==
  /\ rxPkt.t = "data" => rxPkt.id = m /\ m # None
  /\ Rising(Order)
  /\ \A e \in Passed(Order) : e \in 1..m /\ (rxPkt.t = "data" => e # m)
  /\ ctlMsgs = 0 => Passed(Order) = (1..(IF rxPkt.t = "data" THEN m - 1 ELSE m)) \ Baud

(* The answer to the baud rate change is held as long as its alarm runs. *)
BaudHeld(m) ==
  /\ armed["baud"] \/ pc["timer"] = "baud"
       => internal \in Baud /\ internal <= m /\ (rxPkt.t = "data" => internal # m)
  /\ ~(armed["baud"] /\ pc["timer"] = "baud")

(* The events on the line are in order, and none that the host would take a
   second time carries the number it expects. *)
LineUpTo(m) ==
  /\ m < ctlNext
  /\ ctlOut # None => ctlOut = ctlNext - 1 /\ (ctlOut = m => ctlSeq # rxseq)
  /\ \A i \in DOMAIN toHost : toHost[i].t = "data" =>
       /\ toHost[i].id \in m..(ctlNext - 1) /\ toHost[i].id # None
       /\ toHost[i].id = m => toHost[i].seq # rxseq
       /\ toHost[i].id = ctlOut => toHost[i].seq = ctlSeq
       /\ \A j \in DOMAIN toHost :
            i < j /\ toHost[j].t = "data" => toHost[i].id < toHost[j].id

(* The controller's stop-and-wait sender: as long as it did not restart, it goes
   on only when the host has accepted its event. *)
StopAndWait(m) ==
  ctlMsgs = 0 =>
    /\ ctlOut = None => ctlNext = m + 1
    /\ ctlNext <= m + 2
    /\ rxseq = IF ctlOut # None /\ ctlOut = m THEN Up(ctlSeq) ELSE ctlSeq
    /\ \A i \in DOMAIN toCtl : toCtl[i].ack \in {ctlSeq, rxseq}
    /\ \A i, j \in DOMAIN toCtl :
         i < j /\ toCtl[i].ack = rxseq => toCtl[j].ack = rxseq
    /\ skb.id # None => skb.ack = rxseq

AcceptedUpTo(m) == PassedUpTo(m) /\ BaudHeld(m) /\ LineUpTo(m) /\ StopAndWait(m)

EventInv == ConfInv /\ RxHolds /\ \E m \in 0..NEvts : AcceptedUpTo(m)

-----------------------------------------------------------------------------
(* Sequences of events *)

LEMMA CountedAppend ==
  ASSUME NEW S, NEW s \in Seq(S), NEW x \in S
  PROVE  /\ x \in Baud \cup {Notify} =>
              /\ Passed(Append(s, x)) = Passed(s)
              /\ Rising(s) => Rising(Append(s, x))
         /\ x \notin Baud \cup {Notify} =>
              /\ Passed(Append(s, x)) = Passed(s) \cup {x}
              /\ Rising(s) /\ (\A e \in Passed(s) : e < x) => Rising(Append(s, x))
<1> DEFINE r == Append(s, x)
           n == Len(s)
           Skip == Baud \cup {Notify}
<1>1. /\ r \in Seq(S) /\ Len(r) = n + 1
      /\ \A i \in 1..n : r[i] = s[i]
      /\ r[n + 1] = x
  BY AppendProperties
<1>2. DOMAIN r = 1..(n + 1) /\ DOMAIN s = 1..n /\ n \in Nat
  BY <1>1, LenProperties
<1>3. Counted(r) = {i \in 1..(n + 1) : r[i] \notin Skip}
      /\ Counted(s) = {i \in 1..n : s[i] \notin Skip}
  BY <1>2 DEF Counted
<1> HIDE DEF r, n, Skip
<1>4. /\ \A i \in 1..n : i \in 1..(n + 1) /\ i # n + 1 /\ i < n + 1
      /\ \A i \in 1..(n + 1) : i \in 1..n \/ i = n + 1
      /\ n + 1 \in 1..(n + 1)
  BY <1>2
<1>5. CASE x \in Skip
  <2>1. Counted(r) = Counted(s) /\ \A i \in Counted(s) : r[i] = s[i]
    BY <1>1, <1>3, <1>4, <1>5
  <2>2. Passed(r) = Passed(s)
    <3>1. \A i \in Counted(s) : r[i] = s[i]
      BY <2>1
    <3> QED BY <2>1, <3>1, Zenon DEF Passed
  <2>3. Rising(s) => Rising(r)
    BY <2>1 DEF Rising
  <2> QED BY <2>2, <2>3, <1>5 DEF r, Skip
<1>6. CASE x \notin Skip
  <2>1. /\ Counted(r) = Counted(s) \cup {n + 1}
        /\ \A i \in Counted(s) : r[i] = s[i] /\ i < n + 1 /\ i \in Nat
    BY <1>1, <1>2, <1>3, <1>4, <1>6
  <2>2. Passed(r) = Passed(s) \cup {x}
    <3>1. ASSUME NEW i \in Counted(r) PROVE r[i] \in Passed(s) \cup {x}
      BY <2>1, <1>1 DEF Passed
    <3>2. ASSUME NEW i \in Counted(s) PROVE s[i] \in Passed(r)
      BY <2>1 DEF Passed
    <3>3. x \in Passed(r)
      BY <2>1, <1>1 DEF Passed
    <3> QED BY <3>1, <3>2, <3>3 DEF Passed
  <2>3. ASSUME Rising(s), \A e \in Passed(s) : e < x
        PROVE  Rising(r)
    <3>1. ASSUME NEW i \in Counted(s), NEW j \in Counted(s), i < j PROVE r[i] < r[j]
      BY <2>1, <2>3, <3>1 DEF Rising
    <3>2. ASSUME NEW i \in Counted(s) PROVE r[i] < r[n + 1]
      BY <1>1, <2>1, <2>3 DEF Passed
    <3>3. ASSUME NEW i \in Counted(s) PROVE ~(n + 1 < i)
      BY <2>1, <1>2
    <3>4. ~(n + 1 < n + 1)
      BY <1>2
    <3> QED BY <2>1, <3>1, <3>2, <3>3, <3>4 DEF Rising
  <2> QED BY <1>6, <2>2, <2>3 DEF r, Skip
<1> QED BY <1>5, <1>6 DEF r, Skip

(* data_ready_cb_thread moves the boundary of Order, the others append to it. *)
LEMMA OrderAppends ==
  ASSUME TypeOK, NEW x \in 0..Notify, up' = up, recvData' = Append(recvData, x)
  PROVE  Order \in Seq(0..Notify) /\ Order' = Append(Order, x)
<1> DEFINE S == 0..Notify
<1>1. up \in Seq(S) /\ recvData \in Seq(S) /\ x \in S
  BY DEF TypeOK
<1> HIDE DEF S
<1>2. up \o recvData \in Seq(S) /\ <<x>> \in Seq(S)
  BY <1>1, ConcatProperties
<1>3. /\ Append(recvData, x) = recvData \o <<x>>
      /\ Append(up \o recvData, x) = (up \o recvData) \o <<x>>
  BY <1>1, <1>2, AppendIsConcat
<1>4. (up \o recvData) \o <<x>> = up \o (recvData \o <<x>>)
  BY <1>1, <1>2, ConcatAssociative
<1> QED BY <1>2, <1>3, <1>4 DEF Order, S

LEMMA OrderDataReady ==
  ASSUME TypeOK, DataReady
  PROVE  Order' = Order
<1> DEFINE S == 0..Notify
           x == Head(recvData)
           r == Tail(recvData)
<1>1. up \in Seq(S) /\ recvData \in Seq(S) /\ recvData # <<>> /\ x \in S /\ r \in Seq(S)
  BY HeadTail DEF TypeOK, DataReady
<1>2. recvData = <<x>> \o r
  <2>1. /\ <<x>> \in Seq(S) /\ Len(<<x>>) = 1 /\ <<x>>[1] = x
        /\ recvData[1] = x /\ Len(r) = Len(recvData) - 1
        /\ \A i \in 1..Len(r) : r[i] = recvData[i + 1]
    BY <1>1, HeadTailProperties
  <2>2. Len(recvData) \in Nat /\ Len(r) \in Nat
    BY <1>1, LenProperties
  <2> HIDE DEF S, x, r
  <2>3. /\ <<x>> \o r \in Seq(S) /\ Len(<<x>> \o r) = Len(recvData)
        /\ \A i \in 1..Len(recvData) : (<<x>> \o r)[i] = IF i <= 1 THEN <<x>>[i] ELSE r[i - 1]
    <3>1. /\ <<x>> \o r \in Seq(S) /\ Len(<<x>> \o r) = 1 + Len(r)
          /\ \A i \in 1..(1 + Len(r)) : (<<x>> \o r)[i] = IF i <= 1 THEN <<x>>[i] ELSE r[i - 1]
      BY <1>1, <2>1, ConcatProperties
    <3>2. 1 + Len(r) = Len(recvData)
      BY <2>1, <2>2
    <3> QED BY <3>1, <3>2
  <2>4. ASSUME NEW i \in 1..Len(recvData) PROVE recvData[i] = (<<x>> \o r)[i]
    <3>1. CASE i = 1
      BY <2>1, <2>3, <3>1
    <3>2. CASE i # 1
      <4>1. i - 1 \in 1..Len(r) /\ (i - 1) + 1 = i /\ ~(i <= 1)
        BY <2>1, <2>2, <3>2
      <4> QED BY <2>1, <2>3, <4>1
    <3> QED BY <3>1, <3>2
  <2> QED BY <1>1, <2>3, <2>4, SeqEqual
<1>3. up' = Append(up, x) /\ recvData' = r
  BY DEF DataReady
<1> HIDE DEF S, x, r
<1>4. Append(up, x) = up \o <<x>> /\ <<x>> \in Seq(S)
  BY <1>1, AppendIsConcat
<1>5. (up \o <<x>>) \o r = up \o (<<x>> \o r)
  BY <1>1, <1>4, ConcatAssociative
<1> QED BY <1>2, <1>3, <1>4, <1>5 DEF Order

LEMMA UpMoves ==
  ASSUME NEW n \in Seqs
  PROVE  Up(n) # n
<1>1. SeqNums \in Nat /\ SeqNums > 1 /\ n \in 0..(SeqNums - 1)
  BY H5Assumption DEF Seqs
<1>2. CASE n + 1 < SeqNums
  <2>1. (n + 1) % SeqNums = n + 1
    BY <1>1, <1>2
  <2> QED BY <1>1, <2>1 DEF Up
<1>3. CASE n + 1 = SeqNums
  <2>1. (n + 1) % SeqNums = 0
    BY <1>1, <1>3
  <2> QED BY <1>1, <1>3, <2>1 DEF Up
<1> QED BY <1>1, <1>2, <1>3

-----------------------------------------------------------------------------
(* RxHolds: the receive task between "acked" and "pass" *)

LEMMA HoldsSame ==
  ASSUME RxHolds, rxPkt' = rxPkt, pc'["rx"] = pc["rx"], cont'["rx"] = cont["rx"]
  PROVE  RxHolds'
BY DEF RxHolds

LEMMA HoldsWakeUp ==
  ASSUME TypeOK, RxHolds, NEW t \in Threads, WakeUp(t)
  PROVE  RxHolds'
<1>a. "rx" \in Threads /\ pc \in [Threads -> Pcs] /\ cont \in [Threads -> Conts]
  BY DEF Threads, TypeOK
<1>1. rxPkt' = rxPkt
  BY DEF WakeUp, Lock, DequeueUnrel, DequeueRel, SendRel, DequeueAck, Unlock
<1>2. pc[t] \in {"lock", "dequeue", "tail"}
  BY DEF WakeUp, Lock, DequeueUnrel, DequeueRel, SendRel, DequeueAck, Unlock
<1>3. CASE Unlock(t)
  <2>1. \A u \in Threads : /\ pc'[u] = IF u = t THEN cont[u] ELSE pc[u]
                           /\ u # t => cont'[u] = cont[u]
    BY <1>3, <1>a DEF Unlock, Goto
  <2>2. cont[t] # "pass"
    BY <1>a DEF Conts
  <2> QED BY <1>a, <1>1, <1>2, <2>1, <2>2 DEF RxHolds, Freeing
<1>4. CASE ~Unlock(t)
  <2>1. cont' = cont /\ (pc' = pc \/ \E w \in {"lock", "dequeue", "tail"} : pc' = [pc EXCEPT ![t] = w])
    BY <1>4 DEF WakeUp, Lock, DequeueUnrel, DequeueRel, SendRel, DequeueAck, Goto
  <2>2. \A u \in Threads : pc'[u] = pc[u] \/ (u = t /\ pc'[u] \in {"lock", "dequeue", "tail"})
    BY <2>1, <1>a
  <2> QED BY <1>a, <1>1, <1>2, <2>1, <2>2 DEF RxHolds, Freeing
<1> QED BY <1>3, <1>4

(* The packet the receive task holds when it is at rest or at "ctl" is no event. *)
LEMMA HoldsNone ==
  ASSUME RxHolds, Pending, pc["rx"] \notin {"acked", "pass", "lock", "dequeue", "tail"} \cup Freeing
  PROVE  rxPkt.t # "data"
BY PendingIdle DEF RxHolds, Threads

LEMMA HoldsRx ==
  ASSUME TypeOK, Pending, RxHolds, RxStep
  PROVE  RxHolds'
<1>a. "rx" \in Threads /\ pc \in [Threads -> Pcs] /\ cont \in [Threads -> Conts]
  BY DEF Threads, TypeOK
<1>n. NoPkt.t # "data"
  BY Sizes, NoPktType
<1>1. CASE RxOutOfOrder \/ RxResync
  <2>1. rxPkt.t # "data" /\ rxPkt' = rxPkt /\ pc'["rx"] = "lock"
    BY <1>1, <1>a, HoldsNone DEF RxOutOfOrder, RxResync, MayRun, WakeUpThen, Goto, Freeing
  <2> QED BY <2>1 DEF RxHolds
<1>2. CASE RxReliable
  <2>1. cont'["rx"] = "acked" /\ pc'["rx"] = "lock"
    BY <1>2, <1>a DEF RxReliable, WakeUpThen, Goto
  <2> QED BY <2>1 DEF RxHolds
<1>3. CASE RxUnreliable
  <2>1. pc'["rx"] = "acked"
    BY <1>3, <1>a DEF RxUnreliable, Goto
  <2> QED BY <2>1 DEF RxHolds
<1>4. CASE RemoveAcked
  <2>1. CASE AckedLock \/ AckedWalk \/ AckedFirst \/ AckedFree \/ RacedFree
    <3>1. rxPkt' = rxPkt /\ pc'["rx"] \in Freeing
      BY <2>1, <1>a DEF AckedLock, AckedWalk, AckedFirst, AckedFree, RacedFree, Goto, Freeing
    <3> QED BY <3>1 DEF RxHolds, Freeing
  <2>2. CASE RxAcked
    <3>1. /\ pc'["rx"] = CASE rxPkt.t \in LinkMsgs -> "ctl" [] rxPkt.t = "data" -> "pass"
                           [] OTHER -> "idle"
          /\ rxPkt' = IF rxPkt.t = "ack" THEN NoPkt ELSE rxPkt
      BY <2>2, <1>a DEF RxAcked, Goto
    <3>2. rxPkt'.t = "data" <=> rxPkt.t = "data"
      BY <1>n, <3>1
    <3>3. pc'["rx"] = "pass" <=> rxPkt.t = "data"
      BY <3>1 DEF LinkMsgs
    <3> QED BY <3>2, <3>3 DEF RxHolds
  <2> QED BY <1>4, <2>1, <2>2 DEF RemoveAcked
<1>5. CASE RxPassUp \/ RxConfResp \/ RxCtlIgnored
  <2>1. rxPkt' = NoPkt /\ pc'["rx"] = "idle"
    BY <1>5, <1>a DEF RxPassUp, RxConfResp, RxCtlIgnored, Goto
  <2> QED BY <1>n, <2>1 DEF RxHolds
<1>6. CASE RxSync \/ RxConf \/ RxSyncActive \/ RxSyncResp
  <2>1. rxPkt' = NoPkt /\ pc'["rx"] = "lock"
    BY <1>6, <1>a DEF RxSync, RxConf, RxSyncActive, RxSyncResp, CtlAnswer, WakeUpThen, Goto
  <2> QED BY <1>n, <2>1 DEF RxHolds
<1>7. CASE RxStartConf \/ StartSync("rx")
  <2>1. rxPkt' = rxPkt /\ pc'["rx"] = "idle" /\ pc["rx"] \in {"startConf", "startSync"}
    BY <1>7, <1>a DEF RxStartConf, StartSync, Goto
  <2> QED BY <2>1, HoldsNone DEF RxHolds, Freeing
<1> QED BY <1>1, <1>2, <1>3, <1>4, <1>5, <1>6, <1>7, <1>a, HoldsWakeUp DEF RxStep

LEMMA HoldsStep ==
  ASSUME ConfInv, RxHolds, [Next]_vars
  PROVE  RxHolds'
<1>a. /\ {"app", "rx", "timer", "retrans"} \subseteq Threads
      /\ TypeOK /\ Pending /\ pc \in [Threads -> Pcs] /\ cont \in [Threads -> Conts]
  BY DEF Threads, ConfInv, TypedInv, TypeOK
<1>1. CASE AppInit \/ AppSend \/ StartSync("app")
  BY <1>1, <1>a, HoldsSame DEF AppInit, AppSend, StartSync, WakeUpThen, Goto
<1>2. CASE RetransStart \/ RetransPut \/ RetransDone
  BY <1>2, <1>a, HoldsSame DEF RetransStart, RetransPut, RetransDone, WakeUpThen, Goto
<1>5. CASE RetransTake
  <2>1. rxPkt' = rxPkt /\ cont' = cont
        /\ (pc'["rx"] = pc["rx"] \/ (pc["rx"] \in Freeing /\ pc'["rx"] \in Freeing))
    BY <1>5, <1>a DEF RetransTake, Freeing
  <2> QED BY <2>1 DEF RxHolds, Freeing
<1>3. CASE \/ \E a \in Alarms : Expire(a)
           \/ DataTimeout \/ SyncTimeout \/ ConfTimeout \/ CountRetrans \/ BaudTimeout
  BY <1>3, <1>a, HoldsSame
     DEF Expire, DataTimeout, SyncTimeout, ConfTimeout, CountRetrans, BaudTimeout, WakeUpThen, Goto
<1>4. CASE DataReady \/ CtlStep \/ LineLoses \/ UNCHANGED vars
  <2>1. UNCHANGED <<pc, cont, rxPkt>>
    BY <1>4 DEF DataReady, CtlStep, LineLoses, vars, hostUnchanged, CtlRecvData, CtlRecvOther,
                CtlAck, CtlEvent, CtlResend, CtlSend
  <2> QED BY <2>1, HoldsSame
<1> QED BY <1>1, <1>2, <1>3, <1>4, <1>5, <1>a, HoldsRx, HoldsWakeUp
        DEF Next, AppStep, TimerStep, RetransStep

-----------------------------------------------------------------------------
(* The positions of a sequence that grows or shrinks by one *)

LEMMA AppendIndex ==
  ASSUME NEW S, NEW s \in Seq(S), NEW x \in S
  PROVE  /\ DOMAIN Append(s, x) = DOMAIN s \cup {Len(s) + 1}
         /\ Append(s, x)[Len(s) + 1] = x
         /\ \A i \in DOMAIN s : Append(s, x)[i] = s[i] /\ i < Len(s) + 1
         /\ \A i \in DOMAIN s : ~(Len(s) + 1 < i)
         /\ ~(Len(s) + 1 < Len(s) + 1)
<1> DEFINE r == Append(s, x)
           n == Len(s)
<1>1. /\ r \in Seq(S) /\ Len(r) = n + 1
      /\ \A i \in 1..n : r[i] = s[i]
      /\ r[n + 1] = x
  BY AppendProperties
<1>2. DOMAIN r = 1..(n + 1) /\ DOMAIN s = 1..n /\ n \in Nat
  BY <1>1, LenProperties
<1> HIDE DEF r, n
<1>3. 1..(n + 1) = (1..n) \cup {n + 1} /\ \A i \in 1..n : i < n + 1 /\ ~(n + 1 < i)
  BY <1>2
<1>4. ~(n + 1 < n + 1)
  BY <1>2
<1> QED BY <1>1, <1>2, <1>3, <1>4 DEF r, n

LEMMA TailIndex ==
  ASSUME NEW S, NEW s \in Seq(S), s # <<>>
  PROVE  /\ Head(s) = s[1] /\ 1 \in DOMAIN s
         /\ \A i \in DOMAIN Tail(s) : i \in Nat /\ i + 1 \in DOMAIN s /\ Tail(s)[i] = s[i + 1] /\ 1 < i + 1
         /\ \A i, j \in DOMAIN Tail(s) : i < j => i + 1 < j + 1
<1> DEFINE r == Tail(s)
           n == Len(s)
<1>1. /\ r \in Seq(S) /\ Len(r) = n - 1
      /\ \A i \in 1..Len(r) : r[i] = s[i + 1]
  BY HeadTailProperties
<1>2. DOMAIN r = 1..(n - 1) /\ DOMAIN s = 1..n /\ n \in Nat /\ n > 0 /\ Head(s) = s[1]
  BY <1>1, LenProperties, EmptySeq
<1> HIDE DEF r, n
<1>3. 1 \in 1..n /\ \A i \in 1..(n - 1) : i \in Nat /\ i + 1 \in 1..n /\ 1 < i + 1
  BY <1>2
<1>4. \A i, j \in 1..(n - 1) : i < j => i + 1 < j + 1
  BY <1>2
<1> QED BY <1>1, <1>2, <1>3, <1>4 DEF r

-----------------------------------------------------------------------------
(* What leaves each part of the invariant alone *)

LEMMA PassedSame ==
  ASSUME NEW m, PassedUpTo(m), Order' = Order, rxPkt' = rxPkt, ctlMsgs' = 0 => ctlMsgs = 0
  PROVE  PassedUpTo(m)'
BY DEF PassedUpTo, Rising, Passed, Counted

LEMMA OrderSame ==
  ASSUME UNCHANGED <<up, recvData>>
  PROVE  Order' = Order
BY DEF Order

LEMMA BaudSame ==
  ASSUME NEW m, BaudHeld(m), armed'["baud"] = armed["baud"],
         pc'["timer"] = "baud" <=> pc["timer"] = "baud",
         internal' = internal, rxPkt'.t = "data" => rxPkt.t = "data"
  PROVE  BaudHeld(m)'
BY DEF BaudHeld

(* The controller writes what is no event; its event may be acknowledged or lost. *)
LEMMA LineSent ==
  ASSUME TypeOK, NEW m \in 0..NEvts, LineUpTo(m), rxseq' = rxseq, ctlNext' = ctlNext,
         UNCHANGED <<ctlOut, ctlSeq>> \/ ctlOut' = None,
         toHost' = toHost
           \/ \E p \in Packets(NEvts) : p.t # "data" /\ toHost' = Append(toHost, p)
  PROVE  LineUpTo(m)'
<1>a. toHost \in Seq(Packets(NEvts))
  BY DEF TypeOK
<1>1. CASE toHost' = toHost
  BY <1>1 DEF LineUpTo
<1>2. ASSUME NEW p \in Packets(NEvts), p.t # "data", toHost' = Append(toHost, p)
      PROVE  LineUpTo(m)'
  <2> DEFINE n == Len(toHost) + 1
  <2>1. /\ DOMAIN toHost' = DOMAIN toHost \cup {n} /\ toHost'[n] = p
        /\ \A i \in DOMAIN toHost : toHost'[i] = toHost[i]
    BY <1>a, <1>2, AppendIndex
  <2> HIDE DEF n
  <2>2. \A i \in DOMAIN toHost' : toHost'[i].t = "data" => i \in DOMAIN toHost /\ toHost'[i] = toHost[i]
    BY <1>2, <2>1
  <2> QED BY <2>2 DEF LineUpTo
<1> QED BY <1>1, <1>2

(* The head of the line is taken by the host or lost. *)
LEMMA LineTail ==
  ASSUME TypeOK, NEW m \in 0..NEvts, LineUpTo(m), toHost # <<>>, toHost' = Tail(toHost),
         UNCHANGED <<rxseq, ctlNext, ctlOut, ctlSeq>>
  PROVE  LineUpTo(m)'
<1>a. toHost \in Seq(Packets(NEvts))
  BY DEF TypeOK
<1>1. /\ \A i \in DOMAIN toHost' : i + 1 \in DOMAIN toHost /\ toHost'[i] = toHost[i + 1]
      /\ \A i, j \in DOMAIN toHost' : i < j => i + 1 < j + 1
  BY <1>a, TailIndex
<1> QED BY <1>1 DEF LineUpTo

LEMMA LineSame ==
  ASSUME NEW m, LineUpTo(m), UNCHANGED <<toHost, rxseq, ctlNext, ctlOut, ctlSeq>>
  PROVE  LineUpTo(m)'
BY DEF LineUpTo

LEMMA WaitSame ==
  ASSUME NEW m, StopAndWait(m), UNCHANGED <<toCtl, skb, rxseq, ctlNext, ctlOut, ctlSeq>>,
         ctlMsgs' = 0 => ctlMsgs = 0
  PROVE  StopAndWait(m)'
BY DEF StopAndWait

(* The host writes a packet with its present acknowledgement. *)
LEMMA WaitAppend ==
  ASSUME TypeOK, NEW m, StopAndWait(m), UNCHANGED <<rxseq, ctlNext, ctlOut, ctlSeq, ctlMsgs>>,
         NEW p \in Packets(NPkts), ctlMsgs = 0 => p.ack = rxseq, toCtl' = Append(toCtl, p),
         skb' = skb \/ skb'.id = None
  PROVE  StopAndWait(m)'
<1>a. toCtl \in Seq(Packets(NPkts))
  BY DEF TypeOK
<1> DEFINE n == Len(toCtl) + 1
<1>1. /\ DOMAIN toCtl' = DOMAIN toCtl \cup {n} /\ toCtl'[n] = p
      /\ \A i \in DOMAIN toCtl : toCtl'[i] = toCtl[i] /\ i < n /\ ~(n < i)
      /\ ~(n < n)
  BY <1>a, AppendIndex
<1> HIDE DEF n
<1> QED BY <1>1 DEF StopAndWait

LEMMA WaitTail ==
  ASSUME TypeOK, NEW m, StopAndWait(m), UNCHANGED <<rxseq, ctlNext, ctlOut, ctlSeq, ctlMsgs, skb>>,
         toCtl # <<>>, toCtl' = Tail(toCtl)
  PROVE  StopAndWait(m)'
<1>a. toCtl \in Seq(Packets(NPkts))
  BY DEF TypeOK
<1>1. /\ \A i \in DOMAIN toCtl' : i + 1 \in DOMAIN toCtl /\ toCtl'[i] = toCtl[i + 1]
      /\ \A i, j \in DOMAIN toCtl' : i < j => i + 1 < j + 1
  BY <1>a, TailIndex
<1> QED BY <1>1 DEF StopAndWait

(* The controller takes the head; an acknowledgement of its event is the
   host's present one, and so are all that follow it on the line. *)
LEMMA WaitTake ==
  ASSUME TypeOK, NEW m \in 0..NEvts, LineUpTo(m), StopAndWait(m),
         UNCHANGED <<rxseq, ctlNext, ctlMsgs, skb>>,
         toCtl # <<>>, toCtl' = Tail(toCtl), CtlTakeAck(Head(toCtl))
  PROVE  StopAndWait(m)'
<1>a. toCtl \in Seq(Packets(NPkts)) /\ ctlSeq \in Seqs
  BY DEF TypeOK
<1>1. /\ Head(toCtl) = toCtl[1] /\ 1 \in DOMAIN toCtl
      /\ \A i \in DOMAIN toCtl' : i + 1 \in DOMAIN toCtl /\ toCtl'[i] = toCtl[i + 1] /\ 1 < i + 1
  BY <1>a, TailIndex
<1>2. CASE UNCHANGED <<ctlOut, ctlSeq>>
  BY <1>2, WaitTail
<1>3. CASE /\ ctlOut # None /\ Head(toCtl).ack = Up(ctlSeq)
           /\ ctlOut' = None /\ ctlSeq' = Up(ctlSeq)
  <2> SUFFICES ASSUME ctlMsgs = 0 PROVE StopAndWait(m)'
    BY DEF StopAndWait
  <2>1. Up(ctlSeq) # ctlSeq
    BY <1>a, UpMoves
  <2>2. rxseq = Up(ctlSeq) /\ ctlOut = m
    BY <1>1, <1>3, <2>1 DEF StopAndWait
  <2>3. \A i \in DOMAIN toCtl' : toCtl'[i].ack = rxseq
    BY <1>1, <1>3, <2>2 DEF StopAndWait
  <2>4. ctlNext = m + 1
    <3>1. ctlOut = ctlNext - 1 /\ ctlNext \in Nat
      BY <1>3 DEF LineUpTo, TypeOK
    <3> QED BY <2>2, <3>1
  <2> QED BY <1>3, <2>2, <2>3, <2>4 DEF StopAndWait
<1> QED BY <1>2, <1>3 DEF CtlTakeAck

-----------------------------------------------------------------------------
(* The steps *)

AcceptedSame(m) ==
  /\ UNCHANGED <<rxPkt, internal, toHost, rxseq, ctlNext, ctlOut, ctlSeq, ctlMsgs, toCtl, skb>>
  /\ Order' = Order
  /\ armed'["baud"] = armed["baud"]
  /\ pc'["timer"] = "baud" <=> pc["timer"] = "baud"

LEMMA AcceptedKept ==
  ASSUME NEW m, AcceptedUpTo(m), AcceptedSame(m)
  PROVE  AcceptedUpTo(m)'
BY PassedSame, BaudSame, LineSame, WaitSame DEF AcceptedUpTo, AcceptedSame

(* h5_wake_up writes to the line with the acknowledgement of the moment: the
   receive task changes rxseq only when no thread is inside. *)
LEMMA AcceptedWakeUp ==
  ASSUME TypeOK, OnePlaceInv, NEW m \in 0..NEvts, AcceptedUpTo(m), NEW t \in Threads, WakeUp(t)
  PROVE  AcceptedUpTo(m)'
<1>a. /\ "timer" \in Threads /\ Alarms = {"data", "sync", "conf", "baud"}
      /\ pc \in [Threads -> Pcs] /\ cont \in [Threads -> Conts] /\ armed \in [Alarms -> BOOLEAN]
  BY DEF Threads, Alarms, TypeOK
<1>1. UNCHANGED <<up, recvData, rxPkt, internal, toHost, rxseq, ctlNext, ctlOut, ctlSeq, ctlMsgs>>
  BY DEF WakeUp, Lock, DequeueUnrel, DequeueRel, SendRel, DequeueAck, Unlock, upVars, ctlVars
<1>2. armed'["baud"] = armed["baud"]
  <2>1. armed' = armed \/ armed' = [armed EXCEPT !["data"] = TRUE]
    BY DEF WakeUp, Lock, DequeueUnrel, DequeueRel, SendRel, DequeueAck, Unlock, timVars, Arm
  <2> QED BY <1>a, <2>1
<1>3. pc[t] \in {"lock", "dequeue", "tail"}
  BY DEF WakeUp, Lock, DequeueUnrel, DequeueRel, SendRel, DequeueAck, Unlock
<1>4. pc'["timer"] = "baud" <=> pc["timer"] = "baud"
  <2>1. pc' = pc \/ \E w \in Conts \cup {"dequeue", "tail"} : pc' = [pc EXCEPT ![t] = w]
    BY <1>a DEF WakeUp, Lock, DequeueUnrel, DequeueRel, SendRel, DequeueAck, Unlock, Goto
  <2>2. \A w \in Conts \cup {"dequeue", "tail"} : w # "baud"
    BY DEF Conts
  <2> QED BY <1>a, <1>3, <2>1, <2>2
<1>5. PassedUpTo(m)' /\ BaudHeld(m)' /\ LineUpTo(m)'
  BY <1>1, <1>2, <1>4, OrderSame, PassedSame, BaudSame, LineSame DEF AcceptedUpTo
<1>6. StopAndWait(m)'
  <2>0. StopAndWait(m)
    BY DEF AcceptedUpTo
  <2>1. CASE Lock(t) \/ Unlock(t)
    <3>1. UNCHANGED <<toCtl, skb>>
      BY <2>1 DEF Lock, Unlock
    <3> QED BY <1>1, <2>0, <3>1, WaitSame
  <2>2. CASE DequeueRel(t)
    <3>1. toCtl' = toCtl /\ skb' = Packet("data", txseq, rxseq, Head(rel))
      BY <2>2 DEF DequeueRel
    <3>2. skb'.ack = rxseq
      BY <3>1 DEF Packet
    <3> QED BY <1>1, <2>0, <3>1, <3>2 DEF StopAndWait
  <2>3. CASE SendRel(t)
    <3>1. toCtl' = Append(toCtl, skb) /\ skb' = NoPkt /\ skb \in Packets(NPkts) /\ pc[t] = "tail"
      BY <2>3 DEF SendRel, TypeOK
    <3>2. skb.id # None /\ skb'.id = None
      BY <3>1, NoPktType, Sizes DEF OnePlaceInv, Holder
    <3>3. ctlMsgs = 0 => skb.ack = rxseq
      BY <2>0, <3>2 DEF StopAndWait
    <3> QED BY <1>1, <2>0, <3>1, <3>2, <3>3, WaitAppend
  <2>4. CASE DequeueUnrel(t)
    <3> DEFINE p == Packet(Head(unrel), 0, rxseq, None)
    <3>1. toCtl' = Append(toCtl, p) /\ skb' = skb
      BY <2>4 DEF DequeueUnrel
    <3>2. Head(unrel) \in LinkMsgs
      BY <2>4, HeadTail DEF TypeOK, DequeueUnrel
    <3>3. p \in Packets(NPkts)
      BY <3>2, Sizes, SeqsClosed, PacketType DEF TypeOK
    <3>4. p.ack = rxseq
      BY DEF Packet
    <3> HIDE DEF p
    <3> QED BY <1>1, <2>0, <3>1, <3>3, <3>4, WaitAppend
  <2>5. CASE DequeueAck(t)
    <3> DEFINE p == Packet("ack", 0, rxseq, None)
    <3>1. toCtl' = Append(toCtl, p) /\ skb' = skb
      BY <2>5 DEF DequeueAck
    <3>2. p \in Packets(NPkts)
      BY Sizes, SeqsClosed, PacketType DEF TypeOK
    <3>3. p.ack = rxseq
      BY DEF Packet
    <3> HIDE DEF p
    <3> QED BY <1>1, <2>0, <3>1, <3>2, <3>3, WaitAppend
  <2> QED BY <2>1, <2>2, <2>3, <2>4, <2>5 DEF WakeUp
<1> QED BY <1>5, <1>6 DEF AcceptedUpTo

(* h5_recv accepts the expected event: it is the next one. *)
LEMMA AcceptedNext ==
  ASSUME TypeOK, OnePlaceInv, Pending, RxHolds, NEW m \in 0..NEvts, AcceptedUpTo(m), RxReliable
  PROVE  \E k \in 0..NEvts : AcceptedUpTo(k)'
<1> DEFINE p == Head(toHost)
<1>1. /\ toHost # <<>> /\ toHost' = Tail(toHost) /\ p.t = "data" /\ p.seq = rxseq /\ mutex = "none"
      /\ rxPkt' = p /\ rxseq' = Up(rxseq) /\ pc["rx"] = "idle"
      /\ UNCHANGED <<up, recvData, internal, toCtl, skb, ctlNext, ctlOut, ctlSeq, ctlMsgs, armed>>
  BY DEF RxReliable, Expected, MayRun, upVars, ctlVars, timVars
<1>2. toHost \in Seq(Packets(NEvts)) /\ p \in Packets(NEvts) /\ rxseq \in Seqs /\ ctlSeq \in Seqs
  BY <1>1, HeadTail DEF TypeOK
<1>3. pc'["timer"] = pc["timer"]
  BY DEF RxReliable, WakeUpThen, Goto, TypeOK, Threads
<1>4. /\ p = toHost[1] /\ 1 \in DOMAIN toHost
      /\ \A i \in DOMAIN toHost' : i + 1 \in DOMAIN toHost /\ toHost'[i] = toHost[i + 1] /\ 1 < i + 1
      /\ \A i, j \in DOMAIN toHost' : i < j => i + 1 < j + 1
  BY <1>1, <1>2, TailIndex
<1>5. rxPkt.t # "data"
  BY <1>1, HoldsNone DEF Freeing
<1>6. skb.id = None
  BY <1>1 DEF OnePlaceInv, Holder, Threads, Holding
<1>0. PICK k \in 0..NEvts : k = p.id
  BY <1>2, Sizes, PacketFields
<1> HIDE DEF p
<1>7. /\ k \in m..(ctlNext - 1) /\ k # None /\ k # m /\ (k = ctlOut => rxseq = ctlSeq)
      /\ \A j \in DOMAIN toHost : 1 < j /\ toHost[j].t = "data" => k < toHost[j].id
  BY <1>0, <1>1, <1>4 DEF AcceptedUpTo, LineUpTo
<1>8. k \in 1..NEvts /\ m < k /\ k < ctlNext /\ ctlNext \in Nat /\ k \in 0..NEvts
  <2>1. ctlNext \in 1..(NEvts + 1) /\ NEvts \in Nat
    BY Sizes DEF TypeOK
  <2> QED BY <1>7, <2>1 DEF None
<1>9. Up(rxseq) # rxseq
  BY <1>2, UpMoves
<1>10. PassedUpTo(k)'
  <2>1. Order' = Order
    BY <1>1, OrderSame
  <2>2. ctlMsgs = 0 => k = m + 1
    <3> SUFFICES ASSUME ctlMsgs = 0 PROVE k = m + 1
      OBVIOUS
    <3>1. ctlNext <= m + 2
      BY DEF AcceptedUpTo, StopAndWait
    <3> QED BY <1>8, <3>1
  <2>3. /\ Rising(Order)
        /\ \A e \in Passed(Order) : e \in 1..m
        /\ ctlMsgs = 0 => Passed(Order) = (1..m) \ Baud
    BY <1>5 DEF AcceptedUpTo, PassedUpTo
  <2>4. \A e \in Passed(Order) : e \in 1..k /\ e # k
    BY <1>8, <2>3
  <2>5. ctlMsgs = 0 => Passed(Order) = (1..(k - 1)) \ Baud
    BY <1>8, <2>2, <2>3
  <2>6. Rising(Order') /\ Passed(Order') = Passed(Order)
    BY <2>1, <2>3
  <2>7. rxPkt'.id = k /\ rxPkt'.t = "data" /\ k # None
    BY <1>0, <1>1, <1>7
  <2> QED BY <1>1, <2>4, <2>5, <2>6, <2>7 DEF PassedUpTo, Rising, Passed, Counted
<1>11. BaudHeld(k)'
  <2>1. \A b \in Baud : b \in Nat /\ b <= m => b <= k /\ b # k
    BY <1>8
  <2>2. \A b \in Baud : b \in Nat
    BY H5Assumption
  <2> QED BY <1>1, <1>3, <1>8, <2>1, <2>2 DEF AcceptedUpTo, BaudHeld
<1>12. LineUpTo(k)'
  <2>1. ASSUME ctlOut # None PROVE ctlOut = ctlNext - 1 /\ (ctlOut = k => ctlSeq # rxseq')
    BY <1>1, <1>7, <1>9, <2>1 DEF AcceptedUpTo, LineUpTo
  <2>2. ASSUME NEW i \in DOMAIN toHost', toHost'[i].t = "data"
        PROVE  /\ toHost'[i].id \in k..(ctlNext - 1) /\ toHost'[i].id # None /\ toHost'[i].id # k
               /\ toHost'[i].id = ctlOut => toHost'[i].seq = ctlSeq
               /\ \A j \in DOMAIN toHost' :
                    i < j /\ toHost'[j].t = "data" => toHost'[i].id < toHost'[j].id
    <3>1. k < toHost[i + 1].id /\ i + 1 \in DOMAIN toHost /\ toHost'[i] = toHost[i + 1]
      BY <1>4, <1>7, <2>2
    <3>2. /\ toHost[i + 1].id \in m..(ctlNext - 1) /\ toHost[i + 1].id # None
          /\ toHost[i + 1].id = ctlOut => toHost[i + 1].seq = ctlSeq
          /\ \A j \in DOMAIN toHost :
                    i + 1 < j /\ toHost[j].t = "data" => toHost[i + 1].id < toHost[j].id
      BY <2>2, <3>1 DEF AcceptedUpTo, LineUpTo
    <3>3. toHost[i + 1].id \in k..(ctlNext - 1) /\ toHost[i + 1].id # k
      BY <1>8, <3>1, <3>2
    <3>4. \A j \in DOMAIN toHost' :
             i < j /\ toHost'[j].t = "data" => toHost'[i].id < toHost'[j].id
      BY <1>4, <3>1, <3>2
    <3> QED BY <3>1, <3>2, <3>3, <3>4
  <2> QED BY <1>1, <1>8, <2>1, <2>2 DEF LineUpTo
<1>13. StopAndWait(k)'
  <2> SUFFICES ASSUME ctlMsgs' = 0 PROVE StopAndWait(k)'
    BY DEF StopAndWait
  <2>1. /\ ctlOut = None => ctlNext = m + 1
        /\ ctlNext <= m + 2
        /\ rxseq = IF ctlOut # None /\ ctlOut = m THEN Up(ctlSeq) ELSE ctlSeq
        /\ \A i \in DOMAIN toCtl : toCtl[i].ack \in {ctlSeq, rxseq}
    BY <1>1 DEF AcceptedUpTo, StopAndWait
  <2>2. k = m + 1 /\ ctlNext = m + 2 /\ ctlOut # None
    BY <1>8, <2>1
  <2>3. ctlOut = k
    <3>1. ctlOut = ctlNext - 1
      BY <2>2 DEF AcceptedUpTo, LineUpTo
    <3> QED BY <2>2, <3>1, <1>8
  <2>4. rxseq = ctlSeq
    BY <1>7, <2>3
  <2>5. \A i \in DOMAIN toCtl : toCtl[i].ack = ctlSeq
    BY <2>1, <2>4
  <2>6. rxseq' = Up(ctlSeq) /\ Up(ctlSeq) # ctlSeq
    BY <1>1, <1>9, <2>4
  <2>7. ctlNext <= k + 2
    BY <1>8, <2>2
  <2> QED BY <1>1, <1>6, <2>2, <2>3, <2>5, <2>6, <2>7 DEF StopAndWait
<1> QED BY <1>8, <1>10, <1>11, <1>12, <1>13 DEF AcceptedUpTo

(* No event is held before or after. *)
LEMMA PassedNoEvent ==
  ASSUME NEW m, PassedUpTo(m), Order' = Order, ctlMsgs' = ctlMsgs,
         rxPkt.t # "data", rxPkt'.t # "data"
  PROVE  PassedUpTo(m)'
BY DEF PassedUpTo, Rising, Passed, Counted

(* What is passed up besides the events of the controller does not count. *)
LEMMA PassedUncounted ==
  ASSUME TypeOK, NEW m, PassedUpTo(m), NEW x \in Baud \cup {Notify},
         up' = up, recvData' = Append(recvData, x), ctlMsgs' = ctlMsgs,
         rxPkt' = rxPkt \/ (rxPkt.t # "data" /\ rxPkt'.t # "data")
  PROVE  PassedUpTo(m)'
<1>1. x \in 0..Notify
  BY Sizes, H5Assumption
<1>2. Order \in Seq(0..Notify) /\ Order' = Append(Order, x)
  BY <1>1, OrderAppends
<1>3. Passed(Append(Order, x)) = Passed(Order) /\ (Rising(Order) => Rising(Append(Order, x)))
  BY <1>1, <1>2, CountedAppend
<1>4. Passed(Order)' = Passed(Order) /\ (Rising(Order) => Rising(Order)')
  <2>1. Passed(Order)' = Passed(Order') /\ Rising(Order)' = Rising(Order')
    BY DEF Passed, Rising, Counted
  <2> QED BY <1>2, <1>3, <2>1
<1> QED BY <1>4 DEF PassedUpTo

(* h5_complete_rx_pkt passes the accepted event up or holds it back. *)
LEMMA AcceptedPassUp ==
  ASSUME TypeOK, OneBaudAnswer, RxHolds, NEW m \in 0..NEvts, AcceptedUpTo(m), RxPassUp
  PROVE  AcceptedUpTo(m)'
<1>a. /\ "timer" \in Threads /\ Alarms = {"data", "sync", "conf", "baud"}
      /\ pc \in [Threads -> Pcs] /\ armed \in [Alarms -> BOOLEAN]
  BY DEF Threads, Alarms, TypeOK
<1>1. /\ pc["rx"] = "pass" /\ rxPkt' = NoPkt /\ up' = up
      /\ UNCHANGED <<toHost, toCtl, skb, rxseq, ctlNext, ctlOut, ctlSeq, ctlMsgs>>
      /\ pc'["timer"] = pc["timer"]
  BY <1>a DEF RxPassUp, Goto, ctlVars
<1>2. rxPkt.t = "data" /\ rxPkt.id = m /\ m # None /\ rxPkt'.t # "data" /\ m \in 1..NEvts
  BY <1>1, Sizes, NoPktType DEF RxHolds, AcceptedUpTo, PassedUpTo, None
<1>3. LineUpTo(m)' /\ StopAndWait(m)'
  BY <1>1, LineSame, WaitSame DEF AcceptedUpTo
<1>4. /\ Rising(Order)
      /\ \A e \in Passed(Order) : e \in 1..m /\ e # m
      /\ ctlMsgs = 0 => Passed(Order) = (1..(m - 1)) \ Baud
  BY <1>2 DEF AcceptedUpTo, PassedUpTo
<1>5. Passed(Order)' = Passed(Order') /\ Rising(Order)' = Rising(Order')
  BY DEF Passed, Rising, Counted
<1>6. CASE m \in Baud
  <2>1. internal' = m /\ armed' = [armed EXCEPT !["baud"] = TRUE] /\ recvData' = recvData
    BY <1>2, <1>6 DEF RxPassUp, Arm
  <2>2. Order' = Order
    BY <1>1, <2>1, OrderSame
  <2>3. (1..(m - 1)) \ Baud = (1..m) \ Baud
    BY <1>2, <1>6
  <2>4. PassedUpTo(m)'
    BY <1>1, <1>2, <1>4, <1>5, <2>2, <2>3 DEF PassedUpTo
  <2>5. pc["timer"] # "baud"
    BY <1>2, <1>6 DEF AcceptedUpTo, BaudHeld, OneBaudAnswer
  <2>6. BaudHeld(m)'
    BY <1>1, <1>2, <1>6, <2>1, <2>5 DEF BaudHeld
  <2> QED BY <1>3, <2>4, <2>6 DEF AcceptedUpTo
<1>7. CASE m \notin Baud
  <2>1. UNCHANGED <<internal, armed>> /\ recvData' = Append(recvData, m)
    BY <1>2, <1>7 DEF RxPassUp
  <2>2. m \in 0..Notify /\ m # Notify
    BY <1>2, Sizes DEF Notify
  <2>3. Order \in Seq(0..Notify) /\ Order' = Append(Order, m)
    BY <1>1, <2>1, <2>2, OrderAppends
  <2>4. \A e \in Passed(Order) : e < m
    BY <1>2, <1>4
  <2>5. Passed(Order') = Passed(Order) \cup {m} /\ Rising(Order')
    <3>1. /\ Passed(Append(Order, m)) = Passed(Order) \cup {m}
          /\ Rising(Order) /\ (\A e \in Passed(Order) : e < m) => Rising(Append(Order, m))
      <4> DEFINE S == 0..Notify
      <4>1. Order \in Seq(S) /\ m \in S /\ m \notin Baud \cup {Notify}
        BY <1>7, <2>2, <2>3
      <4> HIDE DEF S
      <4> QED BY <4>1, CountedAppend
    <3>2. Rising(Append(Order, m))
      BY <1>4, <2>4, <3>1
    <3> QED BY <2>3, <3>1, <3>2
  <2>6. \A e \in Passed(Order') : e \in 1..m
    BY <1>2, <1>4, <2>5
  <2>7. ctlMsgs = 0 => Passed(Order') = (1..m) \ Baud
    <3>1. 1..m = (1..(m - 1)) \cup {m}
      BY <1>2
    <3> QED BY <1>4, <1>7, <2>5, <3>1
  <2>8. PassedUpTo(m)'
    BY <1>1, <1>2, <1>5, <2>5, <2>6, <2>7 DEF PassedUpTo
  <2>9. BaudHeld(m)'
    BY <1>1, <1>2, <2>1, BaudSame DEF AcceptedUpTo
  <2> QED BY <1>3, <2>8, <2>9 DEF AcceptedUpTo
<1> QED BY <1>6, <1>7

LEMMA AcceptedRx ==
  ASSUME TypeOK, OnePlaceInv, Pending, RxHolds, OneBaudAnswer,
         NEW m \in 0..NEvts, AcceptedUpTo(m), RxStep, ~RxReliable
  PROVE  AcceptedUpTo(m)'
<1>a. /\ "rx" \in Threads /\ "timer" \in Threads /\ Alarms = {"data", "sync", "conf", "baud"}
      /\ pc \in [Threads -> Pcs] /\ cont \in [Threads -> Conts] /\ armed \in [Alarms -> BOOLEAN]
  BY DEF Threads, Alarms, TypeOK
<1>n. NoPkt.t # "data"
  BY Sizes, NoPktType
<1>p. PassedUpTo(m) /\ BaudHeld(m) /\ LineUpTo(m) /\ StopAndWait(m)
  BY DEF AcceptedUpTo
<1>1. CASE RxOutOfOrder
  <2>1. /\ UNCHANGED <<up, recvData, rxPkt, internal, armed, rxseq, ctlNext, ctlOut, ctlSeq,
                       ctlMsgs, toCtl, skb>>
        /\ pc'["timer"] = pc["timer"] /\ toHost # <<>> /\ toHost' = Tail(toHost)
    BY <1>1, <1>a DEF RxOutOfOrder, WakeUpThen, Goto, upVars, ctlVars, timVars
  <2> QED BY <1>p, <2>1, OrderSame, PassedSame, BaudSame, LineTail, WaitSame DEF AcceptedUpTo
<1>2. CASE RxUnreliable
  <2>1. /\ UNCHANGED <<up, recvData, internal, armed, rxseq, ctlNext, ctlOut, ctlSeq,
                       ctlMsgs, toCtl, skb>>
        /\ pc'["timer"] = pc["timer"] /\ toHost # <<>> /\ toHost' = Tail(toHost)
        /\ pc["rx"] = "idle" /\ rxPkt'.t # "data"
    BY <1>2, <1>a DEF RxUnreliable, MayRun, Goto, upVars, ctlVars, timVars
  <2>2. rxPkt.t # "data"
    BY <2>1, HoldsNone DEF Freeing
  <2> QED BY <1>p, <2>1, <2>2, OrderSame, PassedNoEvent, BaudSame, LineTail, WaitSame DEF AcceptedUpTo
<1>3. CASE RemoveAcked
  <2>1. /\ UNCHANGED <<up, recvData, internal, toHost, rxseq, ctlNext, ctlOut, ctlSeq,
                       ctlMsgs, toCtl, skb>>
        /\ pc'["timer"] = pc["timer"]
        /\ rxPkt' = rxPkt \/ rxPkt' = IF rxPkt.t = "ack" THEN NoPkt ELSE rxPkt
    BY <1>3, <1>a DEF RemoveAcked, AckedLock, AckedWalk, AckedFirst, AckedFree, RacedFree,
                      RxAcked, Goto, upVars, ctlVars
  <2>2. armed'["baud"] = armed["baud"]
    <3>1. armed' = armed \/ StopWhenEmpty
      BY <1>3 DEF RemoveAcked, AckedLock, AckedWalk, AckedFirst, AckedFree, RacedFree,
                  RxAcked, timVars
    <3>2. armed' = armed \/ armed' = [armed EXCEPT !["data"] = FALSE]
      BY <3>1, Zenon DEF StopWhenEmpty, Cancel
    <3> QED BY <1>a, <3>2
  <2>3. rxPkt' = rxPkt \/ (rxPkt.t # "data" /\ rxPkt'.t # "data")
    BY <1>n, <2>1
  <2>4. PassedUpTo(m)'
    BY <1>p, <2>1, <2>3, OrderSame, PassedSame, PassedNoEvent
  <2>5. BaudHeld(m)'
    BY <1>p, <2>1, <2>2, <2>3, BaudSame
  <2> QED BY <1>p, <2>1, <2>4, <2>5, LineSame, WaitSame DEF AcceptedUpTo
<1>4. CASE RxSync \/ RxConf \/ RxSyncActive \/ RxSyncResp \/ RxConfResp \/ RxCtlIgnored
  <2>1. /\ UNCHANGED <<up, internal, toHost, rxseq, ctlNext, ctlOut, ctlSeq,
                       ctlMsgs, toCtl, skb>>
        /\ pc'["timer"] = pc["timer"] /\ pc["rx"] = "ctl" /\ rxPkt' = NoPkt
    BY <1>4, <1>a DEF RxSync, RxConf, RxSyncActive, RxSyncResp, RxConfResp, RxCtlIgnored, CtlAnswer,
                WakeUpThen, Goto, upVars, ctlVars
  <2>2. rxPkt.t # "data" /\ rxPkt'.t # "data"
    BY <1>n, <2>1, HoldsNone DEF Freeing
  <2>3. armed'["baud"] = armed["baud"]
    <3>1. armed' = armed \/ (\E a \in {"sync", "conf"} : armed' = [armed EXCEPT ![a] = FALSE])
      BY <1>4 DEF RxSync, RxConf, RxSyncActive, RxSyncResp, RxConfResp, RxCtlIgnored, CtlAnswer,
                  Cancel, timVars
    <3> QED BY <1>a, <3>1
  <2>4. recvData' = recvData \/ recvData' = Append(recvData, Notify)
    BY <1>4 DEF RxSync, RxConf, RxSyncActive, RxSyncResp, RxConfResp, RxCtlIgnored, CtlAnswer, upVars
  <2>5. PassedUpTo(m)'
    <3>1. CASE recvData' = recvData
      BY <1>p, <2>1, <2>2, <3>1, OrderSame, PassedNoEvent
    <3>2. CASE recvData' = Append(recvData, Notify)
      <4>1. Notify \in Baud \cup {Notify}
        OBVIOUS
      <4> QED BY <1>p, <2>1, <2>2, <3>2, <4>1, PassedUncounted
    <3> QED BY <2>4, <3>1, <3>2
  <2>6. BaudHeld(m)'
    BY <1>p, <2>1, <2>2, <2>3, BaudSame
  <2> QED BY <1>p, <2>1, <2>5, <2>6, LineSame, WaitSame DEF AcceptedUpTo
<1>5. CASE RxResync \/ RxStartConf \/ StartSync("rx")
  <2>1. /\ UNCHANGED <<up, recvData, internal, rxPkt, toHost, rxseq, ctlNext, ctlOut, ctlSeq,
                       ctlMsgs, toCtl, skb>>
        /\ pc'["timer"] = pc["timer"]
    BY <1>5, <1>a DEF RxResync, RxStartConf, StartSync, WakeUpThen, Goto, upVars, ctlVars
  <2>2. armed'["baud"] = armed["baud"]
    BY <1>5, <1>a DEF RxResync, RxStartConf, StartSync, Arm, timVars
  <2> QED BY <2>1, <2>2, OrderSame, AcceptedKept DEF AcceptedSame
<1> QED BY <1>1, <1>2, <1>3, <1>4, <1>5, <1>a, AcceptedPassUp, AcceptedWakeUp DEF RxStep

LEMMA AcceptedTimer ==
  ASSUME TypeOK, OnePlaceInv, NEW m \in 0..NEvts, AcceptedUpTo(m), TimerStep
  PROVE  AcceptedUpTo(m)'
<1>a. /\ "timer" \in Threads /\ Alarms = {"data", "sync", "conf", "baud"}
      /\ pc \in [Threads -> Pcs] /\ cont \in [Threads -> Conts] /\ armed \in [Alarms -> BOOLEAN]
  BY DEF Threads, Alarms, TypeOK
<1>p. PassedUpTo(m) /\ BaudHeld(m) /\ LineUpTo(m) /\ StopAndWait(m)
  BY DEF AcceptedUpTo
<1>1. ASSUME NEW a \in Alarms, Expire(a) PROVE AcceptedUpTo(m)'
  <2>1. /\ UNCHANGED <<up, recvData, internal, rxPkt, toHost, rxseq, ctlNext, ctlOut, ctlSeq,
                       ctlMsgs, toCtl, skb>>
        /\ pc["timer"] = "idle" /\ pc'["timer"] = a /\ armed[a]
        /\ armed'["baud"] = (armed["baud"] /\ a # "baud")
    BY <1>1, <1>a DEF Expire, MayRun, Goto, Cancel, upVars, ctlVars
  <2>2. BaudHeld(m)'
    BY <1>p, <2>1 DEF BaudHeld
  <2> QED BY <1>p, <2>1, <2>2, OrderSame, PassedSame, LineSame, WaitSame DEF AcceptedUpTo
<1>2. CASE DataTimeout \/ SyncTimeout \/ ConfTimeout \/ CountRetrans
  <2>1. /\ UNCHANGED <<up, recvData, internal, rxPkt, toHost, rxseq, ctlNext, ctlOut, ctlSeq,
                       ctlMsgs, toCtl, skb>>
        /\ pc["timer"] # "baud" /\ pc'["timer"] # "baud"
    BY <1>2, <1>a DEF DataTimeout, SyncTimeout, ConfTimeout, CountRetrans, WakeUpThen, Goto,
                      upVars, ctlVars
  <2>2. armed'["baud"] = armed["baud"]
    <3>1. \E a \in {"sync", "conf"}, b \in BOOLEAN : armed' = armed \/ armed' = [armed EXCEPT ![a] = b]
      BY <1>2 DEF DataTimeout, SyncTimeout, ConfTimeout, CountRetrans, Arm, Cancel
    <3> QED BY <1>a, <3>1
  <2> QED BY <2>1, <2>2, OrderSame, AcceptedKept DEF AcceptedSame
<1>3. CASE BaudTimeout
  <2>1. /\ UNCHANGED <<up, armed, rxPkt, toHost, rxseq, ctlNext, ctlOut, ctlSeq, ctlMsgs, toCtl, skb>>
        /\ pc["timer"] = "baud" /\ pc'["timer"] = "idle" /\ recvData' = Append(recvData, internal)
    BY <1>3, <1>a DEF BaudTimeout, Goto, ctlVars, timVars
  <2>2. internal \in Baud /\ ~armed["baud"]
    BY <1>p, <2>1 DEF BaudHeld
  <2>3. internal \in Baud \cup {Notify}
    BY <2>2
  <2>4. PassedUpTo(m)'
    BY <1>p, <2>1, <2>3, PassedUncounted
  <2>5. BaudHeld(m)'
    BY <2>1, <2>2 DEF BaudHeld
  <2> QED BY <1>p, <2>1, <2>4, <2>5, LineSame, WaitSame DEF AcceptedUpTo
<1> QED BY <1>1, <1>2, <1>3, <1>a, AcceptedWakeUp DEF TimerStep

(* The app and retransmission threads touch nothing an event passes. *)
LEMMA AcceptedAppRetrans ==
  ASSUME TypeOK, OnePlaceInv, NEW m \in 0..NEvts, AcceptedUpTo(m), AppStep \/ RetransStep
  PROVE  AcceptedUpTo(m)'
<1>a. /\ {"app", "retrans", "timer"} \subseteq Threads /\ Alarms = {"data", "sync", "conf", "baud"}
      /\ pc \in [Threads -> Pcs] /\ cont \in [Threads -> Conts] /\ armed \in [Alarms -> BOOLEAN]
  BY DEF Threads, Alarms, TypeOK
<1>1. CASE AppInit \/ AppSend \/ StartSync("app")
  <2>1. /\ UNCHANGED <<up, recvData, internal, rxPkt, toHost, rxseq, ctlNext, ctlOut, ctlSeq,
                       ctlMsgs, toCtl, skb>>
        /\ pc'["timer"] = pc["timer"]
    BY <1>1, <1>a DEF AppInit, AppSend, StartSync, WakeUpThen, Goto, upVars, ctlVars
  <2>2. armed'["baud"] = armed["baud"]
    BY <1>1, <1>a DEF AppInit, AppSend, StartSync, Arm, timVars
  <2> QED BY <2>1, <2>2, OrderSame, AcceptedKept DEF AcceptedSame
<1>2. CASE RetransStart \/ RetransTake \/ RetransPut \/ RetransDone
  <2>1. /\ UNCHANGED <<up, recvData, internal, rxPkt, toHost, rxseq, ctlNext, ctlOut, ctlSeq,
                       ctlMsgs, toCtl, skb, armed>>
        /\ pc'["timer"] = pc["timer"]
    BY <1>2, <1>a DEF RetransStart, RetransTake, RetransPut, RetransDone, WakeUpThen, Goto,
                      upVars, ctlVars, timVars
  <2> QED BY <2>1, OrderSame, AcceptedKept DEF AcceptedSame
<1> QED BY <1>1, <1>2, <1>a, AcceptedWakeUp DEF AppStep, RetransStep

(* The controller's next event, and the event it sends again. *)
LEMMA AcceptedEvent ==
  ASSUME TypeOK, NEW m \in 0..NEvts, AcceptedUpTo(m), CtlEvent \/ CtlResend
  PROVE  AcceptedUpTo(m)'
<1>p. PassedUpTo(m) /\ BaudHeld(m) /\ LineUpTo(m) /\ StopAndWait(m)
  BY DEF AcceptedUpTo
<1>a. toHost \in Seq(Packets(NEvts)) /\ ctlNext \in Nat /\ ctlNext \in 1..(NEvts + 1) /\ NEvts \in Nat
      /\ ctlOut \in 0..NEvts /\ m \in Nat
  BY Sizes DEF TypeOK
<1> DEFINE k == IF CtlEvent THEN ctlNext ELSE ctlOut
           p == Packet("data", ctlSeq, ctlRx, k)
           n == Len(toHost) + 1
<1>1. /\ UNCHANGED <<up, recvData, internal, rxPkt, rxseq, ctlSeq, ctlMsgs, toCtl, skb, armed, pc>>
      /\ toHost' = Append(toHost, p)
  BY DEF CtlEvent, CtlResend, hostUnchanged, upVars, timVars
<1>2. PassedUpTo(m)' /\ BaudHeld(m)'
  BY <1>p, <1>1, OrderSame, PassedSame, BaudSame
<1>3. k \in 0..NEvts
  BY <1>a DEF CtlEvent
<1>4. p.t = "data" /\ p.seq = ctlSeq /\ p.id = k
  BY DEF Packet
<1>5. p \in Packets(NEvts)
  BY <1>3, Sizes, PacketType DEF TypeOK
<1> HIDE DEF p, k
<1>6. /\ DOMAIN toHost' = DOMAIN toHost \cup {n} /\ toHost'[n] = p
      /\ \A i \in DOMAIN toHost : toHost'[i] = toHost[i] /\ ~(n < i)
      /\ ~(n < n)
  BY <1>a, <1>1, <1>5, AppendIndex
<1> HIDE DEF n
<1>7. CASE CtlEvent
  <2>1. k = ctlNext /\ ctlOut = None /\ ctlOut' = ctlNext /\ ctlNext' = ctlNext + 1
    BY <1>7 DEF CtlEvent, k
  <2>2. m < ctlNext
    BY <1>p DEF LineUpTo
  <2>3. ASSUME NEW i \in DOMAIN toHost', toHost'[i].t = "data"
        PROVE  /\ toHost'[i].id \in m..ctlNext /\ toHost'[i].id # None
               /\ toHost'[i].id = m => toHost'[i].seq # rxseq
               /\ toHost'[i].id = ctlNext => toHost'[i].seq = ctlSeq
               /\ \A j \in DOMAIN toHost' :
                    i < j /\ toHost'[j].t = "data" => toHost'[i].id < toHost'[j].id
    <3>1. CASE i = n
      BY <1>4, <1>6, <1>a, <2>1, <2>2, <3>1 DEF None
    <3>2. CASE i \in DOMAIN toHost
      <4>1. /\ toHost[i].id \in m..(ctlNext - 1) /\ toHost[i].id # None
            /\ toHost[i].id = m => toHost[i].seq # rxseq
            /\ \A j \in DOMAIN toHost : i < j /\ toHost[j].t = "data" => toHost[i].id < toHost[j].id
        BY <1>p, <1>6, <2>3, <3>2 DEF LineUpTo
      <4>2. toHost[i].id \in m..ctlNext /\ toHost[i].id < ctlNext
        BY <4>1, <1>a
      <4>3. \A j \in DOMAIN toHost' :
              i < j /\ toHost'[j].t = "data" => toHost[i].id < toHost'[j].id
        BY <1>4, <1>6, <2>1, <4>1, <4>2
      <4>4. toHost[i].id # ctlNext
        BY <4>2, <1>a
      <4> QED BY <1>6, <3>2, <4>1, <4>2, <4>3, <4>4
    <3> QED BY <1>6, <3>1, <3>2
  <2>4. LineUpTo(m)'
    <3>1. m < ctlNext + 1 /\ ctlNext = (ctlNext + 1) - 1 /\ ctlNext # m
      BY <2>2, <1>a
    <3> QED BY <1>1, <2>1, <2>3, <3>1 DEF LineUpTo
  <2>5. StopAndWait(m)'
    <3> SUFFICES ASSUME ctlMsgs = 0 PROVE StopAndWait(m)'
      BY <1>1 DEF StopAndWait
    <3>1. ctlNext = m + 1 /\ rxseq = ctlSeq
      BY <1>p, <2>1 DEF StopAndWait
    <3>2. ctlNext + 1 <= m + 2 /\ ctlNext # m /\ ctlNext # None
      BY <3>1, <1>a DEF None
    <3> QED BY <1>p, <1>1, <2>1, <3>1, <3>2 DEF StopAndWait
  <2> QED BY <1>2, <2>4, <2>5 DEF AcceptedUpTo
<1>8. CASE ~CtlEvent
  <2>1. k = ctlOut /\ ctlOut # None /\ UNCHANGED <<ctlOut, ctlNext>> /\ toHost = <<>>
    BY <1>8 DEF CtlResend, k
  <2>2. DOMAIN toHost = {}
    BY <2>1
  <2>3. ctlOut = ctlNext - 1 /\ m < ctlNext /\ (ctlOut = m => ctlSeq # rxseq)
    BY <1>p, <2>1 DEF LineUpTo
  <2>4. ctlOut \in m..(ctlNext - 1)
    BY <1>a, <2>3
  <2>5. LineUpTo(m)'
    BY <1>1, <1>4, <1>6, <2>1, <2>2, <2>3, <2>4 DEF LineUpTo
  <2> QED BY <1>p, <1>1, <1>2, <2>1, <2>5, WaitSame DEF AcceptedUpTo
<1> QED BY <1>7, <1>8

LEMMA AcceptedOthers ==
  ASSUME TypeOK, NEW m \in 0..NEvts, AcceptedUpTo(m),
         DataReady \/ CtlStep \/ LineLoses \/ UNCHANGED vars
  PROVE  AcceptedUpTo(m)'
<1>p. PassedUpTo(m) /\ BaudHeld(m) /\ LineUpTo(m) /\ StopAndWait(m)
  BY DEF AcceptedUpTo
<1>a. ctlMsgs \in Nat
  BY H5Assumption DEF TypeOK
<1>1. CASE DataReady
  <2>1. UNCHANGED <<internal, rxPkt, toHost, rxseq, ctlNext, ctlOut, ctlSeq, ctlMsgs, toCtl, skb,
                    armed, pc>>
    BY <1>1 DEF DataReady, ctlVars, timVars
  <2> QED BY <1>1, <2>1, OrderDataReady, AcceptedKept DEF AcceptedSame
<1>2. ASSUME hostUnchanged, ctlMsgs' = 0 => ctlMsgs = 0 PROVE PassedUpTo(m)' /\ BaudHeld(m)'
  <2>1. UNCHANGED <<up, recvData, internal, rxPkt, armed, pc>>
    BY <1>2 DEF hostUnchanged, upVars, timVars
  <2> QED BY <1>p, <1>2, <2>1, OrderSame, PassedSame, BaudSame
<1>3. CASE LineLoses
  <2>1. UNCHANGED <<rxseq, ctlNext, ctlOut, ctlSeq, ctlMsgs, skb>> /\ hostUnchanged
    BY <1>3 DEF LineLoses, hostUnchanged, ctlVars
  <2>2. \/ toCtl # <<>> /\ toCtl' = Tail(toCtl) /\ toHost' = toHost
        \/ toHost # <<>> /\ toHost' = Tail(toHost) /\ toCtl' = toCtl
    BY <1>3 DEF LineLoses
  <2>3. LineUpTo(m)'
    BY <1>p, <2>1, <2>2, LineSame, LineTail
  <2>4. StopAndWait(m)'
    BY <1>p, <2>1, <2>2, WaitSame, WaitTail
  <2> QED BY <1>2, <2>1, <2>3, <2>4 DEF AcceptedUpTo
<1>4. CASE CtlRecvData
  <2>1. /\ UNCHANGED <<rxseq, ctlNext, ctlMsgs, skb, toHost>> /\ hostUnchanged
        /\ toCtl # <<>> /\ toCtl' = Tail(toCtl) /\ CtlTakeAck(Head(toCtl))
    BY <1>4 DEF CtlRecvData, hostUnchanged
  <2>2. UNCHANGED <<ctlOut, ctlSeq>> \/ ctlOut' = None
    BY <2>1 DEF CtlTakeAck
  <2>3. LineUpTo(m)'
    BY <1>p, <2>1, <2>2, LineSent
  <2>4. StopAndWait(m)'
    BY <1>p, <2>1, WaitTake
  <2> QED BY <1>2, <2>1, <2>3, <2>4 DEF AcceptedUpTo
<1>5. CASE CtlRecvOther
  <2>1. /\ UNCHANGED <<rxseq, ctlNext, ctlMsgs, skb>> /\ hostUnchanged
        /\ toCtl # <<>> /\ toCtl' = Tail(toCtl) /\ CtlTakeAck(Head(toCtl))
    BY <1>5 DEF CtlRecvOther, hostUnchanged
  <2>2. UNCHANGED <<ctlOut, ctlSeq>> \/ ctlOut' = None
    BY <2>1 DEF CtlTakeAck
  <2>3. \/ toHost' = toHost
        \/ \E p \in Packets(NEvts) : p.t # "data" /\ toHost' = Append(toHost, p)
    <3>1. ASSUME NEW k \in DOMAIN CtlReply
          PROVE  /\ Packet(CtlReply[k], 0, ctlRx, None) \in Packets(NEvts)
                 /\ Packet(CtlReply[k], 0, ctlRx, None).t # "data"
      <4>1. CtlReply[k] \in LinkMsgs \cup {"ack", "data"} /\ CtlReply[k] # "data"
        BY DEF CtlReply, LinkMsgs
      <4>2. Packet(CtlReply[k], 0, ctlRx, None) \in Packets(NEvts)
        BY <4>1, PacketType, Sizes, SeqsClosed DEF TypeOK
      <4> QED BY <4>1, <4>2 DEF Packet
    <3>2. CASE Head(toCtl).t \in DOMAIN CtlReply
      <4>1. toHost' = Append(toHost, Packet(CtlReply[Head(toCtl).t], 0, ctlRx, None))
        BY <1>5, <3>2 DEF CtlRecvOther
      <4> QED BY <3>1, <3>2, <4>1
    <3>3. CASE Head(toCtl).t \notin DOMAIN CtlReply
      BY <1>5, <3>3 DEF CtlRecvOther
    <3> QED BY <3>2, <3>3
  <2>4. LineUpTo(m)'
    BY <1>p, <2>1, <2>2, <2>3, LineSent
  <2>5. StopAndWait(m)'
    BY <1>p, <2>1, WaitTake
  <2> QED BY <1>2, <2>1, <2>4, <2>5 DEF AcceptedUpTo
<1>6. CASE CtlAck
  <2> DEFINE p == Packet("ack", 0, ctlRx, None)
  <2>1. /\ UNCHANGED <<rxseq, ctlNext, ctlMsgs, skb, toCtl, ctlOut, ctlSeq>> /\ hostUnchanged
        /\ toHost' = Append(toHost, p)
    BY <1>6 DEF CtlAck, hostUnchanged
  <2>2. p.t # "data"
    BY DEF Packet
  <2>3. p \in Packets(NEvts)
    BY PacketType, Sizes, SeqsClosed DEF TypeOK
  <2> HIDE DEF p
  <2>4. LineUpTo(m)'
    BY <1>p, <2>1, <2>2, <2>3, LineSent
  <2> QED BY <1>2, <1>p, <2>1, <2>4, WaitSame DEF AcceptedUpTo
<1>7. ASSUME NEW k \in CtlKinds, CtlSend(k) PROVE AcceptedUpTo(m)'
  <2> DEFINE p == Packet(k, 0, IF k = "sync" THEN 0 ELSE ctlRx, None)
  <2>1. /\ UNCHANGED <<rxseq, ctlNext, toCtl, skb>> /\ hostUnchanged
        /\ toHost' = Append(toHost, p) /\ ctlMsgs' = ctlMsgs + 1
        /\ UNCHANGED <<ctlOut, ctlSeq>> \/ ctlOut' = None
    BY <1>7 DEF CtlSend, hostUnchanged
  <2>2. k \in LinkMsgs /\ k # "data"
    BY H5Assumption DEF LinkMsgs
  <2>3. p.t # "data"
    BY <2>2 DEF Packet
  <2>4. p \in Packets(NEvts)
    BY <2>2, PacketType, Sizes, SeqsClosed DEF TypeOK
  <2> HIDE DEF p
  <2>5. LineUpTo(m)'
    BY <1>p, <2>1, <2>3, <2>4, LineSent
  <2>6. ctlMsgs' # 0
    BY <1>a, <2>1
  <2>7. StopAndWait(m)'
    BY <2>6 DEF StopAndWait
  <2> QED BY <1>2, <2>1, <2>5, <2>6, <2>7 DEF AcceptedUpTo
<1>8. CASE UNCHANGED vars
  <2>1. UNCHANGED <<internal, rxPkt, toHost, rxseq, ctlNext, ctlOut, ctlSeq, ctlMsgs, toCtl, skb,
                    armed, pc, up, recvData>>
    BY <1>8 DEF vars, ctlVars, timVars, upVars
  <2> QED BY <2>1, OrderSame, AcceptedKept DEF AcceptedSame
<1> QED BY <1>1, <1>3, <1>4, <1>5, <1>6, <1>7, <1>8, AcceptedEvent DEF CtlStep

LEMMA EventInit == Init => EventInv
<1> SUFFICES ASSUME Init PROVE EventInv
  OBVIOUS
<1>1. ConfInv
  BY ConfInit
<1>2. NoPkt.t # "data" /\ NoPkt.id = None
  BY Sizes, NoPktType
<1>3. RxHolds
  BY <1>2 DEF Init, RxHolds, Threads
<1>4. Order = <<>> /\ Counted(Order) = {}
  BY DEF Init, Order, Counted
<1>5. PassedUpTo(0)
  <2>1. Rising(Order) /\ Passed(Order) = {}
    BY <1>4 DEF Rising, Passed
  <2>2. (1..0) \ Baud = {}
    OBVIOUS
  <2> QED BY <1>2, <2>1, <2>2 DEF Init, PassedUpTo
<1>6. BaudHeld(0) /\ LineUpTo(0) /\ StopAndWait(0)
  BY <1>2 DEF Init, BaudHeld, LineUpTo, StopAndWait, None, Alarms, Threads
<1>7. 0 \in 0..NEvts
  BY Sizes DEF None
<1> QED BY <1>1, <1>3, <1>5, <1>6, <1>7 DEF EventInv, AcceptedUpTo

LEMMA EventStep ==
  ASSUME OneBaudAnswer
  PROVE  EventInv /\ [Next]_vars => EventInv'
<1> SUFFICES ASSUME EventInv, [Next]_vars PROVE EventInv'
  OBVIOUS
<1>1. ConfInv' /\ RxHolds'
  BY ConfStep, HoldsStep DEF EventInv
<1>2. TypeOK /\ OnePlaceInv /\ Pending /\ RxHolds
  BY DEF EventInv, ConfInv, TypedInv
<1>3. PICK m \in 0..NEvts : AcceptedUpTo(m)
  BY DEF EventInv
<1>4. \E k \in 0..NEvts : AcceptedUpTo(k)'
  <2>1. CASE RxReliable
    BY <1>2, <1>3, <2>1, AcceptedNext
  <2>2. CASE ~RxReliable
    <3>1. AcceptedUpTo(m)'
      BY <1>2, <1>3, <2>2, AcceptedRx, AcceptedTimer, AcceptedAppRetrans, AcceptedOthers DEF Next
    <3> QED BY <3>1
  <2> QED BY <2>1, <2>2
<1> QED BY <1>1, <1>4 DEF EventInv

(* For every number of events, every loss, retransmission, restart of the
   controller and interleaving of the host's threads: the events reach the HCI
   layer in the order the controller sent them, each once, and as long as the
   controller has not sent a link message by itself none is missing.  Only the
   answer to the baud rate change, which h5_complete_rx_pkt holds back, may be
   overtaken. *)
THEOREM EventsArriveInOrder == OneBaudAnswer => (Spec => []EventsInOrder)
<1> SUFFICES ASSUME OneBaudAnswer PROVE Spec => []EventsInOrder
  OBVIOUS
<1>1. EventInv => EventsInOrder
  <2> SUFFICES ASSUME EventInv PROVE EventsInOrder
    OBVIOUS
  <2>1. PICK m \in 0..NEvts : AcceptedUpTo(m)
    BY DEF EventInv
  <2>2. Rising(Order)
    BY <2>1 DEF AcceptedUpTo, PassedUpTo
  <2>3. ctlMsgs = 0 => \E k \in 0..NEvts : Passed(Order) = (1..k) \ Baud
    <3>1. CASE rxPkt.t = "data"
      <4>1. m - 1 \in 0..NEvts
        BY <2>1, <3>1, Sizes DEF AcceptedUpTo, PassedUpTo, None
      <4> QED BY <2>1, <3>1, <4>1 DEF AcceptedUpTo, PassedUpTo
    <3>2. CASE rxPkt.t # "data"
      BY <2>1, <3>2 DEF AcceptedUpTo, PassedUpTo
    <3> QED BY <3>1, <3>2
  <2> QED BY <2>2, <2>3 DEF EventsInOrder, Rising, Passed, Counted, Order
<1>2. EventInv /\ [Next]_vars => EventInv'
  BY EventStep
<1> QED BY <1>1, <1>2, EventInit, PTL DEF Spec
=============================================================================
