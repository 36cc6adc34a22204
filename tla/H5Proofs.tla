------------------------------ MODULE H5Proofs ------------------------------
(***************************************************************************)
(* Theorems about H5 for every number of packets, events, window and       *)
(* schedule: a packet is in one place, the types, link establishment and   *)
(* the way of an event to the HCI layer.                                   *)
(***************************************************************************)
EXTENDS H5, SequenceLemmas

-----------------------------------------------------------------------------
(* The two ends of a sequence *)

(* Head and tail of a non-empty sequence. *)
LEMMA HeadTail ==
  ASSUME NEW S, NEW s \in Seq(S), s # <<>>
  PROVE  Head(s) \in S /\ Tail(s) \in Seq(S)
BY HeadTailProperties

LEMMA AppendType ==
  ASSUME NEW S, NEW s \in Seq(S), NEW x \in S
  PROVE  Append(s, x) \in Seq(S)
OBVIOUS

LEMMA TailLeft ==
  ASSUME NEW S, NEW s \in Seq(S), Len(s) > 1
  PROVE  Tail(s) # <<>>
<1>1. s # <<>> /\ Len(s) \in Nat
  BY LenProperties, EmptySeq
<1>2. Len(Tail(s)) = Len(s) - 1 /\ Tail(s) \in Seq(S)
  BY <1>1, HeadTailProperties
<1>3. Len(Tail(s)) # 0
  BY <1>1, <1>2
<1> QED BY <1>2, <1>3, EmptySeq

LEMMA FrontLast ==
  ASSUME NEW S, NEW s \in Seq(S), s # <<>>
  PROVE  /\ Front(s) \in Seq(S) /\ Last(s) \in S
         /\ Len(s) \in Nat /\ (Len(s) > 1 => Front(s) # <<>>)
<1> DEFINE a == SubSeq(s, 1, Len(s) - 1)
           n == Len(s)
<1>1. n \in Nat /\ n > 0 /\ DOMAIN s = 1..n
  BY LenProperties, EmptySeq
<1>2. \A i \in 1..n : s[i] \in S
  BY <1>1, ElementOfSeq
<1>3. a \in Seq(S) /\ Len(a) = n - 1
  BY <1>1, <1>2, SubSeqProperties
<1>4. Front(s) = a /\ Last(s) = s[n]
  BY DEF Front, Last
<1> HIDE DEF a
<1>5. n > 1 => a # <<>>
  BY <1>1, <1>3, EmptySeq
<1> QED BY <1>1, <1>2, <1>3, <1>4, <1>5

-----------------------------------------------------------------------------
(* The inductive invariant *)

(* The types of what PacketInOnePlace speaks of and of the program counters. *)
CoreType ==
  /\ rel \in Seq(1..NPkts) /\ unack \in Seq(1..NPkts) /\ toFree \in Nat
  /\ hand \in 0..NPkts /\ skb.id \in 0..NPkts /\ given \in 0..NPkts
  /\ pc \in [Threads -> Pcs] /\ cont \in [Threads -> Conts]

(* Who holds what: h5_wakeup_mutex is held by the thread inside h5_dequeue or
   h5_remove_acked_pkt, so at most one thread is there; a packet is between rel
   and unack exactly when that thread is at "tail", and in the retransmission's
   hand exactly when data_retransfer_thread is at "put".  The loop that frees
   stands on a packet of unack until that is taken away. *)
Freeing == {"walk", "first", "unlink", "stop", "raced"}
Holder ==
  /\ \A t \in Threads : (pc[t] \in Holding) <=> (mutex = t)
  /\ (skb.id # None) <=> (\E t \in Threads : pc[t] = "tail")
  /\ \A t \in Threads : pc[t] = "put" => t = "retrans"
  /\ \A t \in Threads : pc[t] \in Freeing => t = "rx"
  /\ (hand # None) <=> (pc["retrans"] = "put")
  /\ pc["rx"] = "unlink" => unack # <<>> /\ toFree > 0

OnePlaceInv == CoreType /\ Holder /\ PacketInOnePlace

pktVars == <<rel, unack, toFree, hand, skb, given, released>>

LEMMA KeepsPlace ==
  ASSUME PacketInOnePlace, UNCHANGED pktVars, pc["rx"] = "raced" => pc'["rx"] = "raced"
  PROVE  PacketInOnePlace'
BY DEF PacketInOnePlace, pktVars, ToSet, IsInjective

(* Where a thread holds the mutex or a packet. *)
Busy == Holding \cup {"put"}

LEMMA ControlPoints ==
  /\ Conts \subseteq Pcs
  /\ \A c \in Conts : c \notin Busy \cup {"lock"}
  /\ \A c \in {"lock", "ctl", "pass", "data", "sync", "conf", "baud", "move", "idle", "acked"} :
       c \notin Busy
  /\ {"lock", "dequeue", "tail", "ctl", "pass", "data", "sync", "conf",
      "baud", "move", "put", "idle", "acked"} \cup Freeing \subseteq Pcs
  /\ {"idle", "acked", "startConf", "startSync", "resync", "syncInc", "confInc"}
        \subseteq Conts
  /\ Freeing \subseteq Holding /\ {"dequeue", "tail"} \subseteq Holding
BY DEF Conts, Pcs, Busy, Holding, Freeing

(* Who is inside h5_dequeue keeps h5_remove_acked_pkt out. *)
LEMMA NotRaced ==
  ASSUME Holder, NEW t \in Threads, pc[t] \in {"dequeue", "tail"}
  PROVE  pc["rx"] \notin Freeing
BY DEF Holder, Holding, Freeing, Threads

(* Steps of one thread that move no packet and stay outside the mutex. *)
LEMMA MovesNothing ==
  ASSUME OnePlaceInv, NEW t \in Threads, NEW w \in Pcs,
         pc[t] \notin Busy, w \notin Busy,
         pc' = [pc EXCEPT ![t] = w], cont' \in [Threads -> Conts],
         mutex' = mutex, UNCHANGED pktVars
  PROVE  OnePlaceInv'
<1>1. CoreType'
  BY DEF OnePlaceInv, CoreType, pktVars
<1>2. \A u \in Threads : pc'[u] = IF u = t THEN w ELSE pc[u]
  BY DEF OnePlaceInv, CoreType
<1>3. "retrans" \in Threads /\ "rx" \in Threads
  BY DEF Threads
<1>4. Holder'
  BY <1>2, <1>3 DEF OnePlaceInv, Holder, pktVars, Busy, Holding, Freeing
<1>5. PacketInOnePlace'
  BY <1>2, <1>3, KeepsPlace DEF OnePlaceInv, Busy, Holding
<1> QED BY <1>1, <1>4, <1>5 DEF OnePlaceInv

(* Steps outside the threads, and those that only write to the line. *)
LEMMA MovesNobody ==
  ASSUME OnePlaceInv, UNCHANGED <<pc, cont, mutex>>, UNCHANGED pktVars
  PROVE  OnePlaceInv'
<1>1. CoreType' /\ Holder'
  BY DEF OnePlaceInv, CoreType, Holder, pktVars
<1> QED BY <1>1, KeepsPlace DEF OnePlaceInv

-----------------------------------------------------------------------------
(* h5_wake_up and h5_dequeue *)

LEMMA LockStep ==
  ASSUME OnePlaceInv, NEW t \in Threads, Lock(t)
  PROVE  OnePlaceInv'
<1>1. /\ pc[t] = "lock" /\ mutex = "none" /\ mutex' = t /\ cont' = cont
      /\ pc' = [pc EXCEPT ![t] = "dequeue"] /\ UNCHANGED pktVars
  BY DEF Lock, MutexFree, Goto, pktVars, ackVars, txVars, bookVars
<1>2. CoreType'
  BY <1>1, ControlPoints DEF OnePlaceInv, CoreType, pktVars
<1>3. \A u \in Threads : pc'[u] = IF u = t THEN "dequeue" ELSE pc[u]
  BY <1>1 DEF OnePlaceInv, CoreType
<1>4. "retrans" \in Threads /\ "rx" \in Threads /\ "none" \notin Threads
  BY DEF Threads
<1>5. Holder'
  BY <1>1, <1>3, <1>4 DEF OnePlaceInv, Holder, pktVars, Holding, Freeing
<1>6. pc["rx"] = "raced" => pc'["rx"] = "raced"
  BY <1>1, <1>3, <1>4
<1> QED BY <1>1, <1>2, <1>5, <1>6, KeepsPlace DEF OnePlaceInv

LEMMA UnlockStep ==
  ASSUME OnePlaceInv, NEW t \in Threads, Unlock(t)
  PROVE  OnePlaceInv'
<1>1. /\ pc[t] = "dequeue" /\ mutex' = "none" /\ cont' = [cont EXCEPT ![t] = "idle"]
      /\ pc' = [pc EXCEPT ![t] = cont[t]] /\ UNCHANGED pktVars
  BY DEF Unlock, Goto, pktVars, ackVars, txVars, bookVars
<1>2. cont[t] \in Conts /\ cont[t] \in Pcs /\ cont[t] \notin Busy
  BY ControlPoints DEF OnePlaceInv, CoreType
<1>3. CoreType'
  BY <1>1, <1>2, ControlPoints DEF OnePlaceInv, CoreType, pktVars
<1>4. \A u \in Threads : pc'[u] = IF u = t THEN cont[t] ELSE pc[u]
  BY <1>1 DEF OnePlaceInv, CoreType
<1>5. "retrans" \in Threads /\ "rx" \in Threads /\ "none" \notin Threads
  BY DEF Threads
<1>6. Holder'
  BY <1>1, <1>2, <1>4, <1>5 DEF OnePlaceInv, Holder, pktVars, Busy, Holding, Freeing
<1>7. pc["rx"] = "raced" => pc'["rx"] = "raced"
  BY <1>1, <1>4, <1>5
<1> QED BY <1>1, <1>3, <1>6, <1>7, KeepsPlace DEF OnePlaceInv

(* The head of rel becomes the packet in h5_dequeue's hands. *)
LEMMA DequeueRelStep ==
  ASSUME OnePlaceInv, NEW t \in Threads, DequeueRel(t)
  PROVE  OnePlaceInv'
<1>1. /\ pc[t] = "dequeue" /\ rel # <<>> /\ rel' = Tail(rel) /\ skb'.id = Head(rel)
      /\ pc' = [pc EXCEPT ![t] = "tail"]
      /\ UNCHANGED <<unack, toFree, hand, given, released, mutex, cont>>
  BY DEF DequeueRel, Goto, Packet, bookVars, ackVars
<1>2. pc["rx"] \notin Freeing
  BY <1>1, NotRaced DEF OnePlaceInv
<1>3. rel \in Seq(1..NPkts) /\ IsInjective(rel)
  BY <1>2 DEF OnePlaceInv, CoreType, PacketInOnePlace, Freeing
<1>4. /\ rel' \in Seq(1..NPkts) /\ IsInjective(rel')
      /\ Head(rel) \in 1..NPkts /\ Head(rel) \in ToSet(rel)
      /\ ToSet(rel') = ToSet(rel) \ {Head(rel)}
  BY <1>1, <1>3, TailSet
<1>5. CoreType'
  BY <1>1, <1>4, ControlPoints DEF OnePlaceInv, CoreType
<1>6. \A u \in Threads : pc'[u] = IF u = t THEN "tail" ELSE pc[u]
  BY <1>1 DEF OnePlaceInv, CoreType
<1>7. "retrans" \in Threads /\ "rx" \in Threads /\ skb'.id # None
  BY <1>1, <1>4 DEF Threads, None
<1>8. Holder'
  BY <1>1, <1>2, <1>6, <1>7 DEF OnePlaceInv, Holder, Holding, Freeing
<1>9. skb.id = None
  BY <1>1 DEF OnePlaceInv, Holder, Holding
<1>10. PacketInOnePlace'
  BY <1>1, <1>2, <1>4, <1>7, <1>9 DEF OnePlaceInv, PacketInOnePlace, Freeing
<1> QED BY <1>5, <1>8, <1>10 DEF OnePlaceInv

(* That packet becomes the last of unack. *)
LEMMA SendRelStep ==
  ASSUME OnePlaceInv, NEW t \in Threads, SendRel(t)
  PROVE  OnePlaceInv'
<1>1. /\ pc[t] = "tail" /\ unack' = Append(unack, skb.id) /\ skb'.id = None
      /\ pc' = [pc EXCEPT ![t] = "dequeue"]
      /\ UNCHANGED <<rel, toFree, hand, given, released, mutex, cont>>
  BY DEF SendRel, Goto, NoPkt, Packet, ackVars
<1>2. skb.id \in 1..NPkts
  <2>1. skb.id # None
    BY <1>1 DEF OnePlaceInv, Holder
  <2> QED BY <2>1, H5Assumption DEF OnePlaceInv, CoreType, None
<1>a. pc["rx"] \notin Freeing
  BY <1>1, NotRaced DEF OnePlaceInv
<1>3. unack \in Seq(1..NPkts) /\ IsInjective(unack) /\ skb.id \notin ToSet(unack)
  BY <1>2, <1>a DEF OnePlaceInv, CoreType, PacketInOnePlace, None, Freeing
<1>4. /\ unack' \in Seq(1..NPkts) /\ IsInjective(unack')
      /\ ToSet(unack') = ToSet(unack) \cup {skb.id}
  <2>1. /\ Append(unack, skb.id) \in Seq(1..NPkts) /\ IsInjective(Append(unack, skb.id))
        /\ ToSet(Append(unack, skb.id)) = ToSet(unack) \cup {skb.id}
    <3> DEFINE S == 1..NPkts
               x == skb.id
    <3>1. unack \in Seq(S) /\ x \in S /\ x \notin ToSet(unack) /\ IsInjective(unack)
      BY <1>2, <1>3
    <3> HIDE DEF S, x
    <3>2. /\ Append(unack, x) \in Seq(S) /\ IsInjective(Append(unack, x))
          /\ ToSet(Append(unack, x)) = ToSet(unack) \cup {x}
      BY <3>1, AppendSet
    <3> QED BY <3>2 DEF S, x
  <2> QED BY <1>1, <2>1
<1>5. CoreType'
  BY <1>1, <1>4, ControlPoints, H5Assumption DEF OnePlaceInv, CoreType, None
<1>6. \A u \in Threads : pc'[u] = IF u = t THEN "dequeue" ELSE pc[u]
  BY <1>1 DEF OnePlaceInv, CoreType
<1>7. "retrans" \in Threads /\ "rx" \in Threads
  BY DEF Threads
<1>8. Holder'
  BY <1>1, <1>a, <1>6, <1>7 DEF OnePlaceInv, Holder, Holding, Freeing
<1>9. PacketInOnePlace'
  BY <1>1, <1>2, <1>a, <1>4 DEF OnePlaceInv, PacketInOnePlace, None, Freeing
<1> QED BY <1>5, <1>8, <1>9 DEF OnePlaceInv

LEMMA WakeUpStep ==
  ASSUME OnePlaceInv, NEW t \in Threads, WakeUp(t)
  PROVE  OnePlaceInv'
<1>1. CASE DequeueUnrel(t)
  <2>1. UNCHANGED <<pc, cont, mutex>> /\ UNCHANGED pktVars
    BY <1>1 DEF DequeueUnrel, pktVars, ackVars, bookVars
  <2> QED BY <2>1, MovesNobody
<1>2. CASE DequeueAck(t)
  <2>1. UNCHANGED <<pc, cont, mutex>> /\ UNCHANGED pktVars
    BY <1>2 DEF DequeueAck, pktVars, ackVars, txVars, bookVars
  <2> QED BY <2>1, MovesNobody
<1> QED BY <1>1, <1>2, LockStep, UnlockStep, DequeueRelStep, SendRelStep DEF WakeUp

-----------------------------------------------------------------------------
(* The other steps that move packets *)

LEMMA AppSendStep ==
  ASSUME OnePlaceInv, AppSend
  PROVE  OnePlaceInv'
<1>1. /\ given < NPkts /\ given' = given + 1 /\ pc["app"] = "idle"
      /\ pc' = [pc EXCEPT !["app"] = "lock"] /\ cont' = [cont EXCEPT !["app"] = "idle"]
      /\ UNCHANGED <<unack, toFree, hand, skb, released, mutex>>
  BY DEF AppSend, WakeUpThen, Goto, MayRun, ackVars
<1>2. rel' = IF given + 1 \in Sco THEN rel ELSE Append(rel, given + 1)
  BY DEF AppSend, Enqueue
<1>3. given \in Nat /\ given + 1 \in 1..NPkts /\ NPkts \in Nat
  BY <1>1, H5Assumption DEF OnePlaceInv, CoreType
<1>4. 1..(given + 1) = (1..given) \cup {given + 1} /\ given + 1 \notin 1..given
  BY <1>3
<1>5. rel' \in Seq(1..NPkts)
  <2>1. rel \in Seq(1..NPkts) /\ Append(rel, given + 1) \in Seq(1..NPkts)
    BY <1>3, AppendType DEF OnePlaceInv, CoreType
  <2> QED BY <1>2, <2>1
<1>6. CoreType'
  <2>1. given' \in 0..NPkts
    BY <1>1, <1>3
  <2>2. pc' \in [Threads -> Pcs] /\ cont' \in [Threads -> Conts]
    BY <1>1, ControlPoints DEF OnePlaceInv, CoreType
  <2>3. /\ hand' \in 0..NPkts /\ skb'.id \in 0..NPkts /\ unack' \in Seq(1..NPkts)
        /\ toFree' \in Nat
    BY <1>1 DEF OnePlaceInv, CoreType
  <2> QED BY <1>5, <2>1, <2>2, <2>3 DEF CoreType
<1>7. \A u \in Threads : pc'[u] = IF u = "app" THEN "lock" ELSE pc[u]
  BY <1>1 DEF OnePlaceInv, CoreType
<1>8. "retrans" \in Threads /\ "app" \in Threads /\ "rx" \in Threads
  BY DEF Threads
<1>9. Holder'
  BY <1>1, <1>7, <1>8 DEF OnePlaceInv, Holder, Holding, Freeing
<1>10. ASSUME pc["rx"] # "raced" PROVE PacketInOnePlace'
  <2> DEFINE held == ToSet(rel) \cup ToSet(unack) \cup released
  <2>1. /\ rel \in Seq(1..NPkts) /\ IsInjective(rel)
        /\ given + 1 \notin held /\ given + 1 # hand /\ given + 1 # skb.id
    BY <1>3, <1>4, <1>10 DEF OnePlaceInv, CoreType, PacketInOnePlace, None
  <2>2. /\ IsInjective(rel')
        /\ ToSet(rel') = IF given + 1 \in Sco THEN ToSet(rel)
                                             ELSE ToSet(rel) \cup {given + 1}
    <3>1. CASE given + 1 \in Sco
      BY <3>1, <1>2, <2>1
    <3>2. CASE given + 1 \notin Sco
      BY <3>2, <1>2, <1>3, <2>1, AppendSet
    <3> QED BY <3>1, <3>2
  <2>3. (1..given') \ Sco
          = IF given + 1 \in Sco THEN (1..given) \ Sco ELSE ((1..given) \ Sco) \cup {given + 1}
    BY <1>1, <1>4
  <2> QED BY <1>1, <1>10, <2>1, <2>2, <2>3 DEF OnePlaceInv, PacketInOnePlace
<1>11. pc["rx"] = "raced" => PacketInOnePlace'
  BY <1>7, <1>8 DEF PacketInOnePlace
<1> QED BY <1>6, <1>9, <1>10, <1>11 DEF OnePlaceInv

(* h5_remove_acked_pkt keeps senders out until it is done; only the steps that
   free touch a packet. *)
LEMMA AckedLockStep ==
  ASSUME OnePlaceInv, AckedLock
  PROVE  OnePlaceInv'
<1>1. /\ pc["rx"] = "acked" /\ mutex = "none" /\ mutex' = "rx" /\ cont' = cont
      /\ pc' = [pc EXCEPT !["rx"] = "walk"] /\ UNCHANGED pktVars
  BY DEF AckedLock, MutexFree, Goto, pktVars, txVars, bookVars
<1>2. CoreType'
  BY <1>1, ControlPoints DEF OnePlaceInv, CoreType, pktVars, Freeing
<1>3. "retrans" \in Threads /\ "rx" \in Threads /\ "none" \notin Threads
  BY DEF Threads
<1>4. \A u \in Threads : pc'[u] = IF u = "rx" THEN "walk" ELSE pc[u]
  BY <1>1, <1>3 DEF OnePlaceInv, CoreType
<1>5. Holder'
  BY <1>1, <1>3, <1>4 DEF OnePlaceInv, Holder, pktVars, Holding, Freeing
<1> QED BY <1>1, <1>2, <1>5, KeepsPlace DEF OnePlaceInv

LEMMA AckedWalkStep ==
  ASSUME OnePlaceInv, AckedWalk
  PROVE  OnePlaceInv'
<1>1. /\ pc["rx"] = "walk" /\ pc' = [pc EXCEPT !["rx"] = "first"]
      /\ toFree' = AckedCount(rxPkt.ack)
      /\ UNCHANGED <<rel, unack, hand, skb, given, released, mutex, cont>>
  BY DEF AckedWalk, Goto, txVars, bookVars
<1>2. toFree' \in Nat
  <2>1. Len(unack) \in Nat
    BY LenProperties DEF OnePlaceInv, CoreType
  <2> QED BY <1>1, <2>1 DEF AckedCount
<1>3. CoreType'
  BY <1>1, <1>2, ControlPoints DEF OnePlaceInv, CoreType, Freeing
<1>4. "retrans" \in Threads /\ "rx" \in Threads
  BY DEF Threads
<1>5. \A u \in Threads : pc'[u] = IF u = "rx" THEN "first" ELSE pc[u]
  BY <1>1, <1>4 DEF OnePlaceInv, CoreType
<1>6. Holder'
  BY <1>1, <1>4, <1>5 DEF OnePlaceInv, Holder, Holding, Freeing
<1>7. PacketInOnePlace'
  BY <1>1, <1>4 DEF OnePlaceInv, PacketInOnePlace
<1> QED BY <1>3, <1>6, <1>7 DEF OnePlaceInv

LEMMA AckedFirstStep ==
  ASSUME OnePlaceInv, AckedFirst
  PROVE  OnePlaceInv'
<1> DEFINE w == IF unack # <<>> /\ toFree > 0 THEN "unlink" ELSE "stop"
<1>1. /\ pc["rx"] = "first" /\ pc' = [pc EXCEPT !["rx"] = w]
      /\ UNCHANGED pktVars /\ UNCHANGED <<mutex, cont>>
  BY DEF AckedFirst, Goto, pktVars, ackVars, txVars, bookVars
<1>2. /\ w \in {"unlink", "stop"} /\ w \in Pcs
      /\ w = "unlink" => unack # <<>> /\ toFree > 0
  BY ControlPoints DEF Freeing
<1> HIDE DEF w
<1>3. CoreType'
  BY <1>1, <1>2 DEF OnePlaceInv, CoreType, pktVars
<1>4. "retrans" \in Threads /\ "rx" \in Threads
  BY DEF Threads
<1>5. \A u \in Threads : pc'[u] = IF u = "rx" THEN w ELSE pc[u]
  BY <1>1, <1>4 DEF OnePlaceInv, CoreType
<1>6. Holder'
  BY <1>1, <1>2, <1>4, <1>5 DEF OnePlaceInv, Holder, Holding, Freeing, pktVars
<1> QED BY <1>1, <1>3, <1>6, KeepsPlace DEF OnePlaceInv

(* The head of unack is freed. *)
LEMMA AckedFreeStep ==
  ASSUME OnePlaceInv, AckedFree
  PROVE  OnePlaceInv'
<1> DEFINE w == IF toFree > 1 /\ Len(unack) > 1 THEN "unlink" ELSE "stop"
<1>1. /\ pc["rx"] = "unlink" /\ pc' = [pc EXCEPT !["rx"] = w]
      /\ released' = released \cup {Head(unack)} /\ unack' = Tail(unack)
      /\ toFree' = toFree - 1
      /\ UNCHANGED <<rel, hand, skb, given, mutex, cont>>
  BY DEF AckedFree, Goto
<1>2. unack # <<>> /\ toFree > 0 /\ toFree \in Nat
  BY <1>1 DEF OnePlaceInv, Holder, CoreType
<1>3. unack \in Seq(1..NPkts) /\ IsInjective(unack) /\ Len(unack) \in Nat
  BY <1>1, LenProperties DEF OnePlaceInv, CoreType, PacketInOnePlace
<1>4. /\ unack' \in Seq(1..NPkts) /\ IsInjective(unack')
      /\ Head(unack) \in 1..NPkts /\ Head(unack) \in ToSet(unack)
      /\ ToSet(unack') = ToSet(unack) \ {Head(unack)}
  BY <1>1, <1>2, <1>3, TailSet
<1>5. /\ w \in {"unlink", "stop"} /\ w \in Pcs
      /\ w = "unlink" => unack' # <<>> /\ toFree' > 0
  <2>1. Len(unack) > 1 => unack' # <<>>
    BY <1>1, <1>3, TailLeft
  <2> QED BY <1>1, <1>2, <2>1, ControlPoints DEF Freeing
<1> HIDE DEF w
<1>6. CoreType'
  <2>1. pc' \in [Threads -> Pcs] /\ cont' \in [Threads -> Conts]
    BY <1>1, <1>5 DEF OnePlaceInv, CoreType
  <2>2. /\ rel' \in Seq(1..NPkts) /\ hand' \in 0..NPkts /\ skb'.id \in 0..NPkts
        /\ given' \in 0..NPkts
    BY <1>1 DEF OnePlaceInv, CoreType
  <2>3. toFree' \in Nat
    BY <1>1, <1>2
  <2> QED BY <1>4, <2>1, <2>2, <2>3 DEF CoreType
<1>7. "retrans" \in Threads /\ "rx" \in Threads
  BY DEF Threads
<1>8. \A u \in Threads : pc'[u] = IF u = "rx" THEN w ELSE pc[u]
  BY <1>1, <1>7 DEF OnePlaceInv, CoreType
<1>9. Holder'
  BY <1>1, <1>5, <1>7, <1>8 DEF OnePlaceInv, Holder, Holding, Freeing
<1>10. PacketInOnePlace'
  BY <1>1, <1>4 DEF OnePlaceInv, PacketInOnePlace
<1> QED BY <1>6, <1>9, <1>10 DEF OnePlaceInv

(* A loop that has lost its packet does not come back. *)
LEMMA RacedFreeStep ==
  ASSUME OnePlaceInv, RacedFree
  PROVE  OnePlaceInv'
<1>1. /\ pc["rx"] = "raced" /\ UNCHANGED <<pc, cont, mutex>>
      /\ UNCHANGED <<rel, unack, toFree, hand, skb, given>>
  BY DEF RacedFree, txVars, ackVars
<1>2. CoreType' /\ Holder'
  BY <1>1 DEF OnePlaceInv, CoreType, Holder
<1>3. PacketInOnePlace'
  BY <1>1 DEF PacketInOnePlace
<1> QED BY <1>2, <1>3 DEF OnePlaceInv

LEMMA RxAckedStep ==
  ASSUME OnePlaceInv, RxAcked
  PROVE  OnePlaceInv'
<1> DEFINE w == CASE rxPkt.t \in LinkMsgs -> "ctl" [] rxPkt.t = "data" -> "pass"
                  [] OTHER -> "idle"
<1>1. /\ pc["rx"] = "stop" /\ pc' = [pc EXCEPT !["rx"] = w] /\ mutex' = "none"
      /\ UNCHANGED pktVars /\ cont' = cont
  BY DEF RxAcked, Goto, pktVars, ackVars, txVars, bookVars
<1>2. w \in {"ctl", "pass", "idle"}
  OBVIOUS
<1> HIDE DEF w
<1>3. CoreType'
  BY <1>1, <1>2, ControlPoints DEF OnePlaceInv, CoreType, pktVars
<1>4. "retrans" \in Threads /\ "rx" \in Threads /\ "none" \notin Threads
  BY DEF Threads
<1>5. \A u \in Threads : pc'[u] = IF u = "rx" THEN w ELSE pc[u]
  BY <1>1, <1>4 DEF OnePlaceInv, CoreType
<1>6. Holder'
  BY <1>1, <1>2, <1>4, <1>5 DEF OnePlaceInv, Holder, Holding, Freeing, pktVars
<1> QED BY <1>1, <1>3, <1>6, KeepsPlace DEF OnePlaceInv

LEMMA RemoveAckedStep ==
  ASSUME OnePlaceInv, RemoveAcked
  PROVE  OnePlaceInv'
BY AckedLockStep, AckedWalkStep, AckedFirstStep, AckedFreeStep, RacedFreeStep,
   RxAckedStep DEF RemoveAcked

LEMMA RetransTakeStep ==
  ASSUME OnePlaceInv, RetransTake
  PROVE  OnePlaceInv'
<1>1. /\ pc["retrans"] = "move" /\ unack # <<>>
      /\ hand' = Last(unack) /\ unack' = Front(unack)
      /\ UNCHANGED <<rel, toFree, skb, given, released, mutex, cont>>
  BY DEF RetransTake, bookVars, ackVars
<1>2. "retrans" \in Threads /\ "rx" \in Threads
  BY DEF Threads
<1>3. \A u \in Threads : pc'[u] = IF u = "retrans" THEN "put"
                                  ELSE IF u = "rx" /\ pc["rx"] = "unlink" /\ TakenFromLoop
                                  THEN "raced" ELSE pc[u]
  BY <1>2 DEF RetransTake, OnePlaceInv, CoreType
<1>4. /\ unack' \in Seq(1..NPkts) /\ hand' \in 1..NPkts /\ Len(unack) \in Nat
      /\ Len(unack) > 1 => unack' # <<>>
  BY <1>1, FrontLast DEF OnePlaceInv, CoreType
<1>5. hand = None /\ hand' # None
  BY <1>1, <1>4 DEF OnePlaceInv, Holder, None
<1>6. CoreType'
  <2>1. pc' \in [Threads -> Pcs] /\ cont' \in [Threads -> Conts]
    BY <1>1, <1>2, ControlPoints DEF OnePlaceInv, CoreType, RetransTake, Freeing
  <2>2. /\ hand' \in 0..NPkts /\ skb'.id \in 0..NPkts /\ given' \in 0..NPkts
        /\ rel' \in Seq(1..NPkts) /\ toFree' \in Nat
    BY <1>1, <1>4 DEF OnePlaceInv, CoreType
  <2> QED BY <1>4, <2>1, <2>2 DEF CoreType
<1>7. pc'["rx"] = "unlink" => unack' # <<>> /\ toFree' > 0
  <2> SUFFICES ASSUME pc'["rx"] = "unlink" PROVE unack' # <<>> /\ toFree' > 0
    OBVIOUS
  <2>1. pc["rx"] = "unlink" /\ ~TakenFromLoop
    BY <1>2, <1>3
  <2>2. toFree \in Nat /\ toFree > 0
    BY <2>1 DEF OnePlaceInv, Holder, CoreType
  <2> QED BY <1>1, <1>4, <2>1, <2>2 DEF TakenFromLoop
<1>8. Holder'
  BY <1>1, <1>2, <1>3, <1>5, <1>7 DEF OnePlaceInv, Holder, Holding, Freeing
<1>9. ASSUME pc'["rx"] # "raced" PROVE PacketInOnePlace'
  <2>1. pc["rx"] # "raced"
    BY <1>2, <1>3, <1>9
  <2>2. unack \in Seq(1..NPkts) /\ IsInjective(unack)
    BY <2>1 DEF OnePlaceInv, CoreType, PacketInOnePlace
  <2>3. /\ IsInjective(unack') /\ hand' \in ToSet(unack)
        /\ ToSet(unack') = ToSet(unack) \ {hand'}
    BY <1>1, <2>2, FrontSet
  <2> QED BY <1>1, <1>5, <2>1, <2>3 DEF OnePlaceInv, PacketInOnePlace
<1>10. pc'["rx"] = "raced" => PacketInOnePlace'
  BY DEF PacketInOnePlace
<1> QED BY <1>6, <1>8, <1>9, <1>10 DEF OnePlaceInv

LEMMA RetransPutStep ==
  ASSUME OnePlaceInv, RetransPut
  PROVE  OnePlaceInv'
<1>1. /\ pc["retrans"] = "put" /\ rel' = <<hand>> \o rel /\ hand' = None
      /\ pc' = [pc EXCEPT !["retrans"] = "move"]
      /\ UNCHANGED <<unack, toFree, skb, given, released, mutex, cont>>
  BY DEF RetransPut, PutBack, Goto, bookVars, ackVars
<1>2. hand \in 1..NPkts
  <2>1. hand # None
    BY <1>1 DEF OnePlaceInv, Holder
  <2> QED BY <2>1, H5Assumption DEF OnePlaceInv, CoreType, None
<1>3. rel \in Seq(1..NPkts) /\ rel' \in Seq(1..NPkts)
  BY <1>1, <1>2 DEF OnePlaceInv, CoreType
<1>4. CoreType'
  <2>1. pc' \in [Threads -> Pcs] /\ cont' \in [Threads -> Conts]
    BY <1>1, ControlPoints DEF OnePlaceInv, CoreType
  <2>2. /\ hand' \in 0..NPkts /\ skb'.id \in 0..NPkts /\ given' \in 0..NPkts
        /\ unack' \in Seq(1..NPkts) /\ toFree' \in Nat
    BY <1>1, H5Assumption DEF OnePlaceInv, CoreType, None
  <2> QED BY <1>3, <2>1, <2>2 DEF CoreType
<1>5. "retrans" \in Threads /\ "rx" \in Threads
  BY DEF Threads
<1>6. \A u \in Threads : pc'[u] = IF u = "retrans" THEN "move" ELSE pc[u]
  BY <1>1, <1>5 DEF OnePlaceInv, CoreType
<1>7. Holder'
  BY <1>1, <1>5, <1>6 DEF OnePlaceInv, Holder, Holding, Freeing
<1>8. ASSUME pc["rx"] # "raced" PROVE PacketInOnePlace'
  <2>1. IsInjective(rel) /\ hand \notin ToSet(rel)
    BY <1>2, <1>8 DEF OnePlaceInv, PacketInOnePlace, None
  <2>2. /\ IsInjective(rel') /\ ToSet(rel') = ToSet(rel) \cup {hand}
    <3>1. IsInjective(<<hand>> \o rel) /\ ToSet(<<hand>> \o rel) = ToSet(rel) \cup {hand}
      <4> DEFINE S == 1..NPkts
      <4>1. rel \in Seq(S) /\ hand \in S /\ hand \notin ToSet(rel) /\ IsInjective(rel)
        BY <1>2, <1>3, <2>1
      <4> HIDE DEF S
      <4> QED BY <4>1, ConsSet
    <3> QED BY <1>1, <3>1
  <2> QED BY <1>1, <1>2, <1>8, <2>2 DEF OnePlaceInv, PacketInOnePlace, None
<1>9. pc["rx"] = "raced" => PacketInOnePlace'
  BY <1>5, <1>6 DEF PacketInOnePlace
<1> QED BY <1>4, <1>7, <1>8, <1>9 DEF OnePlaceInv

-----------------------------------------------------------------------------
(* One lemma per thread: the packet-moving steps, then the others. *)

LEMMA StartSyncStep ==
  ASSUME OnePlaceInv, NEW t \in Threads, StartSync(t)
  PROVE  OnePlaceInv'
<1>1. /\ pc[t] = "startSync" /\ mutex' = mutex /\ pc' = [pc EXCEPT ![t] = "idle"]
      /\ cont' = cont /\ UNCHANGED pktVars
  BY DEF StartSync, Goto, pktVars, ackVars, txVars, bookVars
<1>2. cont \in [Threads -> Conts]
  BY DEF OnePlaceInv, CoreType
<1> QED BY <1>1, <1>2, ControlPoints, MovesNothing

LEMMA AppSteps ==
  ASSUME OnePlaceInv, AppStep
  PROVE  OnePlaceInv'
<1>a. "app" \in Threads /\ cont \in [Threads -> Conts]
  BY DEF Threads, OnePlaceInv, CoreType
<1>1. CASE AppInit
  <2>1. /\ pc["app"] \notin Busy /\ mutex' = mutex
        /\ pc' = [pc EXCEPT !["app"] = "lock"] /\ cont' = [cont EXCEPT !["app"] = "startSync"] /\ UNCHANGED pktVars
    BY <1>1 DEF AppInit, WakeUpThen, Goto, MayRun, pktVars, ackVars, txVars, bookVars, Busy, Holding
  <2> QED BY <2>1, <1>a, ControlPoints, MovesNothing
<1> QED BY <1>1, <1>a, AppSendStep, StartSyncStep, WakeUpStep DEF AppStep

LEMMA RxSteps ==
  ASSUME OnePlaceInv, RxStep
  PROVE  OnePlaceInv'
<1>a. "rx" \in Threads /\ cont \in [Threads -> Conts]
  BY DEF Threads, OnePlaceInv, CoreType
<1>1. CASE RxOutOfOrder
  <2>1. /\ pc["rx"] \notin Busy /\ mutex' = mutex
        /\ pc' = [pc EXCEPT !["rx"] = "lock"] /\ cont' = [cont EXCEPT !["rx"] = "idle"] /\ UNCHANGED pktVars
    BY <1>1 DEF RxOutOfOrder, WakeUpThen, Goto, MayRun, pktVars, ackVars, txVars, bookVars, Busy, Holding
  <2> QED BY <2>1, <1>a, ControlPoints, MovesNothing
<1>2. CASE RxReliable
  <2>1. /\ pc["rx"] \notin Busy /\ mutex' = mutex
        /\ pc' = [pc EXCEPT !["rx"] = "lock"] /\ cont' = [cont EXCEPT !["rx"] = "acked"] /\ UNCHANGED pktVars
    BY <1>2 DEF RxReliable, WakeUpThen, Goto, MayRun, pktVars, ackVars, txVars, bookVars, Busy, Holding
  <2> QED BY <2>1, <1>a, ControlPoints, MovesNothing
<1>3. CASE RxUnreliable
  <2>1. /\ pc["rx"] \notin Busy /\ mutex' = mutex
        /\ pc' = [pc EXCEPT !["rx"] = "acked"] /\ cont' = cont /\ UNCHANGED pktVars
    BY <1>3 DEF RxUnreliable, Goto, MayRun, pktVars, ackVars, txVars, bookVars, Busy, Holding
  <2> QED BY <2>1, <1>a, ControlPoints, MovesNothing
<1>4. CASE RxPassUp
  <2>1. /\ pc["rx"] \notin Busy /\ mutex' = mutex
        /\ pc' = [pc EXCEPT !["rx"] = "idle"] /\ cont' = cont /\ UNCHANGED pktVars
    BY <1>4 DEF RxPassUp, Goto, pktVars, ackVars, txVars, bookVars, Busy, Holding
  <2> QED BY <2>1, <1>a, ControlPoints, MovesNothing
<1>5. CASE RxSync
  <2>1. /\ pc["rx"] \notin Busy /\ mutex' = mutex
        /\ pc' = [pc EXCEPT !["rx"] = "lock"] /\ cont' = [cont EXCEPT !["rx"] = "idle"] /\ UNCHANGED pktVars
    BY <1>5 DEF RxSync, CtlAnswer, WakeUpThen, Goto, pktVars, ackVars, txVars, bookVars, Busy, Holding
  <2> QED BY <2>1, <1>a, ControlPoints, MovesNothing
<1>6. CASE RxConf
  <2>1. /\ pc["rx"] \notin Busy /\ mutex' = mutex
        /\ pc' = [pc EXCEPT !["rx"] = "lock"] /\ cont' = [cont EXCEPT !["rx"] = "idle"] /\ UNCHANGED pktVars
    BY <1>6 DEF RxConf, CtlAnswer, WakeUpThen, Goto, pktVars, ackVars, txVars, bookVars, Busy, Holding
  <2> QED BY <2>1, <1>a, ControlPoints, MovesNothing
<1>7. CASE RxSyncActive
  <2>1. /\ pc["rx"] \notin Busy /\ mutex' = mutex
        /\ pc' = [pc EXCEPT !["rx"] = "lock"] /\ cont' = [cont EXCEPT !["rx"] = "resync"] /\ UNCHANGED pktVars
    BY <1>7 DEF RxSyncActive, CtlAnswer, WakeUpThen, Goto, pktVars, ackVars, txVars, bookVars, Busy, Holding
  <2> QED BY <2>1, <1>a, ControlPoints, MovesNothing
<1>8. CASE RxSyncResp
  <2>1. /\ pc["rx"] \notin Busy /\ mutex' = mutex
        /\ pc' = [pc EXCEPT !["rx"] = "lock"] /\ cont' = [cont EXCEPT !["rx"] = "startConf"] /\ UNCHANGED pktVars
    BY <1>8 DEF RxSyncResp, WakeUpThen, Goto, pktVars, ackVars, txVars, bookVars, Busy, Holding
  <2> QED BY <2>1, <1>a, ControlPoints, MovesNothing
<1>9. CASE RxConfResp
  <2>1. /\ pc["rx"] \notin Busy /\ mutex' = mutex
        /\ pc' = [pc EXCEPT !["rx"] = "idle"] /\ cont' = cont /\ UNCHANGED pktVars
    BY <1>9 DEF RxConfResp, Goto, pktVars, ackVars, txVars, bookVars, Busy, Holding
  <2> QED BY <2>1, <1>a, ControlPoints, MovesNothing
<1>10. CASE RxCtlIgnored
  <2>1. /\ pc["rx"] \notin Busy /\ mutex' = mutex
        /\ pc' = [pc EXCEPT !["rx"] = "idle"] /\ cont' = cont /\ UNCHANGED pktVars
    BY <1>10 DEF RxCtlIgnored, Goto, pktVars, ackVars, txVars, bookVars, Busy, Holding
  <2> QED BY <2>1, <1>a, ControlPoints, MovesNothing
<1>11. CASE RxResync
  <2>1. /\ pc["rx"] \notin Busy /\ mutex' = mutex
        /\ pc' = [pc EXCEPT !["rx"] = "lock"] /\ cont' = [cont EXCEPT !["rx"] = "startSync"] /\ UNCHANGED pktVars
    BY <1>11 DEF RxResync, WakeUpThen, Goto, pktVars, ackVars, txVars, bookVars, Busy, Holding
  <2> QED BY <2>1, <1>a, ControlPoints, MovesNothing
<1>12. CASE RxStartConf
  <2>1. /\ pc["rx"] \notin Busy /\ mutex' = mutex
        /\ pc' = [pc EXCEPT !["rx"] = "idle"] /\ cont' = cont /\ UNCHANGED pktVars
    BY <1>12 DEF RxStartConf, Goto, pktVars, ackVars, txVars, bookVars, Busy, Holding
  <2> QED BY <2>1, <1>a, ControlPoints, MovesNothing
<1> QED BY <1>1, <1>2, <1>3, <1>4, <1>5, <1>6, <1>7, <1>8, <1>9, <1>10, <1>11, <1>12,
          <1>a, RemoveAckedStep, StartSyncStep, WakeUpStep DEF RxStep

LEMMA TimerSteps ==
  ASSUME OnePlaceInv, TimerStep
  PROVE  OnePlaceInv'
<1>a. "timer" \in Threads /\ cont \in [Threads -> Conts]
  BY DEF Threads, OnePlaceInv, CoreType
<1>1. ASSUME NEW a \in Alarms, Expire(a) PROVE OnePlaceInv'
  <2>1. /\ pc["timer"] \notin Busy /\ mutex' = mutex
        /\ pc' = [pc EXCEPT !["timer"] = a] /\ cont' = cont /\ UNCHANGED pktVars
    BY <1>1 DEF Expire, Goto, MayRun, pktVars, ackVars, txVars, bookVars, Busy, Holding
  <2>2. a \in Pcs /\ a \notin Busy
    BY ControlPoints DEF Alarms
  <2> QED BY <2>1, <2>2, <1>a, MovesNothing
<1>2. CASE DataTimeout
  <2>1. /\ pc["timer"] \notin Busy /\ mutex' = mutex
        /\ pc' = [pc EXCEPT !["timer"] = "idle"] /\ cont' = cont /\ UNCHANGED pktVars
    BY <1>2 DEF DataTimeout, Goto, pktVars, ackVars, txVars, bookVars, Busy, Holding
  <2> QED BY <2>1, <1>a, ControlPoints, MovesNothing
<1>3. CASE SyncTimeout
  <2>1. pc["timer"] \notin Busy /\ mutex' = mutex /\ UNCHANGED pktVars
    BY <1>3 DEF SyncTimeout, pktVars, ackVars, bookVars, Busy, Holding
  <2>2. \/ /\ pc' = [pc EXCEPT !["timer"] = "lock"]
           /\ cont' = [cont EXCEPT !["timer"] = "syncInc"]
        \/ pc' = [pc EXCEPT !["timer"] = "idle"] /\ cont' = cont
    BY <1>3 DEF SyncTimeout, WakeUpThen, Goto
  <2> QED BY <2>1, <2>2, <1>a, ControlPoints, MovesNothing
<1>4. CASE ConfTimeout
  <2>1. pc["timer"] \notin Busy /\ mutex' = mutex /\ UNCHANGED pktVars
    BY <1>4 DEF ConfTimeout, pktVars, ackVars, bookVars, Busy, Holding
  <2>2. \/ /\ pc' = [pc EXCEPT !["timer"] = "lock"]
           /\ cont' = [cont EXCEPT !["timer"] = "confInc"]
        \/ pc' = [pc EXCEPT !["timer"] = "idle"] /\ cont' = cont
    BY <1>4 DEF ConfTimeout, WakeUpThen, Goto
  <2> QED BY <2>1, <2>2, <1>a, ControlPoints, MovesNothing
<1>5. CASE CountRetrans
  <2>1. /\ pc["timer"] \notin Busy /\ mutex' = mutex
        /\ pc' = [pc EXCEPT !["timer"] = "idle"] /\ cont' = cont /\ UNCHANGED pktVars
    BY <1>5 DEF CountRetrans, Goto, pktVars, ackVars, txVars, bookVars, Busy, Holding
  <2> QED BY <2>1, <1>a, ControlPoints, MovesNothing
<1>6. CASE BaudTimeout
  <2>1. /\ pc["timer"] \notin Busy /\ mutex' = mutex
        /\ pc' = [pc EXCEPT !["timer"] = "idle"] /\ cont' = cont /\ UNCHANGED pktVars
    BY <1>6 DEF BaudTimeout, Goto, pktVars, ackVars, txVars, bookVars, Busy, Holding
  <2> QED BY <2>1, <1>a, ControlPoints, MovesNothing
<1> QED BY <1>1, <1>2, <1>3, <1>4, <1>5, <1>6, <1>a, WakeUpStep DEF TimerStep

LEMMA RetransSteps ==
  ASSUME OnePlaceInv, RetransStep
  PROVE  OnePlaceInv'
<1>a. "retrans" \in Threads /\ cont \in [Threads -> Conts]
  BY DEF Threads, OnePlaceInv, CoreType
<1>1. CASE RetransStart
  <2> DEFINE w == IF count["data"] < DataRetrans THEN "move" ELSE "idle"
  <2>1. /\ pc["retrans"] \notin Busy /\ mutex' = mutex
        /\ pc' = [pc EXCEPT !["retrans"] = w] /\ cont' = cont /\ UNCHANGED pktVars
    BY <1>1 DEF RetransStart, Goto, MayRun, pktVars, ackVars, txVars, bookVars, Busy, Holding
  <2>2. w \in {"move", "idle"}
    OBVIOUS
  <2> HIDE DEF w
  <2> QED BY <2>1, <2>2, <1>a, ControlPoints, MovesNothing
<1>2. CASE RetransDone
  <2>1. /\ pc["retrans"] \notin Busy /\ mutex' = mutex
        /\ pc' = [pc EXCEPT !["retrans"] = "lock"] /\ cont' = [cont EXCEPT !["retrans"] = "idle"] /\ UNCHANGED pktVars
    BY <1>2 DEF RetransDone, WakeUpThen, Goto, pktVars, ackVars, txVars, bookVars, Busy, Holding
  <2> QED BY <2>1, <1>a, ControlPoints, MovesNothing
<1> QED BY <1>1, <1>2, <1>a, RetransTakeStep, RetransPutStep, WakeUpStep DEF RetransStep

LEMMA OtherSteps ==
  ASSUME OnePlaceInv, DataReady \/ CtlStep \/ LineLoses \/ UNCHANGED vars
  PROVE  OnePlaceInv'
<1>1. UNCHANGED <<pc, cont, mutex>> /\ UNCHANGED pktVars
  <2>1. CASE DataReady
    BY <2>1 DEF DataReady, pktVars, ackVars, txVars, bookVars
  <2>2. ASSUME hostUnchanged PROVE UNCHANGED <<pc, cont, mutex>> /\ UNCHANGED pktVars
    BY <2>2 DEF hostUnchanged, pktVars, ackVars, txVars, bookVars
  <2>3. CASE LineLoses
    BY <2>2, <2>3 DEF LineLoses
  <2>4. CASE CtlStep
    BY <2>2, <2>4 DEF CtlStep, CtlRecvData, CtlRecvOther, CtlAck, CtlEvent, CtlResend,
                     CtlSend
  <2>5. CASE UNCHANGED vars
    BY <2>5 DEF vars, pktVars, ackVars, txVars, bookVars
  <2> QED BY <2>1, <2>3, <2>4, <2>5
<1> QED BY <1>1, MovesNobody

-----------------------------------------------------------------------------
LEMMA OnePlaceInit == Init => OnePlaceInv
<1> SUFFICES ASSUME Init PROVE OnePlaceInv
  OBVIOUS
<1>1. ToSet(<<>>) = {} /\ IsInjective(<<>>)
  BY DEF ToSet, IsInjective
<1>2. CoreType
  BY H5Assumption, ControlPoints DEF Init, CoreType, NoPkt, Packet, None
<1>3. Holder
  BY DEF Init, Holder, NoPkt, Packet, None, Threads, Holding, Freeing
<1>4. 1..0 = {}
  OBVIOUS
<1>5. PacketInOnePlace
  BY <1>1, <1>4 DEF Init, PacketInOnePlace, NoPkt, Packet
<1> QED BY <1>2, <1>3, <1>5 DEF OnePlaceInv

LEMMA OnePlaceStep == OnePlaceInv /\ [Next]_vars => OnePlaceInv'
BY AppSteps, RxSteps, TimerSteps, RetransSteps, OtherSteps DEF Next

(* For every number of packets, window, loss and interleaving of the threads,
   a reliable packet given to the transport is in exactly one of rel, unack,
   the hands of h5_dequeue or of data_retransfer_thread, and the set of the
   freed packets: hci_h5.c neither loses nor duplicates it on the host, as long
   as data_retransfer_thread, which runs outside h5_wakeup_mutex, does not take
   a packet that the loop of h5_remove_acked_pkt is about to free. *)
THEOREM PacketsConserved == Spec => []PacketInOnePlace
<1>1. OnePlaceInv => PacketInOnePlace
  BY DEF OnePlaceInv
<1> QED BY <1>1, OnePlaceInit, OnePlaceStep, PTL DEF Spec

(* At most one thread is inside h5_dequeue or h5_remove_acked_pkt:
   h5_wakeup_mutex is released on every way out of h5_wake_up, and never by a
   thread that does not hold it. *)
MutualExclusion ==
  \A t, u \in Threads : pc[t] \in Holding /\ pc[u] \in Holding => t = u

(* h5_wakeup_mutex excludes two threads from the transmit queues in every
   schedule, data_retransfer_thread's loop apart, which does not take it. *)
THEOREM MutexHolds == Spec => []MutualExclusion
<1>1. OnePlaceInv => MutualExclusion
  BY DEF OnePlaceInv, Holder, MutualExclusion
<1> QED BY <1>1, OnePlaceInit, OnePlaceStep, PTL DEF Spec


-----------------------------------------------------------------------------
(* Sequence numbers and packets *)

LEMMA SeqsClosed ==
  /\ 0 \in Seqs
  /\ \A n \in Seqs : Up(n) \in Seqs /\ Down(n) \in Seqs
<1>1. SeqNums \in Nat /\ SeqNums > 1
  BY H5Assumption
<1>2. \A n \in Nat : n % SeqNums \in 0..(SeqNums - 1)
  BY <1>1
<1>3. ASSUME NEW n \in Seqs PROVE n + 1 \in Nat /\ n + SeqNums - 1 \in Nat
  BY <1>1 DEF Seqs
<1> QED BY <1>1, <1>2, <1>3 DEF Seqs, Up, Down

LEMMA PacketType ==
  ASSUME NEW n \in Nat, NEW t \in LinkMsgs \cup {"ack", "data"},
         NEW seq \in Seqs, NEW ack \in Seqs, NEW id \in 0..n
  PROVE  /\ Packet(t, seq, ack, id) \in Packets(n)
         /\ Packet(t, seq, ack, id).t = t /\ Packet(t, seq, ack, id).seq = seq
         /\ Packet(t, seq, ack, id).ack = ack /\ Packet(t, seq, ack, id).id = id
BY DEF Packet, Packets

LEMMA PacketFields ==
  ASSUME NEW n \in Nat, NEW p \in Packets(n)
  PROVE  p.t \in LinkMsgs \cup {"ack", "data"} /\ p.seq \in Seqs /\ p.ack \in Seqs
         /\ p.id \in 0..n
BY DEF Packets

LEMMA NoPktType ==
  ASSUME NEW n \in Nat
  PROVE  NoPkt \in Packets(n) /\ NoPkt.t = "ack" /\ NoPkt.id = None
BY PacketType, SeqsClosed DEF NoPkt, None

LEMMA Sizes == NPkts \in Nat /\ NEvts \in Nat /\ None \in 0..NPkts /\ None \in 0..NEvts
               /\ Notify \in 0..Notify /\ 0..NEvts \subseteq 0..Notify
BY H5Assumption DEF None, Notify

-----------------------------------------------------------------------------
(* TypeOK, action by action *)

LEMMA WakeUpType ==
  ASSUME TypeOK, OnePlaceInv, NEW t \in Threads, WakeUp(t)
  PROVE  TypeOK'
<1>1. CASE Lock(t)
  <2>1. pc' \in [Threads -> Pcs] /\ mutex' \in Threads \cup {"none"}
    BY <1>1, ControlPoints DEF TypeOK, Lock, Goto
  <2> QED BY <1>1, <2>1 DEF TypeOK, ackVars, Lock, txVars, bookVars, timVars, upVars, ctlVars
<1>2. CASE DequeueUnrel(t)
  <2>1. Head(unrel) \in LinkMsgs /\ unrel' \in Seq(LinkMsgs)
    BY <1>2, HeadTail DEF TypeOK, DequeueUnrel
  <2>2. Packet(Head(unrel), 0, rxseq, None) \in Packets(NPkts)
    BY <2>1, Sizes, SeqsClosed, PacketType DEF TypeOK
  <2>3. toCtl \in Seq(Packets(NPkts))
    BY DEF TypeOK
  <2>4. toCtl' \in Seq(Packets(NPkts)) /\ txackReq' \in BOOLEAN
    BY <1>2, <2>2, <2>3, AppendType DEF DequeueUnrel
  <2> QED BY <1>2, <2>1, <2>4 DEF TypeOK, ackVars, DequeueUnrel, bookVars, timVars, upVars, ctlVars
<1>3. CASE DequeueRel(t)
  <2>1. Head(rel) \in 1..NPkts /\ rel' \in Seq(1..NPkts)
    BY <1>3, HeadTail DEF TypeOK, DequeueRel
  <2>2. Head(rel) \in 0..NPkts
    BY <2>1
  <2>3. skb' \in Packets(NPkts)
    BY <1>3, <2>2, Sizes, PacketType DEF TypeOK, DequeueRel
  <2>4. txseq' \in Seqs /\ txackReq' \in BOOLEAN
    BY <1>3, SeqsClosed DEF TypeOK, DequeueRel, NextSeq
  <2>5. pc' \in [Threads -> Pcs]
    BY <1>3, ControlPoints DEF TypeOK, DequeueRel, Goto
  <2> QED BY <1>3, <2>1, <2>3, <2>4, <2>5
          DEF TypeOK, ackVars, DequeueRel, bookVars, timVars, upVars, ctlVars
<1>4. CASE SendRel(t)
  <2>1. skb.id \in 1..NPkts
    <3>1. pc[t] = "tail"
      BY <1>4 DEF SendRel
    <3>2. skb.id # 0 /\ skb.id \in 0..NPkts
      BY <3>1 DEF OnePlaceInv, CoreType, Holder, None
    <3> QED BY <3>2, Sizes
  <2>2. unack' \in Seq(1..NPkts) /\ sent' \subseteq 1..NPkts
    <3>1. unack \in Seq(1..NPkts) /\ sent \subseteq 1..NPkts
      BY DEF TypeOK
    <3> QED BY <1>4, <2>1, <3>1, AppendType DEF SendRel
  <2>3. toCtl' \in Seq(Packets(NPkts)) /\ skb' \in Packets(NPkts)
    BY <1>4, Sizes, NoPktType DEF TypeOK, SendRel
  <2>4. armed' \in [Alarms -> BOOLEAN] /\ pc' \in [Threads -> Pcs]
    BY <1>4, ControlPoints DEF TypeOK, SendRel, Arm, Goto
  <2> QED BY <1>4, <2>2, <2>3, <2>4 DEF TypeOK, ackVars, SendRel, upVars, ctlVars
<1>5. CASE DequeueAck(t)
  <2>1. Packet("ack", 0, rxseq, None) \in Packets(NPkts)
    BY Sizes, SeqsClosed, PacketType DEF TypeOK
  <2>2. toCtl' \in Seq(Packets(NPkts)) /\ txackReq' \in BOOLEAN
    <3>1. toCtl \in Seq(Packets(NPkts))
      BY DEF TypeOK
    <3> QED BY <1>5, <2>1, <3>1, AppendType DEF DequeueAck
  <2> QED BY <1>5, <2>2
          DEF TypeOK, ackVars, DequeueAck, txVars, bookVars, timVars, upVars, ctlVars
<1>6. CASE Unlock(t)
  <2>1. cont[t] \in Pcs
    BY ControlPoints DEF TypeOK
  <2>2. pc' \in [Threads -> Pcs] /\ cont' \in [Threads -> Conts] /\ mutex' \in Threads \cup {"none"}
    BY <1>6, <2>1, ControlPoints DEF TypeOK, Unlock, Goto
  <2> QED BY <1>6, <2>2 DEF TypeOK, ackVars, Unlock, txVars, bookVars, timVars, upVars, ctlVars
<1> QED BY <1>1, <1>2, <1>3, <1>4, <1>5, <1>6 DEF WakeUp

LEMMA StartSyncType ==
  ASSUME TypeOK, NEW t \in Threads, StartSync(t)
  PROVE  TypeOK'
<1>1. armed' \in [Alarms -> BOOLEAN] /\ pc' \in [Threads -> Pcs]
  BY ControlPoints DEF TypeOK, StartSync, Arm, Goto
<1> QED BY <1>1 DEF TypeOK, ackVars, StartSync, txVars, bookVars, upVars, ctlVars

LEMMA AppType ==
  ASSUME TypeOK, OnePlaceInv, AppStep
  PROVE  TypeOK'
<1>a. "app" \in Threads
  BY DEF Threads
<1>1. CASE AppInit
  <2>1. pc' \in [Threads -> Pcs] /\ cont' \in [Threads -> Conts]
    BY <1>1, ControlPoints DEF TypeOK, AppInit, WakeUpThen, Goto
  <2>2. unrel' \in Seq(LinkMsgs) /\ started' \in BOOLEAN
    BY <1>1 DEF TypeOK, AppInit, LinkMsgs
  <2> QED BY <1>1, <2>1, <2>2 DEF TypeOK, ackVars, AppInit, timVars, upVars, ctlVars
<1>2. CASE AppSend
  <2>1. pc' \in [Threads -> Pcs] /\ cont' \in [Threads -> Conts]
    BY <1>2, ControlPoints DEF TypeOK, AppSend, WakeUpThen, Goto
  <2>2. given' \in 0..NPkts /\ given + 1 \in 1..NPkts
    BY <1>2, Sizes DEF TypeOK, AppSend
  <2>3. rel' \in Seq(1..NPkts) /\ discarded' \subseteq 1..NPkts
    <3>1. rel \in Seq(1..NPkts) /\ discarded \subseteq 1..NPkts
      BY DEF TypeOK
    <3>2. Append(rel, given + 1) \in Seq(1..NPkts)
      BY <2>2, <3>1, AppendType
    <3>3. CASE given + 1 \in Sco
      BY <1>2, <2>2, <3>1, <3>3 DEF AppSend, Enqueue
    <3>4. CASE given + 1 \notin Sco
      BY <1>2, <3>1, <3>2, <3>4 DEF AppSend, Enqueue
    <3> QED BY <3>3, <3>4
  <2> QED BY <1>2, <2>1, <2>2, <2>3 DEF TypeOK, ackVars, AppSend, timVars, upVars, ctlVars
<1> QED BY <1>1, <1>2, <1>a, WakeUpType, StartSyncType DEF AppStep

LEMMA RxLineType ==
  ASSUME TypeOK, RxOutOfOrder \/ RxReliable \/ RxUnreliable
  PROVE  TypeOK'
<1>1. toHost \in Seq(Packets(NEvts)) /\ toHost # <<>>
  BY DEF TypeOK, RxOutOfOrder, RxReliable, RxUnreliable
<1>2. Head(toHost) \in Packets(NEvts) /\ Tail(toHost) \in Seq(Packets(NEvts))
  BY <1>1, HeadTail
<1>3. Up(Head(toHost).seq) \in Seqs
  BY <1>2, SeqsClosed DEF Packets
<1>4. CASE RxOutOfOrder
  <2>1. pc' \in [Threads -> Pcs] /\ cont' \in [Threads -> Conts]
    BY <1>4, ControlPoints DEF TypeOK, RxOutOfOrder, WakeUpThen, Goto
  <2> QED BY <1>2, <1>4, <2>1 DEF TypeOK, ackVars, RxOutOfOrder, txVars, bookVars, timVars, upVars, ctlVars
<1>5. CASE RxReliable
  <2>1. pc' \in [Threads -> Pcs] /\ cont' \in [Threads -> Conts]
    BY <1>5, ControlPoints DEF TypeOK, RxReliable, WakeUpThen, Goto
  <2> QED BY <1>2, <1>3, <1>5, <2>1 DEF TypeOK, ackVars, RxReliable, txVars, bookVars, timVars, upVars, ctlVars
<1>6. CASE RxUnreliable
  <2>1. pc' \in [Threads -> Pcs]
    BY <1>6, ControlPoints DEF TypeOK, RxUnreliable, Goto
  <2> QED BY <1>2, <1>6, <2>1 DEF TypeOK, ackVars, RxUnreliable, txVars, bookVars, timVars, upVars, ctlVars
<1> QED BY <1>4, <1>5, <1>6

LEMMA StopWhenEmptyType ==
  ASSUME TypeOK, StopWhenEmpty
  PROVE  armed' \in [Alarms -> BOOLEAN] /\ count' \in [Alarms -> Nat]
<1>1. armed \in [Alarms -> BOOLEAN] /\ count \in [Alarms -> Nat]
  BY DEF TypeOK
<1>2. \/ armed' = [armed EXCEPT !["data"] = FALSE] /\ count' = [count EXCEPT !["data"] = 0]
      \/ armed' = armed /\ count' = count
  BY Zenon DEF StopWhenEmpty, Cancel
<1>3. CASE armed' = armed /\ count' = count
  BY <1>1, <1>3
<1>4. CASE armed' = [armed EXCEPT !["data"] = FALSE] /\ count' = [count EXCEPT !["data"] = 0]
  BY <1>1, <1>4
<1> QED BY <1>2, <1>3, <1>4

(* The queues and the program counter are typed by CoreType. *)
LEMMA RemoveAckedType ==
  ASSUME TypeOK, OnePlaceInv, OnePlaceInv', RemoveAcked
  PROVE  TypeOK'
<1>a. /\ unack' \in Seq(1..NPkts) /\ toFree' \in Nat
      /\ pc' \in [Threads -> Pcs] /\ cont' \in [Threads -> Conts]
  BY DEF OnePlaceInv, CoreType
<1>1. CASE AckedLock
  <2>1. mutex' \in Threads \cup {"none"} /\ seqno' \in Seqs
    BY <1>1 DEF AckedLock, TypeOK, Threads
  <2> QED BY <1>a, <1>1, <2>1
          DEF TypeOK, AckedLock, txVars, timVars, upVars, bookVars, ctlVars
<1>2. CASE AckedWalk
  BY <1>a, <1>2 DEF TypeOK, AckedWalk, txVars, timVars, upVars, bookVars, ctlVars
<1>3. CASE AckedFirst
  BY <1>a, <1>3 DEF TypeOK, AckedFirst, ackVars, txVars, timVars, upVars, bookVars, ctlVars
<1>4. CASE AckedFree
  <2>1. unack \in Seq(1..NPkts) /\ unack # <<>>
    BY <1>4 DEF AckedFree, OnePlaceInv, CoreType, Holder
  <2>2. Head(unack) \in 1..NPkts
    BY <2>1, HeadTail
  <2>3. released' \subseteq 1..NPkts
    BY <1>4, <2>2 DEF TypeOK, AckedFree
  <2> QED BY <1>a, <1>4, <2>3 DEF TypeOK, AckedFree, timVars, upVars, ctlVars
<1>5. CASE RacedFree
  <2>1. hand \in 1..NPkts
    BY <1>5, Sizes DEF RacedFree, TypeOK, None
  <2>2. released' \subseteq 1..NPkts
    BY <1>5, <2>1 DEF TypeOK, RacedFree
  <2> QED BY <1>a, <1>5, <2>2 DEF TypeOK, RacedFree, ackVars, txVars, timVars, upVars, ctlVars
<1>6. CASE RxAcked
  <2>1. armed' \in [Alarms -> BOOLEAN] /\ count' \in [Alarms -> Nat]
    BY <1>6, StopWhenEmptyType DEF RxAcked
  <2>2. rxPkt' \in Packets(NEvts) /\ mutex' \in Threads \cup {"none"}
    BY <1>6, Sizes, NoPktType DEF TypeOK, RxAcked
  <2> QED BY <1>a, <1>6, <2>1, <2>2 DEF TypeOK, RxAcked, ackVars, txVars, upVars, bookVars, ctlVars
<1> QED BY <1>1, <1>2, <1>3, <1>4, <1>5, <1>6 DEF RemoveAcked

LEMMA RxCtlType ==
  ASSUME TypeOK, NEW m, NEW states, NEW answer \in LinkMsgs, NEW where \in Conts,
         CtlAnswer(m, states, answer, where)
  PROVE  TypeOK'
<1>1. pc' \in [Threads -> Pcs] /\ cont' \in [Threads -> Conts]
  BY ControlPoints DEF TypeOK, CtlAnswer, WakeUpThen, Goto
<1>2. unrel' \in Seq(LinkMsgs)
  <2>1. unrel \in Seq(LinkMsgs)
    BY DEF TypeOK
  <2> QED BY <2>1, AppendType DEF CtlAnswer
<1>3. rxPkt' \in Packets(NEvts)
  BY Sizes, NoPktType DEF CtlAnswer
<1> QED BY <1>1, <1>2, <1>3 DEF TypeOK, ackVars, CtlAnswer, bookVars, timVars, upVars, ctlVars

LEMMA RxTypes ==
  ASSUME TypeOK, OnePlaceInv, OnePlaceInv', RxStep
  PROVE  TypeOK'
<1>a. "rx" \in Threads /\ {"syncResp", "confResp", "sync", "conf"} \subseteq LinkMsgs
  BY DEF Threads, LinkMsgs
<1>b. unrel \in Seq(LinkMsgs) /\ recvData \in Seq(0..Notify)
  BY DEF TypeOK
<1>1. CASE RxPassUp
  <2>1. rxPkt.id \in 0..NEvts /\ rxPkt.id \in 0..Notify
    BY Sizes, PacketFields DEF TypeOK
  <2>2. internal' \in 0..NEvts /\ armed' \in [Alarms -> BOOLEAN]
    BY <1>1, <2>1 DEF TypeOK, RxPassUp, Arm
  <2>3. recvData' \in Seq(0..Notify)
    BY <1>1, <1>b, <2>1, AppendType DEF RxPassUp
  <2>4. rxPkt' \in Packets(NEvts) /\ pc' \in [Threads -> Pcs]
    BY <1>1, Sizes, NoPktType, ControlPoints DEF TypeOK, RxPassUp, Goto
  <2> QED BY <1>1, <2>2, <2>3, <2>4 DEF TypeOK, ackVars, RxPassUp, txVars, bookVars, ctlVars
<1>2. CASE RxSync \/ RxConf \/ RxSyncActive
  BY <1>2, <1>a, RxCtlType, ControlPoints DEF RxSync, RxConf, RxSyncActive
<1>3. CASE RxSyncResp
  <2>1. pc' \in [Threads -> Pcs] /\ cont' \in [Threads -> Conts]
    BY <1>3, ControlPoints DEF TypeOK, RxSyncResp, WakeUpThen, Goto
  <2>2. unrel' \in Seq(LinkMsgs) /\ rxPkt' \in Packets(NEvts)
    BY <1>3, <1>a, <1>b, AppendType, Sizes, NoPktType DEF RxSyncResp
  <2>3. armed' \in [Alarms -> BOOLEAN] /\ count' \in [Alarms -> Nat]
    BY <1>3 DEF TypeOK, RxSyncResp, Cancel
  <2> QED BY <1>3, <2>1, <2>2, <2>3 DEF TypeOK, ackVars, RxSyncResp, bookVars, upVars, ctlVars
<1>4. CASE RxConfResp
  <2>1. recvData' \in Seq(0..Notify)
    BY <1>4, <1>b, Sizes, AppendType DEF RxConfResp
  <2>2. rxPkt' \in Packets(NEvts) /\ pc' \in [Threads -> Pcs]
    BY <1>4, Sizes, NoPktType, ControlPoints DEF TypeOK, RxConfResp, Goto
  <2>3. armed' \in [Alarms -> BOOLEAN] /\ count' \in [Alarms -> Nat]
    BY <1>4 DEF TypeOK, RxConfResp, Cancel
  <2> QED BY <1>4, <2>1, <2>2, <2>3 DEF TypeOK, ackVars, RxConfResp, bookVars, ctlVars
<1>5. CASE RxCtlIgnored
  <2>1. rxPkt' \in Packets(NEvts) /\ pc' \in [Threads -> Pcs]
    BY <1>5, Sizes, NoPktType, ControlPoints DEF TypeOK, RxCtlIgnored, Goto
  <2> QED BY <1>5, <2>1 DEF TypeOK, ackVars, RxCtlIgnored, txVars, timVars, bookVars, upVars, ctlVars
<1>6. CASE RxResync
  <2>1. pc' \in [Threads -> Pcs] /\ cont' \in [Threads -> Conts]
    BY <1>6, ControlPoints DEF TypeOK, RxResync, WakeUpThen, Goto
  <2>2. unrel' \in Seq(LinkMsgs)
    BY <1>6, <1>a, <1>b, AppendType DEF RxResync
  <2> QED BY <1>6, <2>1, <2>2 DEF TypeOK, ackVars, RxResync, timVars, bookVars, upVars, ctlVars
<1>7. CASE RxStartConf
  <2>1. armed' \in [Alarms -> BOOLEAN] /\ pc' \in [Threads -> Pcs]
    BY <1>7, ControlPoints DEF TypeOK, RxStartConf, Arm, Goto
  <2> QED BY <1>7, <2>1 DEF TypeOK, ackVars, RxStartConf, txVars, bookVars, upVars, ctlVars
<1> QED BY <1>1, <1>2, <1>3, <1>4, <1>5, <1>6, <1>7, <1>a,
           RxLineType, RemoveAckedType, StartSyncType, WakeUpType DEF RxStep

LEMMA TimerTypes ==
  ASSUME TypeOK, OnePlaceInv, TimerStep
  PROVE  TypeOK'
<1>a. "timer" \in Threads /\ {"sync", "conf"} \subseteq LinkMsgs /\ {"sync", "conf"} \subseteq Alarms
  BY DEF Threads, LinkMsgs, Alarms
<1>b. unrel \in Seq(LinkMsgs) /\ recvData \in Seq(0..Notify)
  BY DEF TypeOK
<1>1. ASSUME NEW a \in Alarms, Expire(a) PROVE TypeOK'
  <2>1. a \in Pcs
    BY ControlPoints DEF Alarms
  <2>2. armed' \in [Alarms -> BOOLEAN] /\ pc' \in [Threads -> Pcs]
    BY <1>1, <2>1 DEF TypeOK, Expire, Cancel, Goto
  <2> QED BY <1>1, <2>2 DEF TypeOK, ackVars, Expire, txVars, bookVars, upVars, ctlVars
<1>2. CASE DataTimeout
  <2>1. event' \in BOOLEAN /\ pc' \in [Threads -> Pcs]
    BY <1>2, ControlPoints DEF TypeOK, DataTimeout, Goto
  <2> QED BY <1>2, <2>1 DEF TypeOK, ackVars, DataTimeout, txVars, bookVars, upVars, ctlVars
<1>3. CASE SyncTimeout
  <2>1. pc' \in [Threads -> Pcs] /\ cont' \in [Threads -> Conts]
    BY <1>3, ControlPoints DEF TypeOK, SyncTimeout, WakeUpThen, Goto
  <2>2. unrel' \in Seq(LinkMsgs)
    BY <1>3, <1>a, <1>b, AppendType DEF SyncTimeout
  <2>3. armed' \in [Alarms -> BOOLEAN]
    BY <1>3 DEF TypeOK, SyncTimeout, Cancel
  <2> QED BY <1>3, <2>1, <2>2, <2>3 DEF TypeOK, ackVars, SyncTimeout, bookVars, upVars, ctlVars
<1>4. CASE ConfTimeout
  <2>1. pc' \in [Threads -> Pcs] /\ cont' \in [Threads -> Conts]
    BY <1>4, ControlPoints DEF TypeOK, ConfTimeout, WakeUpThen, Goto
  <2>2. unrel' \in Seq(LinkMsgs)
    BY <1>4, <1>a, <1>b, AppendType DEF ConfTimeout
  <2>3. armed' \in [Alarms -> BOOLEAN]
    BY <1>4 DEF TypeOK, ConfTimeout, Arm, Cancel
  <2> QED BY <1>4, <2>1, <2>2, <2>3 DEF TypeOK, ackVars, ConfTimeout, bookVars, upVars, ctlVars
<1>5. CASE CountRetrans
  <2> DEFINE a == IF pc["timer"] = "syncInc" THEN "sync" ELSE "conf"
  <2>0. a \in Alarms /\ count' = [count EXCEPT ![a] = count[a] + 1]
    BY <1>5, <1>a DEF CountRetrans
  <2> HIDE DEF a
  <2>1. count' \in [Alarms -> Nat] /\ pc' \in [Threads -> Pcs]
    <3>1. count \in [Alarms -> Nat] /\ pc \in [Threads -> Pcs]
      BY DEF TypeOK
    <3>2. count[a] + 1 \in Nat
      BY <2>0, <3>1
    <3> QED BY <1>5, <2>0, <3>1, <3>2, ControlPoints DEF CountRetrans, Goto
  <2> QED BY <1>5, <2>1 DEF TypeOK, ackVars, CountRetrans, txVars, bookVars, upVars, ctlVars
<1>6. CASE BaudTimeout
  <2>1. recvData' \in Seq(0..Notify)
    BY <1>6, <1>b, Sizes, AppendType DEF TypeOK, BaudTimeout
  <2>2. internal' \in 0..NEvts /\ pc' \in [Threads -> Pcs]
    BY <1>6, Sizes, ControlPoints DEF TypeOK, BaudTimeout, Goto
  <2> QED BY <1>6, <2>1, <2>2 DEF TypeOK, ackVars, BaudTimeout, txVars, timVars, bookVars, ctlVars
<1> QED BY <1>1, <1>2, <1>3, <1>4, <1>5, <1>6, <1>a, WakeUpType DEF TimerStep

LEMMA RetransTypes ==
  ASSUME TypeOK, OnePlaceInv, OnePlaceInv', RetransStep
  PROVE  TypeOK'
<1>a. "retrans" \in Threads /\ "data" \in Alarms
  BY DEF Threads, Alarms
<1>b. /\ unack' \in Seq(1..NPkts) /\ rel' \in Seq(1..NPkts) /\ hand' \in 0..NPkts
      /\ pc' \in [Threads -> Pcs] /\ cont' \in [Threads -> Conts]
  BY DEF OnePlaceInv, CoreType
<1>1. CASE RetransStart
  <2>1. event' \in BOOLEAN
    BY <1>1 DEF RetransStart
  <2> QED BY <1>1, <1>b, <2>1 DEF TypeOK, ackVars, RetransStart, txVars, bookVars, upVars, ctlVars
<1>2. CASE RetransTake
  BY <1>2, <1>b DEF TypeOK, ackVars, RetransTake, timVars, bookVars, upVars, ctlVars
<1>3. CASE RetransPut
  <2>1. txseq' \in Seqs
    BY <1>3, SeqsClosed DEF TypeOK, RetransPut
  <2> QED BY <1>3, <1>b, <2>1 DEF TypeOK, ackVars, RetransPut, timVars, bookVars, upVars, ctlVars
<1>4. CASE RetransDone
  <2>1. count' \in [Alarms -> Nat]
    BY SMTT(30), <1>4, <1>a DEF TypeOK, RetransDone
  <2> QED BY <1>4, <1>b, <2>1 DEF TypeOK, ackVars, RetransDone, txVars, bookVars, upVars, ctlVars
<1> QED BY <1>1, <1>2, <1>3, <1>4, <1>a, WakeUpType DEF RetransStep

LEMMA CtlTakeAckType ==
  ASSUME TypeOK, NEW p, CtlTakeAck(p)
  PROVE  ctlOut' \in 0..NEvts /\ ctlSeq' \in Seqs
BY Sizes, SeqsClosed DEF TypeOK, CtlTakeAck

LEMMA CtlTypes ==
  ASSUME TypeOK, CtlStep
  PROVE  TypeOK'
<1>a. toHost \in Seq(Packets(NEvts)) /\ toCtl \in Seq(Packets(NPkts)) /\ ctlGot \in Seq(0..NPkts)
  BY DEF TypeOK
<1>1. CASE CtlRecvData
  <2>1. Head(toCtl) \in Packets(NPkts) /\ toCtl' \in Seq(Packets(NPkts))
    BY <1>1, <1>a, HeadTail DEF CtlRecvData
  <2>2. Head(toCtl).id \in 0..NPkts
    BY <2>1, PacketFields, Sizes
  <2>3. Append(ctlGot, Head(toCtl).id) \in Seq(0..NPkts)
    BY <2>2, <1>a, AppendType
  <2>4. ctlOut' \in 0..NEvts /\ ctlSeq' \in Seqs
    BY <1>1, CtlTakeAckType DEF CtlRecvData
  <2>5. ctlGot' \in Seq(0..NPkts) /\ ctlRx' \in Seqs /\ ctlAckReq' \in BOOLEAN
    BY <1>1, <2>3, SeqsClosed DEF TypeOK, CtlRecvData
  <2> QED BY <1>1, <2>1, <2>4, <2>5
          DEF TypeOK, ackVars, CtlRecvData, hostUnchanged, txVars, timVars, bookVars, upVars
<1>2. CASE CtlRecvOther
  <2>1. toCtl' \in Seq(Packets(NPkts))
    BY <1>2, <1>a, HeadTail DEF CtlRecvOther
  <2>2. ctlOut' \in 0..NEvts /\ ctlSeq' \in Seqs
    BY <1>2, CtlTakeAckType DEF CtlRecvOther
  <2>3. toHost' \in Seq(Packets(NEvts))
    <3>1. ASSUME NEW k \in DOMAIN CtlReply
          PROVE  Packet(CtlReply[k], 0, ctlRx, None) \in Packets(NEvts)
      <4>1. CtlReply[k] \in LinkMsgs \cup {"ack", "data"}
        BY DEF CtlReply, LinkMsgs
      <4> QED BY <4>1, PacketType, Sizes, SeqsClosed DEF TypeOK
    <3>2. CASE Head(toCtl).t \in DOMAIN CtlReply
      <4>1. toHost' = Append(toHost, Packet(CtlReply[Head(toCtl).t], 0, ctlRx, None))
        BY <1>2, <3>2 DEF CtlRecvOther
      <4> QED BY <4>1, <3>1, <3>2, <1>a, AppendType
    <3>3. CASE Head(toCtl).t \notin DOMAIN CtlReply
      BY <1>2, <1>a, <3>3 DEF CtlRecvOther
    <3> QED BY <3>2, <3>3
  <2> QED BY <1>2, <2>1, <2>2, <2>3
          DEF TypeOK, ackVars, CtlRecvOther, hostUnchanged, txVars, timVars, bookVars, upVars
<1>3. CASE CtlAck
  <2>1. Packet("ack", 0, ctlRx, None) \in Packets(NEvts)
    BY PacketType, Sizes, SeqsClosed DEF TypeOK
  <2>2. toHost' \in Seq(Packets(NEvts)) /\ ctlAckReq' \in BOOLEAN
    BY <1>3, <1>a, <2>1, AppendType DEF CtlAck
  <2> QED BY <1>3, <2>2 DEF TypeOK, ackVars, CtlAck, hostUnchanged, txVars, timVars, bookVars, upVars
<1>4. CASE CtlEvent
  <2>1. ctlNext \in 0..NEvts /\ ctlNext + 1 \in 1..(NEvts + 1)
    BY <1>4, Sizes DEF TypeOK, CtlEvent
  <2>2. Packet("data", ctlSeq, ctlRx, ctlNext) \in Packets(NEvts)
    BY <2>1, PacketType, Sizes DEF TypeOK
  <2>3. toHost' \in Seq(Packets(NEvts)) /\ ctlAckReq' \in BOOLEAN
    BY <1>4, <1>a, <2>2, AppendType DEF CtlEvent
  <2> QED BY <1>4, <2>1, <2>3 DEF TypeOK, ackVars, CtlEvent, hostUnchanged, txVars, timVars, bookVars, upVars
<1>5. CASE CtlResend
  <2>1. Packet("data", ctlSeq, ctlRx, ctlOut) \in Packets(NEvts)
    BY PacketType, Sizes DEF TypeOK
  <2>2. toHost' \in Seq(Packets(NEvts)) /\ ctlAckReq' \in BOOLEAN
    BY <1>5, <1>a, <2>1, AppendType DEF CtlResend
  <2> QED BY <1>5, <2>2 DEF TypeOK, ackVars, CtlResend, hostUnchanged, txVars, timVars, bookVars, upVars
<1>6. ASSUME NEW k \in CtlKinds, CtlSend(k) PROVE TypeOK'
  <2>1. k \in LinkMsgs \cup {"ack", "data"}
    BY H5Assumption DEF LinkMsgs
  <2>2. Packet(k, 0, IF k = "sync" THEN 0 ELSE ctlRx, None) \in Packets(NEvts)
    BY <2>1, PacketType, Sizes, SeqsClosed DEF TypeOK
  <2>3. toHost' \in Seq(Packets(NEvts))
    BY <1>6, <1>a, <2>2, AppendType DEF CtlSend
  <2>4. /\ ctlRx' \in Seqs /\ ctlSeq' \in Seqs /\ ctlOut' \in 0..NEvts /\ ctlAckReq' \in BOOLEAN
        /\ ctlMsgs' \in 0..CtlMsgs
    <3>1. CtlMsgs \in Nat
      BY H5Assumption
    <3>2. ctlMsgs' \in 0..CtlMsgs
      BY <1>6, <3>1 DEF TypeOK, CtlSend
    <3> QED BY <1>6, <3>2, SeqsClosed, Sizes DEF TypeOK, CtlSend
  <2> QED BY <1>6, <2>3, <2>4 DEF TypeOK, ackVars, CtlSend, hostUnchanged, txVars, timVars, bookVars, upVars
<1> QED BY <1>1, <1>2, <1>3, <1>4, <1>5, <1>6 DEF CtlStep

LEMMA OtherTypes ==
  ASSUME TypeOK, DataReady \/ LineLoses \/ UNCHANGED vars
  PROVE  TypeOK'
<1>a. /\ toHost \in Seq(Packets(NEvts)) /\ toCtl \in Seq(Packets(NPkts))
      /\ recvData \in Seq(0..Notify) /\ up \in Seq(0..Notify)
  BY DEF TypeOK
<1>1. CASE DataReady
  <2>1. Head(recvData) \in 0..Notify /\ recvData' \in Seq(0..Notify)
    BY <1>1, <1>a, HeadTail DEF DataReady
  <2>2. up' \in Seq(0..Notify)
    BY <1>1, <1>a, <2>1, AppendType DEF DataReady
  <2> QED BY <1>1, <2>1, <2>2 DEF TypeOK, ackVars, DataReady, txVars, timVars, bookVars, ctlVars
<1>2. CASE LineLoses
  <2>1. toHost' \in Seq(Packets(NEvts)) /\ toCtl' \in Seq(Packets(NPkts))
    BY <1>2, <1>a, HeadTail DEF LineLoses
  <2>2. lost' \in 0..MaxLoss
    BY <1>2, H5Assumption DEF TypeOK, LineLoses
  <2> QED BY <1>2, <2>1, <2>2
          DEF TypeOK, ackVars, LineLoses, hostUnchanged, txVars, timVars, bookVars, upVars, ctlVars
<1>3. CASE UNCHANGED vars
  BY <1>3 DEF TypeOK, ackVars, vars, txVars, timVars, bookVars, upVars, ctlVars
<1> QED BY <1>1, <1>2, <1>3

LEMMA TypeInit == Init => TypeOK
<1> SUFFICES ASSUME Init PROVE TypeOK
  OBVIOUS
<1>1. <<>> \in Seq(1..NPkts) /\ <<>> \in Seq(LinkMsgs) /\ <<>> \in Seq(0..Notify)
      /\ <<>> \in Seq(0..NPkts) /\ <<>> \in Seq(Packets(NPkts)) /\ <<>> \in Seq(Packets(NEvts))
  OBVIOUS
<1>2. 0 \in 0..NPkts /\ 0 \in 0..NEvts /\ 1 \in 1..(NEvts + 1) /\ 0 \in 0..CtlMsgs /\ 0 \in 0..MaxLoss
  BY H5Assumption
<1>3. "idle" \in Pcs /\ "idle" \in Conts
  BY ControlPoints
<1>4. NoPkt \in Packets(NPkts) /\ NoPkt \in Packets(NEvts)
  BY Sizes, NoPktType
<1> QED BY <1>1, <1>2, <1>3, <1>4, SeqsClosed DEF Init, TypeOK, None

(* The type invariant needs PacketInOnePlace: that a packet h5_dequeue holds at
   "tail" is one of 1..NPkts follows from who holds what. *)
TypedInv == TypeOK /\ OnePlaceInv

LEMMA TypedInit == Init => TypedInv
BY TypeInit, OnePlaceInit DEF TypedInv

LEMMA TypedStep == TypedInv /\ [Next]_vars => TypedInv'
<1> SUFFICES ASSUME TypedInv, [Next]_vars PROVE TypedInv'
  OBVIOUS
<1>1. OnePlaceInv'
  BY OnePlaceStep DEF TypedInv
<1> QED BY <1>1, AppType, RxTypes, TimerTypes, RetransTypes, CtlTypes, OtherTypes
        DEF TypedInv, Next

(* For all values of the constants every variable of the transport keeps its
   type: the sequence numbers stay within the three bits of the header although
   txseq is turned back and forth by two threads, and no packet number that is
   not the HCI layer's reaches a queue. *)
THEOREM TypeCorrect == Spec => []TypeOK
<1>1. TypedInv => TypeOK
  BY DEF TypedInv
<1> QED BY <1>1, TypedInit, TypedStep, PTL DEF Spec

-----------------------------------------------------------------------------
(* Link establishment: the configuration request *)

(* A continuation is pending only inside h5_wake_up. *)
Pending == \A t \in Threads : cont[t] # "idle" => pc[t] \in {"lock", "dequeue", "tail"}

(* In H5_INITIALIZED the alarm runs, or its handler has been called, or the
   receive task is about to set it, or the host has given up. *)
ConfWatched ==
  link = "init" =>
    \/ armed["conf"] \/ pc["timer"] = "conf"
    \/ pc["rx"] = "startConf" \/ cont["rx"] = "startConf"
    \/ count["conf"] >= ConfRetrans

ConfInv == TypedInv /\ Pending /\ ConfWatched

(* The program counter of one thread moves, its continuation stays. *)
LEMMA PendingGoto ==
  ASSUME TypeOK, Pending, NEW t \in Threads, NEW w \in Pcs, cont' = cont,
         pc' = [pc EXCEPT ![t] = w],
         cont[t] = "idle" \/ w \in {"lock", "dequeue", "tail"}
  PROVE  Pending'
<1>1. \A u \in Threads : pc'[u] = IF u = t THEN w ELSE pc[u]
  BY DEF TypeOK
<1> QED BY <1>1 DEF Pending

LEMMA PendingWake ==
  ASSUME TypeOK, Pending, NEW t \in Threads, NEW w \in Conts, WakeUpThen(t, w)
  PROVE  Pending'
<1>1. \A u \in Threads : u # t => pc'[u] = pc[u] /\ cont'[u] = cont[u]
  BY DEF TypeOK, WakeUpThen, Goto
<1>2. pc'[t] = "lock"
  BY DEF TypeOK, WakeUpThen, Goto
<1> QED BY <1>1, <1>2 DEF Pending

LEMMA PendingSame ==
  ASSUME Pending, UNCHANGED <<pc, cont>>
  PROVE  Pending'
BY DEF Pending

LEMMA PendingWakeUp ==
  ASSUME TypeOK, Pending, NEW t \in Threads, WakeUp(t)
  PROVE  Pending'
<1>1. CASE Lock(t)
  BY <1>1, PendingGoto, ControlPoints DEF Lock, Goto
<1>2. CASE DequeueRel(t)
  BY <1>2, PendingGoto, ControlPoints DEF DequeueRel, Goto
<1>3. CASE SendRel(t)
  BY <1>3, PendingGoto, ControlPoints DEF SendRel, Goto
<1>4. CASE DequeueUnrel(t) \/ DequeueAck(t)
  BY <1>4, PendingSame DEF DequeueUnrel, DequeueAck
<1>5. CASE Unlock(t)
  <2>1. \A u \in Threads : u # t => pc'[u] = pc[u] /\ cont'[u] = cont[u]
    BY <1>5 DEF TypeOK, Unlock, Goto
  <2>2. cont'[t] = "idle"
    BY <1>5 DEF TypeOK, Unlock
  <2> QED BY <2>1, <2>2 DEF Pending
<1> QED BY <1>1, <1>2, <1>3, <1>4, <1>5 DEF WakeUp

(* Outside h5_wake_up no continuation is pending. *)
LEMMA PendingIdle ==
  ASSUME Pending, NEW t \in Threads, pc[t] \notin {"lock", "dequeue", "tail"}
  PROVE  cont[t] = "idle"
BY DEF Pending

LEMMA PendingStep ==
  ASSUME TypeOK, Pending, [Next]_vars
  PROVE  Pending'
<1>a. /\ "app" \in Threads /\ "rx" \in Threads /\ "timer" \in Threads /\ "retrans" \in Threads
      /\ Alarms \subseteq Pcs
  BY ControlPoints DEF Threads, Alarms
<1>1. ASSUME NEW t \in Threads, StartSync(t) PROVE Pending'
  BY <1>1, PendingGoto, PendingIdle, ControlPoints DEF StartSync, Goto
<1>2. CASE AppStep
  <2>1. CASE AppInit \/ AppSend
    BY <2>1, <1>a, PendingWake, ControlPoints DEF AppInit, AppSend
  <2> QED BY <1>1, <1>2, <1>a, <2>1, PendingWakeUp DEF AppStep
<1>3. CASE RxStep
  <2>1. CASE RxOutOfOrder \/ RxReliable \/ RxSyncResp \/ RxResync
    BY <2>1, <1>a, PendingWake, ControlPoints DEF RxOutOfOrder, RxReliable, RxSyncResp, RxResync
  <2>2. CASE RxSync \/ RxConf \/ RxSyncActive
    BY <2>2, <1>a, PendingWake, ControlPoints DEF RxSync, RxConf, RxSyncActive, CtlAnswer
  <2>3. CASE RxUnreliable
    BY <2>3, <1>a, PendingGoto, PendingIdle, ControlPoints DEF RxUnreliable, MayRun, Goto
  <2>4. CASE RemoveAcked
    <3>1. CASE AckedLock \/ AckedWalk
      BY <3>1, <1>a, PendingGoto, PendingIdle, ControlPoints DEF AckedLock, AckedWalk, Goto, Freeing
    <3>2. CASE AckedFirst \/ AckedFree
      <4>1. \E w \in {"unlink", "stop"} : pc' = [pc EXCEPT !["rx"] = w]
        BY <3>2 DEF AckedFirst, AckedFree, Goto
      <4>2. cont' = cont /\ pc["rx"] \in {"first", "unlink"}
        BY <3>2 DEF AckedFirst, AckedFree
      <4> QED BY <4>1, <4>2, <1>a, PendingGoto, PendingIdle, ControlPoints DEF Freeing
    <3>3. CASE RacedFree
      BY <3>3, PendingSame DEF RacedFree
    <3>4. CASE RxAcked
      <4> DEFINE w == CASE rxPkt.t \in LinkMsgs -> "ctl" [] rxPkt.t = "data" -> "pass"
                        [] OTHER -> "idle"
      <4>1. w \in {"ctl", "pass", "idle"} /\ pc' = [pc EXCEPT !["rx"] = w]
        BY <3>4 DEF RxAcked, Goto
      <4>2. w \in Pcs
        BY <4>1, ControlPoints
      <4> HIDE DEF w
      <4> QED BY <3>4, <4>1, <4>2, <1>a, PendingGoto, PendingIdle DEF RxAcked
    <3> QED BY <2>4, <3>1, <3>2, <3>3, <3>4 DEF RemoveAcked
  <2>5. CASE RxPassUp \/ RxConfResp \/ RxCtlIgnored \/ RxStartConf
    BY <2>5, <1>a, PendingGoto, PendingIdle, ControlPoints
       DEF RxPassUp, RxConfResp, RxCtlIgnored, RxStartConf, Goto
  <2> QED BY <1>1, <1>3, <1>a, <2>1, <2>2, <2>3, <2>4, <2>5, PendingWakeUp DEF RxStep
<1>4. CASE TimerStep
  <2>1. ASSUME NEW a \in Alarms, Expire(a) PROVE Pending'
    <3>1. a \in Pcs /\ pc' = [pc EXCEPT !["timer"] = a] /\ cont' = cont /\ pc["timer"] = "idle"
      BY <1>a, <2>1 DEF Expire, MayRun, Goto
    <3> QED BY <3>1, <1>a, PendingGoto, PendingIdle
  <2>2. CASE DataTimeout \/ CountRetrans \/ BaudTimeout
    BY <2>2, <1>a, PendingGoto, PendingIdle, ControlPoints
       DEF DataTimeout, CountRetrans, BaudTimeout, Goto
  <2>3. CASE SyncTimeout \/ ConfTimeout
    <3>1. pc["timer"] \in {"sync", "conf"}
      BY <2>3 DEF SyncTimeout, ConfTimeout
    <3>2. CASE WakeUpThen("timer", "syncInc") \/ WakeUpThen("timer", "confInc")
      BY <3>2, <1>a, PendingWake, ControlPoints
    <3>3. CASE Goto("timer", "idle") /\ cont' = cont
      BY <3>1, <3>3, <1>a, PendingGoto, PendingIdle, ControlPoints DEF Goto
    <3> QED BY <2>3, <3>2, <3>3 DEF SyncTimeout, ConfTimeout
  <2> QED BY <1>4, <1>a, <2>1, <2>2, <2>3, PendingWakeUp DEF TimerStep
<1>5. CASE RetransStep
  <2>1. CASE RetransStart
    <3>1. \E w \in {"move", "idle"} : pc' = [pc EXCEPT !["retrans"] = w]
      BY <2>1 DEF RetransStart, Goto
    <3>2. cont' = cont /\ pc["retrans"] = "idle"
      BY <2>1 DEF RetransStart, MayRun
    <3> QED BY <3>1, <3>2, <1>a, PendingGoto, PendingIdle, ControlPoints
  <2>2. CASE RetransPut
    BY <2>2, <1>a, PendingGoto, PendingIdle, ControlPoints DEF RetransPut, Goto
  <2>4. CASE RetransTake
    <3>1. cont' = cont /\ pc["retrans"] = "move"
      BY <2>4 DEF RetransTake
    <3>2. \A u \in Threads : pc'[u] # pc[u] => u = "retrans" \/ (u = "rx" /\ pc[u] = "unlink")
      BY <2>4 DEF TypeOK, RetransTake
    <3> QED BY <3>1, <3>2 DEF Pending
  <2>3. CASE RetransDone
    BY <2>3, <1>a, PendingWake, ControlPoints DEF RetransDone
  <2> QED BY <1>5, <1>a, <2>1, <2>2, <2>3, <2>4, PendingWakeUp DEF RetransStep
<1>6. CASE DataReady \/ CtlStep \/ LineLoses \/ UNCHANGED vars
  <2>1. UNCHANGED <<pc, cont>>
    BY <1>6 DEF DataReady, CtlStep, LineLoses, vars, hostUnchanged, CtlRecvData, CtlRecvOther,
                CtlAck, CtlEvent, CtlResend, CtlSend
  <2> QED BY <2>1, PendingSame
<1> QED BY <1>2, <1>3, <1>4, <1>5, <1>6 DEF Next

LEMMA WatchedKept ==
  ASSUME ConfWatched, link' = "init" => link = "init", armed["conf"] => armed'["conf"],
         pc["timer"] = "conf" => pc'["timer"] = "conf",
         pc["rx"] = "startConf" \/ cont["rx"] = "startConf"
           => pc'["rx"] = "startConf" \/ cont'["rx"] = "startConf",
         count["conf"] >= ConfRetrans => count'["conf"] >= ConfRetrans
  PROVE  ConfWatched'
BY DEF ConfWatched

LEMMA WatchedWakeUp ==
  ASSUME TypeOK, ConfWatched, NEW t \in Threads, WakeUp(t)
  PROVE  ConfWatched'
<1>a. /\ "rx" \in Threads /\ "timer" \in Threads /\ "conf" \in Alarms /\ "data" \in Alarms
      /\ pc \in [Threads -> Pcs] /\ cont \in [Threads -> Conts] /\ armed \in [Alarms -> BOOLEAN]
  BY DEF Threads, Alarms, TypeOK
<1>1. link' = link /\ count' = count
  BY DEF WakeUp, Lock, DequeueUnrel, DequeueRel, SendRel, DequeueAck, Unlock, timVars
<1>2. armed["conf"] => armed'["conf"]
  <2>1. armed' = armed \/ armed' = [armed EXCEPT !["data"] = TRUE]
    BY DEF WakeUp, Lock, DequeueUnrel, DequeueRel, SendRel, DequeueAck, Unlock, timVars, Arm
  <2> QED BY <2>1, <1>a
<1>3. pc[t] \in {"lock", "dequeue", "tail"}
  BY DEF WakeUp, Lock, DequeueUnrel, DequeueRel, SendRel, DequeueAck, Unlock
<1>4. CASE Unlock(t)
  <2>1. pc' = [pc EXCEPT ![t] = cont[t]] /\ cont' = [cont EXCEPT ![t] = "idle"]
    BY <1>4 DEF Unlock, Goto
  <2>2. \A u \in Threads : /\ pc'[u] = IF u = t THEN cont[u] ELSE pc[u]
                           /\ u # t => cont'[u] = cont[u]
    BY <2>1, <1>a
  <2> QED BY <1>a, <1>1, <1>2, <1>3, <2>2, WatchedKept
<1>5. CASE ~Unlock(t)
  <2>1. cont' = cont /\ (pc' = pc \/ \E w \in Pcs : pc' = [pc EXCEPT ![t] = w])
    BY <1>5, ControlPoints DEF WakeUp, Lock, DequeueUnrel, DequeueRel, SendRel, DequeueAck, Goto
  <2>2. \A u \in Threads : u # t => pc'[u] = pc[u]
    BY <2>1, <1>a
  <2> QED BY <1>a, <1>1, <1>2, <1>3, <2>1, <2>2, WatchedKept
<1> QED BY <1>4, <1>5

(* A step of a thread other than these two that leaves the alarm alone. *)
LEMMA WatchedElsewhere ==
  ASSUME TypeOK, ConfWatched, UNCHANGED <<link, armed>>,
         NEW t \in Threads, t \notin {"rx", "timer"},
         \A u \in Threads \ {t} : pc'[u] = pc[u] /\ cont'[u] = cont[u],
         count'["conf"] = count["conf"]
  PROVE  ConfWatched'
<1>1. "rx" \in Threads \ {t} /\ "timer" \in Threads \ {t}
  BY DEF Threads
<1> QED BY <1>1, WatchedKept

LEMMA WatchedRx ==
  ASSUME TypeOK, Pending, ConfWatched, RxStep
  PROVE  ConfWatched'
<1>a. /\ "rx" \in Threads /\ "timer" \in Threads /\ Alarms = {"data", "sync", "conf", "baud"}
      /\ pc \in [Threads -> Pcs] /\ cont \in [Threads -> Conts]
      /\ armed \in [Alarms -> BOOLEAN] /\ count \in [Alarms -> Nat]
  BY DEF Threads, Alarms, TypeOK
<1> USE <1>a
<1>b. pc["rx"] \notin {"lock", "dequeue", "tail"} => cont["rx"] = "idle"
  BY PendingIdle
<1>1. CASE RxOutOfOrder \/ RxReliable \/ RxUnreliable
  <2>1. UNCHANGED <<link, armed, count>> /\ pc["rx"] = "idle" /\ pc'["timer"] = pc["timer"]
    BY <1>1 DEF RxOutOfOrder, RxReliable, RxUnreliable, MayRun, WakeUpThen, Goto, timVars
  <2> QED BY <1>b, <2>1, WatchedKept
<1>2. CASE RemoveAcked
  <2>1. link' = link /\ pc["rx"] \notin {"startConf", "lock", "dequeue", "tail"}
        /\ pc'["timer"] = pc["timer"]
    BY <1>2 DEF RemoveAcked, AckedLock, AckedWalk, AckedFirst, AckedFree, RacedFree, RxAcked, Goto
  <2>2. UNCHANGED <<armed, count>> \/ StopWhenEmpty
    BY <1>2 DEF RemoveAcked, AckedLock, AckedWalk, AckedFirst, AckedFree, RacedFree, RxAcked, timVars
  <2>3. \/ armed' = [armed EXCEPT !["data"] = FALSE] /\ count' = [count EXCEPT !["data"] = 0]
        \/ armed' = armed /\ count' = count
    BY <2>2, Zenon DEF StopWhenEmpty, Cancel
  <2>4. armed'["conf"] = armed["conf"] /\ count'["conf"] = count["conf"]
    BY <2>3
  <2> QED BY <1>b, <2>1, <2>4, WatchedKept
<1>3. CASE RxPassUp
  <2>1. link' = link /\ pc["rx"] = "pass" /\ count' = count /\ pc'["timer"] = pc["timer"]
    BY <1>3 DEF RxPassUp, Goto
  <2>2. armed' = armed \/ armed' = [armed EXCEPT !["baud"] = TRUE]
    BY <1>3 DEF RxPassUp, Arm
  <2>3. armed'["conf"] = armed["conf"]
    BY <2>2
  <2> QED BY <1>b, <2>1, <2>3, WatchedKept
<1>4. CASE RxSync \/ RxConf \/ RxSyncActive
  <2>1. UNCHANGED <<link, armed, count>> /\ pc["rx"] = "ctl" /\ pc'["timer"] = pc["timer"]
    BY <1>4 DEF RxSync, RxConf, RxSyncActive, CtlAnswer, WakeUpThen, Goto, timVars
  <2> QED BY <1>b, <2>1, WatchedKept
<1>5. CASE RxSyncResp
  <2>1. cont'["rx"] = "startConf"
    BY <1>5 DEF RxSyncResp, WakeUpThen
  <2> QED BY <2>1 DEF ConfWatched
<1>6. CASE RxConfResp \/ RxResync
  <2>1. link' # "init"
    BY <1>6 DEF RxConfResp, RxResync
  <2> QED BY <2>1 DEF ConfWatched
<1>7. CASE RxCtlIgnored
  <2>1. UNCHANGED <<link, armed, count>> /\ pc["rx"] = "ctl" /\ pc'["timer"] = pc["timer"]
    BY <1>7 DEF RxCtlIgnored, Goto, timVars
  <2> QED BY <1>b, <2>1, WatchedKept
<1>8. CASE RxStartConf
  <2>1. armed'["conf"]
    BY <1>8 DEF RxStartConf, Arm
  <2> QED BY <2>1 DEF ConfWatched
<1>9. CASE StartSync("rx")
  <2>1. UNCHANGED <<link, count>> /\ pc["rx"] = "startSync" /\ pc'["timer"] = pc["timer"]
    BY <1>9 DEF StartSync, Goto
  <2>2. armed'["conf"] = armed["conf"]
    BY <1>9 DEF StartSync, Arm
  <2> QED BY <1>b, <2>1, <2>2, WatchedKept
<1> QED BY <1>1, <1>2, <1>3, <1>4, <1>5, <1>6, <1>7, <1>8, <1>9, WatchedWakeUp DEF RxStep

LEMMA WatchedTimer ==
  ASSUME TypeOK, ConfWatched, TimerStep
  PROVE  ConfWatched'
<1>a. /\ "rx" \in Threads /\ "timer" \in Threads /\ Alarms = {"data", "sync", "conf", "baud"}
      /\ pc \in [Threads -> Pcs] /\ cont \in [Threads -> Conts]
      /\ armed \in [Alarms -> BOOLEAN] /\ count \in [Alarms -> Nat]
  BY DEF Threads, Alarms, TypeOK
<1> USE <1>a
<1>1. ASSUME NEW a \in Alarms, Expire(a) PROVE ConfWatched'
  <2>1. /\ UNCHANGED <<link, count, cont>> /\ pc'["rx"] = pc["rx"] /\ pc'["timer"] = a
        /\ pc["timer"] = "idle"
    BY <1>1 DEF Expire, MayRun, Goto
  <2>2. a # "conf" => armed'["conf"] = armed["conf"]
    BY <1>1 DEF Expire, Cancel
  <2> QED BY <2>1, <2>2 DEF ConfWatched
<1>2. CASE DataTimeout \/ BaudTimeout
  <2>1. UNCHANGED <<link, armed, count, cont>> /\ pc'["rx"] = pc["rx"] /\ pc["timer"] # "conf"
    BY <1>2 DEF DataTimeout, BaudTimeout, Goto, timVars
  <2> QED BY <2>1, WatchedKept
<1>3. CASE SyncTimeout
  <2>1. UNCHANGED <<link, count>> /\ pc["timer"] = "sync" /\ pc'["rx"] = pc["rx"]
        /\ cont'["rx"] = cont["rx"]
    BY <1>3 DEF SyncTimeout, WakeUpThen, Goto
  <2>2. armed'["conf"] = armed["conf"]
    BY <1>3 DEF SyncTimeout, Cancel
  <2> QED BY <2>1, <2>2, WatchedKept
<1>4. CASE ConfTimeout
  <2>1. CASE count["conf"] < ConfRetrans
    <3>1. armed'["conf"]
      BY <1>4, <2>1 DEF ConfTimeout, Arm
    <3> QED BY <3>1 DEF ConfWatched
  <2>2. CASE ~(count["conf"] < ConfRetrans)
    <3>1. count'["conf"] = count["conf"] /\ count["conf"] \in Nat /\ ConfRetrans \in Nat
      BY <1>4, H5Assumption DEF ConfTimeout
    <3> QED BY <2>2, <3>1 DEF ConfWatched
  <2> QED BY <2>1, <2>2
<1>5. CASE CountRetrans
  <2> DEFINE a == IF pc["timer"] = "syncInc" THEN "sync" ELSE "conf"
  <2>1. /\ UNCHANGED <<link, armed, cont>> /\ pc'["rx"] = pc["rx"] /\ pc["timer"] # "conf"
        /\ a \in Alarms /\ count' = [count EXCEPT ![a] = count[a] + 1]
    BY <1>5 DEF CountRetrans, Goto
  <2> HIDE DEF a
  <2>2. count'["conf"] \in {count["conf"], count["conf"] + 1} /\ count["conf"] \in Nat
        /\ ConfRetrans \in Nat
    BY <2>1, H5Assumption
  <2> QED BY <2>1, <2>2, WatchedKept
<1> QED BY <1>1, <1>2, <1>3, <1>4, <1>5, WatchedWakeUp DEF TimerStep

LEMMA WatchedOthers ==
  ASSUME TypeOK, ConfWatched,
         AppStep \/ RetransStep \/ DataReady \/ CtlStep \/ LineLoses \/ UNCHANGED vars
  PROVE  ConfWatched'
<1>a. /\ "app" \in Threads /\ "retrans" \in Threads
      /\ Alarms = {"data", "sync", "conf", "baud"}
      /\ pc \in [Threads -> Pcs] /\ cont \in [Threads -> Conts]
      /\ armed \in [Alarms -> BOOLEAN] /\ count \in [Alarms -> Nat]
  BY DEF Threads, Alarms, TypeOK
<1> USE <1>a
<1>1. CASE AppInit \/ AppSend
  <2>1. UNCHANGED <<link, armed, count>>
        /\ \A u \in Threads \ {"app"} : pc'[u] = pc[u] /\ cont'[u] = cont[u]
    BY <1>1 DEF AppInit, AppSend, WakeUpThen, Goto, timVars
  <2> QED BY <2>1, WatchedElsewhere
<1>2. CASE StartSync("app")
  <2>1. link' = link /\ count' = count /\ cont' = cont /\ pc'["rx"] = pc["rx"]
        /\ pc'["timer"] = pc["timer"]
    BY <1>2 DEF StartSync, Goto, Threads
  <2>2. armed'["conf"] = armed["conf"]
    BY <1>2 DEF StartSync, Arm
  <2> QED BY <2>1, <2>2, WatchedKept
<1>3. CASE RetransStart \/ RetransPut
  <2>1. UNCHANGED <<link, armed, count>>
        /\ \A u \in Threads \ {"retrans"} : pc'[u] = pc[u] /\ cont'[u] = cont[u]
    BY <1>3 DEF RetransStart, RetransPut, Goto, timVars
  <2> QED BY <2>1, WatchedElsewhere
<1>4. CASE RetransDone
  <2>1. UNCHANGED <<link, armed>> /\ count'["conf"] = count["conf"]
        /\ \A u \in Threads \ {"retrans"} : pc'[u] = pc[u] /\ cont'[u] = cont[u]
    BY <1>4 DEF RetransDone, WakeUpThen, Goto
  <2> QED BY <2>1, WatchedElsewhere
<1>6. CASE RetransTake
  <2>1. UNCHANGED <<link, armed, count, cont>> /\ pc'["timer"] = pc["timer"]
        /\ (pc["rx"] = "startConf" => pc'["rx"] = "startConf")
    BY <1>6 DEF RetransTake, timVars, Threads
  <2> QED BY <2>1, WatchedKept
<1>5. CASE DataReady \/ CtlStep \/ LineLoses \/ UNCHANGED vars
  <2>1. UNCHANGED <<link, armed, count, pc, cont>>
    BY <1>5 DEF DataReady, CtlStep, LineLoses, vars, hostUnchanged, CtlRecvData, CtlRecvOther,
                CtlAck, CtlEvent, CtlResend, CtlSend, timVars
  <2> QED BY <2>1, WatchedKept
<1> QED BY <1>1, <1>2, <1>3, <1>4, <1>5, <1>6, WatchedWakeUp DEF AppStep, RetransStep

LEMMA ConfInit == Init => ConfInv
<1> SUFFICES ASSUME Init PROVE ConfInv
  OBVIOUS
<1>1. TypedInv
  BY TypedInit
<1>2. Pending /\ ConfWatched
  BY DEF Init, Pending, ConfWatched
<1> QED BY <1>1, <1>2 DEF ConfInv

LEMMA ConfStep == ConfInv /\ [Next]_vars => ConfInv'
<1> SUFFICES ASSUME ConfInv, [Next]_vars PROVE ConfInv'
  OBVIOUS
<1>1. TypedInv' /\ Pending'
  BY TypedStep, PendingStep DEF ConfInv, TypedInv
<1>2. ConfWatched'
  BY WatchedRx, WatchedTimer, WatchedOthers DEF ConfInv, TypedInv, Next
<1> QED BY <1>1, <1>2 DEF ConfInv

(* For every schedule of the threads, every number of losses and every message
   of the controller: when the receive task and the timer task are at rest in
   H5_INITIALIZED and the alarm of the configuration request does not run, the
   host has sent its ConfRetrans retransmissions.  h5_wake_up stands between the
   change of the state and h5_start_conf_retrans_timer; no step of another thread
   in that gap leaves the link without an alarm. *)
THEOREM ConfRequestWatched == Spec => []ConfKeepsTrying
<1>1. ConfInv => ConfKeepsTrying
  <2> SUFFICES ASSUME ConfInv, link = "init", pc["rx"] = "idle", pc["timer"] = "idle",
                      ~armed["conf"]
               PROVE  count["conf"] >= ConfRetrans
    BY DEF ConfKeepsTrying
  <2>1. cont["rx"] = "idle"
    BY PendingIdle DEF ConfInv, Threads
  <2> QED BY <2>1 DEF ConfInv, ConfWatched
<1> QED BY <1>1, ConfInit, ConfStep, PTL DEF Spec
=============================================================================
