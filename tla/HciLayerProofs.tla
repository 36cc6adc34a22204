--------------------------- MODULE HciLayerProofs ---------------------------
(***************************************************************************)
(* Theorems about HciLayer for every set of commands and packets: its      *)
(* types and its timer, then who owns what - the data packets between      *)
(* L2CAP and the fragmenter, and the command buffers between their         *)
(* callers, the host task, the controller and the receive thread.          *)
(***************************************************************************)
EXTENDS HciLayer, SequenceLemmas

(* Types, with what the host task's program counter implies. *)
TypeInv == TypeOK /\ HostState

LEMMA TypeInit == Init => TypeInv
<1> SUFFICES ASSUME Init PROVE TypeInv
  OBVIOUS
<1>1. rxEvt \in Events
  BY ConstantsAssumption DEF Init, Events, NoEvent
<1>2. /\ posting \in [Cmds \cup Pkts -> 0..2]
      /\ left \in [Pkts -> Int] /\ seg \in [Pkts -> Nat]
      /\ owner \in [Pkts -> {"l2cap", "hci", "returned", "freed"}]
      /\ notified \in [Cmds -> Nat] /\ freed \in [Cmds -> Nat]
  BY ConstantsAssumption DEF Init
<1>3. /\ cmdQ \in Seq(Cmds) /\ pktQ \in Seq(Pkts) /\ pending \in Seq(Cmds)
      /\ toCtl \in Seq(Cmds) /\ ctl \in Seq(Cmds) /\ evtQ \in Seq(Events)
  BY DEF Init
<1>4. /\ credits \in Int /\ signals \in 0..QueueLen /\ adv \in 0..CtlSlots
      /\ alarm \in {"off", "armed", "fired"}
      /\ cur \in Pkts \cup {None} /\ hostCmd \in Cmds \cup {None}
      /\ rxCmd \in Cmds \cup {None} /\ issued \subseteq Cmds
      /\ hostPc \in HostPcs /\ rxPc \in RxPcs /\ hostTmp \in Int
      /\ timPc \in TimPcs /\ timCmd \in Cmds \cup {None}
  BY ConstantsAssumption DEF Init, HostPcs, RxPcs, TimPcs
<1>5. HostState
  BY DEF Init, HostState
<1>6. timerSet \in BOOLEAN
  BY Zenon DEF Init
<1> QED BY <1>1, <1>2, <1>3, <1>4, <1>5, <1>6 DEF TypeInv, TypeOK

(* The fragmenter keeps the types of its variables. *)
LEMMA FragmentType ==
  ASSUME TypeOK, NEW p \in Pkts, FragmentAndDispatch(p)
  PROVE  /\ cur' \in Pkts \cup {None}
         /\ left' \in [Pkts -> Int]
         /\ seg' \in [Pkts -> Nat]
         /\ owner' \in [Pkts -> {"l2cap", "hci", "returned", "freed"}]
<1>1. left \in [Pkts -> Int] /\ seg \in [Pkts -> Nat]
      /\ owner \in [Pkts -> {"l2cap", "hci", "returned", "freed"}]
  BY DEF TypeOK
<1>2. left' \in [Pkts -> Int]
  BY <1>1 DEF FragmentAndDispatch
<1>3. CASE left[p] > 1 /\ seg[p] # 1 /\ cur' = p /\ owner' = owner
           /\ seg' = [seg EXCEPT ![p] = IF @ = 0 THEN 0 ELSE @ - 1]
  <2>1. (IF seg[p] = 0 THEN 0 ELSE seg[p] - 1) \in Nat
    BY <1>1
  <2> QED BY <1>1, <1>2, <1>3, <2>1
<1>4. ASSUME NEW o \in {"returned", "freed"}, cur' = None,
             seg' = [seg EXCEPT ![p] = 0], owner' = [owner EXCEPT ![p] = o]
      PROVE  /\ cur' \in Pkts \cup {None} /\ seg' \in [Pkts -> Nat]
             /\ owner' \in [Pkts -> {"l2cap", "hci", "returned", "freed"}]
  BY <1>1, <1>4
<1>5. CASE cur' = None /\ seg' = seg /\ owner' = [owner EXCEPT ![p] = "freed"]
  BY <1>1, <1>2, <1>5
<1> QED BY <1>2, <1>3, <1>4, <1>5 DEF FragmentAndDispatch

(* A post never takes the signal queue beyond its length. *)
LEMMA PostSignalType ==
  ASSUME signals \in 0..QueueLen, PostSignal PROVE signals' \in 0..QueueLen
BY ConstantsAssumption DEF PostSignal

LEMMA TypeCallers == TypeInv /\ Callers => TypeInv'
<1> SUFFICES ASSUME TypeInv, Callers PROVE TypeInv'
  OBVIOUS
<1> USE ConstantsAssumption
<1>1. ASSUME NEW c \in Cmds, TransmitCommand(c) PROVE TypeInv'
  <2>1. cmdQ' \in Seq(Cmds) /\ cmdQ' # <<>>
    <3>1. cmdQ \in Seq(Cmds) /\ cmdQ' = Append(cmdQ, c)
      BY <1>1 DEF TypeInv, TypeOK, TransmitCommand
    <3> QED BY <3>1, AppendProperties
  <2>2. posting' \in [Cmds \cup Pkts -> 0..2]
    BY <1>1 DEF TypeInv, TypeOK, TransmitCommand
  <2>3. issued' \subseteq Cmds
    BY <1>1 DEF TypeInv, TypeOK, TransmitCommand
  <2>4. UNCHANGED <<credits, pktQ, timVars, signals, fragVars, hostVars,
                    rxVars, notified, freed, ctlVars>>
    BY <1>1 DEF TransmitCommand
  <2> QED BY <2>1, <2>2, <2>3, <2>4
          DEF TypeInv, TypeOK, HostState, timVars, wakeVars, fragVars, hostVars, rxVars,
              ctlVars
<1>2. ASSUME NEW p \in Pkts, NEW s \in SegLimits, TransmitPacket(p, s)
      PROVE  TypeInv'
  <2>1. pktQ' \in Seq(Pkts)
    BY <1>2, AppendProperties DEF TypeInv, TypeOK, TransmitPacket
  <2>2. posting' \in [Cmds \cup Pkts -> 0..2]
    BY <1>2 DEF TypeInv, TypeOK, TransmitPacket
  <2>3. seg' \in [Pkts -> Nat]
    BY <1>2 DEF TypeInv, TypeOK, TransmitPacket
  <2>4. owner' \in [Pkts -> {"l2cap", "hci", "returned", "freed"}]
    BY <1>2 DEF TypeInv, TypeOK, TransmitPacket
  <2>5. UNCHANGED <<credits, cmdQ, timVars, signals, cur, left, hostVars,
                    rxVars, bookVars, ctlVars>>
    BY <1>2 DEF TransmitPacket
  <2> QED BY <2>1, <2>2, <2>3, <2>4, <2>5
          DEF TypeInv, TypeOK, HostState, timVars, wakeVars, hostVars, rxVars, bookVars,
              ctlVars
<1>3. ASSUME NEW x \in Cmds \cup Pkts, Post(x) PROVE TypeInv'
  <2>1. posting' \in [Cmds \cup Pkts -> 0..2]
    <3>1. posting[x] \in 0..2 /\ posting[x] > 0
      BY <1>3 DEF TypeInv, TypeOK, Post
    <3> QED BY <1>3, <3>1 DEF TypeInv, TypeOK, Post
  <2>2. signals' \in 0..QueueLen
    BY <1>3 DEF TypeInv, TypeOK, Post, PostSignal
  <2>3. UNCHANGED <<credits, qVars, timVars, fragVars, hostVars, rxVars,
                    bookVars, ctlVars>>
    BY <1>3 DEF Post
  <2> QED BY <2>1, <2>2, <2>3
          DEF TypeInv, TypeOK, HostState, qVars, timVars, wakeVars, fragVars, hostVars,
              rxVars, bookVars, ctlVars
<1> QED BY <1>1, <1>2, <1>3 DEF Callers

LEMMA TypeHost == TypeInv /\ HostTask => TypeInv'
<1> SUFFICES ASSUME TypeInv, HostTask PROVE TypeInv'
  OBVIOUS
<1> USE ConstantsAssumption DEF TypeInv, TypeOK, HostState, HostPcs
<1>1. CASE HostReceive
  <2>1. signals' \in 0..QueueLen /\ hostPc' = "select"
    BY <1>1 DEF HostReceive
  <2>2. UNCHANGED <<credits, qVars, timVars, posting, fragVars, hostCmd,
                    hostTmp, rxVars, bookVars, ctlVars>>
    BY <1>1 DEF HostReceive
  <2> HIDE DEF TypeInv, TypeOK
  <2>3. TypeInv
    OBVIOUS
  <2> QED BY <2>1, <2>2, <2>3 DEF TypeInv, TypeOK, qVars, timVars, wakeVars,
          fragVars, rxVars, bookVars, ctlVars
<1>2. CASE HostContinue
  <2>1. cur \in Pkts /\ FragmentAndDispatch(cur)
    BY <1>2 DEF HostContinue
  <2> QED BY <1>2, <2>1, FragmentType
          DEF HostContinue, qVars, timVars, wakeVars, rxVars, bookVars, ctlVars
<1>3. CASE HostSelect
  BY <1>3 DEF HostSelect, qVars, timVars, wakeVars, fragVars, rxVars, bookVars, ctlVars
<1>4. CASE HostPacket
  <2>1. CASE pktQ = <<>>
    BY SMTT(30), <1>4, <2>1 DEF HostPacket, fragVars, timVars, wakeVars, rxVars, bookVars, ctlVars
  <2>2. CASE pktQ # <<>>
    <3>1. Head(pktQ) \in Pkts /\ Tail(pktQ) \in Seq(Pkts)
      BY <2>2, HeadTailProperties
    <3> QED BY ZenonT(40), <1>4, <2>2, <3>1, FragmentType
            DEF HostPacket, timVars, wakeVars, rxVars, bookVars, ctlVars
  <2> QED BY <2>1, <2>2
<1>5. CASE HostDequeue
  <2>1. Head(cmdQ) \in Cmds /\ Tail(cmdQ) \in Seq(Cmds)
    BY <1>5, HeadTailProperties DEF HostDequeue
  <2>2. toCtl' \in Seq(Cmds)
    <3>1. toCtl' = toCtl \/ toCtl' = Append(toCtl, Head(cmdQ))
      BY <1>5, Zenon DEF HostDequeue
    <3>2. toCtl \in Seq(Cmds)
      OBVIOUS
    <3>3. Append(toCtl, Head(cmdQ)) \in Seq(Cmds)
      BY <2>1, <3>2, AppendProperties, Zenon
    <3> QED BY <3>1, <3>2, <3>3, Zenon
  <2>3. freed' \in [Cmds -> Nat]
    <3>1. freed' = freed \/ freed' = [freed EXCEPT ![Head(cmdQ)] = @ + 1]
      BY <1>5, Zenon DEF HostDequeue
    <3>2. freed \in [Cmds -> Nat]
      OBVIOUS
    <3> HIDE DEF TypeInv, TypeOK
    <3> QED BY <2>1, <3>1, <3>2
  <2>4. hostPc' \in {"recv", "load"} /\ hostCmd' \in Cmds \cup {None}
        /\ (hostPc' = "load" => hostCmd' \in Cmds /\ Kind[hostCmd'] # "npd")
    <3>1. \/ hostPc' = "recv" /\ hostCmd' = hostCmd
          \/ /\ hostPc' = "load" /\ hostCmd' = Head(cmdQ)
             /\ Kind[hostCmd'] # "npd"
      BY <1>5 DEF HostDequeue
    <3>2. hostCmd \in Cmds \cup {None}
      OBVIOUS
    <3> HIDE DEF TypeInv, TypeOK, HostState, HostPcs
    <3> QED BY <2>1, <3>1, <3>2
  <2>5. /\ cmdQ' = Tail(cmdQ)
        /\ UNCHANGED <<credits, pktQ, timVars, signals, posting, fragVars,
                       hostTmp, rxVars, issued, notified, ctl, adv, evtQ>>
    BY <1>5 DEF HostDequeue
  <2>6. TypeInv
    OBVIOUS
  <2> HIDE DEF TypeInv, TypeOK, HostState
  <2>7. hostPc \in HostPcs /\ hostTmp \in Int /\ hostPc' \in HostPcs
    BY <2>4, <2>6 DEF TypeInv, TypeOK
  <2>8. HostState'
    BY <2>4 DEF HostState
  <2> QED BY <2>1, <2>2, <2>3, <2>4, <2>5, <2>6, <2>7, <2>8
          DEF TypeInv, TypeOK, timVars, wakeVars, fragVars, rxVars
<1>6. CASE HostLoad
  BY <1>6 DEF HostLoad, qVars, timVars, wakeVars, fragVars, rxVars, bookVars, ctlVars
<1>7. CASE HostStore
  <2>1. credits' \in Int /\ hostPc' = "append" /\ hostPc = "store"
    BY <1>7 DEF HostStore
  <2> QED BY <1>7, <2>1 DEF HostStore, qVars, timVars, wakeVars, fragVars, rxVars, bookVars, ctlVars
<1>8. CASE HostAppend
  <2>1. pending' \in Seq(Cmds)
    BY <1>8, AppendProperties DEF HostAppend, wakeVars
  <2> QED BY <1>8, <2>1
          DEF HostAppend, wakeVars, qVars, fragVars, rxVars, bookVars, ctlVars
<1>9. CASE HostSend
  <2>1. toCtl' \in Seq(Cmds)
    BY <1>9, AppendProperties DEF HostSend
  <2> QED BY <1>9, <2>1
          DEF HostSend, qVars, timVars, wakeVars, fragVars, rxVars, bookVars
<1>10. CASE HostTimer
  BY <1>10 DEF HostTimer, wakeVars, RestartTimer, qVars, fragVars, rxVars, bookVars,
     ctlVars
<1> QED BY <1>1, <1>2, <1>3, <1>4, <1>5, <1>6, <1>7, <1>8, <1>9, <1>10
        DEF HostTask

LEMMA TypeRx == TypeInv /\ RxThread => TypeInv'
<1> SUFFICES ASSUME TypeInv, RxThread PROVE TypeInv'
  OBVIOUS
<1> USE ConstantsAssumption DEF TypeInv, TypeOK, HostState, RxPcs
<1>1. CASE RxEvent
  <2>1. Head(evtQ) \in Events /\ Tail(evtQ) \in Seq(Events)
    BY <1>1, HeadTailProperties DEF RxEvent
  <2>2. Head(evtQ).n \in Int
    BY <2>1 DEF Events
  <2> QED BY <1>1, <2>1, <2>2
          DEF RxEvent, qVars, timVars, wakeVars, fragVars, hostVars, bookVars
<1>2. CASE RxMatch
  <2>1. CASE rxCmd' = None /\ UNCHANGED <<pending, notified>>
    BY <1>2, <2>1 DEF RxMatch, wakeVars, qVars, fragVars, hostVars, ctlVars
  <2>2. ASSUME NEW i \in Matches(rxEvt.cmd),
               rxCmd' = pending[i], pending' = RemoveAt(pending, i),
               notified' = IF Notifies(pending[i], rxEvt.type)
                           THEN [notified EXCEPT ![pending[i]] = @ + 1]
                           ELSE notified
        PROVE  TypeInv'
    <3>1. i \in 1..Len(pending)
      BY <2>2 DEF Matches
    <3>2. pending[i] \in Cmds /\ RemoveAt(pending, i) \in Seq(Cmds)
      BY <3>1, RemoveAtType
    <3>3. notified' \in [Cmds -> Nat]
      <4>1. notified[pending[i]] + 1 \in Nat
        <5>1. notified \in [Cmds -> Nat]
          OBVIOUS
        <5> HIDE DEF TypeInv, TypeOK
        <5> QED BY <3>2, <5>1
      <4> QED BY <2>2, <3>2, <4>1
    <3> QED BY <1>2, <2>2, <3>2, <3>3
            DEF RxMatch, wakeVars, qVars, fragVars, hostVars, ctlVars
  <2> QED BY <1>2, <2>1, <2>2 DEF RxMatch, wakeVars
<1>3. CASE RxTimer
  BY <1>3 DEF RxTimer, wakeVars, RestartTimer, qVars, fragVars, hostVars, bookVars,
     ctlVars
<1>4. CASE RxTest
  BY <1>4 DEF RxTest, qVars, timVars, wakeVars, fragVars, hostVars, bookVars, ctlVars
<1>5. CASE RxPost
  <2>1. signals' \in 0..QueueLen
    <3>1. PostSignal \/ signals' = signals
      BY <1>5 DEF RxPost
    <3> QED BY <3>1, PostSignalType
  <2> QED BY <1>5, <2>1
          DEF RxPost, qVars, timVars, wakeVars, fragVars, hostVars, bookVars, ctlVars
<1>6. CASE RxFree
  <2>1. NoEvent \in Events
    BY DEF NoEvent, Events
  <2>2. freed' \in [Cmds -> Nat]
    <3>1. freed \in [Cmds -> Nat] /\ rxCmd \in Cmds \cup {None}
          /\ freed' = IF rxCmd = None THEN freed
                      ELSE [freed EXCEPT ![rxCmd] = @ + 1]
      BY <1>6 DEF RxFree
    <3> HIDE DEF TypeInv, TypeOK
    <3> QED BY <3>1
  <2> QED BY <1>6, <2>1, <2>2
          DEF RxFree, qVars, timVars, wakeVars, fragVars, hostVars, ctlVars
<1> QED BY <1>1, <1>2, <1>3, <1>4, <1>5, <1>6 DEF RxThread

LEMMA TypeController == TypeInv /\ Controller => TypeInv'
<1> SUFFICES ASSUME TypeInv, Controller PROVE TypeInv'
  OBVIOUS
<1> USE ConstantsAssumption DEF TypeInv, TypeOK, HostState
<1>1. CASE CtlReceive
  <2>1. Head(toCtl) \in Cmds /\ Tail(toCtl) \in Seq(Cmds)
    BY <1>1, HeadTailProperties DEF CtlReceive
  <2>2. ctl' \in Seq(Cmds)
    <3>1. ctl' = ctl \/ ctl' = Append(ctl, Head(toCtl))
      BY <1>1, Zenon DEF CtlReceive
    <3>2. ctl \in Seq(Cmds)
      OBVIOUS
    <3>3. Append(ctl, Head(toCtl)) \in Seq(Cmds)
      BY <2>1, <3>2, AppendProperties, Zenon
    <3> QED BY <3>1, <3>2, <3>3, Zenon
  <2>3. adv' \in 0..CtlSlots
    <3>1. adv' = adv \/ adv' = (IF adv > 0 THEN adv - 1 ELSE 0)
      BY <1>1, Zenon DEF CtlReceive
    <3>2. adv \in 0..CtlSlots
      OBVIOUS
    <3>3. CtlSlots \in 1..255
      OBVIOUS
    <3> HIDE DEF TypeInv, TypeOK
    <3> QED BY <3>1, <3>2, <3>3
  <2> QED BY <1>1, <2>1, <2>2, <2>3
          DEF CtlReceive, qVars, timVars, wakeVars, fragVars, hostVars, rxVars, bookVars
<1>2. CASE CtlAnswer
  <2>1. PICK i \in 1..Len(ctl), type \in {"complete", "status"},
             n \in 0..CtlSlots :
          /\ evtQ' = Append(evtQ, [type |-> type, n |-> n, cmd |-> ctl[i]])
          /\ ctl' = RemoveAt(ctl, i)
          /\ adv' = n
          /\ UNCHANGED <<credits, qVars, timVars, signals, posting, fragVars,
                         hostVars, rxVars, bookVars, toCtl>>
    BY <1>2 DEF CtlAnswer
  <2>2. RemoveAt(ctl, i) \in Seq(Cmds)
    BY RemoveAtType
  <2>3. [type |-> type, n |-> n, cmd |-> ctl[i]] \in Events
    BY DEF Events
  <2>4. evtQ' \in Seq(Events)
    BY <2>1, <2>3, AppendProperties
  <2> QED BY <2>1, <2>2, <2>4
          DEF qVars, timVars, wakeVars, fragVars, hostVars, rxVars, bookVars
<1>3. CASE CtlNop
  <2>1. PICK n \in 1..CtlSlots :
          adv' = n /\ evtQ' = Append(evtQ, [type |-> "complete", n |-> n,
                                           cmd |-> None])
    BY <1>3 DEF CtlNop
  <2>2. [type |-> "complete", n |-> n, cmd |-> None] \in Events
    BY DEF Events
  <2>3. evtQ' \in Seq(Events)
    BY <2>1, <2>2, AppendProperties
  <2>4. adv' \in 0..CtlSlots
    BY <2>1
  <2>5. UNCHANGED <<credits, qVars, timVars, signals, posting, fragVars,
                    hostVars, rxVars, bookVars, toCtl, ctl>>
    BY <1>3 DEF CtlNop
  <2> QED BY <2>3, <2>4, <2>5
          DEF qVars, timVars, wakeVars, fragVars, hostVars, rxVars, bookVars
<1> QED BY <1>1, <1>2, <1>3 DEF Controller

LEMMA TypeStep == TypeInv /\ [Next]_vars => TypeInv'
<1> SUFFICES ASSUME TypeInv, [Next]_vars PROVE TypeInv'
  OBVIOUS
<1>1. CASE CommandTimedOut
  <2>1. timPc' \in TimPcs /\ timCmd' \in Cmds \cup {None}
    <3>1. pending # <<>> => Head(pending) \in Cmds
      BY HeadTailProperties DEF TypeInv, TypeOK
    <3> QED BY <1>1, <3>1 DEF TypeInv, TypeOK, CommandTimedOut, AlarmExpires,
            TimedOutRead, TimedOutLog, TimPcs
  <2> QED BY <1>1, <2>1 DEF TypeInv, TypeOK, HostState, CommandTimedOut,
          AlarmExpires, TimedOutRead, TimedOutLog, qVars, fragVars, hostVars,
          rxVars, bookVars, ctlVars
<1>2. CASE UNCHANGED vars
  BY <1>2 DEF TypeInv, TypeOK, HostState, vars, qVars, timVars, wakeVars, fragVars,
     hostVars, rxVars, bookVars, ctlVars
<1> QED BY <1>1, <1>2, TypeCallers, TypeHost, TypeRx, TypeController DEF Next

(* Every reachable state is well typed: the credits stay an integer, no    *)
(* more than HCI_HOST_QUEUE_LEN signals are queued, and the host task      *)
(* never dequeues from an empty command_queue.                             *)
THEOREM TypeCorrect == Spec => []TypeOK
<1>1. TypeInv => TypeOK
  BY DEF TypeInv
<1> QED BY <1>1, TypeInit, TypeStep, PTL DEF Spec

-----------------------------------------------------------------------------
(* Commands in the transport. *)
LEMMA AppendCommandIn ==
  ASSUME NEW s \in Seq(Cmds), NEW c \in Cmds, NoCommandIn(s)
  PROVE  /\ Kind[c] = "npd" => NoCommandIn(Append(s, c))
         /\ Kind[c] # "npd" => OneCommandIn(Append(s, c))
<1> DEFINE t == Append(s, c)
<1>1. /\ Len(t) = Len(s) + 1 /\ Len(s) \in Nat
      /\ \A i \in 1..Len(s) : t[i] = s[i]
      /\ t[Len(s) + 1] = c
  BY AppendProperties
<1> HIDE DEF t
<1>2. \A i \in 1..Len(s) : Kind[t[i]] = "npd"
  BY <1>1 DEF NoCommandIn
<1>3. Kind[c] = "npd" => NoCommandIn(t)
  BY <1>1, <1>2 DEF NoCommandIn
<1>4. Kind[c] # "npd" => OneCommandIn(t)
  <2> SUFFICES ASSUME Kind[c] # "npd" PROVE OneCommandIn(t)
    OBVIOUS
  <2>1. Len(t) \in 1..Len(t) /\ Kind[t[Len(t)]] # "npd"
    BY <1>1
  <2>2. \A j \in 1..Len(t) : j # Len(t) => Kind[t[j]] = "npd"
    BY <1>1, <1>2
  <2> QED BY <2>1, <2>2 DEF OneCommandIn
<1> QED BY <1>3, <1>4 DEF t

LEMMA TailCommandIn ==
  ASSUME NEW s \in Seq(Cmds), s # <<>>
  PROVE  /\ NoCommandIn(s) => Kind[Head(s)] = "npd" /\ NoCommandIn(Tail(s))
         /\ OneCommandIn(s) /\ Kind[Head(s)] = "npd" => OneCommandIn(Tail(s))
         /\ OneCommandIn(s) /\ Kind[Head(s)] # "npd" => NoCommandIn(Tail(s))
<1> DEFINE t == Tail(s)
<1>1. /\ Len(s) \in Nat /\ Len(s) >= 1 /\ Len(t) = Len(s) - 1
      /\ \A i \in 1..Len(t) : t[i] = s[i + 1]
      /\ Head(s) = s[1]
  BY HeadTailProperties
<1> HIDE DEF t
<1>2. NoCommandIn(s) => Kind[Head(s)] = "npd" /\ NoCommandIn(t)
  BY <1>1 DEF NoCommandIn
<1>3. ASSUME OneCommandIn(s), Kind[Head(s)] = "npd" PROVE OneCommandIn(t)
  <2>1. PICK i \in 1..Len(s) :
          Kind[s[i]] # "npd" /\ \A j \in 1..Len(s) : j # i => Kind[s[j]] = "npd"
    BY <1>3 DEF OneCommandIn
  <2>2. i - 1 \in 1..Len(t) /\ t[i - 1] = s[i]
    BY <1>1, <1>3, <2>1
  <2>3. \A j \in 1..Len(t) : j # i - 1 => Kind[t[j]] = "npd"
    BY <1>1, <2>1
  <2> QED BY <2>1, <2>2, <2>3 DEF OneCommandIn
<1>4. ASSUME OneCommandIn(s), Kind[Head(s)] # "npd" PROVE NoCommandIn(t)
  BY <1>1, <1>4 DEF OneCommandIn, NoCommandIn
<1> QED BY <1>2, <1>3, <1>4 DEF t

(* Credits in the events on their way up. *)
LEMMA AppendCredit ==
  ASSUME NEW s \in Seq(Events), NEW e \in Events, NoCreditIn(s)
  PROVE  /\ e.n = 0 => NoCreditIn(Append(s, e))
         /\ e.n = 1 => CreditLastIn(Append(s, e))
<1> DEFINE t == Append(s, e)
<1>1. /\ Len(t) = Len(s) + 1 /\ Len(s) \in Nat /\ t # <<>>
      /\ \A i \in 1..Len(s) : t[i] = s[i]
      /\ t[Len(s) + 1] = e
  BY AppendProperties
<1> HIDE DEF t
<1>2. \A i \in 1..Len(s) : t[i].n = 0
  BY <1>1 DEF NoCreditIn
<1>3. e.n = 0 => NoCreditIn(t)
  BY <1>1, <1>2 DEF NoCreditIn
<1>4. e.n = 1 => CreditLastIn(t)
  BY <1>1, <1>2 DEF CreditLastIn
<1> QED BY <1>3, <1>4 DEF t

LEMMA TailCredit ==
  ASSUME NEW s \in Seq(Events), s # <<>>
  PROVE  /\ NoCreditIn(s) => Head(s).n = 0 /\ NoCreditIn(Tail(s))
         /\ CreditLastIn(s) => \/ Head(s).n = 1 /\ Tail(s) = <<>>
                               \/ Head(s).n = 0 /\ CreditLastIn(Tail(s))
<1> DEFINE t == Tail(s)
<1>1. /\ Len(s) \in Nat /\ Len(s) >= 1 /\ Len(t) = Len(s) - 1
      /\ \A i \in 1..Len(t) : t[i] = s[i + 1]
      /\ Head(s) = s[1] /\ t \in Seq(Events)
  BY HeadTailProperties
<1>2. Len(t) = 0 <=> t = <<>>
  BY <1>1, EmptySeq
<1> HIDE DEF t
<1>3. NoCreditIn(s) => Head(s).n = 0 /\ NoCreditIn(t)
  BY <1>1 DEF NoCreditIn
<1>4. CreditLastIn(s) /\ Len(s) = 1 => Head(s).n = 1 /\ t = <<>>
  BY <1>1, <1>2 DEF CreditLastIn
<1>5. CreditLastIn(s) /\ Len(s) # 1 => Head(s).n = 0 /\ CreditLastIn(t)
  BY SMTT(30), <1>1, <1>2 DEF CreditLastIn
<1> QED BY <1>3, <1>4, <1>5 DEF t

(* A step that touches neither the credit's places nor the host task's     *)
(* claim on it keeps OneCredit.                                            *)
LEMMA CreditStays ==
  ASSUME OneCredit, UNCHANGED <<credits, toCtl, ctl, adv, evtQ>>,
         HostTakesCredit' => credits = 1, HostHasCredit' = HostHasCredit,
         (hostPc = "store" => hostTmp = 1)'
  PROVE  OneCredit'
<1>1. /\ NoCommandIn(toCtl)' = NoCommandIn(toCtl)
      /\ OneCommandIn(toCtl)' = OneCommandIn(toCtl)
      /\ NoCreditIn(evtQ)' = NoCreditIn(evtQ)
      /\ CreditLastIn(evtQ)' = CreditLastIn(evtQ)
  BY DEF NoCommandIn, OneCommandIn, NoCreditIn, CreditLastIn
<1> QED BY <1>1 DEF OneCredit, CreditNotAtHost

CreditInv == TypeInv /\ OneCredit

LEMMA CreditHost ==
  ASSUME CreditInv, HostTask, CtlSlots = 1 PROVE OneCredit'
<1> USE DEF CreditInv
<1>a. hostPc \in HostPcs
  BY DEF TypeInv, TypeOK
<1>1. CASE HostReceive \/ HostContinue \/ HostPacket
  BY <1>1, CreditStays DEF HostReceive, HostContinue, HostPacket, ctlVars,
     HostTakesCredit, HostHasCredit
<1>2. CASE HostSelect
  <2>1. hostPc' = "dequeue" => credits = 1
    BY <1>2 DEF HostSelect, OneCredit, CreditNotAtHost
  <2> QED BY <1>2, <2>1, CreditStays
          DEF HostSelect, ctlVars, HostTakesCredit, HostHasCredit
<1>3. CASE HostDequeue
  <2>1. /\ credits = 1 /\ NoCommandIn(toCtl) /\ ctl = <<>> /\ adv = 1
        /\ evtQ = <<>> /\ cmdQ # <<>> /\ hostPc = "dequeue"
    BY <1>3 DEF HostDequeue, OneCredit, CreditNotAtHost, HostTakesCredit,
       HostHasCredit, TypeInv, HostState
  <2>2. UNCHANGED <<credits, ctl, adv, evtQ>> /\ hostPc' \in {"recv", "load"}
    BY <1>3 DEF HostDequeue
  <2>3. NoCommandIn(toCtl')
    <3>1. Head(cmdQ) \in Cmds /\ toCtl \in Seq(Cmds)
      BY <2>1, HeadTailProperties DEF TypeInv, TypeOK
    <3>2. CASE Kind[Head(cmdQ)] = "npd" /\ toCtl' = Append(toCtl, Head(cmdQ))
      BY <2>1, <3>1, <3>2, AppendCommandIn
    <3>3. CASE toCtl' = toCtl
      BY <2>1, <3>3
    <3> QED BY <1>3, <3>2, <3>3 DEF HostDequeue
  <2> QED BY <2>1, <2>2, <2>3
          DEF OneCredit, HostHasCredit, NoCommandIn
<1>4. CASE HostLoad
  <2>1. credits = 1
    BY <1>4 DEF HostLoad, OneCredit, CreditNotAtHost, HostTakesCredit,
       HostHasCredit
  <2> QED BY <1>4, <2>1, CreditStays
          DEF HostLoad, ctlVars, HostTakesCredit, HostHasCredit
<1>5. CASE HostStore
  <2>1. /\ credits = 1 /\ NoCommandIn(toCtl) /\ ctl = <<>> /\ adv = 1
        /\ evtQ = <<>> /\ hostTmp = 1
    BY <1>5 DEF HostStore, OneCredit, CreditNotAtHost, HostTakesCredit,
       HostHasCredit
  <2>2. /\ credits' = 0 /\ hostPc' = "append" /\ UNCHANGED <<toCtl, ctl, adv, evtQ>>
    BY <1>5, <2>1 DEF HostStore, ctlVars
  <2> QED BY <2>1, <2>2 DEF OneCredit, HostHasCredit, NoCommandIn
<1>6. CASE HostAppend
  BY <1>6, CreditStays DEF HostAppend, ctlVars, HostTakesCredit, HostHasCredit
<1>7. CASE HostSend
  <2>1. /\ credits = 0 /\ NoCommandIn(toCtl) /\ ctl = <<>> /\ adv = 1
        /\ evtQ = <<>>
    BY <1>7 DEF HostSend, OneCredit, CreditNotAtHost, HostHasCredit
  <2>2. /\ UNCHANGED <<credits, ctl, adv, evtQ>>
        /\ toCtl' = Append(toCtl, hostCmd) /\ hostPc' = "timer"
    BY <1>7 DEF HostSend
  <2>3. toCtl \in Seq(Cmds) /\ hostCmd \in Cmds /\ Kind[hostCmd] # "npd"
    BY <1>7 DEF HostSend, TypeInv, TypeOK, HostState
  <2>4. OneCommandIn(toCtl')
    BY <2>1, <2>2, <2>3, AppendCommandIn
  <2> QED BY <2>1, <2>2, <2>4
          DEF OneCredit, CreditNotAtHost, HostTakesCredit, HostHasCredit,
              OneCommandIn
<1>8. CASE HostTimer
  BY <1>8, CreditStays DEF HostTimer, ctlVars, HostTakesCredit, HostHasCredit
<1> QED BY <1>1, <1>2, <1>3, <1>4, <1>5, <1>6, <1>7, <1>8 DEF HostTask

LEMMA CreditRx ==
  ASSUME CreditInv, RxThread, CtlSlots = 1 PROVE OneCredit'
<1> USE DEF CreditInv
<1>1. CASE RxEvent
  <2>1. /\ evtQ # <<>> /\ evtQ \in Seq(Events) /\ credits' = Head(evtQ).n
        /\ evtQ' = Tail(evtQ) /\ UNCHANGED <<toCtl, ctl, adv, hostPc, hostTmp>>
    BY <1>1 DEF RxEvent, TypeInv, TypeOK, hostVars
  <2>2. CreditNotAtHost /\ NoCommandIn(toCtl) /\ ctl = <<>>
    BY <2>1 DEF OneCredit
  <2>3. ~HostTakesCredit' /\ ~HostHasCredit' /\ NoCommandIn(toCtl)'
        /\ (hostPc = "store" => hostTmp = 1)'
    BY <2>1, <2>2
       DEF CreditNotAtHost, HostTakesCredit, HostHasCredit, NoCommandIn
  <2>4. CASE adv = 1 /\ CreditLastIn(evtQ)
    <3>1. \/ Head(evtQ).n = 1 /\ Tail(evtQ) = <<>>
          \/ Head(evtQ).n = 0 /\ CreditLastIn(Tail(evtQ))
      BY <2>1, <2>4, TailCredit
    <3>2. CASE credits' = 1 /\ evtQ' = <<>>
      BY <2>1, <2>2, <2>3, <2>4, <3>2 DEF OneCredit
    <3>3. CASE credits' = 0 /\ CreditLastIn(evtQ')
      BY <2>1, <2>2, <2>3, <2>4, <3>3
         DEF OneCredit, CreditNotAtHost, CreditLastIn
    <3> QED BY <2>1, <3>1, <3>2, <3>3
  <2>5. CASE adv = 0 /\ NoCreditIn(evtQ)
    <3>1. credits' = 0 /\ NoCreditIn(evtQ')
      BY <2>1, <2>5, TailCredit
    <3> QED BY <2>1, <2>2, <2>3, <2>5, <3>1
            DEF OneCredit, CreditNotAtHost, NoCreditIn
  <2> QED BY <2>1, <2>4, <2>5 DEF OneCredit
<1>2. CASE RxMatch \/ RxTimer \/ RxTest \/ RxPost \/ RxFree
  <2>1. UNCHANGED <<credits, hostVars, ctlVars>>
    BY <1>2 DEF RxMatch, RxTimer, RxTest, RxPost, RxFree
  <2>2. HostTakesCredit => credits = 1
    BY DEF OneCredit, CreditNotAtHost, HostTakesCredit, HostHasCredit
  <2>3. hostPc = "store" => hostTmp = 1
    BY DEF OneCredit
  <2> QED BY <2>1, <2>2, <2>3, CreditStays
          DEF hostVars, ctlVars, HostTakesCredit, HostHasCredit
<1> QED BY <1>1, <1>2 DEF RxThread

LEMMA CreditController ==
  ASSUME CreditInv, Controller, CtlSlots = 1 PROVE OneCredit'
<1> USE DEF CreditInv
<1>1. UNCHANGED <<credits, hostPc, hostTmp>>
  BY DEF Controller, CtlReceive, CtlAnswer, CtlNop, hostVars
<1>2. /\ HostTakesCredit' = HostTakesCredit /\ HostHasCredit' = HostHasCredit
      /\ CreditNotAtHost' = CreditNotAtHost
  BY <1>1 DEF HostTakesCredit, HostHasCredit, CreditNotAtHost
<1>3. CASE CtlReceive
  <2>1. toCtl # <<>> /\ toCtl \in Seq(Cmds) /\ toCtl' = Tail(toCtl)
        /\ UNCHANGED evtQ
    BY <1>3 DEF CtlReceive, TypeInv, TypeOK
  <2>2. CASE Kind[Head(toCtl)] = "npd"
    <3>1. UNCHANGED <<ctl, adv>>
      BY <1>3, <2>2 DEF CtlReceive
    <3>2. /\ NoCommandIn(toCtl) => NoCommandIn(toCtl)'
          /\ OneCommandIn(toCtl) => OneCommandIn(toCtl)'
      BY <2>1, <2>2, TailCommandIn DEF NoCommandIn, OneCommandIn
    <3>3. /\ NoCreditIn(evtQ)' = NoCreditIn(evtQ)
          /\ CreditLastIn(evtQ)' = CreditLastIn(evtQ)
      BY <2>1 DEF NoCreditIn, CreditLastIn
    <3> QED BY <1>1, <1>2, <2>1, <3>1, <3>2, <3>3 DEF OneCredit
  <2>3. CASE Kind[Head(toCtl)] # "npd"
    <3>1. ~NoCommandIn(toCtl)
      BY <2>1, <2>3, TailCommandIn
    <3>2. /\ CreditNotAtHost /\ OneCommandIn(toCtl) /\ ctl = <<>> /\ adv = 1
          /\ evtQ = <<>>
      BY <3>1 DEF OneCredit
    <3>3. NoCommandIn(toCtl')
      BY <2>1, <2>3, <3>2, TailCommandIn
    <3>4. ctl' = Append(ctl, Head(toCtl)) /\ adv' = 0
      BY <1>3, <2>3, <3>2 DEF CtlReceive
    <3>5. Len(ctl') = 1
      BY <3>2, <3>4
    <3> QED BY <1>1, <1>2, <2>1, <3>2, <3>3, <3>4, <3>5
            DEF OneCredit, NoCommandIn, CreditNotAtHost, HostTakesCredit
  <2> QED BY <2>2, <2>3
<1>4. CASE CtlAnswer
  <2>1. PICK i \in 1..Len(ctl), type \in {"complete", "status"},
             n \in 0..CtlSlots :
          /\ n + Len(ctl) - 1 <= CtlSlots
          /\ evtQ' = Append(evtQ, [type |-> type, n |-> n, cmd |-> ctl[i]])
          /\ ctl' = RemoveAt(ctl, i)
          /\ adv' = n
          /\ UNCHANGED toCtl
    BY <1>4 DEF CtlAnswer
  <2>2. /\ ctl \in Seq(Cmds) /\ evtQ \in Seq(Events)
    BY DEF TypeInv, TypeOK
  <2>3. ctl # <<>>
    BY <2>1, <2>2
  <2>4. /\ CreditNotAtHost /\ NoCommandIn(toCtl) /\ Len(ctl) = 1 /\ evtQ = <<>>
    BY <2>3 DEF OneCredit
  <2>5. ctl' = <<>>
    <3>1. /\ RemoveAt(ctl, i) \in Seq(Cmds)
          /\ Len(RemoveAt(ctl, i)) = Len(ctl) - 1
      BY <2>1, <2>2, RemoveAtType, Zenon
    <3>2. ctl' \in Seq(Cmds) /\ Len(ctl') = 0
      BY <2>1, <2>4, <3>1
    <3> QED BY <3>2, EmptySeq
  <2> DEFINE e == [type |-> type, n |-> n, cmd |-> ctl[i]]
  <2>6. e \in Events /\ e.n = n /\ n \in {0, 1}
    BY <2>2 DEF Events
  <2>7. NoCreditIn(evtQ)
    BY <2>4 DEF NoCreditIn
  <2>8. (n = 0 => NoCreditIn(evtQ')) /\ (n = 1 => CreditLastIn(evtQ'))
    <3> HIDE DEF e
    <3>1. (n = 0 => NoCreditIn(Append(evtQ, e)))
          /\ (n = 1 => CreditLastIn(Append(evtQ, e)))
      BY <2>2, <2>6, <2>7, AppendCredit
    <3> QED BY <2>1, <3>1 DEF e
  <2> QED BY <1>1, <1>2, <2>1, <2>4, <2>5, <2>6, <2>8
          DEF OneCredit, NoCommandIn, NoCreditIn, CreditLastIn,
              CreditNotAtHost, HostTakesCredit
<1>5. CASE CtlNop
  <2>1. PICK n \in 1..CtlSlots :
          adv' = n /\ evtQ' = Append(evtQ, [type |-> "complete", n |-> n,
                                           cmd |-> None])
    BY <1>5 DEF CtlNop
  <2>2. adv = 0 /\ Len(ctl) < 1 /\ UNCHANGED <<toCtl, ctl>>
    BY <1>5 DEF CtlNop
  <2>3. CreditNotAtHost /\ NoCommandIn(toCtl) /\ ctl = <<>> /\ NoCreditIn(evtQ)
    BY <2>2 DEF OneCredit
  <2> DEFINE e == [type |-> "complete", n |-> n, cmd |-> None]
  <2>4. e \in Events /\ e.n = 1 /\ n = 1 /\ evtQ \in Seq(Events)
    BY DEF Events, TypeInv, TypeOK
  <2>5. CreditLastIn(evtQ')
    <3> HIDE DEF e
    <3>1. CreditLastIn(Append(evtQ, e))
      BY <2>3, <2>4, AppendCredit
    <3> QED BY <2>1, <3>1 DEF e
  <2> QED BY <1>1, <1>2, <2>1, <2>2, <2>3, <2>4, <2>5
          DEF OneCredit, NoCommandIn, CreditLastIn, CreditNotAtHost,
              HostTakesCredit
<1> QED BY <1>3, <1>4, <1>5 DEF Controller

LEMMA CreditStep ==
  ASSUME CreditInv, [Next]_vars, CtlSlots = 1 PROVE CreditInv'
<1>1. TypeInv'
  BY TypeStep DEF CreditInv
<1>2. CASE Callers \/ CommandTimedOut \/ UNCHANGED vars
  <2>1. UNCHANGED <<credits, hostVars, ctlVars>>
    BY <1>2 DEF Callers, TransmitCommand, TransmitPacket, Post,
       CommandTimedOut, AlarmExpires, TimedOutRead,
     TimedOutLog, vars
  <2>2. HostTakesCredit => credits = 1
    BY DEF CreditInv, OneCredit, CreditNotAtHost, HostTakesCredit,
       HostHasCredit
  <2>3. OneCredit /\ (hostPc = "store" => hostTmp = 1)
    BY DEF CreditInv, OneCredit
  <2>4. OneCredit'
    BY <2>1, <2>2, <2>3, CreditStays
       DEF hostVars, ctlVars, HostTakesCredit, HostHasCredit
  <2> QED BY <1>1, <2>4 DEF CreditInv
<1>3. CASE HostTask
  BY <1>1, <1>3, CreditHost DEF CreditInv
<1>4. CASE RxThread
  BY <1>1, <1>4, CreditRx DEF CreditInv
<1>5. CASE Controller
  BY <1>1, <1>5, CreditController DEF CreditInv
<1> QED BY <1>2, <1>3, <1>4, <1>5 DEF Next

(* The single credit of a controller with one command buffer is in exactly *)
(* one place, whatever the interleaving of the host task, which tests and  *)
(* decrements command_credits, and the receive thread, which overwrites it.*)
THEOREM OneCreditInvariant == CtlSlots = 1 /\ Spec => []OneCredit
<1> SUFFICES ASSUME CtlSlots = 1 PROVE Spec => []OneCredit
  OBVIOUS
<1>1. Init => CreditInv
  <2> SUFFICES ASSUME Init PROVE OneCredit
    BY TypeInit DEF CreditInv
  <2> QED BY DEF Init, OneCredit, HostHasCredit, NoCommandIn
<1>2. CreditInv /\ [Next]_vars => CreditInv'
  BY CreditStep
<1>3. CreditInv => OneCredit
  BY DEF CreditInv
<1> QED BY <1>1, <1>2, <1>3, PTL DEF Spec

-----------------------------------------------------------------------------
LEMMA RestartTimerGuards ==
  ASSUME TypeOK, TimerGuardsPending, RestartTimer, UNCHANGED pending
  PROVE  /\ (timerSet <=> alarm # "off")'
         /\ (timerSet <=> pending # <<>>)'
BY DEF TypeOK, TimerGuardsPending, RestartTimer

(* A step that leaves the timer and the list alone, and does not take a    *)
(* task out of the window between its update and its restart.              *)
LEMMA TimerStays ==
  ASSUME TimerGuardsPending, UNCHANGED <<pending, timerSet, alarm>>,
         hostPc \in {"send", "timer"} => hostPc' \in {"send", "timer"},
         rxPc = "timer" => rxPc' = "timer"
  PROVE  TimerGuardsPending'
BY DEF TimerGuardsPending

LEMMA TimerStep ==
  ASSUME TypeOK, TimerGuardsPending, [Next]_vars PROVE TimerGuardsPending'
<1>1. CASE Callers \/ Controller \/ UNCHANGED vars
  <2>1. UNCHANGED <<timVars, hostVars, rxVars>>
    BY <1>1 DEF Callers, TransmitCommand, TransmitPacket, Post, Controller,
       CtlReceive, CtlAnswer, CtlNop, vars
  <2> QED BY <2>1, TimerStays DEF timVars, hostVars, rxVars
<1>2. CASE HostReceive \/ HostContinue \/ HostSelect \/ HostPacket
           \/ HostDequeue \/ HostLoad \/ HostStore \/ HostSend
  <2>1. UNCHANGED <<timVars, rxVars>>
    BY <1>2 DEF HostReceive, HostContinue, HostSelect, HostPacket,
       HostDequeue, HostLoad, HostStore, HostSend
  <2>2. hostPc \in {"send", "timer"} => hostPc' \in {"send", "timer"}
    BY <1>2 DEF HostReceive, HostContinue, HostSelect, HostPacket,
       HostDequeue, HostLoad, HostStore, HostSend
  <2> QED BY <2>1, <2>2, TimerStays DEF timVars, rxVars
<1>3. CASE HostAppend
  <2>1. UNCHANGED <<timerSet, alarm>> /\ hostPc' = "send"
    BY <1>3 DEF HostAppend
  <2> QED BY <2>1 DEF TimerGuardsPending
<1>4. CASE HostTimer
  <2>1. RestartTimer /\ UNCHANGED pending
    BY <1>4 DEF HostTimer
  <2> QED BY <2>1, RestartTimerGuards DEF TimerGuardsPending
<1>5. CASE RxEvent \/ RxTest \/ RxPost \/ RxFree
  <2>1. UNCHANGED <<timVars, hostVars>> /\ rxPc # "timer"
    BY <1>5 DEF RxEvent, RxTest, RxPost, RxFree
  <2> QED BY <2>1, TimerStays DEF timVars, hostVars
<1>6. CASE RxMatch
  <2>1. UNCHANGED <<timerSet, alarm>> /\ rxPc' = "timer"
    BY <1>6 DEF RxMatch
  <2> QED BY <2>1 DEF TimerGuardsPending
<1>7. CASE RxTimer
  <2>1. RestartTimer /\ UNCHANGED pending
    BY <1>7 DEF RxTimer
  <2> QED BY <2>1, RestartTimerGuards DEF TimerGuardsPending
<1>8. CASE CommandTimedOut
  <2>1. \/ UNCHANGED alarm
        \/ alarm = "armed" /\ alarm' = "fired"
    BY <1>8 DEF CommandTimedOut, AlarmExpires, TimedOutRead, TimedOutLog
  <2>2. UNCHANGED <<pending, timerSet, hostPc, rxPc>>
    BY <1>8 DEF CommandTimedOut, AlarmExpires, TimedOutRead, TimedOutLog,
       hostVars, rxVars
  <2> QED BY <2>1, <2>2 DEF TimerGuardsPending
<1> QED BY <1>1, <1>2, <1>3, <1>4, <1>5, <1>6, <1>7, <1>8
        DEF Next, HostTask, RxThread

(* Whenever both tasks have restarted the response timer after their last  *)
(* change to commands_pending_response, it is set iff a command waits, for *)
(* any number of commands and any controller.                              *)
THEOREM TimerInvariant == Spec => []TimerGuardsPending
<1>1. Init => TimerGuardsPending
  BY DEF Init, TimerGuardsPending
<1>2. TypeOK /\ TimerGuardsPending /\ [Next]_vars => TimerGuardsPending'
  BY TimerStep
<1> QED BY <1>1, <1>2, TypeCorrect, PTL DEF Spec


-----------------------------------------------------------------------------
(* Packets *)

(* A packet that is not freed has a fragment to send; one that the host    *)
(* task queues or fragments is the HCI layer's, in one place.              *)
PacketInv ==
  /\ \A p \in Pkts : owner[p] # "freed" => left[p] >= 1
  /\ \A i \in 1..Len(pktQ) : owner[pktQ[i]] = "hci" /\ pktQ[i] # cur
  /\ cur # None => owner[cur] = "hci"
  /\ \A i, j \in 1..Len(pktQ) : pktQ[i] = pktQ[j] => i = j

(* fragment_and_dispatch of a packet the HCI layer has and no longer       *)
(* queues: it stays current, or it leaves the HCI layer.                   *)
LEMMA FragmentKeepsOwner ==
  ASSUME TypeOK, NEW p \in Pkts, FragmentAndDispatch(p), owner[p] = "hci",
         \A x \in Pkts : owner[x] # "freed" => left[x] >= 1
  PROVE  /\ \A x \in Pkts : owner'[x] # "freed" => left'[x] >= 1
         /\ \A x \in Pkts \ {p} : owner'[x] = owner[x]
         /\ cur' \in {p, None}
         /\ cur' = p => owner'[p] = "hci"
<1>1. left \in [Pkts -> Int] /\ seg \in [Pkts -> Nat]
      /\ owner \in [Pkts -> {"l2cap", "hci", "returned", "freed"}]
  BY DEF TypeOK
<1>2. left' = [left EXCEPT ![p] = @ - 1]
  BY DEF FragmentAndDispatch
<1>3. p # None
  BY ConstantsAssumption
<1>4. CASE left[p] > 1 /\ cur' = p /\ owner' = owner
  BY <1>1, <1>2, <1>4
<1>5. ASSUME left[p] > 1, cur' = None,
             NEW o \in {"returned", "freed"}, owner' = [owner EXCEPT ![p] = o]
      PROVE  /\ \A x \in Pkts : owner'[x] # "freed" => left'[x] >= 1
             /\ \A x \in Pkts \ {p} : owner'[x] = owner[x]
  BY <1>1, <1>2, <1>5
<1>6. CASE cur' = None /\ owner' = [owner EXCEPT ![p] = "freed"]
  BY <1>1, <1>2, <1>6, <1>3
<1>7. \/ left[p] > 1 /\ cur' = p /\ owner' = owner
      \/ left[p] > 1 /\ cur' = None
         /\ \E o \in {"returned", "freed"} : owner' = [owner EXCEPT ![p] = o]
      \/ cur' = None /\ owner' = [owner EXCEPT ![p] = "freed"]
  BY Zenon DEF FragmentAndDispatch
<1>8. CASE left[p] > 1 /\ cur' = None
           /\ \E o \in {"returned", "freed"} : owner' = [owner EXCEPT ![p] = o]
  BY <1>3, <1>5, <1>8
<1> QED BY <1>4, <1>6, <1>7, <1>8

LEMMA PacketStep ==
  ASSUME TypeOK, PacketInv, [Next]_vars PROVE PacketInv'
<1>0. /\ pktQ \in Seq(Pkts) /\ cur \in Pkts \cup {None} /\ None \notin Pkts
      /\ owner \in [Pkts -> {"l2cap", "hci", "returned", "freed"}]
  BY ConstantsAssumption DEF TypeOK
<1>1. ASSUME NEW p \in Pkts, NEW s \in SegLimits, TransmitPacket(p, s)
      PROVE  PacketInv'
  <2>1. /\ pktQ' = Append(pktQ, p) /\ owner' = [owner EXCEPT ![p] = "hci"]
        /\ UNCHANGED <<cur, left>> /\ owner[p] \in {"l2cap", "returned"}
    BY <1>1 DEF TransmitPacket
  <2>2. /\ Len(pktQ') = Len(pktQ) + 1 /\ pktQ'[Len(pktQ) + 1] = p
        /\ \A i \in 1..Len(pktQ) : pktQ'[i] = pktQ[i] /\ pktQ[i] \in Pkts
    BY <1>0, <2>1, AppendProperties, ElementOfSeq
  <2>3. Len(pktQ) \in Nat
    BY <1>0
  <2>4. \A x \in Pkts : owner'[x] = IF x = p THEN "hci" ELSE owner[x]
    BY <1>0, <2>1
  <2>5. p # cur /\ \A i \in 1..Len(pktQ) : pktQ[i] # p
    BY <1>0, <2>1 DEF PacketInv
  <2>6. \A x \in Pkts : owner'[x] # "freed" => left'[x] >= 1
    BY <2>1, <2>4 DEF PacketInv
  <2>7. cur' # None => owner'[cur'] = "hci"
    BY <1>0, <2>1, <2>4 DEF PacketInv
  <2>8. \A i \in 1..Len(pktQ') : owner'[pktQ'[i]] = "hci" /\ pktQ'[i] # cur'
    BY <1>0, <2>1, <2>2, <2>3, <2>4, <2>5 DEF PacketInv
  <2>9. \A i, j \in 1..Len(pktQ') : pktQ'[i] = pktQ'[j] => i = j
    BY <2>2, <2>3, <2>5 DEF PacketInv
  <2> QED BY <2>6, <2>7, <2>8, <2>9 DEF PacketInv
<1>2. CASE HostContinue
  <2>1. cur \in Pkts /\ FragmentAndDispatch(cur) /\ pktQ' = pktQ
    BY <1>0, <1>2 DEF HostContinue, qVars
  <2>2. /\ \A x \in Pkts : owner'[x] # "freed" => left'[x] >= 1
        /\ \A x \in Pkts \ {cur} : owner'[x] = owner[x]
        /\ cur' \in {cur, None}
        /\ cur' = cur => owner'[cur] = "hci"
    BY <1>0, <2>1, FragmentKeepsOwner DEF PacketInv
  <2>3. \A i \in 1..Len(pktQ) : pktQ[i] \in Pkts
    BY <1>0, ElementOfSeq
  <2> QED BY <1>0, <2>1, <2>2, <2>3 DEF PacketInv
<1>3. CASE HostPacket
  <2>1. CASE pktQ = <<>> /\ UNCHANGED <<pktQ, fragVars>>
    BY <2>1 DEF PacketInv, fragVars
  <2>2. CASE pktQ # <<>> /\ FragmentAndDispatch(Head(pktQ)) /\ pktQ' = Tail(pktQ)
    <3> DEFINE p == Head(pktQ)
    <3>1. /\ p \in Pkts /\ Len(pktQ') = Len(pktQ) - 1 /\ p = pktQ[1]
          /\ \A i \in 1..Len(pktQ') : pktQ'[i] = pktQ[i + 1]
          /\ Len(pktQ) \in Nat \ {0}
      BY <1>0, <2>2, HeadTailProperties
    <3>2. /\ owner[p] = "hci"
          /\ \A x \in Pkts : owner[x] # "freed" => left[x] >= 1
      BY <3>1 DEF PacketInv
    <3> HIDE DEF p
    <3>3. FragmentAndDispatch(p)
      BY <2>2 DEF p
    <3>4. /\ \A x \in Pkts : owner'[x] # "freed" => left'[x] >= 1
          /\ \A x \in Pkts \ {p} : owner'[x] = owner[x]
          /\ cur' \in {p, None}
          /\ cur' = p => owner'[p] = "hci"
      BY <3>1, <3>2, <3>3, FragmentKeepsOwner
    <3>5. \A i \in 1..Len(pktQ') :
            /\ i + 1 \in 1..Len(pktQ) /\ pktQ'[i] = pktQ[i + 1]
            /\ pktQ[i + 1] \in Pkts /\ pktQ[i + 1] # p
      BY <1>0, <3>1, ElementOfSeq DEF PacketInv
    <3>6. \A i \in 1..Len(pktQ') : owner'[pktQ'[i]] = "hci" /\ pktQ'[i] # cur'
      BY <1>0, <3>4, <3>5 DEF PacketInv
    <3>7. \A i, j \in 1..Len(pktQ') : pktQ'[i] = pktQ'[j] => i = j
      <4> SUFFICES ASSUME NEW i \in 1..Len(pktQ'), NEW j \in 1..Len(pktQ'),
                          pktQ'[i] = pktQ'[j]
                   PROVE  i = j
        OBVIOUS
      <4>1. i + 1 = j + 1
        BY <3>5 DEF PacketInv
      <4> QED BY <4>1, <3>1
    <3> QED BY <3>4, <3>6, <3>7 DEF PacketInv
  <2> QED BY <1>3, <2>1, <2>2 DEF HostPacket
<1>4. ASSUME UNCHANGED <<pktQ, fragVars>> PROVE PacketInv'
  BY <1>4 DEF PacketInv, fragVars
<1>5. CASE \/ \E c \in Cmds : TransmitCommand(c)
           \/ \E x \in Cmds \cup Pkts : Post(x)
  BY <1>4, <1>5 DEF TransmitCommand, Post, qVars
<1>6. CASE \/ HostReceive \/ HostSelect \/ HostDequeue \/ HostLoad \/ HostStore
           \/ HostAppend \/ HostSend \/ HostTimer
  BY <1>4, <1>6 DEF HostReceive, HostSelect, HostDequeue, HostLoad, HostStore,
     HostAppend, HostSend, HostTimer, qVars
<1>7. CASE RxThread \/ CommandTimedOut
  BY <1>4, <1>7 DEF RxThread, RxEvent, RxMatch, RxTimer, RxTest, RxPost, RxFree,
     CommandTimedOut, AlarmExpires, TimedOutRead,
     TimedOutLog, qVars
<1>8. CASE Controller \/ UNCHANGED vars
  BY <1>4, <1>8 DEF Controller, CtlReceive, CtlAnswer, CtlNop, vars, qVars
<1> QED BY <1>1, <1>2, <1>3, <1>5, <1>6, <1>7, <1>8 DEF Next, Callers, HostTask

(* What the fragmenter holds is the HCI layer's alone: a packet is queued  *)
(* or current, never both nor twice, never after it was freed or handed    *)
(* back to L2CAP, and it always has a fragment left to send.               *)
THEOREM PacketOwnership == Spec => []PacketSingleOwner
<1>1. Init => PacketInv
  BY ConstantsAssumption DEF Init, PacketInv
<1>2. TypeOK /\ PacketInv /\ [Next]_vars => PacketInv'
  BY PacketStep
<1>3. TypeOK /\ PacketInv => PacketSingleOwner
  <2> SUFFICES ASSUME TypeOK, PacketInv PROVE PacketSingleOwner
    OBVIOUS
  <2>1. pktQ \in Seq(Pkts) /\ cur \in Pkts \cup {None}
    BY DEF TypeOK
  <2>2. \A p \in ToSet(pktQ) : p \in Pkts /\ \E i \in 1..Len(pktQ) : p = pktQ[i]
    BY <2>1, ElementOfSeq DEF ToSet
  <2>3. \A p \in ToSet(pktQ) \cup ({cur} \ {None}) :
          owner[p] = "hci" /\ left[p] >= 1
    BY <2>1, <2>2 DEF PacketInv
  <2> QED BY <2>3 DEF PacketInv, PacketSingleOwner
<1> QED BY <1>1, <1>2, <1>3, TypeCorrect, PTL DEF Spec

-----------------------------------------------------------------------------
(* Commands *)

(* The commands that take a credit and are answered. *)
Regular == {c \in Cmds : Kind[c] # "npd"}

(***************************************************************************)
(* The way of a command from the pending list's append to its answer, as   *)
(* one line of places: the event being matched, the events on their way    *)
(* up, the controller, the transport and the host task about to send.      *)
(***************************************************************************)
At(k, c) ==
  \/ k = 0 /\ rxPc = "match" /\ rxEvt.cmd = c
  \/ k \in 1..Len(evtQ) /\ evtQ[k].cmd = c
  \/ k - Len(evtQ) \in 1..Len(ctl) /\ ctl[k - Len(evtQ)] = c
  \/ /\ k - Len(evtQ) - Len(ctl) \in 1..Len(toCtl)
     /\ toCtl[k - Len(evtQ) - Len(ctl)] = c
  \/ /\ k = Len(evtQ) + Len(ctl) + Len(toCtl) + 1
     /\ hostPc = "send" /\ hostCmd = c

(* A command waits in the pending list exactly while it is in one place on *)
(* that way, and commands of one opcode are there in the order of the list.*)
OrderInv ==
  /\ \A c \in Regular, k, l \in Nat : At(k, c) /\ At(l, c) => k = l
  /\ \A c \in Regular : c \in ToSet(pending) <=> \E k \in Nat : At(k, c)
  /\ \A i, j \in 1..Len(pending), k, l \in Nat :
       /\ i < j /\ Opcode[pending[i]] = Opcode[pending[j]]
       /\ At(k, pending[i]) /\ At(l, pending[j])
       => k < l
  /\ \A i, j \in 1..Len(pending) : pending[i] = pending[j] => i = j

(* Only regular commands wait and are answered. *)
RegularInv ==
  /\ ToSet(pending) \cup ToSet(ctl) \subseteq Regular
  /\ \A k \in 1..Len(evtQ) : evtQ[k].cmd \in Regular \cup {None}
  /\ rxEvt.cmd \in Regular \cup {None}

Queued(c)   == c \in ToSet(cmdQ)
Held(c)     == hostCmd = c /\ hostPc \in {"load", "store", "append"}
Waiting(c)  == c \in ToSet(pending)
Answered(c) == rxCmd = c

(* The life of a command: queued, held by the host task, waiting, answered *)
(* and freed, never two of them.                                           *)
Life(c) ==
  /\ freed[c] <= 1 /\ notified[c] <= 1
  /\ notified[c] = 1 => freed[c] = 1 \/ Answered(c)
  /\ c \notin issued => freed[c] = 0
  /\ Queued(c) \/ Held(c) \/ Waiting(c) \/ Answered(c)
       => c \in issued /\ freed[c] = 0
  /\ Queued(c) => ~Held(c) /\ ~Waiting(c) /\ ~Answered(c)
  /\ Held(c) => ~Waiting(c) /\ ~Answered(c)
  /\ Waiting(c) => ~Answered(c)
  /\ hostPc = "timer" /\ hostCmd = c => c \in issued /\ ~Queued(c)

LifeInv ==
  /\ \A i, j \in 1..Len(cmdQ) : cmdQ[i] = cmdQ[j] => i = j
  /\ \A c \in Cmds : Life(c)
  /\ hostPc \in {"recv", "select", "dequeue", "packet"} => hostCmd = None

RxInv ==
  /\ rxPc \in {"idle", "match"} => rxCmd = None
  /\ ResponseFindsCommand

CommandInv == OrderInv /\ RegularInv /\ LifeInv /\ RxInv

(***************************************************************************)
(* A step that leaves the pending list alone and moves the commands along  *)
(* the line of places without one overtaking another of its opcode.        *)
(***************************************************************************)
LEMMA OrderMoves ==
  ASSUME TypeOK, OrderInv, RegularInv, pending' = pending,
         NEW f \in [Nat -> Nat],
         \A c \in Regular, k \in Nat : At(k, c) => At(f[k], c)',
         \A c \in Regular, k \in Nat :
           At(k, c)' => \E l \in Nat : k = f[l] /\ At(l, c),
         \A c, d \in Regular, k, l \in Nat :
           /\ Opcode[c] = Opcode[d] /\ c # d /\ k < l
           /\ At(k, c) /\ At(l, d)
           => f[k] < f[l]
  PROVE  OrderInv'
<1>0. \A i \in 1..Len(pending) : pending[i] \in Regular
  BY SMTT(30) DEF RegularInv, ToSet
<1>1. \A c \in Regular, k, l \in Nat : At(k, c)' /\ At(l, c)' => k = l
  BY DEF OrderInv
<1>2. \A c \in Regular : c \in ToSet(pending)' <=> \E k \in Nat : At(k, c)'
  <2> SUFFICES ASSUME NEW c \in Regular
               PROVE  c \in ToSet(pending)' <=> \E k \in Nat : At(k, c)'
    OBVIOUS
  <2>1. ToSet(pending)' = ToSet(pending)
    BY DEF ToSet
  <2>2. c \in ToSet(pending) <=> \E k \in Nat : At(k, c)
    BY DEF OrderInv
  <2>3. (\E k \in Nat : At(k, c)) <=> (\E k \in Nat : At(k, c)')
    OBVIOUS
  <2> QED BY <2>1, <2>2, <2>3
<1>3. ASSUME NEW i \in 1..Len(pending), NEW j \in 1..Len(pending),
             NEW k \in Nat, NEW l \in Nat,
             i < j, Opcode[pending[i]] = Opcode[pending[j]],
             At(k, pending[i])', At(l, pending[j])'
      PROVE  k < l
  <2>1. PICK m \in Nat : k = f[m] /\ At(m, pending[i])
    BY <1>0, <1>3
  <2>2. PICK n \in Nat : l = f[n] /\ At(n, pending[j])
    BY <1>0, <1>3
  <2>3. m < n
    BY <1>3, <2>1, <2>2 DEF OrderInv
  <2>4. pending[i] # pending[j]
    <3>1. i \in Int /\ j \in Int
      BY <1>3 DEF TypeOK
    <3>2. i # j
      BY <1>3, <3>1
    <3> QED BY <3>2 DEF OrderInv
  <2>5. pending[i] \in Regular /\ pending[j] \in Regular
    BY <1>0
  <2>6. f[m] < f[n]
    BY <1>3, <2>1, <2>2, <2>3, <2>4, <2>5
  <2> QED BY <2>1, <2>2, <2>6
<1>4. \A i, j \in 1..Len(pending) : pending[i] = pending[j] => i = j
  BY DEF OrderInv
<1> QED BY <1>1, <1>2, <1>3, <1>4 DEF OrderInv

LEMMA OrderSame ==
  ASSUME TypeOK, OrderInv, RegularInv, pending' = pending,
         \A c \in Regular, k \in Nat : At(k, c)' <=> At(k, c)
  PROVE  OrderInv'
<1> DEFINE f == [k \in Nat |-> k]
<1>1. f \in [Nat -> Nat] /\ \A k \in Nat : f[k] = k
  OBVIOUS
<1> HIDE DEF f
<1>2. \A c \in Regular, k \in Nat : At(k, c) => At(f[k], c)'
  BY <1>1
<1>3. \A c \in Regular, k \in Nat :
        At(k, c)' => \E l \in Nat : k = f[l] /\ At(l, c)
  BY <1>1
<1>4. \A c, d \in Regular, k, l \in Nat : k < l => f[k] < f[l]
  BY <1>1
<1> QED BY <1>1, <1>2, <1>3, <1>4, OrderMoves

(* The types the line of places rests on. *)
LEMMA PlaceTypes ==
  ASSUME TypeOK
  PROVE  /\ evtQ \in Seq(Events) /\ ctl \in Seq(Cmds) /\ toCtl \in Seq(Cmds)
         /\ Len(evtQ) \in Nat /\ Len(ctl) \in Nat /\ Len(toCtl) \in Nat
         /\ None \notin Regular
BY ConstantsAssumption DEF TypeOK, Regular

(* What the transport holds after a command joins it. *)
LEMMA AppendPlaces ==
  ASSUME TypeOK, NEW x
  PROVE  /\ Len(Append(toCtl, x)) = Len(toCtl) + 1
         /\ Append(toCtl, x)[Len(toCtl) + 1] = x
         /\ \A k \in 1..Len(toCtl) : Append(toCtl, x)[k] = toCtl[k]
<1>1. toCtl \in Seq(Cmds \cup {x})
  <2>1. \A k \in 1..Len(toCtl) : toCtl[k] \in Cmds \cup {x}
    BY DEF TypeOK
  <2> QED BY <2>1 DEF TypeOK
<1> QED BY <1>1, AppendProperties

LEMMA OrderRxEvent ==
  ASSUME TypeOK, OrderInv, RegularInv, RxEvent PROVE OrderInv'
<1>1. /\ rxPc = "idle" /\ rxPc' = "match" /\ rxEvt' = Head(evtQ)
      /\ evtQ # <<>> /\ evtQ' = Tail(evtQ)
      /\ UNCHANGED <<pending, ctl, toCtl, hostPc, hostCmd>>
  BY DEF RxEvent, timVars, hostVars
<1>2. /\ Head(evtQ) = evtQ[1] /\ Len(evtQ') = Len(evtQ) - 1
      /\ \A k \in 1..Len(evtQ') : evtQ'[k] = evtQ[k + 1]
      /\ Len(evtQ) >= 1
  BY <1>1, PlaceTypes, HeadTailProperties
<1> DEFINE f == [k \in Nat |-> IF k = 0 THEN 0 ELSE k - 1]
<1>3. /\ f \in [Nat -> Nat] /\ f[0] = 0
      /\ \A k \in Nat : k # 0 => f[k] = k - 1
  OBVIOUS
<1> HIDE DEF f
<1>4. \A c \in Regular : ~At(0, c)
  BY <1>1, PlaceTypes DEF At
<1>5. ASSUME NEW c \in Regular, NEW k \in Nat, k # 0
      PROVE  At(k, c) <=> At(k - 1, c)'
  <2>1. k - Len(evtQ) = (k - 1) - Len(evtQ')
    BY <1>2, <1>5, PlaceTypes
  <2>2. k \in 1..Len(evtQ) /\ evtQ[k].cmd = c
        <=> \/ k - 1 = 0 /\ rxPc' = "match" /\ rxEvt'.cmd = c
            \/ k - 1 \in 1..Len(evtQ') /\ evtQ'[k - 1].cmd = c
    BY <1>1, <1>2, <1>5, PlaceTypes
  <2>3. k = Len(evtQ) + Len(ctl) + Len(toCtl) + 1
        <=> k - 1 = Len(evtQ') + Len(ctl') + Len(toCtl') + 1
    BY <1>1, <1>2, <1>5, PlaceTypes
  <2> QED BY <1>1, <1>5, <2>1, <2>2, <2>3 DEF At
<1>6. \A c \in Regular, k \in Nat : At(k, c) => At(f[k], c)'
  BY <1>3, <1>4, <1>5
<1>7. ASSUME NEW c \in Regular, NEW k \in Nat, At(k, c)'
      PROVE  \E l \in Nat : k = f[l] /\ At(l, c)
  <2>1. k + 1 \in Nat /\ k + 1 # 0 /\ (k + 1) - 1 = k
    OBVIOUS
  <2>2. At(k + 1, c)
    BY <1>5, <1>7, <2>1
  <2> QED BY <1>3, <2>1, <2>2
<1>8. \A c, d \in Regular, k, l \in Nat :
        k < l /\ At(k, c) /\ At(l, d) => f[k] < f[l]
  BY <1>3, <1>4
<1> QED BY <1>1, <1>3, <1>6, <1>7, <1>8, OrderMoves

(* The controller takes a command out of the transport: a regular one      *)
(* keeps its place, HCI_HOST_NUM_PACKETS_DONE closes the gap it leaves.    *)
LEMMA OrderCtlReceive ==
  ASSUME TypeOK, OrderInv, RegularInv, CtlReceive PROVE OrderInv'
<1>1. /\ toCtl # <<>> /\ toCtl' = Tail(toCtl)
      /\ UNCHANGED <<pending, evtQ, rxPc, rxEvt, hostPc, hostCmd>>
  BY DEF CtlReceive, timVars, hostVars, rxVars
<1>2. /\ Head(toCtl) = toCtl[1] /\ Len(toCtl') = Len(toCtl) - 1
      /\ \A k \in 1..Len(toCtl') : toCtl'[k] = toCtl[k + 1]
      /\ Len(toCtl) >= 1 /\ Head(toCtl) \in Cmds
  BY <1>1, PlaceTypes, HeadTailProperties
<1>3. CASE Kind[Head(toCtl)] # "npd"
  <2>1. ctl' = Append(ctl, Head(toCtl))
    BY <1>3, Zenon DEF CtlReceive
  <2>2. /\ Len(ctl') = Len(ctl) + 1 /\ ctl'[Len(ctl) + 1] = toCtl[1]
        /\ \A k \in 1..Len(ctl) : ctl'[k] = ctl[k]
    BY <1>2, <2>1, PlaceTypes, AppendProperties
  <2>3. ASSUME NEW c \in Regular, NEW k \in Nat PROVE At(k, c)' <=> At(k, c)
    <3> DEFINE m == k - Len(evtQ)
               n == m - Len(ctl)
    <3>0. m \in Int /\ n \in Int /\ n = m - Len(ctl)
      BY PlaceTypes
    <3> HIDE DEF n
    <3>1. m - Len(ctl') = n - 1
      BY <2>2, <3>0, PlaceTypes
    <3> HIDE DEF m
    <3>2. \/ m \in 1..Len(ctl') /\ ctl'[m] = c
          \/ n - 1 \in 1..Len(toCtl') /\ toCtl'[n - 1] = c
          <=>
          \/ m \in 1..Len(ctl) /\ ctl[m] = c
          \/ n \in 1..Len(toCtl) /\ toCtl[n] = c
      BY <1>2, <2>2, <3>0, PlaceTypes
    <3>3. Len(evtQ') + Len(ctl') + Len(toCtl') + 1
            = Len(evtQ) + Len(ctl) + Len(toCtl) + 1
      BY <1>1, <1>2, <2>2, PlaceTypes
    <3> QED BY <1>1, <3>1, <3>2, <3>3 DEF At, m, n
  <2> QED BY <1>1, <2>3, OrderSame
<1>4. CASE Kind[Head(toCtl)] = "npd"
  <2>1. ctl' = ctl
    BY <1>4, Zenon DEF CtlReceive
  <2>2. PICK e \in Nat : e = Len(evtQ) + Len(ctl)
    BY PlaceTypes
  <2> DEFINE f == [k \in Nat |-> IF k > e THEN k - 1 ELSE k]
  <2>3. /\ f \in [Nat -> Nat]
        /\ \A k \in Nat : k > e => f[k] = k - 1
        /\ \A k \in Nat : k <= e => f[k] = k
    BY <2>2
  <2> HIDE DEF f
  <2>4. \A c \in Regular : toCtl[1] # c
    BY <1>2, <1>4 DEF Regular
  <2>5. \A c \in Regular : ~At(e + 1, c)
    <3> SUFFICES ASSUME NEW c \in Regular, At(e + 1, c) PROVE FALSE
      OBVIOUS
    <3>1. (e + 1) - Len(evtQ) = Len(ctl) + 1
          /\ (e + 1) - Len(evtQ) - Len(ctl) = 1
      BY <2>2, PlaceTypes
    <3>2. e + 1 # 0 /\ e + 1 \notin 1..Len(evtQ)
          /\ Len(ctl) + 1 \notin 1..Len(ctl)
          /\ e + 1 # Len(evtQ) + Len(ctl) + Len(toCtl) + 1
      BY <1>2, <2>2, PlaceTypes
    <3> QED BY <2>4, <3>1, <3>2 DEF At
  <2>6. ASSUME NEW c \in Regular, NEW k \in Nat, k <= e
        PROVE  At(k, c) <=> At(k, c)'
    <3>1. /\ k - Len(evtQ) - Len(ctl) \notin 1..Len(toCtl)
          /\ k - Len(evtQ) - Len(ctl) \notin 1..Len(toCtl')
          /\ k # Len(evtQ) + Len(ctl) + Len(toCtl) + 1
          /\ k # Len(evtQ) + Len(ctl) + Len(toCtl') + 1
      BY <1>2, <2>2, <2>6, PlaceTypes
    <3> QED BY <1>1, <2>1, <3>1 DEF At
  <2>7. ASSUME NEW c \in Regular, NEW k \in Nat, k > e + 1
        PROVE  At(k, c) <=> At(k - 1, c)'
    <3> DEFINE n == k - Len(evtQ) - Len(ctl)
    <3>1. n \in Int /\ n > 1 /\ (k - 1) - Len(evtQ) - Len(ctl) = n - 1
      BY <2>2, <2>7, PlaceTypes
    <3>2. /\ k # 0 /\ k - 1 # 0
          /\ k \notin 1..Len(evtQ) /\ k - 1 \notin 1..Len(evtQ)
          /\ k - Len(evtQ) \notin 1..Len(ctl)
          /\ (k - 1) - Len(evtQ) \notin 1..Len(ctl)
      BY <2>2, <2>7, PlaceTypes
    <3>3. k = Len(evtQ) + Len(ctl) + Len(toCtl) + 1
          <=> k - 1 = Len(evtQ) + Len(ctl) + Len(toCtl') + 1
      BY <1>2, PlaceTypes
    <3>4. /\ At(k, c) <=> \/ n \in 1..Len(toCtl) /\ toCtl[n] = c
                          \/ /\ k = Len(evtQ) + Len(ctl) + Len(toCtl) + 1
                             /\ hostPc = "send" /\ hostCmd = c
          /\ At(k - 1, c)'
                <=> \/ n - 1 \in 1..Len(toCtl') /\ toCtl'[n - 1] = c
                    \/ /\ k - 1 = Len(evtQ) + Len(ctl) + Len(toCtl') + 1
                       /\ hostPc = "send" /\ hostCmd = c
      BY <1>1, <2>1, <3>1, <3>2 DEF At
    <3> HIDE DEF n
    <3>5. n \in 1..Len(toCtl) /\ toCtl[n] = c
          <=> n - 1 \in 1..Len(toCtl') /\ toCtl'[n - 1] = c
      BY <1>2, <3>1, PlaceTypes
    <3> QED BY <3>3, <3>4, <3>5
  <2>8. ASSUME NEW c \in Regular, NEW k \in Nat, At(k, c) PROVE At(f[k], c)'
    <3>1. k # e + 1
      BY <2>5, <2>8
    <3>2. CASE k <= e
      BY <2>3, <2>6, <2>8, <3>2
    <3>3. CASE k > e + 1
      <4>1. k > e /\ f[k] = k - 1
        BY <2>3, <3>3
      <4> QED BY <2>7, <2>8, <3>3, <4>1
    <3> QED BY <3>1, <3>2, <3>3
  <2>9. ASSUME NEW c \in Regular, NEW k \in Nat, At(k, c)'
        PROVE  \E l \in Nat : k = f[l] /\ At(l, c)
    <3>1. CASE k <= e
      BY <2>2, <2>3, <2>6, <2>9, <3>1
    <3>2. CASE k > e
      <4>1. k + 1 \in Nat /\ k + 1 > e + 1 /\ k + 1 > e /\ (k + 1) - 1 = k
        BY <2>2, <3>2
      <4>2. At(k + 1, c) /\ f[k + 1] = k
        BY <2>3, <2>7, <2>9, <4>1
      <4> QED BY <4>1, <4>2
    <3> QED BY <2>2, <3>1, <3>2
  <2>10. ASSUME NEW c \in Regular, NEW d \in Regular, NEW k \in Nat, NEW l \in Nat,
                k < l, At(k, c), At(l, d)
         PROVE  f[k] < f[l]
    <3>1. k # e + 1 /\ l # e + 1
      BY <2>5, <2>10
    <3> QED BY <2>3, <2>10, <3>1
  <2> QED BY <1>1, <2>3, <2>8, <2>9, <2>10, OrderMoves
<1> QED BY <1>3, <1>4

(* The answered command goes from its place in the controller to the first *)
(* place above it, past commands of other opcodes only.                    *)
LEMMA OrderCtlAnswer ==
  ASSUME TypeOK, OrderInv, RegularInv, CtlAnswer PROVE OrderInv'
<1>1. PICK i \in 1..Len(ctl), type \in {"complete", "status"},
           n \in 0..CtlSlots :
        /\ \A j \in 1..Len(ctl) : j < i => Opcode[ctl[j]] # Opcode[ctl[i]]
        /\ evtQ' = Append(evtQ, [type |-> type, n |-> n, cmd |-> ctl[i]])
        /\ ctl' = RemoveAt(ctl, i)
        /\ UNCHANGED <<pending, toCtl, rxPc, rxEvt, hostPc, hostCmd>>
  BY DEF CtlAnswer, timVars, rxVars, hostVars
<1>0. PICK e \in Nat : e = Len(evtQ)
  BY PlaceTypes
<1> DEFINE f == [k \in Nat |-> IF k = e + i THEN e + 1
                              ELSE IF k > e /\ k < e + i THEN k + 1 ELSE k]
<1>2. e = Len(evtQ) /\ e \in Nat /\ i \in Nat \ {0} /\ i <= Len(ctl)
      /\ Len(ctl) \in Nat /\ Len(toCtl) \in Nat
  BY <1>0, PlaceTypes
<1>3. /\ f \in [Nat -> Nat]
      /\ \A k \in Nat : k <= e \/ k > e + i => f[k] = k
      /\ \A k \in Nat : k > e /\ k < e + i => f[k] = k + 1
      /\ f[e + i] = e + 1
  BY <1>2
<1> HIDE DEF f
<1>4. /\ Len(evtQ') = e + 1 /\ evtQ'[e + 1].cmd = ctl[i]
      /\ \A k \in 1..e : evtQ'[k] = evtQ[k]
  <2>1. [type |-> type, n |-> n, cmd |-> ctl[i]] \in Events
    BY PlaceTypes DEF Events
  <2>2. /\ Len(evtQ') = Len(evtQ) + 1
        /\ evtQ'[Len(evtQ) + 1] = [type |-> type, n |-> n, cmd |-> ctl[i]]
        /\ \A k \in 1..Len(evtQ) : evtQ'[k] = evtQ[k]
    BY <1>1, <2>1, PlaceTypes, AppendProperties
  <2> QED BY <1>2, <2>2
<1>5. /\ Len(ctl') = Len(ctl) - 1
      /\ \A k \in 1..(i - 1) : ctl'[k] = ctl[k]
      /\ \A k \in i..(Len(ctl) - 1) : ctl'[k] = ctl[k + 1]
  BY <1>1, PlaceTypes, RemoveAtType, RemoveAtPlaces
<1>6. ASSUME NEW c \in Regular, NEW k \in Nat, k <= e
      PROVE  At(k, c) <=> At(k, c)'
  <2>1. /\ k - Len(evtQ) \notin 1..Len(ctl) /\ k - Len(evtQ') \notin 1..Len(ctl')
        /\ k - Len(evtQ) - Len(ctl) \notin 1..Len(toCtl)
        /\ k - Len(evtQ') - Len(ctl') \notin 1..Len(toCtl')
        /\ k # Len(evtQ) + Len(ctl) + Len(toCtl) + 1
        /\ k # Len(evtQ') + Len(ctl') + Len(toCtl') + 1
    BY <1>1, <1>2, <1>4, <1>5, <1>6
  <2>2. k \in 1..Len(evtQ) /\ evtQ[k].cmd = c
        <=> k \in 1..Len(evtQ') /\ evtQ'[k].cmd = c
    BY <1>2, <1>4, <1>6
  <2> QED BY <1>1, <2>1, <2>2 DEF At
<1>7. ASSUME NEW c \in Regular, NEW k \in Nat, e < k, k <= e + Len(ctl)
      PROVE  /\ At(k, c) <=> ctl[k - e] = c
             /\ k # e + 1 => (At(k, c)' <=> ctl'[k - (e + 1)] = c)
             /\ k = e + 1 => (At(k, c)' <=> ctl[i] = c)
  <2>1. /\ k \notin 1..Len(evtQ) /\ k # 0 /\ k - Len(evtQ) \in 1..Len(ctl)
        /\ k - Len(evtQ) - Len(ctl) \notin 1..Len(toCtl)
        /\ k # Len(evtQ) + Len(ctl) + Len(toCtl) + 1
        /\ k - Len(evtQ) = k - e
    BY <1>2, <1>7
  <2>2. At(k, c) <=> ctl[k - e] = c
    BY <2>1 DEF At
  <2>3. /\ k \in 1..Len(evtQ') <=> k = e + 1
        /\ k - Len(evtQ') \in 1..Len(ctl') <=> k # e + 1
        /\ k - Len(evtQ') - Len(ctl') \notin 1..Len(toCtl')
        /\ k # Len(evtQ') + Len(ctl') + Len(toCtl') + 1
        /\ k - Len(evtQ') = k - (e + 1)
    BY <1>1, <1>2, <1>4, <1>5, <1>7
  <2>4. k # e + 1 => (At(k, c)' <=> ctl'[k - (e + 1)] = c)
    BY <2>1, <2>3 DEF At
  <2>5. k = e + 1 => (At(k, c)' <=> ctl[i] = c)
    BY <1>4, <2>1, <2>3 DEF At
  <2> QED BY <2>2, <2>4, <2>5
<1>8. ASSUME NEW c \in Regular, NEW k \in Nat, k > e + Len(ctl)
      PROVE  At(k, c) <=> At(k, c)'
  <2>1. /\ k # 0 /\ k \notin 1..Len(evtQ) /\ k \notin 1..Len(evtQ')
        /\ k - Len(evtQ) \notin 1..Len(ctl) /\ k - Len(evtQ') \notin 1..Len(ctl')
        /\ k - Len(evtQ) - Len(ctl) = k - Len(evtQ') - Len(ctl')
        /\ Len(evtQ) + Len(ctl) = Len(evtQ') + Len(ctl')
    BY <1>1, <1>2, <1>4, <1>5, <1>8
  <2> QED BY <1>1, <2>1 DEF At
<1>9. ASSUME NEW c \in Regular, NEW k \in Nat, At(k, c)
      PROVE  At(f[k], c)'
  <2>1. CASE k <= e \/ k > e + Len(ctl)
    <3>1. f[k] = k
      BY <1>2, <1>3, <2>1
    <3> QED BY <1>2, <1>6, <1>8, <1>9, <2>1, <3>1
  <2>2. CASE k = e + i
    <3>0. f[k] = e + 1
      BY <1>3, <2>2
    <3>1. k - e = i /\ e + 1 \in Nat
          /\ e < e + 1 /\ e + 1 <= e + Len(ctl) /\ e < k /\ k <= e + Len(ctl)
      BY <1>2, <2>2
    <3>2. ctl[k - e] = c
      BY <1>7, <1>9, <3>1
    <3> QED BY <1>7, <3>0, <3>1, <3>2
  <2>3. CASE e < k /\ k < e + i
    <3>0. f[k] = k + 1
      BY <1>3, <2>3
    <3>1. (k + 1) - (e + 1) = k - e
          /\ k - e \in 1..(i - 1) /\ k + 1 \in Nat /\ k + 1 # e + 1
          /\ e < k + 1 /\ k + 1 <= e + Len(ctl) /\ e < k /\ k <= e + Len(ctl)
      BY <1>2, <2>3
    <3>3. ctl[k - e] = c
      BY <1>7, <1>9, <3>1
    <3>2. ctl'[(k + 1) - (e + 1)] = c
      BY <1>5, <3>1, <3>3
    <3> QED BY <1>7, <3>0, <3>1, <3>2
  <2>4. CASE e + i < k /\ k <= e + Len(ctl)
    <3>0. f[k] = k
      BY <1>3, <2>4
    <3>1. k - (e + 1) \in i..(Len(ctl) - 1)
          /\ (k - (e + 1)) + 1 = k - e /\ k # e + 1 /\ e < k
      BY <1>2, <2>4
    <3>3. ctl[k - e] = c
      BY <1>7, <1>9, <2>4, <3>1
    <3>2. ctl'[k - (e + 1)] = c
      BY <1>5, <3>1, <3>3
    <3> QED BY <1>7, <2>4, <3>0, <3>1, <3>2
  <2> QED BY <1>2, <2>1, <2>2, <2>3, <2>4
<1>10. ASSUME NEW c \in Regular, NEW k \in Nat, At(k, c)'
       PROVE  \E l \in Nat : k = f[l] /\ At(l, c)
  <2>1. CASE k <= e \/ k > e + Len(ctl)
    <3>1. f[k] = k
      BY <1>2, <1>3, <2>1
    <3> QED BY <1>2, <1>6, <1>8, <1>10, <2>1, <3>1
  <2>2. CASE k = e + 1
    <3>1. ctl[i] = c
      BY <1>2, <1>7, <1>10, <2>2
    <3>2. f[e + i] = k /\ e + i \in Nat /\ (e + i) - e = i /\ e < e + i
          /\ e + i <= e + Len(ctl)
      BY <1>2, <1>3, <2>2
    <3>3. At(e + i, c)
      BY <1>7, <3>1, <3>2
    <3> QED BY <3>2, <3>3
  <2>3. CASE e + 1 < k /\ k <= e + i
    <3>0. e < k /\ k # e + 1 /\ k <= e + Len(ctl) /\ k - (e + 1) \in 1..(i - 1)
      BY <1>2, <2>3
    <3>1. /\ ctl'[k - (e + 1)] = c /\ k - (e + 1) \in 1..(i - 1)
      BY <1>7, <1>10, <3>0
    <3>2. /\ k - 1 \in Nat /\ e < k - 1 /\ k - 1 <= e + Len(ctl)
          /\ (k - 1) - e = k - (e + 1) /\ k - 1 < e + i /\ (k - 1) + 1 = k
      BY <1>2, <2>3
    <3>5. f[k - 1] = k
      BY <1>3, <3>2
    <3>3. ctl[(k - 1) - e] = c
      BY <1>5, <3>1, <3>2
    <3>4. At(k - 1, c)
      BY <1>7, <3>2, <3>3
    <3> QED BY <3>2, <3>4, <3>5
  <2>4. CASE e + i < k /\ k <= e + Len(ctl)
    <3>0. f[k] = k
      BY <1>3, <2>4
    <3>1. /\ e < k /\ k # e + 1
          /\ k - (e + 1) \in i..(Len(ctl) - 1) /\ (k - (e + 1)) + 1 = k - e
      BY <1>2, <2>4
    <3>2. ctl'[k - (e + 1)] = c
      BY <1>7, <1>10, <2>4, <3>1
    <3>3. ctl[k - e] = c
      BY <1>5, <3>1, <3>2
    <3> QED BY <1>7, <2>4, <3>0, <3>1, <3>3
  <2> QED BY <1>2, <2>1, <2>2, <2>3, <2>4
<1>11. ASSUME NEW c \in Regular, NEW d \in Regular, NEW k \in Nat, NEW l \in Nat,
              Opcode[c] = Opcode[d], k < l, At(k, c), At(l, d)
       PROVE  f[k] < f[l]
  <2>1. CASE l = e + i
    <3>1. ctl[i] = d
      <4>1. e < l /\ l <= e + Len(ctl) /\ l - e = i
        BY <1>2, <2>1
      <4> QED BY <1>7, <1>11, <4>1
    <3>2. k <= e
      <4> SUFFICES ASSUME k > e PROVE FALSE
        BY <1>2
      <4>1. k - e \in 1..Len(ctl) /\ k - e < i /\ k <= e + Len(ctl)
        BY <1>2, <1>11, <2>1
      <4>2. ctl[k - e] = c
        BY <1>7, <1>11, <4>1
      <4> QED BY <1>1, <1>11, <3>1, <4>1, <4>2
    <3> QED BY <1>2, <1>3, <1>11, <2>1, <3>2
  <2>2. CASE l # e + i
    <3>1. CASE l <= e \/ l > e + i
      <4>1. f[l] = l
        BY <1>3, <3>1
      <4>2. CASE k <= e \/ k > e + i
        BY <1>3, <1>11, <4>1, <4>2
      <4>3. CASE k > e /\ k < e + i
        <5>1. f[k] = k + 1 /\ l > e + i
          BY <1>2, <1>3, <1>11, <3>1, <4>3
        <5> QED BY <1>2, <4>1, <4>3, <5>1
      <4>4. CASE k = e + i
        <5>1. f[k] = e + 1 /\ l > e + i
          BY <1>2, <1>3, <1>11, <3>1, <4>4
        <5> QED BY <1>2, <4>1, <5>1
      <4> QED BY <1>2, <4>2, <4>3, <4>4
    <3>2. CASE l > e /\ l < e + i
      <4>1. f[l] = l + 1
        BY <1>3, <3>2
      <4>2. k <= e \/ (k > e /\ k < e + i)
        BY <1>2, <1>11, <3>2
      <4>3. f[k] = k \/ f[k] = k + 1
        BY <1>3, <4>2
      <4> QED BY <1>11, <4>1, <4>3
    <3> QED BY <1>2, <2>2, <3>1, <3>2
  <2> QED BY <2>1, <2>2
<1>12. pending' = pending
  BY <1>1
<1> QED BY <1>3, <1>9, <1>10, <1>11, <1>12, OrderMoves

(* The controller's answer to no command takes a place nothing waits for.  *)
LEMMA OrderCtlNop ==
  ASSUME TypeOK, OrderInv, RegularInv, CtlNop PROVE OrderInv'
<1>1. PICK n \in 1..CtlSlots :
        evtQ' = Append(evtQ, [type |-> "complete", n |-> n, cmd |-> None])
  BY DEF CtlNop
<1>2. UNCHANGED <<pending, ctl, toCtl, rxPc, rxEvt, hostPc, hostCmd>>
  BY DEF CtlNop, timVars, rxVars, hostVars
<1>3. PICK e \in Nat : e = Len(evtQ)
  BY PlaceTypes
<1>4. /\ Len(evtQ') = e + 1 /\ evtQ'[e + 1].cmd = None
      /\ \A k \in 1..e : evtQ'[k] = evtQ[k]
  <2>1. [type |-> "complete", n |-> n, cmd |-> None] \in Events
    BY DEF Events
  <2> QED BY <1>1, <1>3, <2>1, PlaceTypes, AppendProperties
<1> DEFINE f == [k \in Nat |-> IF k > e THEN k + 1 ELSE k]
<1>5. /\ f \in [Nat -> Nat]
      /\ \A k \in Nat : k > e => f[k] = k + 1
      /\ \A k \in Nat : k <= e => f[k] = k
  OBVIOUS
<1> HIDE DEF f
<1>6. \A c \in Regular : ~At(e + 1, c)'
  <2> SUFFICES ASSUME NEW c \in Regular, At(e + 1, c)' PROVE FALSE
    OBVIOUS
  <2>1. /\ e + 1 # 0 /\ (e + 1) - Len(evtQ') \notin 1..Len(ctl')
        /\ (e + 1) - Len(evtQ') - Len(ctl') \notin 1..Len(toCtl')
        /\ e + 1 # Len(evtQ') + Len(ctl') + Len(toCtl') + 1
    BY <1>2, <1>3, <1>4, PlaceTypes
  <2> QED BY <1>4, <2>1, PlaceTypes DEF At
<1>7. ASSUME NEW c \in Regular, NEW k \in Nat, k <= e
      PROVE  At(k, c) <=> At(k, c)'
  <2>1. /\ k - Len(evtQ) \notin 1..Len(ctl) /\ k - Len(evtQ') \notin 1..Len(ctl')
        /\ k - Len(evtQ) - Len(ctl) \notin 1..Len(toCtl)
        /\ k - Len(evtQ') - Len(ctl') \notin 1..Len(toCtl')
        /\ k # Len(evtQ) + Len(ctl) + Len(toCtl) + 1
        /\ k # Len(evtQ') + Len(ctl') + Len(toCtl') + 1
    BY <1>2, <1>3, <1>4, <1>7, PlaceTypes
  <2>2. k \in 1..Len(evtQ) /\ evtQ[k].cmd = c
        <=> k \in 1..Len(evtQ') /\ evtQ'[k].cmd = c
    BY <1>3, <1>4, <1>7
  <2> QED BY <1>2, <2>1, <2>2 DEF At
<1>8. ASSUME NEW c \in Regular, NEW k \in Nat, k > e
      PROVE  At(k, c) <=> At(k + 1, c)'
  <2>1. /\ k # 0 /\ k + 1 # 0
        /\ k \notin 1..Len(evtQ) /\ k + 1 \notin 1..Len(evtQ')
        /\ k - Len(evtQ) = (k + 1) - Len(evtQ')
    BY <1>3, <1>4, <1>8
  <2>2. k = Len(evtQ) + Len(ctl) + Len(toCtl) + 1
        <=> k + 1 = Len(evtQ') + Len(ctl) + Len(toCtl) + 1
    BY SMTT(30), <1>3, <1>4, <1>8, PlaceTypes
  <2> QED BY <1>2, <2>1, <2>2 DEF At
<1>9. ASSUME NEW c \in Regular, NEW k \in Nat, At(k, c) PROVE At(f[k], c)'
  BY <1>5, <1>7, <1>8, <1>9
<1>10. ASSUME NEW c \in Regular, NEW k \in Nat, At(k, c)'
       PROVE  \E l \in Nat : k = f[l] /\ At(l, c)
  <2>1. CASE k <= e
    BY <1>5, <1>7, <1>10, <2>1
  <2>2. CASE k > e
    <3>1. k # e + 1
      BY <1>6, <1>10
    <3>2. k - 1 \in Nat /\ k - 1 > e /\ (k - 1) + 1 = k
      BY <2>2, <3>1
    <3>3. f[k - 1] = k /\ At(k - 1, c)
      BY <1>5, <1>8, <1>10, <3>2
    <3> QED BY <3>2, <3>3
  <2> QED BY <2>1, <2>2
<1>11. ASSUME NEW k \in Nat, NEW l \in Nat, k < l PROVE f[k] < f[l]
  BY <1>5, <1>11
<1> QED BY <1>2, <1>5, <1>9, <1>10, <1>11, OrderMoves

(* HAL transmission moves the command from the host task into the          *)
(* transport, one and the same place.                                      *)
LEMMA OrderHostSend ==
  ASSUME TypeOK, OrderInv, RegularInv, HostSend PROVE OrderInv'
<1>1. /\ hostPc = "send" /\ hostPc' = "timer"
      /\ toCtl' = Append(toCtl, hostCmd)
      /\ UNCHANGED <<pending, evtQ, ctl, rxPc, rxEvt, hostCmd>>
  BY DEF HostSend, timVars, rxVars
<1>2. /\ Len(toCtl') = Len(toCtl) + 1 /\ toCtl'[Len(toCtl) + 1] = hostCmd
      /\ \A k \in 1..Len(toCtl) : toCtl'[k] = toCtl[k]
  BY <1>1, AppendPlaces
<1>3. ASSUME NEW c \in Regular, NEW k \in Nat PROVE At(k, c)' <=> At(k, c)
  <2>0. k - Len(evtQ) - Len(ctl) \in Int
    BY PlaceTypes
  <2>1. PICK n \in Int : n = k - Len(evtQ) - Len(ctl)
    BY <2>0
  <2>2. k = Len(evtQ) + Len(ctl) + Len(toCtl) + 1 <=> n = Len(toCtl) + 1
    BY <2>1, PlaceTypes
  <2>3. n \in 1..Len(toCtl') /\ toCtl'[n] = c
        <=> \/ n \in 1..Len(toCtl) /\ toCtl[n] = c
            \/ n = Len(toCtl) + 1 /\ hostCmd = c
    BY <1>2, PlaceTypes
  <2> QED BY <1>1, <2>1, <2>2, <2>3 DEF At
<1> QED BY <1>1, <1>3, OrderSame

(* event_command_ready: HCI_HOST_NUM_PACKETS_DONE joins the transport, no  *)
(* other command moves.                                                    *)
LEMMA OrderHostDequeue ==
  ASSUME TypeOK, OrderInv, RegularInv, HostState, HostDequeue PROVE OrderInv'
<1>1. /\ hostPc = "dequeue" /\ hostPc' # "send"
      /\ UNCHANGED <<pending, evtQ, ctl, rxPc, rxEvt>>
  <2>1. hostPc' \in {"recv", "load"}
    BY Zenon DEF HostDequeue
  <2> QED BY <2>1 DEF HostDequeue, timVars, rxVars
<1>2. \/ toCtl' = toCtl
      \/ Kind[Head(cmdQ)] = "npd" /\ toCtl' = Append(toCtl, Head(cmdQ))
  BY Zenon DEF HostDequeue
<1>3. CASE toCtl' = toCtl
  <2>1. \A c \in Regular, k \in Nat : At(k, c)' <=> At(k, c)
    BY <1>1, <1>3 DEF At
  <2> QED BY <1>1, <2>1, OrderSame
<1>4. CASE Kind[Head(cmdQ)] = "npd" /\ toCtl' = Append(toCtl, Head(cmdQ))
  <2>1. /\ Len(toCtl') = Len(toCtl) + 1 /\ toCtl'[Len(toCtl) + 1] = Head(cmdQ)
        /\ \A k \in 1..Len(toCtl) : toCtl'[k] = toCtl[k]
    BY <1>4, AppendPlaces
  <2>2. \A c \in Regular : Head(cmdQ) # c
    BY <1>4 DEF Regular
  <2>3. ASSUME NEW c \in Regular, NEW n \in Int
        PROVE  n \in 1..Len(toCtl') /\ toCtl'[n] = c
               <=> n \in 1..Len(toCtl) /\ toCtl[n] = c
    BY <2>1, <2>2, PlaceTypes
  <2>4. ASSUME NEW c \in Regular, NEW k \in Nat PROVE At(k, c)' <=> At(k, c)
    <3>1. k - Len(evtQ) - Len(ctl) \in Int
      BY PlaceTypes
    <3> QED BY <1>1, <2>3, <3>1 DEF At
  <2> QED BY <1>1, <2>4, OrderSame
<1> QED BY <1>2, <1>3, <1>4

(* The command's entry joins the pending list as the command gets ready to *)
(* take its first place, behind all others.                                *)
LEMMA OrderHostAppend ==
  ASSUME TypeOK, OrderInv, RegularInv, LifeInv, HostState, HostAppend
  PROVE  OrderInv'
<1>1. /\ hostPc = "append" /\ hostPc' = "send"
      /\ pending' = Append(pending, hostCmd)
      /\ UNCHANGED <<evtQ, ctl, toCtl, rxPc, rxEvt, hostCmd>>
  BY DEF HostAppend, ctlVars, rxVars
<1>2. hostCmd \in Regular /\ hostCmd \in Cmds /\ hostCmd \notin ToSet(pending)
  <2>1. hostCmd \in Cmds /\ Kind[hostCmd] # "npd"
    BY <1>1 DEF HostState
  <2> QED BY <1>1, <2>1 DEF Regular, LifeInv, Life, Held, Waiting
<1>3. /\ pending \in Seq(Cmds) /\ Len(pending) \in Nat
      /\ Len(pending') = Len(pending) + 1
      /\ pending'[Len(pending) + 1] = hostCmd
      /\ \A k \in 1..Len(pending) : pending'[k] = pending[k]
  <2>1. pending \in Seq(Cmds)
    BY DEF TypeOK
  <2> QED BY <1>1, <1>2, <2>1, AppendProperties
<1>4. \A c : c \in ToSet(pending') <=> c \in ToSet(pending) \/ c = hostCmd
  BY <1>1, <1>2, <1>3, AppendElements
<1>5. PICK z \in Nat : z = Len(evtQ) + Len(ctl) + Len(toCtl) + 1
  BY PlaceTypes
<1>6. ASSUME NEW c \in Regular, NEW k \in Nat
      PROVE  At(k, c)' <=> At(k, c) \/ (k = z /\ c = hostCmd)
  BY <1>1, <1>5 DEF At
<1>7. ASSUME NEW c \in Regular, NEW k \in Nat, At(k, c) PROVE k < z
  BY <1>1, <1>5, <1>7, PlaceTypes DEF At
<1>8. \A k \in Nat : ~At(k, hostCmd)
  BY <1>2 DEF OrderInv
<1>9. \A k \in 1..Len(pending) : pending[k] \in Regular /\ pending[k] # hostCmd
  BY <1>2 DEF RegularInv, ToSet
<1>10. ASSUME NEW c \in Regular, NEW k \in Nat, NEW l \in Nat,
              At(k, c)', At(l, c)'
       PROVE  k = l
  <2>1. CASE c = hostCmd
    BY <1>6, <1>8, <1>10, <2>1
  <2>2. CASE c # hostCmd
    <3>1. At(k, c) /\ At(l, c)
      BY <1>6, <1>10, <2>2
    <3> QED BY <3>1 DEF OrderInv
  <2> QED BY <2>1, <2>2
<1>11. ASSUME NEW c \in Regular
       PROVE  c \in ToSet(pending)' <=> \E k \in Nat : At(k, c)'
  <2>1. CASE c = hostCmd
    <3>1. At(z, c)'
      BY <1>6, <2>1
    <3> QED BY <1>4, <2>1, <3>1 DEF ToSet
  <2>2. CASE c # hostCmd
    <3>1. c \in ToSet(pending)' <=> c \in ToSet(pending)
      BY <1>4, <2>2 DEF ToSet
    <3>2. \A k \in Nat : At(k, c)' <=> At(k, c)
      BY <1>6, <2>2
    <3>3. c \in ToSet(pending) <=> \E k \in Nat : At(k, c)
      BY DEF OrderInv
    <3> QED BY <3>1, <3>2, <3>3
  <2> QED BY <2>1, <2>2
<1>12. ASSUME NEW i \in 1..Len(pending'), NEW j \in 1..Len(pending'),
              NEW k \in Nat, NEW l \in Nat,
              i < j, Opcode[pending'[i]] = Opcode[pending'[j]],
              At(k, pending[i])', At(l, pending[j])'
       PROVE  k < l
  <2>1. i \in 1..Len(pending) /\ pending'[i] = pending[i]
    BY <1>3, <1>12
  <2>2. PICK c \in Regular : c = pending[i] /\ c = pending'[i] /\ c # hostCmd
    BY <1>9, <2>1
  <2>3. At(k, c)'
    BY <1>12, <2>2
  <2>4. At(k, c)
    BY <1>6, <2>2, <2>3
  <2>5. CASE j = Len(pending) + 1
    <3>1. pending'[j] = hostCmd
      BY <1>3, <2>5
    <3>2. At(l, hostCmd)'
      BY <1>1, <1>12, <3>1
    <3>3. l = z
      BY <1>1, <1>2, <1>6, <1>8, <3>2
    <3> QED BY <1>7, <2>4, <3>3
  <2>6. CASE j \in 1..Len(pending)
    <3>1. PICK d \in Regular : d = pending[j] /\ d = pending'[j] /\ d # hostCmd
      BY <1>3, <1>9, <2>6
    <3>2. At(l, d)'
      BY <1>12, <3>1
    <3>3. At(l, d)
      BY <1>6, <3>1, <3>2
    <3>4. /\ Opcode[pending[i]] = Opcode[pending[j]]
          /\ At(k, pending[i]) /\ At(l, pending[j])
      BY <1>12, <2>2, <2>4, <3>1, <3>3
    <3> QED BY <1>12, <2>1, <2>6, <3>4 DEF OrderInv
  <2> QED BY <1>3, <2>5, <2>6
<1>13. ASSUME NEW i \in 1..Len(pending'), NEW j \in 1..Len(pending'),
              pending'[i] = pending'[j]
       PROVE  i = j
  <2>1. ASSUME NEW a \in 1..Len(pending'), NEW b \in 1..Len(pending'),
               pending'[a] = pending'[b], a # Len(pending) + 1
        PROVE  a = b
    <3>1. a \in 1..Len(pending) /\ pending'[a] = pending[a]
      BY <1>3, <2>1
    <3>2. b \in 1..Len(pending) /\ pending'[b] = pending[b]
      <4>1. b # Len(pending) + 1
        BY <1>3, <1>9, <2>1, <3>1
      <4> QED BY <1>3, <4>1
    <3> QED BY <2>1, <3>1, <3>2 DEF OrderInv
  <2> QED BY <1>13, <2>1
<1> QED BY <1>10, <1>11, <1>12, <1>13 DEF OrderInv

(* What get_waiting_command finds: the entry of the very command the event *)
(* answers, since an earlier one of its opcode would have been answered    *)
(* before it.                                                              *)
LEMMA RxMatchFinds ==
  ASSUME TypeOK, OrderInv, RegularInv, RxMatch
  PROVE  \/ /\ rxEvt.cmd = None /\ rxCmd' = None
            /\ UNCHANGED <<pending, notified>>
         \/ \E i \in 1..Len(pending) :
              /\ pending[i] = rxEvt.cmd /\ rxEvt.cmd \in Regular
              /\ rxCmd' = rxEvt.cmd
              /\ pending' = RemoveAt(pending, i)
              /\ notified' = IF Notifies(rxEvt.cmd, rxEvt.type)
                             THEN [notified EXCEPT ![rxEvt.cmd] = @ + 1]
                             ELSE notified
<1>1. /\ rxPc = "match"
      /\ \/ /\ rxEvt.cmd = None \/ (rxEvt.cmd # None /\ Matches(rxEvt.cmd) = {})
            /\ rxCmd' = None
            /\ UNCHANGED <<pending, notified>>
         \/ /\ rxEvt.cmd # None
            /\ \E i \in Matches(rxEvt.cmd) :
                 /\ \A j \in Matches(rxEvt.cmd) : i <= j
                 /\ rxCmd' = pending[i]
                 /\ pending' = RemoveAt(pending, i)
                 /\ notified' = IF Notifies(pending[i], rxEvt.type)
                                THEN [notified EXCEPT ![pending[i]] = @ + 1]
                                ELSE notified
  BY Zenon DEF RxMatch
<1>2. ASSUME rxEvt.cmd # None
      PROVE  /\ rxEvt.cmd \in Regular /\ At(0, rxEvt.cmd)
             /\ \E m \in Matches(rxEvt.cmd) : pending[m] = rxEvt.cmd
  <2>1. rxEvt.cmd \in Regular
    BY <1>2 DEF RegularInv
  <2>2. At(0, rxEvt.cmd)
    BY <1>1 DEF At
  <2>3. rxEvt.cmd \in ToSet(pending)
    BY <2>1, <2>2 DEF OrderInv
  <2>4. PICK m \in 1..Len(pending) : pending[m] = rxEvt.cmd
    BY <2>3 DEF ToSet
  <2>5. m \in Matches(rxEvt.cmd)
    BY <2>4 DEF Matches
  <2> QED BY <2>1, <2>2, <2>4, <2>5
<1>3. ASSUME NEW i \in Matches(rxEvt.cmd), rxEvt.cmd # None,
             \A j \in Matches(rxEvt.cmd) : i <= j
      PROVE  i \in 1..Len(pending) /\ pending[i] = rxEvt.cmd
  <2>1. PICK m \in Matches(rxEvt.cmd) : pending[m] = rxEvt.cmd
    BY <1>2, <1>3
  <2>2. /\ i \in 1..Len(pending) /\ m \in 1..Len(pending) /\ i <= m
        /\ Opcode[pending[i]] = Opcode[rxEvt.cmd]
        /\ Len(pending) \in Nat
    BY <1>3 DEF Matches, TypeOK
  <2>3. ~(i < m)
    <3> SUFFICES ASSUME i < m PROVE FALSE
      OBVIOUS
    <3>1. pending[i] \in Regular /\ pending[i] \in ToSet(pending)
      BY <2>2 DEF RegularInv, ToSet
    <3>2. PICK k \in Nat : At(k, pending[i])
      BY <3>1 DEF OrderInv
    <3>3. At(0, pending[m])
      BY <1>2, <1>3, <2>1
    <3>4. k < 0
      BY <2>1, <2>2, <3>2, <3>3 DEF OrderInv
    <3> QED BY <3>4
  <2>4. i = m
    BY <2>2, <2>3
  <2> QED BY <2>1, <2>2, <2>4
<1>4. CASE rxEvt.cmd = None
  BY <1>1, <1>4, Zenon
<1>5. CASE rxEvt.cmd # None
  <2>1. Matches(rxEvt.cmd) # {}
    BY <1>2, <1>5
  <2>2. PICK i \in Matches(rxEvt.cmd) :
          /\ \A j \in Matches(rxEvt.cmd) : i <= j
          /\ rxCmd' = pending[i]
          /\ pending' = RemoveAt(pending, i)
          /\ notified' = IF Notifies(pending[i], rxEvt.type)
                         THEN [notified EXCEPT ![pending[i]] = @ + 1]
                         ELSE notified
    BY <1>1, <1>5, <2>1, Zenon
  <2>3. i \in 1..Len(pending) /\ pending[i] = rxEvt.cmd
    BY <1>3, <1>5, <2>2
  <2>4. rxEvt.cmd \in Regular
    BY <1>2, <1>5
  <2> QED BY <2>2, <2>3, <2>4
<1> QED BY <1>4, <1>5

LEMMA OrderRxMatch ==
  ASSUME TypeOK, OrderInv, RegularInv, RxMatch PROVE OrderInv'
<1>1. /\ rxPc = "match" /\ rxPc' = "timer"
      /\ UNCHANGED <<evtQ, ctl, toCtl, hostPc, hostCmd, rxEvt>>
  BY DEF RxMatch, ctlVars, hostVars
<1>2. CASE rxEvt.cmd = None /\ pending' = pending
  <2>1. \A c \in Regular : rxEvt.cmd # c
    BY <1>2, PlaceTypes
  <2>2. ASSUME NEW c \in Regular, NEW k \in Nat PROVE At(k, c)' <=> At(k, c)
    BY <1>1, <2>1 DEF At
  <2> QED BY <1>2, <2>2, OrderSame
<1>3. ASSUME NEW i \in 1..Len(pending), pending[i] = rxEvt.cmd,
             rxEvt.cmd \in Regular, pending' = RemoveAt(pending, i)
      PROVE  OrderInv'
  <2>1. PICK d \in Regular : d = rxEvt.cmd /\ d = pending[i]
    BY <1>3
  <2>2. \A x, y \in 1..Len(pending) : pending[x] = pending[y] => x = y
    BY DEF OrderInv
  <2>3. pending \in Seq(Cmds)
    BY DEF TypeOK
  <2>4. /\ \A c : c \in ToSet(pending') <=> c \in ToSet(pending) /\ c # d
        /\ \A a, b \in 1..Len(pending') :
             a < b => \E x, y \in 1..Len(pending) :
                        x < y /\ pending'[a] = pending[x] /\ pending'[b] = pending[y]
        /\ \A a, b \in 1..Len(pending') : pending'[a] = pending'[b] => a = b
    <3>1. /\ \A c : c \in ToSet(RemoveAt(pending, i))
                   <=> c \in ToSet(pending) /\ c # pending[i]
          /\ \A a, b \in 1..Len(RemoveAt(pending, i)) :
               a < b => \E x, y \in 1..Len(pending) :
                          /\ x < y
                          /\ RemoveAt(pending, i)[a] = pending[x]
                          /\ RemoveAt(pending, i)[b] = pending[y]
          /\ \A a, b \in 1..Len(RemoveAt(pending, i)) :
               RemoveAt(pending, i)[a] = RemoveAt(pending, i)[b] => a = b
      BY <2>2, <2>3, RemoveAtElements
    <3> QED BY <1>3, <2>1, <3>1
  <2>5. ASSUME NEW c \in Regular, NEW k \in Nat
        PROVE  At(k, c)' <=> At(k, c) /\ c # d
    <3>1. At(0, d)
      BY <1>1, <2>1 DEF At
    <3>2. At(k, c)' => At(k, c) /\ k # 0
      BY <1>1, PlaceTypes DEF At
    <3>3. CASE c = d
      <4>1. At(k, d) => k = 0
        BY <3>1 DEF OrderInv
      <4> QED BY <3>2, <3>3, <4>1
    <3>4. CASE c # d
      <4>1. At(k, c) => At(k, c)'
        BY <1>1, <2>1, <3>4 DEF At
      <4> QED BY <3>2, <3>4, <4>1
    <3> QED BY <3>3, <3>4
  <2>6. \A c \in Regular, k, l \in Nat : At(k, c)' /\ At(l, c)' => k = l
    BY <2>5 DEF OrderInv
  <2>7. ASSUME NEW c \in Regular
        PROVE  c \in ToSet(pending)' <=> \E k \in Nat : At(k, c)'
    <3>1. c \in ToSet(pending)' <=> c \in ToSet(pending) /\ c # d
      BY <2>4 DEF ToSet
    <3>2. c \in ToSet(pending) <=> \E k \in Nat : At(k, c)
      BY DEF OrderInv
    <3> QED BY <2>5, <3>1, <3>2
  <2>8. ASSUME NEW a \in 1..Len(pending'), NEW b \in 1..Len(pending'),
               NEW k \in Nat, NEW l \in Nat,
               a < b, Opcode[pending'[a]] = Opcode[pending'[b]],
               At(k, pending[a])', At(l, pending[b])'
        PROVE  k < l
    <3>1. PICK x \in 1..Len(pending), y \in 1..Len(pending) :
            x < y /\ pending'[a] = pending[x] /\ pending'[b] = pending[y]
      BY <2>4, <2>8
    <3>2. PICK c \in Regular, e \in Regular :
            /\ c = pending[x] /\ c = pending'[a]
            /\ e = pending[y] /\ e = pending'[b]
      BY <3>1 DEF RegularInv, ToSet
    <3>3. At(k, c)' /\ At(l, e)'
      BY <2>8, <3>2
    <3>4. At(k, c) /\ At(l, e)
      BY <2>5, <3>3
    <3>5. /\ Opcode[pending[x]] = Opcode[pending[y]]
          /\ At(k, pending[x]) /\ At(l, pending[y])
      BY <2>8, <3>2, <3>4
    <3> QED BY <3>1, <3>5 DEF OrderInv
  <2> QED BY <2>4, <2>6, <2>7, <2>8 DEF OrderInv
<1> QED BY <1>2, <1>3, RxMatchFinds

(* A step that neither moves a command nor changes what waits. *)
LEMMA OrderQuiet ==
  ASSUME TypeOK, OrderInv, RegularInv, UNCHANGED <<pending, evtQ, ctl, toCtl>>,
         (rxPc # "match" /\ rxPc' # "match") \/ UNCHANGED <<rxPc, rxEvt>>,
         (hostPc # "send" /\ hostPc' # "send") \/ UNCHANGED <<hostPc, hostCmd>>
  PROVE  OrderInv'
<1>1. ASSUME NEW c \in Regular, NEW k \in Nat PROVE At(k, c)' <=> At(k, c)
  <2>1. /\ rxPc = "match" /\ rxEvt.cmd = c <=> rxPc' = "match" /\ rxEvt'.cmd = c
        /\ hostPc = "send" /\ hostCmd = c <=> hostPc' = "send" /\ hostCmd' = c
    OBVIOUS
  <2> QED BY <2>1 DEF At
<1> QED BY <1>1, OrderSame

LEMMA OrderStep ==
  ASSUME TypeInv, CommandInv, [Next]_vars PROVE OrderInv'
<1>0. TypeOK /\ HostState /\ OrderInv /\ RegularInv /\ LifeInv
  BY DEF TypeInv, CommandInv
<1>1. CASE Callers \/ UNCHANGED vars
  <2>1. UNCHANGED <<pending, evtQ, ctl, toCtl, rxPc, rxEvt, hostPc, hostCmd>>
    BY <1>1 DEF Callers, TransmitCommand, TransmitPacket, Post, timVars,
       hostVars, rxVars, ctlVars, vars
  <2> QED BY <1>0, <2>1, OrderQuiet
<1>2. CASE \/ HostReceive \/ HostContinue \/ HostSelect \/ HostPacket
           \/ HostLoad \/ HostStore \/ HostTimer
  <2>1. /\ UNCHANGED <<pending, evtQ, ctl, toCtl, rxPc, rxEvt>>
        /\ hostPc # "send" /\ hostPc' # "send"
    BY <1>2 DEF HostReceive, HostContinue, HostSelect, HostPacket, HostLoad,
       HostStore, HostTimer, timVars, rxVars, ctlVars
  <2> QED BY <1>0, <2>1, OrderQuiet
<1>3. CASE RxTimer \/ RxTest \/ RxPost \/ RxFree \/ CommandTimedOut
  <2>1. /\ UNCHANGED <<pending, evtQ, ctl, toCtl, hostPc, hostCmd>>
        /\ (rxPc # "match" /\ rxPc' # "match") \/ UNCHANGED <<rxPc, rxEvt>>
    BY <1>3 DEF RxTimer, RxTest, RxPost, RxFree, CommandTimedOut, AlarmExpires, TimedOutRead,
     TimedOutLog, timVars,
       hostVars, rxVars, ctlVars
  <2> QED BY <1>0, <2>1, OrderQuiet
<1>4. CASE HostDequeue \/ HostAppend \/ HostSend
  BY <1>0, <1>4, OrderHostDequeue, OrderHostAppend, OrderHostSend
<1>5. CASE RxEvent \/ RxMatch
  BY <1>0, <1>5, OrderRxEvent, OrderRxMatch
<1>6. CASE Controller
  BY <1>0, <1>6, OrderCtlReceive, OrderCtlAnswer, OrderCtlNop DEF Controller
<1> QED BY <1>1, <1>2, <1>3, <1>4, <1>5, <1>6 DEF Next, HostTask, RxThread

LEMMA RegularStep ==
  ASSUME TypeInv, CommandInv, [Next]_vars PROVE RegularInv'
<1>0. /\ TypeOK /\ HostState /\ OrderInv /\ RegularInv
      /\ pending \in Seq(Cmds) /\ ctl \in Seq(Cmds) /\ toCtl \in Seq(Cmds)
      /\ evtQ \in Seq(Events)
  BY DEF TypeInv, CommandInv, TypeOK
<1>1. /\ \A k \in 1..Len(pending) : pending[k] \in Regular
      /\ \A k \in 1..Len(ctl) : ctl[k] \in Regular
  BY <1>0 DEF RegularInv, ToSet
<1>2. ASSUME \A k \in 1..Len(pending') : pending'[k] \in Regular,
             \A k \in 1..Len(ctl') : ctl'[k] \in Regular,
             \A k \in 1..Len(evtQ') : evtQ'[k].cmd \in Regular \cup {None},
             rxEvt'.cmd \in Regular \cup {None}
      PROVE  RegularInv'
  BY <1>2 DEF RegularInv, ToSet
<1>3. CASE UNCHANGED <<pending, ctl, evtQ, rxEvt>>
  BY <1>0, <1>1, <1>2, <1>3 DEF RegularInv
<1>4. CASE Callers \/ UNCHANGED vars \/ CommandTimedOut
  BY <1>3, <1>4 DEF Callers, TransmitCommand, TransmitPacket, Post,
     CommandTimedOut, AlarmExpires, TimedOutRead,
     TimedOutLog, timVars, rxVars, ctlVars, vars
<1>5. CASE \/ HostReceive \/ HostContinue \/ HostSelect \/ HostPacket
           \/ HostDequeue \/ HostLoad \/ HostStore \/ HostSend \/ HostTimer
  BY <1>3, <1>5 DEF HostReceive, HostContinue, HostSelect, HostPacket, HostLoad,
     HostDequeue, HostStore, HostSend, HostTimer, timVars, rxVars, ctlVars
<1>6. CASE HostAppend
  <2>1. /\ pending' = Append(pending, hostCmd) /\ UNCHANGED <<ctl, evtQ, rxEvt>>
        /\ hostCmd \in Regular /\ hostCmd \in Cmds
    BY <1>0, <1>6 DEF HostAppend, rxVars, ctlVars, HostState, Regular
  <2>2. /\ Len(pending') = Len(pending) + 1 /\ Len(pending) \in Nat
        /\ pending'[Len(pending) + 1] = hostCmd
        /\ \A k \in 1..Len(pending) : pending'[k] = pending[k]
    BY <1>0, <2>1, AppendProperties
  <2>3. \A k \in 1..Len(pending') : pending'[k] \in Regular
    BY <1>1, <2>1, <2>2
  <2> QED BY <1>0, <1>1, <1>2, <2>1, <2>3 DEF RegularInv
<1>7. CASE RxEvent
  <2>1. /\ evtQ # <<>> /\ rxEvt' = Head(evtQ) /\ evtQ' = Tail(evtQ)
        /\ UNCHANGED <<pending, ctl>>
    BY <1>7 DEF RxEvent, timVars
  <2>2. /\ Head(evtQ) = evtQ[1] /\ 1 \in 1..Len(evtQ)
        /\ \A k \in 1..Len(evtQ') : evtQ'[k] = evtQ[k + 1] /\ k + 1 \in 1..Len(evtQ)
    BY <1>0, <2>1, HeadTailProperties
  <2> QED BY <1>0, <1>1, <1>2, <2>1, <2>2 DEF RegularInv
<1>8. CASE RxMatch
  <2>1. UNCHANGED <<ctl, evtQ, rxEvt>>
    BY <1>8 DEF RxMatch, ctlVars
  <2>2. CASE pending' = pending
    BY <1>3, <2>1, <2>2
  <2>3. ASSUME NEW i \in 1..Len(pending), pending' = RemoveAt(pending, i)
        PROVE  \A k \in 1..Len(pending') : pending'[k] \in Regular
    <3>1. Len(pending) \in Nat /\ i \in Nat
      BY <1>0
    <3>2. Len(pending') = Len(pending) - 1
      BY <1>0, <2>3, RemoveAtType
    <3>3. /\ \A k \in 1..(i - 1) : pending'[k] = pending[k]
          /\ \A k \in i..(Len(pending) - 1) : pending'[k] = pending[k + 1]
      BY <1>0, <2>3, RemoveAtPlaces
    <3> QED BY <1>1, <3>1, <3>2, <3>3
  <2> QED BY <1>0, <1>1, <1>2, <1>8, <2>1, <2>2, <2>3, RxMatchFinds DEF RegularInv
<1>9. CASE RxTimer \/ RxTest \/ RxPost
  BY <1>3, <1>9 DEF RxTimer, RxTest, RxPost, timVars, rxVars, ctlVars
<1>10. CASE RxFree
  <2>1. UNCHANGED <<pending, ctl, evtQ>> /\ rxEvt'.cmd = None
    BY <1>10 DEF RxFree, NoEvent, timVars, ctlVars
  <2> QED BY <1>0, <1>1, <1>2, <2>1 DEF RegularInv
<1>11. CASE CtlReceive
  <2>1. UNCHANGED <<pending, evtQ, rxEvt>>
    BY <1>11 DEF CtlReceive, timVars, rxVars
  <2>2. CASE ctl' = ctl
    BY <1>3, <2>1, <2>2
  <2>3. CASE Kind[Head(toCtl)] # "npd" /\ ctl' = Append(ctl, Head(toCtl))
    <3>1. Head(toCtl) \in Cmds /\ Head(toCtl) \in Regular
      <4>1. toCtl # <<>>
        BY <1>11 DEF CtlReceive
      <4> QED BY <1>0, <2>3, <4>1, HeadTailProperties DEF Regular
    <3>2. /\ Len(ctl') = Len(ctl) + 1 /\ Len(ctl) \in Nat
          /\ ctl'[Len(ctl) + 1] = Head(toCtl)
          /\ \A k \in 1..Len(ctl) : ctl'[k] = ctl[k]
      BY <1>0, <2>3, <3>1, AppendProperties
    <3>3. \A k \in 1..Len(ctl') : ctl'[k] \in Regular
      BY <1>1, <3>1, <3>2
    <3> QED BY <1>0, <1>1, <1>2, <2>1, <3>3 DEF RegularInv
  <2>4. \/ ctl' = ctl
        \/ Kind[Head(toCtl)] # "npd" /\ ctl' = Append(ctl, Head(toCtl))
    BY <1>11, Zenon DEF CtlReceive
  <2> QED BY <2>2, <2>3, <2>4
<1>12. CASE CtlAnswer
  <2>1. PICK i \in 1..Len(ctl), type \in {"complete", "status"},
             n \in 0..CtlSlots :
          /\ evtQ' = Append(evtQ, [type |-> type, n |-> n, cmd |-> ctl[i]])
          /\ ctl' = RemoveAt(ctl, i)
          /\ UNCHANGED <<pending, rxEvt>>
    BY <1>12 DEF CtlAnswer, timVars, rxVars
  <2>2. Len(ctl) \in Nat /\ i \in Nat
    BY <1>0
  <2>3. \A k \in 1..Len(ctl') : ctl'[k] \in Regular
    <3>1. Len(ctl') = Len(ctl) - 1
      BY <1>0, <2>1, RemoveAtType
    <3>2. /\ \A k \in 1..(i - 1) : ctl'[k] = ctl[k]
          /\ \A k \in i..(Len(ctl) - 1) : ctl'[k] = ctl[k + 1]
      BY <1>0, <2>1, RemoveAtPlaces
    <3> QED BY <1>1, <2>2, <3>1, <3>2
  <2>4. [type |-> type, n |-> n, cmd |-> ctl[i]] \in Events
    BY <1>0 DEF Events
  <2>5. /\ Len(evtQ') = Len(evtQ) + 1 /\ Len(evtQ) \in Nat
        /\ evtQ'[Len(evtQ) + 1].cmd = ctl[i]
        /\ \A k \in 1..Len(evtQ) : evtQ'[k] = evtQ[k]
    BY <1>0, <2>1, <2>4, AppendProperties
  <2>6. \A k \in 1..Len(evtQ') : evtQ'[k].cmd \in Regular \cup {None}
    <3>1. \A k \in 1..Len(evtQ) : evtQ[k].cmd \in Regular \cup {None}
      BY <1>0 DEF RegularInv
    <3>2. ctl[i] \in Regular
      BY <1>1
    <3> QED BY <2>5, <3>1, <3>2
  <2> QED BY <1>0, <1>1, <1>2, <2>1, <2>3, <2>6 DEF RegularInv
<1>13. CASE CtlNop
  <2>1. PICK n \in 1..CtlSlots :
          evtQ' = Append(evtQ, [type |-> "complete", n |-> n, cmd |-> None])
    BY <1>13 DEF CtlNop
  <2>2. UNCHANGED <<pending, ctl, rxEvt>>
    BY <1>13 DEF CtlNop, timVars, rxVars
  <2>3. [type |-> "complete", n |-> n, cmd |-> None] \in Events
    BY DEF Events
  <2>4. /\ Len(evtQ') = Len(evtQ) + 1 /\ Len(evtQ) \in Nat
        /\ evtQ'[Len(evtQ) + 1].cmd = None
        /\ \A k \in 1..Len(evtQ) : evtQ'[k] = evtQ[k]
    BY <1>0, <2>1, <2>3, AppendProperties
  <2>5. \A k \in 1..Len(evtQ') : evtQ'[k].cmd \in Regular \cup {None}
    BY SMTT(30), <1>0, <2>4 DEF RegularInv
  <2> QED BY <1>0, <1>1, <1>2, <2>2, <2>5 DEF RegularInv
<1> QED BY <1>4, <1>5, <1>6, <1>7, <1>8, <1>9, <1>10, <1>11, <1>12, <1>13
        DEF Next, HostTask, RxThread, Controller

LEMMA TailElements ==
  ASSUME NEW S, NEW s \in Seq(S), s # <<>>,
         \A a, b \in 1..Len(s) : s[a] = s[b] => a = b
  PROVE  /\ Head(s) \in ToSet(s)
         /\ \A c : c \in ToSet(Tail(s)) <=> c \in ToSet(s) /\ c # Head(s)
         /\ \A a, b \in 1..Len(Tail(s)) : Tail(s)[a] = Tail(s)[b] => a = b
<1> DEFINE t == Tail(s)
<1>1. /\ Len(s) \in Nat /\ Len(s) >= 1 /\ Len(t) = Len(s) - 1
      /\ \A i \in 1..Len(t) : t[i] = s[i + 1]
      /\ Head(s) = s[1]
  BY HeadTailProperties
<1>2. /\ \A c : c \in ToSet(s) <=> \E k \in 1..Len(s) : s[k] = c
      /\ \A c : c \in ToSet(t) <=> \E k \in 1..Len(t) : t[k] = c
  <2>1. t \in Seq(S)
    BY HeadTailProperties
  <2> HIDE DEF t
  <2> QED BY <2>1 DEF ToSet
<1> HIDE DEF t
<1>3. \A i \in 1..Len(t) : i \in Nat /\ i + 1 \in 1..Len(s) /\ i + 1 # 1
  BY <1>1
<1>4. ASSUME NEW c PROVE c \in ToSet(t) <=> c \in ToSet(s) /\ c # Head(s)
  <2>1. ASSUME NEW k \in 1..Len(t), t[k] = c PROVE c \in ToSet(s) /\ c # s[1]
    <3>1. s[k + 1] = c
      BY <1>1, <2>1
    <3>2. k + 1 \in 1..Len(s) /\ k + 1 # 1 /\ 1 \in 1..Len(s)
      BY <1>1, <1>3
    <3> QED BY <1>2, <3>1, <3>2
  <2>2. ASSUME NEW k \in 1..Len(s), s[k] = c, c # s[1] PROVE c \in ToSet(t)
    <3>1. k # 1
      BY <2>2
    <3>2. k - 1 \in 1..Len(t) /\ (k - 1) + 1 = k
      BY <1>1, <3>1
    <3>3. t[k - 1] = c
      BY <1>1, <2>2, <3>2
    <3> QED BY <1>2, <3>2, <3>3
  <2> QED BY <1>1, <1>2, <2>1, <2>2
<1>5. ASSUME NEW a \in 1..Len(t), NEW b \in 1..Len(t), t[a] = t[b] PROVE a = b
  <2>1. s[a + 1] = s[b + 1] /\ a + 1 \in 1..Len(s) /\ b + 1 \in 1..Len(s)
    BY <1>1, <1>3, <1>5
  <2>2. a + 1 = b + 1
    BY <2>1
  <2> QED BY <1>1, <2>2
<1>6. Head(s) \in ToSet(s)
  BY <1>1, <1>2
<1> QED BY <1>4, <1>5, <1>6 DEF t

(* A step that changes nothing of a command's life. *)
LEMMA LifeQuiet ==
  ASSUME LifeInv, UNCHANGED <<cmdQ, pending, issued, notified, freed, rxCmd,
                              hostPc, hostCmd>>
  PROVE  LifeInv'
BY DEF LifeInv, Life, Queued, Held, Waiting, Answered, ToSet

LEMMA LifeCallers ==
  ASSUME TypeOK, LifeInv, Callers PROVE LifeInv'
<1>1. ASSUME NEW d \in Cmds, TransmitCommand(d) PROVE LifeInv'
  <2>1. /\ d \notin issued /\ cmdQ' = Append(cmdQ, d)
        /\ issued' = issued \cup {d}
        /\ UNCHANGED <<pending, notified, freed, rxCmd, hostPc, hostCmd>>
    BY <1>1 DEF TransmitCommand, timVars, rxVars, hostVars
  <2>2. cmdQ \in Seq(Cmds)
    BY DEF TypeOK
  <2>3. ~Queued(d) /\ ~Held(d) /\ ~Waiting(d) /\ ~Answered(d) /\ freed[d] = 0
    BY <2>1 DEF LifeInv, Life
  <2>4. \A c : c \in ToSet(cmdQ') <=> c \in ToSet(cmdQ) \/ c = d
    BY <2>1, <2>2, AppendElements
  <2>5. \A i, j \in 1..Len(cmdQ') : cmdQ'[i] = cmdQ'[j] => i = j
    <3>1. /\ Len(cmdQ') = Len(cmdQ) + 1 /\ Len(cmdQ) \in Nat
          /\ cmdQ'[Len(cmdQ) + 1] = d
          /\ \A k \in 1..Len(cmdQ) : cmdQ'[k] = cmdQ[k]
      BY <2>1, <2>2, AppendProperties
    <3>2. \A k \in 1..Len(cmdQ) : cmdQ[k] # d
      BY <2>3 DEF Queued, ToSet
    <3>3. \A i, j \in 1..Len(cmdQ) : cmdQ[i] = cmdQ[j] => i = j
      BY DEF LifeInv
    <3> QED BY <3>1, <3>2, <3>3
  <2>6. ASSUME NEW c \in Cmds PROVE Life(c)'
    <3>1. Life(c)
      BY DEF LifeInv
    <3>2. /\ Queued(c)' <=> Queued(c) \/ c = d
          /\ Held(c)' <=> Held(c)
          /\ Waiting(c)' <=> Waiting(c)
          /\ Answered(c)' <=> Answered(c)
          /\ c \in issued' <=> c \in issued \/ c = d
      BY <2>1, <2>4 DEF Queued, Held, Waiting, Answered, ToSet
    <3>3. freed'[c] = freed[c] /\ notified'[c] = notified[c]
          /\ hostPc' = hostPc /\ hostCmd' = hostCmd
      BY <2>1
    <3>4. hostPc = "timer" /\ hostCmd = d => FALSE
      BY <2>1 DEF LifeInv, Life
    <3>5. CASE c = d
      BY <2>1, <2>3, <3>1, <3>2, <3>3, <3>4, <3>5 DEF Life
    <3>6. CASE c # d
      BY <2>1, <3>1, <3>2, <3>3, <3>6 DEF Life
    <3> QED BY <3>5, <3>6
  <2>7. (hostPc \in {"recv", "select", "dequeue", "packet"} => hostCmd = None)'
    BY <2>1 DEF LifeInv
  <2> QED BY <2>5, <2>6, <2>7 DEF LifeInv
<1>2. CASE \/ \E p \in Pkts, s \in SegLimits : TransmitPacket(p, s)
           \/ \E x \in Cmds \cup Pkts : Post(x)
  BY <1>2, LifeQuiet DEF TransmitPacket, Post, qVars, timVars, rxVars, hostVars,
     bookVars
<1> QED BY <1>1, <1>2 DEF Callers

(* A step of the host task that does not touch a command's life moves only *)
(* its program counter, inside or outside the part where it holds one.     *)
LEMMA LifeHostPc ==
  ASSUME LifeInv, UNCHANGED <<cmdQ, pending, issued, notified, freed, rxCmd>>,
         \/ /\ hostPc \in {"recv", "select", "dequeue", "packet"}
            /\ hostPc' \in {"recv", "select", "dequeue", "packet"}
            /\ hostCmd' = hostCmd
         \/ /\ hostPc \in {"load", "store"} /\ hostPc' \in {"store", "append"}
            /\ hostCmd' = hostCmd
         \/ /\ hostPc = "timer" /\ hostPc' = "recv" /\ hostCmd' = None
  PROVE  LifeInv'
<1>1. ASSUME NEW c \in Cmds PROVE Life(c)'
  <2>1. Life(c)
    BY DEF LifeInv
  <2>2. /\ Queued(c)' <=> Queued(c)
        /\ Waiting(c)' <=> Waiting(c)
        /\ Answered(c)' <=> Answered(c)
    BY DEF Queued, Waiting, Answered, ToSet
  <2>3. Held(c)' <=> Held(c)
    BY DEF Held
  <2>4. hostPc' # "timer" /\ freed' = freed /\ notified' = notified
        /\ issued' = issued
    OBVIOUS
  <2> QED BY <2>1, <2>2, <2>3, <2>4 DEF Life
<1>2. (hostPc \in {"recv", "select", "dequeue", "packet"} => hostCmd = None)'
  BY DEF LifeInv
<1> QED BY <1>1, <1>2 DEF LifeInv

(* event_command_ready: the host task holds the command, or has sent it    *)
(* and freed it (HCI_HOST_NUM_PACKETS_DONE).                               *)
LEMMA LifeHostDequeue ==
  ASSUME TypeOK, HostState, LifeInv, HostDequeue PROVE LifeInv'
<1>1. /\ hostPc = "dequeue" /\ cmdQ # <<>> /\ cmdQ' = Tail(cmdQ)
      /\ UNCHANGED <<pending, issued, notified, rxCmd>>
  BY DEF HostDequeue, HostState, timVars, rxVars
<1>2. cmdQ \in Seq(Cmds) /\ freed \in [Cmds -> Nat] /\ hostCmd = None
  BY <1>1 DEF TypeOK, LifeInv
<1>3. PICK h \in Cmds : h = Head(cmdQ)
  BY <1>1, <1>2, HeadTailProperties
<1>4. /\ Queued(h)
      /\ \A c : c \in ToSet(cmdQ') <=> c \in ToSet(cmdQ) /\ c # h
      /\ \A i, j \in 1..Len(cmdQ') : cmdQ'[i] = cmdQ'[j] => i = j
  <2>1. \A i, j \in 1..Len(cmdQ) : cmdQ[i] = cmdQ[j] => i = j
    BY DEF LifeInv
  <2>2. /\ Head(cmdQ) \in ToSet(cmdQ)
        /\ \A c : c \in ToSet(Tail(cmdQ)) <=> c \in ToSet(cmdQ) /\ c # Head(cmdQ)
        /\ \A a, b \in 1..Len(Tail(cmdQ)) :
             Tail(cmdQ)[a] = Tail(cmdQ)[b] => a = b
    BY <1>1, <1>2, <2>1, TailElements
  <2> QED BY <1>1, <1>3, <2>2 DEF Queued
<1>5. \/ /\ hostPc' = "recv" /\ hostCmd' = hostCmd
         /\ freed' = [freed EXCEPT ![h] = @ + 1]
      \/ /\ hostPc' = "load" /\ hostCmd' = h /\ freed' = freed
  BY <1>3, Zenon DEF HostDequeue
<1>6. ASSUME NEW c \in Cmds PROVE Life(c)'
  <2>1. Life(c) /\ Life(h)
    BY DEF LifeInv
  <2>2. /\ Queued(c)' <=> Queued(c) /\ c # h
        /\ Waiting(c)' <=> Waiting(c)
        /\ Answered(c)' <=> Answered(c)
        /\ c \in issued' <=> c \in issued
    BY <1>1, <1>4 DEF Queued, Waiting, Answered, ToSet
  <2>3. ~Held(c) /\ notified'[c] = notified[c] /\ hostPc' # "timer"
    BY <1>1, <1>5 DEF Held
  <2>4. CASE c # h
    <3>1. freed'[c] = freed[c] /\ ~Held(c)'
      BY <1>2, <1>5, <2>4 DEF Held
    <3> QED BY <2>1, <2>2, <2>3, <2>4, <3>1 DEF Life
  <2>5. CASE c = h
    <3>1. /\ ~Waiting(c) /\ ~Answered(c) /\ freed[c] = 0 /\ c \in issued
          /\ notified[c] <= 1
      BY <1>4, <2>1, <2>5 DEF Life
    <3>2. notified[c] # 1
      BY <2>1, <2>5, <3>1 DEF Life
    <3>3. CASE hostPc' = "recv" /\ freed' = [freed EXCEPT ![h] = @ + 1]
      <4>1. freed'[c] = 1 /\ ~Held(c)'
        BY <1>2, <2>5, <3>1, <3>3 DEF Held
      <4> QED BY <2>2, <2>3, <2>5, <3>1, <3>2, <4>1 DEF Life
    <3>4. CASE freed' = freed
      BY <2>2, <2>3, <2>5, <3>1, <3>2, <3>4 DEF Life
    <3> QED BY <1>5, <3>3, <3>4
  <2> QED BY <2>4, <2>5
<1>7. (hostPc \in {"recv", "select", "dequeue", "packet"} => hostCmd = None)'
  BY <1>2, <1>5
<1> QED BY <1>4, <1>6, <1>7 DEF LifeInv

LEMMA LifeHostAppend ==
  ASSUME TypeOK, HostState, LifeInv, HostAppend PROVE LifeInv'
<1>1. /\ hostPc = "append" /\ hostPc' = "send"
      /\ pending' = Append(pending, hostCmd)
      /\ UNCHANGED <<cmdQ, issued, notified, freed, rxCmd, hostCmd>>
  BY DEF HostAppend, qVars, rxVars, bookVars
<1>2. pending \in Seq(Cmds) /\ hostCmd \in Cmds
  BY <1>1 DEF TypeOK, HostState
<1>3. \A c : c \in ToSet(pending') <=> c \in ToSet(pending) \/ c = hostCmd
  BY <1>1, <1>2, AppendElements
<1>4. ASSUME NEW c \in Cmds PROVE Life(c)'
  <2>1. Life(c)
    BY DEF LifeInv
  <2>2. /\ Queued(c)' <=> Queued(c)
        /\ Waiting(c)' <=> Waiting(c) \/ c = hostCmd
        /\ Answered(c)' <=> Answered(c)
        /\ Held(c) <=> c = hostCmd
        /\ ~Held(c)'
    BY <1>1, <1>3 DEF Queued, Waiting, Answered, Held, ToSet
  <2>3. /\ freed' = freed /\ notified' = notified /\ issued' = issued
        /\ hostPc' # "timer"
    BY <1>1
  <2> QED BY <2>1, <2>2, <2>3 DEF Life
<1>5. \A i, j \in 1..Len(cmdQ') : cmdQ'[i] = cmdQ'[j] => i = j
  BY <1>1 DEF LifeInv
<1> QED BY <1>1, <1>4, <1>5 DEF LifeInv

(* The command the host task has just sent waits for its answer. *)
LEMMA LifeHostSend ==
  ASSUME TypeOK, HostState, OrderInv, LifeInv, HostSend PROVE LifeInv'
<1>1. /\ hostPc = "send" /\ hostPc' = "timer"
      /\ UNCHANGED <<cmdQ, pending, issued, notified, freed, rxCmd, hostCmd>>
  BY DEF HostSend, qVars, timVars, rxVars, bookVars
<1>2. hostCmd \in Cmds /\ Waiting(hostCmd)
  <2>1. hostCmd \in Cmds /\ hostCmd \in Regular
    BY <1>1 DEF HostState, Regular
  <2>2. PICK k \in Nat : k = Len(evtQ) + Len(ctl) + Len(toCtl) + 1
    BY PlaceTypes
  <2>3. At(k, hostCmd)
    BY <1>1, <2>2 DEF At
  <2> QED BY <2>1, <2>3 DEF OrderInv, Waiting
<1>3. ASSUME NEW c \in Cmds PROVE Life(c)'
  <2>1. Life(c)
    BY DEF LifeInv
  <2>2. /\ Queued(c)' <=> Queued(c)
        /\ Waiting(c)' <=> Waiting(c)
        /\ Answered(c)' <=> Answered(c)
        /\ ~Held(c)'
    BY <1>1 DEF Queued, Waiting, Answered, Held, ToSet
  <2>3. hostCmd' = c => Waiting(c)
    BY <1>1, <1>2
  <2>4. freed' = freed /\ notified' = notified /\ issued' = issued
    BY <1>1
  <2> QED BY <2>1, <2>2, <2>3, <2>4 DEF Life
<1>4. \A i, j \in 1..Len(cmdQ') : cmdQ'[i] = cmdQ'[j] => i = j
  BY <1>1 DEF LifeInv
<1> QED BY <1>1, <1>3, <1>4 DEF LifeInv

(* The response takes the command out of the pending list and, when it has *)
(* a callback for this event, notifies its caller: for the first time.     *)
LEMMA LifeRxMatch ==
  ASSUME TypeOK, OrderInv, RegularInv, LifeInv, RxInv, RxMatch PROVE LifeInv'
<1>1. /\ rxPc = "match" /\ rxCmd = None
      /\ UNCHANGED <<cmdQ, issued, freed, hostPc, hostCmd>>
  BY DEF RxMatch, RxInv, qVars, hostVars
<1>2. \A c \in Cmds : ~Answered(c)
  BY <1>1, ConstantsAssumption DEF Answered
<1>3. CASE rxCmd' = None /\ UNCHANGED <<pending, notified>>
  BY <1>1, <1>3, LifeQuiet
<1>4. ASSUME NEW i \in 1..Len(pending), pending[i] = rxEvt.cmd,
             rxEvt.cmd \in Regular, rxCmd' = rxEvt.cmd,
             pending' = RemoveAt(pending, i),
             notified' = IF Notifies(rxEvt.cmd, rxEvt.type)
                         THEN [notified EXCEPT ![rxEvt.cmd] = @ + 1]
                         ELSE notified
      PROVE  LifeInv'
  <2>1. PICK d \in Cmds : d = rxEvt.cmd
    BY <1>4 DEF Regular
  <2>2. pending \in Seq(Cmds) /\ notified \in [Cmds -> Nat] /\ freed \in [Cmds -> Nat]
    BY DEF TypeOK
  <2>3. \A x, y \in 1..Len(pending) : pending[x] = pending[y] => x = y
    BY DEF OrderInv
  <2>4. \A c : c \in ToSet(pending') <=> c \in ToSet(pending) /\ c # d
    <3>1. \A c : c \in ToSet(RemoveAt(pending, i))
                 <=> c \in ToSet(pending) /\ c # pending[i]
      BY SMTT(30), <2>2, <2>3, RemoveAtElements
    <3> QED BY <1>4, <2>1, <3>1
  <2>5. Waiting(d)
    BY <1>4, <2>1, <2>2 DEF Waiting, ToSet
  <2>6. ASSUME NEW c \in Cmds PROVE Life(c)'
    <3>1. Life(c)
      BY DEF LifeInv
    <3>2. /\ Queued(c)' <=> Queued(c)
          /\ Held(c)' <=> Held(c)
          /\ Waiting(c)' <=> Waiting(c) /\ c # d
          /\ Answered(c)' <=> c = d
      BY <1>1, <1>4, <2>1, <2>4 DEF Queued, Held, Waiting, Answered, ToSet
    <3>3. freed' = freed /\ issued' = issued /\ hostPc' = hostPc
          /\ hostCmd' = hostCmd
      BY <1>1
    <3>4. CASE c # d
      <4>1. notified'[c] = notified[c]
        BY <1>4, <2>1, <2>2, <3>4
      <4> QED BY <1>2, <3>1, <3>2, <3>3, <3>4, <4>1 DEF Life
    <3>5. CASE c = d
      <4>1. ~Queued(c) /\ ~Held(c) /\ freed[c] = 0 /\ c \in issued
        BY <2>5, <3>1, <3>5 DEF Life
      <4>2. notified[c] # 1 /\ notified[c] <= 1 /\ notified[c] \in Nat
        BY <1>2, <2>2, <3>1, <4>1 DEF Life
      <4>3. notified'[c] \in {notified[c], notified[c] + 1}
        BY <1>4, <2>1, <2>2, <3>5
      <4>4. notified'[c] <= 1
        BY <4>2, <4>3
      <4> QED BY <3>2, <3>3, <3>5, <4>1, <4>4 DEF Life
    <3> QED BY <3>4, <3>5
  <2>7. \A x, y \in 1..Len(cmdQ') : cmdQ'[x] = cmdQ'[y] => x = y
    BY <1>1 DEF LifeInv
  <2>8. (hostPc \in {"recv", "select", "dequeue", "packet"} => hostCmd = None)'
    BY <1>1 DEF LifeInv
  <2> QED BY <2>6, <2>7, <2>8 DEF LifeInv
<1> QED BY <1>3, <1>4, RxMatchFinds

LEMMA LifeRxFree ==
  ASSUME TypeOK, LifeInv, RxFree PROVE LifeInv'
<1>1. /\ rxCmd' = None
      /\ freed' = IF rxCmd = None THEN freed
                  ELSE [freed EXCEPT ![rxCmd] = @ + 1]
      /\ UNCHANGED <<cmdQ, pending, issued, notified, hostPc, hostCmd>>
  BY DEF RxFree, qVars, timVars, hostVars
<1>2. freed \in [Cmds -> Nat] /\ rxCmd \in Cmds \cup {None} /\ None \notin Cmds
  BY ConstantsAssumption DEF TypeOK
<1>3. ASSUME NEW c \in Cmds PROVE Life(c)'
  <2>1. Life(c)
    BY DEF LifeInv
  <2>2. /\ Queued(c)' <=> Queued(c)
        /\ Held(c)' <=> Held(c)
        /\ Waiting(c)' <=> Waiting(c)
        /\ ~Answered(c)'
    BY <1>1, <1>2 DEF Queued, Held, Waiting, Answered, ToSet
  <2>3. notified' = notified /\ issued' = issued /\ hostPc' = hostPc
        /\ hostCmd' = hostCmd
    BY <1>1
  <2>4. CASE rxCmd = c
    <3>1. /\ ~Queued(c) /\ ~Held(c) /\ ~Waiting(c) /\ freed[c] = 0
          /\ c \in issued
      BY <2>1, <2>4 DEF Life, Answered
    <3>2. freed'[c] = 1
      BY <1>1, <1>2, <2>4, <3>1
    <3> QED BY <2>1, <2>2, <2>3, <3>1, <3>2 DEF Life
  <2>5. CASE rxCmd # c
    <3>1. freed'[c] = freed[c]
      BY <1>1, <1>2, <2>5
    <3>2. ~Answered(c)
      BY <2>5 DEF Answered
    <3> QED BY <2>1, <2>2, <2>3, <3>1, <3>2 DEF Life
  <2> QED BY <2>4, <2>5
<1>4. \A x, y \in 1..Len(cmdQ') : cmdQ'[x] = cmdQ'[y] => x = y
  BY <1>1 DEF LifeInv
<1>5. (hostPc \in {"recv", "select", "dequeue", "packet"} => hostCmd = None)'
  BY <1>1 DEF LifeInv
<1> QED BY <1>3, <1>4, <1>5 DEF LifeInv

LEMMA LifeStep ==
  ASSUME TypeInv, CommandInv, [Next]_vars PROVE LifeInv'
<1>0. TypeOK /\ HostState /\ OrderInv /\ RegularInv /\ LifeInv /\ RxInv
  BY DEF TypeInv, CommandInv
<1>1. CASE Callers
  BY <1>0, <1>1, LifeCallers
<1>2. CASE HostReceive \/ HostContinue \/ HostSelect \/ HostPacket
  <2>1. /\ UNCHANGED <<cmdQ, pending, issued, notified, freed, rxCmd>>
        /\ hostPc \in {"recv", "select", "dequeue", "packet"}
        /\ hostPc' \in {"recv", "select", "dequeue", "packet"}
        /\ hostCmd' = hostCmd
    BY <1>2 DEF HostReceive, HostContinue, HostSelect, HostPacket, qVars,
       timVars, rxVars, bookVars
  <2> QED BY <1>0, <2>1, LifeHostPc
<1>3. CASE HostLoad \/ HostStore
  <2>1. /\ UNCHANGED <<cmdQ, pending, issued, notified, freed, rxCmd>>
        /\ hostPc \in {"load", "store"} /\ hostPc' \in {"store", "append"}
        /\ hostCmd' = hostCmd
    BY <1>3 DEF HostLoad, HostStore, qVars, timVars, rxVars, bookVars
  <2> QED BY <1>0, <2>1, LifeHostPc
<1>4. CASE HostTimer
  <2>1. /\ UNCHANGED <<cmdQ, pending, issued, notified, freed, rxCmd>>
        /\ hostPc = "timer" /\ hostPc' = "recv" /\ hostCmd' = None
    BY <1>4 DEF HostTimer, qVars, rxVars, bookVars
  <2> QED BY <1>0, <2>1, LifeHostPc
<1>5. CASE HostDequeue \/ HostAppend \/ HostSend
  BY <1>0, <1>5, LifeHostDequeue, LifeHostAppend, LifeHostSend
<1>6. CASE RxMatch \/ RxFree
  BY <1>0, <1>6, LifeRxMatch, LifeRxFree
<1>7. CASE RxEvent \/ RxTimer \/ RxTest \/ RxPost \/ CommandTimedOut
  <2>1. UNCHANGED <<cmdQ, pending, issued, notified, freed, rxCmd, hostPc,
                    hostCmd>>
    BY <1>7 DEF RxEvent, RxTimer, RxTest, RxPost, CommandTimedOut, AlarmExpires, TimedOutRead,
     TimedOutLog, qVars,
       timVars, rxVars, hostVars, bookVars
  <2> QED BY <1>0, <2>1, LifeQuiet
<1>8. CASE Controller \/ UNCHANGED vars
  <2>1. UNCHANGED <<cmdQ, pending, issued, notified, freed, rxCmd, hostPc,
                    hostCmd>>
    BY <1>8 DEF Controller, CtlReceive, CtlAnswer, CtlNop, vars, qVars,
       timVars, rxVars, hostVars, bookVars
  <2> QED BY <1>0, <2>1, LifeQuiet
<1> QED BY <1>1, <1>2, <1>3, <1>4, <1>5, <1>6, <1>7, <1>8
        DEF Next, HostTask, RxThread

LEMMA RxStep ==
  ASSUME TypeInv, CommandInv, [Next]_vars PROVE RxInv'
<1>0. TypeOK /\ OrderInv /\ RegularInv /\ RxInv
  BY DEF TypeInv, CommandInv
<1>1. CASE RxMatch
  <2>1. rxPc' = "timer" /\ rxEvt' = rxEvt
    BY <1>1 DEF RxMatch
  <2>2. rxCmd' = rxEvt.cmd
    BY <1>0, <1>1, RxMatchFinds
  <2> QED BY <2>1, <2>2 DEF RxInv, ResponseFindsCommand
<1>2. CASE RxEvent \/ RxTimer \/ RxTest \/ RxPost \/ RxFree
  BY <1>0, <1>2 DEF RxEvent, RxTimer, RxTest, RxPost, RxFree, RxInv,
     ResponseFindsCommand
<1>3. ASSUME UNCHANGED rxVars PROVE RxInv'
  BY <1>0, <1>3 DEF RxInv, ResponseFindsCommand, rxVars
<1>4. CASE Callers \/ CommandTimedOut \/ Controller \/ UNCHANGED vars
  BY <1>3, <1>4 DEF Callers, TransmitCommand, TransmitPacket, Post,
     CommandTimedOut, AlarmExpires, TimedOutRead,
     TimedOutLog, Controller, CtlReceive, CtlAnswer, CtlNop, vars
<1>5. CASE HostTask
  BY <1>3, <1>5 DEF HostTask, HostReceive, HostContinue, HostSelect, HostPacket,
     HostDequeue, HostLoad, HostStore, HostAppend, HostSend, HostTimer
<1> QED BY <1>1, <1>2, <1>4, <1>5 DEF Next, RxThread

LEMMA CommandInit == Init => CommandInv
<1> SUFFICES ASSUME Init PROVE CommandInv
  OBVIOUS
<1>1. /\ pending = <<>> /\ cmdQ = <<>> /\ ctl = <<>> /\ toCtl = <<>>
      /\ evtQ = <<>> /\ rxPc = "idle" /\ rxEvt.cmd = None /\ rxCmd = None
      /\ hostPc = "recv" /\ hostCmd = None /\ issued = {}
      /\ \A c \in Cmds : freed[c] = 0 /\ notified[c] = 0
  BY DEF Init, NoEvent
<1>2. \A c : c \notin ToSet(<<>>)
  BY DEF ToSet
<1>3. \A c \in Regular, k \in Nat : ~At(k, c)
  BY <1>1 DEF At
<1>4. OrderInv
  BY <1>1, <1>2, <1>3 DEF OrderInv
<1>5. RegularInv
  BY <1>1, <1>2 DEF RegularInv
<1>6. LifeInv
  <2>1. ASSUME NEW c \in Cmds PROVE Life(c)
    <3>1. ~Queued(c) /\ ~Held(c) /\ ~Waiting(c) /\ ~Answered(c)
      BY <1>1, <1>2, ConstantsAssumption
         DEF Queued, Held, Waiting, Answered
    <3> QED BY <1>1, <3>1 DEF Life
  <2> QED BY <1>1, <2>1 DEF LifeInv
<1>7. RxInv
  BY <1>1 DEF RxInv, ResponseFindsCommand
<1> QED BY <1>4, <1>5, <1>6, <1>7 DEF CommandInv

LEMMA CommandCorrect == Spec => [](TypeInv /\ CommandInv)
<1>1. Init => TypeInv /\ CommandInv
  BY TypeInit, CommandInit
<1>2. TypeInv /\ CommandInv /\ [Next]_vars => (TypeInv /\ CommandInv)'
  BY TypeStep, OrderStep, RegularStep, LifeStep, RxStep DEF CommandInv
<1> QED BY <1>1, <1>2, PTL DEF Spec

(* get_waiting_command matches by opcode alone, and yet it finds, for every *)
(* set of commands and opcodes, the entry of the command the event answers: *)
(* the pending list is in the order in which commands of one opcode are     *)
(* sent, answered and matched.                                              *)
THEOREM ResponsesFindCommands == Spec => []ResponseFindsCommand
<1>1. CommandInv => ResponseFindsCommand
  BY DEF CommandInv, RxInv
<1> QED BY <1>1, CommandCorrect, PTL

(* A command buffer is released once, its caller hears of it at most once   *)
(* and before, and no queue, list or task keeps a released buffer.          *)
THEOREM CommandsReleasedOnce == Spec => []CommandReleasedOnce
<1>1. TypeInv /\ CommandInv => CommandReleasedOnce
  <2> SUFFICES ASSUME TypeInv, CommandInv, NEW c \in Cmds
               PROVE  /\ freed[c] <= 1 /\ notified[c] <= 1
                      /\ notified[c] = 1 => freed[c] = 1 \/ rxCmd = c
                      /\ freed[c] = 1 =>
                           /\ c \notin ToSet(cmdQ) \cup ToSet(pending)
                           /\ hostCmd = c => hostPc = "timer"
    BY DEF CommandReleasedOnce
  <2>1. Life(c)
    BY DEF CommandInv, LifeInv
  <2>2. freed[c] <= 1 /\ notified[c] <= 1
        /\ (notified[c] = 1 => freed[c] = 1 \/ rxCmd = c)
    BY <2>1 DEF Life, Answered
  <2>3. ASSUME freed[c] = 1
        PROVE  ~Queued(c) /\ ~Held(c) /\ ~Waiting(c)
    BY <2>1, <2>3 DEF Life
  <2>4. ASSUME freed[c] = 1, hostCmd = c PROVE hostPc = "timer"
    <3>1. hostPc \in HostPcs /\ c # None
      BY ConstantsAssumption DEF TypeInv, TypeOK
    <3>2. hostPc \notin {"recv", "select", "dequeue", "packet"}
      BY <2>4, <3>1 DEF CommandInv, LifeInv
    <3>3. hostPc \notin {"load", "store", "append"}
      BY <2>3, <2>4 DEF Held
    <3>4. hostPc # "send"
      <4> SUFFICES ASSUME hostPc = "send" PROVE FALSE
        OBVIOUS
      <4>1. c \in Regular
        BY <2>4 DEF TypeInv, HostState, Regular
      <4>2. PICK k \in Nat : k = Len(evtQ) + Len(ctl) + Len(toCtl) + 1
        BY PlaceTypes DEF TypeInv
      <4>3. At(k, c)
        BY <2>4, <4>2 DEF At
      <4>4. Waiting(c)
        BY <4>1, <4>3 DEF CommandInv, OrderInv, Waiting
      <4> QED BY <2>3, <2>4, <4>4
    <3> QED BY <3>1, <3>2, <3>3, <3>4 DEF HostPcs
  <2> QED BY <2>2, <2>3, <2>4 DEF Queued, Waiting
<1> QED BY <1>1, CommandCorrect, PTL
=============================================================================
