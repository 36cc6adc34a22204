--------------------------- MODULE L2capErtmProofs ---------------------------
(***************************************************************************)
(* Theorems about L2capErtm for every modulus, window, number and length   *)
(* of SDUs, and every loss and schedule: types and the window without a    *)
(* condition, and the reliable FIFO of SDUs as long as no application      *)
(* calls L2CA_FlowControl.                                                 *)
(***************************************************************************)
EXTENDS L2capErtm, SequenceLemmas, FiniteSetTheorems

-----------------------------------------------------------------------------
(* Numbers modulo Modulus *)

LEMMA ModHas ==
  ASSUME NEW n \in Int
  PROVE  n % Modulus \in Seqs /\ \E k \in Int : n = k * Modulus + (n % Modulus)
<1>1. Modulus \in Nat /\ Modulus > 0
  BY ErtmAssumption
<1>2. n % Modulus \in 0..(Modulus - 1)
  BY <1>1
<1>3. n \div Modulus \in Int /\ n = (n \div Modulus) * Modulus + (n % Modulus)
  BY <1>1
<1> QED BY <1>2, <1>3 DEF Seqs

LEMMA ModUnique ==
  ASSUME NEW a \in Seqs, NEW b \in Seqs, NEW j \in Int, NEW k \in Int,
         j * Modulus + a = k * Modulus + b
  PROVE  a = b /\ j = k
<1>1. Modulus \in Nat /\ Modulus > 0 /\ a \in 0..(Modulus - 1) /\ b \in 0..(Modulus - 1)
  BY ErtmAssumption DEF Seqs
<1>2. (j - k) * Modulus = b - a
  BY <1>1
<1>3. CASE j > k
  <2>1. (j - k) * Modulus >= Modulus
    BY <1>1, <1>3
  <2> QED BY <1>1, <1>2, <2>1
<1>4. CASE k > j
  <2>1. (k - j) * Modulus >= Modulus
    BY <1>1, <1>4
  <2>2. (k - j) * Modulus = a - b
    BY <1>1
  <2> QED BY <1>1, <2>2, <2>1
<1> QED BY <1>1, <1>2, <1>3, <1>4

LEMMA ModIs ==
  ASSUME NEW a \in Seqs, NEW k \in Int
  PROVE  (k * Modulus + a) % Modulus = a
<1>1. Modulus \in Nat /\ Modulus > 0 /\ a \in Nat /\ k * Modulus \in Int
  BY ErtmAssumption DEF Seqs
<1> DEFINE n == k * Modulus + a
<1>2. n \in Int
  BY <1>1
<1> HIDE DEF n
<1>3. n % Modulus \in Seqs /\ \E j \in Int : n = j * Modulus + (n % Modulus)
  BY <1>2, ModHas
<1> QED BY <1>3, ModUnique DEF n

(* The distance from n up to m of two numbers known modulo Modulus. *)
LEMMA ModDiff ==
  ASSUME NEW m \in Int, NEW n \in Int
  PROVE  /\ ((m % Modulus) - (n % Modulus)) % Modulus = (m - n) % Modulus
         /\ ((m % Modulus) + n) % Modulus = (m + n) % Modulus
<1>1. Modulus \in Nat /\ Modulus > 0
  BY ErtmAssumption
<1>2. PICK j \in Int : m = j * Modulus + (m % Modulus)
  BY ModHas
<1>3. PICK k \in Int : n = k * Modulus + (n % Modulus)
  BY ModHas
<1> DEFINE a == m % Modulus
           b == n % Modulus
<1>4. a \in Int /\ b \in Int /\ m = j * Modulus + a /\ n = k * Modulus + b
  BY <1>1, <1>2, <1>3
<1> HIDE DEF a, b
<1>5. PICK r \in Int : m - n = r * Modulus + ((m - n) % Modulus)
  BY ModHas
<1>6. PICK s \in Int : m + n = s * Modulus + ((m + n) % Modulus)
  BY ModHas
<1> DEFINE x == (m - n) % Modulus
           y == (m + n) % Modulus
<1>7. x \in Seqs /\ y \in Seqs /\ x \in Int /\ y \in Int
  BY <1>1, ModHas DEF Seqs
<1>8. m - n = r * Modulus + x /\ m + n = s * Modulus + y
  BY <1>5, <1>6
<1> HIDE DEF x, y
<1>9. a - b = (r - j + k) * Modulus + x /\ r - j + k \in Int
  BY <1>1, <1>4, <1>7, <1>8
<1>10. a + n = (s - j) * Modulus + y /\ s - j \in Int
  BY <1>1, <1>4, <1>7, <1>8
<1>11. (a - b) % Modulus = x
  BY <1>7, <1>9, ModIs
<1>12. (a + n) % Modulus = y
  BY <1>7, <1>10, ModIs
<1> QED BY <1>11, <1>12 DEF a, b, x, y

(* Small numbers, and the small ones below zero. *)
LEMMA ModSmall ==
  ASSUME NEW n \in Int
  PROVE  /\ n \in Seqs => n % Modulus = n
         /\ n + Modulus \in Seqs => n % Modulus = n + Modulus
<1>1. Modulus \in Nat /\ Modulus > 0
  BY ErtmAssumption
<1>2. n = 0 * Modulus + n /\ n = (-1) * Modulus + (n + Modulus) /\ n + Modulus \in Int
  BY <1>1
<1>3. ASSUME n \in Seqs PROVE n % Modulus = n
  <2>1. (0 * Modulus + n) % Modulus = n
    BY <1>3, ModIs
  <2> QED BY <1>2, <2>1
<1>4. ASSUME n + Modulus \in Seqs PROVE n % Modulus = n + Modulus
  <2> DEFINE a == n + Modulus
  <2>1. ((-1) * Modulus + a) % Modulus = a
    BY <1>4, ModIs
  <2> QED BY <1>2, <2>1
<1> QED BY <1>3, <1>4

(* Two numbers less than Modulus apart that agree modulo it are equal. *)
LEMMA ModSame ==
  ASSUME NEW m \in Int, NEW n \in Int, m < n + Modulus, n < m + Modulus,
         m % Modulus = n % Modulus
  PROVE  m = n
<1>1. Modulus \in Nat /\ Modulus > 0
  BY ErtmAssumption
<1>2. PICK j \in Int : m = j * Modulus + (m % Modulus)
  BY ModHas
<1>3. PICK k \in Int : n = k * Modulus + (n % Modulus)
  BY ModHas
<1>4. m % Modulus \in Int
  BY <1>1
<1>5. (k - j) * Modulus = n - m
  BY <1>1, <1>2, <1>3, <1>4
<1>6. CASE k > j
  <2>1. (k - j) * Modulus >= Modulus
    BY <1>1, <1>6
  <2> QED BY <1>1, <1>5, <2>1
<1>7. CASE j > k
  <2>1. (j - k) * Modulus >= Modulus /\ (j - k) * Modulus = m - n
    BY <1>1, <1>7, <1>5
  <2> QED BY <1>1, <2>1
<1> QED BY <1>1, <1>2, <1>3, <1>6, <1>7

LEMMA SeqUp ==
  ASSUME NEW n \in Int
  PROVE  NextSeq(n % Modulus) = (n + 1) % Modulus
<1>1. ((n % Modulus) + 1) % Modulus = (n + 1) % Modulus
  BY ModDiff
<1> QED BY <1>1 DEF NextSeq

LEMMA SeqsNat ==
  /\ Seqs \subseteq Nat /\ 0 \in Seqs
  /\ \A n \in Seqs : NextSeq(n) \in Seqs
<1>1. Modulus \in Nat /\ Modulus > 0
  BY ErtmAssumption
<1>2. Seqs \subseteq Nat /\ 0 \in Seqs
  BY <1>1 DEF Seqs
<1>3. ASSUME NEW n \in Seqs PROVE NextSeq(n) \in Seqs
  <2>1. n + 1 \in Int
    BY <1>2
  <2> QED BY <2>1, ModHas DEF NextSeq
<1> QED BY <1>2, <1>3

-----------------------------------------------------------------------------
(* The pieces in the order in which they are sent *)

(* Off(i) pieces precede SDU i, and Pos(x) precede the piece x. *)
Off(i) == (i - 1) + (Segments - 1) * Cardinality(Long \cap 1 .. (i - 1))

Pos(x) == Off(x[1]) + x[2] - 1

LEMMA OffNext ==
  /\ Off(1) = 0
  /\ \A i \in Nat \ {0} : Off(i) \in Nat /\ Pieces(i) \in Nat \ {0}
                          /\ Off(i + 1) = Off(i) + Pieces(i)
<1>1. Segments \in Nat /\ Segments > 1 /\ Long \subseteq Nat
  BY ErtmAssumption
<1> DEFINE W(i) == Long \cap 1 .. (i - 1)
<1>2. ASSUME NEW i \in Nat \ {0} PROVE IsFiniteSet(W(i)) /\ Cardinality(W(i)) \in Nat
  <2>1. IsFiniteSet(1 .. (i - 1))
    BY FS_Interval
  <2>2. W(i) \in SUBSET (1 .. (i - 1))
    OBVIOUS
  <2> HIDE DEF W
  <2>3. IsFiniteSet(W(i))
    BY <2>1, <2>2, FS_Subset
  <2> QED BY <2>3, FS_CardinalityType
<1>3. Off(1) = 0
  <2>1. Long \cap 1 .. (1 - 1) = {}
    OBVIOUS
  <2> QED BY <1>1, <2>1, FS_EmptySet DEF Off
<1>4. ASSUME NEW i \in Nat \ {0}
      PROVE Off(i) \in Nat /\ Pieces(i) \in Nat \ {0} /\ Off(i + 1) = Off(i) + Pieces(i)
  <2> DEFINE c == Cardinality(W(i))
             n == Cardinality(W(i + 1))
  <2>1. c \in Nat
    BY <1>2
  <2>2. Off(i) = (i - 1) + (Segments - 1) * c /\ Off(i + 1) = i + (Segments - 1) * n
    BY DEF Off
  <2>3. (Segments - 1) * c \in Nat
    <3> HIDE DEF c
    <3>1. Segments - 1 \in Nat
      BY <1>1
    <3> QED BY <2>1, <3>1
  <2>4. n = IF i \in Long THEN c + 1 ELSE c
    <3>1. CASE i \in Long
      <4>1. W(i + 1) = W(i) \cup {i} /\ i \notin W(i)
        BY <3>1
      <4>2. IsFiniteSet(W(i))
        BY <1>2
      <4> HIDE DEF W
      <4> QED BY <3>1, <4>1, <4>2, FS_AddElement
    <3>2. CASE i \notin Long
      <4>1. W(i + 1) = W(i)
        BY <3>2
      <4> QED BY <3>2, <4>1
    <3> QED BY <3>1, <3>2
  <2> HIDE DEF c, n, W
  <2>5. (Segments - 1) * (c + 1) = (Segments - 1) * c + (Segments - 1)
    BY <1>1, <2>1
  <2> DEFINE m == (Segments - 1) * c
  <2>6. m \in Nat /\ (Segments - 1) * n = IF i \in Long THEN m + Segments - 1 ELSE m
    BY <1>1, <2>3, <2>4, <2>5
  <2>7. Off(i) = (i - 1) + m
    BY <2>2
  <2> HIDE DEF m
  <2> QED BY <1>1, <2>2, <2>6, <2>7 DEF Pieces
<1> QED BY <1>3, <1>4

LEMMA OffApart ==
  ASSUME NEW i \in Nat \ {0}, NEW j \in Nat \ {0}, i < j
  PROVE  Off(i + 1) <= Off(j)
<1> DEFINE T == {k \in 0 .. (j - i - 1) : Off(i + 1) <= Off(i + 1 + k)}
           n == j - i - 1
<1>1. n \in Nat /\ j = i + 1 + n
  OBVIOUS
<1>2. 0 \in T
  BY OffNext
<1>3. ASSUME NEW k \in 1 .. n, k - 1 \in T PROVE k \in T
  <2>1. Off(i + 1) <= Off(i + 1 + (k - 1))
    BY <1>3
  <2>2. i + k \in Nat \ {0} /\ i + 1 + (k - 1) = i + k /\ i + 1 + k = i + k + 1
    OBVIOUS
  <2>3. Off(i + k) \in Nat /\ Off(i + 1) \in Nat /\ Off(i + k) <= Off(i + k + 1)
        /\ Off(i + k + 1) \in Nat
    BY <2>2, OffNext
  <2> QED BY <2>1, <2>2, <2>3
<1>4. n \in T
  <2> HIDE DEF T
  <2>1. \A k \in 1 .. n : k - 1 \in T => k \in T
    BY <1>3
  <2> HIDE DEF n
  <2> QED BY <1>1, <1>2, <2>1, AfterRounds
<1>5. Off(i + 1) <= Off(i + 1 + n)
  BY <1>4
<1> QED BY <1>1, <1>5

(* A piece of an SDU that is written sooner or later. *)
IsPiece(x) == x \in Piece /\ x[2] <= Pieces(x[1])

LEMMA PiecePos ==
  ASSUME NEW x, IsPiece(x)
  PROVE  /\ x = <<x[1], x[2]>> /\ x[1] \in Nat \ {0} /\ x[2] \in 1 .. Pieces(x[1])
         /\ Pos(x) \in Nat /\ Off(x[1]) <= Pos(x) /\ Pos(x) < Off(x[1] + 1)
<1>1. SdusA + SdusB \in Nat /\ Segments \in Nat
  BY ErtmAssumption
<1>2. x = <<x[1], x[2]>> /\ x[1] \in Nat \ {0} /\ x[2] \in Nat \ {0} /\ x[2] <= Pieces(x[1])
  BY <1>1 DEF IsPiece, Piece
<1>3. Off(x[1]) \in Nat /\ Pieces(x[1]) \in Nat /\ Off(x[1] + 1) = Off(x[1]) + Pieces(x[1])
  BY <1>2, OffNext
<1> QED BY <1>2, <1>3 DEF Pos

(* The place of a piece tells which one it is. *)
LEMMA PieceAt ==
  ASSUME NEW x, IsPiece(x), NEW n \in Nat \ {0}, Off(n) <= Pos(x), Pos(x) < Off(n + 1)
  PROVE  x[1] = n /\ x[2] = Pos(x) - Off(n) + 1
<1>1. /\ x[1] \in Nat \ {0} /\ x[2] \in Nat
      /\ Pos(x) \in Nat /\ Off(x[1]) <= Pos(x) /\ Pos(x) < Off(x[1] + 1)
  BY PiecePos, OffNext
<1>2. Off(n) \in Nat /\ Off(n + 1) \in Nat /\ Off(x[1]) \in Nat /\ Off(x[1] + 1) \in Nat
  BY <1>1, OffNext
<1>3. ~(x[1] < n)
  BY <1>1, <1>2, OffApart
<1>4. ~(n < x[1])
  BY <1>1, <1>2, OffApart
<1>5. x[1] = n
  BY <1>1, <1>3, <1>4
<1> QED BY <1>1, <1>2, <1>5 DEF Pos

-----------------------------------------------------------------------------
(* Control blocks and frames *)

Buffer == [seq : Seqs, piece : Piece]

Causes == {"none", "peer", "tries", "reqseq", "sar"}

Ccb ==
  [open : BOOLEAN, next_tx_seq : Seqs, last_rx_ack : Seqs,
   next_seq_expected : Seqs, last_ack_sent : Seqs, num_tries : Nat,
   remote_busy : BOOLEAN, local_busy : BOOLEAN, wait_ack : BOOLEAN,
   send_f_rsp : BOOLEAN, rej_sent : BOOLEAN, srej_sent : BOOLEAN,
   rej_after_srej : BOOLEAN,
   waiting_for_ack_q : Seq(Buffer), retrans_q : Seq(Buffer), srej_rcv_hold_q : Seq(IFrame),
   xmit_hold_q : Seq(Nat), segmented : Nat, rx_sdu : Seq(Piece),
   timer : Timers, timer_msg : BOOLEAN, ack : Timers, ack_msg : BOOLEAN,
   out : Seq(Frame), wrote : Nat, rcvd : Seq(Seq(Piece)), complete : Nat, cause : Causes]

LEMMA FrameIs ==
  \A f \in Frame : /\ f.k = "I" <=> f \in IFrame
                   /\ f.k \in {"RR", "RNR", "REJ", "SREJ"} <=> f \in SFrame
                   /\ f.k \in {"I", "RR", "RNR", "REJ", "SREJ", "DISC"}
                   /\ f.k # "DISC" => f.req \in Seqs
<1>1. \A f \in IFrame : f.k = "I" /\ f.req \in Seqs
  BY DEF IFrame
<1>2. \A f \in SFrame : f.k \in {"RR", "RNR", "REJ", "SREJ"} /\ f.req \in Seqs
  BY DEF SFrame
<1>3. \A f \in {[k |-> "DISC"]} : f.k = "DISC"
  OBVIOUS
<1> QED BY <1>1, <1>2, <1>3 DEF Frame

-----------------------------------------------------------------------------
(* The inductive invariant *)

(* A frame or a buffer carries a piece of one of the first n SDUs, under   *)
(* its number.                                                             *)
Carries(b, n) == /\ IsPiece(b.piece) /\ b.piece[1] <= n
                 /\ b.seq = Pos(b.piece) % Modulus

(* The SDU that end e builds frames of next, the pieces it has built, and  *)
(* those of them that were acknowledged.                                   *)
NextSdu(e) == e.wrote - Len(e.xmit_hold_q) + 1

Built(e) == Off(NextSdu(e)) + e.segmented

Heard(e) == Built(e) - Len(e.waiting_for_ack_q)

(* The pieces that e has taken: without the channel it may have been in    *)
(* the middle of an SDU.  With those behind a lost one, up to Reach(e).    *)
Taken(e) == IF e.open THEN Off(Len(e.rcvd) + 1) + Len(e.rx_sdu)
            ELSE Off(Len(e.rcvd) + 2) - 1

Reach(e) == IF e.srej_rcv_hold_q = <<>> THEN Taken(e)
            ELSE Taken(e) + Len(e.srej_rcv_hold_q) + (IF e.srej_sent THEN 1 ELSE 0)

IsI(f) == f.k = "I"

(* What an end has sent. *)
Frames(e) ==
  \A j \in 1 .. Len(e.out) :
     /\ e.out[j].k # "DISC" => ~(e.out[j].p /\ e.out[j].f)
     /\ IsI(e.out[j]) => Carries(e.out[j], e.wrote)

Typed(d, e) ==
  /\ e \in Ccb /\ e.wrote <= Sdus(d)
  /\ Frames(e)
  /\ e.srej_sent => e.srej_rcv_hold_q # <<>>
  /\ ~e.open => e.waiting_for_ack_q = <<>> /\ e.srej_rcv_hold_q = <<>>

(* The SDUs not yet sent are the last ones written. *)
Holds(e) ==
  /\ Len(e.xmit_hold_q) <= e.wrote
  /\ \A i \in 1 .. Len(e.xmit_hold_q) : e.xmit_hold_q[i] = NextSdu(e) + i - 1
  /\ e.segmented < (IF e.xmit_hold_q = <<>> THEN 1 ELSE Pieces(NextSdu(e)))

(* The frames that wait for an acknowledgement are those from Heard(e) up  *)
(* to Built(e), and there are no more than the window takes.               *)
Unacked(e) ==
  /\ Len(e.waiting_for_ack_q) <= TxWin /\ 0 <= Heard(e)
  /\ \A i \in 1 .. Len(e.waiting_for_ack_q) :
        /\ Carries(e.waiting_for_ack_q[i], e.wrote)
        /\ Pos(e.waiting_for_ack_q[i].piece) = Heard(e) + i - 1

(* A frame that may go (again) is one of the last TxWin that were built.   *)
Recent(b, e) == /\ Carries(b, e.wrote)
                /\ Pos(b.piece) < Built(e) /\ Built(e) <= Pos(b.piece) + TxWin

Resends(e) == \A i \in 1 .. Len(e.retrans_q) : Recent(e.retrans_q[i], e)

Window(e) ==
  /\ Holds(e) /\ Unacked(e) /\ Resends(e)
  /\ e.next_tx_seq = Built(e) % Modulus
  /\ e.last_rx_ack = Heard(e) % Modulus
  /\ Off(e.complete + 1) <= Heard(e) /\ Heard(e) < Off(e.complete + 2)
  /\ \A j \in 1 .. Len(e.out) : IsI(e.out[j]) => Pos(e.out[j].piece) < Built(e)

Local(d, e) == Typed(d, e) /\ (e.open => Window(e))

(* The SDUs received so far are the first ones, the one that is being put  *)
(* together is next, and the frames held are those behind a lost one.      *)
Gathers(e) ==
  /\ e.rcvd = [i \in 1 .. Len(e.rcvd) |-> Sdu(i)]
  /\ e.cause \in {"none", "peer", "tries"}
  /\ e.open =>
      /\ e.rx_sdu = [k \in 1 .. Len(e.rx_sdu) |-> <<Len(e.rcvd) + 1, k>>]
      /\ Len(e.rx_sdu) < Pieces(Len(e.rcvd) + 1)
      /\ e.next_seq_expected = Taken(e) % Modulus
      /\ ~e.local_busy
      /\ \A i \in 1 .. Len(e.srej_rcv_hold_q) :
            Pos(e.srej_rcv_hold_q[i].piece) = Taken(e) + i - (IF e.srej_sent THEN 0 ELSE 1)

(* The acknowledgements in these frames, those of numbers in low .. top,   *)
(* never go back.                                                          *)
AcksFit(out, low, top) ==
  \E q \in [1 .. Len(out) -> low .. top] :
     \A i \in 1 .. Len(out) :
        /\ out[i].k # "DISC" => out[i].req = q[i] % Modulus
        /\ \A j \in 1 .. i : q[j] <= q[i]

(* A frame of e may reach g: it is within a window of what g has.          *)
Within(x, g) == Pos(x) < Taken(g) + TxWin /\ Reach(g) <= Pos(x) + TxWin

Acknowledged(e, g) == IF Built(g) < Taken(e) THEN Built(g) ELSE Taken(e)

(* What e has sent and g has not received yet. *)
Arrives(e, g) ==
  /\ \A j \in 1 .. Len(e.out) : IsI(e.out[j]) =>
        /\ Within(e.out[j].piece, g)
        /\ \A i \in 1 .. j :
              IsI(e.out[i]) => Pos(e.out[i].piece) < Pos(e.out[j].piece) + TxWin
  /\ AcksFit(e.out, Heard(g), Acknowledged(e, g))

Pair(e, g) ==
  /\ g.open =>
      /\ Arrives(e, g)
      /\ \A i \in 1 .. Len(g.srej_rcv_hold_q) : Carries(g.srej_rcv_hold_q[i], e.wrote)
  /\ e.open /\ g.open => Reach(g) <= Built(e)
  /\ e.open => Heard(e) <= Taken(g)
  /\ e.complete <= Len(g.rcvd)
  /\ Len(g.rcvd) <= e.wrote

Joint(e, g) == Gathers(e) /\ Gathers(g) /\ Pair(e, g) /\ Pair(g, e)

(* What holds of the two ends e and g, e that of d, in the middle of a     *)
(* handler of d; the data path as long as no one flows the other off.      *)
Fits(d, e, g) ==
  Local(d, e) /\ Local(Peer(d), g) /\ (MaxBusy = 0 => Joint(e, g))

-----------------------------------------------------------------------------
(* What the elementary steps of an end keep *)

(* The next steps of the sending half of e and f are the same, but for     *)
(* what e sends again; and those of the receiving half.                    *)
SameSend(e, f) ==
  /\ f.waiting_for_ack_q = e.waiting_for_ack_q
  /\ f.xmit_hold_q = e.xmit_hold_q /\ f.segmented = e.segmented
  /\ f.next_tx_seq = e.next_tx_seq /\ f.last_rx_ack = e.last_rx_ack
  /\ f.wrote = e.wrote /\ f.complete = e.complete

SameRecv(e, f) ==
  /\ f.rcvd = e.rcvd /\ f.rx_sdu = e.rx_sdu
  /\ f.next_seq_expected = e.next_seq_expected /\ f.local_busy = e.local_busy
  /\ f.srej_rcv_hold_q = e.srej_rcv_hold_q /\ f.srej_sent = e.srej_sent

(* What the two applications see of the way from e to f. *)
Onward(e, f) ==
  /\ f.wrote = e.wrote /\ (f.open => e.open)
  /\ Len(e.rcvd) <= Len(f.rcvd) /\ e.complete <= f.complete
  /\ ~e.open => f.rcvd = e.rcvd /\ f.complete = e.complete

(* f is what a sending operator may make of e. *)
Goes(d, e, f, g) ==
  /\ Fits(d, f, g) /\ Onward(e, f)
  /\ f.open => SameRecv(e, f)

LEMMA CcbFields ==
  ASSUME NEW e \in Ccb
  PROVE  /\ e.open \in BOOLEAN /\ e.send_f_rsp \in BOOLEAN /\ e.srej_sent \in BOOLEAN
         /\ e.next_tx_seq \in Seqs /\ e.last_rx_ack \in Seqs
         /\ e.next_seq_expected \in Seqs /\ e.last_ack_sent \in Seqs
         /\ e.timer \in Timers /\ e.ack \in Timers
         /\ e.segmented \in Nat /\ e.wrote \in Nat /\ e.complete \in Nat
         /\ e.num_tries \in Nat
BY DEF Ccb

LEMMA CcbQueues ==
  ASSUME NEW e \in Ccb
  PROVE  /\ e.waiting_for_ack_q \in Seq(Buffer) /\ Len(e.waiting_for_ack_q) \in Nat
         /\ e.retrans_q \in Seq(Buffer) /\ Len(e.retrans_q) \in Nat
         /\ e.srej_rcv_hold_q \in Seq(IFrame) /\ Len(e.srej_rcv_hold_q) \in Nat
         /\ e.xmit_hold_q \in Seq(Nat) /\ Len(e.xmit_hold_q) \in Nat
         /\ e.rx_sdu \in Seq(Piece) /\ Len(e.rx_sdu) \in Nat
         /\ e.out \in Seq(Frame) /\ Len(e.out) \in Nat
         /\ e.rcvd \in Seq(Seq(Piece)) /\ Len(e.rcvd) \in Nat
BY LenProperties DEF Ccb

LEMMA SameViews ==
  ASSUME NEW e, NEW f
  PROVE  /\ SameSend(e, f) => /\ NextSdu(f) = NextSdu(e) /\ Built(f) = Built(e)
                              /\ Heard(f) = Heard(e)
         /\ SameRecv(e, f) /\ f.open = e.open => Taken(f) = Taken(e) /\ Reach(f) = Reach(e)
BY DEF SameSend, SameRecv, NextSdu, Built, Heard, Taken, Reach

LEMMA TakenNat ==
  ASSUME NEW e \in Ccb
  PROVE  /\ Taken(e) \in Nat /\ Reach(e) \in Nat /\ Taken(e) <= Reach(e)
         /\ Off(Len(e.rcvd) + 1) \in Nat /\ Off(Len(e.rcvd) + 2) \in Nat
         /\ Pieces(Len(e.rcvd) + 1) \in Nat \ {0}
         /\ Off(Len(e.rcvd) + 2) = Off(Len(e.rcvd) + 1) + Pieces(Len(e.rcvd) + 1)
<1>1. /\ Len(e.rcvd) \in Nat /\ Len(e.rx_sdu) \in Nat /\ Len(e.srej_rcv_hold_q) \in Nat
      /\ Len(e.rcvd) + 1 \in Nat \ {0} /\ Len(e.rcvd) + 2 = (Len(e.rcvd) + 1) + 1
      /\ Len(e.rcvd) + 2 \in Nat \ {0}
  BY CcbQueues
<1>2. /\ Off(Len(e.rcvd) + 1) \in Nat /\ Off(Len(e.rcvd) + 2) \in Nat
      /\ Pieces(Len(e.rcvd) + 1) \in Nat \ {0}
      /\ Off(Len(e.rcvd) + 2) = Off(Len(e.rcvd) + 1) + Pieces(Len(e.rcvd) + 1)
  BY <1>1, OffNext
<1>3. Taken(e) \in Nat
  <2> DEFINE a == Off(Len(e.rcvd) + 1)
             b == Off(Len(e.rcvd) + 2)
  <2>1. Taken(e) = IF e.open THEN a + Len(e.rx_sdu) ELSE b - 1
    BY DEF Taken
  <2>2. a \in Nat /\ b - 1 \in Nat
    BY <1>2
  <2> HIDE DEF a, b
  <2> QED BY <1>1, <2>1, <2>2
<1>4. Reach(e) \in Nat /\ Taken(e) <= Reach(e)
  BY <1>1, <1>3 DEF Reach
<1> QED BY <1>2, <1>3, <1>4

LEMMA BuiltNat ==
  ASSUME NEW d, NEW e, Local(d, e), e.open
  PROVE  /\ e \in Ccb
         /\ NextSdu(e) \in Nat \ {0} /\ Pieces(NextSdu(e)) \in Nat \ {0}
         /\ Off(NextSdu(e)) \in Nat
         /\ Off(NextSdu(e) + 1) = Off(NextSdu(e)) + Pieces(NextSdu(e))
         /\ Built(e) \in Nat /\ Heard(e) \in Nat
         /\ Built(e) = Heard(e) + Len(e.waiting_for_ack_q)
         /\ Built(e) <= Heard(e) + TxWin
<1>1. e \in Ccb /\ Window(e)
  BY DEF Local, Typed
<1>2. /\ e.wrote \in Nat /\ e.segmented \in Nat /\ Len(e.xmit_hold_q) \in Nat
      /\ Len(e.waiting_for_ack_q) \in Nat /\ TxWin \in Nat
      /\ Len(e.xmit_hold_q) <= e.wrote /\ Len(e.waiting_for_ack_q) <= TxWin /\ 0 <= Heard(e)
  BY <1>1, CcbFields, CcbQueues, ErtmAssumption DEF Window, Holds, Unacked
<1>3. NextSdu(e) \in Nat \ {0}
  BY <1>2 DEF NextSdu
<1>4. /\ Off(NextSdu(e)) \in Nat /\ Pieces(NextSdu(e)) \in Nat \ {0}
      /\ Off(NextSdu(e) + 1) = Off(NextSdu(e)) + Pieces(NextSdu(e))
  BY <1>3, OffNext
<1>5. Built(e) \in Nat /\ Built(e) = Heard(e) + Len(e.waiting_for_ack_q)
  <2> DEFINE a == Off(NextSdu(e))
  <2>1. Built(e) = a + e.segmented /\ a \in Nat
    BY <1>4 DEF Built
  <2> HIDE DEF a
  <2>2. Built(e) \in Nat
    BY <1>2, <2>1
  <2> QED BY <1>2, <2>2 DEF Heard
<1>6. Heard(e) \in Nat /\ Built(e) <= Heard(e) + TxWin
  BY <1>2, <1>5 DEF Heard
<1> QED BY <1>1, <1>3, <1>4, <1>5, <1>6

LEMMA OnwardChain ==
  ASSUME NEW e \in Ccb, NEW f \in Ccb, NEW h \in Ccb, Onward(e, f), Onward(f, h)
  PROVE  Onward(e, h)
<1>1. /\ Len(e.rcvd) \in Nat /\ Len(f.rcvd) \in Nat /\ Len(h.rcvd) \in Nat
      /\ e.complete \in Nat /\ f.complete \in Nat /\ h.complete \in Nat
      /\ e.open \in BOOLEAN /\ f.open \in BOOLEAN /\ h.open \in BOOLEAN
  BY CcbQueues, CcbFields
<1> QED BY <1>1 DEF Onward

LEMMA FitsCcb ==
  ASSUME NEW d, NEW e, NEW g, Fits(d, e, g)
  PROVE  e \in Ccb /\ g \in Ccb
BY DEF Fits, Local, Typed

LEMMA GoesSelf ==
  ASSUME NEW d, NEW e, NEW g, Fits(d, e, g)
  PROVE  Goes(d, e, e, g)
<1>1. e \in Ccb
  BY FitsCcb
<1>2. Len(e.rcvd) \in Nat /\ e.complete \in Nat
  BY <1>1, CcbQueues, CcbFields
<1> QED BY <1>2 DEF Goes, Onward, SameRecv

LEMMA GoesOn ==
  ASSUME NEW d, NEW e, NEW f, NEW h, NEW g, Fits(d, e, g), Goes(d, e, f, g), Goes(d, f, h, g)
  PROVE  Goes(d, e, h, g)
<1>1. e \in Ccb /\ f \in Ccb /\ h \in Ccb
  BY FitsCcb DEF Goes
<1>2. Onward(e, h)
  BY <1>1, OnwardChain DEF Goes
<1>3. ASSUME h.open PROVE SameRecv(e, h)
  <2>1. f.open
    BY <1>3 DEF Goes, Onward
  <2> QED BY <1>3, <2>1 DEF Goes, SameRecv
<1> QED BY <1>2, <1>3 DEF Goes

(* Acknowledgements under way *)

LEMMA AcksMore ==
  ASSUME NEW out, NEW low \in Int, NEW top \in Int, NEW l \in Int, NEW t \in Int,
         l <= low, top <= t, AcksFit(out, low, top)
  PROVE  AcksFit(out, l, t)
<1>1. PICK q \in [1 .. Len(out) -> low .. top] :
        \A i \in 1 .. Len(out) :
           /\ out[i].k # "DISC" => out[i].req = q[i] % Modulus
           /\ \A j \in 1 .. i : q[j] <= q[i]
  BY DEF AcksFit
<1>2. q \in [1 .. Len(out) -> l .. t]
  OBVIOUS
<1> QED BY <1>1, <1>2 DEF AcksFit

LEMMA AcksAppend ==
  ASSUME NEW out \in Seq(Frame), NEW x \in Frame, NEW low \in Int, NEW top \in Int,
         low <= top, AcksFit(out, low, top),
         x.k # "DISC" => x.req = top % Modulus
  PROVE  AcksFit(Append(out, x), low, top)
<1> DEFINE n == Len(out)
           o == Append(out, x)
<1>1. PICK q \in [1 .. n -> low .. top] :
        \A i \in 1 .. n : /\ out[i].k # "DISC" => out[i].req = q[i] % Modulus
                          /\ \A j \in 1 .. i : q[j] <= q[i]
  BY DEF AcksFit
<1>2. /\ n \in Nat /\ Len(o) = n + 1 /\ o[n + 1] = x
      /\ \A i \in 1 .. n : o[i] = out[i]
  BY AppendProperties, LenProperties
<1> DEFINE r == [i \in 1 .. (n + 1) |-> IF i = n + 1 THEN top ELSE q[i]]
<1> HIDE DEF o, n
<1>3. r \in [1 .. Len(o) -> low .. top]
  BY <1>2
<1>4. ASSUME NEW i \in 1 .. Len(o)
      PROVE  /\ o[i].k # "DISC" => o[i].req = r[i] % Modulus
             /\ \A j \in 1 .. i : r[j] <= r[i]
  <2>1. CASE i = n + 1
    <3>1. o[i] = x /\ r[i] = top
      BY <1>2, <2>1
    <3>2. \A j \in 1 .. i : r[j] <= top
      BY <1>2, <1>3
    <3> QED BY <3>1, <3>2
  <2>2. CASE i # n + 1
    <3>1. i \in 1 .. n /\ o[i] = out[i] /\ r[i] = q[i]
      BY <1>2, <2>2
    <3>2. \A j \in 1 .. i : r[j] = q[j]
      BY <1>2, <3>1
    <3> QED BY <1>1, <3>1, <3>2
  <2> QED BY <2>1, <2>2
<1>5. AcksFit(o, low, top)
  <2> HIDE DEF r
  <2> QED BY <1>3, <1>4 DEF AcksFit
<1> QED BY <1>5 DEF o

(* The first acknowledgement, and those behind it. *)
LEMMA AcksTail ==
  ASSUME NEW out \in Seq(Frame), out # <<>>, NEW low \in Int, NEW top \in Int,
         AcksFit(out, low, top)
  PROVE  \E a \in low .. top : /\ Head(out).k # "DISC" => Head(out).req = a % Modulus
                               /\ AcksFit(Tail(out), a, top)
<1> DEFINE n == Len(out)
           o == Tail(out)
<1>1. PICK q \in [1 .. n -> low .. top] :
        \A i \in 1 .. n : /\ out[i].k # "DISC" => out[i].req = q[i] % Modulus
                          /\ \A j \in 1 .. i : q[j] <= q[i]
  BY DEF AcksFit
<1>2. /\ n \in Nat /\ n > 0 /\ Len(o) = n - 1 /\ Head(out) = out[1]
      /\ \A i \in 1 .. (n - 1) : o[i] = out[i + 1]
  BY HeadTailProperties, LenProperties, EmptySeq
<1> HIDE DEF o, n
<1> DEFINE a == q[1]
           r == [i \in 1 .. (n - 1) |-> q[i + 1]]
<1>3. a \in low .. top /\ (Head(out).k # "DISC" => Head(out).req = a % Modulus)
  BY <1>1, <1>2
<1>4. \A i \in 1 .. (n - 1) : r[i] = q[i + 1] /\ i + 1 \in 1 .. n /\ r[i] \in a .. top
  <2> SUFFICES ASSUME NEW i \in 1 .. (n - 1)
               PROVE  r[i] = q[i + 1] /\ i + 1 \in 1 .. n /\ r[i] \in a .. top
    OBVIOUS
  <2>1. i + 1 \in 1 .. n /\ 1 \in 1 .. (i + 1) /\ 1 \in 1 .. n
    BY <1>2
  <2>2. q[1] <= q[i + 1] /\ q[i + 1] \in low .. top /\ q[1] \in low .. top
    BY <1>1, <2>1
  <2> QED BY <2>1, <2>2
<1>5. r \in [1 .. Len(o) -> a .. top]
  BY <1>2, <1>4
<1>6. ASSUME NEW i \in 1 .. Len(o)
      PROVE  /\ o[i].k # "DISC" => o[i].req = r[i] % Modulus
             /\ \A j \in 1 .. i : r[j] <= r[i]
  <2>1. i \in 1 .. (n - 1) /\ i + 1 \in 1 .. n /\ o[i] = out[i + 1] /\ r[i] = q[i + 1]
    BY <1>2, <1>4
  <2>2. \A j \in 1 .. i : j \in 1 .. (n - 1) /\ j + 1 \in 1 .. (i + 1) /\ r[j] = q[j + 1]
    BY <1>2, <2>1
  <2>3. \A j \in 1 .. (i + 1) : q[j] <= q[i + 1]
    BY <1>1, <2>1
  <2> QED BY <1>1, <2>1, <2>2, <2>3
<1>7. AcksFit(o, a, top)
  <2> HIDE DEF r, a
  <2> QED BY <1>5, <1>6 DEF AcksFit
<1> QED BY <1>3, <1>7 DEF o

(* From e to f nothing changes but what e has sent, what it sends again,   *)
(* and fields the invariant says nothing of.                               *)
Calm(e, f) ==
  /\ SameSend(e, f) /\ SameRecv(e, f) /\ f.open = e.open /\ f.cause = e.cause
  /\ f.open => Resends(f)

LEMMA CalmLocal ==
  ASSUME NEW d, NEW e, NEW f \in Ccb, Local(d, e), Calm(e, f), Frames(f),
         f.open => \A j \in 1 .. Len(f.out) : IsI(f.out[j]) => Pos(f.out[j].piece) < Built(f)
  PROVE  Local(d, f)
<1>1. Typed(d, f)
  BY DEF Typed, Local, Calm, SameSend, SameRecv
<1>2. ASSUME f.open PROVE Window(f)
  <2>1. Window(e) /\ SameSend(e, f) /\ Resends(f)
    BY <1>2 DEF Local, Calm
  <2>2. NextSdu(f) = NextSdu(e) /\ Built(f) = Built(e) /\ Heard(f) = Heard(e)
    BY <2>1, SameViews
  <2>3. Holds(f)
    BY <2>1, <2>2 DEF Holds, Window, SameSend
  <2>4. Unacked(f)
    BY <2>1, <2>2 DEF Unacked, Window, SameSend
  <2>5. /\ f.next_tx_seq = Built(f) % Modulus /\ f.last_rx_ack = Heard(f) % Modulus
        /\ Off(f.complete + 1) <= Heard(f) /\ Heard(f) < Off(f.complete + 2)
    BY <2>1, <2>2 DEF Window, SameSend
  <2> QED BY <1>2, <2>1, <2>3, <2>4, <2>5 DEF Window
<1> QED BY <1>1, <1>2 DEF Local

LEMMA CalmJoint ==
  ASSUME NEW e, NEW f, NEW g, Joint(e, g), Calm(e, f), g.open => Arrives(f, g)
  PROVE  Joint(f, g)
<1>1. /\ SameSend(e, f) /\ SameRecv(e, f) /\ f.open = e.open /\ f.cause = e.cause
      /\ Built(f) = Built(e) /\ Heard(f) = Heard(e)
      /\ Taken(f) = Taken(e) /\ Reach(f) = Reach(e)
  BY SameViews DEF Calm
<1>2. Gathers(f)
  BY <1>1 DEF Joint, Gathers, SameRecv
<1>3. Pair(f, g)
  BY <1>1 DEF Joint, Pair, SameSend
<1>4. Pair(g, f)
  <2>1. ASSUME f.open PROVE Arrives(g, f)
    <3>1. Arrives(g, e)
      BY <1>1, <2>1 DEF Joint, Pair
    <3>2. \A x : Within(x, e) <=> Within(x, f)
      BY <1>1 DEF Within
    <3>3. Acknowledged(g, f) = Acknowledged(g, e)
      BY <1>1 DEF Acknowledged
    <3> QED BY <1>1, <3>1, <3>2, <3>3 DEF Arrives
  <2>2. Pair(g, e)
    BY DEF Joint
  <2> QED BY <1>1, <2>1, <2>2 DEF Pair, SameSend, SameRecv
<1> QED BY <1>2, <1>3, <1>4 DEF Joint

LEMMA CalmOnward ==
  ASSUME NEW e \in Ccb, NEW f \in Ccb, Calm(e, f)
  PROVE  Onward(e, f) /\ SameRecv(e, f)
<1>1. Len(e.rcvd) \in Nat /\ e.complete \in Nat
  BY CcbQueues, CcbFields
<1> QED BY <1>1 DEF Onward, Calm, SameSend, SameRecv

(* A change of fields the invariant says nothing of. *)
LEMMA QuietGoes ==
  ASSUME NEW d, NEW e, NEW f \in Ccb, NEW g, Fits(d, e, g), Calm(e, f), f.out = e.out
  PROVE  Goes(d, e, f, g)
<1>1. e \in Ccb /\ Local(d, e) /\ Onward(e, f) /\ SameRecv(e, f)
  BY FitsCcb, CalmOnward DEF Fits
<1>2. SameSend(e, f) /\ f.open = e.open /\ Built(f) = Built(e) /\ Taken(f) = Taken(e)
  BY SameViews DEF Calm
<1>3. Frames(f)
  BY <1>1, <1>2 DEF Frames, Local, Typed, SameSend
<1>4. Local(d, f)
  <2>1. f.open => \A j \in 1 .. Len(f.out) : IsI(f.out[j]) => Pos(f.out[j].piece) < Built(f)
    BY <1>1, <1>2 DEF Local, Window
  <2> QED BY <1>1, <1>3, <2>1, CalmLocal
<1>5. ASSUME MaxBusy = 0 PROVE Joint(f, g)
  <2>1. Joint(e, g)
    BY <1>5 DEF Fits
  <2>2. ASSUME g.open PROVE Arrives(f, g)
    <3>1. Arrives(e, g)
      BY <2>1, <2>2 DEF Joint, Pair
    <3> QED BY <1>2, <3>1 DEF Arrives, Acknowledged
  <2> QED BY <2>1, <2>2, CalmJoint
<1> QED BY <1>1, <1>4, <1>5 DEF Goes, Fits

(* A frame goes out. *)
Says(e, f, x) ==
  /\ Calm(e, f) /\ x \in Frame /\ f.out = Append(e.out, x)
  /\ x.k # "DISC" => /\ e.open /\ x.req = e.next_seq_expected
                     /\ ~(x.p /\ x.f)
  /\ IsI(x) => Recent(x, e)

LEMMA AcksRange ==
  ASSUME NEW d, NEW e, NEW g, Local(d, e), Local(Peer(d), g), Joint(e, g), g.open
  PROVE  /\ Heard(g) \in Int /\ Acknowledged(e, g) \in Int
         /\ Heard(g) <= Acknowledged(e, g)
         /\ e.open => Acknowledged(e, g) = Taken(e)
         /\ Acknowledged(e, g) <= Taken(e) /\ Acknowledged(e, g) <= Built(g)
<1>1. Heard(g) \in Nat /\ Built(g) \in Nat /\ Built(g) = Heard(g) + Len(g.waiting_for_ack_q)
  BY BuiltNat
<1>2. Len(g.waiting_for_ack_q) \in Nat /\ e \in Ccb
  BY CcbQueues DEF Local, Typed
<1>3. Taken(e) \in Nat /\ Reach(e) \in Nat /\ Taken(e) <= Reach(e)
  BY <1>2, TakenNat
<1>4. Heard(g) <= Taken(e) /\ (e.open => Reach(e) <= Built(g))
  BY DEF Joint, Pair
<1> QED BY <1>1, <1>2, <1>3, <1>4 DEF Acknowledged

LEMMA SaysOut ==
  ASSUME NEW e \in Ccb, NEW f \in Ccb, NEW x, Says(e, f, x)
  PROVE  /\ Len(e.out) \in Nat /\ Len(f.out) = Len(e.out) + 1
         /\ f.out[Len(e.out) + 1] = x
         /\ \A j \in 1 .. Len(e.out) : f.out[j] = e.out[j]
<1>1. e.out \in Seq(Frame) /\ x \in Frame /\ f.out = Append(e.out, x)
  BY CcbQueues DEF Says
<1> QED BY <1>1, AppendProperties, LenProperties

LEMMA SaysArrives ==
  ASSUME NEW d, NEW e, NEW f \in Ccb, NEW g, NEW x, Local(d, e), Local(Peer(d), g),
         Joint(e, g), Says(e, f, x), g.open
  PROVE  Arrives(f, g)
<1> DEFINE n == Len(e.out)
<1>1. /\ e \in Ccb /\ g \in Ccb /\ SameSend(e, f) /\ f.open = e.open
      /\ Built(f) = Built(e) /\ Taken(f) = Taken(e) /\ x \in Frame
      /\ f.out = Append(e.out, x) /\ e.out \in Seq(Frame)
  BY SameViews, CcbQueues DEF Says, Calm, Local, Typed
<1>2. /\ n \in Nat /\ Len(f.out) = n + 1 /\ f.out[n + 1] = x
      /\ \A j \in 1 .. n : f.out[j] = e.out[j]
  BY <1>1, SaysOut
<1>3. Arrives(e, g)
  BY DEF Joint, Pair
<1>4. AcksFit(f.out, Heard(g), Acknowledged(f, g))
  <2>1. /\ Heard(g) \in Int /\ Acknowledged(e, g) \in Int
        /\ Heard(g) <= Acknowledged(e, g)
        /\ e.open => Acknowledged(e, g) = Taken(e)
    BY AcksRange
  <2>2. Acknowledged(f, g) = Acknowledged(e, g)
    BY <1>1 DEF Acknowledged
  <2>3. x.k # "DISC" => x.req = Acknowledged(e, g) % Modulus
    BY <2>1 DEF Says, Joint, Gathers
  <2>4. AcksFit(e.out, Heard(g), Acknowledged(e, g))
    BY <1>3 DEF Arrives
  <2> QED BY <1>1, <2>1, <2>2, <2>3, <2>4, AcksAppend
<1>5. ASSUME IsI(x)
      PROVE  /\ Within(x.piece, g)
             /\ Pos(x.piece) < Pos(x.piece) + TxWin
             /\ \A i \in 1 .. n : IsI(e.out[i]) => Pos(e.out[i].piece) < Pos(x.piece) + TxWin
  <2>1. e.open /\ Recent(x, e) /\ IsPiece(x.piece)
    BY <1>5 DEF Says, IsI, Recent, Carries
  <2>2. /\ Pos(x.piece) < Built(e) /\ Built(e) <= Pos(x.piece) + TxWin
        /\ Pos(x.piece) \in Nat
    BY <2>1, PiecePos DEF Recent
  <2>3. /\ Built(e) \in Nat /\ Heard(e) \in Nat /\ Built(e) <= Heard(e) + TxWin
        /\ TxWin \in Nat /\ TxWin > 0
        /\ Taken(g) \in Nat /\ Reach(g) \in Nat
    <3>1. TxWin \in Nat /\ TxWin > 0
      BY ErtmAssumption
    <3>2. Built(e) \in Nat /\ Heard(e) \in Nat /\ Built(e) <= Heard(e) + TxWin
      BY <2>1, BuiltNat
    <3>3. Taken(g) \in Nat /\ Reach(g) \in Nat
      BY <1>1, TakenNat
    <3> QED BY <3>1, <3>2, <3>3
  <2>4. Heard(e) <= Taken(g) /\ Reach(g) <= Built(e)
    BY <2>1 DEF Joint, Pair
  <2>5. Within(x.piece, g)
    BY <2>2, <2>3, <2>4 DEF Within
  <2>6. \A i \in 1 .. n : IsI(e.out[i]) => Pos(e.out[i].piece) < Pos(x.piece) + TxWin
    <3> SUFFICES ASSUME NEW i \in 1 .. n, IsI(e.out[i])
                 PROVE  Pos(e.out[i].piece) < Pos(x.piece) + TxWin
      OBVIOUS
    <3>1. Pos(e.out[i].piece) < Built(e)
      BY <2>1 DEF Local, Window
    <3>2. IsPiece(e.out[i].piece)
      BY <2>1 DEF Local, Typed, Frames, Carries
    <3>3. Pos(e.out[i].piece) \in Nat
      BY <3>2, PiecePos
    <3> QED BY <2>2, <2>3, <3>1, <3>3
  <2> QED BY <2>2, <2>3, <2>5, <2>6
<1>6. ASSUME NEW j \in 1 .. (n + 1), IsI(f.out[j])
      PROVE  /\ Within(f.out[j].piece, g)
             /\ \A i \in 1 .. j :
                  IsI(f.out[i]) => Pos(f.out[i].piece) < Pos(f.out[j].piece) + TxWin
  <2>1. CASE j = n + 1
    <3>1. f.out[j] = x /\ IsI(x)
      BY <1>2, <1>6, <2>1
    <3>2. \A i \in 1 .. j : i = n + 1 \/ i \in 1 .. n
      BY <1>2, <2>1
    <3> QED BY <1>2, <1>5, <3>1, <3>2
  <2>2. CASE j # n + 1
    <3>1. j \in 1 .. n /\ f.out[j] = e.out[j] /\ \A i \in 1 .. j : f.out[i] = e.out[i]
      BY <1>2, <2>2
    <3> QED BY <1>3, <1>6, <3>1 DEF Arrives
  <2> QED BY <2>1, <2>2
<1> HIDE DEF n
<1> QED BY <1>2, <1>4, <1>6 DEF Arrives

LEMMA SaysGoes ==
  ASSUME NEW d, NEW e, NEW f \in Ccb, NEW g, NEW x, Fits(d, e, g), Says(e, f, x)
  PROVE  Goes(d, e, f, g)
<1> DEFINE n == Len(e.out)
<1>1. /\ e \in Ccb /\ Local(d, e) /\ Calm(e, f) /\ Onward(e, f) /\ SameRecv(e, f)
      /\ SameSend(e, f) /\ f.open = e.open /\ Built(f) = Built(e)
  BY FitsCcb, CalmOnward, SameViews DEF Fits, Says, Calm
<1>2. /\ n \in Nat /\ Len(f.out) = n + 1 /\ f.out[n + 1] = x
      /\ \A j \in 1 .. n : f.out[j] = e.out[j]
  BY <1>1, SaysOut
<1>3. \A j \in 1 .. (n + 1) : j = n + 1 \/ j \in 1 .. n
  BY <1>2
<1>4. Frames(f)
  <2>1. /\ x.k # "DISC" => ~(x.p /\ x.f)
        /\ IsI(x) => Carries(x, f.wrote)
    BY <1>1 DEF Says, SameSend, Recent
  <2>2. Frames(e) /\ f.wrote = e.wrote
    BY <1>1 DEF Local, Typed, SameSend
  <2> QED BY <1>2, <1>3, <2>1, <2>2 DEF Frames
<1>5. f.open => \A j \in 1 .. Len(f.out) : IsI(f.out[j]) => Pos(f.out[j].piece) < Built(f)
  <2> SUFFICES ASSUME f.open, NEW j \in 1 .. (n + 1), IsI(f.out[j])
               PROVE  Pos(f.out[j].piece) < Built(f)
    BY <1>2
  <2>1. Window(e)
    BY <1>1 DEF Local
  <2> QED BY <1>1, <1>2, <1>3, <2>1 DEF Window, Says, Recent
<1>6. Local(d, f)
  BY <1>1, <1>4, <1>5, CalmLocal
<1>7. ASSUME MaxBusy = 0 PROVE Joint(f, g)
  <2>1. Joint(e, g) /\ Local(Peer(d), g)
    BY <1>7 DEF Fits
  <2> QED BY <1>1, <2>1, SaysArrives, CalmJoint
<1> QED BY <1>1, <1>6, <1>7 DEF Goes, Fits

(* The sending half gets ahead: SDUs are written or frames are built.      *)
Ahead(e, f) ==
  /\ SameRecv(e, f) /\ f.open = e.open /\ f.cause = e.cause /\ f.out = e.out
  /\ e.wrote <= f.wrote /\ f.complete = e.complete
  /\ e.open => Heard(f) = Heard(e) /\ Built(e) <= Built(f)

LEMMA CarriesMore ==
  ASSUME NEW b, NEW m \in Nat, NEW n \in Nat, m <= n, Carries(b, m)
  PROVE  Carries(b, n)
<1>1. b.piece[1] \in Nat
  BY PiecePos DEF Carries
<1> QED BY <1>1 DEF Carries

LEMMA AheadJoint ==
  ASSUME NEW d, NEW e, NEW f, NEW g, Joint(e, g), Local(d, e), Local(d, f),
         Local(Peer(d), g), Ahead(e, f)
  PROVE  Joint(f, g)
<1>1. /\ e \in Ccb /\ f \in Ccb /\ g \in Ccb /\ SameRecv(e, f)
      /\ f.open = e.open /\ f.cause = e.cause /\ f.out = e.out /\ f.complete = e.complete
      /\ Taken(f) = Taken(e) /\ Reach(f) = Reach(e)
  BY SameViews DEF Ahead, Local, Typed
<1>2. Gathers(f)
  BY <1>1 DEF Joint, Gathers, SameRecv
<1>3. /\ e.wrote \in Nat /\ f.wrote \in Nat /\ e.wrote <= f.wrote
      /\ Len(g.rcvd) \in Nat /\ Reach(g) \in Nat
      /\ Taken(e) \in Nat
  BY <1>1, CcbFields, CcbQueues, TakenNat DEF Ahead
<1>4. Pair(f, g)
  <2>1. Pair(e, g)
    BY DEF Joint
  <2>2. g.open => Arrives(f, g)
    BY <1>1, <2>1 DEF Pair, Arrives, Acknowledged
  <2>3. g.open => \A i \in 1 .. Len(g.srej_rcv_hold_q) : Carries(g.srej_rcv_hold_q[i], f.wrote)
    BY <1>3, <2>1, CarriesMore DEF Pair
  <2>4. f.open /\ g.open => Reach(g) <= Built(f)
    <3> SUFFICES ASSUME f.open, g.open PROVE Reach(g) <= Built(f)
      OBVIOUS
    <3>1. Reach(g) <= Built(e) /\ Built(e) <= Built(f)
      BY <1>1, <2>1 DEF Pair, Ahead
    <3>2. Built(e) \in Nat /\ Built(f) \in Nat
      BY <1>1, BuiltNat
    <3> QED BY <1>3, <3>1, <3>2
  <2>5. f.open => Heard(f) <= Taken(g)
    BY <1>1, <2>1 DEF Pair, Ahead
  <2> QED BY <1>1, <1>3, <2>1, <2>2, <2>3, <2>4, <2>5 DEF Pair
<1>5. Pair(g, f)
  <2>1. Pair(g, e)
    BY DEF Joint
  <2>2. ASSUME f.open PROVE Arrives(g, f)
    <3>1. Arrives(g, e) /\ e.open
      BY <1>1, <2>1, <2>2 DEF Pair
    <3>2. \A x : Within(x, e) <=> Within(x, f)
      BY <1>1 DEF Within
    <3>3. /\ Built(e) \in Nat /\ Built(f) \in Nat /\ Heard(e) \in Nat
          /\ Heard(f) = Heard(e) /\ Built(e) <= Built(f)
      BY <3>1, <2>2, BuiltNat DEF Ahead
    <3>4. AcksFit(g.out, Heard(e), Acknowledged(g, e))
      BY <3>1 DEF Arrives
    <3>5. /\ Acknowledged(g, e) \in Int /\ Acknowledged(g, f) \in Int
          /\ Acknowledged(g, e) <= Acknowledged(g, f)
      <4>1. Taken(g) \in Nat
        BY <1>1, TakenNat
      <4> QED BY <3>3, <4>1 DEF Acknowledged
    <3>6. AcksFit(g.out, Heard(f), Acknowledged(g, f))
      BY <3>3, <3>4, <3>5, AcksMore
    <3> QED BY <3>1, <3>2, <3>6 DEF Arrives
  <2> QED BY <1>1, <2>1, <2>2 DEF Pair, SameRecv, Ahead
<1> QED BY <1>1, <1>2, <1>4, <1>5 DEF Joint

(* A frame is built from the first SDU not yet sent. *)
NextPiece(e) == <<Head(e.xmit_hold_q), e.segmented + 1>>

LastPiece(e) == e.segmented + 1 = Pieces(Head(e.xmit_hold_q))

Builds(e, f) ==
  /\ e.open /\ e.xmit_hold_q # <<>> /\ Len(e.waiting_for_ack_q) < TxWin
  /\ e.retrans_q = <<>> /\ f.retrans_q = <<>>
  /\ SameRecv(e, f) /\ f.open = e.open /\ f.cause = e.cause /\ f.out = e.out
  /\ f.wrote = e.wrote /\ f.complete = e.complete /\ f.last_rx_ack = e.last_rx_ack
  /\ f.xmit_hold_q = IF LastPiece(e) THEN Tail(e.xmit_hold_q) ELSE e.xmit_hold_q
  /\ f.segmented = IF LastPiece(e) THEN 0 ELSE e.segmented + 1
  /\ f.next_tx_seq = NextSeq(e.next_tx_seq)
  /\ f.waiting_for_ack_q =
       Append(e.waiting_for_ack_q, [seq |-> e.next_tx_seq, piece |-> NextPiece(e)])

LEMMA NextPieceIs ==
  ASSUME NEW d \in Ends, NEW e, Local(d, e), e.open, e.xmit_hold_q # <<>>
  PROVE  /\ Len(e.xmit_hold_q) \in Nat \ {0}
         /\ Head(e.xmit_hold_q) = NextSdu(e) /\ NextSdu(e) \in Nat /\ NextSdu(e) <= e.wrote
         /\ e.segmented \in Nat /\ e.segmented < Pieces(NextSdu(e))
         /\ NextPiece(e) = <<NextSdu(e), e.segmented + 1>>
         /\ IsPiece(NextPiece(e)) /\ Pos(NextPiece(e)) = Built(e)
         /\ NextPiece(e)[1] = NextSdu(e)
<1>1. /\ e \in Ccb /\ Window(e) /\ e.wrote <= Sdus(d)
      /\ NextSdu(e) \in Nat \ {0} /\ Pieces(NextSdu(e)) \in Nat \ {0}
      /\ Off(NextSdu(e)) \in Nat
  BY BuiltNat DEF Local, Typed
<1>2. /\ Len(e.xmit_hold_q) \in Nat \ {0} /\ Head(e.xmit_hold_q) = e.xmit_hold_q[1]
      /\ e.wrote \in Nat /\ e.segmented \in Nat
  BY <1>1, CcbQueues, CcbFields, EmptySeq
<1>3. /\ Len(e.xmit_hold_q) <= e.wrote /\ e.xmit_hold_q[1] = NextSdu(e) + 1 - 1
      /\ e.segmented < Pieces(NextSdu(e))
  BY <1>1, <1>2 DEF Window, Holds
<1>4. NextSdu(e) <= e.wrote /\ Head(e.xmit_hold_q) = NextSdu(e)
  BY <1>1, <1>2, <1>3 DEF NextSdu
<1>5. SdusA + SdusB \in Nat /\ Sdus(d) <= SdusA + SdusB /\ Sdus(d) \in Nat
      /\ Segments \in Nat
  BY ErtmAssumption DEF Sdus
<1>6. NextSdu(e) \in 1 .. SdusA + SdusB
  BY <1>1, <1>2, <1>4, <1>5
<1>7. e.segmented + 1 \in 1 .. Segments /\ e.segmented + 1 <= Pieces(NextSdu(e))
  <2>1. Pieces(NextSdu(e)) <= Segments
    BY ErtmAssumption DEF Pieces
  <2> QED BY <1>1, <1>2, <1>3, <1>5, <2>1
<1>8. NextPiece(e) = <<NextSdu(e), e.segmented + 1>>
  BY <1>4 DEF NextPiece
<1>9. IsPiece(NextPiece(e))
  BY <1>6, <1>7, <1>8 DEF IsPiece, Piece
<1>10. Pos(NextPiece(e)) = Built(e)
  BY <1>1, <1>2, <1>8 DEF Pos, Built
<1> QED BY <1>1, <1>2, <1>3, <1>4, <1>8, <1>9, <1>10

LEMMA BuildsAhead ==
  ASSUME NEW d \in Ends, NEW e, NEW f \in Ccb, Local(d, e), Builds(e, f)
  PROVE  /\ NextSdu(f) = IF LastPiece(e) THEN NextSdu(e) + 1 ELSE NextSdu(e)
         /\ Built(f) = Built(e) + 1 /\ Heard(f) = Heard(e)
         /\ Len(f.waiting_for_ack_q) = Len(e.waiting_for_ack_q) + 1
         /\ Holds(f)
<1> DEFINE n == NextSdu(e)
           q == e.xmit_hold_q
<1>1. /\ e \in Ccb /\ e.open /\ Window(e) /\ q # <<>> /\ e.wrote \in Nat
  BY CcbFields DEF Builds, Local, Typed
<1>2. /\ Len(q) \in Nat \ {0} /\ Head(q) = n /\ n \in Nat /\ n <= e.wrote
      /\ e.segmented \in Nat /\ e.segmented < Pieces(n)
  BY <1>1, NextPieceIs
<1>3. /\ n \in Nat \ {0} /\ Pieces(n) \in Nat \ {0} /\ Off(n) \in Nat
      /\ Off(n + 1) = Off(n) + Pieces(n) /\ Built(e) \in Nat /\ Heard(e) \in Nat
      /\ Pieces(n + 1) \in Nat \ {0} /\ Built(e) = Off(n) + e.segmented
  <2>1. n + 1 \in Nat \ {0}
    BY <1>2
  <2> QED BY <1>1, <2>1, BuiltNat, OffNext DEF Built
<1>4. /\ q \in Seq(Nat) /\ Tail(q) \in Seq(Nat) /\ Len(Tail(q)) = Len(q) - 1
      /\ \A i \in 1 .. (Len(q) - 1) : Tail(q)[i] = q[i + 1]
  BY <1>1, CcbQueues, HeadTailProperties
<1>5. n = e.wrote - Len(q) + 1
  BY DEF NextSdu
<1>6. Len(f.waiting_for_ack_q) = Len(e.waiting_for_ack_q) + 1
      /\ Len(e.waiting_for_ack_q) \in Nat
  <2>1. e.waiting_for_ack_q \in Seq(Buffer) /\ Len(e.waiting_for_ack_q) \in Nat
    BY <1>1, CcbQueues
  <2>2. [seq |-> e.next_tx_seq, piece |-> NextPiece(e)] \in Buffer
    BY <1>1, CcbFields, NextPieceIs DEF Buffer, IsPiece
  <2> QED BY <2>1, <2>2, AppendProperties DEF Builds
<1>7. \A i \in 1 .. Len(q) : q[i] = n + i - 1
  BY <1>1 DEF Window, Holds
<1>8. CASE LastPiece(e)
  <2>1. f.xmit_hold_q = Tail(q) /\ f.segmented = 0 /\ f.wrote = e.wrote
        /\ e.segmented + 1 = Pieces(n)
    BY <1>2, <1>8 DEF Builds, LastPiece
  <2>2. NextSdu(f) = n + 1
    BY <1>1, <1>2, <1>4, <1>5, <2>1 DEF NextSdu
  <2>3. Built(f) = Built(e) + 1
    BY <1>2, <1>3, <2>1, <2>2 DEF Built
  <2>4. Heard(f) = Heard(e)
    <3>1. Built(e) \in Nat
      BY <1>3
    <3> QED BY <1>6, <2>3, <3>1 DEF Heard
  <2>5. Holds(f)
    <3>1. \A i \in 1 .. Len(f.xmit_hold_q) : f.xmit_hold_q[i] = (n + 1) + i - 1
      <4> SUFFICES ASSUME NEW i \in 1 .. (Len(q) - 1) PROVE Tail(q)[i] = (n + 1) + i - 1
        BY <1>4, <2>1
      <4>1. i + 1 \in 1 .. Len(q) /\ i \in Nat
        BY <1>2
      <4> QED BY <1>2, <1>4, <1>7, <4>1
    <3>2. Len(f.xmit_hold_q) <= f.wrote
      BY <1>1, <1>2, <1>4, <1>5, <2>1
    <3>3. f.segmented < (IF f.xmit_hold_q = <<>> THEN 1 ELSE Pieces(NextSdu(f)))
      BY <1>3, <2>1, <2>2
    <3> QED BY <2>2, <3>1, <3>2, <3>3 DEF Holds
  <2> QED BY <1>6, <1>8, <2>2, <2>3, <2>4, <2>5
<1>9. CASE ~LastPiece(e)
  <2>1. f.xmit_hold_q = q /\ f.segmented = e.segmented + 1 /\ f.wrote = e.wrote
        /\ e.segmented + 1 # Pieces(n)
    BY <1>2, <1>9 DEF Builds, LastPiece
  <2>2. NextSdu(f) = n
    BY <2>1 DEF NextSdu
  <2>3. Built(f) = Built(e) + 1
    BY <1>2, <1>3, <2>1, <2>2 DEF Built
  <2>4. Heard(f) = Heard(e)
    <3>1. Built(e) \in Nat
      BY <1>3
    <3> QED BY <1>6, <2>3, <3>1 DEF Heard
  <2>5. Holds(f)
    <3>1. f.segmented < Pieces(n)
      BY <1>2, <1>3, <2>1
    <3> QED BY <1>1, <1>7, <2>1, <2>2, <3>1 DEF Holds, Window
  <2> QED BY <1>6, <1>9, <2>2, <2>3, <2>4, <2>5
<1> QED BY <1>8, <1>9

LEMMA BuildsGoes ==
  ASSUME NEW d \in Ends, NEW e, NEW f \in Ccb, NEW g, Fits(d, e, g), Builds(e, f)
  PROVE  /\ Goes(d, e, f, g)
         /\ Recent([seq |-> e.next_tx_seq, piece |-> NextPiece(e)], f)
<1> DEFINE b == [seq |-> e.next_tx_seq, piece |-> NextPiece(e)]
           w == e.waiting_for_ack_q
<1>1. /\ e \in Ccb /\ Local(d, e) /\ e.open /\ Window(e) /\ e.wrote <= Sdus(d)
      /\ Frames(e) /\ f.open /\ f.wrote = e.wrote /\ f.out = e.out
  BY FitsCcb DEF Fits, Builds, Local, Typed
<1>2. /\ NextPiece(e)[1] <= e.wrote /\ IsPiece(NextPiece(e)) /\ Pos(NextPiece(e)) = Built(e)
  BY <1>1, NextPieceIs DEF Builds
<1>3. /\ Built(f) = Built(e) + 1 /\ Heard(f) = Heard(e)
      /\ Len(f.waiting_for_ack_q) = Len(w) + 1 /\ Holds(f)
  BY <1>1, BuildsAhead
<1>4. /\ Built(e) \in Nat /\ Heard(e) \in Nat /\ Len(w) \in Nat /\ w \in Seq(Buffer)
      /\ Built(e) = Heard(e) + Len(w) /\ TxWin \in Nat /\ TxWin > 0
  <2>1. Built(e) \in Nat /\ Heard(e) \in Nat /\ Built(e) = Heard(e) + Len(w)
    BY <1>1, BuiltNat
  <2>2. Len(w) \in Nat /\ w \in Seq(Buffer)
    BY <1>1, CcbQueues
  <2>3. TxWin \in Nat /\ TxWin > 0
    BY ErtmAssumption
  <2> QED BY <2>1, <2>2, <2>3
<1>5. b \in Buffer /\ b.piece = NextPiece(e) /\ Carries(b, e.wrote)
  <2>1. e.next_tx_seq = Built(e) % Modulus /\ e.next_tx_seq \in Seqs
    BY <1>1, CcbFields DEF Window
  <2>2. b.piece = NextPiece(e) /\ b.seq = e.next_tx_seq
    OBVIOUS
  <2>3. b \in Buffer
    BY <1>2, <2>1 DEF Buffer, IsPiece
  <2> HIDE DEF b
  <2> QED BY <1>2, <2>1, <2>2, <2>3 DEF Carries
<1>6. /\ f.waiting_for_ack_q[Len(w) + 1] = b
      /\ \A i \in 1 .. Len(w) : f.waiting_for_ack_q[i] = w[i]
  <2>1. f.waiting_for_ack_q = Append(w, b)
    BY DEF Builds
  <2> HIDE DEF b, w
  <2> QED BY <1>4, <1>5, <2>1, AppendProperties
<1> HIDE DEF b
<1>7. Recent(b, f)
  BY <1>1, <1>2, <1>3, <1>4, <1>5 DEF Recent
<1>8. Local(d, f)
  <2>1. Typed(d, f)
    <3>1. f.srej_sent = e.srej_sent /\ f.srej_rcv_hold_q = e.srej_rcv_hold_q
      BY DEF Builds, SameRecv
    <3> QED BY <1>1, <3>1 DEF Typed, Local, Frames
  <2>2. Unacked(f)
    <3>1. Len(f.waiting_for_ack_q) <= TxWin
      BY <1>3, <1>4 DEF Builds
    <3>2. ASSUME NEW i \in 1 .. (Len(w) + 1)
          PROVE  /\ Carries(f.waiting_for_ack_q[i], f.wrote)
                 /\ Pos(f.waiting_for_ack_q[i].piece) = Heard(f) + i - 1
      <4>1. CASE i = Len(w) + 1
        BY <1>1, <1>2, <1>3, <1>4, <1>5, <1>6, <4>1
      <4>2. CASE i # Len(w) + 1
        <5>1. i \in 1 .. Len(w)
          BY <1>4, <4>2
        <5> QED BY <1>1, <1>3, <1>6, <5>1 DEF Window, Unacked
      <4> QED BY <4>1, <4>2
    <3> QED BY <1>3, <1>4, <3>1, <3>2 DEF Unacked
  <2>3. Resends(f)
    <3>1. Len(f.retrans_q) = 0
      BY EmptySeq DEF Builds
    <3> QED BY <3>1 DEF Resends
  <2>4. f.next_tx_seq = Built(f) % Modulus
    <3>1. e.next_tx_seq = Built(e) % Modulus /\ f.next_tx_seq = NextSeq(e.next_tx_seq)
      BY <1>1 DEF Window, Builds
    <3>2. Built(e) \in Int
      BY <1>4
    <3>3. NextSeq(Built(e) % Modulus) = (Built(e) + 1) % Modulus
      BY <3>2, SeqUp
    <3> QED BY <1>3, <3>1, <3>3
  <2>5. /\ f.last_rx_ack = Heard(f) % Modulus
        /\ Off(f.complete + 1) <= Heard(f) /\ Heard(f) < Off(f.complete + 2)
    BY <1>1, <1>3 DEF Window, Builds
  <2>6. \A j \in 1 .. Len(f.out) : IsI(f.out[j]) => Pos(f.out[j].piece) < Built(f)
    <3> SUFFICES ASSUME NEW j \in 1 .. Len(e.out), IsI(e.out[j])
                 PROVE  Pos(e.out[j].piece) < Built(f)
      BY <1>1
    <3>1. Pos(e.out[j].piece) < Built(e)
      BY <1>1 DEF Window
    <3>2. Pos(e.out[j].piece) \in Nat
      BY <1>1, PiecePos DEF Frames, Carries
    <3> QED BY <1>3, <1>4, <3>1, <3>2
  <2> QED BY <1>3, <2>1, <2>2, <2>3, <2>4, <2>5, <2>6 DEF Local, Window
<1>9. ASSUME MaxBusy = 0 PROVE Joint(f, g)
  <2>1. Ahead(e, f)
    <3>1. Built(e) <= Built(f)
      BY <1>3, <1>4
    <3>2. e.wrote \in Nat
      BY <1>1, CcbFields
    <3> QED BY <1>1, <1>3, <3>1, <3>2 DEF Ahead, Builds
  <2> QED BY <1>1, <1>8, <1>9, <2>1, AheadJoint DEF Fits
<1>10. Onward(e, f) /\ SameRecv(e, f)
  <2>1. Len(e.rcvd) \in Nat /\ e.complete \in Nat
    BY <1>1, CcbQueues, CcbFields
  <2> QED BY <1>1, <2>1 DEF Onward, Builds, SameRecv
<1>11. Goes(d, e, f, g)
  BY <1>8, <1>9, <1>10 DEF Goes, Fits
<1> QED BY <1>7, <1>11 DEF b

(* The control block goes. *)
LEMMA ClosedGoes ==
  ASSUME NEW d, NEW e, NEW g, NEW why \in Causes, Fits(d, e, g),
         MaxBusy = 0 => why \in {"peer", "tries"}
  PROVE  Goes(d, e, Closed(e, why), g)
<1> DEFINE f == Closed(e, why)
<1>1. e \in Ccb /\ g \in Ccb /\ Local(d, e) /\ Typed(d, e)
  BY FitsCcb DEF Fits, Local
<1>2. /\ f.open = FALSE /\ f.out = e.out /\ f.wrote = e.wrote /\ f.rcvd = e.rcvd
      /\ f.complete = e.complete /\ f.cause = why
      /\ f.waiting_for_ack_q = <<>> /\ f.srej_rcv_hold_q = <<>> /\ f.srej_sent = FALSE
  BY DEF Closed, InitCcb
<1>3. f \in Ccb
  <2>1. /\ e.out \in Seq(Frame) /\ e.wrote \in Nat /\ e.rcvd \in Seq(Seq(Piece))
        /\ e.complete \in Nat
    BY <1>1, CcbQueues, CcbFields
  <2>2. 0 \in Seqs
    BY ErtmAssumption DEF Seqs
  <2>3. /\ <<>> \in Seq(Buffer) /\ <<>> \in Seq(IFrame) /\ <<>> \in Seq(Nat) /\ <<>> \in Seq(Piece)
        /\ <<>> \in Seq(Frame) /\ <<>> \in Seq(Seq(Piece))
    BY EmptySeq
  <2>4. "none" \in Causes /\ "off" \in Timers
    BY DEF Causes, Timers
  <2>5. InitCcb \in Ccb
    BY <2>2, <2>3, <2>4 DEF InitCcb, Ccb
  <2> HIDE DEF InitCcb
  <2> QED BY <2>1, <2>5 DEF Closed, Ccb
<1> HIDE DEF f
<1>4. Local(d, f)
  BY <1>1, <1>2, <1>3 DEF Local, Typed, Frames
<1>5. /\ Len(e.rcvd) \in Nat /\ e.complete \in Nat /\ e.open \in BOOLEAN
  BY <1>1, CcbQueues, CcbFields
<1>6. Onward(e, f)
  BY <1>2, <1>5 DEF Onward
<1>7. ASSUME MaxBusy = 0 PROVE Joint(f, g)
  <2>1. Joint(e, g) /\ why \in {"peer", "tries"} /\ Local(Peer(d), g)
    BY <1>7 DEF Fits
  <2>2. Taken(e) \in Nat /\ Taken(f) \in Nat /\ Taken(e) <= Taken(f)
    <3>1. /\ Taken(e) \in Nat /\ Taken(f) \in Nat
          /\ Off(Len(e.rcvd) + 1) \in Nat /\ Off(Len(e.rcvd) + 2) \in Nat
          /\ Pieces(Len(e.rcvd) + 1) \in Nat
          /\ Off(Len(e.rcvd) + 2) = Off(Len(e.rcvd) + 1) + Pieces(Len(e.rcvd) + 1)
      BY <1>1, <1>3, TakenNat
    <3>2. Taken(f) = Off(Len(e.rcvd) + 2) - 1
      BY <1>2 DEF Taken
    <3>3. CASE e.open
      <4>1. Taken(e) = Off(Len(e.rcvd) + 1) + Len(e.rx_sdu)
        BY <3>3 DEF Taken
      <4>2. Len(e.rx_sdu) < Pieces(Len(e.rcvd) + 1) /\ Len(e.rx_sdu) \in Nat
        BY <1>1, <2>1, <3>3, CcbQueues DEF Joint, Gathers
      <4> HIDE DEF f
      <4> QED BY <3>1, <3>2, <4>1, <4>2
    <3>4. CASE ~e.open
      <4>1. Taken(e) = Off(Len(e.rcvd) + 2) - 1
        BY <3>4 DEF Taken
      <4> QED BY <3>1, <3>2, <4>1
    <3> QED BY <1>5, <3>3, <3>4
  <2>3. Gathers(f)
    BY <1>2, <2>1 DEF Joint, Gathers
  <2>4. Pair(f, g)
    <3>1. Pair(e, g)
      BY <2>1 DEF Joint
    <3>2. ASSUME g.open PROVE Arrives(f, g)
      <4>1. Arrives(e, g)
        BY <3>1, <3>2 DEF Pair
      <4>2. /\ Heard(g) \in Nat /\ Built(g) \in Nat
        BY <2>1, <3>2, BuiltNat
      <4>3. /\ Acknowledged(e, g) \in Int /\ Acknowledged(f, g) \in Int
            /\ Acknowledged(e, g) <= Acknowledged(f, g)
        BY <2>2, <4>2 DEF Acknowledged
      <4>4. AcksFit(f.out, Heard(g), Acknowledged(f, g))
        BY <1>2, <4>1, <4>2, <4>3, AcksMore DEF Arrives
      <4> QED BY <1>2, <4>1, <4>4 DEF Arrives
    <3> QED BY <1>2, <3>1, <3>2 DEF Pair
  <2>5. Pair(g, f)
    <3>1. Pair(g, e)
      BY <2>1 DEF Joint
    <3>2. g.open => Heard(g) <= Taken(f)
      <4> SUFFICES ASSUME g.open PROVE Heard(g) <= Taken(f)
        OBVIOUS
      <4>1. Heard(g) \in Nat /\ Heard(g) <= Taken(e)
        BY <2>1, <3>1, BuiltNat DEF Pair
      <4> QED BY <2>2, <4>1
    <3> QED BY <1>2, <3>1, <3>2 DEF Pair
  <2> QED BY <2>1, <2>3, <2>4, <2>5 DEF Joint
<1>8. Goes(d, e, f, g)
  BY <1>2, <1>4, <1>6, <1>7 DEF Goes, Fits
<1> QED BY <1>8 DEF f

-----------------------------------------------------------------------------
(* Timers and frames *)

(* Nothing changes but fields the invariant only types. *)
Quiet(e, f) ==
  /\ f \in Ccb /\ SameSend(e, f) /\ SameRecv(e, f) /\ f.retrans_q = e.retrans_q
  /\ f.open = e.open /\ f.cause = e.cause /\ f.out = e.out

LEMMA QuietChain ==
  ASSUME NEW e, NEW f, NEW h, Quiet(e, f), Quiet(f, h)
  PROVE  Quiet(e, h)
BY DEF Quiet, SameSend, SameRecv

LEMMA QuietCalm ==
  ASSUME NEW d, NEW e, NEW f, Local(d, e), Quiet(e, f)
  PROVE  Calm(e, f)
<1>1. f.open => Resends(e)
  BY DEF Quiet, Local, Window
<1>2. SameSend(e, f) /\ Built(f) = Built(e) /\ f.wrote = e.wrote /\ f.retrans_q = e.retrans_q
  BY SameViews DEF Quiet, SameSend
<1>3. f.open => Resends(f)
  BY <1>1, <1>2 DEF Resends, Recent
<1> QED BY <1>3 DEF Calm, Quiet

LEMMA QuietSteps ==
  ASSUME NEW d, NEW e, NEW f, NEW g, Fits(d, e, g), Quiet(e, f)
  PROVE  Goes(d, e, f, g)
<1>1. Calm(e, f) /\ f \in Ccb /\ f.out = e.out
  BY QuietCalm DEF Fits, Quiet
<1> QED BY <1>1, QuietGoes

LEMMA TimersQuiet ==
  ASSUME NEW e \in Ccb
  PROVE  /\ Quiet(e, l2c_fcr_start_timer(e))
         /\ Quiet(e, l2c_fcr_stop_timer(e))
         /\ Quiet(e, StopAckTimer(e))
         /\ Quiet(e, Acked(e))
<1>1. "off" \in Timers /\ "ticking" \in Timers /\ e.next_seq_expected \in Seqs
  BY CcbFields DEF Timers
<1>2. Quiet(e, l2c_fcr_start_timer(e))
  <2> DEFINE h == [e EXCEPT !.timer = "ticking"]
  <2>1. h \in Ccb
    BY <1>1 DEF Ccb
  <2>2. Quiet(e, h)
    BY <2>1 DEF Ccb, Quiet, SameSend, SameRecv
  <2>3. Quiet(e, e)
    BY DEF Quiet, SameSend, SameRecv
  <2>4. l2c_fcr_start_timer(e) \in {e, h}
    BY DEF l2c_fcr_start_timer
  <2> HIDE DEF h
  <2> QED BY <2>2, <2>3, <2>4
<1>3. Quiet(e, l2c_fcr_stop_timer(e))
  <2>1. l2c_fcr_stop_timer(e) \in Ccb
    BY <1>1 DEF l2c_fcr_stop_timer, Ccb
  <2> QED BY <2>1 DEF l2c_fcr_stop_timer, Ccb, Quiet, SameSend, SameRecv
<1>4. \A h \in Ccb : Quiet(h, StopAckTimer(h))
  <2> SUFFICES ASSUME NEW h \in Ccb PROVE Quiet(h, StopAckTimer(h))
    OBVIOUS
  <2>1. StopAckTimer(h) \in Ccb
    BY <1>1 DEF StopAckTimer, Ccb
  <2> QED BY <2>1 DEF StopAckTimer, Ccb, Quiet, SameSend, SameRecv
<1>5. Quiet(e, Acked(e))
  <2> DEFINE h == [e EXCEPT !.last_ack_sent = e.next_seq_expected]
  <2>1. h \in Ccb
    BY <1>1 DEF Ccb
  <2>2. Quiet(e, h)
    BY <2>1 DEF Ccb, Quiet, SameSend, SameRecv
  <2>3. Acked(e) = StopAckTimer(h)
    BY DEF Acked
  <2> HIDE DEF h
  <2> QED BY <1>4, <2>1, <2>2, <2>3, QuietChain
<1> QED BY <1>2, <1>3, <1>4, <1>5

LEMMA AppendOut ==
  ASSUME NEW e \in Ccb, NEW x \in Frame
  PROVE  Append(e.out, x) \in Seq(Frame)
BY CcbQueues, AppendProperties

(* prepare_I_frame, for a buffer that may go. *)
LEMMA PrepareGoes ==
  ASSUME NEW d, NEW e, NEW g, Fits(d, e, g), e.open, NEW b \in Buffer, Recent(b, e)
  PROVE  Goes(d, e, prepare_I_frame(e, b.seq, b.piece), g)
<1> DEFINE x == [k |-> "I", seq |-> b.seq, piece |-> b.piece, p |-> FALSE,
                 f |-> e.send_f_rsp, req |-> e.next_seq_expected]
           h == [e EXCEPT !.out = Append(@, x), !.send_f_rsp = FALSE]
<1>1. e \in Ccb /\ Local(d, e)
  BY FitsCcb DEF Fits
<1>2. x \in IFrame /\ x \in Frame
  BY <1>1, CcbFields DEF IFrame, Frame, Buffer
<1>3. /\ x.k = "I" /\ x.req = e.next_seq_expected /\ x.p = FALSE
      /\ x.piece = b.piece /\ x.seq = b.seq
  OBVIOUS
<1>4. prepare_I_frame(e, b.seq, b.piece) = l2c_fcr_start_timer(Acked(h))
  BY DEF prepare_I_frame
<1> HIDE DEF x
<1>5. h \in Ccb
  BY <1>1, <1>2, AppendOut DEF Ccb
<1>6. Says(e, h, x)
  <2>1. /\ SameSend(e, h) /\ SameRecv(e, h) /\ h.open = e.open /\ h.cause = e.cause
        /\ h.retrans_q = e.retrans_q /\ h.out = Append(e.out, x)
    BY <1>1 DEF Ccb, SameSend, SameRecv
  <2>2. h.open => Resends(h)
    BY <1>1, <2>1, SameViews DEF Resends, Recent, SameSend, Local, Window
  <2>3. Recent(x, e)
    BY <1>3 DEF Recent, Carries
  <2> HIDE DEF h
  <2> QED BY <1>2, <1>3, <2>1, <2>2, <2>3 DEF Says, Calm
<1> HIDE DEF h
<1>7. Goes(d, e, h, g) /\ Fits(d, h, g)
  BY <1>5, <1>6, SaysGoes DEF Goes
<1>8. Goes(d, h, Acked(h), g) /\ Fits(d, Acked(h), g) /\ Acked(h) \in Ccb
  BY <1>5, <1>7, TimersQuiet, QuietSteps DEF Goes, Quiet
<1>9. Goes(d, Acked(h), l2c_fcr_start_timer(Acked(h)), g)
  BY <1>8, TimersQuiet, QuietSteps
<1> QED BY <1>4, <1>7, <1>8, <1>9, GoesOn

(* A frame is sent again, or built and sent. *)
LEMMA SegGoes ==
  ASSUME NEW d \in Ends, NEW e, NEW g, Fits(d, e, g), Sendable(e)
  PROVE  Goes(d, e, l2c_fcr_get_next_xmit_sdu_seg(e), g)
<1>1. e \in Ccb /\ Local(d, e) /\ e.open /\ Window(e)
  BY FitsCcb DEF Fits, Sendable, Local
<1>2. CASE e.retrans_q # <<>>
  <2> DEFINE b == Head(e.retrans_q)
             h == [e EXCEPT !.retrans_q = Tail(@)]
  <2>1. /\ b \in Buffer /\ Tail(e.retrans_q) \in Seq(Buffer)
        /\ Len(Tail(e.retrans_q)) = Len(e.retrans_q) - 1
        /\ \A i \in 1 .. Len(Tail(e.retrans_q)) : Tail(e.retrans_q)[i] = e.retrans_q[i + 1]
        /\ Len(e.retrans_q) \in Nat \ {0} /\ b = e.retrans_q[1]
    BY <1>1, <1>2, CcbQueues, HeadTailProperties, EmptySeq
  <2>2. Recent(b, e)
    BY <1>1, <2>1 DEF Window, Resends
  <2>3. h \in Ccb
    BY <1>1, <2>1 DEF Ccb
  <2>4. /\ SameSend(e, h) /\ SameRecv(e, h) /\ h.open = e.open /\ h.cause = e.cause
        /\ h.out = e.out /\ h.retrans_q = Tail(e.retrans_q)
    BY <1>1 DEF Ccb, SameSend, SameRecv
  <2>5. l2c_fcr_get_next_xmit_sdu_seg(e) = prepare_I_frame(h, b.seq, b.piece)
    BY <1>2 DEF l2c_fcr_get_next_xmit_sdu_seg
  <2> HIDE DEF h, b
  <2>6. Built(h) = Built(e) /\ h.wrote = e.wrote
    BY <2>4, SameViews DEF SameSend
  <2>7. Recent(b, h)
    BY <2>2, <2>6 DEF Recent
  <2>8. Resends(h)
    <3> SUFFICES ASSUME NEW i \in 1 .. Len(h.retrans_q) PROVE Recent(h.retrans_q[i], h)
      BY DEF Resends
    <3>1. i + 1 \in 1 .. Len(e.retrans_q) /\ h.retrans_q[i] = e.retrans_q[i + 1]
      BY <2>1, <2>4
    <3>2. Recent(e.retrans_q[i + 1], e)
      BY <1>1, <3>1 DEF Window, Resends
    <3> QED BY <2>6, <3>1, <3>2 DEF Recent
  <2>9. Goes(d, e, h, g)
    <3>1. Calm(e, h)
      BY <2>4, <2>8 DEF Calm
    <3> QED BY <2>3, <2>4, <3>1, QuietGoes
  <2>10. Goes(d, h, prepare_I_frame(h, b.seq, b.piece), g)
    BY <1>1, <2>1, <2>4, <2>7, <2>9, PrepareGoes DEF Goes
  <2> QED BY <2>5, <2>9, <2>10, GoesOn
<1>3. CASE e.retrans_q = <<>>
  <2> DEFINE b == [seq |-> e.next_tx_seq, piece |-> NextPiece(e)]
             h == [e EXCEPT !.xmit_hold_q = IF LastPiece(e) THEN Tail(@) ELSE @,
                            !.segmented = IF LastPiece(e) THEN 0 ELSE @ + 1,
                            !.next_tx_seq = NextSeq(@),
                            !.waiting_for_ack_q = Append(@, b)]
  <2>1. /\ e.xmit_hold_q # <<>> /\ Len(e.waiting_for_ack_q) < TxWin
    <3>1. ~(Len(e.waiting_for_ack_q) >= TxWin) /\ e.xmit_hold_q # <<>>
      BY <1>3 DEF Sendable, l2c_fcr_is_flow_controlled
    <3>2. Len(e.waiting_for_ack_q) \in Nat /\ TxWin \in Nat
      BY <1>1, CcbQueues, ErtmAssumption
    <3> QED BY <3>1, <3>2
  <2>2. b \in Buffer /\ Append(e.waiting_for_ack_q, b) \in Seq(Buffer)
    <3>1. b \in Buffer
      BY <1>1, <2>1, CcbFields, NextPieceIs DEF Buffer, IsPiece
    <3> HIDE DEF b
    <3> QED BY <1>1, <3>1, CcbQueues, AppendProperties
  <2>3. b.seq = e.next_tx_seq /\ b.piece = NextPiece(e)
    OBVIOUS
  <2>4. l2c_fcr_get_next_xmit_sdu_seg(e) = prepare_I_frame(h, b.seq, b.piece)
    BY <1>3 DEF l2c_fcr_get_next_xmit_sdu_seg, NextPiece, LastPiece
  <2>5. h \in Ccb
    <3>1. Tail(e.xmit_hold_q) \in Seq(Nat) /\ e.xmit_hold_q \in Seq(Nat) /\ e.segmented \in Nat
      BY <1>1, <2>1, CcbQueues, CcbFields, HeadTailProperties
    <3>2. NextSeq(e.next_tx_seq) \in Seqs
      BY <1>1, CcbFields, SeqsNat
    <3>3. \A q \in Seq(Nat), n \in Nat, s \in Seqs, w \in Seq(Buffer) :
            [e EXCEPT !.xmit_hold_q = q, !.segmented = n, !.next_tx_seq = s,
                      !.waiting_for_ack_q = w] \in Ccb
      BY <1>1 DEF Ccb
    <3>4. /\ (IF LastPiece(e) THEN Tail(e.xmit_hold_q) ELSE e.xmit_hold_q) \in Seq(Nat)
          /\ (IF LastPiece(e) THEN 0 ELSE e.segmented + 1) \in Nat
      BY <3>1
    <3> HIDE DEF b
    <3> QED BY <2>2, <3>2, <3>3, <3>4
  <2>6. Builds(e, h)
    <3>1. /\ h.xmit_hold_q = IF LastPiece(e) THEN Tail(e.xmit_hold_q) ELSE e.xmit_hold_q
          /\ h.segmented = IF LastPiece(e) THEN 0 ELSE e.segmented + 1
          /\ h.next_tx_seq = NextSeq(e.next_tx_seq)
          /\ h.waiting_for_ack_q = Append(e.waiting_for_ack_q, b)
          /\ h.retrans_q = e.retrans_q
      BY <1>1 DEF Ccb
    <3>2. /\ SameRecv(e, h) /\ h.open = e.open /\ h.cause = e.cause /\ h.out = e.out
          /\ h.wrote = e.wrote /\ h.complete = e.complete /\ h.last_rx_ack = e.last_rx_ack
      BY <1>1 DEF Ccb, SameRecv
    <3> HIDE DEF h
    <3> QED BY <1>1, <1>3, <2>1, <3>1, <3>2 DEF Builds
  <2> HIDE DEF h
  <2>7. Goes(d, e, h, g) /\ Recent(b, h) /\ Fits(d, h, g) /\ h.open
    BY <1>1, <2>5, <2>6, BuildsGoes DEF Goes, Builds
  <2> HIDE DEF b
  <2>8. Goes(d, h, prepare_I_frame(h, b.seq, b.piece), g)
    BY <2>2, <2>7, PrepareGoes
  <2> QED BY <2>4, <2>7, <2>8, GoesOn
<1> QED BY <1>2, <1>3

LEMMA SendIfAnyGoes ==
  ASSUME NEW d \in Ends, NEW e, NEW g, Fits(d, e, g)
  PROVE  Goes(d, e, SendIfAny(e), g)
BY SegGoes, GoesSelf DEF SendIfAny

-----------------------------------------------------------------------------
(* The two loops *)

(* One round: a frame is sent if there is one, or a held one is received.  *)
Round(loop, e, f) == IF loop = "send" THEN SendIfAny(e) ELSE ProcessOneHeld(e, f)

(* r[i] is the end after round i; a round that sends makes no use of q.    *)
Rounds(loop, e, q, n, r) ==
  r = [i \in 0 .. n |-> IF i = 0 THEN e ELSE Round(loop, r[i - 1], q[i])]

LEMMA RoundsExist ==
  ASSUME NEW loop, NEW e, NEW q, NEW n \in Nat
  PROVE  \E r : Rounds(loop, e, q, n, r)
<1> DEFINE T == {k \in 0 .. n : \E r : Rounds(loop, e, q, k, r)}
<1>1. 0 \in T
  <2>1. Rounds(loop, e, q, 0, [i \in 0 .. 0 |-> e])
    BY DEF Rounds
  <2>2. 0 \in 0 .. n
    OBVIOUS
  <2> QED BY <2>1, <2>2
<1>2. ASSUME NEW k \in 1 .. n, k - 1 \in T PROVE k \in T
  <2>1. PICK r : Rounds(loop, e, q, k - 1, r)
    BY <1>2
  <2> DEFINE s == [i \in 0 .. k |-> IF i = k THEN Round(loop, r[k - 1], q[k]) ELSE r[i]]
  <2>2. \A i \in 0 .. k : s[i] = IF i = 0 THEN e ELSE Round(loop, s[i - 1], q[i])
    <3> SUFFICES ASSUME NEW i \in 0 .. k
                 PROVE  s[i] = IF i = 0 THEN e ELSE Round(loop, s[i - 1], q[i])
      OBVIOUS
    <3>1. CASE i = k
      <4>1. s[i] = Round(loop, r[k - 1], q[k]) /\ s[i - 1] = r[k - 1] /\ i # 0
        BY <3>1
      <4> QED BY <3>1, <4>1
    <3>2. CASE i # k
      <4>1. i \in 0 .. (k - 1) /\ (i # 0 => i - 1 \in 0 .. k /\ i - 1 # k)
        BY <3>2
      <4>2. s[i] = r[i] /\ (i # 0 => s[i - 1] = r[i - 1])
        BY <3>2, <4>1
      <4>3. r[i] = IF i = 0 THEN e ELSE Round(loop, r[i - 1], q[i])
        BY <2>1, <4>1 DEF Rounds
      <4> QED BY <4>2, <4>3
    <3> QED BY <3>1, <3>2
  <2>3. Rounds(loop, e, q, k, s)
    <3>1. s = [i \in 0 .. k |-> s[i]]
      OBVIOUS
    <3>2. s = [i \in 0 .. k |-> IF i = 0 THEN e ELSE Round(loop, s[i - 1], q[i])]
      BY <2>2, <3>1
    <3> HIDE DEF s
    <3> QED BY <3>2 DEF Rounds
  <2>4. k \in 0 .. n
    OBVIOUS
  <2> HIDE DEF s
  <2> QED BY <2>3, <2>4
<1>3. n \in T
  <2>1. \A k \in 1 .. n : k - 1 \in T => k \in T
    BY <1>2
  <2> HIDE DEF T
  <2> QED BY <1>1, <2>1, AfterRounds
<1> QED BY <1>3

LEMMA RoundsAre ==
  ASSUME NEW loop, NEW e, NEW q, NEW n \in Nat, NEW r, Rounds(loop, e, q, n, r)
  PROVE  /\ r[0] = e
         /\ \A i \in 1 .. n : r[i] = Round(loop, r[i - 1], q[i])
<1>1. 0 \in 0 .. n /\ \A i \in 1 .. n : i \in 0 .. n /\ i # 0
  OBVIOUS
<1> QED BY <1>1 DEF Rounds

LEMMA SendRounds ==
  ASSUME NEW e
  PROVE  \E r : /\ Rounds("send", e, e.retrans_q, Quota, r)
                /\ l2c_link_check_send_pkts(e) = r[Quota]
<1> DEFINE Run(r) == r = [i \in 0 .. Quota |-> IF i = 0 THEN e ELSE SendIfAny(r[i - 1])]
<1>1. \A r : Rounds("send", e, e.retrans_q, Quota, r) <=> Run(r)
  BY DEF Rounds, Round
<1>2. \E r : Run(r)
  BY <1>1, RoundsExist, ErtmAssumption
<1>3. \E r : Run(r) /\ l2c_link_check_send_pkts(e) = r[Quota]
  BY Zenon, <1>2 DEF l2c_link_check_send_pkts
<1> QED BY <1>1, <1>3

LEMMA HeldRounds ==
  ASSUME NEW e, Len(e.srej_rcv_hold_q) \in Nat
  PROVE  \E r : /\ Rounds("held", [e EXCEPT !.srej_rcv_hold_q = <<>>], e.srej_rcv_hold_q,
                          Len(e.srej_rcv_hold_q), r)
                /\ ProcessHeld(e) =
                     IF e.open /\ ~e.local_busy /\ ~e.srej_sent /\ e.srej_rcv_hold_q # <<>>
                     THEN AcknowledgeHeld(r[Len(e.srej_rcv_hold_q)]) ELSE e
<1> DEFINE Run(r) ==
      r = [i \in 0 .. Len(e.srej_rcv_hold_q) |->
             IF i = 0 THEN [e EXCEPT !.srej_rcv_hold_q = <<>>]
             ELSE ProcessOneHeld(r[i - 1], e.srej_rcv_hold_q[i])]
<1>1. \A r : Rounds("held", [e EXCEPT !.srej_rcv_hold_q = <<>>], e.srej_rcv_hold_q,
                   Len(e.srej_rcv_hold_q), r) <=> Run(r)
  BY DEF Rounds, Round
<1>2. \E r : Run(r)
  BY <1>1, RoundsExist
<1>3. \E r : /\ Run(r)
             /\ ProcessHeld(e) =
                  IF e.open /\ ~e.local_busy /\ ~e.srej_sent /\ e.srej_rcv_hold_q # <<>>
                  THEN AcknowledgeHeld(r[Len(e.srej_rcv_hold_q)]) ELSE e
  BY Zenon, <1>2 DEF ProcessHeld
<1> QED BY <1>1, <1>3

LEMMA CheckSendGoes ==
  ASSUME NEW d \in Ends, NEW e, NEW g, Fits(d, e, g)
  PROVE  Goes(d, e, l2c_link_check_send_pkts(e), g)
<1>1. Quota \in Nat
  BY ErtmAssumption
<1>2. PICK r : Rounds("send", e, e.retrans_q, Quota, r) /\ l2c_link_check_send_pkts(e) = r[Quota]
  BY SendRounds
<1>3. r[0] = e /\ \A i \in 1 .. Quota : r[i] = SendIfAny(r[i - 1])
  <2> DEFINE q == e.retrans_q
  <2>1. Rounds("send", e, q, Quota, r)
    BY <1>2
  <2> HIDE DEF q
  <2>2. r[0] = e /\ \A i \in 1 .. Quota : r[i] = Round("send", r[i - 1], q[i])
    BY <1>1, <2>1, RoundsAre
  <2> QED BY <2>2 DEF Round
<1> DEFINE T == {i \in 0 .. Quota : Goes(d, e, r[i], g)}
<1>4. 0 \in T
  BY <1>1, <1>3, GoesSelf
<1>5. ASSUME NEW i \in 1 .. Quota, i - 1 \in T PROVE i \in T
  <2>1. Goes(d, e, r[i - 1], g) /\ Fits(d, r[i - 1], g)
    BY <1>5 DEF Goes
  <2>2. Goes(d, r[i - 1], r[i], g)
    BY <1>3, <2>1, SendIfAnyGoes
  <2> QED BY <1>1, <2>1, <2>2, GoesOn
<1>6. Quota \in T
  <2>1. \A i \in 1 .. Quota : i - 1 \in T => i \in T
    BY <1>5
  <2> HIDE DEF T
  <2> QED BY <1>1, <1>4, <2>1, AfterRounds
<1> QED BY <1>2, <1>6

-----------------------------------------------------------------------------
(* The sending operators keep the invariant *)

LEMMA SFrameGoes ==
  ASSUME NEW d \in Ends, NEW e, NEW g, Fits(d, e, g),
         NEW type \in {"RR", "RNR", "REJ", "SREJ"}, NEW pf \in {"P", "F", "0"}
  PROVE  Goes(d, e, l2c_fcr_send_S_frame(e, type, pf), g)
<1> DEFINE polled == IF pf = "P"
                     THEN l2c_fcr_start_timer(l2c_fcr_stop_timer([e EXCEPT !.wait_ack = TRUE]))
                     ELSE e
           x == [k |-> type, req |-> e.next_seq_expected, p |-> pf = "P", f |-> pf = "F"]
           h == [polled EXCEPT !.out = Append(@, x)]
<1>1. e \in Ccb /\ Local(d, e)
  BY FitsCcb DEF Fits
<1>2. CASE ~e.open
  BY <1>2, GoesSelf DEF l2c_fcr_send_S_frame
<1>3. CASE e.open
  <2>1. l2c_fcr_send_S_frame(e, type, pf) = Acked(l2c_link_check_send_pkts(h))
    BY <1>3 DEF l2c_fcr_send_S_frame
  <2>2. Quiet(e, polled)
    <3> DEFINE w == [e EXCEPT !.wait_ack = TRUE]
    <3>1. w \in Ccb
      BY <1>1 DEF Ccb
    <3>2. Quiet(e, w)
      BY <1>1, <3>1 DEF Ccb, Quiet, SameSend, SameRecv
    <3>3. Quiet(e, e)
      BY <1>1 DEF Quiet, SameSend, SameRecv
    <3> DEFINE s == l2c_fcr_stop_timer(w)
    <3>4. polled \in {e, l2c_fcr_start_timer(s)}
      OBVIOUS
    <3> HIDE DEF w, s, polled
    <3>5. Quiet(w, s) /\ s \in Ccb
      BY <3>1, TimersQuiet DEF s, Quiet
    <3>6. Quiet(s, l2c_fcr_start_timer(s))
      BY <3>5, TimersQuiet
    <3> QED BY <3>2, <3>3, <3>4, <3>5, <3>6, QuietChain
  <2>3. x \in SFrame /\ x \in Frame
    BY <1>1, CcbFields DEF SFrame, Frame
  <2>4. /\ ~(x.p /\ x.f) /\ x.req = e.next_seq_expected
        /\ x.k # "DISC" /\ x.k # "I"
    OBVIOUS
  <2> HIDE DEF x, polled
  <2>5. polled \in Ccb /\ Goes(d, e, polled, g) /\ Fits(d, polled, g) /\ Local(d, polled)
        /\ polled.open /\ polled.next_seq_expected = e.next_seq_expected
    BY <1>3, <2>2, QuietSteps DEF Quiet, Goes, Fits, SameRecv
  <2>6. h \in Ccb
    BY <2>3, <2>5, AppendOut DEF Ccb
  <2>7. Says(polled, h, x)
    <3>1. /\ SameSend(polled, h) /\ SameRecv(polled, h) /\ h.open = polled.open
          /\ h.cause = polled.cause /\ h.retrans_q = polled.retrans_q
          /\ h.out = Append(polled.out, x)
      BY <2>5 DEF Ccb, SameSend, SameRecv
    <3>2. h.open => Resends(h)
      BY <2>5, <3>1, SameViews DEF Resends, Recent, SameSend, Local, Window
    <3> HIDE DEF h
    <3> QED BY <2>3, <2>4, <2>5, <3>1, <3>2 DEF Says, Calm, IsI
  <2> HIDE DEF h
  <2>8. Goes(d, polled, h, g) /\ Fits(d, h, g)
    BY <2>5, <2>6, <2>7, SaysGoes DEF Goes
  <2> DEFINE c == l2c_link_check_send_pkts(h)
  <2>9. Goes(d, h, c, g) /\ Fits(d, c, g) /\ c \in Ccb
    BY <2>8, CheckSendGoes, FitsCcb DEF Goes
  <2>10. Goes(d, c, Acked(c), g)
    BY <2>9, TimersQuiet, QuietSteps
  <2> HIDE DEF c
  <2>11. Goes(d, e, h, g)
    BY <2>5, <2>8, GoesOn
  <2>12. Goes(d, e, c, g)
    BY <2>9, <2>11, GoesOn
  <2> QED BY <2>1, <2>10, <2>12, GoesOn DEF c
<1> QED BY <1>1, <1>2, <1>3, CcbFields

LEMMA ReadyGoes ==
  ASSUME NEW d \in Ends, NEW e, NEW g, Fits(d, e, g), NEW pf \in {"P", "F", "0"}
  PROVE  Goes(d, e, SendReady(e, pf), g) /\ Goes(d, e, SendFinal(e), g)
<1>1. \A t \in {"P", "F", "0"} : Goes(d, e, SendReady(e, t), g)
  BY SFrameGoes DEF SendReady
<1> QED BY <1>1, SFrameGoes DEF SendFinal

LEMMA DisconnectGoes ==
  ASSUME NEW d \in Ends, NEW e, NEW g, Fits(d, e, g), NEW why \in Causes,
         MaxBusy = 0 => why = "tries"
  PROVE  Goes(d, e, l2cu_disconnect_chnl(e, why), g)
<1> DEFINE x == [k |-> "DISC"]
           h == [e EXCEPT !.out = Append(@, x)]
<1>1. e \in Ccb /\ Local(d, e)
  BY FitsCcb DEF Fits
<1>2. x \in Frame /\ x.k = "DISC"
  BY DEF Frame
<1>3. l2cu_disconnect_chnl(e, why) = Closed(l2c_link_check_send_pkts(h), why)
  BY DEF l2cu_disconnect_chnl
<1> HIDE DEF x
<1>4. h \in Ccb
  BY <1>1, <1>2, AppendOut DEF Ccb
<1>5. Says(e, h, x)
  <2>1. /\ SameSend(e, h) /\ SameRecv(e, h) /\ h.open = e.open
        /\ h.cause = e.cause /\ h.retrans_q = e.retrans_q
        /\ h.out = Append(e.out, x)
    BY <1>1 DEF Ccb, SameSend, SameRecv
  <2>2. h.open => Resends(h)
    BY <1>1, <2>1, SameViews DEF Resends, Recent, SameSend, Local, Window
  <2> HIDE DEF h
  <2> QED BY <1>2, <2>1, <2>2 DEF Says, Calm, IsI
<1> HIDE DEF h
<1>6. Goes(d, e, h, g) /\ Fits(d, h, g)
  BY <1>4, <1>5, SaysGoes DEF Goes
<1> DEFINE c == l2c_link_check_send_pkts(h)
<1>7. Goes(d, h, c, g) /\ Fits(d, c, g)
  BY <1>6, CheckSendGoes DEF Goes
<1> HIDE DEF c
<1>8. Goes(d, c, Closed(c, why), g)
  BY <1>7, ClosedGoes
<1>9. Goes(d, e, c, g)
  BY <1>6, <1>7, GoesOn
<1> QED BY <1>3, <1>8, <1>9, GoesOn DEF c

LEMMA UnackedRecent ==
  ASSUME NEW d, NEW e, Local(d, e), NEW i \in 1 .. Len(e.waiting_for_ack_q)
  PROVE  Recent(e.waiting_for_ack_q[i], e) /\ e.open
<1>1. e.open
  BY EmptySeq DEF Local, Typed
<1>2. /\ Carries(e.waiting_for_ack_q[i], e.wrote)
      /\ Pos(e.waiting_for_ack_q[i].piece) = Heard(e) + i - 1
  BY <1>1 DEF Local, Window, Unacked
<1>3. /\ Heard(e) \in Nat /\ Built(e) = Heard(e) + Len(e.waiting_for_ack_q)
      /\ Built(e) <= Heard(e) + TxWin /\ Built(e) \in Nat
  BY <1>1, BuiltNat
<1>4. Len(e.waiting_for_ack_q) \in Nat /\ TxWin \in Nat
  BY CcbQueues, ErtmAssumption DEF Local, Typed
<1>5. Pos(e.waiting_for_ack_q[i].piece) < Built(e)
  BY <1>2, <1>3, <1>4
<1>6. Built(e) <= Pos(e.waiting_for_ack_q[i].piece) + TxWin
  BY <1>2, <1>3, <1>4
<1> QED BY <1>1, <1>2, <1>5, <1>6 DEF Recent

LEMMA CountTryGoes ==
  ASSUME NEW d, NEW e, NEW g, Fits(d, e, g)
  PROVE  Goes(d, e, CountTry(e), g)
<1> DEFINE h == [e EXCEPT !.num_tries = @ + 1]
<1>1. e \in Ccb
  BY FitsCcb
<1>2. h \in Ccb
  <2>1. e.num_tries + 1 \in Nat
    BY <1>1, CcbFields
  <2> QED BY <1>1, <2>1 DEF Ccb
<1>3. Quiet(e, h)
  BY <1>1, <1>2 DEF Ccb, Quiet, SameSend, SameRecv
<1>4. CountTry(e) = e \/ CountTry(e) = l2c_fcr_start_timer(h)
  BY DEF CountTry
<1> HIDE DEF h
<1>5. Quiet(e, l2c_fcr_start_timer(h))
  BY <1>2, <1>3, TimersQuiet, QuietChain
<1> QED BY <1>4, <1>5, GoesSelf, QuietSteps

LEMMA RetransmitGoes ==
  ASSUME NEW d \in Ends, NEW e, NEW g, Fits(d, e, g), NEW again \in Seq(Buffer),
         \A i \in 1 .. Len(again) : Recent(again[i], e)
  PROVE  Goes(d, e, Retransmit(e, again), g)
<1> DEFINE h == [e EXCEPT !.retrans_q = again]
           c == l2c_link_check_send_pkts(h)
<1>1. e \in Ccb
  BY FitsCcb
<1>2. h \in Ccb
  BY <1>1 DEF Ccb
<1>3. /\ SameSend(e, h) /\ SameRecv(e, h) /\ h.open = e.open
      /\ h.cause = e.cause /\ h.retrans_q = again /\ h.out = e.out
  BY <1>1 DEF Ccb, SameSend, SameRecv
<1>4. Retransmit(e, again) = CountTry(c)
  BY DEF Retransmit
<1> HIDE DEF h
<1>5. Resends(h)
  BY <1>3, SameViews DEF Resends, Recent, SameSend
<1>6. Goes(d, e, h, g) /\ Fits(d, h, g)
  BY <1>2, <1>3, <1>5, QuietGoes DEF Calm, Goes
<1>7. Goes(d, h, c, g) /\ Fits(d, c, g)
  BY <1>6, CheckSendGoes DEF Goes
<1> HIDE DEF c
<1>8. Goes(d, e, c, g) /\ Goes(d, c, CountTry(c), g)
  BY <1>6, <1>7, GoesOn, CountTryGoes
<1> QED BY <1>4, <1>8, GoesOn

LEMMA RetransmitAllGoes ==
  ASSUME NEW d \in Ends, NEW e, NEW g, Fits(d, e, g)
  PROVE  Goes(d, e, RetransmitAll(e), g)
<1>1. e \in Ccb /\ Local(d, e)
  BY FitsCcb DEF Fits
<1>2. e.waiting_for_ack_q \in Seq(Buffer)
  BY <1>1, CcbQueues
<1>3. \A i \in 1 .. Len(e.waiting_for_ack_q) : Recent(e.waiting_for_ack_q[i], e)
  BY <1>1, UnackedRecent
<1>4. Goes(d, e, Retransmit(e, e.waiting_for_ack_q), g)
  BY <1>2, <1>3, RetransmitGoes
<1>5. Goes(d, e, l2cu_disconnect_chnl(e, "tries"), g)
  BY DisconnectGoes DEF Causes
<1> QED BY <1>4, <1>5 DEF RetransmitAll

LEMMA FirstIs ==
  ASSUME NEW n \in Nat, NEW W \in SUBSET (1 .. n)
  PROVE  (IF W # {} THEN Min(W) ELSE 0) \in 0 .. n
<1>1. ASSUME W # {} PROVE \E x \in W : \A y \in W : x <= y
  <2>1. W \subseteq Nat /\ W # {}
    BY <1>1
  <2>2. PICK x \in W : \A y \in W : ~(<<y, x>> \in OpToRel(<, Nat))
    BY <2>1, NatLessThanWellFounded, WFMin
  <2>3. \A y \in W : ~(y < x)
    BY <2>1, <2>2 DEF OpToRel
  <2> QED BY <2>1, <2>3
<1>2. ASSUME W # {} PROVE Min(W) \in W
  BY <1>1, <1>2 DEF Min
<1>3. \A x \in W : x \in 0 .. n
  OBVIOUS
<1>4. 0 \in 0 .. n
  OBVIOUS
<1> QED BY <1>2, <1>3, <1>4

LEMMA RetransmitOneGoes ==
  ASSUME NEW d \in Ends, NEW e, NEW g, Fits(d, e, g), e.open, NEW seq
  PROVE  Goes(d, e, RetransmitOne(e, seq), g)
<1> DEFINE i == SelectInSeq(e.waiting_for_ack_q, LAMBDA b : b.seq = seq)
           again == IF i = 0 THEN e.retrans_q ELSE Append(e.retrans_q, e.waiting_for_ack_q[i])
<1>1. e \in Ccb /\ Local(d, e) /\ Window(e)
  BY FitsCcb DEF Fits, Local
<1>2. /\ e.waiting_for_ack_q \in Seq(Buffer) /\ Len(e.waiting_for_ack_q) \in Nat
      /\ e.retrans_q \in Seq(Buffer) /\ Len(e.retrans_q) \in Nat
  BY <1>1, CcbQueues
<1>3. i \in 0 .. Len(e.waiting_for_ack_q)
  <2> DEFINE W == {j \in 1 .. Len(e.waiting_for_ack_q) : e.waiting_for_ack_q[j].seq = seq}
  <2>1. i = IF W # {} THEN Min(W) ELSE 0
    BY DEF SelectInSeq
  <2>2. W \in SUBSET (1 .. Len(e.waiting_for_ack_q))
    OBVIOUS
  <2> HIDE DEF i, W
  <2> QED BY <1>2, <2>1, <2>2, FirstIs
<1>4. \/ RetransmitOne(e, seq) = l2cu_disconnect_chnl(e, "tries")
      \/ RetransmitOne(e, seq) = e
      \/ RetransmitOne(e, seq) = Retransmit(e, again)
  <2>1. CASE TooManyTries(e)
    BY <2>1 DEF RetransmitOne
  <2>2. CASE ~TooManyTries(e) /\ e.waiting_for_ack_q = <<>>
    BY <2>2 DEF RetransmitOne
  <2>3. CASE ~TooManyTries(e) /\ e.waiting_for_ack_q # <<>>
    BY Zenon, <2>3 DEF RetransmitOne
  <2> QED BY <2>1, <2>2, <2>3
<1> HIDE DEF i
<1>5. \A j \in 1 .. Len(e.retrans_q) : Recent(e.retrans_q[j], e)
  BY <1>1 DEF Window, Resends
<1>6. again \in Seq(Buffer) /\ \A j \in 1 .. Len(again) : Recent(again[j], e)
  <2>1. CASE i = 0
    BY <1>2, <1>5, <2>1
  <2>2. CASE i # 0
    <3> DEFINE b == e.waiting_for_ack_q[i]
    <3>1. i \in 1 .. Len(e.waiting_for_ack_q)
      BY <1>2, <1>3, <2>2
    <3>2. b \in Buffer /\ Recent(b, e)
      BY <1>1, <1>2, <3>1, ElementOfSeq, UnackedRecent
    <3>3. again = Append(e.retrans_q, b)
      BY <2>2
    <3> HIDE DEF again, b
    <3>4. /\ again \in Seq(Buffer) /\ Len(again) = Len(e.retrans_q) + 1
          /\ again[Len(e.retrans_q) + 1] = b
          /\ \A j \in 1 .. Len(e.retrans_q) : again[j] = e.retrans_q[j]
      BY <1>2, <3>2, <3>3, AppendProperties
    <3>5. \A j \in 1 .. Len(again) : j = Len(e.retrans_q) + 1 \/ j \in 1 .. Len(e.retrans_q)
      BY <1>2, <3>4
    <3> QED BY <1>5, <3>2, <3>4, <3>5
  <2> QED BY <2>1, <2>2
<1> HIDE DEF again
<1>7. Goes(d, e, Retransmit(e, again), g)
  BY <1>6, RetransmitGoes
<1>8. Goes(d, e, l2cu_disconnect_chnl(e, "tries"), g)
  BY DisconnectGoes DEF Causes
<1> QED BY <1>4, <1>7, <1>8, GoesSelf

(* Fields the invariant only types. *)
LEMMA FieldsQuiet ==
  ASSUME NEW e \in Ccb, NEW b \in BOOLEAN, NEW t \in Timers, NEW n \in Nat
  PROVE  /\ Quiet(e, e)
         /\ Quiet(e, [e EXCEPT !.remote_busy = b])
         /\ Quiet(e, [e EXCEPT !.send_f_rsp = b])
         /\ Quiet(e, [e EXCEPT !.rej_sent = b])
         /\ Quiet(e, [e EXCEPT !.rej_sent = b, !.send_f_rsp = TRUE])
         /\ Quiet(e, [e EXCEPT !.rej_after_srej = b])
         /\ Quiet(e, [e EXCEPT !.rej_after_srej = b, !.rej_sent = TRUE])
         /\ Quiet(e, [e EXCEPT !.timer_msg = b])
         /\ Quiet(e, [e EXCEPT !.ack_msg = b])
         /\ Quiet(e, [e EXCEPT !.timer = t])
         /\ Quiet(e, [e EXCEPT !.ack = t])
         /\ Quiet(e, [e EXCEPT !.num_tries = n])
         /\ Quiet(e, [e EXCEPT !.wait_ack = b, !.num_tries = n])
<1>1. Quiet(e, e)
  BY DEF Quiet, SameSend, SameRecv
<1>2. Quiet(e, [e EXCEPT !.remote_busy = b])
  BY DEF Ccb, Quiet, SameSend, SameRecv
<1>3. Quiet(e, [e EXCEPT !.send_f_rsp = b])
  BY DEF Ccb, Quiet, SameSend, SameRecv
<1>4. Quiet(e, [e EXCEPT !.rej_sent = b])
  BY DEF Ccb, Quiet, SameSend, SameRecv
<1>5. Quiet(e, [e EXCEPT !.rej_sent = b, !.send_f_rsp = TRUE])
  BY DEF Ccb, Quiet, SameSend, SameRecv
<1>6. Quiet(e, [e EXCEPT !.rej_after_srej = b])
  BY DEF Ccb, Quiet, SameSend, SameRecv
<1>7. Quiet(e, [e EXCEPT !.rej_after_srej = b, !.rej_sent = TRUE])
  BY DEF Ccb, Quiet, SameSend, SameRecv
<1>8. Quiet(e, [e EXCEPT !.timer_msg = b])
  BY DEF Ccb, Quiet, SameSend, SameRecv
<1>9. Quiet(e, [e EXCEPT !.ack_msg = b])
  BY DEF Ccb, Quiet, SameSend, SameRecv
<1>10. Quiet(e, [e EXCEPT !.timer = t])
  BY DEF Ccb, Quiet, SameSend, SameRecv
<1>11. Quiet(e, [e EXCEPT !.ack = t])
  BY DEF Ccb, Quiet, SameSend, SameRecv
<1>12. Quiet(e, [e EXCEPT !.num_tries = n])
  BY DEF Ccb, Quiet, SameSend, SameRecv
<1>13. Quiet(e, [e EXCEPT !.wait_ack = b, !.num_tries = n])
  BY DEF Ccb, Quiet, SameSend, SameRecv
<1> QED BY <1>1, <1>2, <1>3, <1>4, <1>5, <1>6, <1>7, <1>8, <1>9, <1>10, <1>11, <1>12, <1>13

(* A quiet change before or after what goes. *)
LEMMA QuietThen ==
  ASSUME NEW d, NEW e, NEW f, NEW h, NEW g, Fits(d, e, g), Quiet(e, f), Goes(d, f, h, g)
  PROVE  Goes(d, e, h, g)
<1>1. Goes(d, e, f, g)
  BY QuietSteps
<1> QED BY <1>1, GoesOn

LEMMA ThenQuiet ==
  ASSUME NEW d, NEW e, NEW f, NEW h, NEW g, Fits(d, e, g), Goes(d, e, f, g), Quiet(f, h)
  PROVE  Goes(d, e, h, g)
<1>1. Fits(d, f, g)
  BY DEF Goes
<1>2. Goes(d, f, h, g)
  BY <1>1, QuietSteps
<1> QED BY <1>2, GoesOn

LEMMA QuietFits ==
  ASSUME NEW d, NEW e, NEW f, NEW g, Fits(d, e, g), Quiet(e, f)
  PROVE  Fits(d, f, g)
BY QuietSteps DEF Goes

LEMMA SendMoreGoes ==
  ASSUME NEW d \in Ends, NEW e, NEW g, Fits(d, e, g)
  PROVE  Goes(d, e, SendMore(e), g)
BY CheckSendGoes, GoesSelf DEF SendMore

LEMMA AnswerPollGoes ==
  ASSUME NEW d \in Ends, NEW e, NEW g, Fits(d, e, g)
  PROVE  Goes(d, e, AnswerPoll(e), g)
<1>1. \/ AnswerPoll(e) = e
      \/ AnswerPoll(e) = [SendFinal(e) EXCEPT !.send_f_rsp = FALSE]
  BY DEF AnswerPoll
<1> DEFINE h == SendFinal(e)
<1>2. Goes(d, e, h, g)
  BY ReadyGoes
<1>3. h \in Ccb
  BY <1>2, FitsCcb DEF Goes
<1> HIDE DEF h
<1>4. Quiet(h, [h EXCEPT !.send_f_rsp = FALSE])
  BY <1>3, FieldsQuiet DEF Timers
<1>5. Goes(d, e, [h EXCEPT !.send_f_rsp = FALSE], g)
  BY <1>2, <1>4, ThenQuiet
<1> QED BY <1>1, <1>5, GoesSelf DEF h

LEMMA SFrameHandled ==
  ASSUME NEW d \in Ends, NEW e, NEW g, NEW f, Fits(d, e, g), e.open,
         f.k \in {"RR", "RNR", "REJ", "SREJ"}
  PROVE  Goes(d, e, process_s_frame(e, f), g)
<1> DEFINE asked == IF f.p THEN [e EXCEPT !.rej_sent = FALSE, !.send_f_rsp = TRUE] ELSE e
           free == [asked EXCEPT !.remote_busy = FALSE]
           held == [asked EXCEPT !.remote_busy = TRUE]
           again == f.k = "REJ" \/ f.f \/ e.remote_busy
           body == CASE f.k = "RNR" -> l2c_fcr_stop_timer(held)
                     [] f.k = "SREJ" -> RetransmitOne(free, f.req)
                     [] f.k \in {"RR", "REJ"} -> IF again THEN RetransmitAll(free) ELSE free
<1>1. e \in Ccb
  BY FitsCcb
<1>2. process_s_frame(e, f) = AnswerPoll(body)
  BY DEF process_s_frame
<1>3. Quiet(e, asked)
  <2>1. Quiet(e, e) /\ Quiet(e, [e EXCEPT !.rej_sent = FALSE, !.send_f_rsp = TRUE])
    BY <1>1, FieldsQuiet DEF Timers
  <2> QED BY <2>1
<1> HIDE DEF asked
<1>4. Quiet(e, free) /\ Quiet(e, held) /\ held \in Ccb
  <2>1. asked \in Ccb
    BY <1>3 DEF Quiet
  <2>2. Quiet(asked, free) /\ Quiet(asked, held)
    BY <2>1, FieldsQuiet DEF Timers
  <2> HIDE DEF free, held
  <2> QED BY <1>3, <2>2, QuietChain DEF Quiet
<1> HIDE DEF free, held, again
<1>5. Goes(d, e, l2c_fcr_stop_timer(held), g)
  <2>1. Quiet(held, l2c_fcr_stop_timer(held))
    BY <1>4, TimersQuiet
  <2> QED BY <1>4, <2>1, QuietChain, QuietSteps
<1>6. Fits(d, free, g) /\ free.open
  BY <1>4, QuietFits DEF Quiet
<1>7. Goes(d, e, RetransmitOne(free, f.req), g)
  BY <1>4, <1>6, RetransmitOneGoes, QuietThen
<1>8. Goes(d, e, IF again THEN RetransmitAll(free) ELSE free, g)
  <2>1. Goes(d, free, RetransmitAll(free), g)
    BY <1>6, RetransmitAllGoes
  <2>2. Goes(d, e, RetransmitAll(free), g) /\ Goes(d, e, free, g)
    BY <1>4, <2>1, QuietThen, QuietSteps
  <2> QED BY <2>2
<1>9. Goes(d, e, body, g)
  <2> HIDE DEF free
  <2>1. f.k = "RNR" => body = l2c_fcr_stop_timer(held)
    OBVIOUS
  <2>2. f.k = "SREJ" => body = RetransmitOne(free, f.req)
    OBVIOUS
  <2>3. f.k \in {"RR", "REJ"} => body = IF again THEN RetransmitAll(free) ELSE free
    OBVIOUS
  <2> HIDE DEF body
  <2> QED BY <1>5, <1>7, <1>8, <2>1, <2>2, <2>3
<1> HIDE DEF body
<1>10. Fits(d, body, g)
  BY <1>9 DEF Goes
<1>11. Goes(d, body, AnswerPoll(body), g)
  BY <1>10, AnswerPollGoes
<1> QED BY <1>2, <1>9, <1>11, GoesOn

(* Timeouts. *)
LEMMA ToutGoes ==
  ASSUME NEW d \in Ends, NEW e, NEW g, Fits(d, e, g)
  PROVE  Goes(d, e, l2c_fcr_proc_tout(e), g)
<1> DEFINE tries == IF MaxTransmit = 0 THEN e.num_tries ELSE e.num_tries + 1
           counted == [e EXCEPT !.num_tries = tries]
<1>1. e \in Ccb /\ e.num_tries \in Nat
  BY FitsCcb, CcbFields
<1>2. tries \in Nat
  BY <1>1
<1>3. l2c_fcr_proc_tout(e) \in {l2cu_disconnect_chnl(counted, "tries"), SendReady(counted, "P"), counted}
  <2>1. MaxTransmit \in Nat
    BY ErtmAssumption
  <2> QED BY <1>2, <2>1 DEF l2c_fcr_proc_tout
<1> HIDE DEF tries
<1>4. Quiet(e, counted)
  BY <1>1, <1>2, FieldsQuiet DEF Timers
<1> HIDE DEF counted
<1>5. Fits(d, counted, g)
  BY <1>4, QuietFits
<1>6. Goes(d, e, counted, g)
  BY <1>4, QuietSteps
<1>7. Goes(d, e, SendReady(counted, "P"), g)
  BY <1>4, <1>5, ReadyGoes, QuietThen
<1>8. Goes(d, e, l2cu_disconnect_chnl(counted, "tries"), g)
  BY <1>4, <1>5, DisconnectGoes, QuietThen DEF Causes
<1> QED BY <1>3, <1>6, <1>7, <1>8

LEMMA AckToutGoes ==
  ASSUME NEW d \in Ends, NEW e, NEW g, Fits(d, e, g)
  PROVE  Goes(d, e, l2c_fcr_proc_ack_tout(e), g)
BY ReadyGoes, GoesSelf DEF l2c_fcr_proc_ack_tout

-----------------------------------------------------------------------------
(* What a handler of a received frame keeps *)

(* As Goes, for the steps that take a frame. *)
Moves(d, e, f, g) == Fits(d, f, g) /\ Onward(e, f)

(* Between two handlers frames are held only behind a lost one. *)
Rests(e) == e.srej_rcv_hold_q # <<>> => e.srej_sent

LEMMA GoesMoves ==
  ASSUME NEW d, NEW e, NEW f, NEW g, Goes(d, e, f, g)
  PROVE  Moves(d, e, f, g) /\ (Rests(e) => Rests(f))
<1>1. Moves(d, e, f, g)
  BY DEF Goes, Moves
<1>2. CASE f.open
  BY <1>1, <1>2 DEF Goes, SameRecv, Rests
<1>3. CASE ~f.open
  BY <1>1, <1>3 DEF Goes, Fits, Local, Typed, Rests
<1> QED BY <1>1, <1>2, <1>3

LEMMA MovesOn ==
  ASSUME NEW d, NEW e, NEW f, NEW h, NEW g,
         Fits(d, e, g), Moves(d, e, f, g), Moves(d, f, h, g)
  PROVE  Moves(d, e, h, g)
<1>1. e \in Ccb /\ f \in Ccb /\ h \in Ccb
  BY FitsCcb DEF Moves
<1> QED BY <1>1, OnwardChain DEF Moves

(* An I-frame that may reach e from g: what it carries was built, and it   *)
(* is within a window of what e has and of what is still under way.        *)
Before(x, g) == \A j \in 1 .. Len(g.out) : IsI(g.out[j]) => Pos(x) < Pos(g.out[j].piece) + TxWin

Due(x, e, g) ==
  /\ Carries(x, g.wrote) /\ Within(x.piece, e)
  /\ Before(x.piece, g)
  /\ g.open => Pos(x.piece) < Built(g)

(* The acknowledgement a in a frame from g, and those behind it. *)
AckIs(x, a, e, g) ==
  /\ a \in Int /\ Heard(e) <= a /\ a <= Acknowledged(g, e)
  /\ x.req = a % Modulus
  /\ AcksFit(g.out, a, Acknowledged(g, e))

LEMMA EndsPeer ==
  /\ \A d \in Ends : Peer(d) \in Ends /\ Peer(Peer(d)) = d /\ Peer(d) # d
                     /\ \A c \in Ends : c = d \/ c = Peer(d)
BY ErtmAssumption DEF Ends, Peer

LEMMA OutTail ==
  ASSUME NEW g \in Ccb, g.out # <<>>
  PROVE  LET h == [g EXCEPT !.out = Tail(@)] IN
         /\ h \in Ccb /\ SameSend(g, h) /\ SameRecv(g, h) /\ h.retrans_q = g.retrans_q
         /\ h.open = g.open /\ h.cause = g.cause /\ h.out = Tail(g.out)
         /\ Len(g.out) \in Nat \ {0} /\ Len(h.out) = Len(g.out) - 1
         /\ Head(g.out) = g.out[1] /\ Head(g.out) \in Frame
         /\ \A j \in 1 .. Len(h.out) : j + 1 \in 1 .. Len(g.out) /\ h.out[j] = g.out[j + 1]
<1> DEFINE h == [g EXCEPT !.out = Tail(@)]
<1>1. g.out \in Seq(Frame)
  BY CcbQueues
<1>2. /\ Tail(g.out) \in Seq(Frame) /\ Len(g.out) \in Nat \ {0}
      /\ Len(Tail(g.out)) = Len(g.out) - 1
      /\ Head(g.out) = g.out[1] /\ Head(g.out) \in Frame
      /\ \A j \in 1 .. Len(Tail(g.out)) : Tail(g.out)[j] = g.out[j + 1]
  BY <1>1, HeadTailProperties, LenProperties, EmptySeq
<1>3. /\ h \in Ccb /\ SameSend(g, h) /\ SameRecv(g, h) /\ h.retrans_q = g.retrans_q
      /\ h.open = g.open /\ h.cause = g.cause /\ h.out = Tail(g.out)
  BY <1>2 DEF Ccb, SameSend, SameRecv
<1> HIDE DEF h
<1>4. \A j \in 1 .. Len(h.out) : j + 1 \in 1 .. Len(g.out)
  BY <1>2, <1>3
<1> QED BY <1>2, <1>3, <1>4 DEF h

(* The first frame from g is taken, or lost. *)
LEMMA HeadLocal ==
  ASSUME NEW d, NEW g, NEW h, Local(d, g), g.out # <<>>, h = [g EXCEPT !.out = Tail(@)]
  PROVE  Local(d, h)
<1>1. g \in Ccb /\ Typed(d, g)
  BY DEF Local, Typed
<1>2. /\ h \in Ccb /\ SameSend(g, h) /\ SameRecv(g, h) /\ h.retrans_q = g.retrans_q
      /\ h.open = g.open /\ h.cause = g.cause
      /\ \A j \in 1 .. Len(h.out) : j + 1 \in 1 .. Len(g.out) /\ h.out[j] = g.out[j + 1]
  BY <1>1, OutTail
<1>3. Built(h) = Built(g) /\ h.wrote = g.wrote
  BY <1>2, SameViews DEF SameSend
<1>4. Frames(h)
  BY <1>1, <1>2, <1>3 DEF Typed, Frames
<1>5. h.open => Resends(h)
  BY <1>2, <1>3 DEF Local, Window, Resends, Recent
<1>6. Calm(g, h)
  BY <1>2, <1>5 DEF Calm
<1>7. h.open => \A j \in 1 .. Len(h.out) : IsI(h.out[j]) => Pos(h.out[j].piece) < Built(h)
  BY <1>2, <1>3 DEF Local, Window
<1> QED BY <1>2, <1>4, <1>6, <1>7, CalmLocal

LEMMA HeadGoes ==
  ASSUME NEW d \in Ends, NEW e, NEW g, NEW h, Fits(d, e, g), g.out # <<>>,
         h = [g EXCEPT !.out = Tail(@)]
  PROVE  /\ Fits(d, e, h) /\ Head(g.out) \in Frame
         /\ MaxBusy = 0 /\ e.open =>
              /\ IsI(Head(g.out)) => Due(Head(g.out), e, h)
              /\ Head(g.out).k # "DISC" => \E a : AckIs(Head(g.out), a, e, h)
<1> DEFINE x == Head(g.out)
<1>1. /\ e \in Ccb /\ g \in Ccb /\ Local(d, e) /\ Local(Peer(d), g) /\ Local(Peer(d), h)
      /\ Typed(Peer(d), g)
  <2>1. Local(d, e) /\ Local(Peer(d), g)
    BY DEF Fits
  <2>2. Local(Peer(d), h)
    BY <2>1, HeadLocal
  <2> QED BY <2>1, <2>2, FitsCcb DEF Local
<1>2. /\ h \in Ccb /\ SameSend(g, h) /\ SameRecv(g, h) /\ h.retrans_q = g.retrans_q
      /\ h.open = g.open /\ h.cause = g.cause /\ h.out = Tail(g.out)
      /\ Len(g.out) \in Nat \ {0} /\ x = g.out[1] /\ x \in Frame
      /\ \A j \in 1 .. Len(h.out) : j + 1 \in 1 .. Len(g.out) /\ h.out[j] = g.out[j + 1]
  BY <1>1, OutTail
<1> HIDE DEF x
<1>3. /\ Built(h) = Built(g) /\ Heard(h) = Heard(g) /\ h.wrote = g.wrote
      /\ Taken(h) = Taken(g) /\ Reach(h) = Reach(g) /\ g.out \in Seq(Frame)
  BY <1>1, <1>2, SameViews, CcbQueues DEF SameSend
<1>4. Acknowledged(h, e) = Acknowledged(g, e) /\ Acknowledged(e, h) = Acknowledged(e, g)
  BY <1>3 DEF Acknowledged
<1>5. 1 \in 1 .. Len(g.out)
  BY <1>2
<1>6. ASSUME MaxBusy = 0, e.open, IsI(x) PROVE Due(x, e, h)
  <2>1. Arrives(g, e)
    BY <1>6 DEF Fits, Joint, Pair
  <2>2. Carries(x, h.wrote)
    BY <1>1, <1>2, <1>3, <1>5, <1>6 DEF Typed, Frames
  <2>3. Within(x.piece, e)
    BY <1>2, <1>5, <1>6, <2>1 DEF Arrives
  <2>4. Before(x.piece, h)
    <3> SUFFICES ASSUME NEW j \in 1 .. Len(h.out), IsI(h.out[j])
                 PROVE  Pos(x.piece) < Pos(h.out[j].piece) + TxWin
      BY DEF Before
    <3>1. j + 1 \in 1 .. Len(g.out) /\ h.out[j] = g.out[j + 1] /\ 1 \in 1 .. (j + 1)
      BY <1>2
    <3> QED BY <1>2, <1>6, <2>1, <3>1 DEF Arrives
  <2>5. h.open => Pos(x.piece) < Built(h)
    BY <1>1, <1>2, <1>3, <1>5, <1>6 DEF Local, Window
  <2> QED BY <2>2, <2>3, <2>4, <2>5 DEF Due
<1>7. ASSUME MaxBusy = 0, e.open
      PROVE  /\ Arrives(h, e)
             /\ x.k # "DISC" => \E a : AckIs(x, a, e, h)
  <2>1. Arrives(g, e) /\ Joint(g, e) /\ Local(Peer(Peer(d)), e)
    BY <1>1, <1>7, EndsPeer DEF Fits, Joint, Pair
  <2>2. /\ Heard(e) \in Int /\ Acknowledged(g, e) \in Int
    BY <1>1, <1>7, <2>1, AcksRange
  <2>3. AcksFit(g.out, Heard(e), Acknowledged(g, e))
    BY <2>1 DEF Arrives
  <2>4. PICK a \in Heard(e) .. Acknowledged(g, e) :
           /\ x.k # "DISC" => x.req = a % Modulus
           /\ AcksFit(h.out, a, Acknowledged(g, e))
    BY <1>2, <1>3, <2>2, <2>3, AcksTail DEF x
  <2>5. AcksFit(h.out, Heard(e), Acknowledged(h, e))
    BY <1>4, <2>2, <2>4, AcksMore
  <2>6. x.k # "DISC" => AckIs(x, a, e, h)
    BY <1>4, <2>2, <2>4 DEF AckIs
  <2>7. \A j \in 1 .. Len(h.out) : IsI(h.out[j]) =>
          /\ Within(h.out[j].piece, e)
          /\ \A i \in 1 .. j :
               IsI(h.out[i]) => Pos(h.out[i].piece) < Pos(h.out[j].piece) + TxWin
    <3> SUFFICES ASSUME NEW j \in 1 .. Len(h.out), IsI(h.out[j])
                 PROVE  /\ Within(h.out[j].piece, e)
                        /\ \A i \in 1 .. j : IsI(h.out[i]) =>
                             Pos(h.out[i].piece) < Pos(h.out[j].piece) + TxWin
      OBVIOUS
    <3>1. j + 1 \in 1 .. Len(g.out) /\ h.out[j] = g.out[j + 1]
      BY <1>2
    <3>2. \A i \in 1 .. j : i \in 1 .. Len(h.out) /\ i + 1 \in 1 .. (j + 1)
                            /\ h.out[i] = g.out[i + 1]
      <4>1. \A i \in 1 .. j : i \in 1 .. Len(h.out) /\ i + 1 \in 1 .. (j + 1)
        OBVIOUS
      <4> QED BY <1>2, <4>1
    <3> QED BY <2>1, <3>1, <3>2 DEF Arrives
  <2>8. Arrives(h, e)
    BY <2>5, <2>7 DEF Arrives
  <2> QED BY <2>6, <2>8
<1>8. ASSUME MaxBusy = 0 PROVE Joint(e, h)
  <2>1. Joint(e, g)
    BY <1>8 DEF Fits
  <2>2. Gathers(h)
    BY <1>2, <1>3, <2>1 DEF Joint, Gathers, SameRecv
  <2>3. Pair(e, h)
    BY <1>2, <1>3, <1>4, <2>1 DEF Joint, Pair, Arrives, Within, SameRecv
  <2>4. Pair(h, e)
    BY <1>2, <1>3, <1>7, <1>8, <2>1 DEF Joint, Pair, SameSend
  <2> QED BY <2>1, <2>2, <2>3, <2>4 DEF Joint
<1>9. Fits(d, e, h)
  BY <1>1, <1>8 DEF Fits
<1> QED BY <1>2, <1>6, <1>7, <1>9 DEF x

-----------------------------------------------------------------------------
(* Acknowledgements *)

(* The SAR bits tell the first and the last piece of an SDU. *)
LEMMA SarIs ==
  ASSUME NEW x, IsPiece(x)
  PROVE  /\ Sar(x) \in {"UNSEG", "START", "CONT", "END"}
         /\ Sar(x) \in {"UNSEG", "END"} <=> x[2] = Pieces(x[1])
         /\ Sar(x) \in {"UNSEG", "START"} <=> x[2] = 1
<1>1. x[1] \in Nat \ {0} /\ x[2] \in 1 .. Pieces(x[1])
  BY PiecePos
<1>2. Pieces(x[1]) \in Nat \ {0}
  BY <1>1, OffNext
<1> DEFINE n == Pieces(x[1])
           k == x[2]
<1>3. Sar(x) = CASE n = 1 -> "UNSEG"
                 [] n > 1 /\ k = 1 -> "START"
                 [] n > 1 /\ k = n -> "END"
                 [] OTHER -> "CONT"
  BY DEF Sar
<1>4. n \in Nat \ {0} /\ k \in 1 .. n
  BY <1>1, <1>2
<1> HIDE DEF n, k
<1>5. CASE n = 1
  BY <1>3, <1>4, <1>5 DEF n, k
<1>6. CASE n # 1
  <2>1. n > 1
    BY <1>4, <1>6
  <2>2. CASE k = 1
    <3>1. Sar(x) = "START" /\ k # n
      BY <1>3, <2>1, <2>2
    <3> QED BY <2>2, <3>1 DEF n, k
  <2>3. CASE k = n
    <3>1. Sar(x) = "END" /\ k # 1
      BY <1>3, <2>1, <2>3
    <3> QED BY <2>3, <3>1 DEF n, k
  <2>4. CASE k # 1 /\ k # n
    <3>1. Sar(x) = "CONT"
      BY <1>3, <2>1, <2>4
    <3> QED BY <2>4, <3>1 DEF n, k
  <2> QED BY <2>2, <2>3, <2>4
<1> QED BY <1>5, <1>6

(* The SDUs that end in n pieces from number low on. *)
LEMMA CountSdus ==
  ASSUME NEW w, NEW n \in Nat, NEW low \in Nat, NEW c \in Nat,
         Off(c + 1) <= low, low < Off(c + 2),
         \A i \in 1 .. n : IsPiece(w[i].piece) /\ Pos(w[i].piece) = low + i - 1
  PROVE  LET full == Cardinality({i \in 1 .. n : Sar(w[i].piece) \in {"UNSEG", "END"}})
         IN  full \in Nat /\ Off(c + full + 1) <= low + n /\ low + n < Off(c + full + 2)
<1> DEFINE E(k) == {i \in 1 .. k : Sar(w[i].piece) \in {"UNSEG", "END"}}
           F(k) == Cardinality(E(k))
           T == {k \in 0 .. n : Off(c + F(k) + 1) <= low + k /\ low + k < Off(c + F(k) + 2)}
<1>1. \A k \in Nat : IsFiniteSet(E(k)) /\ F(k) \in Nat
  <2> SUFFICES ASSUME NEW k \in Nat PROVE IsFiniteSet(E(k)) /\ F(k) \in Nat
    OBVIOUS
  <2>1. E(k) \in SUBSET (1 .. k)
    OBVIOUS
  <2>2. IsFiniteSet(E(k))
    <3> HIDE DEF E
    <3>1. IsFiniteSet(1 .. k)
      BY FS_Interval
    <3> QED BY <2>1, <3>1, FS_Subset
  <2> QED BY <2>2, FS_CardinalityType
<1>2. F(0) = 0
  <2>1. E(0) = {}
    OBVIOUS
  <2> HIDE DEF E
  <2> QED BY <2>1, FS_EmptySet
<1>3. ASSUME NEW k \in 1 .. n
      PROVE  F(k) = F(k - 1) + (IF Sar(w[k].piece) \in {"UNSEG", "END"} THEN 1 ELSE 0)
  <2>1. k - 1 \in Nat
    OBVIOUS
  <2>2. CASE Sar(w[k].piece) \in {"UNSEG", "END"}
    <3>1. E(k) = E(k - 1) \cup {k} /\ k \notin E(k - 1)
      BY <2>2
    <3>2. IsFiniteSet(E(k - 1))
      BY <1>1, <2>1
    <3> HIDE DEF E
    <3> QED BY <2>2, <3>1, <3>2, FS_AddElement
  <2>3. CASE ~(Sar(w[k].piece) \in {"UNSEG", "END"})
    <3>1. E(k) = E(k - 1)
      BY <2>3
    <3>2. F(k - 1) \in Nat
      BY <1>1, <2>1
    <3> HIDE DEF E
    <3> QED BY <2>3, <3>1, <3>2
  <2> QED BY <2>2, <2>3
<1> HIDE DEF F
<1>4. 0 \in T
  <2>1. c + F(0) + 1 = c + 1 /\ c + F(0) + 2 = c + 2 /\ low + 0 = low
    BY <1>2
  <2>2. 0 \in 0 .. n
    OBVIOUS
  <2> QED BY <2>1, <2>2
<1>5. ASSUME NEW k \in 1 .. n, k - 1 \in T PROVE k \in T
  <2> DEFINE m == c + F(k - 1) + 1
             x == w[k].piece
  <2>1. F(k - 1) \in Nat /\ m \in Nat \ {0} /\ c + F(k - 1) + 2 = m + 1
    <3>1. k - 1 \in Nat
      OBVIOUS
    <3>2. F(k - 1) \in Nat
      BY <1>1, <3>1
    <3> QED BY <3>2
  <2>2. Off(m) <= low + (k - 1) /\ low + (k - 1) < Off(m + 1)
    BY <1>5, <2>1
  <2>3. IsPiece(x) /\ Pos(x) = low + (k - 1)
    OBVIOUS
  <2>4. F(k) = F(k - 1) + (IF Sar(x) \in {"UNSEG", "END"} THEN 1 ELSE 0)
    BY <1>3
  <2>5. k \in 0 .. n
    OBVIOUS
  <2> HIDE DEF T, x
  <2>6. x[1] = m /\ x[2] = Pos(x) - Off(m) + 1
    <3> HIDE DEF m
    <3> QED BY <2>1, <2>2, <2>3, PieceAt
  <2>7. Sar(x) \in {"UNSEG", "END"} <=> x[2] = Pieces(x[1])
    BY <2>3, SarIs
  <2>8. /\ Off(m) \in Nat /\ Pieces(m) \in Nat \ {0} /\ Off(m + 1) = Off(m) + Pieces(m)
        /\ Pieces(m + 1) \in Nat \ {0} /\ Off((m + 1) + 1) = Off(m + 1) + Pieces(m + 1)
        /\ (m + 1) + 1 = m + 2
    <3> HIDE DEF m
    <3>1. m + 1 \in Nat \ {0}
      BY <2>1
    <3> QED BY <2>1, <3>1, OffNext
  <2>9. CASE x[2] = Pieces(m)
    <3>1. F(k) = F(k - 1) + 1
      BY <2>4, <2>6, <2>7, <2>9
    <3>2. c + F(k) + 1 = m + 1 /\ c + F(k) + 2 = m + 2
      BY <2>1, <3>1
    <3> HIDE DEF m
    <3>3. Off(m + 1) <= low + k /\ low + k < Off(m + 2)
      BY <2>2, <2>3, <2>6, <2>8, <2>9
    <3> QED BY <2>5, <3>2, <3>3 DEF T
  <2>10. CASE x[2] # Pieces(m)
    <3>1. F(k) = F(k - 1)
      BY <2>1, <2>4, <2>6, <2>7, <2>10
    <3>2. c + F(k) + 1 = m /\ c + F(k) + 2 = m + 1
      BY <2>1, <3>1
    <3> HIDE DEF m
    <3>3. Off(m) <= low + k /\ low + k < Off(m + 1)
      BY <2>2, <2>3, <2>6, <2>8, <2>10
    <3> QED BY <2>5, <3>2, <3>3 DEF T
  <2> QED BY <2>9, <2>10
<1>6. n \in T
  <2> HIDE DEF T
  <2>1. \A k \in 1 .. n : k - 1 \in T => k \in T
    BY <1>5
  <2> QED BY <1>4, <2>1, AfterRounds
<1>7. F(n) \in Nat /\ Off(c + F(n) + 1) <= low + n /\ low + n < Off(c + F(n) + 2)
  BY <1>1, <1>6
<1> QED BY <1>7 DEF F

(* The first n frames that wait for an acknowledgement have got it. *)
Hears(e, f, n) ==
  /\ f \in Ccb /\ SameRecv(e, f)
  /\ f.open = e.open /\ f.cause = e.cause /\ f.out = e.out /\ f.retrans_q = e.retrans_q
  /\ f.wrote = e.wrote /\ f.xmit_hold_q = e.xmit_hold_q /\ f.segmented = e.segmented
  /\ f.next_tx_seq = e.next_tx_seq /\ f.last_rx_ack = (Heard(e) + n) % Modulus
  /\ f.waiting_for_ack_q = SubSeq(e.waiting_for_ack_q, n + 1, Len(e.waiting_for_ack_q))
  /\ f.complete = e.complete + FullSdus(SubSeq(e.waiting_for_ack_q, 1, n))

LEMMA HearsWindow ==
  ASSUME NEW d, NEW e, NEW f, Local(d, e), e.open,
         NEW n \in 0 .. Len(e.waiting_for_ack_q), Hears(e, f, n)
  PROVE  /\ Local(d, f) /\ Built(f) = Built(e) /\ Heard(f) = Heard(e) + n
         /\ e.complete <= f.complete
<1> DEFINE w == e.waiting_for_ack_q
           r == f.waiting_for_ack_q
           full == FullSdus(SubSeq(w, 1, n))
<1>1. /\ e \in Ccb /\ f \in Ccb /\ Window(e) /\ Typed(d, e)
      /\ w \in Seq(Buffer) /\ Len(w) \in Nat /\ n \in Nat /\ n <= Len(w)
      /\ e.complete \in Nat /\ e.wrote \in Nat
  BY CcbQueues, CcbFields DEF Local, Typed, Hears
<1>2. /\ Built(e) \in Nat /\ Heard(e) \in Nat /\ Built(e) = Heard(e) + Len(w)
      /\ Len(w) <= TxWin /\ TxWin \in Nat
  BY <1>1, BuiltNat, ErtmAssumption DEF Window, Unacked
<1>3. Built(f) = Built(e) /\ NextSdu(f) = NextSdu(e)
  BY DEF Hears, Built, NextSdu
<1>4. /\ Len(r) = Len(w) - n /\ Len(SubSeq(w, 1, n)) = n
      /\ \A i \in 1 .. Len(r) : r[i] = w[n + i] /\ n + i \in 1 .. Len(w)
      /\ \A i \in 1 .. n : SubSeq(w, 1, n)[i] = w[i]
  <2>1. r = SubSeq(w, n + 1, Len(w))
    BY DEF Hears
  <2> HIDE DEF w, r
  <2>2. /\ Len(SubSeq(w, n + 1, Len(w))) = Len(w) - n /\ Len(SubSeq(w, 1, n)) = n
        /\ \A i \in 1 .. (Len(w) - n) : SubSeq(w, n + 1, Len(w))[i] = w[n + i]
                                       /\ n + i \in 1 .. Len(w)
        /\ \A i \in 1 .. n : SubSeq(w, 1, n)[i] = w[i]
    BY <1>1
  <2> QED BY <2>1, <2>2
<1>5. Heard(f) = Heard(e) + n
  BY <1>1, <1>2, <1>3, <1>4 DEF Heard
<1>6. \A i \in 1 .. Len(w) : IsPiece(w[i].piece) /\ Pos(w[i].piece) = Heard(e) + i - 1
                             /\ Carries(w[i], e.wrote)
  BY <1>1 DEF Window, Unacked, Carries
<1>7. /\ full \in Nat /\ Off(e.complete + full + 1) <= Heard(e) + n
      /\ Heard(e) + n < Off(e.complete + full + 2)
  <2>1. \A i \in 1 .. n : IsPiece(w[i].piece) /\ Pos(w[i].piece) = Heard(e) + i - 1
    BY <1>1, <1>6
  <2>2. full = Cardinality({i \in 1 .. n : Sar(w[i].piece) \in {"UNSEG", "END"}})
    <3> DEFINE p == SubSeq(w, 1, n)
    <3>1. Len(p) = n /\ \A i \in 1 .. n : p[i] = w[i]
      BY <1>4
    <3>2. DOMAIN p = 1 .. n
      BY <1>1
    <3> HIDE DEF p, w
    <3>3. {i \in DOMAIN p : Sar(p[i].piece) \in {"UNSEG", "END"}} =
          {i \in 1 .. n : Sar(w[i].piece) \in {"UNSEG", "END"}}
      BY <3>1, <3>2
    <3> QED BY <3>3 DEF p, FullSdus
  <2>3. Off(e.complete + 1) <= Heard(e) /\ Heard(e) < Off(e.complete + 2)
    BY <1>1 DEF Window
  <2> DEFINE low == Heard(e)
             c == e.complete
  <2>4. low \in Nat /\ c \in Nat /\ Off(c + 1) <= low /\ low < Off(c + 2)
    BY <1>1, <1>2, <2>3
  <2> HIDE DEF low, c, full, w
  <2> QED BY <1>1, <2>1, <2>2, <2>4, CountSdus DEF low, c
<1>8. f.complete = e.complete + full
  BY DEF Hears
<1> HIDE DEF full
<1>9. Unacked(f)
  <2>1. Len(r) <= TxWin /\ 0 <= Heard(f)
    BY <1>1, <1>2, <1>4, <1>5
  <2>2. ASSUME NEW i \in 1 .. Len(r)
        PROVE  Carries(r[i], f.wrote) /\ Pos(r[i].piece) = Heard(f) + i - 1
    <3>1. r[i] = w[n + i] /\ n + i \in 1 .. Len(w) /\ f.wrote = e.wrote
      BY <1>4 DEF Hears
    <3>2. Carries(r[i], f.wrote) /\ Pos(r[i].piece) = Heard(e) + (n + i) - 1
      BY <1>6, <3>1
    <3> QED BY <1>1, <1>2, <1>5, <3>2
  <2> QED BY <2>1, <2>2 DEF Unacked
<1>10. Window(f)
  <2>1. Holds(f)
    BY <1>1, <1>3 DEF Window, Holds, Hears
  <2>2. Resends(f)
    BY <1>1, <1>3 DEF Window, Resends, Recent, Hears
  <2>3. f.next_tx_seq = Built(f) % Modulus /\ f.last_rx_ack = Heard(f) % Modulus
    BY <1>1, <1>3, <1>5 DEF Window, Hears
  <2>4. \A j \in 1 .. Len(f.out) : IsI(f.out[j]) => Pos(f.out[j].piece) < Built(f)
    BY <1>1, <1>3 DEF Window, Hears
  <2>5. Off(f.complete + 1) <= Heard(f) /\ Heard(f) < Off(f.complete + 2)
    BY <1>5, <1>7, <1>8
  <2> QED BY <1>9, <2>1, <2>2, <2>3, <2>4, <2>5 DEF Window
<1>11. Typed(d, f)
  BY <1>1 DEF Typed, Frames, Hears, SameRecv
<1>12. e.complete <= f.complete
  BY <1>1, <1>7, <1>8
<1> QED BY <1>3, <1>5, <1>10, <1>11, <1>12 DEF Local

(* What the peer has acknowledged it has handed to its application. *)
LEMMA CompleteTaken ==
  ASSUME NEW f \in Ccb, NEW g \in Ccb, NEW n \in Nat, Gathers(g),
         Off(f.complete + 1) <= n, n <= Taken(g)
  PROVE  f.complete <= Len(g.rcvd)
<1>1. f.complete \in Nat /\ Len(g.rcvd) \in Nat /\ Len(g.rx_sdu) \in Nat
  BY CcbFields, CcbQueues
<1>2. /\ Taken(g) \in Nat /\ Off(Len(g.rcvd) + 1) \in Nat /\ Off(Len(g.rcvd) + 2) \in Nat
      /\ Pieces(Len(g.rcvd) + 1) \in Nat
      /\ Off(Len(g.rcvd) + 2) = Off(Len(g.rcvd) + 1) + Pieces(Len(g.rcvd) + 1)
  BY TakenNat
<1>3. Taken(g) < Off(Len(g.rcvd) + 2)
  <2>1. CASE g.open
    <3>1. /\ Taken(g) = Off(Len(g.rcvd) + 1) + Len(g.rx_sdu)
          /\ Len(g.rx_sdu) < Pieces(Len(g.rcvd) + 1)
      BY <2>1 DEF Taken, Gathers
    <3> QED BY <1>1, <1>2, <3>1
  <2>2. CASE ~g.open
    <3>1. Taken(g) = Off(Len(g.rcvd) + 2) - 1
      BY <2>2 DEF Taken
    <3> QED BY <1>2, <3>1
  <2> QED BY <2>1, <2>2
<1> DEFINE c == f.complete
           m == Len(g.rcvd) + 1
<1>4. /\ c \in Nat /\ m \in Nat \ {0} /\ Len(g.rcvd) + 2 = m + 1 /\ Off(m + 1) \in Nat
      /\ Off(c + 1) <= n /\ n < Off(m + 1)
  BY <1>1, <1>2, <1>3
<1> HIDE DEF c, m
<1>5. c + 1 \in Nat \ {0} /\ Off(c + 1) \in Nat
  <2>1. c + 1 \in Nat \ {0}
    BY <1>4
  <2> QED BY <2>1, OffNext
<1>6. ~(m < c + 1)
  <2> DEFINE k == c + 1
  <2>1. k \in Nat \ {0} /\ Off(k) \in Nat /\ Off(k) < Off(m + 1)
    BY <1>4, <1>5
  <2> HIDE DEF k
  <2>2. ~(m < k)
    BY <1>4, <2>1, OffApart
  <2> QED BY <2>2 DEF k
<1>7. c + 1 <= m
  BY <1>4, <1>6
<1> QED BY <1>1, <1>7 DEF c, m

LEMMA HearsGoes ==
  ASSUME NEW d \in Ends, NEW e, NEW f, NEW g, Fits(d, e, g), e.open,
         NEW n \in 0 .. Len(e.waiting_for_ack_q), Hears(e, f, n),
         MaxBusy = 0 => /\ Heard(e) + n <= Acknowledged(g, e)
                        /\ AcksFit(g.out, Heard(e) + n, Acknowledged(g, e))
  PROVE  Goes(d, e, f, g)
<1>1. /\ e \in Ccb /\ g \in Ccb /\ f \in Ccb /\ Local(d, e) /\ Local(Peer(d), g)
      /\ SameRecv(e, f) /\ f.open = e.open /\ f.cause = e.cause /\ f.out = e.out
      /\ f.wrote = e.wrote
  BY FitsCcb DEF Fits, Hears
<1>2. /\ Local(d, f) /\ Built(f) = Built(e) /\ Heard(f) = Heard(e) + n
      /\ e.complete <= f.complete
  BY <1>1, HearsWindow
<1>3. Taken(f) = Taken(e) /\ Reach(f) = Reach(e)
  BY <1>1, SameViews
<1>4. Onward(e, f)
  <2>1. Len(e.rcvd) \in Nat
    BY <1>1, CcbQueues
  <2> QED BY <1>1, <1>2, <2>1 DEF Onward, SameRecv
<1>5. ASSUME MaxBusy = 0 PROVE Joint(f, g)
  <2>1. /\ Joint(e, g) /\ Pair(e, g) /\ Pair(g, e) /\ Gathers(g)
        /\ Heard(f) <= Acknowledged(g, e) /\ AcksFit(g.out, Heard(f), Acknowledged(g, e))
    BY <1>2, <1>5 DEF Fits, Joint
  <2>2. /\ Acknowledged(g, f) = Acknowledged(g, e) /\ Acknowledged(e, g) = Acknowledged(f, g)
    BY <1>2, <1>3 DEF Acknowledged
  <2>3. Heard(f) <= Taken(g) /\ Heard(f) \in Nat
    <3>1. Taken(g) \in Nat /\ Built(e) \in Nat /\ Heard(f) \in Nat
      BY <1>1, <1>2, TakenNat, BuiltNat
    <3> QED BY <2>1, <3>1 DEF Acknowledged
  <2>4. Gathers(f)
    BY <1>1, <1>3, <2>1 DEF Joint, Gathers, SameRecv
  <2>5. Pair(f, g)
    <3>1. f.complete <= Len(g.rcvd)
      <4>1. Off(f.complete + 1) <= Heard(f)
        BY <1>1, <1>2 DEF Local, Window
      <4> QED BY <1>1, <2>1, <2>3, <4>1, CompleteTaken
    <3>2. g.open => Arrives(f, g)
      BY <1>1, <2>1, <2>2 DEF Pair, Arrives
    <3> QED BY <1>1, <1>2, <2>1, <2>3, <3>1, <3>2 DEF Pair
  <2>6. Pair(g, f)
    <3>1. Arrives(g, e)
      BY <1>1, <2>1 DEF Pair
    <3>2. \A x : Within(x, f) <=> Within(x, e)
      BY <1>3 DEF Within
    <3>3. Arrives(g, f)
      BY <2>1, <2>2, <3>1, <3>2 DEF Arrives
    <3> QED BY <1>1, <1>2, <1>3, <2>1, <3>3 DEF Pair, SameRecv
  <2> QED BY <2>1, <2>4, <2>5, <2>6 DEF Joint
<1> QED BY <1>1, <1>2, <1>4, <1>5 DEF Goes, Fits

LEMMA ReqseqGoes ==
  ASSUME NEW d \in Ends, NEW e, NEW g, NEW f, Fits(d, e, g), e.open, f.req \in Seqs,
         f.k \in {"I", "RR", "RNR", "REJ", "SREJ"},
         MaxBusy = 0 => \E a : AckIs(f, a, e, g)
  PROVE  Goes(d, e, process_reqseq(e, f), g)
<1> DEFINE n == (f.req - e.last_rx_ack) % Modulus
           w == e.waiting_for_ack_q
           full == FullSdus(SubSeq(w, 1, n))
           rest == SubSeq(w, n + 1, Len(w))
           tries == IF n # 0 THEN 0 ELSE e.num_tries
           timer == IF n # 0 /\ ~e.wait_ack THEN "off" ELSE e.timer
           freed == [e EXCEPT !.last_rx_ack = f.req, !.waiting_for_ack_q = rest,
                              !.num_tries = tries, !.timer = timer,
                              !.complete = e.complete + full]
           timed(x) == IF x.waiting_for_ack_q = <<>> THEN x ELSE l2c_fcr_start_timer(x)
<1>1. /\ e \in Ccb /\ g \in Ccb /\ Local(d, e) /\ Local(Peer(d), g) /\ Window(e)
      /\ w \in Seq(Buffer) /\ Len(w) \in Nat /\ e.last_rx_ack \in Seqs
      /\ e.num_tries \in Nat /\ e.timer \in Timers /\ e.complete \in Nat
  BY FitsCcb, CcbQueues, CcbFields DEF Fits, Local
<1>2. \A x : Fits(d, x, g) => Goes(d, x, timed(x), g)
  <2> SUFFICES ASSUME NEW x, Fits(d, x, g) PROVE Goes(d, x, timed(x), g)
    OBVIOUS
  <2>1. Goes(d, x, l2c_fcr_start_timer(x), g)
    BY FitsCcb, TimersQuiet, QuietSteps
  <2> QED BY <2>1, GoesSelf
<1>3. /\ Modulus \in Nat /\ Modulus > 0 /\ Seqs \subseteq Nat
      /\ n \in Seqs /\ n \in Nat /\ n < Modulus /\ TxWin \in Nat /\ TxWin < Modulus
  <2>1. Modulus \in Nat /\ Modulus > 0 /\ TxWin \in Nat /\ TxWin < Modulus
    BY ErtmAssumption
  <2>2. f.req - e.last_rx_ack \in Int /\ Seqs \subseteq Nat
    <3>1. Seqs \subseteq Nat
      BY SeqsNat
    <3>2. f.req \in Nat /\ e.last_rx_ack \in Nat
      BY <1>1, <3>1
    <3> QED BY <3>1, <3>2
  <2>3. n \in Seqs
    BY <2>2, ModHas
  <2> QED BY <2>1, <2>2, <2>3 DEF Seqs
<1> HIDE DEF n
<1>4. /\ Heard(e) \in Nat /\ Built(e) \in Nat /\ Built(e) = Heard(e) + Len(w)
      /\ Len(w) <= TxWin /\ e.last_rx_ack = Heard(e) % Modulus
  BY <1>1, BuiltNat DEF Window, Unacked
<1>5. f.req = (Heard(e) + n) % Modulus
  <2>1. f.req = (e.last_rx_ack + n) % Modulus
    <3> DEFINE r == f.req
               l == e.last_rx_ack
    <3>1. r \in Seqs /\ r \in Int /\ l \in Int /\ n = (r - l) % Modulus
      <4>1. r \in Seqs /\ l \in Seqs /\ n = (r - l) % Modulus
        BY <1>1 DEF n
      <4> HIDE DEF r, l
      <4> QED BY <1>3, <4>1
    <3> HIDE DEF r, l
    <3>2. r - l \in Int /\ (r - l) + l = r
      BY <3>1
    <3>3. (n + l) % Modulus = ((r - l) + l) % Modulus
      BY <3>1, <3>2, ModDiff
    <3>4. r % Modulus = r /\ n + l = l + n
      BY <1>3, <3>1, ModSmall
    <3> QED BY <3>2, <3>3, <3>4 DEF r, l
  <2>2. ((Heard(e) % Modulus) + n) % Modulus = (Heard(e) + n) % Modulus
    <3> DEFINE h == Heard(e)
    <3>1. h \in Int /\ n \in Int
      BY <1>3, <1>4
    <3> HIDE DEF h
    <3> QED BY <3>1, ModDiff DEF h
  <2> QED BY <1>4, <2>1, <2>2
<1>6. ASSUME MaxBusy = 0
      PROVE  /\ n <= Len(w) /\ Heard(e) + n <= Acknowledged(g, e)
             /\ AcksFit(g.out, Heard(e) + n, Acknowledged(g, e))
  <2>1. PICK a : AckIs(f, a, e, g)
    BY <1>6
  <2>2. /\ a \in Int /\ Heard(e) <= a /\ a <= Acknowledged(g, e) /\ f.req = a % Modulus
        /\ AcksFit(g.out, a, Acknowledged(g, e))
    BY <2>1 DEF AckIs
  <2>3. Acknowledged(g, e) <= Built(e) /\ Acknowledged(g, e) \in Int
    <3>1. Taken(g) \in Nat
      BY <1>1, TakenNat
    <3> QED BY <1>4, <3>1 DEF Acknowledged
  <2> DEFINE k == Len(w)
  <2> HIDE DEF k
  <2>6. k \in Nat /\ Built(e) = Heard(e) + k /\ k <= TxWin
    BY <1>1, <1>4 DEF k
  <2>4. a = Heard(e) + n
    <3> DEFINE m == Heard(e) + n
    <3>1. m \in Int /\ a < m + Modulus /\ m < a + Modulus
      <4> DEFINE h == Heard(e)
                 b == Built(e)
                 t == Acknowledged(g, e)
                 y == n
      <4>1. h \in Int /\ y \in Nat /\ y < Modulus
        BY <1>3, <1>4
      <4>2. h <= a /\ a <= t /\ t <= b /\ b = h + k /\ k <= TxWin /\ t \in Int
        BY <2>2, <2>3, <2>6
      <4>3. TxWin \in Nat /\ Modulus \in Nat /\ 2 * TxWin <= Modulus /\ TxWin > 0
        BY ErtmAssumption
      <4> HIDE DEF h, b, t, y
      <4>4. h + y \in Int /\ a < (h + y) + Modulus /\ h + y < a + Modulus
        BY <2>2, <2>6, <4>1, <4>2, <4>3
      <4> QED BY <4>4 DEF h, y
    <3>2. a % Modulus = m % Modulus
      BY <1>5, <2>2
    <3> HIDE DEF m
    <3>3. a = m
      BY <2>2, <3>1, <3>2, ModSame
    <3> QED BY <3>3 DEF m
  <2>5. n <= Len(w)
    <3>1. n <= k
      BY <1>3, <1>4, <2>2, <2>3, <2>4, <2>6
    <3> QED BY <3>1 DEF k
  <2> QED BY <2>2, <2>4, <2>5
<1>7. ASSUME n <= Len(w) PROVE Goes(d, e, freed, g)
  <2>1. n \in 0 .. Len(w)
    BY <1>1, <1>3, <1>7
  <2>2. rest \in Seq(Buffer)
    <3> HIDE DEF w
    <3>1. n + 1 \in 1 .. (Len(w) + 1)
      BY <1>1, <2>1
    <3>2. \A i \in (n + 1) .. Len(w) : w[i] \in Buffer
      BY <1>1, <2>1
    <3> QED BY <1>1, <3>1, <3>2
  <2>3. full \in Nat
    <3> DEFINE p == SubSeq(w, 1, n)
               W == {i \in DOMAIN p : Sar(p[i].piece) \in {"UNSEG", "END"}}
    <3>1. DOMAIN p = 1 .. n
      BY <1>1, <2>1
    <3>2. W \in SUBSET (1 .. n)
      BY <3>1
    <3>3. IsFiniteSet(1 .. n)
      BY <1>3, FS_Interval
    <3>4. full = Cardinality(W)
      BY DEF FullSdus
    <3> HIDE DEF W, full
    <3> QED BY <3>2, <3>3, <3>4, FS_Subset, FS_CardinalityType
  <2>4. tries \in Nat /\ timer \in Timers
    BY <1>1 DEF Timers
  <2>5. Hears(e, freed, n)
    <3>1. e.complete + full \in Nat
      BY <1>1, <2>3
    <3>2. /\ rest = SubSeq(e.waiting_for_ack_q, n + 1, Len(e.waiting_for_ack_q))
          /\ full = FullSdus(SubSeq(e.waiting_for_ack_q, 1, n))
      OBVIOUS
    <3> HIDE DEF rest, full, tries, timer
    <3>3. freed \in Ccb
      BY <1>1, <2>2, <2>4, <3>1 DEF Ccb
    <3>4. SameRecv(e, freed)
      BY <1>1 DEF SameRecv, Ccb
    <3>5. /\ freed.open = e.open /\ freed.cause = e.cause /\ freed.out = e.out
          /\ freed.retrans_q = e.retrans_q /\ freed.wrote = e.wrote
          /\ freed.xmit_hold_q = e.xmit_hold_q /\ freed.segmented = e.segmented
          /\ freed.next_tx_seq = e.next_tx_seq
      BY <1>1 DEF Ccb
    <3>6. /\ freed.last_rx_ack = f.req /\ freed.waiting_for_ack_q = rest
          /\ freed.complete = e.complete + full
      BY <1>1 DEF Ccb
    <3> HIDE DEF freed
    <3> QED BY <1>5, <3>2, <3>3, <3>4, <3>5, <3>6 DEF Hears
  <2> HIDE DEF freed
  <2> QED BY <1>6, <2>1, <2>5, HearsGoes
<1>8. ASSUME n > Len(w) PROVE Goes(d, e, l2cu_disconnect_chnl(e, "reqseq"), g)
  <2>1. MaxBusy # 0
    BY <1>1, <1>3, <1>6, <1>8
  <2> QED BY <2>1, DisconnectGoes DEF Causes
<1>9. /\ process_reqseq(e, f) = timed(e)
         \/ process_reqseq(e, f) = IF n > Len(w) THEN l2cu_disconnect_chnl(e, "reqseq")
                                   ELSE timed(freed)
  BY DEF process_reqseq, n
<1> HIDE DEF freed
<1>10. ASSUME Goes(d, e, freed, g) PROVE Goes(d, e, timed(freed), g)
  <2>1. Fits(d, freed, g)
    BY <1>10 DEF Goes
  <2> HIDE DEF timed
  <2> QED BY <1>2, <1>10, <2>1, GoesOn
<1>11. Goes(d, e, timed(e), g)
  BY <1>2
<1>12. n \in Nat /\ Len(w) \in Nat
  BY <1>1, <1>3
<1> HIDE DEF timed, w
<1> QED BY <1>7, <1>8, <1>9, <1>10, <1>11, <1>12

-----------------------------------------------------------------------------
(* Frames behind a lost one *)

(* The frame x is held, behind the one that SREJ asks for. *)
Keeps(e, f, x) ==
  /\ f \in Ccb /\ SameSend(e, f) /\ f.retrans_q = e.retrans_q
  /\ f.open = e.open /\ f.cause = e.cause /\ f.out = e.out
  /\ f.rcvd = e.rcvd /\ f.rx_sdu = e.rx_sdu
  /\ f.next_seq_expected = e.next_seq_expected /\ f.local_busy = e.local_busy
  /\ f.srej_rcv_hold_q = Append(e.srej_rcv_hold_q, x) /\ f.srej_sent

(* The steps of the receiving half leave the sending half as it is. *)
LEMMA RecvLocal ==
  ASSUME NEW d, NEW e, NEW f \in Ccb, Local(d, e), SameSend(e, f), f.retrans_q = e.retrans_q,
         e.open, f.open, f.out = e.out, f.srej_sent => f.srej_rcv_hold_q # <<>>
  PROVE  Local(d, f) /\ Built(f) = Built(e) /\ Heard(f) = Heard(e)
<1>1. /\ NextSdu(f) = NextSdu(e) /\ Built(f) = Built(e) /\ Heard(f) = Heard(e)
      /\ f.wrote = e.wrote
  BY SameViews DEF SameSend
<1>2. Window(e) /\ Typed(d, e)
  BY DEF Local
<1>3. Typed(d, f)
  BY <1>1, <1>2 DEF Typed, Frames
<1>4. Holds(f) /\ Unacked(f)
  BY <1>1, <1>2 DEF Window, Holds, Unacked, SameSend
<1>5. Resends(f)
  BY <1>1, <1>2 DEF Window, Resends, Recent
<1>6. /\ f.next_tx_seq = Built(f) % Modulus /\ f.last_rx_ack = Heard(f) % Modulus
      /\ Off(f.complete + 1) <= Heard(f) /\ Heard(f) < Off(f.complete + 2)
      /\ \A j \in 1 .. Len(f.out) : IsI(f.out[j]) => Pos(f.out[j].piece) < Built(f)
  BY <1>1, <1>2 DEF Window, SameSend
<1>7. Window(f)
  BY <1>4, <1>5, <1>6 DEF Window
<1> QED BY <1>1, <1>3, <1>7 DEF Local

(* They fit the peer if what arrives later is near enough. *)
LEMMA RecvJoint ==
  ASSUME NEW d, NEW e, NEW f \in Ccb, NEW g, Joint(e, g), Local(d, e), Local(Peer(d), g),
         e.open, f.open, SameSend(e, f), f.out = e.out, Gathers(f),
         Taken(e) <= Taken(f), Len(e.rcvd) <= Len(f.rcvd), Len(f.rcvd) <= g.wrote,
         g.open => Reach(f) <= Built(g),
         \A j \in 1 .. Len(g.out) :
            IsI(g.out[j]) => Reach(f) <= Pos(g.out[j].piece) + TxWin,
         \A i \in 1 .. Len(f.srej_rcv_hold_q) : Carries(f.srej_rcv_hold_q[i], g.wrote)
  PROVE  Joint(f, g)
<1>1. /\ e \in Ccb /\ g \in Ccb /\ Pair(e, g) /\ Pair(g, e) /\ Typed(Peer(d), g)
      /\ f.complete = e.complete /\ f.wrote = e.wrote
      /\ Built(f) = Built(e) /\ Heard(f) = Heard(e)
      /\ Len(e.rcvd) \in Nat /\ Len(f.rcvd) \in Nat
  BY SameViews, CcbQueues DEF Local, Typed, Joint, SameSend
<1>2. /\ Taken(e) \in Nat /\ Taken(f) \in Nat /\ Taken(g) \in Nat
      /\ Built(e) \in Nat /\ Heard(e) \in Nat /\ TxWin \in Nat
  BY <1>1, TakenNat, BuiltNat, ErtmAssumption
<1>3. Pair(f, g)
  <2>1. ASSUME g.open PROVE Arrives(f, g)
    <3>1. Arrives(e, g) /\ Heard(g) \in Nat /\ Built(g) \in Nat
      BY <1>1, <2>1, BuiltNat DEF Pair
    <3>2. /\ Acknowledged(e, g) \in Int /\ Acknowledged(f, g) \in Int
          /\ Acknowledged(e, g) <= Acknowledged(f, g)
      BY <1>2, <3>1 DEF Acknowledged
    <3>3. AcksFit(f.out, Heard(g), Acknowledged(f, g))
      BY <3>1, <3>2, AcksMore DEF Arrives
    <3> QED BY <3>1, <3>3 DEF Arrives
  <2> QED BY <1>1, <2>1 DEF Pair
<1>4. Pair(g, f)
  <2>1. Arrives(g, e)
    BY <1>1 DEF Pair
  <2>2. Acknowledged(g, f) = Acknowledged(g, e)
    BY <1>1 DEF Acknowledged
  <2>3. \A j \in 1 .. Len(g.out) : IsI(g.out[j]) => Within(g.out[j].piece, f)
    <3> SUFFICES ASSUME NEW j \in 1 .. Len(g.out), IsI(g.out[j])
                 PROVE  Within(g.out[j].piece, f)
      OBVIOUS
    <3>1. Pos(g.out[j].piece) \in Nat
      BY <1>1, PiecePos DEF Typed, Frames, Carries
    <3>2. Pos(g.out[j].piece) < Taken(e) + TxWin
      BY <2>1 DEF Arrives, Within
    <3> QED BY <1>2, <3>1, <3>2 DEF Within
  <2>4. Arrives(g, f)
    BY <1>1, <2>1, <2>2, <2>3 DEF Arrives
  <2>5. g.open => Heard(g) <= Taken(f)
    <3> SUFFICES ASSUME g.open PROVE Heard(g) <= Taken(f)
      OBVIOUS
    <3>1. Heard(g) \in Nat /\ Heard(g) <= Taken(e)
      BY <1>1, BuiltNat DEF Pair
    <3> QED BY <1>2, <3>1
  <2>6. g.complete <= Len(f.rcvd)
    <3>1. g.complete \in Nat /\ g.complete <= Len(e.rcvd)
      BY <1>1, CcbFields DEF Pair
    <3> QED BY <1>1, <3>1
  <2> QED BY <2>4, <2>5, <2>6 DEF Pair
<1> QED BY <1>3, <1>4 DEF Joint

LEMMA KeepsMoves ==
  ASSUME NEW d, NEW e, NEW f, NEW g, NEW x \in IFrame, Fits(d, e, g), e.open, Keeps(e, f, x),
         MaxBusy = 0 => /\ Rests(e) /\ Due(x, e, g)
                        /\ Pos(x.piece) = Taken(e) + Len(e.srej_rcv_hold_q) + 1
  PROVE  Moves(d, e, f, g) /\ Rests(f)
<1> DEFINE q == e.srej_rcv_hold_q
           r == f.srej_rcv_hold_q
<1>1. /\ e \in Ccb /\ g \in Ccb /\ f \in Ccb /\ Local(d, e) /\ Local(Peer(d), g)
      /\ SameSend(e, f) /\ f.open = e.open /\ f.out = e.out /\ f.srej_sent
      /\ f.rcvd = e.rcvd /\ f.rx_sdu = e.rx_sdu
  BY FitsCcb DEF Fits, Keeps
<1>2. q \in Seq(IFrame) /\ Len(q) \in Nat /\ Len(e.rcvd) \in Nat /\ e.complete \in Nat
  BY <1>1, CcbQueues, CcbFields
<1>3. /\ r # <<>> /\ Len(r) = Len(q) + 1 /\ r[Len(q) + 1] = x
      /\ \A i \in 1 .. Len(q) : r[i] = q[i]
      /\ \A i \in 1 .. Len(r) : i = Len(q) + 1 \/ i \in 1 .. Len(q)
  <2>1. r = Append(q, x)
    BY DEF Keeps
  <2> HIDE DEF q, r
  <2>2. /\ Len(r) = Len(q) + 1 /\ r[Len(q) + 1] = x
        /\ \A i \in 1 .. Len(q) : r[i] = q[i]
    BY <1>2, <2>1, AppendProperties
  <2>3. r # <<>>
    BY <1>2, <2>2
  <2> QED BY <1>2, <2>2, <2>3
<1>4. Local(d, f) /\ Built(f) = Built(e) /\ Heard(f) = Heard(e)
  <2>1. f.retrans_q = e.retrans_q
    BY DEF Keeps
  <2>2. f.srej_rcv_hold_q # <<>>
    BY <1>3
  <2>3. f.open /\ (f.srej_sent => f.srej_rcv_hold_q # <<>>)
    BY <1>1, <2>2
  <2> QED BY <1>1, <2>1, <2>3, RecvLocal
<1>5. Onward(e, f) /\ Rests(f)
  <2>1. Onward(e, f)
    BY <1>1, <1>2 DEF Onward, SameSend
  <2>2. Rests(f)
    BY <1>1 DEF Rests
  <2> QED BY <2>1, <2>2
<1>6. ASSUME MaxBusy = 0 PROVE Joint(f, g)
  <2>1. /\ Joint(e, g) /\ Gathers(e) /\ Pair(g, e)
        /\ Rests(e) /\ Due(x, e, g) /\ Pos(x.piece) = Taken(e) + Len(q) + 1
    BY <1>6 DEF Fits, Joint
  <2>2. /\ Taken(e) \in Nat /\ Taken(f) = Taken(e) /\ Reach(f) \in Nat
        /\ Reach(f) = Pos(x.piece) + 1 /\ Pos(x.piece) \in Nat
    <3>1. Taken(e) \in Nat
      BY <1>1, TakenNat
    <3>2. Taken(f) = Taken(e)
      BY <1>1 DEF Taken
    <3>3. Reach(f) = Taken(e) + Len(r) + 1
      BY <1>1, <1>3, <3>2 DEF Reach
    <3> HIDE DEF q, r
    <3> QED BY <1>2, <1>3, <2>1, <3>1, <3>2, <3>3
  <2>3. Gathers(f)
    <3>1. \A i \in 1 .. Len(r) : Pos(r[i].piece) = Taken(f) + i
      <4> SUFFICES ASSUME NEW i \in 1 .. Len(r) PROVE Pos(r[i].piece) = Taken(f) + i
        OBVIOUS
      <4>1. CASE i = Len(q) + 1
        BY <1>2, <1>3, <2>1, <2>2, <4>1
      <4>2. CASE i \in 1 .. Len(q)
        <5>1. e.srej_sent
          BY <1>2, <2>1, <4>2, EmptySeq DEF Rests
        <5>2. Pos(q[i].piece) = Taken(e) + i - 0
          BY <2>1, <4>2, <5>1 DEF Gathers
        <5> QED BY <1>3, <2>2, <4>2, <5>2
      <4> QED BY <1>3, <4>1, <4>2
    <3>2. /\ f.rcvd = e.rcvd /\ f.cause = e.cause /\ f.rx_sdu = e.rx_sdu
          /\ f.next_seq_expected = e.next_seq_expected /\ f.local_busy = e.local_busy
      BY DEF Keeps
    <3>3. \A i \in 1 .. Len(r) : Pos(r[i].piece) = Taken(f) + i - (IF f.srej_sent THEN 0 ELSE 1)
      BY <1>1, <2>2, <3>1
    <3> HIDE DEF r
    <3> QED BY <1>1, <2>1, <2>2, <3>2, <3>3 DEF Gathers, r
  <2>4. g.open => Reach(f) <= Built(g)
    <3> SUFFICES ASSUME g.open PROVE Reach(f) <= Built(g)
      OBVIOUS
    <3>1. Built(g) \in Nat /\ Pos(x.piece) < Built(g)
      BY <1>1, <2>1, BuiltNat DEF Due
    <3> QED BY <2>2, <3>1
  <2>5. \A j \in 1 .. Len(g.out) : IsI(g.out[j]) => Reach(f) <= Pos(g.out[j].piece) + TxWin
    <3> SUFFICES ASSUME NEW j \in 1 .. Len(g.out), IsI(g.out[j])
                 PROVE  Reach(f) <= Pos(g.out[j].piece) + TxWin
      OBVIOUS
    <3>1. Pos(g.out[j].piece) \in Nat /\ TxWin \in Nat
      BY <1>1, PiecePos, ErtmAssumption DEF Local, Typed, Frames, Carries
    <3>2. Pos(x.piece) < Pos(g.out[j].piece) + TxWin
      BY <2>1 DEF Due, Before
    <3> QED BY <2>2, <3>1, <3>2
  <2>6. \A i \in 1 .. Len(r) : Carries(r[i], g.wrote)
    BY <1>1, <1>3, <2>1 DEF Pair, Due
  <2>7. Len(f.rcvd) <= g.wrote /\ Len(e.rcvd) <= Len(f.rcvd)
    BY <1>1, <1>2, <2>1 DEF Pair, Joint
  <2>8. /\ f.open /\ Taken(e) <= Taken(f)
        /\ \A i \in 1 .. Len(f.srej_rcv_hold_q) : Carries(f.srej_rcv_hold_q[i], g.wrote)
    BY <1>1, <2>2, <2>6
  <2> HIDE DEF r
  <2> QED BY <1>1, <2>1, <2>3, <2>4, <2>5, <2>7, <2>8, RecvJoint
<1> QED BY <1>1, <1>4, <1>5, <1>6 DEF Moves, Fits

(* A frame that is held has the number of the one that comes next. *)
LEMMA NextHeld ==
  ASSUME NEW d, NEW e, NEW g, NEW x \in IFrame, Local(d, e), Gathers(e), Rests(e), e.open,
         Due(x, e, g),
         x.seq # e.next_seq_expected, (x.seq - e.next_seq_expected) % Modulus < TxWin
  PROVE  /\ e.srej_sent /\ x.seq = NextSeq(Last(e.srej_rcv_hold_q).seq)
            /\ (\A i \in 1 .. Len(e.srej_rcv_hold_q) : Carries(e.srej_rcv_hold_q[i], g.wrote))
              => Pos(x.piece) = Taken(e) + Len(e.srej_rcv_hold_q) + 1
         /\ ~e.srej_sent /\ ~((x.seq - e.next_seq_expected) % Modulus > 1)
              => Pos(x.piece) = Taken(e) + Len(e.srej_rcv_hold_q) + 1
<1> DEFINE q == e.srej_rcv_hold_q
           p == Pos(x.piece)
           t == Taken(e)
           lost == (x.seq - e.next_seq_expected) % Modulus
<1>1. /\ e \in Ccb /\ q \in Seq(IFrame) /\ Len(q) \in Nat /\ t \in Nat /\ Reach(e) \in Nat
      /\ e.srej_sent \in BOOLEAN
  BY CcbQueues, CcbFields, TakenNat DEF Local, Typed
<1>2. /\ Modulus \in Nat /\ TxWin \in Nat \ {0} /\ 2 * TxWin <= Modulus
  BY ErtmAssumption
<1>3. /\ p \in Nat /\ x.seq = p % Modulus /\ p < t + TxWin /\ Reach(e) <= p + TxWin
  BY PiecePos DEF Due, Carries, Within
<1>4. e.next_seq_expected = t % Modulus
  BY DEF Gathers
<1>5. lost = (p - t) % Modulus /\ p - t \in Int
  <2> HIDE DEF p, t
  <2>1. p \in Int /\ t \in Int
    BY <1>1, <1>3
  <2>2. ((p % Modulus) - (t % Modulus)) % Modulus = (p - t) % Modulus
    BY <2>1, ModDiff
  <2> QED BY <1>3, <1>4, <2>1, <2>2 DEF lost
<1>6. ASSUME e.srej_sent, x.seq = NextSeq(Last(q).seq),
             \A i \in 1 .. Len(q) : Carries(q[i], g.wrote)
      PROVE  p = t + Len(q) + 1
  <2> DEFINE n == Len(q)
             m == t + n + 1
  <2>1. q # <<>>
    BY <1>6 DEF Local, Typed
  <2>2. n \in 1 .. n /\ n \in Nat /\ Last(q) = q[n]
    BY <1>1, <2>1, EmptySeq DEF Last
  <2>3. Reach(e) = m
    BY <1>1, <1>6, <2>1, <2>2 DEF Reach
  <2>4. Pos(q[n].piece) = t + n
    <3>1. Pos(q[n].piece) = t + n - 0
      BY <1>6, <2>2 DEF Gathers
    <3> HIDE DEF t, n
    <3> QED BY <1>1, <2>2, <3>1
  <2>5. q[n].seq = (t + n) % Modulus
    BY <1>6, <2>2, <2>4 DEF Carries
  <2>6. x.seq = ((t + n) + 1) % Modulus
    <3> DEFINE k == t + n
    <3>1. k \in Int /\ x.seq = NextSeq(k % Modulus)
      BY <1>1, <1>6, <2>2, <2>5
    <3> HIDE DEF k
    <3>2. x.seq = (k + 1) % Modulus
      BY <3>1, SeqUp
    <3> QED BY <3>2 DEF k
  <2>7. p % Modulus = m % Modulus
    BY <1>3, <2>6
  <2> HIDE DEF n, p, t
  <2>8. m \in Int /\ p \in Int /\ p < m + Modulus /\ m < p + Modulus
    BY <1>1, <1>2, <1>3, <2>2, <2>3
  <2> HIDE DEF m
  <2>9. p = m
    BY <2>7, <2>8, ModSame
  <2> QED BY <2>9 DEF m, n
<1>7. ASSUME ~e.srej_sent, ~(lost > 1), lost < TxWin
      PROVE  p = t + Len(q) + 1
  <2>1. q = <<>> /\ Len(q) = 0
    BY <1>7, EmptySeq DEF Rests
  <2>2. Reach(e) = t
    BY <2>1 DEF Reach
  <2>3. lost \in Nat /\ lost # 0
    <3>1. lost \in Seqs
      <4> HIDE DEF p, t, lost
      <4> DEFINE k == p - t
      <4>1. k \in Int /\ lost = k % Modulus
        BY <1>5
      <4> HIDE DEF k
      <4> QED BY <4>1, ModHas
    <3>2. lost # 0
      <4> SUFFICES ASSUME lost = 0 PROVE FALSE
        OBVIOUS
      <4> HIDE DEF lost, p, t
      <4>1. p \in Int /\ t \in Int
        BY <1>1, <1>3
      <4>2. (((p - t) % Modulus) + t) % Modulus = ((p - t) + t) % Modulus
        <5> DEFINE k == p - t
        <5>1. k \in Int
          BY <1>5
        <5> HIDE DEF k
        <5>2. ((k % Modulus) + t) % Modulus = (k + t) % Modulus
          BY <4>1, <5>1, ModDiff
        <5> QED BY <5>2 DEF k
      <4>3. (p - t) + t = p /\ 0 + t = t
        BY <4>1
      <4>4. t % Modulus = p % Modulus
        BY <1>5, <4>2, <4>3
      <4> QED BY <1>3, <1>4, <4>4
    <3>3. Seqs \subseteq Nat
      BY SeqsNat
    <3> QED BY <3>1, <3>2, <3>3
  <2>4. lost = 1 /\ TxWin > 1
    <3> HIDE DEF lost
    <3> QED BY <1>2, <1>7, <2>3
  <2>5. ((p - t) - 1) % Modulus = 0 % Modulus
    <3> HIDE DEF lost, p, t
    <3> DEFINE k == p - t
    <3>1. k \in Int /\ k % Modulus = 1
      BY <1>5, <2>4
    <3> HIDE DEF k
    <3>2. ((k % Modulus) + (-1)) % Modulus = (k + (-1)) % Modulus
      BY <3>1, ModDiff
    <3>3. 1 + (-1) = 0 /\ k + (-1) = k - 1
      BY <3>1
    <3> QED BY <3>1, <3>2, <3>3 DEF k
  <2> HIDE DEF p, t, lost
  <2> DEFINE k == (p - t) - 1
  <2>6. k \in Int /\ 0 < k + Modulus /\ k < 0 + Modulus /\ k % Modulus = 0 % Modulus
    BY <1>1, <1>2, <1>3, <2>2, <2>4, <2>5
  <2> HIDE DEF k
  <2>7. k = 0
    BY <2>6, ModSame
  <2>8. (p - t) - 1 = 0
    BY <2>7 DEF k
  <2> QED BY <1>1, <1>3, <2>1, <2>8
<1> QED BY <1>6, <1>7

LEMMA OutOfSequenceMoves ==
  ASSUME NEW d \in Ends, NEW e, NEW g, NEW f \in IFrame, Fits(d, e, g), e.open,
         f.seq # e.next_seq_expected,
         MaxBusy = 0 => Rests(e) /\ Due(f, e, g)
  PROVE  /\ Moves(d, e, OutOfSequence(e, f), g)
         /\ MaxBusy = 0 => Rests(OutOfSequence(e, f))
<1> DEFINE lost == (f.seq - e.next_seq_expected) % Modulus
           hold == [e EXCEPT !.srej_rcv_hold_q = Append(@, f)]
           asks == [hold EXCEPT !.srej_sent = TRUE]
           rej == [e EXCEPT !.rej_sent = TRUE]
           after == [e EXCEPT !.rej_after_srej = TRUE]
           Good(h) == Moves(d, e, h, g) /\ (MaxBusy = 0 => Rests(h))
           Near == Pos(f.piece) = Taken(e) + Len(e.srej_rcv_hold_q) + 1
<1>1. /\ e \in Ccb /\ Local(d, e) /\ e.srej_sent \in BOOLEAN
      /\ e.srej_rcv_hold_q \in Seq(IFrame)
  BY FitsCcb, CcbFields, CcbQueues DEF Fits
<1>2. Good(e)
  BY GoesSelf, GoesMoves
<1>3. Good(after)
  <2>1. Quiet(e, after)
    BY <1>1, FieldsQuiet DEF Timers
  <2> QED BY <2>1, <1>2, QuietSteps, GoesMoves
<1>4. \A h, k : Good(h) /\ Goes(d, h, k, g) => Good(k)
  <2> SUFFICES ASSUME NEW h, NEW k, Good(h), Goes(d, h, k, g) PROVE Good(k)
    OBVIOUS
  <2>1. Moves(d, h, k, g) /\ (Rests(h) => Rests(k))
    BY GoesMoves
  <2> QED BY <2>1, MovesOn
<1>5. \A h : Good(h) => Good(StopAckTimer(h))
  <2> SUFFICES ASSUME NEW h, Good(h) PROVE Good(StopAckTimer(h))
    OBVIOUS
  <2>1. Fits(d, h, g)
    BY DEF Moves
  <2>2. Goes(d, h, StopAckTimer(h), g)
    BY <2>1, FitsCcb, TimersQuiet, QuietSteps
  <2> QED BY <1>4, <2>2
<1>6. ASSUME NEW h, NEW type \in {"REJ", "SREJ"}, Good(h)
      PROVE  Good(StopAckTimer(l2c_fcr_send_S_frame(h, type, "0")))
  <2>1. Fits(d, h, g)
    BY <1>6 DEF Moves
  <2>2. Goes(d, h, l2c_fcr_send_S_frame(h, type, "0"), g)
    BY <2>1, SFrameGoes
  <2> DEFINE k == l2c_fcr_send_S_frame(h, type, "0")
  <2>3. Good(k)
    BY <1>4, <1>6, <2>2
  <2> HIDE DEF k
  <2>4. Good(StopAckTimer(k))
    BY <1>5, <2>3
  <2> QED BY <2>4 DEF k
<1>7. ASSUME MaxBusy = 0 => Near PROVE Good(asks) /\ (e.srej_sent => Good(hold))
  <2>1. Append(e.srej_rcv_hold_q, f) \in Seq(IFrame)
    BY <1>1, AppendProperties
  <2>2. Keeps(e, asks, f)
    BY <1>1, <2>1 DEF Keeps, SameSend, Ccb
  <2>3. e.srej_sent => Keeps(e, hold, f)
    BY <1>1, <2>1 DEF Keeps, SameSend, Ccb
  <2>4. ASSUME NEW h, Keeps(e, h, f) PROVE Good(h)
    BY <1>7, <2>4, KeepsMoves
  <2> HIDE DEF hold, asks, Good
  <2> QED BY <2>2, <2>3, <2>4
<1>8. Good(StopAckTimer(l2c_fcr_send_S_frame(rej, "REJ", "0")))
  <2>1. Quiet(e, rej)
    BY <1>1, FieldsQuiet DEF Timers
  <2>2. Good(rej)
    BY <2>1, <1>2, QuietSteps, GoesMoves
  <2> HIDE DEF rej, Good
  <2> QED BY <1>6, <2>2
<1>9. ASSUME MaxBusy = 0, lost < TxWin
      PROVE  /\ e.srej_sent /\ f.seq = NextSeq(Last(e.srej_rcv_hold_q).seq) => Near
             /\ ~e.srej_sent /\ ~(lost > 1) => Near
  <2>1. /\ Gathers(e) /\ Rests(e) /\ Due(f, e, g)
        /\ \A i \in 1 .. Len(e.srej_rcv_hold_q) : Carries(e.srej_rcv_hold_q[i], g.wrote)
    BY <1>9 DEF Fits, Joint, Pair
  <2> QED BY <1>1, <1>9, <2>1, NextHeld
<1>10. \/ OutOfSequence(e, f) = e
       \/ /\ lost < TxWin /\ e.srej_sent /\ f.seq = NextSeq(Last(e.srej_rcv_hold_q).seq)
          /\ OutOfSequence(e, f) = hold
       \/ OutOfSequence(e, f) = after
       \/ OutOfSequence(e, f) = StopAckTimer(l2c_fcr_send_S_frame(rej, "REJ", "0"))
       \/ /\ lost < TxWin /\ ~e.srej_sent /\ ~(lost > 1)
          /\ OutOfSequence(e, f) = StopAckTimer(l2c_fcr_send_S_frame(asks, "SREJ", "0"))
  <2> DEFINE sn == f.seq = NextSeq(Last(e.srej_rcv_hold_q).seq)
             room == Len(e.srej_rcv_hold_q) < TxWin
             sent == StopAckTimer(IF lost > 1 THEN l2c_fcr_send_S_frame(rej, "REJ", "0")
                                  ELSE l2c_fcr_send_S_frame(asks, "SREJ", "0"))
  <2>1. OutOfSequence(e, f) =
          CASE lost >= TxWin -> e
            [] lost < TxWin /\ e.srej_sent -> IF sn /\ room THEN hold ELSE after
            [] lost < TxWin /\ ~e.srej_sent /\ e.rej_sent -> e
            [] OTHER -> sent
    BY DEF OutOfSequence
  <2>2. lost \in Int /\ TxWin \in Int
    <3> DEFINE k == f.seq - e.next_seq_expected
    <3>1. f.seq \in Seqs /\ e.next_seq_expected \in Seqs /\ Seqs \subseteq Nat
      BY <1>1, CcbFields, SeqsNat DEF IFrame
    <3>2. k \in Int
      <4>1. f.seq \in Nat /\ e.next_seq_expected \in Nat
        BY <3>1
      <4> QED BY <4>1
    <3> HIDE DEF k
    <3>3. k % Modulus \in Seqs
      BY <3>2, ModHas
    <3>4. TxWin \in Nat
      BY ErtmAssumption
    <3>5. k % Modulus \in Int
      <4> DEFINE m == k % Modulus
      <4>1. m \in Nat
        BY <3>1, <3>3
      <4> HIDE DEF m
      <4>2. m \in Int
        BY <4>1
      <4> QED BY <4>2 DEF m
    <3> QED BY <3>4, <3>5 DEF k, lost
  <2> HIDE DEF lost, sn, room, hold, after, sent
  <2>3. \/ OutOfSequence(e, f) = e
        \/ lost < TxWin /\ e.srej_sent /\ sn /\ OutOfSequence(e, f) = hold
        \/ OutOfSequence(e, f) = after
        \/ lost < TxWin /\ ~e.srej_sent /\ OutOfSequence(e, f) = sent
    BY <1>1, <2>1, <2>2
  <2>4. IF lost > 1 THEN sent = StopAckTimer(l2c_fcr_send_S_frame(rej, "REJ", "0"))
                    ELSE sent = StopAckTimer(l2c_fcr_send_S_frame(asks, "SREJ", "0"))
    BY DEF sent
  <2> HIDE DEF asks, rej
  <2> QED BY <2>3, <2>4 DEF sn
<1> HIDE DEF asks, rej, after, hold, lost, Near, Good
<1>11. Good(OutOfSequence(e, f))
  <2>1. CASE OutOfSequence(e, f) = e \/ OutOfSequence(e, f) = after
    BY <1>2, <1>3, <2>1
  <2>2. CASE /\ lost < TxWin /\ e.srej_sent /\ f.seq = NextSeq(Last(e.srej_rcv_hold_q).seq)
             /\ OutOfSequence(e, f) = hold
    BY <1>7, <1>9, <2>2
  <2>3. CASE OutOfSequence(e, f) = StopAckTimer(l2c_fcr_send_S_frame(rej, "REJ", "0"))
    BY <1>8, <2>3
  <2>4. CASE /\ lost < TxWin /\ ~e.srej_sent /\ ~(lost > 1)
             /\ OutOfSequence(e, f) = StopAckTimer(l2c_fcr_send_S_frame(asks, "SREJ", "0"))
    <3>1. Good(asks)
      BY <1>7, <1>9, <2>4
    <3>2. Good(StopAckTimer(l2c_fcr_send_S_frame(asks, "SREJ", "0")))
      BY <1>6, <3>1
    <3> QED BY <2>4, <3>2
  <2> QED BY <1>10, <2>1, <2>2, <2>3, <2>4
<1> QED BY <1>11 DEF Good

-----------------------------------------------------------------------------
(* The frame that is next *)

(* The next frame, as far as the data path is concerned. *)
Takes(x, e, g) ==
  /\ Carries(x, g.wrote) /\ Pos(x.piece) = Taken(e) /\ Before(x.piece, g)
  /\ g.open => Taken(e) < Built(g)

(* The piece x joins those of its SDU, and f has one piece more than e. *)
Joins(e, f, x) ==
  LET sdu == Append(e.rx_sdu, x.piece) IN
  /\ f \in Ccb /\ SameSend(e, f) /\ f.retrans_q = e.retrans_q
  /\ f.open = e.open /\ f.cause = e.cause /\ f.out = e.out
  /\ f.local_busy = e.local_busy /\ f.srej_rcv_hold_q = e.srej_rcv_hold_q /\ ~f.srej_sent
  /\ f.next_seq_expected = NextSeq(x.seq)
  /\ IF Sar(x.piece) \in {"UNSEG", "END"}
     THEN f.rx_sdu = <<>> /\ f.rcvd = Append(e.rcvd, sdu)
     ELSE f.rx_sdu = sdu /\ f.rcvd = e.rcvd

(* The piece that is next, and what it makes of the SDU. *)
LEMMA PieceNext ==
  ASSUME NEW e \in Ccb, NEW x \in IFrame, Gathers(e), e.open,
         IsPiece(x.piece), Pos(x.piece) = Taken(e)
  PROVE  LET n == Len(e.rcvd) + 1
             m == Len(e.rx_sdu) + 1
             sdu == Append(e.rx_sdu, x.piece)
         IN  /\ n \in Nat \ {0} /\ m \in Nat \ {0} /\ m <= Pieces(n) /\ Pieces(n) \in Nat
             /\ x.piece[1] = n /\ x.piece[2] = m
             /\ sdu = [k \in 1 .. m |-> <<n, k>>] /\ Len(sdu) = m
             /\ Taken(e) = Off(n) + m - 1 /\ Off(n) \in Nat /\ Off(n + 1) = Off(n) + Pieces(n)
             /\ e.rx_sdu = <<>> <=> m = 1
<1> DEFINE n == Len(e.rcvd) + 1
           s == e.rx_sdu
           m == Len(s) + 1
           x1 == x.piece
<1>1. /\ s \in Seq(Piece) /\ Len(s) \in Nat /\ Len(e.rcvd) \in Nat
      /\ s = [k \in 1 .. Len(s) |-> <<n, k>>] /\ Len(s) < Pieces(n)
      /\ Taken(e) = Off(n) + Len(s)
  BY CcbQueues DEF Gathers, Taken
<1>2. n \in Nat \ {0} /\ m \in Nat \ {0} /\ m = Len(s) + 1
  BY <1>1
<1>3. Off(n) \in Nat /\ Pieces(n) \in Nat \ {0} /\ Off(n + 1) = Off(n) + Pieces(n)
  <2> HIDE DEF n
  <2> QED BY <1>2, OffNext
<1>4. x1[1] = n /\ x1[2] = m /\ x1 = <<x1[1], x1[2]>>
  <2>1. IsPiece(x1) /\ Off(n) <= Pos(x1) /\ Pos(x1) < Off(n + 1) /\ Pos(x1) = Off(n) + Len(s)
    BY <1>1, <1>3
  <2> HIDE DEF n, x1
  <2>2. x1[1] = n /\ x1[2] = Pos(x1) - Off(n) + 1
    BY <1>2, <2>1, PieceAt
  <2>3. x1[2] = m
    BY <1>1, <1>3, <2>1, <2>2
  <2> QED BY <2>1, <2>2, <2>3, PiecePos
<1>5. Append(s, x1) = [k \in 1 .. m |-> <<n, k>>] /\ Len(Append(s, x1)) = m
  <2> HIDE DEF n, x1, s
  <2> DEFINE t == Append(s, x1)
  <2>1. x1 = <<n, m>>
    BY <1>4
  <2>2. x1 \in Piece
    BY DEF IFrame, x1
  <2>3. /\ t \in Seq(Piece) /\ Len(t) = m /\ t[m] = x1
        /\ \A k \in 1 .. Len(s) : t[k] = s[k]
    BY <1>1, <1>2, <2>2, AppendProperties
  <2> HIDE DEF t
  <2>4. DOMAIN t = 1 .. m /\ t = [k \in DOMAIN t |-> t[k]]
    BY <1>2, <2>3
  <2>5. \A k \in 1 .. Len(s) : s[k] = <<n, k>>
    BY <1>1
  <2>6. \A k \in 1 .. m : t[k] = <<n, k>>
    <3>1. \A k \in 1 .. m : k = m \/ k \in 1 .. Len(s)
      BY <1>1
    <3> HIDE DEF m
    <3> QED BY <2>1, <2>3, <2>5, <3>1
  <2> HIDE DEF m
  <2>7. t = [k \in 1 .. m |-> <<n, k>>]
    BY <2>4, <2>6
  <2> QED BY <2>3, <2>7 DEF t
<1>6. s = <<>> <=> m = 1
  BY <1>1, <1>2, EmptySeq
<1>7. m <= Pieces(n) /\ Taken(e) = Off(n) + m - 1
  <2> HIDE DEF n, s
  <2> QED BY <1>1, <1>2, <1>3
<1> QED BY <1>2, <1>3, <1>4, <1>5, <1>6, <1>7

LEMMA JoinsGathers ==
  ASSUME NEW e \in Ccb, NEW f, NEW x \in IFrame, Gathers(e), e.open, Rests(e), Joins(e, f, x),
         IsPiece(x.piece), Pos(x.piece) = Taken(e), x.seq = Pos(x.piece) % Modulus
  PROVE  /\ Gathers(f) /\ Taken(f) = Taken(e) + 1
         /\ \/ f.rcvd = e.rcvd
            \/ Len(f.rcvd) = Len(e.rcvd) + 1 /\ Len(f.rcvd) = x.piece[1]
<1> DEFINE n == Len(e.rcvd) + 1
           m == Len(e.rx_sdu) + 1
           sdu == Append(e.rx_sdu, x.piece)
           whole == Sar(x.piece) \in {"UNSEG", "END"}
           q == e.srej_rcv_hold_q
<1>1. /\ n \in Nat \ {0} /\ m \in Nat \ {0} /\ m <= Pieces(n) /\ Pieces(n) \in Nat
      /\ x.piece[1] = n /\ x.piece[2] = m
      /\ sdu = [k \in 1 .. m |-> <<n, k>>] /\ Len(sdu) = m
      /\ Taken(e) = Off(n) + m - 1 /\ Off(n) \in Nat /\ Off(n + 1) = Off(n) + Pieces(n)
  BY PieceNext, Zenon
<1>2. whole <=> m = Pieces(n)
  <2>1. whole <=> x.piece[2] = Pieces(x.piece[1])
    BY SarIs
  <2> HIDE DEF n, m, whole
  <2> QED BY <1>1, <2>1
<1>3. /\ f \in Ccb /\ f.open /\ f.cause = e.cause /\ f.local_busy = e.local_busy
      /\ f.srej_rcv_hold_q = q /\ ~f.srej_sent /\ f.next_seq_expected = NextSeq(x.seq)
      /\ whole => f.rx_sdu = <<>> /\ f.rcvd = Append(e.rcvd, sdu)
      /\ ~whole => f.rx_sdu = sdu /\ f.rcvd = e.rcvd
  BY DEF Joins
<1>4. /\ e.rcvd \in Seq(Seq(Piece)) /\ Len(e.rcvd) \in Nat /\ Len(q) \in Nat
      /\ Taken(e) \in Nat
  BY CcbQueues, TakenNat
<1>5. /\ e.rcvd = [i \in 1 .. Len(e.rcvd) |-> Sdu(i)]
      /\ e.cause \in {"none", "peer", "tries"} /\ ~e.local_busy
  BY DEF Gathers
<1>6. f.next_seq_expected = (Taken(e) + 1) % Modulus
  <2> DEFINE t == Taken(e)
  <2>1. t \in Int /\ f.next_seq_expected = NextSeq(t % Modulus)
    BY <1>3, <1>4
  <2> HIDE DEF t
  <2>2. f.next_seq_expected = (t + 1) % Modulus
    BY <2>1, SeqUp
  <2> QED BY <2>2 DEF t
<1>7. \A i \in 1 .. Len(q) : Pos(q[i].piece) = Taken(e) + i
  <2> SUFFICES ASSUME NEW i \in 1 .. Len(q) PROVE Pos(q[i].piece) = Taken(e) + i
    OBVIOUS
  <2>1. e.srej_sent
    BY <1>4, EmptySeq DEF Rests
  <2>2. Pos(q[i].piece) = Taken(e) + i - 0
    BY <2>1 DEF Gathers
  <2> HIDE DEF q
  <2> QED BY <1>4, <2>2
<1> HIDE DEF sdu, q
<1>8. CASE whole
  <2>1. f.rx_sdu = <<>> /\ f.rcvd = Append(e.rcvd, sdu) /\ m = Pieces(n)
    BY <1>2, <1>3, <1>8
  <2>2. sdu = Sdu(n)
    <3> HIDE DEF n, m
    <3> QED BY <1>1, <2>1 DEF Sdu
  <2>3. Len(f.rcvd) = n /\ f.rcvd = [i \in 1 .. n |-> Sdu(i)]
    <3> DEFINE r == e.rcvd
               t == Append(r, sdu)
    <3>1. \A i \in 1 .. Len(r) : r[i] = Sdu(i)
      BY <1>4, <1>5
    <3>2. /\ r \in Seq(Seq(Piece)) /\ sdu \in Seq(Piece)
      <4>1. f.rcvd \in Seq(Seq(Piece)) /\ f.rcvd = t
        BY <1>3, <2>1, CcbQueues
      <4>2. e.rx_sdu \in Seq(Piece) /\ x.piece \in Piece
        BY CcbQueues DEF IFrame
      <4> QED BY <1>4, <4>2, AppendProperties DEF sdu
    <3> HIDE DEF r
    <3>3. /\ t \in Seq(Seq(Piece)) /\ Len(t) = Len(r) + 1 /\ t[Len(r) + 1] = sdu
          /\ \A i \in 1 .. Len(r) : t[i] = r[i]
      BY <3>2, AppendProperties
    <3> HIDE DEF t
    <3>4. n = Len(r) + 1 /\ Len(r) \in Nat
      BY <1>4 DEF r
    <3> HIDE DEF n
    <3>5. DOMAIN t = 1 .. n /\ t = [i \in DOMAIN t |-> t[i]] /\ Len(t) = n
      BY <3>3, <3>4
    <3>6. \A i \in 1 .. n : t[i] = Sdu(i)
      <4>1. \A i \in 1 .. n : i = n \/ i \in 1 .. Len(r)
        BY <3>4
      <4> QED BY <2>2, <3>1, <3>3, <3>4, <4>1
    <3>7. t = [i \in 1 .. n |-> Sdu(i)]
      BY <3>5, <3>6
    <3> QED BY <2>1, <3>5, <3>7 DEF t, r
  <2>4. Len(f.rx_sdu) = 0 /\ f.rx_sdu = [k \in 1 .. 0 |-> <<n + 1, k>>]
    <3>1. 1 .. 0 = {}
      OBVIOUS
    <3> QED BY <2>1, <3>1
  <2>5. Taken(f) = Taken(e) + 1
    <3>1. Taken(f) = Off(n + 1) + 0
      BY <1>3, <2>3, <2>4 DEF Taken
    <3> HIDE DEF n, m
    <3> QED BY <1>1, <2>1, <3>1
  <2>6. 0 < Pieces(n + 1)
    <3> DEFINE k == n + 1
    <3>1. k \in Nat \ {0}
      BY <1>1
    <3> HIDE DEF k
    <3>2. Pieces(k) \in Nat \ {0}
      BY <3>1, OffNext
    <3> QED BY <3>2 DEF k
  <2>7. Gathers(f)
    <3>1. /\ f.rcvd = [i \in 1 .. Len(f.rcvd) |-> Sdu(i)]
          /\ f.cause \in {"none", "peer", "tries"}
          /\ f.rx_sdu = [k \in 1 .. Len(f.rx_sdu) |-> <<Len(f.rcvd) + 1, k>>]
          /\ Len(f.rx_sdu) < Pieces(Len(f.rcvd) + 1)
          /\ ~f.local_busy
      <4> HIDE DEF n
      <4> QED BY <1>3, <1>5, <2>3, <2>4, <2>6
    <3>2. f.next_seq_expected = Taken(f) % Modulus
      BY <1>6, <2>5
    <3>3. \A i \in 1 .. Len(q) :
             Pos(q[i].piece) = Taken(f) + i - (IF f.srej_sent THEN 0 ELSE 1)
      BY <1>3, <1>4, <1>7, <2>5
    <3> HIDE DEF n, m
    <3> QED BY <1>3, <3>1, <3>2, <3>3 DEF Gathers
  <2>8. Len(f.rcvd) = Len(e.rcvd) + 1 /\ Len(f.rcvd) = x.piece[1]
    BY <1>1, <2>3
  <2> HIDE DEF n, m
  <2> QED BY <2>5, <2>7, <2>8
<1>9. CASE ~whole
  <2>1. f.rx_sdu = sdu /\ f.rcvd = e.rcvd /\ m # Pieces(n)
    BY <1>2, <1>3, <1>9
  <2>2. Taken(f) = Taken(e) + 1
    <3>1. Taken(f) = Off(n) + m
      BY <1>1, <1>3, <2>1 DEF Taken
    <3> HIDE DEF n, m
    <3> QED BY <1>1, <3>1
  <2>3. Gathers(f)
    <3>1. /\ f.rcvd = [i \in 1 .. Len(f.rcvd) |-> Sdu(i)]
          /\ f.cause \in {"none", "peer", "tries"}
          /\ ~f.local_busy
      BY <1>3, <1>5, <2>1
    <3>2. /\ f.rx_sdu = [k \in 1 .. Len(f.rx_sdu) |-> <<Len(f.rcvd) + 1, k>>]
          /\ Len(f.rx_sdu) < Pieces(Len(f.rcvd) + 1)
      <4>1. Len(f.rcvd) + 1 = n /\ Len(f.rx_sdu) = m
        BY <1>1, <2>1
      <4> HIDE DEF n, m
      <4> QED BY <1>1, <2>1, <4>1
    <3>3. f.next_seq_expected = Taken(f) % Modulus
      BY <1>6, <2>2
    <3>4. \A i \in 1 .. Len(q) :
             Pos(q[i].piece) = Taken(f) + i - (IF f.srej_sent THEN 0 ELSE 1)
      BY <1>3, <1>4, <1>7, <2>2
    <3> HIDE DEF n, m
    <3> QED BY <1>3, <3>1, <3>2, <3>3, <3>4 DEF Gathers
  <2> QED BY <2>1, <2>2, <2>3
<1> QED BY <1>8, <1>9

LEMMA JoinsMoves ==
  ASSUME NEW d \in Ends, NEW e, NEW f, NEW g, NEW x \in IFrame, Fits(d, e, g), e.open,
         Joins(e, f, x),
         MaxBusy = 0 => Rests(e) /\ Takes(x, e, g)
  PROVE  Moves(d, e, f, g) /\ (MaxBusy = 0 => Taken(f) = Taken(e) + 1)
<1> DEFINE sdu == Append(e.rx_sdu, x.piece)
           q == e.srej_rcv_hold_q
<1>1. /\ e \in Ccb /\ g \in Ccb /\ f \in Ccb /\ Local(d, e) /\ Local(Peer(d), g)
      /\ SameSend(e, f) /\ f.retrans_q = e.retrans_q /\ f.open = e.open /\ f.out = e.out
      /\ f.srej_rcv_hold_q = q /\ ~f.srej_sent
  BY FitsCcb DEF Fits, Joins
<1>2. /\ Len(q) \in Nat /\ Len(e.rcvd) \in Nat /\ Len(f.rcvd) \in Nat /\ e.complete \in Nat
      /\ e.rcvd \in Seq(Seq(Piece)) /\ f.rcvd \in Seq(Seq(Piece))
      /\ e.rx_sdu \in Seq(Piece) /\ x.piece \in Piece
  BY <1>1, CcbQueues, CcbFields DEF IFrame
<1>3. Local(d, f)
  BY <1>1, RecvLocal
<1>4. Len(e.rcvd) <= Len(f.rcvd)
  <2>1. sdu \in Seq(Piece)
    BY <1>2, AppendProperties
  <2>2. f.rcvd = e.rcvd \/ f.rcvd = Append(e.rcvd, sdu)
    BY DEF Joins
  <2> HIDE DEF sdu
  <2>3. Len(Append(e.rcvd, sdu)) = Len(e.rcvd) + 1
    BY <1>2, <2>1, AppendProperties
  <2> QED BY <1>2, <2>2, <2>3
<1>5. Onward(e, f)
  BY <1>1, <1>2, <1>4 DEF Onward, SameSend
<1>6. ASSUME MaxBusy = 0 PROVE Joint(f, g) /\ Taken(f) = Taken(e) + 1
  <2>1. /\ Joint(e, g) /\ Gathers(e) /\ Pair(g, e) /\ Rests(e) /\ Takes(x, e, g)
    BY <1>6 DEF Fits, Joint
  <2>2. /\ Gathers(f) /\ Taken(f) = Taken(e) + 1
        /\ \/ f.rcvd = e.rcvd
           \/ Len(f.rcvd) = Len(e.rcvd) + 1 /\ Len(f.rcvd) = x.piece[1]
    <3>1. IsPiece(x.piece) /\ Pos(x.piece) = Taken(e) /\ x.seq = Pos(x.piece) % Modulus
      BY <2>1 DEF Takes, Carries
    <3> QED BY <1>1, <2>1, <3>1, JoinsGathers
  <2>3. /\ Taken(e) \in Nat /\ Reach(e) \in Nat
        /\ Reach(f) = IF q = <<>> THEN Taken(e) + 1 ELSE Reach(e)
    <3>1. Taken(e) \in Nat /\ Reach(e) \in Nat
      BY <1>1, TakenNat
    <3>2. CASE q = <<>>
      <4>1. Reach(f) = Taken(f)
        BY <1>1, <3>2 DEF Reach
      <4> QED BY <2>2, <3>1, <3>2, <4>1
    <3>3. CASE q # <<>>
      <4>1. e.srej_sent
        BY <2>1, <3>3 DEF Rests
      <4>2. Reach(e) = Taken(e) + Len(q) + 1 /\ Reach(f) = Taken(f) + Len(q) + 0
        BY <1>1, <3>3, <4>1 DEF Reach
      <4> HIDE DEF q
      <4> QED BY <1>2, <2>2, <3>1, <3>3, <4>2
    <3> QED BY <3>1, <3>2, <3>3
  <2>4. g.open => Reach(f) <= Built(g)
    <3> SUFFICES ASSUME g.open PROVE Reach(f) <= Built(g)
      OBVIOUS
    <3>1. Built(g) \in Nat /\ Taken(e) < Built(g)
      BY <1>1, <2>1, BuiltNat DEF Takes
    <3>2. Reach(e) <= Built(g)
      BY <2>1 DEF Pair
    <3> QED BY <2>3, <3>1, <3>2
  <2>5. \A j \in 1 .. Len(g.out) : IsI(g.out[j]) => Reach(f) <= Pos(g.out[j].piece) + TxWin
    <3> SUFFICES ASSUME NEW j \in 1 .. Len(g.out), IsI(g.out[j])
                 PROVE  Reach(f) <= Pos(g.out[j].piece) + TxWin
      OBVIOUS
    <3>1. Pos(g.out[j].piece) \in Nat /\ TxWin \in Nat
      BY <1>1, PiecePos, ErtmAssumption DEF Local, Typed, Frames, Carries
    <3>2. Taken(e) < Pos(g.out[j].piece) + TxWin
      BY <2>1 DEF Takes, Before
    <3>3. Reach(e) <= Pos(g.out[j].piece) + TxWin
      BY <2>1 DEF Pair, Arrives, Within
    <3> QED BY <2>3, <3>1, <3>2, <3>3
  <2>6. \A i \in 1 .. Len(f.srej_rcv_hold_q) : Carries(f.srej_rcv_hold_q[i], g.wrote)
    BY <1>1, <2>1 DEF Pair
  <2>7. Len(f.rcvd) <= g.wrote
    BY <2>1, <2>2 DEF Pair, Takes, Carries
  <2>8. Taken(e) <= Taken(f) /\ f.open
    BY <1>1, <2>2, <2>3
  <2>9. Joint(f, g)
    BY <1>1, <1>4, <2>1, <2>2, <2>4, <2>5, <2>6, <2>7, <2>8, RecvJoint
  <2> QED BY <2>2, <2>9
<1> QED BY <1>1, <1>3, <1>5, <1>6 DEF Moves, Fits

LEMMA SarMoves ==
  ASSUME NEW d \in Ends, NEW e, NEW g, NEW f \in IFrame, Fits(d, e, g), e.open,
         MaxBusy = 0 => Rests(e) /\ Takes(f, e, g)
  PROVE  LET s == do_sar_reassembly([e EXCEPT !.rej_sent = FALSE, !.srej_sent = FALSE,
                                              !.next_seq_expected = NextSeq(f.seq)], f.piece)
         IN  /\ Moves(d, e, s, g)
             /\ s.open => s.srej_rcv_hold_q = e.srej_rcv_hold_q /\ ~s.srej_sent
             /\ MaxBusy = 0 => s.open /\ Taken(s) = Taken(e) + 1
<1> DEFINE h == [e EXCEPT !.rej_sent = FALSE, !.srej_sent = FALSE,
                          !.next_seq_expected = NextSeq(f.seq)]
           sdu == Append(e.rx_sdu, f.piece)
           whole == Sar(f.piece) \in {"UNSEG", "END"}
           s1 == [h EXCEPT !.rx_sdu = <<>>, !.rcvd = Append(e.rcvd, sdu)]
           s2 == [h EXCEPT !.rx_sdu = sdu]
           bad == l2cu_disconnect_chnl(h, "sar")
           s == do_sar_reassembly(h, f.piece)
           sar == Sar(f.piece)
           len == Pieces(sdu[1][1])
           ok == CASE sar \in {"UNSEG", "START"} -> e.rx_sdu = <<>>
                   [] sar = "CONT" -> e.rx_sdu # <<>> /\ Len(sdu) <= len
                   [] sar = "END" -> e.rx_sdu # <<>> /\ Len(sdu) = len
<1>1. /\ e \in Ccb /\ Local(d, e) /\ f.piece \in Piece /\ NextSeq(f.seq) \in Seqs
      /\ e.rx_sdu \in Seq(Piece) /\ e.rcvd \in Seq(Seq(Piece))
  BY FitsCcb, CcbQueues, SeqsNat DEF Fits, IFrame
<1>2. /\ h \in Ccb /\ SameSend(e, h) /\ h.retrans_q = e.retrans_q /\ h.open = e.open
      /\ h.cause = e.cause /\ h.out = e.out /\ h.local_busy = e.local_busy
      /\ h.srej_rcv_hold_q = e.srej_rcv_hold_q /\ ~h.srej_sent
      /\ h.next_seq_expected = NextSeq(f.seq)
      /\ h.rx_sdu = e.rx_sdu /\ h.rcvd = e.rcvd
  BY <1>1 DEF Ccb, SameSend
<1>3. s = IF ~ok THEN bad ELSE IF whole THEN s1 ELSE s2
  <2> DEFINE r == h.rx_sdu
             t == Append(r, f.piece)
             c == h.rcvd
             l == Pieces(t[1][1])
             okay == CASE sar \in {"UNSEG", "START"} -> r = <<>>
                       [] sar = "CONT" -> r # <<>> /\ Len(t) <= l
                       [] sar = "END" -> r # <<>> /\ Len(t) = l
  <2>1. r = e.rx_sdu /\ c = e.rcvd
    BY <1>2
  <2> HIDE DEF h
  <2>2. s = IF ~okay THEN bad
            ELSE IF whole THEN [h EXCEPT !.rx_sdu = <<>>, !.rcvd = Append(c, t)]
            ELSE [h EXCEPT !.rx_sdu = t]
    BY DEF do_sar_reassembly
  <2> HIDE DEF r, c, bad, s, whole, sar
  <2> QED BY <2>1, <2>2
<1>4. (whole => Joins(e, s1, f)) /\ (~whole => Joins(e, s2, f))
  <2>1. sdu \in Seq(Piece)
    BY <1>1, AppendProperties
  <2>2. Append(e.rcvd, sdu) \in Seq(Seq(Piece)) /\ <<>> \in Seq(Piece)
    <3> HIDE DEF sdu
    <3> QED BY <1>1, <2>1, AppendProperties, EmptySeq
  <2> HIDE DEF h
  <2> DEFINE rc == Append(e.rcvd, sdu)
  <2>3. s1 = [h EXCEPT !.rx_sdu = <<>>, !.rcvd = rc]
    OBVIOUS
  <2>4. s1 \in Ccb /\ s2 \in Ccb
    <3> HIDE DEF sdu, rc
    <3> QED BY <1>2, <2>1, <2>2, <2>3 DEF Ccb, rc
  <2>5. ASSUME whole PROVE Joins(e, s1, f)
    <3>1. s1.rx_sdu = <<>> /\ s1.rcvd = Append(e.rcvd, Append(e.rx_sdu, f.piece))
      BY <1>2 DEF Ccb
    <3> QED BY <1>2, <2>4, <2>5, <3>1 DEF Joins, SameSend, Ccb
  <2>6. ASSUME ~whole PROVE Joins(e, s2, f)
    <3>1. s2.rx_sdu = Append(e.rx_sdu, f.piece) /\ s2.rcvd = e.rcvd
      BY <1>2 DEF Ccb
    <3> QED BY <1>2, <2>4, <2>6, <3>1 DEF Joins, SameSend, Ccb
  <2> QED BY <2>5, <2>6
<1>5. ASSUME MaxBusy = 0 PROVE ok
  <2>1. Gathers(e) /\ IsPiece(f.piece) /\ Pos(f.piece) = Taken(e)
    BY <1>5 DEF Fits, Joint, Takes, Carries
  <2> DEFINE n == Len(e.rcvd) + 1
             m == Len(e.rx_sdu) + 1
  <2>2. /\ n \in Nat \ {0} /\ m \in Nat \ {0} /\ m <= Pieces(n) /\ Pieces(n) \in Nat
        /\ f.piece[1] = n /\ f.piece[2] = m
        /\ sdu = [k \in 1 .. m |-> <<n, k>>] /\ Len(sdu) = m
        /\ e.rx_sdu = <<>> <=> m = 1
    BY <1>1, <2>1, PieceNext, Zenon
  <2>3. /\ sar \in {"UNSEG", "START", "CONT", "END"}
        /\ sar \in {"UNSEG", "END"} <=> m = Pieces(n)
        /\ sar \in {"UNSEG", "START"} <=> m = 1
    <3> HIDE DEF n, m
    <3> QED BY <2>1, <2>2, SarIs
  <2>4. len = Pieces(n)
    <3> HIDE DEF n, m, sdu
    <3>1. 1 \in 1 .. m
      BY <2>2
    <3>2. sdu[1] = <<n, 1>>
      BY <2>2, <3>1
    <3> QED BY <3>2
  <2> HIDE DEF n, m, sdu, sar, len
  <2> QED BY <2>2, <2>3, <2>4
<1>6. (Moves(d, e, bad, g) /\ ~bad.open) \/ MaxBusy = 0
  <2> SUFFICES ASSUME MaxBusy # 0 PROVE Moves(d, e, bad, g) /\ ~bad.open
    OBVIOUS
  <2>1. Local(d, h)
    <3> HIDE DEF h
    <3> QED BY <1>1, <1>2, RecvLocal
  <2>2. Fits(d, h, g)
    BY <2>1 DEF Fits
  <2>3. Onward(e, h)
    <3>1. Len(e.rcvd) \in Nat /\ e.complete \in Nat
      BY <1>1, CcbQueues, CcbFields
    <3> HIDE DEF h
    <3> QED BY <1>2, <3>1 DEF Onward, SameSend
  <2> HIDE DEF h
  <2>4. Goes(d, h, bad, g)
    BY <2>2, DisconnectGoes DEF Causes
  <2>5. ~bad.open
    BY DEF l2cu_disconnect_chnl, Closed, InitCcb
  <2> HIDE DEF bad
  <2>6. Moves(d, e, h, g) /\ Moves(d, h, bad, g)
    BY <2>2, <2>3, <2>4, GoesMoves DEF Moves
  <2> QED BY <2>5, <2>6, MovesOn
<1> HIDE DEF s1, s2, bad, ok, h
<1>7. ASSUME NEW k, Joins(e, k, f)
      PROVE  /\ Moves(d, e, k, g)
             /\ k.open /\ k.srej_rcv_hold_q = e.srej_rcv_hold_q /\ ~k.srej_sent
             /\ MaxBusy = 0 => Taken(k) = Taken(e) + 1
  <2>1. k.open /\ k.srej_rcv_hold_q = e.srej_rcv_hold_q /\ ~k.srej_sent
    BY <1>7 DEF Joins
  <2>2. Moves(d, e, k, g) /\ (MaxBusy = 0 => Taken(k) = Taken(e) + 1)
    BY <1>7, JoinsMoves
  <2> QED BY <2>1, <2>2
<1>8. \/ s = bad /\ MaxBusy # 0
      \/ Joins(e, s, f)
  BY <1>3, <1>4, <1>5
<1> HIDE DEF s
<1>9. /\ Moves(d, e, s, g)
      /\ s.open => s.srej_rcv_hold_q = e.srej_rcv_hold_q /\ ~s.srej_sent
      /\ MaxBusy = 0 => s.open /\ Taken(s) = Taken(e) + 1
  <2>1. CASE s = bad /\ MaxBusy # 0
    BY <1>6, <2>1
  <2>2. CASE Joins(e, s, f)
    BY <1>7, <2>2
  <2> QED BY <1>8, <2>1, <2>2
<1> QED BY <1>9 DEF s, h

LEMMA AcknowledgeGoes ==
  ASSUME NEW d \in Ends, NEW e, NEW g, Fits(d, e, g), NEW delay
  PROVE  Goes(d, e, Acknowledge(e, delay), g)
<1> DEFINE h == [e EXCEPT !.ack = "ticking"]
           n == (e.next_seq_expected - e.last_ack_sent) % Modulus
           late == delay \/ (n < max_held_acks /\ ~e.local_busy)
           free == /\ e.xmit_hold_q = <<>> \/ l2c_fcr_is_flow_controlled(e)
                   /\ e.srej_rcv_hold_q = <<>>
<1>1. Acknowledge(e, delay) \in {e, h, SendReady(e, "0")}
  <2>1. Acknowledge(e, delay) =
          CASE ~e.open \/ n = 0 -> e
            [] e.open /\ n # 0 /\ late -> IF e.ack = "off" THEN h ELSE e
            [] OTHER -> IF free THEN SendReady(e, "0") ELSE e
    BY DEF Acknowledge
  <2>2. e.open \in BOOLEAN /\ late \in BOOLEAN
    BY FitsCcb, CcbFields
  <2> HIDE DEF h, late, n, free
  <2> QED BY <2>1, <2>2
<1>2. Goes(d, e, h, g)
  <2>1. Quiet(e, h)
    BY FitsCcb, FieldsQuiet DEF Timers
  <2> QED BY <2>1, QuietSteps
<1>3. Goes(d, e, SendReady(e, "0"), g)
  BY ReadyGoes
<1> QED BY <1>1, <1>2, <1>3, GoesSelf

(* From e to f the next piece was taken. *)
Follows(e, f) ==
  f.open => /\ f.srej_rcv_hold_q = e.srej_rcv_hold_q /\ ~f.srej_sent
            /\ Taken(f) = Taken(e) + 1

LEMMA InSequenceMoves ==
  ASSUME NEW d \in Ends, NEW e, NEW g, NEW f \in IFrame, NEW delay, Fits(d, e, g), e.open,
         MaxBusy = 0 => Rests(e) /\ Takes(f, e, g)
  PROVE  /\ Moves(d, e, InSequence(e, f, delay), g)
         /\ MaxBusy = 0 => Follows(e, InSequence(e, f, delay))
<1> DEFINE s == do_sar_reassembly([e EXCEPT !.rej_sent = FALSE, !.srej_sent = FALSE,
                                            !.next_seq_expected = NextSeq(f.seq)], f.piece)
           r == Acknowledge(s, delay)
<1>1. /\ Moves(d, e, s, g)
      /\ s.open => s.srej_rcv_hold_q = e.srej_rcv_hold_q /\ ~s.srej_sent
      /\ MaxBusy = 0 => s.open /\ Taken(s) = Taken(e) + 1
  BY SarMoves, Zenon
<1>2. InSequence(e, f, delay) = r
  BY DEF InSequence
<1> HIDE DEF s
<1>3. Goes(d, s, r, g)
  BY <1>1, AcknowledgeGoes DEF Moves
<1> HIDE DEF r
<1>4. Moves(d, e, r, g)
  BY <1>1, <1>3, GoesMoves, MovesOn
<1>5. ASSUME MaxBusy = 0, r.open
      PROVE  r.srej_rcv_hold_q = e.srej_rcv_hold_q /\ ~r.srej_sent /\ Taken(r) = Taken(e) + 1
  <2>1. SameRecv(s, r) /\ s.open
    BY <1>1, <1>3, <1>5 DEF Goes
  <2>2. Taken(r) = Taken(s)
    BY <1>5, <2>1 DEF Taken, SameRecv
  <2> QED BY <1>1, <1>5, <2>1, <2>2 DEF SameRecv
<1> QED BY <1>2, <1>4, <1>5 DEF Follows

LEMMA DueTakes ==
  ASSUME NEW d, NEW e, NEW g, NEW x \in IFrame, Local(d, e), Gathers(e), e.open, Due(x, e, g),
         x.seq = e.next_seq_expected
  PROVE  Takes(x, e, g)
<1> DEFINE p == Pos(x.piece)
           t == Taken(e)
<1>1. /\ p \in Nat /\ x.seq = p % Modulus /\ p < t + TxWin /\ Reach(e) <= p + TxWin
  BY PiecePos DEF Due, Carries, Within
<1>2. t \in Nat /\ Reach(e) \in Nat /\ t <= Reach(e)
  BY TakenNat DEF Local, Typed
<1>3. Modulus \in Nat /\ TxWin \in Nat \ {0} /\ 2 * TxWin <= Modulus
  BY ErtmAssumption
<1>4. t % Modulus = p % Modulus
  BY <1>1 DEF Gathers
<1> HIDE DEF p, t
<1>5. p < t + Modulus /\ t < p + Modulus /\ p \in Int /\ t \in Int
  BY <1>1, <1>2, <1>3
<1>6. p = t
  BY <1>4, <1>5, ModSame
<1> QED BY <1>6 DEF p, t, Takes, Due

LEMMA TakeFrameMoves ==
  ASSUME NEW d \in Ends, NEW e, NEW g, NEW f \in IFrame, NEW delay, Fits(d, e, g),
         MaxBusy = 0 /\ e.open => Rests(e) /\ Due(f, e, g)
  PROVE  /\ Moves(d, e, TakeFrame(e, f, delay), g)
         /\ MaxBusy = 0 /\ e.open /\ f.seq = e.next_seq_expected
              => Follows(e, TakeFrame(e, f, delay))
<1> DEFINE r == TakeFrame(e, f, delay)
<1>1. e.open \in BOOLEAN
  BY FitsCcb, CcbFields
<1>2. CASE ~e.open
  <2>1. r = e
    BY <1>2 DEF TakeFrame
  <2> QED BY <1>2, <2>1, GoesSelf, GoesMoves
<1>3. CASE e.open /\ f.seq # e.next_seq_expected
  <2>1. r \in {l2c_fcr_send_S_frame(e, "RNR", "0"), OutOfSequence(e, f)}
    BY <1>3 DEF TakeFrame
  <2>2. Moves(d, e, l2c_fcr_send_S_frame(e, "RNR", "0"), g)
    BY SFrameGoes, GoesMoves
  <2>3. Moves(d, e, OutOfSequence(e, f), g)
    BY <1>3, OutOfSequenceMoves
  <2> QED BY <1>3, <2>1, <2>2, <2>3
<1>4. CASE e.open /\ f.seq = e.next_seq_expected
  <2>1. r = InSequence(e, f, delay)
    BY <1>4 DEF TakeFrame
  <2>2. MaxBusy = 0 => Rests(e) /\ Takes(f, e, g)
    BY <1>4, DueTakes DEF Fits, Joint
  <2>3. Moves(d, e, InSequence(e, f, delay), g)
        /\ (MaxBusy = 0 => Follows(e, InSequence(e, f, delay)))
    BY <1>4, <2>2, InSequenceMoves
  <2> QED BY <2>1, <2>3
<1> QED BY <1>1, <1>2, <1>3, <1>4

LEMMA SameDue ==
  ASSUME NEW e, NEW f, NEW g, NEW x, SameRecv(e, f), f.open, e.open, Due(x, e, g)
  PROVE  Due(x, f, g) /\ Taken(f) = Taken(e)
<1>1. Taken(f) = Taken(e) /\ Reach(f) = Reach(e)
  BY SameViews
<1> QED BY <1>1 DEF Due, Within

LEMMA IFrameMoves ==
  ASSUME NEW d \in Ends, NEW e, NEW g, NEW f \in IFrame, NEW final, NEW delay,
         Fits(d, e, g), e.open,
         MaxBusy = 0 => Rests(e) /\ Due(f, e, g)
  PROVE  /\ Moves(d, e, process_i_frame(e, f, final, delay), g)
         /\ MaxBusy = 0 /\ f.seq = e.next_seq_expected
              => Follows(e, process_i_frame(e, f, final, delay))
<1> DEFINE h == IF final THEN RetransmitAll(e) ELSE e
           r == TakeFrame(h, f, delay)
<1>1. process_i_frame(e, f, final, delay) = r
  BY DEF process_i_frame
<1>2. Goes(d, e, h, g)
  BY RetransmitAllGoes, GoesSelf
<1> HIDE DEF h
<1>3. Fits(d, h, g) /\ Moves(d, e, h, g) /\ (Rests(e) => Rests(h))
  BY <1>2, GoesMoves DEF Goes
<1>4. ASSUME h.open PROVE SameRecv(e, h)
  BY <1>2, <1>4 DEF Goes
<1>5. MaxBusy = 0 /\ h.open => Rests(h) /\ Due(f, h, g)
  BY <1>3, <1>4, SameDue
<1>6. /\ Moves(d, h, r, g)
      /\ MaxBusy = 0 /\ h.open /\ f.seq = h.next_seq_expected => Follows(h, r)
  BY <1>3, <1>5, TakeFrameMoves
<1>7. Moves(d, e, r, g)
  BY <1>3, <1>6, MovesOn
<1>8. ASSUME MaxBusy = 0, f.seq = e.next_seq_expected PROVE Follows(e, r)
  <2>1. CASE h.open
    <3>1. /\ SameRecv(e, h) /\ Taken(h) = Taken(e)
      BY <1>4, <1>8, <2>1, SameDue
    <3>2. Follows(h, r)
      BY <1>6, <1>8, <2>1, <3>1 DEF SameRecv
    <3> HIDE DEF r
    <3> QED BY <3>1, <3>2 DEF Follows, SameRecv
  <2>2. CASE ~h.open
    <3>1. r = h
      BY <2>2 DEF TakeFrame
    <3> HIDE DEF r
    <3> QED BY <2>2, <3>1 DEF Follows
  <2> QED BY <2>1, <2>2
<1> QED BY <1>1, <1>7, <1>8

-----------------------------------------------------------------------------
(* The held frames *)

LEMMA RejectGoes ==
  ASSUME NEW d \in Ends, NEW e, NEW g, Fits(d, e, g)
  PROVE  Goes(d, e, RejectAfterSrej(e), g)
<1> DEFINE h == [e EXCEPT !.rej_after_srej = FALSE, !.rej_sent = TRUE]
<1>1. RejectAfterSrej(e) \in {l2c_fcr_send_S_frame(h, "REJ", "0"), e}
  BY DEF RejectAfterSrej
<1>2. Quiet(e, [e EXCEPT !.rej_after_srej = FALSE, !.rej_sent = TRUE])
  BY FitsCcb, FieldsQuiet DEF Timers
<1>3. Quiet(e, h)
  BY <1>2
<1> HIDE DEF h
<1>4. Fits(d, h, g)
  BY <1>3, QuietFits
<1>5. Goes(d, h, l2c_fcr_send_S_frame(h, "REJ", "0"), g)
  BY <1>4, SFrameGoes
<1>6. Goes(d, e, l2c_fcr_send_S_frame(h, "REJ", "0"), g)
  BY <1>3, <1>5, QuietThen
<1> QED BY <1>1, <1>6, GoesSelf

LEMMA AcknowledgeHeldGoes ==
  ASSUME NEW d \in Ends, NEW e, NEW g, Fits(d, e, g)
  PROVE  Goes(d, e, AcknowledgeHeld(e), g)
BY SFrameGoes, GoesSelf DEF AcknowledgeHeld

(* The queue is taken over before the frames in it are looked at. *)
LEMMA HeldStart ==
  ASSUME NEW d \in Ends, NEW e, NEW f, NEW g, Fits(d, e, g), e.open, ~e.srej_sent,
         f = [e EXCEPT !.srej_rcv_hold_q = <<>>]
  PROVE  /\ Moves(d, e, f, g) /\ f.srej_rcv_hold_q = <<>> /\ ~f.srej_sent
         /\ Taken(f) = Taken(e)
<1>1. /\ e \in Ccb /\ g \in Ccb /\ Local(d, e) /\ Local(Peer(d), g)
  BY FitsCcb DEF Fits
<1>2. /\ f \in Ccb /\ SameSend(e, f) /\ f.retrans_q = e.retrans_q
      /\ f.open = e.open /\ f.cause = e.cause /\ f.out = e.out
      /\ f.rcvd = e.rcvd /\ f.rx_sdu = e.rx_sdu
      /\ f.next_seq_expected = e.next_seq_expected /\ f.local_busy = e.local_busy
      /\ f.srej_rcv_hold_q = <<>> /\ f.srej_sent = e.srej_sent
  <2>1. <<>> \in Seq(IFrame)
    BY EmptySeq
  <2> QED BY <1>1, <2>1 DEF Ccb, SameSend
<1>3. Taken(f) = Taken(e) /\ Reach(f) = Taken(e)
  BY <1>2 DEF Taken, Reach
<1>4. Onward(e, f)
  <2>1. Len(e.rcvd) \in Nat /\ e.complete \in Nat
    BY <1>1, CcbQueues, CcbFields
  <2> QED BY <1>2, <2>1 DEF Onward, SameSend
<1>5. Local(d, f)
  BY <1>1, <1>2, RecvLocal
<1>6. ASSUME MaxBusy = 0 PROVE Joint(f, g)
  <2>1. Joint(e, g) /\ Gathers(e) /\ Pair(g, e)
    BY <1>6 DEF Fits, Joint
  <2>2. Len(f.srej_rcv_hold_q) = 0
    BY <1>2, EmptySeq
  <2>3. Gathers(f)
    BY <1>2, <1>3, <2>1, <2>2 DEF Gathers
  <2>4. /\ Taken(e) \in Nat /\ Reach(e) \in Nat /\ Taken(e) <= Reach(e)
        /\ Len(e.rcvd) \in Nat /\ TxWin \in Nat
    BY <1>1, TakenNat, CcbQueues, ErtmAssumption
  <2>5. g.open => Reach(f) <= Built(g)
    <3> SUFFICES ASSUME g.open PROVE Reach(f) <= Built(g)
      OBVIOUS
    <3>1. Built(g) \in Nat /\ Reach(e) <= Built(g)
      BY <1>1, <2>1, BuiltNat DEF Pair
    <3> QED BY <1>3, <2>4, <3>1
  <2>6. \A j \in 1 .. Len(g.out) :
            IsI(g.out[j]) => Reach(f) <= Pos(g.out[j].piece) + TxWin
    <3> SUFFICES ASSUME NEW j \in 1 .. Len(g.out), IsI(g.out[j])
                 PROVE  Reach(f) <= Pos(g.out[j].piece) + TxWin
      OBVIOUS
    <3>1. Pos(g.out[j].piece) \in Nat
      BY <1>1, PiecePos DEF Local, Typed, Frames, Carries
    <3>2. Reach(e) <= Pos(g.out[j].piece) + TxWin
      BY <2>1 DEF Pair, Arrives, Within
    <3> QED BY <1>3, <2>4, <3>1, <3>2
  <2>7. Len(f.rcvd) <= g.wrote
    BY <1>2, <2>1 DEF Pair
  <2>8. Taken(e) <= Taken(f) /\ Len(e.rcvd) <= Len(f.rcvd)
    BY <1>2, <1>3, <2>4
  <2>9. \A i \in 1 .. Len(f.srej_rcv_hold_q) : Carries(f.srej_rcv_hold_q[i], g.wrote)
    BY <2>2
  <2> QED BY <1>1, <1>2, <2>1, <2>3, <2>5, <2>6, <2>7, <2>8, <2>9, RecvJoint
<1> QED BY <1>1, <1>2, <1>3, <1>4, <1>5, <1>6 DEF Moves, Fits

(* Each of them is the next frame when its turn comes. *)
LEMMA HeldDue ==
  ASSUME NEW d \in Ends, NEW e, NEW g, Fits(d, e, g), MaxBusy = 0, e.open, ~e.srej_sent,
         NEW i \in 1 .. Len(e.srej_rcv_hold_q),
         NEW r, Fits(d, r, g), r.open, r.srej_rcv_hold_q = <<>>, Taken(r) = Taken(e) + i - 1
  PROVE  /\ Rests(r) /\ Due(e.srej_rcv_hold_q[i], r, g)
         /\ e.srej_rcv_hold_q[i].seq = r.next_seq_expected
<1> DEFINE x == e.srej_rcv_hold_q[i]
           p == Pos(x.piece)
           n == Len(e.srej_rcv_hold_q)
<1>1. /\ e \in Ccb /\ g \in Ccb /\ r \in Ccb /\ Gathers(e) /\ Gathers(r) /\ Pair(g, e)
      /\ Local(Peer(d), g) /\ Local(d, e)
  BY FitsCcb DEF Fits, Joint
<1>2. /\ Taken(e) \in Nat /\ Reach(e) \in Nat /\ Taken(r) \in Nat /\ n \in Nat
      /\ TxWin \in Nat \ {0}
  BY <1>1, TakenNat, CcbQueues, ErtmAssumption
<1>3. p = Taken(e) + i - 1 /\ p = Taken(r)
  BY <1>1 DEF Gathers
<1>4. Carries(x, g.wrote) /\ x.seq = p % Modulus
  BY <1>1 DEF Pair, Carries
<1>5. Reach(e) = Taken(e) + n /\ Reach(r) = Taken(r)
  <2>1. e.srej_rcv_hold_q # <<>>
    BY <1>2, EmptySeq
  <2> QED BY <1>2, <2>1 DEF Reach
<1>6. x.seq = r.next_seq_expected
  BY <1>1, <1>3, <1>4 DEF Gathers
<1>7. p \in Nat /\ p < Reach(e)
  BY <1>2, <1>3, <1>5
<1>8. Within(x.piece, r)
  BY <1>2, <1>3, <1>5 DEF Within
<1>9. Before(x.piece, g)
  <2> SUFFICES ASSUME NEW j \in 1 .. Len(g.out), IsI(g.out[j])
               PROVE  p < Pos(g.out[j].piece) + TxWin
    BY DEF Before
  <2>1. Pos(g.out[j].piece) \in Nat
    BY <1>1, PiecePos DEF Local, Typed, Frames, Carries
  <2>2. Reach(e) <= Pos(g.out[j].piece) + TxWin
    BY <1>1 DEF Pair, Arrives, Within
  <2> HIDE DEF p
  <2> QED BY <1>2, <1>7, <2>1, <2>2
<1>10. ASSUME g.open PROVE p < Built(g)
  <2>1. Built(g) \in Nat /\ Reach(e) <= Built(g)
    BY <1>1, <1>10, BuiltNat DEF Pair
  <2> HIDE DEF p
  <2> QED BY <1>2, <1>7, <2>1
<1>11. Rests(r)
  BY DEF Rests
<1> QED BY <1>4, <1>6, <1>8, <1>9, <1>10, <1>11 DEF Due

(* One round. *)
LEMMA OneHeldMoves ==
  ASSUME NEW d \in Ends, NEW e, NEW g, NEW f \in IFrame, Fits(d, e, g),
         MaxBusy = 0 /\ e.open => Rests(e) /\ Due(f, e, g) /\ f.seq = e.next_seq_expected
  PROVE  /\ Moves(d, e, ProcessOneHeld(e, f), g)
         /\ MaxBusy = 0 => Follows(e, ProcessOneHeld(e, f))
<1> DEFINE h == IF e.open THEN process_i_frame(e, f, f.f, TRUE) ELSE e
           r == RejectAfterSrej(h)
<1>1. ProcessOneHeld(e, f) = r
  BY DEF ProcessOneHeld
<1>2. Moves(d, e, h, g) /\ (MaxBusy = 0 => Follows(e, h))
  <2>1. CASE e.open
    BY <2>1, IFrameMoves
  <2>2. CASE ~e.open
    BY <2>2, GoesSelf, GoesMoves DEF Follows
  <2> QED BY <2>1, <2>2
<1> HIDE DEF h
<1>3. Goes(d, h, r, g)
  BY <1>2, RejectGoes DEF Moves
<1>4. Moves(d, e, r, g)
  BY <1>2, <1>3, GoesMoves, MovesOn
<1> HIDE DEF r
<1>5. ASSUME MaxBusy = 0, r.open PROVE Follows(e, r)
  <2>1. h.open /\ SameRecv(h, r)
    BY <1>3, <1>5 DEF Goes, Onward
  <2>2. Taken(r) = Taken(h)
    BY <1>5, <2>1, SameViews
  <2> QED BY <1>2, <1>5, <2>1, <2>2 DEF Follows, SameRecv
<1> QED BY <1>1, <1>4, <1>5 DEF Follows

LEMMA ProcessHeldMoves ==
  ASSUME NEW d \in Ends, NEW e, NEW g, Fits(d, e, g)
  PROVE  Moves(d, e, ProcessHeld(e), g) /\ (MaxBusy = 0 => Rests(ProcessHeld(e)))
<1> DEFINE q == e.srej_rcv_hold_q
           n == Len(q)
           s == [e EXCEPT !.srej_rcv_hold_q = <<>>]
           runs == e.open /\ ~e.local_busy /\ ~e.srej_sent /\ q # <<>>
<1>1. e \in Ccb /\ q \in Seq(IFrame) /\ n \in Nat
  BY FitsCcb, CcbQueues
<1>2. PICK r : /\ Rounds("held", s, q, n, r)
               /\ ProcessHeld(e) = IF runs THEN AcknowledgeHeld(r[n]) ELSE e
  BY <1>1, HeldRounds
<1>3. CASE ~runs
  <2>1. ProcessHeld(e) = e
    BY <1>2, <1>3
  <2>2. ASSUME MaxBusy = 0 PROVE Rests(e)
    <3>1. ~e.open => q = <<>>
      BY DEF Fits, Local, Typed
    <3>2. e.open => ~e.local_busy
      BY <2>2 DEF Fits, Joint, Gathers
    <3> QED BY <1>3, <3>1, <3>2 DEF Rests
  <2> QED BY <2>1, <2>2, GoesSelf, GoesMoves
<1>4. CASE runs
  <2> DEFINE Good(i) == /\ Moves(d, e, r[i], g)
                        /\ MaxBusy = 0 /\ r[i].open =>
                             /\ r[i].srej_rcv_hold_q = <<>> /\ ~r[i].srej_sent
                             /\ Taken(r[i]) = Taken(e) + i
             T == {i \in 0 .. n : Good(i)}
  <2>1. Taken(e) \in Nat
    BY <1>1, TakenNat
  <2>2. r[0] = s /\ \A i \in 1 .. n : r[i] = Round("held", r[i - 1], q[i])
    <3> HIDE DEF s, q, n
    <3> QED BY <1>1, <1>2, RoundsAre
  <2>3. \A i \in 1 .. n : r[i] = ProcessOneHeld(r[i - 1], q[i])
    <3> HIDE DEF q, n
    <3> QED BY <2>2 DEF Round
  <2>4. 0 \in T
    <3>1. /\ Moves(d, e, s, g) /\ s.srej_rcv_hold_q = <<>> /\ ~s.srej_sent
          /\ Taken(s) = Taken(e)
      BY <1>4, HeldStart
    <3> HIDE DEF s, n
    <3>2. Good(0)
      BY <2>1, <2>2, <3>1
    <3> HIDE DEF Good
    <3> QED BY <1>1, <3>2
  <2>5. ASSUME NEW i \in 1 .. n, i - 1 \in T PROVE i \in T
    <3> DEFINE a == r[i - 1]
    <3>1. /\ Moves(d, e, a, g) /\ Fits(d, a, g) /\ i \in Nat
          /\ MaxBusy = 0 /\ a.open =>
               /\ a.srej_rcv_hold_q = <<>> /\ ~a.srej_sent
               /\ Taken(a) = Taken(e) + (i - 1)
      BY <1>1, <2>5 DEF Moves
    <3>2. q[i] \in IFrame
      BY <1>1
    <3>3. r[i] = ProcessOneHeld(a, q[i])
      BY <2>3
    <3> DEFINE b == r[i]
    <3> HIDE DEF a
    <3>4. MaxBusy = 0 /\ a.open => Rests(a) /\ Due(q[i], a, g) /\ q[i].seq = a.next_seq_expected
      <4> SUFFICES ASSUME MaxBusy = 0, a.open
                   PROVE  Rests(a) /\ Due(q[i], a, g) /\ q[i].seq = a.next_seq_expected
        OBVIOUS
      <4>1. Taken(a) = Taken(e) + i - 1 /\ a.srej_rcv_hold_q = <<>>
        BY <2>1, <3>1
      <4> QED BY <1>4, <3>1, <4>1, HeldDue
    <3>5. Moves(d, a, b, g) /\ (MaxBusy = 0 => Follows(a, b))
      BY <3>1, <3>2, <3>3, <3>4, OneHeldMoves
    <3> HIDE DEF b
    <3>6. Moves(d, e, b, g)
      BY <3>1, <3>5, MovesOn
    <3>7. ASSUME MaxBusy = 0, b.open
          PROVE  b.srej_rcv_hold_q = <<>> /\ ~b.srej_sent /\ Taken(b) = Taken(e) + i
      <4>1. a.open
        BY <3>5, <3>7 DEF Moves, Onward
      <4> QED BY <2>1, <3>1, <3>5, <3>7, <4>1 DEF Follows
    <3>8. Good(i)
      BY <3>6, <3>7 DEF b
    <3> HIDE DEF Good
    <3> QED BY <1>1, <3>8
  <2>6. Good(n)
    <3>1. \A i \in 1 .. n : i - 1 \in T => i \in T
      BY <2>5
    <3>2. n \in T
      <4> HIDE DEF T, n
      <4> QED BY <1>1, <2>4, <3>1, AfterRounds
    <3> QED BY <3>2
  <2> DEFINE l == r[n]
  <2>7. Moves(d, e, l, g) /\ Fits(d, l, g) /\ (MaxBusy = 0 => Rests(l))
    <3>1. ~l.open => (Fits(d, l, g) => Rests(l))
      BY DEF Fits, Local, Typed, Rests
    <3> QED BY <2>6, <3>1 DEF Moves, Rests
  <2>8. ProcessHeld(e) = AcknowledgeHeld(l)
    BY <1>2, <1>4
  <2> HIDE DEF l
  <2>9. Goes(d, l, AcknowledgeHeld(l), g)
    BY <2>7, AcknowledgeHeldGoes
  <2> QED BY <2>7, <2>8, <2>9, GoesMoves, MovesOn
<1> QED BY <1>3, <1>4

-----------------------------------------------------------------------------
(* A received frame *)

(* What is known of a frame that g sent and e receives. *)
Arrived(f, e, g) ==
  /\ f \in Frame /\ f.k # "DISC"
  /\ MaxBusy = 0 => /\ Rests(e) /\ (IsI(f) => Due(f, e, g))
                    /\ \E a : AckIs(f, a, e, g)

LEMMA BodyMoves ==
  ASSUME NEW d \in Ends, NEW e, NEW g, NEW f \in Frame, NEW final, Fits(d, e, g), f.k # "DISC",
         MaxBusy = 0 /\ e.open => Rests(e) /\ (IsI(f) => Due(f, e, g))
  PROVE  Moves(d, e, ProcessBody(e, f, final), g)
<1>1. e.open \in BOOLEAN
  BY FitsCcb, CcbFields
<1>2. CASE ~e.open
  <2>1. ProcessBody(e, f, final) = e
    BY <1>2 DEF ProcessBody
  <2> QED BY <2>1, GoesSelf, GoesMoves
<1>3. CASE e.open /\ f.k = "I"
  <2>1. ProcessBody(e, f, final) = process_i_frame(e, f, final, FALSE)
    BY <1>3 DEF ProcessBody
  <2>2. f \in IFrame
    BY <1>3, FrameIs
  <2> QED BY <1>3, <2>1, <2>2, IFrameMoves DEF IsI
<1>4. CASE e.open /\ f.k # "I"
  <2> DEFINE x == [f EXCEPT !.f = final]
  <2>1. ProcessBody(e, f, final) = process_s_frame(e, x)
    BY <1>4 DEF ProcessBody
  <2>2. f.k \in {"RR", "RNR", "REJ", "SREJ"} /\ f \in SFrame
    BY <1>4, FrameIs
  <2>3. x.k = f.k
    BY <2>2 DEF SFrame
  <2> HIDE DEF x
  <2>4. Goes(d, e, process_s_frame(e, x), g)
    BY <1>4, <2>2, <2>3, SFrameHandled
  <2> QED BY <2>1, <2>4, GoesMoves
<1> QED BY <1>1, <1>2, <1>3, <1>4

LEMMA FrameMoves ==
  ASSUME NEW d \in Ends, NEW e, NEW g, NEW f, NEW final, Fits(d, e, g), e.open, Arrived(f, e, g)
  PROVE  /\ Moves(d, e, ProcessFrame(e, f, final), g)
         /\ MaxBusy = 0 => Rests(ProcessFrame(e, f, final))
<1> DEFINE r == process_reqseq(e, f)
           b == ProcessBody(r, f, final)
           h == ProcessHeld(b)
           m == SendMore(h)
<1>1. ProcessFrame(e, f, final) = m
  BY DEF ProcessFrame
<1>2. /\ f \in Frame /\ f.k # "DISC" /\ f.req \in Seqs
      /\ f.k \in {"I", "RR", "RNR", "REJ", "SREJ"}
  BY FrameIs DEF Arrived
<1>3. Goes(d, e, r, g)
  BY <1>2, ReqseqGoes DEF Arrived
<1> HIDE DEF r
<1>4. Fits(d, r, g) /\ Moves(d, e, r, g) /\ (Rests(e) => Rests(r))
  BY <1>3, GoesMoves DEF Goes
<1>5. MaxBusy = 0 /\ r.open => Rests(r) /\ (IsI(f) => Due(f, r, g))
  BY <1>3, <1>4, SameDue DEF Arrived, Goes
<1>6. Moves(d, r, b, g) /\ Fits(d, b, g)
  BY <1>2, <1>4, <1>5, BodyMoves DEF Moves
<1> HIDE DEF b
<1>7. Moves(d, b, h, g) /\ Fits(d, h, g) /\ (MaxBusy = 0 => Rests(h))
  BY <1>6, ProcessHeldMoves DEF Moves
<1> HIDE DEF h
<1>8. Moves(d, h, m, g) /\ (Rests(h) => Rests(m))
  BY <1>7, SendMoreGoes, GoesMoves
<1> HIDE DEF m
<1>9. Moves(d, e, b, g)
  BY <1>4, <1>6, MovesOn
<1>10. Moves(d, e, h, g)
  BY <1>7, <1>9, MovesOn
<1> QED BY <1>1, <1>7, <1>8, <1>10, MovesOn

(* What an answered poll leaves. *)
LEMMA AnsweredQuiet ==
  ASSUME NEW e \in Ccb, NEW f,
         f = l2c_fcr_stop_timer([e EXCEPT !.wait_ack = FALSE,
                        !.num_tries = IF e.waiting_for_ack_q = <<>> THEN 0 ELSE @])
  PROVE  Quiet(e, f)
<1> DEFINE n == IF e.waiting_for_ack_q = <<>> THEN 0 ELSE e.num_tries
           h == [e EXCEPT !.wait_ack = FALSE, !.num_tries = n]
<1>1. n \in Nat
  BY CcbFields
<1>2. f = l2c_fcr_stop_timer(h)
  OBVIOUS
<1> HIDE DEF n
<1>3. Quiet(e, h)
  BY <1>1, FieldsQuiet DEF Timers
<1> HIDE DEF h
<1>4. Quiet(h, f)
  BY <1>2, <1>3, TimersQuiet DEF Quiet
<1> QED BY <1>3, <1>4, QuietChain

LEMMA QuietArrived ==
  ASSUME NEW e, NEW h, NEW g, NEW f, e.open, Quiet(e, h), Arrived(f, e, g)
  PROVE  Arrived(f, h, g)
<1>1. SameSend(e, h) /\ SameRecv(e, h) /\ h.open
  BY DEF Quiet
<1>2. Heard(h) = Heard(e) /\ Acknowledged(g, h) = Acknowledged(g, e)
  BY <1>1, SameViews DEF Acknowledged
<1>3. IsI(f) /\ Due(f, e, g) => Due(f, h, g)
  BY <1>1, SameDue
<1>4. Rests(e) => Rests(h)
  BY <1>1 DEF Rests, SameRecv
<1>5. \A a : AckIs(f, a, e, g) => AckIs(f, a, h, g)
  BY <1>2 DEF AckIs
<1> QED BY <1>3, <1>4, <1>5 DEF Arrived

LEMMA PduMoves ==
  ASSUME NEW d \in Ends, NEW e, NEW g, NEW f, Fits(d, e, g), e.open, Arrived(f, e, g)
  PROVE  /\ Moves(d, e, l2c_fcr_proc_pdu(e, f), g)
         /\ MaxBusy = 0 => Rests(l2c_fcr_proc_pdu(e, f))
<1> DEFINE a == l2c_fcr_stop_timer([e EXCEPT !.wait_ack = FALSE,
                        !.num_tries = IF e.waiting_for_ack_q = <<>> THEN 0 ELSE @])
           s == SendFinal(e)
<1>1. l2c_fcr_proc_pdu(e, f) =
        IF e.wait_ack /\ ~f.f
        THEN IF f.p THEN [s EXCEPT !.timer = "ticking"] ELSE e
        ELSE ProcessFrame(IF e.wait_ack THEN a ELSE e, f, e.wait_ack)
  BY DEF l2c_fcr_proc_pdu
<1>2. Quiet(e, a)
  BY FitsCcb, AnsweredQuiet
<1> HIDE DEF a
<1>3. Fits(d, a, g) /\ Moves(d, e, a, g)
  BY <1>2, QuietFits, QuietSteps, GoesMoves
<1>4. a.open /\ Arrived(f, a, g)
  BY <1>2, QuietArrived DEF Quiet
<1>5. \A final : /\ Moves(d, e, ProcessFrame(e, f, final), g)
                 /\ MaxBusy = 0 => Rests(ProcessFrame(e, f, final))
  BY FrameMoves
<1>6. \A final : /\ Moves(d, e, ProcessFrame(a, f, final), g)
                 /\ MaxBusy = 0 => Rests(ProcessFrame(a, f, final))
  <2> SUFFICES ASSUME NEW final
               PROVE  /\ Moves(d, e, ProcessFrame(a, f, final), g)
                      /\ MaxBusy = 0 => Rests(ProcessFrame(a, f, final))
    OBVIOUS
  <2>1. /\ Moves(d, a, ProcessFrame(a, f, final), g)
        /\ MaxBusy = 0 => Rests(ProcessFrame(a, f, final))
    BY <1>3, <1>4, FrameMoves
  <2> QED BY <1>3, <2>1, MovesOn
<1>7. Goes(d, e, [s EXCEPT !.timer = "ticking"], g)
  <2>1. Goes(d, e, s, g)
    BY ReadyGoes
  <2>2. s \in Ccb
    BY <2>1, FitsCcb DEF Goes
  <2> HIDE DEF s
  <2>3. Quiet(s, [s EXCEPT !.timer = "ticking"])
    BY <2>2, FieldsQuiet DEF Timers
  <2> QED BY <2>1, <2>3, ThenQuiet
<1>8. MaxBusy = 0 => Rests(e)
  BY DEF Arrived
<1>9. /\ Moves(d, e, [s EXCEPT !.timer = "ticking"], g)
      /\ MaxBusy = 0 => Rests([s EXCEPT !.timer = "ticking"])
  BY <1>7, <1>8, GoesMoves
<1>10. Moves(d, e, e, g)
  BY GoesSelf, GoesMoves
<1> HIDE DEF s
<1> QED BY <1>1, <1>5, <1>6, <1>8, <1>9, <1>10

-----------------------------------------------------------------------------
(* The steps keep the inductive invariant *)

IInv ==
  /\ ccb \in [Ends -> Ccb] /\ link \in [Ends -> Seq(Frame)]
  /\ busy \in [Ends -> Nat] /\ losses \in 0 .. MaxLoss
  /\ \A d \in Ends : /\ Fits(d, Self(d), Self(Peer(d)))
                     /\ MaxBusy = 0 => Rests(Self(d))

LEMMA FitsSym ==
  ASSUME NEW d \in Ends, NEW e, NEW g, Fits(d, e, g)
  PROVE  Fits(Peer(d), g, e)
BY EndsPeer DEF Fits, Joint

(* The end and its frames after a step that takes over e. *)
LEMMA CommitIs ==
  ASSUME ccb \in [Ends -> Ccb], link \in [Ends -> Seq(Frame)], NEW d \in Ends, NEW e \in Ccb,
         ccb' = [ccb EXCEPT ![d] = [e EXCEPT !.out = <<>>]]
  PROVE  /\ ccb' \in [Ends -> Ccb]
         /\ ccb'[d] = [e EXCEPT !.out = <<>>] /\ ccb'[Peer(d)] = ccb[Peer(d)]
         /\ link'[d] = e.out => Self(d)' = e
<1> DEFINE r == [e EXCEPT !.out = <<>>]
<1>1. r \in Ccb
  <2>1. <<>> \in Seq(Frame)
    BY EmptySeq
  <2> QED BY <2>1 DEF Ccb
<1>2. [r EXCEPT !.out = e.out] = e
  BY DEF Ccb
<1> HIDE DEF r
<1>3. ccb' = [ccb EXCEPT ![d] = r]
  BY DEF r
<1>4. /\ ccb' \in [Ends -> Ccb] /\ ccb'[d] = r /\ ccb'[Peer(d)] = ccb[Peer(d)]
  BY <1>1, <1>3, EndsPeer
<1>5. ASSUME link'[d] = e.out PROVE Self(d)' = e
  BY <1>2, <1>4, <1>5 DEF Self
<1> QED BY <1>4, <1>5 DEF r

LEMMA SelfIs ==
  ASSUME ccb \in [Ends -> Ccb], link \in [Ends -> Seq(Frame)], NEW d \in Ends
  PROVE  /\ Self(d) \in Ccb /\ Self(d).out = link[d]
         /\ Self(d).open = ccb[d].open /\ Self(d).wrote = ccb[d].wrote
         /\ Self(d).rcvd = ccb[d].rcvd /\ Self(d).complete = ccb[d].complete
         /\ Self(d).cause = ccb[d].cause /\ Self(d).srej_sent = ccb[d].srej_sent
         /\ Self(d).srej_rcv_hold_q = ccb[d].srej_rcv_hold_q
         /\ Self(d).waiting_for_ack_q = ccb[d].waiting_for_ack_q
         /\ Self(d).next_tx_seq = ccb[d].next_tx_seq
         /\ Self(d).last_rx_ack = ccb[d].last_rx_ack
         /\ Self(d).next_seq_expected = ccb[d].next_seq_expected
         /\ Self(d).last_ack_sent = ccb[d].last_ack_sent
         /\ Self(d).timer = ccb[d].timer /\ Self(d).ack = ccb[d].ack
<1>1. ccb[d] \in Ccb /\ link[d] \in Seq(Frame)
  OBVIOUS
<1> QED BY <1>1 DEF Self, Ccb

LEMMA InvTwo ==
  ASSUME NEW d \in Ends, NEW e, NEW h, Fits(d, e, h), MaxBusy = 0 => Rests(e) /\ Rests(h),
         (ccb \in [Ends -> Ccb] /\ link \in [Ends -> Seq(Frame)])',
         Self(d)' = e, Self(Peer(d))' = h,
         (losses \in 0 .. MaxLoss /\ busy \in [Ends -> Nat])'
  PROVE  IInv'
<1>1. Fits(Peer(d), h, e)
  BY FitsSym
<1>2. ASSUME NEW c \in Ends
      PROVE  Fits(c, Self(c)', Self(Peer(c))') /\ (MaxBusy = 0 => Rests(Self(c)'))
  <2>1. CASE c = d
    BY <2>1
  <2>2. CASE c = Peer(d)
    BY <1>1, <2>2, EndsPeer
  <2> QED BY <2>1, <2>2, EndsPeer
<1> QED BY <1>2 DEF IInv

(* What the two applications see of a step of d that writes nothing. *)
Moved(d) == /\ Onward(Self(d), Self(d)')
            /\ ccb'[Peer(d)] = ccb[Peer(d)]

LEMMA CommitInv ==
  ASSUME IInv, NEW d \in Ends, NEW e, Commit(d, e), Fits(d, e, Self(Peer(d))),
         MaxBusy = 0 => Rests(e), losses' = losses, busy' \in [Ends -> Nat]
  PROVE  IInv' /\ Self(d)' = e /\ ccb'[Peer(d)] = ccb[Peer(d)]
<1>1. e \in Ccb /\ ccb \in [Ends -> Ccb] /\ link \in [Ends -> Seq(Frame)]
  BY FitsCcb DEF IInv
<1>2. e.out \in Seq(Frame)
  BY <1>1, CcbQueues
<1>3. /\ link' \in [Ends -> Seq(Frame)] /\ link'[d] = e.out
      /\ link'[Peer(d)] = link[Peer(d)]
  BY <1>1, <1>2, EndsPeer DEF Commit
<1>4. ccb' \in [Ends -> Ccb] /\ Self(d)' = e /\ ccb'[Peer(d)] = ccb[Peer(d)]
  BY <1>1, <1>3, CommitIs DEF Commit
<1>5. Self(Peer(d))' = Self(Peer(d))
  BY <1>3, <1>4 DEF Self
<1>6. MaxBusy = 0 => Rests(Self(Peer(d)))
  BY EndsPeer DEF IInv
<1>7. losses' \in 0 .. MaxLoss
  BY DEF IInv
<1> HIDE DEF Self
<1>8. IInv'
  BY <1>3, <1>4, <1>5, <1>6, <1>7, InvTwo
<1> QED BY <1>4, <1>8

(* A step of d that keeps the invariant, whatever it sends. *)
LEMMA GoesInv ==
  ASSUME IInv, NEW d \in Ends, NEW f, Commit(d, f), Goes(d, Self(d), f, Self(Peer(d))),
         losses' = losses, busy' \in [Ends -> Nat]
  PROVE  IInv' /\ Moved(d)
<1>1. Fits(d, f, Self(Peer(d))) /\ Onward(Self(d), f)
  BY DEF Goes
<1>2. MaxBusy = 0 => Rests(f)
  BY GoesMoves DEF IInv
<1>3. IInv' /\ Self(d)' = f /\ ccb'[Peer(d)] = ccb[Peer(d)]
  BY <1>1, <1>2, CommitInv
<1> QED BY <1>1, <1>3 DEF Moved

LEMMA BusyNat ==
  ASSUME IInv, UNCHANGED busy
  PROVE  busy' \in [Ends -> Nat]
BY DEF IInv

LEMMA TimeoutInv ==
  ASSUME IInv, NEW d \in Ends, Timeout(d) \/ AckTimeout(d)
  PROVE  IInv' /\ Moved(d)
<1> DEFINE e == Self(d)
           g == Self(Peer(d))
           t == [e EXCEPT !.timer_msg = FALSE]
           a == [e EXCEPT !.ack_msg = FALSE]
<1>1. Fits(d, e, g) /\ e \in Ccb
  BY FitsCcb DEF IInv
<1>2. losses' = losses /\ busy' \in [Ends -> Nat]
  BY BusyNat DEF Timeout, AckTimeout
<1>3. \/ Commit(d, l2c_fcr_proc_tout(t))
      \/ Commit(d, l2c_fcr_proc_ack_tout(a))
  BY DEF Timeout, AckTimeout
<1> HIDE DEF e, g
<1>4. Quiet(e, t) /\ Quiet(e, a)
  BY <1>1, FieldsQuiet DEF Timers
<1> HIDE DEF t, a
<1>5. Fits(d, t, g) /\ Fits(d, a, g)
  BY <1>1, <1>4, QuietFits
<1>6. Goes(d, t, l2c_fcr_proc_tout(t), g) /\ Goes(d, a, l2c_fcr_proc_ack_tout(a), g)
  BY <1>5, ToutGoes, AckToutGoes
<1>7. Goes(d, e, l2c_fcr_proc_tout(t), g) /\ Goes(d, e, l2c_fcr_proc_ack_tout(a), g)
  BY <1>1, <1>4, <1>6, QuietThen
<1> QED BY <1>2, <1>3, <1>7, GoesInv DEF e, g

LEMMA CompletedInv ==
  ASSUME IInv, NEW d \in Ends, CompletedPackets(d)
  PROVE  IInv' /\ Moved(d)
<1>1. Goes(d, Self(d), l2c_link_check_send_pkts(Self(d)), Self(Peer(d)))
  BY CheckSendGoes DEF IInv
<1>2. losses' = losses /\ busy' \in [Ends -> Nat]
  BY BusyNat DEF CompletedPackets
<1> QED BY <1>1, <1>2, GoesInv DEF CompletedPackets

LEMMA AlarmInv ==
  ASSUME IInv, NEW d \in Ends, Alarm(d) \/ AckAlarm(d)
  PROVE  IInv' /\ Moved(d)
<1> DEFINE e == Self(d)
           g == Self(Peer(d))
           t == [[e EXCEPT !.timer = "expired"] EXCEPT !.timer_msg = TRUE]
           a == [[e EXCEPT !.ack = "expired"] EXCEPT !.ack_msg = TRUE]
<1>1. /\ Fits(d, e, g) /\ e \in Ccb /\ ccb \in [Ends -> Ccb] /\ link \in [Ends -> Seq(Frame)]
      /\ MaxBusy = 0 => Rests(g)
  BY FitsCcb, EndsPeer DEF IInv
<1>2. losses' \in 0 .. MaxLoss /\ busy' \in [Ends -> Nat] /\ link' = link
  BY BusyNat DEF Alarm, AckAlarm, IInv
<1>3. ccb'[Peer(d)] = ccb[Peer(d)] /\ Self(Peer(d))' = g
  <2>1. ccb'[Peer(d)] = ccb[Peer(d)]
    BY <1>1, EndsPeer DEF Alarm, AckAlarm
  <2> QED BY <1>2, <2>1 DEF Self
<1>4. /\ Self(d)' \in {t, a} /\ ccb' \in [Ends -> Ccb]
  <2>1. ccb[d] \in Ccb /\ link[d] \in Seq(Frame)
    BY <1>1
  <2>2. CASE Alarm(d)
    <3>1. /\ ccb' = [ccb EXCEPT ![d] = [ccb[d] EXCEPT !.timer = "expired", !.timer_msg = TRUE]]
          /\ [ccb[d] EXCEPT !.timer = "expired", !.timer_msg = TRUE] \in Ccb
      BY <1>1, <2>1, <2>2 DEF Alarm, Ccb, Timers
    <3>2. ccb'[d] = [ccb[d] EXCEPT !.timer = "expired", !.timer_msg = TRUE]
      BY <1>1, <3>1
    <3>3. Self(d)' = t
      BY <1>2, <2>1, <3>2 DEF Self, Ccb
    <3> QED BY <1>1, <3>1, <3>3
  <2>3. CASE AckAlarm(d)
    <3>1. /\ ccb' = [ccb EXCEPT ![d] = [ccb[d] EXCEPT !.ack = "expired", !.ack_msg = TRUE]]
          /\ [ccb[d] EXCEPT !.ack = "expired", !.ack_msg = TRUE] \in Ccb
      BY <1>1, <2>1, <2>3 DEF AckAlarm, Ccb, Timers
    <3>2. ccb'[d] = [ccb[d] EXCEPT !.ack = "expired", !.ack_msg = TRUE]
      BY <1>1, <3>1
    <3>3. Self(d)' = a
      BY <1>2, <2>1, <3>2 DEF Self, Ccb
    <3> QED BY <1>1, <3>1, <3>3
  <2> QED BY <2>2, <2>3
<1>5. Goes(d, e, t, g) /\ Goes(d, e, a, g)
  <2> DEFINE b == [e EXCEPT !.timer = "expired"]
             c == [e EXCEPT !.ack = "expired"]
  <2> HIDE DEF e, g
  <2>1. Quiet(e, b) /\ Quiet(e, c)
    BY <1>1, FieldsQuiet DEF Timers
  <2> HIDE DEF b, c
  <2>2. Quiet(b, [b EXCEPT !.timer_msg = TRUE]) /\ Quiet(c, [c EXCEPT !.ack_msg = TRUE])
    BY <2>1, FieldsQuiet DEF Timers, Quiet
  <2>3. Quiet(e, t) /\ Quiet(e, a)
    BY <2>1, <2>2, QuietChain DEF b, c
  <2> HIDE DEF t, a
  <2> QED BY <1>1, <2>3, QuietSteps
<1> HIDE DEF t, a, g
<1>6. Fits(d, Self(d)', g) /\ Onward(e, Self(d)') /\ (MaxBusy = 0 => Rests(Self(d)'))
  <2>1. MaxBusy = 0 => Rests(e)
    BY DEF IInv
  <2> QED BY <1>4, <1>5, <2>1, GoesMoves DEF Goes
<1> DEFINE f == Self(d)'
<1>7. IInv'
  <2>1. link' \in [Ends -> Seq(Frame)]
    BY <1>1, <1>2
  <2>2. f = Self(d)'
    OBVIOUS
  <2>3. Fits(d, f, g) /\ (MaxBusy = 0 => Rests(f))
    BY <1>6
  <2> HIDE DEF f
  <2> QED BY <1>1, <1>2, <1>3, <1>4, <2>1, <2>2, <2>3, InvTwo
<1> QED BY <1>3, <1>6, <1>7 DEF Moved

(* The end and its frames after a step that also takes the first frame of  *)
(* the peer.                                                               *)
LEMMA PeerTail ==
  ASSUME ccb \in [Ends -> Ccb], link \in [Ends -> Seq(Frame)], NEW d \in Ends,
         link[Peer(d)] # <<>>, ccb'[Peer(d)] = ccb[Peer(d)],
         link'[Peer(d)] = Tail(link[Peer(d)])
  PROVE  /\ Self(Peer(d))' = [Self(Peer(d)) EXCEPT !.out = Tail(@)]
         /\ Tail(link[Peer(d)]) \in Seq(Frame)
<1>1. ccb[Peer(d)] \in Ccb /\ link[Peer(d)] \in Seq(Frame)
  BY EndsPeer
<1>2. Tail(link[Peer(d)]) \in Seq(Frame)
  BY <1>1, HeadTailProperties
<1>3. Self(Peer(d))' = [Self(Peer(d)) EXCEPT !.out = Tail(@)]
  BY <1>1 DEF Self, Ccb
<1> QED BY <1>2, <1>3

(* The frame that e receives, and what g is without it. *)
LEMMA HeadArrived ==
  ASSUME IInv, NEW d \in Ends, link[Peer(d)] # <<>>, NEW h,
         h = [Self(Peer(d)) EXCEPT !.out = Tail(@)]
  PROVE  /\ Fits(d, Self(d), h) /\ (MaxBusy = 0 => Rests(h))
         /\ ccb[d].open /\ Head(link[Peer(d)]).k # "DISC"
              => Arrived(Head(link[Peer(d)]), Self(d), h)
<1> DEFINE e == Self(d)
           g == Self(Peer(d))
           x == Head(link[Peer(d)])
<1>1. /\ Fits(d, e, g) /\ e \in Ccb /\ g \in Ccb /\ Peer(d) \in Ends
      /\ MaxBusy = 0 => Rests(e) /\ Rests(g)
  BY FitsCcb, EndsPeer DEF IInv
<1>2. g.out = link[Peer(d)] /\ e.open = ccb[d].open
  BY <1>1, SelfIs DEF IInv
<1> HIDE DEF e, g
<1>3. h = [g EXCEPT !.out = Tail(@)]
  BY DEF g
<1>4. /\ Fits(d, e, h) /\ Head(g.out) \in Frame
      /\ MaxBusy = 0 /\ e.open =>
           /\ IsI(Head(g.out)) => Due(Head(g.out), e, h)
           /\ Head(g.out).k # "DISC" => \E a : AckIs(Head(g.out), a, e, h)
  BY <1>1, <1>2, <1>3, HeadGoes
<1>5. SameRecv(g, h)
  BY <1>1, <1>2, <1>3, OutTail, Zenon
<1>6. MaxBusy = 0 => Rests(h)
  BY <1>1, <1>5 DEF Rests, SameRecv
<1>7. x = Head(g.out)
  BY <1>2
<1> HIDE DEF x
<1>8. ASSUME ccb[d].open, x.k # "DISC" PROVE Arrived(x, e, h)
  BY <1>1, <1>2, <1>4, <1>7, <1>8 DEF Arrived
<1> QED BY <1>4, <1>6, <1>8 DEF e, x

LEMMA ReceiveInv ==
  ASSUME IInv, NEW d \in Ends, Receive(d)
  PROVE  IInv' /\ Moved(d)
<1> DEFINE e == Self(d)
           h == [Self(Peer(d)) EXCEPT !.out = Tail(@)]
           x == Head(link[Peer(d)])
           f == CASE ~ccb[d].open -> e
                  [] ccb[d].open /\ x.k = "DISC" -> Closed(e, "peer")
                  [] OTHER -> l2c_fcr_proc_pdu(e, x)
<1>1. /\ ccb \in [Ends -> Ccb] /\ link \in [Ends -> Seq(Frame)] /\ link[Peer(d)] # <<>>
      /\ ccb' = [ccb EXCEPT ![d] = [f EXCEPT !.out = <<>>]]
      /\ link' = [link EXCEPT ![d] = f.out, ![Peer(d)] = Tail(@)]
  BY DEF IInv, Receive, Handled
<1>2. losses' \in 0 .. MaxLoss /\ busy' \in [Ends -> Nat]
  BY BusyNat DEF Receive, IInv
<1>3. /\ Fits(d, e, h) /\ (MaxBusy = 0 => Rests(h))
      /\ ccb[d].open /\ x.k # "DISC" => Arrived(x, e, h)
  BY <1>1, HeadArrived
<1>4. e.open = ccb[d].open /\ ccb[d].open \in BOOLEAN /\ (MaxBusy = 0 => Rests(e))
  <2>1. ccb[d] \in Ccb
    BY <1>1
  <2> QED BY <1>1, <2>1, SelfIs, CcbFields DEF IInv
<1>5. h = [Self(Peer(d)) EXCEPT !.out = Tail(@)]
  OBVIOUS
<1>6. \/ ~ccb[d].open /\ f = e
      \/ ccb[d].open /\ x.k = "DISC" /\ f = Closed(e, "peer")
      \/ ccb[d].open /\ x.k # "DISC" /\ f = l2c_fcr_proc_pdu(e, x)
  <2> HIDE DEF e, x
  <2> QED BY <1>4 DEF f
<1>7. e = Self(d)
  OBVIOUS
<1> HIDE DEF e, h, x, f
<1>8. Moves(d, e, f, h) /\ (MaxBusy = 0 => Rests(f))
  <2>1. Moves(d, e, e, h) /\ (MaxBusy = 0 => Rests(e))
    BY <1>3, <1>4, GoesSelf, GoesMoves
  <2>2. Moves(d, e, Closed(e, "peer"), h) /\ (MaxBusy = 0 => Rests(Closed(e, "peer")))
    <3>1. Goes(d, e, Closed(e, "peer"), h)
      BY <1>3, ClosedGoes DEF Causes
    <3> QED BY <1>4, <3>1, GoesMoves
  <2>3. ccb[d].open /\ x.k # "DISC" =>
          /\ Moves(d, e, l2c_fcr_proc_pdu(e, x), h)
          /\ MaxBusy = 0 => Rests(l2c_fcr_proc_pdu(e, x))
    BY <1>3, <1>4, PduMoves
  <2> QED BY <1>6, <2>1, <2>2, <2>3
<1>9. Fits(d, f, h) /\ f \in Ccb /\ f.out \in Seq(Frame)
  BY <1>8, FitsCcb, CcbQueues DEF Moves
<1>10. link'[d] = f.out /\ link'[Peer(d)] = Tail(link[Peer(d)])
  BY <1>1, EndsPeer
<1>11. /\ ccb' \in [Ends -> Ccb] /\ Self(d)' = f /\ ccb'[Peer(d)] = ccb[Peer(d)]
  BY <1>1, <1>9, <1>10, CommitIs
<1>12. Self(Peer(d))' = h /\ Tail(link[Peer(d)]) \in Seq(Frame)
  BY <1>1, <1>5, <1>10, <1>11, PeerTail
<1>13. link' \in [Ends -> Seq(Frame)]
  BY <1>1, <1>9, <1>12, EndsPeer
<1>14. IInv'
  BY <1>2, <1>3, <1>8, <1>9, <1>11, <1>12, <1>13, InvTwo
<1>15. Onward(Self(d), Self(d)')
  BY <1>7, <1>8, <1>11 DEF Moves
<1> QED BY <1>11, <1>14, <1>15 DEF Moved

LEMMA BadFcsInv ==
  ASSUME IInv, NEW d \in Ends, BadFcs(d)
  PROVE  IInv' /\ Moved(d)
<1> DEFINE e == Self(d)
           h == [Self(Peer(d)) EXCEPT !.out = Tail(@)]
<1>1. /\ ccb \in [Ends -> Ccb] /\ link \in [Ends -> Seq(Frame)] /\ link[Peer(d)] # <<>>
      /\ ccb' = ccb /\ link' = [link EXCEPT ![Peer(d)] = Tail(@)]
  BY DEF IInv, BadFcs
<1>2. losses' \in 0 .. MaxLoss /\ busy' \in [Ends -> Nat]
  <2>1. losses \in 0 .. MaxLoss /\ losses < MaxLoss /\ losses' = losses + 1 /\ MaxLoss \in Nat
    BY ErtmAssumption DEF BadFcs, IInv
  <2> QED BY <2>1, BusyNat DEF BadFcs
<1>3. /\ Fits(d, e, h) /\ (MaxBusy = 0 => Rests(e) /\ Rests(h))
  BY <1>1, HeadArrived DEF IInv
<1>4. link'[d] = link[d] /\ link'[Peer(d)] = Tail(link[Peer(d)])
  BY <1>1, EndsPeer
<1>5. Self(d)' = e /\ ccb'[Peer(d)] = ccb[Peer(d)]
  BY <1>1, <1>4 DEF Self
<1>6. Self(Peer(d))' = h /\ Tail(link[Peer(d)]) \in Seq(Frame)
  BY <1>1, <1>4, <1>5, PeerTail
<1>7. link' \in [Ends -> Seq(Frame)] /\ ccb' \in [Ends -> Ccb]
  BY <1>1, <1>6, EndsPeer
<1>8. Onward(e, e)
  BY <1>3, GoesSelf DEF Goes
<1>9. e = Self(d)
  OBVIOUS
<1> HIDE DEF e, h
<1>10. IInv'
  BY <1>2, <1>3, <1>5, <1>6, <1>7, InvTwo
<1> QED BY <1>5, <1>8, <1>9, <1>10 DEF Moved

LEMMA FlowControlInv ==
  ASSUME IInv, NEW d \in Ends, L2CA_FlowControl(d)
  PROVE  IInv' /\ Moved(d)
<1> DEFINE e == Self(d)
           g == Self(Peer(d))
           h == [e EXCEPT !.local_busy = ~@]
           pf == IF h.local_busy THEN "0" ELSE "P"
           f == IF h.wait_ack THEN h ELSE SendReady(h, pf)
<1>1. /\ Fits(d, e, g) /\ e \in Ccb /\ Local(d, e) /\ Local(Peer(d), g)
      /\ ccb \in [Ends -> Ccb] /\ link \in [Ends -> Seq(Frame)]
  BY FitsCcb DEF IInv, Fits
<1>2. e.open /\ MaxBusy # 0
  <2>1. busy[d] \in Nat /\ busy[d] < MaxBusy /\ MaxBusy \in Nat
    BY ErtmAssumption DEF IInv, L2CA_FlowControl
  <2> QED BY <1>1, <2>1, SelfIs DEF L2CA_FlowControl
<1>3. Commit(d, f)
  BY DEF L2CA_FlowControl
<1>4. losses' = losses /\ busy' \in [Ends -> Nat]
  <2>1. busy \in [Ends -> Nat] /\ busy' = [busy EXCEPT ![d] = @ + 1] /\ losses' = losses
    BY DEF IInv, L2CA_FlowControl
  <2> QED BY <2>1
<1>5. e = Self(d) /\ g = Self(Peer(d)) /\ pf \in {"P", "F", "0"}
  OBVIOUS
<1> HIDE DEF e, g, pf
<1>6. /\ h \in Ccb /\ SameSend(e, h) /\ h.retrans_q = e.retrans_q /\ h.open = e.open
      /\ h.out = e.out /\ h.srej_sent = e.srej_sent
      /\ h.srej_rcv_hold_q = e.srej_rcv_hold_q
      /\ h.rcvd = e.rcvd
  BY <1>1 DEF Ccb, SameSend
<1> HIDE DEF h
<1>7. Local(d, h)
  BY <1>1, <1>2, <1>6, RecvLocal DEF Local, Typed
<1>8. Fits(d, h, g)
  BY <1>1, <1>2, <1>7 DEF Fits
<1>9. Onward(e, h)
  <2>1. Len(e.rcvd) \in Nat /\ e.complete \in Nat
    BY <1>1, CcbQueues, CcbFields
  <2> QED BY <1>2, <1>6, <2>1 DEF Onward, SameSend
<1>10. Goes(d, h, f, g)
  BY <1>5, <1>8, ReadyGoes, GoesSelf
<1> HIDE DEF f
<1>11. Moves(d, e, f, g) /\ Fits(d, f, g)
  BY <1>1, <1>8, <1>9, <1>10, GoesMoves, MovesOn DEF Moves
<1>12. IInv' /\ Self(d)' = f /\ ccb'[Peer(d)] = ccb[Peer(d)]
  BY <1>2, <1>3, <1>4, <1>5, <1>11, CommitInv
<1> QED BY <1>5, <1>11, <1>12 DEF Moved, Moves

(* Sending disturbs nothing that the applications see. *)
Stays(e, f) ==
  f.open = e.open /\ f.wrote = e.wrote /\ f.rcvd = e.rcvd /\ f.complete = e.complete

LEMMA PrepareStays ==
  ASSUME NEW e, DOMAIN e = DOMAIN InitCcb, NEW seq, NEW piece
  PROVE  Stays(e, prepare_I_frame(e, seq, piece))
<1> DEFINE x == [k |-> "I", seq |-> seq, piece |-> piece, p |-> FALSE,
                 f |-> e.send_f_rsp, req |-> e.next_seq_expected]
           h == [e EXCEPT !.out = Append(@, x), !.send_f_rsp = FALSE]
<1>1. Stays(e, h) /\ DOMAIN h = DOMAIN InitCcb
  BY DEF Stays, InitCcb
<1>2. prepare_I_frame(e, seq, piece) = l2c_fcr_start_timer(Acked(h))
  BY DEF prepare_I_frame
<1>3. \A y : DOMAIN y = DOMAIN InitCcb =>
               /\ Stays(y, l2c_fcr_start_timer(y))
               /\ Stays(y, Acked(y)) /\ DOMAIN Acked(y) = DOMAIN InitCcb
  BY DEF Stays, l2c_fcr_start_timer, Acked, StopAckTimer, InitCcb
<1> HIDE DEF h
<1> QED BY <1>1, <1>2, <1>3 DEF Stays

LEMMA SendIfAnyStays ==
  ASSUME NEW e \in Ccb
  PROVE  Stays(e, SendIfAny(e))
<1> DEFINE b == Head(e.retrans_q)
           i == Head(e.xmit_hold_q)
           c == [seq |-> e.next_tx_seq, piece |-> <<i, e.segmented + 1>>]
           last == e.segmented + 1 = Pieces(i)
           u == [e EXCEPT !.retrans_q = Tail(@)]
           v == [e EXCEPT !.xmit_hold_q = IF last THEN Tail(@) ELSE @,
                          !.segmented = IF last THEN 0 ELSE @ + 1,
                          !.next_tx_seq = NextSeq(@),
                          !.waiting_for_ack_q = Append(@, c)]
<1>1. SendIfAny(e) \in {e, prepare_I_frame(u, b.seq, b.piece), prepare_I_frame(v, c.seq, c.piece)}
  BY Zenon DEF SendIfAny, l2c_fcr_get_next_xmit_sdu_seg
<1>2. DOMAIN u = DOMAIN InitCcb /\ Stays(e, u)
  BY DEF Ccb, InitCcb, Stays
<1>3. DOMAIN v = DOMAIN InitCcb /\ Stays(e, v)
  BY DEF Ccb, InitCcb, Stays
<1>4. Stays(e, e)
  BY DEF Stays
<1> HIDE DEF b, c, u, v
<1>5. \A seq, piece : Stays(u, prepare_I_frame(u, seq, piece))
  BY <1>2, PrepareStays
<1>6. \A seq, piece : Stays(v, prepare_I_frame(v, seq, piece))
  BY <1>3, PrepareStays
<1> QED BY <1>1, <1>2, <1>3, <1>4, <1>5, <1>6 DEF Stays

LEMMA CheckSendStays ==
  ASSUME NEW d \in Ends, NEW e, NEW g, Fits(d, e, g)
  PROVE  Stays(e, l2c_link_check_send_pkts(e))
<1>1. Quota \in Nat
  BY ErtmAssumption
<1>2. PICK r : Rounds("send", e, e.retrans_q, Quota, r) /\ l2c_link_check_send_pkts(e) = r[Quota]
  BY SendRounds
<1>3. r[0] = e /\ \A i \in 1 .. Quota : r[i] = SendIfAny(r[i - 1])
  <2> DEFINE q == e.retrans_q
  <2>1. Rounds("send", e, q, Quota, r)
    BY <1>2
  <2> HIDE DEF q
  <2>2. r[0] = e /\ \A i \in 1 .. Quota : r[i] = Round("send", r[i - 1], q[i])
    BY <1>1, <2>1, RoundsAre
  <2> QED BY <2>2 DEF Round
<1> DEFINE T == {i \in 0 .. Quota : Fits(d, r[i], g) /\ Stays(e, r[i])}
<1>4. 0 \in T
  BY <1>1, <1>3 DEF Stays
<1>5. ASSUME NEW i \in 1 .. Quota, i - 1 \in T PROVE i \in T
  <2>1. Fits(d, r[i - 1], g) /\ r[i - 1] \in Ccb /\ Stays(e, r[i - 1])
    BY <1>5, FitsCcb
  <2>2. Goes(d, r[i - 1], r[i], g) /\ Stays(r[i - 1], r[i])
    BY <1>3, <2>1, SendIfAnyGoes, SendIfAnyStays
  <2> QED BY <1>1, <2>1, <2>2 DEF Goes, Stays
<1>6. Quota \in T
  <2>1. \A i \in 1 .. Quota : i - 1 \in T => i \in T
    BY <1>5
  <2> HIDE DEF T
  <2> QED BY <1>1, <1>4, <2>1, AfterRounds
<1> QED BY <1>2, <1>6

(* An SDU is queued behind those not yet sent. *)
LEMMA WriteFits ==
  ASSUME NEW d \in Ends, NEW e, NEW g, NEW f, Fits(d, e, g), e.open, e.wrote < Sdus(d),
         f = [e EXCEPT !.wrote = @ + 1, !.xmit_hold_q = Append(@, e.wrote + 1)]
  PROVE  Fits(d, f, g)
<1> DEFINE q == e.xmit_hold_q
           n == Len(q)
           w == e.wrote
<1>1. /\ e \in Ccb /\ g \in Ccb /\ Local(d, e) /\ Local(Peer(d), g) /\ Typed(d, e) /\ Window(e)
      /\ q \in Seq(Nat) /\ n \in Nat /\ w \in Nat /\ w + 1 \in Nat /\ Sdus(d) \in Nat
      /\ NextSdu(e) \in Nat \ {0} /\ Pieces(NextSdu(e)) \in Nat \ {0} /\ e.segmented \in Nat
  <2>1. Sdus(d) \in Nat
    BY ErtmAssumption DEF Sdus
  <2>2. e \in Ccb /\ g \in Ccb
    BY FitsCcb
  <2>3. /\ q \in Seq(Nat) /\ n \in Nat /\ w \in Nat /\ w + 1 \in Nat /\ e.segmented \in Nat
    BY <2>2, CcbQueues, CcbFields
  <2>4. Local(d, e) /\ Local(Peer(d), g)
    BY DEF Fits
  <2>5. Typed(d, e) /\ Window(e)
    BY <2>4 DEF Local
  <2>6. NextSdu(e) \in Nat \ {0} /\ Pieces(NextSdu(e)) \in Nat \ {0}
    BY <2>4, BuiltNat
  <2> QED BY <2>1, <2>2, <2>3, <2>4, <2>5, <2>6
<1>2. /\ Append(q, w + 1) \in Seq(Nat) /\ Len(Append(q, w + 1)) = n + 1
      /\ Append(q, w + 1)[n + 1] = w + 1
      /\ \A i \in 1 .. n : Append(q, w + 1)[i] = q[i]
  BY <1>1, AppendProperties, LenProperties
<1>3. /\ f \in Ccb /\ SameRecv(e, f) /\ f.open = e.open /\ f.cause = e.cause /\ f.out = e.out
      /\ f.complete = e.complete /\ f.wrote = w + 1 /\ f.xmit_hold_q = Append(q, w + 1)
      /\ f.segmented = e.segmented /\ f.waiting_for_ack_q = e.waiting_for_ack_q
      /\ f.retrans_q = e.retrans_q /\ f.next_tx_seq = e.next_tx_seq
      /\ f.last_rx_ack = e.last_rx_ack
  BY <1>1, <1>2 DEF Ccb, SameRecv
<1>4. /\ NextSdu(f) = NextSdu(e) /\ NextSdu(e) = w - n + 1 /\ n <= w
  <2>1. n <= w
    BY <1>1 DEF Window, Holds
  <2>2. NextSdu(e) = w - n + 1 /\ NextSdu(f) = f.wrote - Len(f.xmit_hold_q) + 1
    BY DEF NextSdu
  <2>3. f.wrote = w + 1 /\ Len(f.xmit_hold_q) = n + 1
    BY <1>2, <1>3
  <2> HIDE DEF w, n
  <2> QED BY <1>1, <2>1, <2>2, <2>3
<1>5. Built(f) = Built(e) /\ Heard(f) = Heard(e)
  BY <1>3, <1>4 DEF Built, Heard
<1>6. \A b : Carries(b, w) => Carries(b, w + 1)
  BY <1>1, CarriesMore
<1>7. Typed(d, f)
  <2>1. Frames(f)
    BY <1>1, <1>3, <1>6 DEF Typed, Frames
  <2>2. f.wrote <= Sdus(d)
    BY <1>1, <1>3
  <2> QED BY <1>1, <1>3, <2>1, <2>2 DEF Typed, SameRecv
<1>8. Holds(f)
  <2>1. Len(f.xmit_hold_q) <= f.wrote
    BY <1>1, <1>2, <1>3, <1>4
  <2>2. \A i \in 1 .. Len(f.xmit_hold_q) : f.xmit_hold_q[i] = NextSdu(f) + i - 1
    <3> SUFFICES ASSUME NEW i \in 1 .. (n + 1)
                 PROVE  Append(q, w + 1)[i] = (w - n + 1) + i - 1
      BY <1>2, <1>3, <1>4
    <3>1. ASSUME i \in 1 .. n PROVE q[i] = NextSdu(e) + i - 1
      BY <1>1, <3>1 DEF Window, Holds
    <3> HIDE DEF q, n, w
    <3>2. CASE i = n + 1
      BY <1>1, <1>2, <3>2
    <3>3. CASE i \in 1 .. n
      BY <1>2, <1>4, <3>1, <3>3
    <3>4. i = n + 1 \/ i \in 1 .. n
      BY <1>1
    <3> QED BY <3>2, <3>3, <3>4
  <2>3. f.segmented < Pieces(NextSdu(f)) /\ f.xmit_hold_q # <<>>
    <3>1. f.xmit_hold_q # <<>>
      BY <1>1, <1>2, <1>3, EmptySeq
    <3>2. e.segmented < (IF q = <<>> THEN 1 ELSE Pieces(NextSdu(e)))
      BY <1>1 DEF Window, Holds
    <3> QED BY <1>1, <1>3, <1>4, <3>1, <3>2
  <2> QED BY <2>1, <2>2, <2>3 DEF Holds
<1>9. Unacked(f) /\ Resends(f)
  BY <1>1, <1>3, <1>5, <1>6 DEF Window, Unacked, Resends, Recent
<1>10. Window(f)
  BY <1>1, <1>3, <1>5, <1>8, <1>9 DEF Window
<1>11. Local(d, f)
  BY <1>7, <1>10 DEF Local
<1>12. Ahead(e, f)
  <2>1. Built(e) \in Nat
    BY <1>1, BuiltNat
  <2>2. Built(e) <= Built(f)
    BY <1>5, <2>1
  <2>3. e.wrote <= f.wrote
    BY <1>1, <1>3
  <2> QED BY <1>3, <1>5, <2>2, <2>3 DEF Ahead
<1> QED BY <1>1, <1>11, <1>12, AheadJoint DEF Fits

(* L2CA_DataWrite, as the applications see it. *)
Written(d) ==
  /\ ccb[d].open /\ ccb[d].wrote < Sdus(d)
  /\ ccb'[d].open = ccb[d].open /\ ccb'[d].wrote = ccb[d].wrote + 1
  /\ ccb'[d].rcvd = ccb[d].rcvd /\ ccb'[d].complete = ccb[d].complete
  /\ ccb'[Peer(d)] = ccb[Peer(d)]

LEMMA DataWriteInv ==
  ASSUME IInv, NEW d \in Ends, DataWrite(d)
  PROVE  IInv' /\ Written(d)
<1> DEFINE e == Self(d)
           g == Self(Peer(d))
           h == [e EXCEPT !.wrote = @ + 1, !.xmit_hold_q = Append(@, ccb[d].wrote + 1)]
           f == l2c_link_check_send_pkts(h)
<1>1. /\ Fits(d, e, g) /\ e \in Ccb /\ (MaxBusy = 0 => Rests(e))
      /\ ccb \in [Ends -> Ccb] /\ link \in [Ends -> Seq(Frame)]
  BY FitsCcb DEF IInv
<1>2. /\ e.open = ccb[d].open /\ e.wrote = ccb[d].wrote /\ e.rcvd = ccb[d].rcvd
      /\ e.complete = ccb[d].complete
  BY <1>1, SelfIs
<1>3. losses' = losses /\ busy' \in [Ends -> Nat]
  BY BusyNat DEF DataWrite
<1>4. Commit(d, f) /\ ccb[d].open /\ ccb[d].wrote < Sdus(d)
  BY DEF DataWrite
<1>5. e = Self(d) /\ g = Self(Peer(d))
  OBVIOUS
<1>6. h = [e EXCEPT !.wrote = @ + 1, !.xmit_hold_q = Append(@, e.wrote + 1)]
  <2> HIDE DEF e
  <2> QED BY <1>2
<1> HIDE DEF e, g
<1>7. /\ h.open = e.open /\ h.wrote = e.wrote + 1 /\ h.rcvd = e.rcvd
      /\ h.complete = e.complete
      /\ h.srej_rcv_hold_q = e.srej_rcv_hold_q /\ h.srej_sent = e.srej_sent
  BY <1>1 DEF Ccb
<1> HIDE DEF h
<1>8. Fits(d, h, g) /\ (MaxBusy = 0 => Rests(h))
  BY <1>1, <1>2, <1>4, <1>6, <1>7, WriteFits DEF Rests
<1>9. Goes(d, h, f, g) /\ Stays(h, f)
  BY <1>8, CheckSendGoes, CheckSendStays
<1> HIDE DEF f
<1>10. Fits(d, f, g) /\ (MaxBusy = 0 => Rests(f))
  BY <1>8, <1>9, GoesMoves DEF Goes
<1>11. IInv' /\ ccb'[Peer(d)] = ccb[Peer(d)]
  BY <1>3, <1>4, <1>5, <1>10, CommitInv
<1>12. ccb'[d] = [f EXCEPT !.out = <<>>] /\ f \in Ccb
  BY <1>1, <1>4, <1>10, FitsCcb, CommitIs DEF Commit
<1>13. /\ ccb'[d].open = f.open /\ ccb'[d].wrote = f.wrote /\ ccb'[d].rcvd = f.rcvd
       /\ ccb'[d].complete = f.complete
  BY <1>12 DEF Ccb
<1> QED BY <1>2, <1>4, <1>7, <1>9, <1>11, <1>13 DEF Stays, Written

LEMMA EmptyFits ==
  ASSUME NEW d \in Ends
  PROVE  Fits(d, InitCcb, InitCcb) /\ Rests(InitCcb)
<1> DEFINE e == InitCcb
<1>1. e \in Ccb
  <2>1. 0 \in Seqs /\ 0 \in Nat
    BY ErtmAssumption DEF Seqs
  <2>2. \A S : <<>> \in Seq(S)
    BY EmptySeq
  <2> QED BY <2>1, <2>2 DEF InitCcb, Ccb, Timers, Causes
<1>2. /\ e.open = TRUE /\ e.wrote = 0 /\ e.out = <<>> /\ e.srej_sent = FALSE
      /\ e.waiting_for_ack_q = <<>> /\ e.srej_rcv_hold_q = <<>> /\ e.retrans_q = <<>>
      /\ e.xmit_hold_q = <<>> /\ e.segmented = 0 /\ e.next_tx_seq = 0 /\ e.last_rx_ack = 0
      /\ e.complete = 0 /\ e.rcvd = <<>> /\ e.rx_sdu = <<>> /\ e.cause = "none"
      /\ e.next_seq_expected = 0 /\ e.local_busy = FALSE
  BY DEF InitCcb
<1>3. /\ Len(e.out) = 0 /\ Len(e.waiting_for_ack_q) = 0 /\ Len(e.srej_rcv_hold_q) = 0
      /\ Len(e.retrans_q) = 0 /\ Len(e.xmit_hold_q) = 0 /\ Len(e.rcvd) = 0 /\ Len(e.rx_sdu) = 0
  <2>1. Len(<<>>) = 0
    BY EmptySeq
  <2> QED BY <1>2, <2>1
<1>4. /\ Off(1) = 0 /\ Off(2) = Pieces(1) /\ Pieces(1) \in Nat \ {0}
  <2>1. /\ Off(1) = 0 /\ Off(1 + 1) = Off(1) + Pieces(1)
        /\ Off(1) \in Nat /\ Pieces(1) \in Nat \ {0}
    BY OffNext
  <2> QED BY <2>1
<1>5. 0 % Modulus = 0
  BY ErtmAssumption
<1> HIDE DEF e
<1>6. NextSdu(e) = 1 /\ Built(e) = 0 /\ Heard(e) = 0 /\ Taken(e) = 0 /\ Reach(e) = 0
  <2>1. NextSdu(e) = 1
    BY <1>2, <1>3 DEF NextSdu
  <2>2. Built(e) = 0
    BY <1>2, <1>4, <2>1 DEF Built
  <2>3. Heard(e) = 0
    <3>1. Heard(e) = Built(e) - Len(e.waiting_for_ack_q) /\ 0 - 0 = 0
      BY DEF Heard
    <3> QED BY <1>3, <2>2, <3>1
  <2>4. Taken(e) = 0
    BY <1>2, <1>3, <1>4 DEF Taken
  <2> QED BY <1>2, <2>1, <2>2, <2>3, <2>4 DEF Reach
<1>7. ASSUME NEW c \in Ends PROVE Local(c, e)
  <2>1. Sdus(c) \in Nat
    BY ErtmAssumption DEF Sdus
  <2>2. Typed(c, e)
    BY <1>1, <1>2, <1>3, <2>1 DEF Typed, Frames
  <2>3. Holds(e) /\ Unacked(e) /\ Resends(e)
    BY <1>2, <1>3, <1>4, <1>6, ErtmAssumption DEF Holds, Unacked, Resends
  <2>4. Window(e)
    BY <1>2, <1>3, <1>4, <1>5, <1>6, <2>3 DEF Window
  <2> QED BY <2>2, <2>4 DEF Local
<1>8. Gathers(e)
  <2>1. [i \in 1 .. 0 |-> Sdu(i)] = <<>> /\ [k \in 1 .. 0 |-> <<0 + 1, k>>] = <<>>
    OBVIOUS
  <2>2. e.rcvd = [i \in 1 .. Len(e.rcvd) |-> Sdu(i)]
    BY <1>2, <1>3, <2>1
  <2>3. e.rx_sdu = [k \in 1 .. Len(e.rx_sdu) |-> <<Len(e.rcvd) + 1, k>>]
    BY <1>2, <1>3, <2>1
  <2>4. Len(e.rx_sdu) < Pieces(Len(e.rcvd) + 1)
    BY <1>2, <1>3, <1>4
  <2> QED BY <1>2, <1>3, <1>5, <1>6, <2>2, <2>3, <2>4 DEF Gathers
<1>9. Pair(e, e)
  <2>1. AcksFit(e.out, 0, 0)
    <3>1. [i \in 1 .. 0 |-> 0] \in [1 .. 0 -> 0 .. 0]
      OBVIOUS
    <3>2. 1 .. Len(e.out) = {} /\ 1 .. Len(e.out) = 1 .. 0
      BY <1>3
    <3> QED BY <3>1, <3>2 DEF AcksFit
  <2>2. Acknowledged(e, e) = 0
    BY <1>6 DEF Acknowledged
  <2>3. Arrives(e, e)
    BY <1>2, <1>3, <1>6, <2>1, <2>2 DEF Arrives
  <2> QED BY <1>2, <1>3, <1>6, <2>3 DEF Pair
<1>10. Fits(d, e, e) /\ Rests(e)
  BY <1>2, <1>7, <1>8, <1>9, EndsPeer DEF Fits, Joint, Rests
<1> QED BY <1>10 DEF e

LEMMA InvInit ==
  ASSUME Init
  PROVE  IInv
<1>1. \A d \in Ends : ccb[d] = InitCcb /\ link[d] = <<>> /\ Peer(d) \in Ends
  BY EndsPeer DEF Init
<1>2. InitCcb \in Ccb /\ [InitCcb EXCEPT !.out = <<>>] = InitCcb
  <2>1. InitCcb \in Ccb
    BY EmptyFits, FitsCcb DEF Ends
  <2> QED BY <2>1 DEF InitCcb
<1>3. \A d \in Ends : Self(d) = InitCcb
  BY <1>1, <1>2 DEF Self
<1>4. \A d \in Ends : Fits(d, Self(d), Self(Peer(d))) /\ (MaxBusy = 0 => Rests(Self(d)))
  BY <1>1, <1>3, EmptyFits
<1>5. <<>> \in Seq(Frame)
  BY EmptySeq
<1>6. losses \in 0 .. MaxLoss
  BY ErtmAssumption DEF Init
<1> QED BY <1>2, <1>4, <1>5, <1>6 DEF IInv, Init

(* One case per action. *)
LEMMA InvNext ==
  ASSUME IInv, NEW d \in Ends,
         \/ DataWrite(d) \/ L2CA_FlowControl(d)
         \/ Receive(d) \/ BadFcs(d) \/ CompletedPackets(d)
         \/ Alarm(d) \/ AckAlarm(d) \/ Timeout(d) \/ AckTimeout(d)
  PROVE  IInv' /\ (Written(d) \/ Moved(d))
<1>1. CASE DataWrite(d)
  BY <1>1, DataWriteInv
<1>2. CASE L2CA_FlowControl(d)
  BY <1>2, FlowControlInv
<1>3. CASE Receive(d)
  BY <1>3, ReceiveInv
<1>4. CASE BadFcs(d)
  BY <1>4, BadFcsInv
<1>5. CASE CompletedPackets(d)
  BY <1>5, CompletedInv
<1>6. CASE Alarm(d) \/ AckAlarm(d)
  BY <1>6, AlarmInv
<1>7. CASE Timeout(d) \/ AckTimeout(d)
  BY <1>7, TimeoutInv
<1> QED BY <1>1, <1>2, <1>3, <1>4, <1>5, <1>6, <1>7

LEMMA InvStep == IInv /\ [Next]_vars => IInv'
<1> SUFFICES ASSUME IInv, [Next]_vars PROVE IInv'
  OBVIOUS
<1>1. CASE UNCHANGED vars
  BY <1>1 DEF vars, IInv, Self
<1>2. CASE Next
  BY <1>2, InvNext DEF Next
<1> QED BY <1>1, <1>2

LEMMA InvHolds == Spec => []IInv
<1>1. Init => IInv
  BY InvInit
<1> QED BY <1>1, InvStep, PTL DEF Spec

-----------------------------------------------------------------------------
(* Theorems *)

LEMMA WithOut ==
  ASSUME NEW c \in Ccb, NEW q
  PROVE  LET e == [c EXCEPT !.out = q] IN
         /\ e.out = q /\ e.open = c.open /\ e.wrote = c.wrote /\ e.rcvd = c.rcvd
         /\ e.complete = c.complete /\ e.cause = c.cause
BY DEF Ccb

(* For every modulus, window, quota and length of SDUs, every number of    *)
(* damaged frames, with or without L2CA_FlowControl: the sequence numbers  *)
(* of both ends stay below the modulus, every timer is in a known state,   *)
(* and no frame that l2c_fcr_send_S_frame or prepare_I_frame builds is a   *)
(* poll and a final answer at once.                                        *)
THEOREM TypesKept == Spec => []TypeOK
<1>1. ASSUME IInv PROVE TypeOK
  <2>1. losses \in 0 .. MaxLoss
    BY <1>1 DEF IInv
  <2>2. ASSUME NEW d \in Ends
        PROVE  /\ {ccb[d].next_tx_seq, ccb[d].last_rx_ack, ccb[d].next_seq_expected,
                   ccb[d].last_ack_sent} \subseteq Seqs
               /\ {ccb[d].timer, ccb[d].ack} \subseteq Timers
               /\ ToSet(link[d]) \subseteq Frame
               /\ \A i \in DOMAIN link[d] : link[d][i].k # "DISC" => ~(link[d][i].p /\ link[d][i].f)
    <3>1. ccb[d] \in Ccb /\ link[d] \in Seq(Frame)
      BY <1>1 DEF IInv
    <3>2. Frames(Self(d)) /\ Self(d).out = link[d]
      BY <1>1, SelfIs DEF IInv, Fits, Local, Typed
    <3>3. DOMAIN link[d] = 1 .. Len(link[d]) /\ \A i \in 1 .. Len(link[d]) : link[d][i] \in Frame
      BY <3>1, LenProperties, ElementOfSeq
    <3>4. ToSet(link[d]) \subseteq Frame
      BY <3>3 DEF ToSet
    <3>5. \A i \in DOMAIN link[d] : link[d][i].k # "DISC" => ~(link[d][i].p /\ link[d][i].f)
      BY <3>2, <3>3 DEF Frames
    <3> QED BY <3>1, <3>4, <3>5, CcbFields
  <2> QED BY <2>1, <2>2 DEF TypeOK
<1> QED BY <1>1, InvHolds, PTL

(* In every run, flow control included: an end keeps exactly the frames    *)
(* that it numbered from last_rx_ack up to next_tx_seq, no more of them    *)
(* than the window takes, so each can be sent again.  process_reqseq takes *)
(* acknowledged frames off the queue, l2c_fcr_get_next_xmit_sdu_seg puts   *)
(* new ones on it, through every retransmission in between.                *)
THEOREM WindowKept == Spec => []UnackedIsWindow
<1>1. ASSUME IInv PROVE UnackedIsWindow
  <2> SUFFICES ASSUME NEW d \in Ends
               PROVE  LET q == ccb[d].waiting_for_ack_q IN
                      /\ Len(q) <= TxWin
                      /\ ccb[d].open =>
                           /\ \A i \in DOMAIN q : q[i].seq = (ccb[d].last_rx_ack + i - 1) % Modulus
                           /\ ccb[d].next_tx_seq = (ccb[d].last_rx_ack + Len(q)) % Modulus
    BY DEF UnackedIsWindow
  <2> DEFINE e == Self(d)
             q == e.waiting_for_ack_q
  <2>1. /\ Local(d, e) /\ e \in Ccb
        /\ e.open = ccb[d].open /\ q = ccb[d].waiting_for_ack_q
        /\ e.last_rx_ack = ccb[d].last_rx_ack /\ e.next_tx_seq = ccb[d].next_tx_seq
    BY <1>1, SelfIs DEF IInv, Fits
  <2> HIDE DEF e
  <2>2. /\ q \in Seq(Buffer) /\ Len(q) \in Nat /\ DOMAIN q = 1 .. Len(q) /\ e.open \in BOOLEAN
        /\ TxWin \in Nat
    BY <2>1, CcbQueues, CcbFields, LenProperties, ErtmAssumption
  <2>3. CASE ~e.open
    <3>1. q = <<>>
      BY <2>1, <2>3 DEF Local, Typed
    <3>2. Len(q) = 0
      BY <3>1, EmptySeq
    <3> QED BY <2>1, <2>2, <2>3, <3>2
  <2>4. CASE e.open
    <3>1. /\ Window(e) /\ Len(q) <= TxWin /\ Heard(e) \in Nat
          /\ Built(e) = Heard(e) + Len(q)
      BY <2>1, <2>4, BuiltNat DEF Local, Window, Unacked
    <3>2. e.last_rx_ack = Heard(e) % Modulus /\ e.next_tx_seq = (Heard(e) + Len(q)) % Modulus
      BY <3>1 DEF Window
    <3>3. (e.last_rx_ack + Len(q)) % Modulus = e.next_tx_seq
      <4>1. Len(q) \in Int /\ Heard(e) \in Int
        BY <2>2, <3>1
      <4>2. ((Heard(e) % Modulus) + Len(q)) % Modulus = (Heard(e) + Len(q)) % Modulus
        BY <4>1, ModDiff
      <4> QED BY <3>2, <4>2
    <3>4. ASSUME NEW i \in 1 .. Len(q)
          PROVE  q[i].seq = (e.last_rx_ack + i - 1) % Modulus
      <4>1. q[i].seq = (Heard(e) + i - 1) % Modulus
        BY <3>1 DEF Window, Unacked, Carries
      <4>2. i - 1 \in Int /\ Heard(e) \in Int
        BY <2>2, <3>1
      <4>3. ((Heard(e) % Modulus) + (i - 1)) % Modulus = (Heard(e) + (i - 1)) % Modulus
        BY <4>2, ModDiff
      <4>4. e.last_rx_ack \in Nat
        BY <2>1, CcbFields, SeqsNat
      <4>5. e.last_rx_ack + i - 1 = e.last_rx_ack + (i - 1) /\ Heard(e) + i - 1 = Heard(e) + (i - 1)
        BY <4>2, <4>4
      <4> QED BY <3>2, <4>1, <4>3, <4>5
    <3> QED BY <2>1, <2>2, <3>1, <3>3, <3>4
  <2> QED BY <2>2, <2>3, <2>4
<1> QED BY <1>1, InvHolds, PTL

(* In every run, flow control included: while an SREJ is out there is a    *)
(* held frame, so process_i_frame, which reads the number of the last one  *)
(* without a test, never reads that of an empty queue.                     *)
THEOREM SrejHasFrame == Spec => []SrejHoldsFrame
<1>1. ASSUME IInv PROVE SrejHoldsFrame
  BY <1>1, SelfIs DEF IInv, Fits, Local, Typed, SrejHoldsFrame
<1> QED BY <1>1, InvHolds, PTL

(* As long as no application flows its peer off, two ends that run this    *)
(* code never close the channel over an acknowledgement for a frame that   *)
(* does not wait for one (process_reqseq) or over segments that do not     *)
(* join (do_sar_reassembly), whatever frames are damaged: only the limit   *)
(* of retransmissions ends it.  No code of the repository calls            *)
(* L2CA_FlowControl; with it the statement is false.                       *)
THEOREM RetriesClose ==
  ASSUME MaxBusy = 0
  PROVE  Spec => []OnlyRetriesClose
<1>1. ASSUME IInv PROVE OnlyRetriesClose
  BY <1>1, SelfIs DEF IInv, Fits, Joint, Gathers, OnlyRetriesClose
<1> QED BY <1>1, InvHolds, PTL

(* The first n SDUs of an end. *)
First(n) == [i \in 1 .. n |-> Sdu(i)]

LEMMA FirstNext ==
  ASSUME NEW n \in Nat
  PROVE  First(n + 1) = Append(First(n), Sdu(n + 1))
<1> DEFINE S == {Sdu(i) : i \in Nat}
           s == First(n)
           t == Append(s, Sdu(n + 1))
<1>1. s \in Seq(S) /\ Len(s) = n /\ \A i \in 1 .. n : s[i] = Sdu(i)
  BY DEF First
<1>2. First(n + 1) \in Seq(S) /\ Len(First(n + 1)) = n + 1
      /\ \A i \in 1 .. (n + 1) : First(n + 1)[i] = Sdu(i)
  BY DEF First
<1>3. Sdu(n + 1) \in S
  OBVIOUS
<1> HIDE DEF S, s
<1>4. t \in Seq(S) /\ Len(t) = n + 1 /\ t[n + 1] = Sdu(n + 1)
      /\ \A i \in 1 .. n : t[i] = s[i]
  BY <1>1, <1>3, AppendProperties
<1>5. \A i \in 1 .. (n + 1) : i = n + 1 \/ i \in 1 .. n
  OBVIOUS
<1> HIDE DEF t
<1>6. \A i \in 1 .. (n + 1) : First(n + 1)[i] = t[i]
  BY <1>1, <1>2, <1>4, <1>5
<1> QED BY <1>2, <1>4, <1>6, SeqEqual DEF t, s

LEMMA FirstSub ==
  ASSUME NEW n \in Nat, NEW w \in Nat, n <= w
  PROVE  SubSeq(First(w), 1, n) = First(n)
<1> DEFINE S == {Sdu(i) : i \in Nat}
           t == SubSeq(First(w), 1, n)
<1>1. First(n) \in Seq(S) /\ Len(First(n)) = n /\ \A i \in 1 .. n : First(n)[i] = Sdu(i)
  BY DEF First
<1>2. \A i \in 1 .. n : i \in 1 .. w /\ i \in Nat
  OBVIOUS
<1>3. \A i \in 1 .. n : First(w)[i] = Sdu(i) /\ First(w)[i] \in S
  BY <1>2 DEF First
<1> HIDE DEF S
<1>4. /\ t \in Seq(S) /\ Len(t) = (IF 1 <= n THEN n - 1 + 1 ELSE 0)
      /\ \A i \in 1 .. (n - 1 + 1) : t[i] = First(w)[1 + i - 1]
  BY <1>3, SubSeqProperties
<1> HIDE DEF t
<1>5. Len(t) = n /\ \A i \in 1 .. n : t[i] = First(n)[i]
  <2>1. Len(t) = n
    BY <1>4
  <2>2. ASSUME NEW i \in 1 .. n PROVE t[i] = First(n)[i]
    <3>1. i \in 1 .. (n - 1 + 1) /\ 1 + i - 1 = i
      OBVIOUS
    <3>2. t[i] = First(w)[i]
      BY <1>4, <3>1
    <3> QED BY <1>1, <1>3, <3>2
  <2> QED BY <2>1, <2>2
<1> QED BY <1>1, <1>4, <1>5, SeqEqual DEF t

(* What the two ends have of each other's SDUs. *)
LEMMA FifoViews ==
  ASSUME MaxBusy = 0, NEW d \in Ends, NEW e, NEW g, Fits(d, e, g)
  PROVE  /\ e.rcvd = First(Len(e.rcvd)) /\ Len(e.rcvd) \in Nat /\ Len(e.rcvd) <= g.wrote
         /\ e.complete \in Nat /\ e.complete <= Len(g.rcvd)
         /\ e.wrote \in Nat /\ e.wrote <= Sdus(d)
         /\ Len(g.rcvd) \in Nat /\ g.wrote \in Nat /\ e.open \in BOOLEAN
<1>1. e \in Ccb /\ g \in Ccb /\ Joint(e, g) /\ Local(d, e)
  BY FitsCcb DEF Fits
<1>2. e.rcvd = First(Len(e.rcvd)) /\ Len(e.rcvd) <= g.wrote /\ e.complete <= Len(g.rcvd)
  BY <1>1 DEF Joint, Gathers, Pair, First
<1>3. e.wrote <= Sdus(d)
  BY <1>1 DEF Local, Typed
<1> QED BY <1>1, <1>2, <1>3, CcbQueues, CcbFields

LEMMA ServiceStart == Init => Service!Init
<1> SUFFICES ASSUME Init PROVE Service!Init
  OBVIOUS
<1>1. \A d \in Ends : ccb[d] = InitCcb
  BY DEF Init
<1>2. \A d \in Ends : /\ ccb[d].wrote = 0 /\ ccb[d].rcvd = <<>> /\ ccb[d].complete = 0
                      /\ ccb[d].open = TRUE
  BY <1>1 DEF InitCcb
<1>3. \A d \in Ends : [i \in 1 .. ccb[d].wrote |-> Sdu(i)] = <<>>
  BY <1>2
<1> QED BY <1>2, <1>3 DEF Service!Init

(* The other end keeps what the applications see of it. *)
LEMMA ServiceWrite ==
  ASSUME IInv, NEW d \in Ends, Written(d)
  PROVE  Service!Write(d)
<1> DEFINE w == ccb[d].wrote
           sent == [c \in Ends |-> First(ccb[c].wrote)]
<1>1. /\ w \in Nat /\ w < Sdus(d) /\ ccb'[d].wrote = w + 1
      /\ \A c \in Ends : c = d \/ ccb'[c] = ccb[c]
      /\ ccb'[d].rcvd = ccb[d].rcvd /\ ccb'[d].complete = ccb[d].complete
      /\ ccb'[d].open = TRUE /\ ccb[d].open = TRUE
  <2>1. ccb[d] \in Ccb
    BY DEF IInv
  <2>2. w \in Nat /\ ccb[d].open \in BOOLEAN
    BY <2>1, CcbFields
  <2> QED BY <2>2, EndsPeer DEF Written
<1>2. Sdu(w + 1) \in {Sdu(i) : i \in 1 .. SdusA + SdusB}
  <2>1. SdusA \in Nat /\ SdusB \in Nat /\ Sdus(d) \in {SdusA, SdusB}
    BY ErtmAssumption DEF Sdus
  <2>2. w + 1 \in 1 .. SdusA + SdusB
    BY <1>1, <2>1
  <2> QED BY <2>2
<1>3. [c \in Ends |-> First(ccb'[c].wrote)] = [sent EXCEPT ![d] = Append(@, Sdu(w + 1))]
  <2>1. First(w + 1) = Append(First(w), Sdu(w + 1))
    BY <1>1, FirstNext
  <2>2. \A c \in Ends : First(ccb'[c].wrote) =
                          IF c = d THEN Append(First(w), Sdu(w + 1)) ELSE First(ccb[c].wrote)
    BY <1>1, <2>1
  <2> QED BY <2>2
<1>4. /\ [c \in Ends |-> ccb'[c].rcvd] = [c \in Ends |-> ccb[c].rcvd]
      /\ [c \in Ends |-> ccb'[c].complete] = [c \in Ends |-> ccb[c].complete]
      /\ [c \in Ends |-> ccb'[c].open] = [c \in Ends |-> ccb[c].open]
  BY <1>1
<1>5. [c \in Ends |-> ccb[c].open][d]
  BY <1>1
<1> HIDE DEF w
<1> QED BY <1>2, <1>3, <1>4, <1>5 DEF Service!Write, First

LEMMA ServiceProgress ==
  ASSUME MaxBusy = 0, IInv, IInv', NEW d \in Ends, Moved(d)
  PROVE  /\ ccb[d].open => Service!Progress(d)
         /\ ~ccb[d].open => UNCHANGED Service!vars
<1> DEFINE p == Peer(d)
           n == Len(ccb'[d].rcvd)
           m == ccb'[d].complete
<1>1. /\ ccb[d] \in Ccb /\ ccb'[d] \in Ccb /\ ccb[p] \in Ccb /\ p \in Ends /\ p # d
      /\ ccb'[p] = ccb[p] /\ \A c \in Ends : c = d \/ c = p
  <2>1. (ccb \in [Ends -> Ccb])' /\ ccb \in [Ends -> Ccb]
    BY DEF IInv
  <2> QED BY <2>1, EndsPeer DEF Moved
<1>2. /\ ccb'[d].wrote = ccb[d].wrote /\ (ccb'[d].open => ccb[d].open)
      /\ Len(ccb[d].rcvd) <= n /\ ccb[d].complete <= m
      /\ ~ccb[d].open => ccb'[d].rcvd = ccb[d].rcvd /\ m = ccb[d].complete
  <2> DEFINE e == Self(d)
             f == Self(d)'
  <2>1. /\ e.open = ccb[d].open /\ e.wrote = ccb[d].wrote /\ e.rcvd = ccb[d].rcvd
        /\ e.complete = ccb[d].complete
    BY <1>1, WithOut, Zenon DEF Self
  <2>2. /\ f.open = ccb'[d].open /\ f.wrote = ccb'[d].wrote /\ f.rcvd = ccb'[d].rcvd
        /\ f.complete = ccb'[d].complete
    BY <1>1, WithOut, Zenon DEF Self
  <2>3. Onward(e, f)
    BY DEF Moved
  <2> HIDE DEF e, f
  <2> QED BY <2>1, <2>2, <2>3 DEF Onward
<1>3. /\ ccb'[d].rcvd = First(n) /\ n \in Nat /\ n <= ccb[p].wrote
      /\ m \in Nat /\ m <= Len(ccb[p].rcvd) /\ ccb[p].wrote \in Nat
      /\ Len(ccb[p].rcvd) \in Nat
      /\ ccb[d].open \in BOOLEAN /\ ccb'[d].open \in BOOLEAN
  <2> DEFINE f == Self(d)'
             g == Self(p)'
  <2>1. Fits(d, f, g)
    BY DEF IInv
  <2>2. /\ f.open = ccb'[d].open /\ f.rcvd = ccb'[d].rcvd /\ f.complete = ccb'[d].complete
    BY <1>1, WithOut, Zenon DEF Self
  <2>3. /\ g.wrote = ccb'[p].wrote /\ g.rcvd = ccb'[p].rcvd
    BY <1>1, WithOut, Zenon DEF Self
  <2> HIDE DEF f, g
  <2>4. ccb[d].open \in BOOLEAN
    BY <1>1, CcbFields
  <2> QED BY <1>1, <2>1, <2>2, <2>3, <2>4, FifoViews
<1>4. Len(ccb[d].rcvd) \in Nat /\ ccb[d].complete \in Nat
  BY <1>1, CcbQueues, CcbFields
<1> HIDE DEF p, n, m
<1>5. /\ n \in Len(ccb[d].rcvd) .. Len(First(ccb[p].wrote))
      /\ m \in ccb[d].complete .. Len(ccb[p].rcvd)
  <2>1. Len(First(ccb[p].wrote)) = ccb[p].wrote
    BY <1>3 DEF First
  <2> QED BY <1>2, <1>3, <1>4, <2>1
<1>6. ccb'[d].rcvd = SubSeq(First(ccb[p].wrote), 1, n)
  BY <1>3, FirstSub
<1>7. [c \in Ends |-> First(ccb'[c].wrote)] = [c \in Ends |-> First(ccb[c].wrote)]
  BY <1>1, <1>2
<1>8. CASE ccb[d].open
  <2>1. [c \in Ends |-> ccb'[c].rcvd] =
          [[c \in Ends |-> ccb[c].rcvd] EXCEPT ![d] = SubSeq(First(ccb[p].wrote), 1, n)]
    BY <1>1, <1>6
  <2>2. [c \in Ends |-> ccb'[c].complete] = [[c \in Ends |-> ccb[c].complete] EXCEPT ![d] = m]
    BY <1>1 DEF m
  <2>3. [c \in Ends |-> ccb'[c].open] \in
          {[c \in Ends |-> ccb[c].open], [[c \in Ends |-> ccb[c].open] EXCEPT ![d] = FALSE]}
    <3>1. CASE ccb'[d].open
      <4>1. \A c \in Ends : ccb'[c].open = ccb[c].open
        BY <1>1, <1>3, <1>8, <3>1
      <4> QED BY <4>1
    <3>2. CASE ~ccb'[d].open
      BY <1>1, <1>3, <3>2
    <3> QED BY <3>1, <3>2
  <2>4. /\ [c \in Ends |-> First(ccb[c].wrote)][p] = First(ccb[p].wrote)
        /\ [c \in Ends |-> ccb[c].rcvd][d] = ccb[d].rcvd
        /\ [c \in Ends |-> ccb[c].rcvd][p] = ccb[p].rcvd
        /\ [c \in Ends |-> ccb[c].complete][d] = ccb[d].complete
        /\ [c \in Ends |-> ccb[c].open][d] = ccb[d].open
    BY <1>1
  <2> QED BY <1>5, <1>7, <1>8, <2>1, <2>2, <2>3, <2>4 DEF Service!Progress, First, p
<1>9. CASE ~ccb[d].open
  <2>1. /\ [c \in Ends |-> ccb'[c].rcvd] = [c \in Ends |-> ccb[c].rcvd]
        /\ [c \in Ends |-> ccb'[c].complete] = [c \in Ends |-> ccb[c].complete]
        /\ [c \in Ends |-> ccb'[c].open] = [c \in Ends |-> ccb[c].open]
    BY <1>1, <1>2, <1>3, <1>9 DEF m
  <2> QED BY <1>7, <1>9, <2>1 DEF Service!vars, First
<1> QED BY <1>8, <1>9

LEMMA ServiceStep ==
  ASSUME MaxBusy = 0
  PROVE  IInv /\ IInv' /\ [Next]_vars => [Service!Next]_(Service!vars)
<1> SUFFICES ASSUME IInv, IInv', [Next]_vars PROVE [Service!Next]_(Service!vars)
  OBVIOUS
<1>1. CASE UNCHANGED vars
  BY <1>1 DEF vars, Service!vars
<1>2. CASE Next
  <2>1. PICK d \in Ends : Written(d) \/ Moved(d)
    BY <1>2, InvNext DEF Next
  <2>2. CASE Written(d)
    BY <2>2, ServiceWrite DEF Service!Next
  <2>3. CASE Moved(d)
    <3>1. Service!Progress(d) \/ UNCHANGED Service!vars
      BY <2>3, ServiceProgress
    <3> QED BY <3>1 DEF Service!Next
  <2> QED BY <2>1, <2>2, <2>3
<1> QED BY <1>1, <1>2

(* As long as no application flows its peer off, the code implements the   *)
(* service that the two applications count on, for every modulus, window,  *)
(* quota, number and length of SDUs and every pattern of damaged frames    *)
(* and late alarms: each direction is a reliable FIFO of whole SDUs, and   *)
(* TxComplete_Cb reports an SDU only when the peer's application has it    *)
(* (l2c_fcr_proc_pdu and all it calls).                                    *)
THEOREM FifoImplemented ==
  ASSUME MaxBusy = 0
  PROVE  Spec => ReliableFifo
<1>1. Init => Service!Init
  BY ServiceStart
<1>2. IInv /\ IInv' /\ [Next]_vars => [Service!Next]_(Service!vars)
  BY ServiceStep
<1> QED BY <1>1, <1>2, InvHolds, PTL DEF Spec, ReliableFifo, Service!Spec
=============================================================================
