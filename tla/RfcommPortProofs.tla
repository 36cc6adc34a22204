-------------------------- MODULE RfcommPortProofs --------------------------
(* TypeOK of RfcommPort: what each handler does to an end, to its ports and to *)
(* what it sends, and that every step keeps the types.  Then, from what the    *)
(* handlers do, that the two ends of an open port agree on its credits and     *)
(* data, when no connection is opened over the remains of another.             *)
EXTENDS RfcommPort, SequenceLemmas

-----------------------------------------------------------------------------
(* The frames of a sequence that are in a set, and the credits of a sequence *)

(* r[i] is what Only has kept of the first i frames. *)
Keeps(q, T, r) ==
  r = [i \in 0..Len(q) |->
         IF i = 0 THEN <<>>
         ELSE IF q[i] \in T THEN Append(r[i - 1], q[i]) ELSE r[i - 1]]

LEMMA OnlyKeeps ==
  ASSUME NEW q, NEW T, Len(q) \in Nat
  PROVE  \E r : Keeps(q, T, r) /\ Only(q, T) = r[Len(q)]
<1> DEFINE n == Len(q)
           Run(r, m) == r = [i \in 0..m |-> IF i = 0 THEN <<>>
                               ELSE IF q[i] \in T THEN Append(r[i - 1], q[i]) ELSE r[i - 1]]
           W == {m \in 0..n : \E r : Run(r, m)}
<1>1. 0 \in W
  <2>1. Run([i \in 0..0 |-> <<>>], 0)
    OBVIOUS
  <2> HIDE DEF Run
  <2> QED BY <2>1
<1>2. ASSUME NEW m \in 1..n, m - 1 \in W PROVE m \in W
  <2>1. PICK r : Run(r, m - 1)
    BY <1>2
  <2> DEFINE s == [i \in 0..m |->
                     IF i = m THEN IF q[m] \in T THEN Append(r[m - 1], q[m]) ELSE r[m - 1]
                     ELSE r[i]]
  <2>2. ASSUME NEW i \in 0..m
        PROVE  s[i] = IF i = 0 THEN <<>>
                      ELSE IF q[i] \in T THEN Append(s[i - 1], q[i]) ELSE s[i - 1]
    <3>1. CASE i = m
      BY <3>1
    <3>2. CASE i # m
      <4>1. i \in 0..(m - 1) /\ (i # 0 => i - 1 \in 0..m /\ i - 1 # m)
        BY <3>2
      <4>2. s[i] = r[i] /\ (i # 0 => s[i - 1] = r[i - 1])
        BY <3>2, <4>1
      <4> QED BY <2>1, <4>1, <4>2
    <3> QED BY <3>1, <3>2
  <2>3. Run(s, m)
    BY <2>2
  <2> HIDE DEF s, Run
  <2> QED BY <2>3
<1>3. n \in W
  <2> HIDE DEF W
  <2> QED BY <1>1, <1>2, AfterRounds
<1>4. \E r : Run(r, n)
  BY <1>3
<1>5. \E r : Run(r, n) /\ Only(q, T) = r[n]
  BY Zenon, <1>4 DEF Only
<1> QED BY <1>5 DEF Keeps

(* What holds of the empty sequence and is kept by Append holds of all. *)
LEMMA AfterAppends ==
  ASSUME NEW S, NEW q \in Seq(S), NEW W, <<>> \in W,
         \A s \in Seq(S), x \in S : s \in W => Append(s, x) \in W
  PROVE  q \in W
<1> DEFINE n == Len(q)
           T == {i \in 0..n : SubSeq(q, 1, i) \in W}
<1>1. n \in Nat /\ SubSeq(q, 1, n) = q
  OBVIOUS
<1>2. 0 \in T
  <2>1. SubSeq(q, 1, 0) = <<>> /\ 0 \in 0..n
    BY <1>1
  <2> QED BY <2>1
<1>3. ASSUME NEW i \in 1..n, i - 1 \in T PROVE i \in T
  <2> DEFINE s == SubSeq(q, 1, i - 1)
  <2>1. s \in Seq(S) /\ q[i] \in S /\ s \in W
    BY <1>3
  <2>2. SubSeq(q, 1, i) = Append(s, q[i])
    <3>1. Len(s) = i - 1 /\ \A j \in 1..(i - 1) : s[j] = q[j]
      OBVIOUS
    <3> QED OBVIOUS
  <2>3. i \in 0..n
    OBVIOUS
  <2> HIDE DEF s
  <2> QED BY <2>1, <2>2, <2>3
<1>4. n \in T
  <2> HIDE DEF T, n
  <2> QED BY <1>1, <1>2, <1>3, AfterRounds
<1> QED BY <1>1, <1>4

LEMMA OnlyEmpty ==
  ASSUME NEW T
  PROVE  Only(<<>>, T) = <<>>
<1>1. PICK r : Keeps(<<>>, T, r) /\ Only(<<>>, T) = r[Len(<<>>)]
  BY OnlyKeeps
<1>2. Len(<<>>) = 0 /\ 0 \in 0..0
  OBVIOUS
<1>3. r[0] = <<>>
  BY <1>1, <1>2 DEF Keeps
<1> QED BY <1>1, <1>2, <1>3

LEMMA OnlyAppend ==
  ASSUME NEW S, NEW q \in Seq(S), NEW x \in S, NEW T
  PROVE  Only(Append(q, x), T) = IF x \in T THEN Append(Only(q, T), x) ELSE Only(q, T)
<1> DEFINE n == Len(q)
           s == Append(q, x)
<1>1. n \in Nat /\ Len(s) = n + 1 /\ s[n + 1] = x /\ \A i \in 1..n : s[i] = q[i]
  BY AppendProperties
<1>2. PICK r : Keeps(q, T, r) /\ Only(q, T) = r[n]
  BY OnlyKeeps
<1>3. PICK t : Keeps(s, T, t) /\ Only(s, T) = t[n + 1]
  <2> HIDE DEF s, n
  <2>1. Len(s) \in Nat /\ Len(s) = n + 1
    BY <1>1
  <2> QED BY Zenon, <2>1, OnlyKeeps
<1> HIDE DEF s, n
<1>4. /\ \A i \in 0..n : r[i] = IF i = 0 THEN <<>>
                           ELSE IF q[i] \in T THEN Append(r[i - 1], q[i]) ELSE r[i - 1]
      /\ \A i \in 0..(n + 1) : t[i] = IF i = 0 THEN <<>>
                           ELSE IF s[i] \in T THEN Append(t[i - 1], s[i]) ELSE t[i - 1]
  BY <1>1, <1>2, <1>3 DEF Keeps, n
<1> DEFINE W == {i \in 0..n : r[i] = t[i]}
<1>5. 0 \in W
  BY <1>1, <1>4
<1>6. ASSUME NEW i \in 1..n, i - 1 \in W PROVE i \in W
  <2>1. i \in 0..n /\ i \in 0..(n + 1) /\ i # 0 /\ r[i - 1] = t[i - 1] /\ s[i] = q[i]
    BY <1>1, <1>6
  <2> QED BY <1>4, <2>1
<1>7. n \in W
  <2> HIDE DEF W
  <2> QED BY <1>1, <1>5, <1>6, AfterRounds
<1>8. t[n + 1] = IF x \in T THEN Append(r[n], x) ELSE r[n]
  BY <1>1, <1>4, <1>7
<1> QED BY <1>2, <1>3, <1>8 DEF s

LEMMA OnlyType ==
  ASSUME NEW S, NEW q \in Seq(S), NEW T
  PROVE  Only(q, T) \in Seq(S) /\ Only(q, T) \in Seq(S \cap T)
<1> DEFINE W == {s \in Seq(S) : Only(s, T) \in Seq(S \cap T)}
<1>1. <<>> \in W
  <2>1. <<>> \in Seq(S) /\ <<>> \in Seq(S \cap T)
    OBVIOUS
  <2> QED BY Zenon, <2>1, OnlyEmpty
<1>2. ASSUME NEW s \in Seq(S), NEW x \in S, s \in W PROVE Append(s, x) \in W
  <2>1. Append(s, x) \in Seq(S)
    OBVIOUS
  <2>2. Only(Append(s, x), T) = IF x \in T THEN Append(Only(s, T), x) ELSE Only(s, T)
    BY OnlyAppend
  <2> DEFINE o == Only(s, T)
  <2>3. o \in Seq(S \cap T)
    BY <1>2
  <2> HIDE DEF o
  <2>4. x \in T => Append(o, x) \in Seq(S \cap T)
    BY <2>3
  <2>5. Only(Append(s, x), T) \in Seq(S \cap T)
    BY <2>2, <2>3, <2>4 DEF o
  <2> QED BY <2>1, <2>5
<1>3. q \in W
  <2> HIDE DEF W
  <2> QED BY <1>1, <1>2, AfterAppends
<1>4. Only(q, T) \in Seq(S \cap T)
  BY <1>3
<1>5. Seq(S \cap T) \subseteq Seq(S)
  OBVIOUS
<1> QED BY Zenon, <1>4, <1>5

LEMMA OnlyConcat ==
  ASSUME NEW S, NEW q \in Seq(S), NEW r \in Seq(S), NEW T
  PROVE  Only(q \o r, T) = Only(q, T) \o Only(r, T)
<1> DEFINE W == {s \in Seq(S) : Only(q \o s, T) = Only(q, T) \o Only(s, T)}
<1>1. <<>> \in W
  <2>1. Only(<<>>, T) = <<>> /\ Only(q, T) \in Seq(S)
    BY OnlyEmpty, OnlyType
  <2>2. Only(q, T) \o <<>> = Only(q, T) /\ q \o <<>> = q /\ <<>> \in Seq(S)
    BY <2>1
  <2> QED BY <2>1, <2>2
<1>2. ASSUME NEW s \in Seq(S), NEW x \in S, s \in W PROVE Append(s, x) \in W
  <2>1. q \o s \in Seq(S) /\ Append(s, x) \in Seq(S)
        /\ q \o Append(s, x) = Append(q \o s, x)
    OBVIOUS
  <2>2. Only(q, T) \in Seq(S) /\ Only(s, T) \in Seq(S)
    BY OnlyType
  <2>3. Only(q, T) \o Append(Only(s, T), x) = Append(Only(q, T) \o Only(s, T), x)
    BY <2>2
  <2>4. /\ Only(q \o Append(s, x), T) = IF x \in T THEN Append(Only(q \o s, T), x)
                                       ELSE Only(q \o s, T)
        /\ Only(Append(s, x), T) = IF x \in T THEN Append(Only(s, T), x) ELSE Only(s, T)
    BY <2>1, OnlyAppend
  <2> QED BY <1>2, <2>1, <2>3, <2>4
<1>3. r \in W
  <2> HIDE DEF W
  <2> QED BY <1>1, <1>2, AfterAppends
<1> QED BY <1>3

LEMMA OnlyHead ==
  ASSUME NEW S, NEW q \in Seq(S), q # <<>>, NEW T
  PROVE  Only(q, T) = IF Head(q) \in T THEN <<Head(q)>> \o Only(Tail(q), T)
                      ELSE Only(Tail(q), T)
<1>1. <<Head(q)>> \in Seq(S) /\ Tail(q) \in Seq(S) /\ q = <<Head(q)>> \o Tail(q)
      /\ Head(q) \in S /\ <<Head(q)>> = Append(<<>>, Head(q)) /\ <<>> \in Seq(S)
  OBVIOUS
<1> DEFINE h == Head(q)
           r == Tail(q)
<1> HIDE DEF h, r
<1>2. Only(<<h>>, T) = IF h \in T THEN <<h>> ELSE <<>>
  <2>1. Only(Append(<<>>, h), T) = IF h \in T THEN Append(Only(<<>>, T), h)
                                  ELSE Only(<<>>, T)
    BY <1>1, OnlyAppend DEF h
  <2> QED BY <1>1, <2>1, OnlyEmpty DEF h
<1>3. Only(q, T) = Only(<<h>>, T) \o Only(r, T)
  <2>1. Only(<<h>> \o r, T) = Only(<<h>>, T) \o Only(r, T)
    <3> DEFINE one == <<h>>
    <3>1. one \in Seq(S) /\ r \in Seq(S)
      BY <1>1 DEF h, r
    <3> HIDE DEF one
    <3>2. Only(one \o r, T) = Only(one, T) \o Only(r, T)
      BY <3>1, OnlyConcat
    <3> QED BY <3>2 DEF one
  <2> QED BY <1>1, <2>1 DEF h, r
<1>4. Only(r, T) \in Seq(S)
  BY <1>1, OnlyType DEF r
<1>5. <<>> \o Only(r, T) = Only(r, T)
  BY <1>4
<1> QED BY <1>2, <1>3, <1>5 DEF h, r

LEMMA OnlyOnly ==
  ASSUME NEW S, NEW q \in Seq(S), NEW T, NEW U
  PROVE  Only(Only(q, T), U) = Only(q, T \cap U)
<1> DEFINE W == {s \in Seq(S) : Only(Only(s, T), U) = Only(s, T \cap U)}
<1>1. <<>> \in W
  BY OnlyEmpty
<1>2. ASSUME NEW s \in Seq(S), NEW x \in S, s \in W PROVE Append(s, x) \in W
  <2>1. Only(s, T) \in Seq(S)
    BY OnlyType
  <2>2. Only(Append(s, x), T \cap U) = IF x \in T \cap U THEN Append(Only(s, T \cap U), x)
                                       ELSE Only(s, T \cap U)
    BY OnlyAppend
  <2>3. Only(Append(s, x), T) = IF x \in T THEN Append(Only(s, T), x) ELSE Only(s, T)
    BY OnlyAppend
  <2>4. Only(Append(Only(s, T), x), U) = IF x \in U THEN Append(Only(Only(s, T), U), x)
                                         ELSE Only(Only(s, T), U)
    BY <2>1, OnlyAppend
  <2>5. Only(Only(s, T), U) = Only(s, T \cap U) /\ Append(s, x) \in Seq(S)
    BY <1>2
  <2>6. Only(Only(Append(s, x), T), U) = Only(Append(s, x), T \cap U)
    <3> DEFINE V == T \cap U
    <3>1. x \in V <=> x \in T /\ x \in U
      OBVIOUS
    <3> HIDE DEF V
    <3>2. CASE x \in T
      BY <2>2, <2>3, <2>4, <2>5, <3>1, <3>2 DEF V
    <3>3. CASE x \notin T
      BY <2>2, <2>3, <2>5, <3>1, <3>3 DEF V
    <3> QED BY <3>2, <3>3
  <2> QED BY <2>5, <2>6
<1>3. q \in W
  <2> HIDE DEF W
  <2> QED BY <1>1, <1>2, AfterAppends
<1> QED BY <1>3

(* Of a sequence without frames in T nothing is kept. *)
LEMMA OnlyNone ==
  ASSUME NEW S, NEW q \in Seq(S), NEW T, \A i \in 1..Len(q) : q[i] \notin T
  PROVE  Only(q, T) = <<>>
<1>1. PICK r : Keeps(q, T, r) /\ Only(q, T) = r[Len(q)]
  BY OnlyKeeps
<1> DEFINE n == Len(q)
           W == {i \in 0..n : r[i] = <<>>}
<1>2. n \in Nat /\ \A i \in 0..n : r[i] = IF i = 0 THEN <<>> ELSE r[i - 1]
  BY <1>1 DEF Keeps
<1> HIDE DEF n
<1>3. 0 \in W
  BY <1>2
<1>4. \A i \in 1..n : i - 1 \in W => i \in W
  BY <1>2
<1>5. n \in W
  <2> HIDE DEF W
  <2> QED BY <1>2, <1>3, <1>4, AfterRounds
<1> QED BY <1>1, <1>5 DEF n

(* sum[i] is what Granted has added up of the first i frames. *)
LEMMA GrantedSums ==
  ASSUME NEW q, Len(q) \in Nat
  PROVE  \E sum : /\ sum = [i \in 0..Len(q) |-> IF i = 0 THEN 0 ELSE sum[i - 1] + q[i].n]
                 /\ Granted(q) = sum[Len(q)]
<1> DEFINE n == Len(q)
           Run(r, m) == r = [i \in 0..m |-> IF i = 0 THEN 0 ELSE r[i - 1] + q[i].n]
           W == {m \in 0..n : \E r : Run(r, m)}
<1>1. 0 \in W
  <2>1. Run([i \in 0..0 |-> 0], 0)
    OBVIOUS
  <2> HIDE DEF Run
  <2> QED BY <2>1
<1>2. ASSUME NEW m \in 1..n, m - 1 \in W PROVE m \in W
  <2>1. PICK r : Run(r, m - 1)
    BY <1>2
  <2> DEFINE s == [i \in 0..m |-> IF i = m THEN r[m - 1] + q[m].n ELSE r[i]]
  <2>2. ASSUME NEW i \in 0..m
        PROVE  s[i] = IF i = 0 THEN 0 ELSE s[i - 1] + q[i].n
    <3>1. CASE i = m
      BY <3>1
    <3>2. CASE i # m
      <4>1. i \in 0..(m - 1) /\ (i # 0 => i - 1 \in 0..m /\ i - 1 # m)
        BY <3>2
      <4>2. s[i] = r[i] /\ (i # 0 => s[i - 1] = r[i - 1])
        BY <3>2, <4>1
      <4> QED BY <2>1, <4>1, <4>2
    <3> QED BY <3>1, <3>2
  <2>3. Run(s, m)
    BY <2>2
  <2> HIDE DEF s, Run
  <2> QED BY <2>3
<1>3. n \in W
  <2> HIDE DEF W
  <2> QED BY <1>1, <1>2, AfterRounds
<1>4. \E r : Run(r, n)
  BY <1>3
<1>5. \E r : Run(r, n) /\ Granted(q) = r[n]
  BY Zenon, <1>4 DEF Granted
<1> QED BY <1>5

LEMMA GrantedEmpty == Granted(<<>>) = 0
<1>1. Len(<<>>) = 0 /\ 0 \in 0..0
  OBVIOUS
<1>2. PICK r : /\ r = [i \in 0..Len(<<>>) |-> IF i = 0 THEN 0 ELSE r[i - 1] + <<>>[i].n]
               /\ Granted(<<>>) = r[Len(<<>>)]
  BY <1>1, GrantedSums
<1>3. r[0] = 0
  BY <1>1, <1>2
<1> QED BY <1>1, <1>2, <1>3

LEMMA GrantedAppend ==
  ASSUME NEW S, NEW q \in Seq(S), NEW x \in S
  PROVE  Granted(Append(q, x)) = Granted(q) + x.n
<1> DEFINE n == Len(q)
           s == Append(q, x)
<1>1. n \in Nat /\ Len(s) = n + 1 /\ s[n + 1] = x /\ \A i \in 1..n : s[i] = q[i]
  BY AppendProperties
<1>2. PICK r : /\ r = [i \in 0..n |-> IF i = 0 THEN 0 ELSE r[i - 1] + q[i].n]
               /\ Granted(q) = r[n]
  BY GrantedSums
<1> HIDE DEF s, n
<1>3. PICK t : /\ t = [i \in 0..(n + 1) |-> IF i = 0 THEN 0 ELSE t[i - 1] + s[i].n]
               /\ Granted(s) = t[n + 1]
  BY <1>1, GrantedSums
<1>4. /\ \A i \in 0..n : r[i] = IF i = 0 THEN 0 ELSE r[i - 1] + q[i].n
      /\ \A i \in 0..(n + 1) : t[i] = IF i = 0 THEN 0 ELSE t[i - 1] + s[i].n
  <2>1. \A i \in 0..n : r[i] = IF i = 0 THEN 0 ELSE r[i - 1] + q[i].n
    BY <1>2
  <2>2. \A i \in 0..(n + 1) : t[i] = IF i = 0 THEN 0 ELSE t[i - 1] + s[i].n
    BY <1>3
  <2> QED BY <2>1, <2>2
<1> DEFINE W == {i \in 0..n : r[i] = t[i]}
<1>5. 0 \in W
  BY <1>1, <1>4
<1>6. ASSUME NEW i \in 1..n, i - 1 \in W PROVE i \in W
  <2>1. i \in 0..n /\ i \in 0..(n + 1) /\ i # 0 /\ r[i - 1] = t[i - 1] /\ s[i] = q[i]
    BY <1>1, <1>6
  <2> QED BY <1>4, <2>1
<1>7. n \in W
  <2> HIDE DEF W
  <2> QED BY <1>1, <1>5, <1>6, AfterRounds
<1>8. t[n + 1] = r[n] + x.n
  BY <1>1, <1>4, <1>7
<1> QED BY <1>2, <1>3, <1>8 DEF s

LEMMA GrantedNat ==
  ASSUME NEW q \in Seq(Frames)
  PROVE  Granted(q) \in Nat
<1> DEFINE W == {s \in Seq(Frames) : Granted(s) \in Nat}
<1>1. <<>> \in W
  <2>1. <<>> \in Seq(Frames)
    OBVIOUS
  <2> QED BY <2>1, GrantedEmpty
<1>2. ASSUME NEW s \in Seq(Frames), NEW x \in Frames, s \in W PROVE Append(s, x) \in W
  <2>1. Append(s, x) \in Seq(Frames) /\ x.n \in Nat
    BY DEF Frames
  <2>2. Granted(Append(s, x)) = Granted(s) + x.n
    BY GrantedAppend
  <2> QED BY <1>2, <2>1, <2>2
<1>3. q \in W
  <2> HIDE DEF W
  <2> QED BY <1>1, <1>2, AfterAppends
<1> QED BY <1>3

LEMMA GrantedConcat ==
  ASSUME NEW q \in Seq(Frames), NEW r \in Seq(Frames)
  PROVE  Granted(q \o r) = Granted(q) + Granted(r)
<1> DEFINE W == {s \in Seq(Frames) : Granted(q \o s) = Granted(q) + Granted(s)}
<1>1. <<>> \in W
  <2>1. q \o <<>> = q /\ <<>> \in Seq(Frames) /\ Granted(q) \in Nat
    BY GrantedNat
  <2> QED BY <2>1, GrantedEmpty
<1>2. ASSUME NEW s \in Seq(Frames), NEW x \in Frames, s \in W PROVE Append(s, x) \in W
  <2>1. Append(s, x) \in Seq(Frames) /\ q \o s \in Seq(Frames) /\ x.n \in Nat
        /\ q \o Append(s, x) = Append(q \o s, x)
    BY DEF Frames
  <2>2. Granted(Append(s, x)) = Granted(s) + x.n
        /\ Granted(Append(q \o s, x)) = Granted(q \o s) + x.n
    BY <2>1, GrantedAppend
  <2>3. Granted(q) \in Nat /\ Granted(s) \in Nat
    BY GrantedNat
  <2>4. Granted(q \o s) = Granted(q) + Granted(s)
    BY <1>2
  <2>5. Granted(q \o Append(s, x)) = Granted(q) + Granted(Append(s, x))
    BY <2>1, <2>2, <2>3, <2>4
  <2> QED BY <2>1, <2>5
<1>3. r \in W
  <2> HIDE DEF W
  <2> QED BY <1>1, <1>2, AfterAppends
<1> QED BY <1>3

-----------------------------------------------------------------------------
(* What a handler does to an end and to what the end has sent *)

(* An end in the middle of a handler: what it sends is in out, or behind the *)
(* commands that wait.                                                       *)
Ends == [self : Sides, mx : {"IDLE", "CONNECTED", "DISC_WAIT_UA"}, timer : BOOLEAN,
         congested : BOOLEAN, cmd_q : Seq(Frames), out : Seq(Frames), port : [Ports -> Port]]

Steady(e) ==
  /\ e \in Ends
  /\ IF e.congested THEN e.out = <<>> ELSE e.cmd_q = <<>>

Of(p) == {f \in Frames : f.p = p}

(* The frames of p that end e has sent in this step or still has to send. *)
Mine(e, p) == Only(e.out \o e.cmd_q, Of(p))

(* e becomes r: of the ports only p changes, to q, and sends g. *)
Alters(e, r, p, q, g) ==
  /\ Steady(r)
  /\ r.self = e.self /\ r.congested = e.congested
  /\ r.port = [e.port EXCEPT ![p] = q]
  /\ \A x \in Ports : Mine(r, x) = IF x = p THEN Mine(e, x) \o g ELSE Mine(e, x)

SameMx(e, r) == r.mx = e.mx /\ r.timer = e.timer

LEMMA Constants ==
  /\ k \in Nat /\ 0 < k /\ k <= credit_rx_max
  /\ credit_rx_max \in Nat /\ credit_rx_low \in Nat /\ rx_buf_critical \in Nat
  /\ credit_rx_max <= rx_buf_critical
  /\ Ports \subseteq Nat /\ 0 \notin Ports /\ MAX_RFC_PORTS \in Nat
  /\ A # B
BY RfcommAssumption DEF k, Least

LEMMA FrameTypes ==
  ASSUME NEW p \in Ports \cup {0}
  PROVE  /\ \A t \in {"MSC", "MSCR", "SABME", "UA", "DM", "DISC"} : Frame(t, p) \in Frames
         /\ \A t \in {"PN", "PNR", "CREDIT"}, n \in 0..credit_rx_max : Credits(t, p, n) \in Frames
         /\ \A n \in 0..credit_rx_max, d \in Buffers : Data(p, n, d) \in Frames
         /\ \A t \in {"UA", "DISC", "HANGUP"} : Mx(t) \in Frames
<1> 0 \in 0..credit_rx_max
  BY Constants
<1> QED BY DEF Frames, Frame, Credits, Data, Mx

LEMMA MineType ==
  ASSUME NEW e \in Ends, NEW p
  PROVE  Mine(e, p) \in Seq(Frames)
<1>1. e.out \o e.cmd_q \in Seq(Frames)
  BY DEF Ends
<1> QED BY <1>1, OnlyType DEF Mine

LEMMA PutActs ==
  ASSUME NEW e, Steady(e), NEW p \in Ports, NEW q \in Port
  PROVE  Alters(e, Put(e, p, q), p, q, <<>>) /\ SameMx(e, Put(e, p, q))
<1> DEFINE r == Put(e, p, q)
<1>1. /\ r \in Ends /\ r.port = [e.port EXCEPT ![p] = q]
      /\ r.self = e.self /\ r.mx = e.mx /\ r.timer = e.timer /\ r.congested = e.congested
      /\ r.cmd_q = e.cmd_q /\ r.out = e.out
  BY DEF Steady, Ends, Put
<1> HIDE DEF r
<1>2. \A x : Mine(r, x) = Mine(e, x)
  BY <1>1 DEF Mine
<1>3. \A x \in Ports : Mine(e, x) \o <<>> = Mine(e, x)
  BY MineType DEF Steady
<1>4. Steady(r)
  BY <1>1 DEF Steady
<1> QED BY <1>1, <1>2, <1>3, <1>4 DEF Alters, SameMx, r

LEMMA SendActs ==
  ASSUME NEW e, Steady(e), NEW f \in Frames
  PROVE  LET r == rfc_check_send_cmd(e, f)
         IN /\ Steady(r) /\ SameMx(e, r)
            /\ r.self = e.self /\ r.congested = e.congested /\ r.port = e.port
            /\ \A x \in Ports : Mine(r, x) = IF f.p = x THEN Mine(e, x) \o <<f>> ELSE Mine(e, x)
<1> DEFINE r == rfc_check_send_cmd(e, f)
<1>1. /\ r \in Ends /\ r.port = e.port
      /\ r.self = e.self /\ r.mx = e.mx /\ r.timer = e.timer /\ r.congested = e.congested
      /\ e.congested => r.cmd_q = Append(e.cmd_q, f) /\ r.out = e.out
      /\ ~e.congested => r.cmd_q = e.cmd_q /\ r.out = Append(e.out, f)
  <2>1. e \in Ends /\ Append(e.cmd_q, f) \in Seq(Frames) /\ Append(e.out, f) \in Seq(Frames)
    BY DEF Steady, Ends
  <2>2. CASE e.congested
    <3>1. r = [e EXCEPT !.cmd_q = Append(@, f)]
      BY <2>2 DEF rfc_check_send_cmd
    <3> QED BY <2>1, <2>2, <3>1 DEF Ends
  <2>3. CASE ~e.congested
    <3>1. r = [e EXCEPT !.out = Append(@, f)]
      BY <2>3 DEF rfc_check_send_cmd
    <3> QED BY <2>1, <2>3, <3>1 DEF Ends
  <2> QED BY <2>2, <2>3
<1> HIDE DEF r
<1>2. Steady(r)
  BY <1>1 DEF Steady
<1>3. r.out \o r.cmd_q = Append(e.out \o e.cmd_q, f) /\ e.out \o e.cmd_q \in Seq(Frames)
  <2>1. e.out \in Seq(Frames) /\ e.cmd_q \in Seq(Frames) /\ e.congested \in BOOLEAN
    BY DEF Steady, Ends
  <2>2. CASE e.congested
    <3>1. e.out = <<>> /\ r.out = <<>> /\ r.cmd_q = Append(e.cmd_q, f)
      BY <1>1, <2>2 DEF Steady
    <3>2. r.out \o r.cmd_q = Append(e.cmd_q, f) /\ e.out \o e.cmd_q = e.cmd_q
      BY <2>1, <3>1
    <3> QED BY <2>1, <3>2
  <2>3. CASE ~e.congested
    <3>1. e.cmd_q = <<>> /\ r.cmd_q = <<>> /\ r.out = Append(e.out, f)
      BY <1>1, <2>3 DEF Steady
    <3>2. r.out \o r.cmd_q = Append(e.out, f) /\ e.out \o e.cmd_q = e.out
      BY <2>1, <3>1
    <3> QED BY <2>1, <3>2
  <2> QED BY <2>2, <2>3
<1>4. ASSUME NEW x \in Ports
      PROVE  Mine(r, x) = IF f.p = x THEN Mine(e, x) \o <<f>> ELSE Mine(e, x)
  <2> DEFINE q == e.out \o e.cmd_q
  <2>1. q \in Seq(Frames) /\ r.out \o r.cmd_q = Append(q, f)
    BY <1>3
  <2>2. Mine(e, x) = Only(q, Of(x)) /\ Mine(r, x) = Only(Append(q, f), Of(x))
    BY <2>1 DEF Mine
  <2> HIDE DEF q
  <2>3. Only(Append(q, f), Of(x)) = IF f \in Of(x) THEN Append(Only(q, Of(x)), f)
                                   ELSE Only(q, Of(x))
    BY <2>1, OnlyAppend
  <2>4. f \in Of(x) <=> f.p = x
    BY DEF Of
  <2>5. Mine(e, x) \in Seq(Frames)
    BY MineType DEF Steady
  <2>6. Append(Mine(e, x), f) = Mine(e, x) \o <<f>>
    BY <2>5
  <2> QED BY <2>2, <2>3, <2>4, <2>6
<1> QED BY <1>1, <1>2, <1>4 DEF SameMx, r

LEMMA AltersThen ==
  ASSUME NEW e, NEW r, NEW t, NEW p \in Ports, NEW q, NEW u,
         NEW g \in Seq(Frames), NEW h \in Seq(Frames), Steady(e),
         Alters(e, r, p, q, g), Alters(r, t, p, u, h)
  PROVE  Alters(e, t, p, u, g \o h)
<1>1. /\ Steady(t) /\ t.self = e.self /\ t.congested = e.congested
      /\ t.port = [r.port EXCEPT ![p] = u] /\ r.port = [e.port EXCEPT ![p] = q]
      /\ e.port \in [Ports -> Port]
  BY DEF Alters, Steady, Ends
<1>2. t.port = [e.port EXCEPT ![p] = u]
  BY <1>1
<1>3. ASSUME NEW x \in Ports
      PROVE  Mine(t, x) = IF x = p THEN Mine(e, x) \o (g \o h) ELSE Mine(e, x)
  <2>1. /\ Mine(r, x) = IF x = p THEN Mine(e, x) \o g ELSE Mine(e, x)
        /\ Mine(t, x) = IF x = p THEN Mine(r, x) \o h ELSE Mine(r, x)
    BY DEF Alters
  <2> DEFINE m == Mine(e, x)
  <2>2. m \in Seq(Frames)
    BY MineType DEF Steady
  <2> HIDE DEF m
  <2>3. (m \o g) \o h = m \o (g \o h)
    BY <2>2
  <2> QED BY <2>1, <2>3 DEF m
<1> QED BY <1>1, <1>2, <1>3 DEF Alters

(* A handler that alters nothing. *)
LEMMA AltersNot ==
  ASSUME NEW e, Steady(e), NEW p \in Ports
  PROVE  Alters(e, e, p, e.port[p], <<>>)
<1>1. \A x \in Ports : Mine(e, x) \o <<>> = Mine(e, x)
  BY MineType DEF Steady
<1>2. e.port = [e.port EXCEPT ![p] = e.port[p]]
  BY DEF Steady, Ends
<1> QED BY <1>1, <1>2 DEF Alters

(* A handler that alters p, seen from the others and from p. *)
LEMMA AltersPorts ==
  ASSUME NEW e, NEW r, NEW p \in Ports, NEW q, NEW g, Steady(e), Alters(e, r, p, q, g)
  PROVE  /\ Steady(r) /\ r \in Ends /\ r.port[p] = q /\ q \in Port
         /\ e.port[p] \in Port
         /\ \A x \in Ports \ {p} : r.port[x] = e.port[x] /\ Mine(r, x) = Mine(e, x)
         /\ Mine(r, p) = Mine(e, p) \o g
BY DEF Alters, Steady, Ends

(* A command of p, sent after p changed. *)
LEMMA PutSendActs ==
  ASSUME NEW e, Steady(e), NEW p \in Ports, NEW q \in Port, NEW f \in Frames, f.p = p
  PROVE  LET r == rfc_check_send_cmd(Put(e, p, q), f)
         IN Alters(e, r, p, q, <<f>>) /\ SameMx(e, r)
<1> DEFINE c == Put(e, p, q)
           r == rfc_check_send_cmd(c, f)
<1>1. Alters(e, c, p, q, <<>>) /\ SameMx(e, c)
  BY PutActs
<1>2. Steady(c)
  BY <1>1 DEF Alters
<1> HIDE DEF c
<1>3. /\ Steady(r) /\ SameMx(c, r)
      /\ r.self = c.self /\ r.congested = c.congested /\ r.port = c.port
      /\ \A x \in Ports : Mine(r, x) = IF f.p = x THEN Mine(c, x) \o <<f>> ELSE Mine(c, x)
  BY <1>2, SendActs
<1> HIDE DEF r
<1>4. \A x \in Ports : Mine(e, x) \in Seq(Frames) /\ Mine(e, x) \o <<>> = Mine(e, x)
  BY MineType DEF Steady
<1>5. \A x \in Ports : Mine(c, x) = Mine(e, x)
  BY <1>1, <1>4 DEF Alters
<1>6. /\ r.self = e.self /\ r.congested = e.congested /\ r.port = [e.port EXCEPT ![p] = q]
      /\ \A x \in Ports : Mine(r, x) = IF x = p THEN Mine(e, x) \o <<f>> ELSE Mine(e, x)
  BY <1>1, <1>3, <1>5 DEF Alters
<1> QED BY <1>1, <1>3, <1>6 DEF Alters, SameMx, r, c

LEMMA AnswerActs ==
  ASSUME NEW e, Steady(e), NEW p \in Ports, NEW f \in Frames, f.p = p
  PROVE  LET r == rfc_check_send_cmd(e, f)
         IN Alters(e, r, p, e.port[p], <<f>>) /\ SameMx(e, r)
<1> DEFINE r == rfc_check_send_cmd(e, f)
<1>3. /\ Steady(r) /\ SameMx(e, r)
      /\ r.self = e.self /\ r.congested = e.congested /\ r.port = e.port
      /\ \A x \in Ports : Mine(r, x) = IF f.p = x THEN Mine(e, x) \o <<f>> ELSE Mine(e, x)
  BY SendActs
<1> HIDE DEF r
<1>4. e.port = [e.port EXCEPT ![p] = e.port[p]]
  BY DEF Steady, Ends
<1> QED BY <1>3, <1>4 DEF Alters, r

-----------------------------------------------------------------------------
(* Closing *)

Stopping(e) == e.timer \/ e.mx # "CONNECTED"

(* A multiplexer is wound up only when it has no ports. *)
Winds(e, r) ==
  /\ r.mx = "CONNECTED" => e.mx = "CONNECTED"
  /\ Stopping(r) => Stopping(e) \/ NoPorts(r)

LEMMA UnusedTypes ==
  /\ Unused \in Port /\ Listening \in Port
  /\ \A q \in Port : port_release_port(q) \in Port
  /\ \A q \in Port : \A s, p : Closed(s, p, q) \in Port /\ ~Closed(s, p, q).mcb
                                     /\ Closed(s, p, q).rfc = "CLOSED"
<1>1. Unused \in Port /\ ~Unused.mcb /\ Unused.rfc = "CLOSED"
  BY Constants DEF Unused, Port, States
<1>2. Listening \in Port /\ ~Listening.mcb /\ Listening.rfc = "CLOSED"
  BY <1>1 DEF Listening, Unused, Port
<1>3. ASSUME NEW q \in Port
      PROVE  /\ port_release_port(q) \in Port /\ ~port_release_port(q).mcb
             /\ port_release_port(q).rfc = "CLOSED"
  <2> DEFINE c == [Listening EXCEPT !.rsp = q.rsp]
  <2>1. c \in Port /\ ~c.mcb /\ c.rfc = "CLOSED"
    BY <1>2 DEF Port
  <2> HIDE DEF c
  <2>2. port_release_port(q) = c \/ port_release_port(q) = Unused
    BY DEF port_release_port, c
  <2> QED BY <1>1, <2>1, <2>2
<1>4. ASSUME NEW q \in Port, NEW s, NEW p
      PROVE  /\ Closed(s, p, q) \in Port /\ ~Closed(s, p, q).mcb
             /\ Closed(s, p, q).rfc = "CLOSED"
  <2> DEFINE c == [q EXCEPT !.timer = FALSE, !.rfc = "CLOSED", !.mcb = FALSE]
  <2>1. c \in Port /\ ~c.mcb /\ c.rfc = "CLOSED"
    BY DEF Port, States
  <2> HIDE DEF c
  <2>2. Closed(s, p, q) = c \/ Closed(s, p, q) = port_release_port(q)
    BY DEF Closed, c
  <2> QED BY <1>3, <2>1, <2>2
<1> QED BY <1>1, <1>2, <1>3, <1>4

(* The multiplexer's own frames and its timer do not concern the ports. *)
LEMMA ActiveActs ==
  ASSUME NEW e, Steady(e), NEW b \in BOOLEAN
  PROVE  LET r == rfc_check_mcb_active(e, b)
         IN /\ Steady(r) /\ Winds(e, r)
            /\ r.self = e.self /\ r.congested = e.congested /\ r.port = e.port
            /\ \A x \in Ports : Mine(r, x) = Mine(e, x)
<1> DEFINE r == rfc_check_mcb_active(e, b)
<1>1. CASE ~NoPorts(e)
  BY <1>1 DEF rfc_check_mcb_active, Winds
<1>2. CASE NoPorts(e) /\ (~b \/ e.mx # "CONNECTED")
  <2>1. r = e \/ r = [e EXCEPT !.timer = TRUE]
    BY <1>2 DEF rfc_check_mcb_active, rfc_mx_close
  <2>2. /\ r \in Ends /\ r.self = e.self /\ r.congested = e.congested /\ r.port = e.port
        /\ r.mx = e.mx /\ r.out = e.out /\ r.cmd_q = e.cmd_q
    BY <2>1 DEF Steady, Ends
  <2> HIDE DEF r
  <2>3. NoPorts(r)
    BY <1>2, <2>2 DEF NoPorts
  <2> QED BY <2>2, <2>3 DEF Steady, Winds, Mine, r
<1>3. CASE NoPorts(e) /\ b /\ e.mx = "CONNECTED"
  <2> DEFINE c == [e EXCEPT !.mx = "DISC_WAIT_UA", !.timer = TRUE]
  <2>1. r = rfc_check_send_cmd(c, Mx("DISC"))
    BY <1>3 DEF rfc_check_mcb_active, rfc_mx_close
  <2>2. /\ c \in Ends /\ c.self = e.self /\ c.congested = e.congested /\ c.port = e.port
        /\ c.mx = "DISC_WAIT_UA" /\ c.out = e.out /\ c.cmd_q = e.cmd_q
    BY DEF Steady, Ends
  <2>3. Steady(c) /\ \A x \in Ports : Mine(c, x) = Mine(e, x)
    BY <2>2 DEF Steady, Mine
  <2> HIDE DEF c, r
  <2>4. Mx("DISC") \in Frames /\ Mx("DISC").p = 0 /\ 0 \notin Ports
    BY FrameTypes, Constants DEF Mx
  <2>5. /\ Steady(r) /\ SameMx(c, r)
        /\ r.self = c.self /\ r.congested = c.congested /\ r.port = c.port
        /\ \A x \in Ports : Mine(r, x) = Mine(c, x)
    BY <2>1, <2>3, <2>4, SendActs
  <2>6. NoPorts(r)
    BY <1>3, <2>2, <2>5 DEF NoPorts
  <2> QED BY <2>2, <2>3, <2>5, <2>6 DEF Winds, SameMx, r
<1> QED BY <1>1, <1>2, <1>3

LEMMA ClosedActs ==
  ASSUME NEW e, Steady(e), NEW p \in Ports, NEW b \in BOOLEAN
  PROVE  LET r == port_rfc_closed(e, p, b)
         IN Alters(e, r, p, Closed(e.self, p, e.port[p]), <<>>) /\ Winds(e, r)
<1> DEFINE q == Closed(e.self, p, e.port[p])
           c == Put(e, p, q)
           r == port_rfc_closed(e, p, b)
<1>1. e.port[p] \in Port /\ q \in Port
  BY UnusedTypes DEF Steady, Ends
<1>2. Alters(e, c, p, q, <<>>) /\ SameMx(e, c)
  <2> HIDE DEF q
  <2> QED BY <1>1, PutActs
<1>3. r = c \/ r = rfc_check_mcb_active(c, b)
  BY DEF port_rfc_closed
<1>4. Steady(c)
  BY <1>2 DEF Alters
<1> HIDE DEF c, r, q
<1>5. CASE r = c
  BY <1>2, <1>5 DEF SameMx, Winds, Stopping, r, q
<1>6. CASE r = rfc_check_mcb_active(c, b)
  <2>1. /\ Steady(r) /\ Winds(c, r)
        /\ r.self = c.self /\ r.congested = c.congested /\ r.port = c.port
        /\ \A x \in Ports : Mine(r, x) = Mine(c, x)
    BY <1>4, <1>6, ActiveActs
  <2> QED BY <1>2, <2>1 DEF Alters, SameMx, Winds, Stopping, r, q
<1> QED BY <1>3, <1>5, <1>6

-----------------------------------------------------------------------------
(* Sending data *)

Grant(q, d) == IF d \notin Full /\ ~q.user_fc /\ credit_rx_max > q.credit_rx
               THEN credit_rx_max - q.credit_rx ELSE 0

AfterData(q, d) ==
  [q EXCEPT !.credit_rx = @ + Grant(q, d), !.credit_tx = IF @ > 0 THEN @ - 1 ELSE 0,
            !.peer_fc = @ \/ q.credit_tx <= 1]

LEMMA GrantType ==
  ASSUME NEW q \in Port, NEW d
  PROVE  /\ Grant(q, d) \in 0..credit_rx_max
         /\ q.credit_rx + Grant(q, d) \in 0..credit_rx_max
         /\ AfterData(q, d) \in Port
<1>1. q.credit_rx \in 0..credit_rx_max /\ credit_rx_max \in Nat /\ q.credit_tx \in Nat
      /\ q.peer_fc \in BOOLEAN
  BY Constants DEF Port
<1>2. Grant(q, d) \in 0..credit_rx_max /\ q.credit_rx + Grant(q, d) \in 0..credit_rx_max
  BY <1>1 DEF Grant
<1> DEFINE n == q.credit_rx + Grant(q, d)
           m == IF q.credit_tx > 0 THEN q.credit_tx - 1 ELSE 0
           b == q.peer_fc \/ q.credit_tx <= 1
<1>3. n \in 0..credit_rx_max /\ m \in Nat /\ b \in BOOLEAN
  BY <1>1, <1>2
<1>4. AfterData(q, d) = [q EXCEPT !.credit_rx = n, !.credit_tx = m, !.peer_fc = b]
  BY DEF AfterData
<1> HIDE DEF n, m, b
<1>5. AfterData(q, d) \in Port
  BY <1>3, <1>4 DEF Port
<1> QED BY <1>2, <1>5

LEMMA DataReqActs ==
  ASSUME NEW e, Steady(e), NEW p \in Ports, NEW d \in Buffers,
         e.port[p].rfc = "OPENED", ~e.congested
  PROVE  LET q == e.port[p]
             r == RFCOMM_DataReq(e, p, d)
         IN /\ Alters(e, r, p, AfterData(q, d), <<Data(p, Grant(q, d), d)>>)
            /\ SameMx(e, r)
<1> DEFINE q == e.port[p]
           f == Data(p, Grant(q, d), d)
           u == AfterData(q, d)
           r == RFCOMM_DataReq(e, p, d)
<1>1. q \in Port /\ u \in Port /\ f \in Frames /\ f.p = p
  BY GrantType, FrameTypes DEF Steady, Ends, Data
<1>2. r = rfc_check_send_cmd(Put(e, p, u), f)
  <2> DEFINE x == Grant(q, d)
  <2>1. r = [Put(e, p, u) EXCEPT !.out = Append(@, f)]
    BY Zenon DEF RFCOMM_DataReq, AfterData, Grant
  <2>2. Put(e, p, u).congested = e.congested
    BY DEF Put, Steady, Ends
  <2> QED BY <2>1, <2>2 DEF rfc_check_send_cmd
<1> HIDE DEF q, f, u, r
<1>3. Alters(e, r, p, u, <<f>>) /\ SameMx(e, r)
  BY <1>1, <1>2, PutSendActs
<1> QED BY <1>3 DEF q, f, u, r

LEMMA SendNextActs ==
  ASSUME NEW e, Steady(e), NEW p \in Ports
  PROVE  LET q == [e.port[p] EXCEPT !.tx = Tail(@)]
             d == Head(e.port[p].tx)
             r == SendNext(e, p)
         IN /\ ~MaySend(e, p) \/ e.port[p].tx = <<>> => r = e
            /\ MaySend(e, p) /\ e.port[p].tx # <<>> =>
                 /\ q \in Port /\ d \in Buffers /\ SameMx(e, r)
                 /\ q.rfc = "OPENED" =>
                      Alters(e, r, p, AfterData(q, d), <<Data(p, Grant(q, d), d)>>)
                 /\ q.rfc # "OPENED" => Alters(e, r, p, q, <<>>)
<1>1. CASE ~MaySend(e, p) \/ e.port[p].tx = <<>>
  BY <1>1 DEF SendNext
<1>2. CASE MaySend(e, p) /\ e.port[p].tx # <<>>
  <2> DEFINE q == [e.port[p] EXCEPT !.tx = Tail(@)]
             d == Head(e.port[p].tx)
             c == Put(e, p, q)
             r == SendNext(e, p)
  <2>1. e.port[p].tx \in Seq(Buffers) /\ e.port[p] \in Port /\ ~e.congested
    BY <1>2 DEF Steady, Ends, Port, MaySend
  <2>2. d \in Buffers /\ Tail(e.port[p].tx) \in Seq(Buffers)
    BY <1>2, <2>1
  <2>3. q \in Port /\ q.rfc = e.port[p].rfc
    BY <2>1, <2>2 DEF Port
  <2>4. Alters(e, c, p, q, <<>>) /\ SameMx(e, c)
    <3> HIDE DEF q
    <3> QED BY <2>3, PutActs
  <2>5. r = RFCOMM_DataReq(c, p, d)
    BY <1>2 DEF SendNext, Put
  <2>6. Steady(c) /\ c.port[p] = q /\ c.congested = e.congested
    <3> HIDE DEF q, c
    <3> QED BY <2>4 DEF Alters, Steady, Ends
  <2> HIDE DEF q, d, c, r
  <2>7. CASE q.rfc # "OPENED"
    <3>1. r = c
      BY <2>5, <2>6, <2>7 DEF RFCOMM_DataReq
    <3> QED BY <1>2, <2>2, <2>3, <2>4, <2>7, <3>1 DEF q, d, r
  <2>8. CASE q.rfc = "OPENED"
    <3> DEFINE f == Data(p, Grant(q, d), d)
               u == AfterData(q, d)
    <3>1. Alters(c, r, p, u, <<f>>) /\ SameMx(c, r)
      BY <2>1, <2>2, <2>5, <2>6, <2>8, DataReqActs
    <3>2. f \in Frames
      BY <2>2, <2>3, GrantType, FrameTypes
    <3> HIDE DEF f, u
    <3>3. <<f>> \in Seq(Frames) /\ <<>> \in Seq(Frames) /\ <<>> \o <<f>> = <<f>>
      BY <3>2
    <3>4. Alters(e, r, p, u, <<f>>)
      <4>1. Alters(e, r, p, u, <<>> \o <<f>>)
        BY <2>4, <3>1, <3>3, AltersThen
      <4> QED BY <3>3, <4>1
    <3>5. SameMx(e, r)
      BY <2>4, <3>1 DEF SameMx
    <3> QED BY <1>2, <2>2, <2>3, <2>8, <3>4, <3>5 DEF q, d, r, f, u
  <2> QED BY <2>7, <2>8
<1> QED BY <1>1, <1>2

(* r[i] is the end after i rounds of the loop. *)
SendRounds(e, p, r) ==
  r = [i \in 0..Len(e.port[p].tx) |-> IF i = 0 THEN e ELSE SendNext(r[i - 1], p)]

LEMMA SendTxRounds ==
  ASSUME NEW e, NEW p, Len(e.port[p].tx) \in Nat
  PROVE  \E r : /\ SendRounds(e, p, r)
               /\ port_rfc_send_tx_data(e, p) = r[Len(e.port[p].tx)]
<1> DEFINE n == Len(e.port[p].tx)
           Run(r, m) == r = [i \in 0..m |-> IF i = 0 THEN e ELSE SendNext(r[i - 1], p)]
           W == {m \in 0..n : \E r : Run(r, m)}
<1>1. 0 \in W
  <2>1. Run([i \in 0..0 |-> e], 0)
    OBVIOUS
  <2> HIDE DEF Run
  <2> QED BY <2>1
<1>2. ASSUME NEW m \in 1..n, m - 1 \in W PROVE m \in W
  <2>1. PICK r : Run(r, m - 1)
    BY <1>2
  <2> DEFINE s == [i \in 0..m |-> IF i = m THEN SendNext(r[m - 1], p) ELSE r[i]]
  <2>2. ASSUME NEW i \in 0..m
        PROVE  s[i] = IF i = 0 THEN e ELSE SendNext(s[i - 1], p)
    <3>1. CASE i = m
      BY <3>1
    <3>2. CASE i # m
      <4>1. i \in 0..(m - 1) /\ (i # 0 => i - 1 \in 0..m /\ i - 1 # m)
        BY <3>2
      <4>2. s[i] = r[i] /\ (i # 0 => s[i - 1] = r[i - 1])
        BY <3>2, <4>1
      <4> QED BY <2>1, <4>1, <4>2
    <3> QED BY <3>1, <3>2
  <2>3. Run(s, m)
    BY <2>2
  <2> HIDE DEF s, Run
  <2> QED BY <2>3
<1>3. n \in W
  <2> HIDE DEF W
  <2> QED BY <1>1, <1>2, AfterRounds
<1>4. \E r : Run(r, n)
  BY <1>3
<1>5. \E r : Run(r, n) /\ port_rfc_send_tx_data(e, p) = r[n]
  BY Zenon, <1>4 DEF port_rfc_send_tx_data
<1> QED BY <1>5 DEF SendRounds

(* What every round keeps, the loop keeps. *)
LEMMA SendTxKeeps ==
  ASSUME NEW e, NEW p, Len(e.port[p].tx) \in Nat, NEW W, e \in W,
         \A x \in W : SendNext(x, p) \in W
  PROVE  port_rfc_send_tx_data(e, p) \in W
<1> DEFINE n == Len(e.port[p].tx)
<1>1. PICK r : SendRounds(e, p, r) /\ port_rfc_send_tx_data(e, p) = r[n]
  BY SendTxRounds
<1>2. /\ \A i \in 0..n : r[i] = IF i = 0 THEN e ELSE SendNext(r[i - 1], p)
      /\ n \in Nat
  BY <1>1 DEF SendRounds
<1> HIDE DEF n
<1> DEFINE T == {i \in 0..n : r[i] \in W}
<1>3. 0 \in T
  BY <1>2
<1>4. ASSUME NEW i \in 1..n, i - 1 \in T PROVE i \in T
  <2>1. i \in 0..n /\ i # 0 /\ r[i] = SendNext(r[i - 1], p)
    BY <1>2
  <2> QED BY <1>4, <2>1
<1>5. n \in T
  <2> HIDE DEF T
  <2> QED BY <1>2, <1>3, <1>4, AfterRounds
<1> QED BY <1>1, <1>5

DataOf(p) == {f \in Frames : f.p = p /\ f.t = "DATA"}

(* u is q but for its data and credits. *)
ButData(q, u) ==
  /\ u.state = q.state /\ u.rfc = q.rfc /\ u.mcb = q.mcb /\ u.keep = q.keep
  /\ u.rsp = q.rsp /\ u.ctrl = q.ctrl /\ u.user_fc = q.user_fc /\ u.timer = q.timer
  /\ u.rx = q.rx

(* e becomes r by sending data of p. *)
Pushes(e, r, p) ==
  /\ ButData(e.port[p], r.port[p]) /\ SameMx(e, r)
  /\ \E g \in Seq(DataOf(p)) :
       /\ Alters(e, r, p, r.port[p], g)
       /\ e.port[p].rfc # "OPENED" => g = <<>>

LEMMA AfterDataFields ==
  ASSUME NEW q \in Port, NEW d
  PROVE  LET u == AfterData(q, d)
         IN /\ ButData(q, u) /\ u.tx = q.tx
            /\ u.credit_rx = q.credit_rx + Grant(q, d)
            /\ u.credit_tx = IF q.credit_tx > 0 THEN q.credit_tx - 1 ELSE 0
            /\ u.peer_fc = (q.peer_fc \/ q.credit_tx <= 1)
<1> DEFINE n == q.credit_rx + Grant(q, d)
           m == IF q.credit_tx > 0 THEN q.credit_tx - 1 ELSE 0
           b == q.peer_fc \/ q.credit_tx <= 1
           u == AfterData(q, d)
<1>1. u = [q EXCEPT !.credit_rx = n, !.credit_tx = m, !.peer_fc = b]
  BY DEF AfterData
<1> HIDE DEF n, m, b, u
<1>2. /\ u.state = q.state /\ u.rfc = q.rfc /\ u.mcb = q.mcb /\ u.keep = q.keep
      /\ u.rsp = q.rsp /\ u.ctrl = q.ctrl /\ u.user_fc = q.user_fc /\ u.timer = q.timer
      /\ u.rx = q.rx /\ u.tx = q.tx
      /\ u.credit_rx = n /\ u.credit_tx = m /\ u.peer_fc = b
  BY <1>1 DEF Port
<1> QED BY <1>2 DEF ButData, u, n, m, b

LEMMA PushesThen ==
  ASSUME NEW e, NEW r, NEW t, NEW p \in Ports, Steady(e), Pushes(e, r, p), Pushes(r, t, p)
  PROVE  Pushes(e, t, p)
<1>1. PICK g \in Seq(DataOf(p)) : /\ Alters(e, r, p, r.port[p], g)
                                  /\ e.port[p].rfc # "OPENED" => g = <<>>
  BY DEF Pushes
<1>2. PICK h \in Seq(DataOf(p)) : /\ Alters(r, t, p, t.port[p], h)
                                  /\ r.port[p].rfc # "OPENED" => h = <<>>
  BY DEF Pushes
<1>3. g \in Seq(Frames) /\ h \in Seq(Frames) /\ g \o h \in Seq(DataOf(p))
  BY DEF DataOf
<1>4. Alters(e, t, p, t.port[p], g \o h)
  BY <1>1, <1>2, <1>3, AltersThen
<1>6. ButData(e.port[p], t.port[p]) /\ r.port[p].rfc = e.port[p].rfc
  BY DEF Pushes, ButData
<1>7. e.port[p].rfc # "OPENED" => g \o h = <<>>
  BY <1>1, <1>2, <1>6
<1> QED BY <1>3, <1>4, <1>6, <1>7 DEF Pushes, SameMx

LEMMA SendNextPushes ==
  ASSUME NEW e, Steady(e), NEW p \in Ports
  PROVE  Pushes(e, SendNext(e, p), p)
<1> DEFINE r == SendNext(e, p)
           q == [e.port[p] EXCEPT !.tx = Tail(@)]
           d == Head(e.port[p].tx)
           f == Data(p, Grant(q, d), d)
           u == AfterData(q, d)
<1>1. e.port[p] \in Port
  BY DEF Steady, Ends
<1>2. CASE r = e
  <2>1. Alters(e, r, p, r.port[p], <<>>) /\ <<>> \in Seq(DataOf(p))
    BY <1>2, AltersNot
  <2>2. ButData(e.port[p], r.port[p])
    <3> HIDE DEF r
    <3> QED BY <1>1, <1>2 DEF ButData, Port
  <2> QED BY <1>2, <2>1, <2>2 DEF Pushes, SameMx
<1>3. CASE r # e
  <2>1. /\ q \in Port /\ d \in Buffers /\ SameMx(e, r)
        /\ q.rfc = "OPENED" => Alters(e, r, p, u, <<f>>)
        /\ q.rfc # "OPENED" => Alters(e, r, p, q, <<>>)
    BY <1>3, SendNextActs
  <2>2. q.rfc = e.port[p].rfc /\ ButData(e.port[p], q)
    BY <1>1 DEF Port, ButData
  <2>3. u \in Port /\ ButData(q, u)
    <3> HIDE DEF q, d
    <3> QED BY <2>1, GrantType, AfterDataFields
  <2>4. ButData(e.port[p], u)
    BY <2>2, <2>3 DEF ButData
  <2>5. f \in DataOf(p)
    <3>1. f \in Frames
      <4> HIDE DEF q, d
      <4> QED BY <2>1, GrantType, FrameTypes
    <3> QED BY <3>1 DEF DataOf, Data
  <2> HIDE DEF r, q, d, f, u
  <2>6. CASE q.rfc = "OPENED"
    <3>1. r.port[p] = u /\ <<f>> \in Seq(DataOf(p)) /\ Alters(e, r, p, u, <<f>>)
      BY <2>1, <2>5, <2>6 DEF Alters, Steady, Ends
    <3> QED BY <2>1, <2>2, <2>4, <2>6, <3>1 DEF Pushes, r
  <2>7. CASE q.rfc # "OPENED"
    <3>1. r.port[p] = q /\ <<>> \in Seq(DataOf(p)) /\ Alters(e, r, p, q, <<>>)
      BY <2>1, <2>7 DEF Alters, Steady, Ends
    <3> QED BY <2>1, <2>2, <2>7, <3>1 DEF Pushes, r
  <2> QED BY <2>6, <2>7
<1> QED BY <1>2, <1>3

LEMMA SendTxPushes ==
  ASSUME NEW e, Steady(e), NEW p \in Ports
  PROVE  Pushes(e, port_rfc_send_tx_data(e, p), p)
<1> DEFINE W == {x \in Ends : Pushes(e, x, p)}
<1>1. Pushes(e, e, p) /\ e \in Ends /\ Len(e.port[p].tx) \in Nat
  <2>1. e.port[p] \in Port /\ e \in Ends
    BY DEF Steady, Ends
  <2>2. ButData(e.port[p], e.port[p]) /\ Len(e.port[p].tx) \in Nat
    <3>1. e.port[p].tx \in Seq(Buffers)
      BY <2>1 DEF Port
    <3> QED BY <3>1 DEF ButData
  <2>3. <<>> \in Seq(DataOf(p)) /\ Alters(e, e, p, e.port[p], <<>>)
    BY AltersNot
  <2> QED BY <2>1, <2>2, <2>3 DEF Pushes, SameMx
<1>2. ASSUME NEW x \in W PROVE SendNext(x, p) \in W
  <2>1. Steady(x) /\ Pushes(e, x, p)
    BY DEF Pushes, Alters
  <2>2. Pushes(x, SendNext(x, p), p)
    BY <2>1, SendNextPushes
  <2>3. Pushes(e, SendNext(x, p), p)
    BY <2>1, <2>2, PushesThen
  <2>4. SendNext(x, p) \in Ends
    BY <2>3 DEF Pushes, Alters, Steady
  <2> QED BY <2>3, <2>4
<1>3. port_rfc_send_tx_data(e, p) \in W
  <2> HIDE DEF W
  <2>1. e \in W
    BY <1>1 DEF W
  <2> QED BY <1>1, <1>2, <2>1, SendTxKeeps
<1> QED BY <1>3

(* The loop ends with an empty queue or a port that may not send. *)
LEMMA SendTxEmpties ==
  ASSUME NEW e, Steady(e), NEW p \in Ports
  PROVE  LET r == port_rfc_send_tx_data(e, p)
         IN r.port[p].tx = <<>> \/ ~MaySend(r, p)
<1> DEFINE n == Len(e.port[p].tx)
<1>1. e \in Ends /\ e.port[p] \in Port /\ e.port[p].tx \in Seq(Buffers) /\ n \in Nat
  BY DEF Steady, Ends, Port
<1>2. PICK r : SendRounds(e, p, r) /\ port_rfc_send_tx_data(e, p) = r[n]
  BY <1>1, SendTxRounds
<1>3. \A i \in 0..n : r[i] = IF i = 0 THEN e ELSE SendNext(r[i - 1], p)
  BY <1>2 DEF SendRounds
<1> DEFINE Done(i) == Steady(r[i]) /\ (~MaySend(r[i], p) \/ Len(r[i].port[p].tx) = n - i)
           T == {i \in 0..n : Done(i)}
<1>4. 0 \in T
  BY <1>1, <1>3
<1>5. ASSUME NEW i \in 1..n, i - 1 \in T PROVE i \in T
  <2> DEFINE x == r[i - 1]
             q == [x.port[p] EXCEPT !.tx = Tail(@)]
             d == Head(x.port[p].tx)
  <2>1. i \in 0..n /\ i - 1 \in 0..n /\ r[i] = SendNext(x, p) /\ Steady(x)
        /\ (~MaySend(x, p) \/ Len(x.port[p].tx) = n - (i - 1))
    BY <1>1, <1>3, <1>5
  <2>2. CASE ~MaySend(x, p)
    <3>1. r[i] = x
      BY <2>1, <2>2, SendNextActs
    <3> QED BY <2>1, <2>2, <3>1
  <2>3. CASE MaySend(x, p)
    <3>1. Len(x.port[p].tx) = n - (i - 1) /\ x.port[p].tx \in Seq(Buffers) /\ x.port[p] \in Port
      BY <2>1, <2>3 DEF Steady, Ends, Port
    <3>2. x.port[p].tx # <<>> /\ Len(Tail(x.port[p].tx)) = n - i
      <4> DEFINE s == x.port[p].tx
      <4>1. s \in Seq(Buffers) /\ Len(s) = n - (i - 1) /\ i \in 1..n /\ n \in Nat
        BY <1>1, <3>1
      <4> HIDE DEF s, n, x
      <4>2. Len(s) > 0 /\ n - (i - 1) - 1 = n - i
        BY <4>1
      <4>3. s # <<>> /\ Len(Tail(s)) = Len(s) - 1
        BY <4>1, <4>2
      <4> QED BY <4>1, <4>2, <4>3 DEF s
    <3> HIDE DEF x
    <3>3. /\ q \in Port
          /\ Alters(x, r[i], p, AfterData(q, d), <<Data(p, Grant(q, d), d)>>)
             \/ Alters(x, r[i], p, q, <<>>)
      BY <2>1, <2>3, <3>2, SendNextActs
    <3>4. q.tx = Tail(x.port[p].tx)
      BY <3>1 DEF Port
    <3> HIDE DEF q, d
    <3>5. AfterData(q, d).tx = q.tx
      BY <3>3, AfterDataFields
    <3>6. Steady(r[i]) /\ r[i].port[p].tx = q.tx
      BY <2>1, <3>3, <3>5 DEF Alters, Steady, Ends
    <3> QED BY <2>1, <3>2, <3>4, <3>6
  <2> QED BY <2>2, <2>3
<1>6. n \in T
  <2> HIDE DEF T, n
  <2> QED BY <1>1, <1>4, <1>5, AfterRounds
<1>7. ~MaySend(r[n], p) \/ Len(r[n].port[p].tx) = 0
  <2>1. Done(n) /\ n - n = 0
    BY <1>1, <1>6
  <2> HIDE DEF n
  <2> QED BY <2>1
<1>8. r[n].port[p].tx \in Seq(Buffers)
  BY <1>6 DEF Steady, Ends, Port
<1> QED BY <1>2, <1>7, <1>8

(* A port that is open may send exactly when it holds credits. *)
Flows(q) == q.peer_fc <=> q.credit_tx = 0

LEMMA AfterDataFlows ==
  ASSUME NEW q \in Port, NEW d, Flows(q), ~q.peer_fc
  PROVE  /\ Flows(AfterData(q, d)) /\ q.credit_tx > 0
         /\ AfterData(q, d).credit_tx = q.credit_tx - 1
<1>1. q.credit_tx \in Nat /\ q.credit_tx # 0
  BY DEF Flows, Port
<1>2. AfterData(q, d).credit_tx = q.credit_tx - 1
      /\ AfterData(q, d).peer_fc = (q.peer_fc \/ q.credit_tx <= 1)
  BY <1>1, AfterDataFields
<1> DEFINE u == AfterData(q, d)
<1> HIDE DEF u
<1>3. u.peer_fc = (q.credit_tx <= 1) /\ u.credit_tx = q.credit_tx - 1
  BY <1>2 DEF u
<1>4. u.peer_fc <=> u.credit_tx = 0
  <2>1. (q.credit_tx <= 1) <=> u.credit_tx = 0
    BY <1>1, <1>3
  <2> QED BY Zenon, <1>3, <2>1
<1> QED BY <1>1, <1>2, <1>4 DEF Flows, u

LEMMA SendTxFlows ==
  ASSUME NEW e, Steady(e), NEW p \in Ports, e.port[p].rfc = "OPENED" => Flows(e.port[p])
  PROVE  LET r == port_rfc_send_tx_data(e, p)
         IN r.port[p].rfc = "OPENED" => Flows(r.port[p])
<1> DEFINE W == {x \in Ends : Steady(x) /\ (x.port[p].rfc = "OPENED" => Flows(x.port[p]))}
<1>1. e \in W /\ Len(e.port[p].tx) \in Nat
  BY DEF Steady, Ends, Port
<1>2. ASSUME NEW x \in W PROVE SendNext(x, p) \in W
  <2> DEFINE r == SendNext(x, p)
             q == [x.port[p] EXCEPT !.tx = Tail(@)]
             d == Head(x.port[p].tx)
  <2>1. Steady(x) /\ (x.port[p].rfc = "OPENED" => Flows(x.port[p])) /\ x.port[p] \in Port
    BY DEF Steady, Ends
  <2>2. Steady(r) /\ r \in Ends
    BY <2>1, SendNextPushes DEF Pushes, Alters, Steady
  <2>3. CASE r = x
    BY <2>3
  <2>4. CASE r # x
    <3>1. /\ MaySend(x, p) /\ q \in Port
          /\ q.rfc = "OPENED" => Alters(x, r, p, AfterData(q, d), <<Data(p, Grant(q, d), d)>>)
          /\ q.rfc # "OPENED" => Alters(x, r, p, q, <<>>)
      BY <2>1, <2>4, SendNextActs
    <3>2. q.rfc = x.port[p].rfc /\ q.peer_fc = x.port[p].peer_fc
          /\ q.credit_tx = x.port[p].credit_tx
      BY <2>1 DEF Port
    <3> HIDE DEF q, d, r
    <3>3. CASE q.rfc = "OPENED"
      <4>1. Flows(q) /\ ~q.peer_fc
        BY <2>1, <3>1, <3>2, <3>3 DEF Flows, MaySend
      <4>2. r.port[p] = AfterData(q, d)
        BY <2>1, <3>1, <3>3 DEF Alters, Steady, Ends
      <4> QED BY <2>2, <3>1, <4>1, <4>2, AfterDataFlows DEF r
    <3>4. CASE q.rfc # "OPENED"
      <4>1. r.port[p] = q
        BY <2>1, <3>1, <3>4 DEF Alters, Steady, Ends
      <4> QED BY <2>2, <3>4, <4>1 DEF r
    <3> QED BY <3>3, <3>4
  <2> QED BY <2>3, <2>4
<1>3. port_rfc_send_tx_data(e, p) \in W
  <2> HIDE DEF W
  <2> QED BY <1>1, <1>2, SendTxKeeps
<1> QED BY <1>3

-----------------------------------------------------------------------------
(* Writing, reading and credits *)

LEMMA WriteActs ==
  ASSUME NEW e, Steady(e), NEW p \in Ports, NEW d \in Buffers
  PROVE  LET q == e.port[p]
             direct == MaySend(e, p) /\ q.rfc = "OPENED" /\ SetUp(q)
             u == [q EXCEPT !.tx = Append(@, d)]
             r == port_write(e, p, d)
         IN /\ SameMx(e, r)
            /\ direct => Alters(e, r, p, AfterData(q, d), <<Data(p, Grant(q, d), d)>>)
            /\ ~direct => Alters(e, r, p, u, <<>>)
<1> DEFINE q == e.port[p]
           direct == MaySend(e, p) /\ q.rfc = "OPENED" /\ SetUp(q)
           u == [q EXCEPT !.tx = Append(@, d)]
           r == port_write(e, p, d)
<1>1. CASE direct
  <2>1. r = RFCOMM_DataReq(e, p, d) /\ q.rfc = "OPENED" /\ ~e.congested
    BY <1>1 DEF port_write, MaySend
  <2> QED BY <1>1, <2>1, DataReqActs
<1>2. CASE ~direct
  <2>1. q \in Port
    BY DEF Steady, Ends
  <2>2. u \in Port
    <3>1. Append(q.tx, d) \in Seq(Buffers)
      BY <2>1 DEF Port
    <3> QED BY <2>1, <3>1 DEF Port
  <2>3. r = Put(e, p, u)
    BY <1>2 DEF port_write
  <2> HIDE DEF q, u, r, direct
  <2>4. Alters(e, r, p, u, <<>>) /\ SameMx(e, r)
    BY <2>2, <2>3, PutActs
  <2> QED BY <1>2, <2>4 DEF q, u, r, direct
<1> QED BY <1>1, <1>2

LEMMA IncCreditActs ==
  ASSUME NEW e, Steady(e), NEW p \in Ports, NEW n \in 0..credit_rx_max, n # 0
  PROVE  LET q == e.port[p]
             u == [q EXCEPT !.credit_tx = @ + n, !.peer_fc = FALSE]
             c == Put(e, p, u)
             r == rfc_inc_credit(e, p, n)
         IN /\ u \in Port /\ Alters(e, c, p, u, <<>>) /\ SameMx(e, c)
            /\ r = IF q.peer_fc THEN port_rfc_send_tx_data(c, p) ELSE c
<1> DEFINE q == e.port[p]
           u == [q EXCEPT !.credit_tx = @ + n, !.peer_fc = FALSE]
           c == Put(e, p, u)
           r == rfc_inc_credit(e, p, n)
<1>1. q \in Port /\ n \in Nat
  BY Constants DEF Steady, Ends
<1>2. u \in Port
  <2>1. q.credit_tx + n \in Nat /\ FALSE \in BOOLEAN
    BY <1>1 DEF Port
  <2> DEFINE m == q.credit_tx + n
  <2>2. u = [q EXCEPT !.credit_tx = m, !.peer_fc = FALSE]
    OBVIOUS
  <2> HIDE DEF m, u, q
  <2> QED BY <1>1, <2>1, <2>2 DEF Port, m
<1>3. Alters(e, c, p, u, <<>>) /\ SameMx(e, c)
  <2> HIDE DEF u
  <2> QED BY <1>2, PutActs
<1>4. r = IF q.peer_fc THEN port_rfc_send_tx_data(c, p) ELSE c
  BY Zenon DEF rfc_inc_credit
<1> QED BY <1>2, <1>3, <1>4

LEMMA FlowControlActs ==
  ASSUME NEW e, Steady(e), NEW p \in Ports, NEW m \in {0, 1}
  PROVE  LET q == e.port[p]
             left == q.credit_rx - Least(m, q.credit_rx)
             full == [q EXCEPT !.credit_rx = credit_rx_max]
             fewer == [q EXCEPT !.credit_rx = left]
             g == <<Credits("CREDIT", p, credit_rx_max - left)>>
             r == port_flow_control_peer(e, p, m)
             grants == q.mcb /\ left <= credit_rx_low /\ ~q.user_fc
         IN /\ left \in 0..credit_rx_max /\ full \in Port /\ fewer \in Port
            /\ SameMx(e, r)
            /\ grants => Alters(e, r, p, full, g)
            /\ q.mcb /\ ~grants => Alters(e, r, p, fewer, <<>>)
            /\ ~q.mcb => r = e
<1> DEFINE q == e.port[p]
           left == q.credit_rx - Least(m, q.credit_rx)
           full == [q EXCEPT !.credit_rx = credit_rx_max]
           fewer == [q EXCEPT !.credit_rx = left]
           f == Credits("CREDIT", p, credit_rx_max - left)
           r == port_flow_control_peer(e, p, m)
           grants == q.mcb /\ left <= credit_rx_low /\ ~q.user_fc
<1>1. q \in Port /\ q.credit_rx \in 0..credit_rx_max
  BY DEF Steady, Ends, Port
<1>2. left \in 0..credit_rx_max /\ credit_rx_max - left \in 0..credit_rx_max
  BY <1>1, Constants DEF Least
<1>3. full \in Port /\ fewer \in Port
  <2>1. credit_rx_max \in 0..credit_rx_max
    BY Constants
  <2> HIDE DEF left
  <2> QED BY <1>1, <1>2, <2>1 DEF Port
<1>4. f \in Frames /\ f.p = p
  <2> HIDE DEF left
  <2> QED BY <1>2, FrameTypes DEF Credits
<1>5. /\ grants => r = rfc_check_send_cmd(Put(e, p, full), f)
      /\ q.mcb /\ ~grants => r = Put(e, p, fewer)
      /\ ~q.mcb => r = e
  BY Zenon DEF port_flow_control_peer
<1> HIDE DEF q, full, fewer, f, r, grants, left
<1>6. grants => Alters(e, r, p, full, <<f>>) /\ SameMx(e, r)
  BY <1>3, <1>4, <1>5, PutSendActs
<1>7. q.mcb /\ ~grants => Alters(e, r, p, fewer, <<>>) /\ SameMx(e, r)
  BY <1>3, <1>5, PutActs
<1>8. ~q.mcb => SameMx(e, r)
  BY <1>5 DEF SameMx
<1>9. SameMx(e, r)
  BY <1>6, <1>7, <1>8
<1> QED BY <1>2, <1>3, <1>5, <1>6, <1>7, <1>9 DEF q, full, fewer, f, r, grants, left

-----------------------------------------------------------------------------
(* The other handlers *)

(* The multiplexer is as before, but its timer may have been stopped. *)
Calm(e, r) == r.mx = e.mx /\ (Stopping(r) => Stopping(e))

LEMMA CalmWinds ==
  ASSUME NEW e, NEW c, NEW r
  PROVE  /\ SameMx(e, c) => Calm(e, c)
         /\ Calm(e, c) => Winds(e, c)
         /\ Calm(e, c) /\ Winds(c, r) => Winds(e, r)
         /\ Calm(e, c) /\ Calm(c, r) => Calm(e, r)
BY DEF SameMx, Calm, Winds, Stopping

LEMMA TimerActs ==
  ASSUME NEW e, Steady(e), NEW p \in Ports
  PROVE  LET c == [e EXCEPT !.timer = FALSE]
         IN Alters(e, c, p, e.port[p], <<>>) /\ Calm(e, c) /\ Steady(c) /\ ~c.timer
<1> DEFINE c == [e EXCEPT !.timer = FALSE]
<1>1. /\ c \in Ends /\ c.port = e.port /\ c.self = e.self /\ c.mx = e.mx /\ ~c.timer
      /\ c.congested = e.congested /\ c.cmd_q = e.cmd_q /\ c.out = e.out
  BY DEF Steady, Ends
<1> HIDE DEF c
<1>2. \A x \in Ports : Mine(c, x) = Mine(e, x) /\ Mine(e, x) \o <<>> = Mine(e, x)
  BY <1>1, MineType DEF Mine, Steady
<1>3. Steady(c) /\ e.port = [e.port EXCEPT ![p] = e.port[p]]
  BY <1>1 DEF Steady, Ends
<1> QED BY <1>1, <1>2, <1>3 DEF Alters, Calm, Stopping, c

(* The multiplexer is checked after p changed and sent g. *)
LEMMA AltersActive ==
  ASSUME NEW e, Steady(e), NEW p \in Ports, NEW q, NEW g, NEW c, NEW b \in BOOLEAN,
         Alters(e, c, p, q, g), Calm(e, c)
  PROVE  LET r == rfc_check_mcb_active(c, b)
         IN Alters(e, r, p, q, g) /\ Winds(e, r)
<1> DEFINE r == rfc_check_mcb_active(c, b)
<1>1. Steady(c)
  BY DEF Alters
<1>2. /\ Steady(r) /\ Winds(c, r)
      /\ r.self = c.self /\ r.congested = c.congested /\ r.port = c.port
      /\ \A x \in Ports : Mine(r, x) = Mine(c, x)
  BY <1>1, ActiveActs
<1> HIDE DEF r
<1>3. Alters(e, r, p, q, g)
  BY <1>2 DEF Alters
<1>4. Winds(e, r)
  BY <1>2, CalmWinds
<1> QED BY <1>3, <1>4 DEF r

(* The port is closed after p changed and sent g. *)
LEMMA AltersClosed ==
  ASSUME NEW e, Steady(e), NEW p \in Ports, NEW q, NEW g \in Seq(Frames), NEW c,
         NEW b \in BOOLEAN, Alters(e, c, p, q, g), Calm(e, c)
  PROVE  LET r == port_rfc_closed(c, p, b)
         IN Alters(e, r, p, Closed(e.self, p, q), g) /\ Winds(e, r)
<1> DEFINE r == port_rfc_closed(c, p, b)
           u == Closed(e.self, p, q)
<1>1. Steady(c) /\ c.port[p] = q /\ c.self = e.self
  BY DEF Alters, Steady, Ends
<1>2. Alters(c, r, p, u, <<>>) /\ Winds(c, r)
  BY <1>1, ClosedActs
<1> HIDE DEF r, u
<1>3. g \o <<>> = g /\ <<>> \in Seq(Frames)
  OBVIOUS
<1>4. Alters(e, r, p, u, g \o <<>>)
  BY <1>2, <1>3, AltersThen
<1>5. Winds(e, r)
  BY <1>2, CalmWinds
<1> QED BY <1>3, <1>4, <1>5 DEF r, u

(* A frame is sent after p changed and sent g. *)
LEMMA AltersSend ==
  ASSUME NEW e, Steady(e), NEW p \in Ports, NEW q, NEW g \in Seq(Frames), NEW c,
         Alters(e, c, p, q, g), Calm(e, c), NEW f \in Frames, f.p = p
  PROVE  LET r == rfc_check_send_cmd(c, f)
         IN Alters(e, r, p, q, g \o <<f>>) /\ Calm(e, r)
<1> DEFINE r == rfc_check_send_cmd(c, f)
<1>1. Steady(c) /\ c.port[p] = q
  BY DEF Alters, Steady, Ends
<1>2. Alters(c, r, p, q, <<f>>) /\ SameMx(c, r)
  BY <1>1, AnswerActs
<1> HIDE DEF r
<1>3. <<f>> \in Seq(Frames)
  OBVIOUS
<1>4. Alters(e, r, p, q, g \o <<f>>)
  BY <1>2, <1>3, AltersThen
<1>5. Calm(e, r)
  BY <1>2, CalmWinds
<1> QED BY <1>4, <1>5 DEF r

(* p changes again after it changed and sent g. *)
LEMMA AltersPut ==
  ASSUME NEW e, Steady(e), NEW p \in Ports, NEW q, NEW g \in Seq(Frames), NEW c,
         Alters(e, c, p, q, g), Calm(e, c), NEW u \in Port
  PROVE  LET r == Put(c, p, u)
         IN Alters(e, r, p, u, g) /\ Calm(e, r)
<1> DEFINE r == Put(c, p, u)
<1>1. Steady(c)
  BY DEF Alters
<1>2. Alters(c, r, p, u, <<>>) /\ SameMx(c, r)
  BY <1>1, PutActs
<1> HIDE DEF r
<1>3. g \o <<>> = g /\ <<>> \in Seq(Frames)
  OBVIOUS
<1>4. Alters(e, r, p, u, g \o <<>>)
  BY <1>2, <1>3, AltersThen
<1>5. Calm(e, r)
  BY <1>2, CalmWinds
<1> QED BY <1>3, <1>4, <1>5 DEF r

Asked(q) == [q EXCEPT !.ctrl = @ \cup {"REQ_SENT"}, !.rsp = @ \cup {"MSC"}, !.timer = TRUE]

LEMMA ControlReqActs ==
  ASSUME NEW e, Steady(e), NEW p \in Ports
  PROVE  LET q == e.port[p]
             u == Asked(q)
             up == q.state = "OPENED" /\ q.rfc = "OPENED"
             r == RFCOMM_ControlReq(e, p)
         IN /\ u \in Port /\ SameMx(e, r)
            /\ up => Alters(e, r, p, u, <<Frame("MSC", p)>>)
            /\ ~up => r = e
<1> DEFINE q == e.port[p]
           u == Asked(q)
           f == Frame("MSC", p)
           up == q.state = "OPENED" /\ q.rfc = "OPENED"
           r == RFCOMM_ControlReq(e, p)
<1>1. q \in Port
  BY DEF Steady, Ends
<1>2. u \in Port
  <2>1. q.ctrl \cup {"REQ_SENT"} \in SUBSET PORT_CTRL /\ q.rsp \cup {"MSC"} \in SUBSET {"PN", "MSC"}
    BY <1>1 DEF Port, PORT_CTRL
  <2> QED BY <1>1, <2>1 DEF Port, Asked
<1>3. f \in Frames /\ f.p = p
  BY FrameTypes DEF Frame
<1>4. /\ up => r = rfc_check_send_cmd(Put(e, p, u), f)
      /\ ~up => r = e
  BY Zenon DEF RFCOMM_ControlReq, Asked
<1> HIDE DEF q, u, f, up, r
<1>5. up => Alters(e, r, p, u, <<f>>) /\ SameMx(e, r)
  BY <1>2, <1>3, <1>4, PutSendActs
<1>6. SameMx(e, r)
  BY <1>4, <1>5 DEF SameMx
<1> QED BY <1>2, <1>4, <1>5, <1>6 DEF q, u, f, up, r

-----------------------------------------------------------------------------
(* Closing and opening a port *)

Departing(q, forget) == [q EXCEPT !.state = "CLOSING", !.keep = @ /\ ~forget]

LEMMA StartCloseActs ==
  ASSUME NEW e, Steady(e), NEW p \in Ports, NEW forget \in BOOLEAN
  PROVE  LET q == Departing(e.port[p], forget)
             u == [q EXCEPT !.timer = TRUE, !.rsp = {}, !.rfc = "DISC_WAIT_UA"]
             r == port_start_close(e, p, forget)
         IN /\ q \in Port /\ u \in Port /\ Winds(e, r)
            /\ q.rfc = "CLOSED" \/ ~q.mcb => Alters(e, r, p, port_release_port(q), <<>>)
            /\ q.mcb /\ q.rfc \in {"SABME_WAIT_UA", "OPENED"} =>
                 Alters(e, r, p, u, <<Frame("DISC", p)>>)
            /\ q.mcb /\ q.rfc = "ORIG_WAIT_SEC_CHECK" =>
                 Alters(e, r, p, Closed(e.self, p, q), <<>>)
            /\ q.mcb /\ q.rfc \in {"TERM_WAIT_SEC_CHECK", "DISC_WAIT_UA"} =>
                 Alters(e, r, p, q, <<>>)
<1> DEFINE q == Departing(e.port[p], forget)
           u == [q EXCEPT !.timer = TRUE, !.rsp = {}, !.rfc = "DISC_WAIT_UA"]
           c == Put(e, p, q)
           n == port_release_port(q)
           f == Frame("DISC", p)
           z == Put(e, p, n)
           r == port_start_close(e, p, forget)
<1>1. q \in Port
  <2> DEFINE b == e.port[p].keep /\ ~forget
  <2>1. b \in BOOLEAN /\ q = [e.port[p] EXCEPT !.state = "CLOSING", !.keep = b]
    BY DEF Departing
  <2>2. e.port[p] \in Port
    BY DEF Steady, Ends
  <2> HIDE DEF b, q
  <2> QED BY <2>1, <2>2 DEF Port
<1>2. u \in Port /\ n \in Port /\ f \in Frames /\ f.p = p
  <2>1. n \in Port
    BY <1>1, UnusedTypes
  <2>2. u \in Port
    <3> HIDE DEF q
    <3> QED BY <1>1 DEF Port, States
  <2> QED BY <2>1, <2>2, FrameTypes DEF Frame
<1>3. /\ q.rfc = "CLOSED" \/ ~q.mcb => r = IF q.mcb THEN rfc_check_mcb_active(z, FALSE) ELSE z
      /\ ~(q.rfc = "CLOSED" \/ ~q.mcb) /\ q.rfc \in {"SABME_WAIT_UA", "OPENED"} =>
           r = rfc_check_send_cmd(Put(e, p, u), f)
      /\ ~(q.rfc = "CLOSED" \/ ~q.mcb) /\ q.rfc = "ORIG_WAIT_SEC_CHECK" =>
           r = port_rfc_closed(c, p, FALSE)
      /\ ~(q.rfc = "CLOSED" \/ ~q.mcb) /\ q.rfc \in {"TERM_WAIT_SEC_CHECK", "DISC_WAIT_UA"} => r = c
  BY DEF port_start_close, Departing
<1>4. q.mcb \in BOOLEAN /\ q.rfc \in States
  BY <1>1 DEF Port
<1> HIDE DEF q, u, c, n, f, r, z
<1>5. Alters(e, c, p, q, <<>>) /\ Calm(e, c) /\ Alters(e, z, p, n, <<>>) /\ Calm(e, z)
  BY <1>1, <1>2, PutActs, CalmWinds DEF c, z
<1>6. ASSUME q.rfc = "CLOSED" \/ ~q.mcb
      PROVE  Alters(e, r, p, n, <<>>) /\ Winds(e, r)
  <2>1. CASE q.mcb
    <3>1. r = rfc_check_mcb_active(z, FALSE)
      BY <1>3, <1>6, <2>1
    <3> QED BY <1>5, <3>1, AltersActive
  <2>2. CASE ~q.mcb
    <3>1. r = z
      BY <1>3, <1>6, <2>2
    <3> QED BY <1>5, <3>1, CalmWinds
  <2> QED BY <2>1, <2>2
<1>7. ASSUME q.mcb, q.rfc \in {"SABME_WAIT_UA", "OPENED"}
      PROVE  Alters(e, r, p, u, <<f>>) /\ Winds(e, r)
  <2>1. r = rfc_check_send_cmd(Put(e, p, u), f)
    BY <1>3, <1>7
  <2> QED BY <1>2, <2>1, PutSendActs, CalmWinds
<1>8. ASSUME q.mcb, q.rfc = "ORIG_WAIT_SEC_CHECK"
      PROVE  Alters(e, r, p, Closed(e.self, p, q), <<>>) /\ Winds(e, r)
  <2>1. r = port_rfc_closed(c, p, FALSE)
    BY <1>3, <1>8
  <2>2. <<>> \in Seq(Frames)
    OBVIOUS
  <2> QED BY <1>5, <2>1, <2>2, AltersClosed
<1>9. ASSUME q.mcb, q.rfc \in {"TERM_WAIT_SEC_CHECK", "DISC_WAIT_UA"}
      PROVE  Alters(e, r, p, q, <<>>) /\ Winds(e, r)
  <2>1. r = c
    BY <1>3, <1>9
  <2> QED BY <1>5, <2>1, CalmWinds
<1>10. Winds(e, r)
  BY <1>4, <1>6, <1>7, <1>8, <1>9 DEF States
<1> QED BY <1>1, <1>2, <1>6, <1>7, <1>8, <1>9, <1>10 DEF q, u, f, r, n

Asking(q) == [q EXCEPT !.credit_rx = k, !.rsp = @ \cup {"PN"}, !.timer = TRUE]

LEMMA ParNegReqActs ==
  ASSUME NEW e, Steady(e), NEW p \in Ports
  PROVE  LET q == e.port[p]
             r == RFCOMM_ParNegReq(e, p)
         IN /\ Asking(q) \in Port /\ SameMx(e, r)
            /\ Alters(e, r, p, Asking(q), <<Credits("PN", p, k)>>)
<1> DEFINE q == e.port[p]
           u == Asking(q)
           f == Credits("PN", p, k)
           r == RFCOMM_ParNegReq(e, p)
<1>1. q \in Port /\ k \in 0..credit_rx_max
  BY Constants DEF Steady, Ends
<1>2. u \in Port
  <2>1. q.rsp \cup {"PN"} \in SUBSET {"PN", "MSC"}
    BY <1>1 DEF Port
  <2> QED BY <1>1, <2>1 DEF Port, Asking
<1>3. f \in Frames /\ f.p = p
  BY <1>1, FrameTypes DEF Credits
<1>4. r = rfc_check_send_cmd(Put(e, p, u), f)
  BY Zenon DEF RFCOMM_ParNegReq, Asking
<1> HIDE DEF q, u, f, r
<1>5. Alters(e, r, p, u, <<f>>) /\ SameMx(e, r)
  BY <1>2, <1>3, <1>4, PutSendActs
<1> QED BY <1>2, <1>5 DEF q, u, f, r

(* The port of a PN that is granted, and of its answer. *)
Answering(q, n) == [port_get_credits(q, n) EXCEPT !.mcb = TRUE, !.credit_rx = k]
Answered(q, n) == [port_get_credits(q, n) EXCEPT !.rsp = @ \ {"PN"}, !.timer = FALSE]

LEMMA AnsweredFields ==
  ASSUME NEW q \in Port, NEW n \in 0..credit_rx_max
  PROVE  /\ Answering(q, n) = [q EXCEPT !.credit_tx = n, !.peer_fc = @ \/ n = 0,
                                        !.mcb = TRUE, !.credit_rx = k]
         /\ Answered(q, n) = [q EXCEPT !.credit_tx = n, !.peer_fc = @ \/ n = 0,
                                       !.rsp = @ \ {"PN"}, !.timer = FALSE]
         /\ Answering(q, n) \in Port /\ Answered(q, n) \in Port
<1> DEFINE b == q.peer_fc \/ n = 0
           t == q.rsp \ {"PN"}
<1>1. b \in BOOLEAN /\ t \in SUBSET {"PN", "MSC"} /\ n \in Nat /\ k \in 0..credit_rx_max
  BY Constants DEF Port
<1>2. /\ Answering(q, n) = [q EXCEPT !.credit_tx = n, !.peer_fc = b, !.mcb = TRUE, !.credit_rx = k]
      /\ Answered(q, n) = [q EXCEPT !.credit_tx = n, !.peer_fc = b, !.rsp = t, !.timer = FALSE]
  BY DEF Answering, Answered, port_get_credits, Port
<1> HIDE DEF b, t
<1>3. Answering(q, n) \in Port
  BY <1>1, <1>2 DEF Port
<1>4. Answered(q, n) \in Port
  <2> DEFINE u == [q EXCEPT !.credit_tx = n, !.peer_fc = b, !.rsp = t, !.timer = FALSE]
  <2>1. u \in Port
    BY <1>1 DEF Port
  <2> HIDE DEF u
  <2> QED BY <1>2, <2>1 DEF u
<1> QED BY <1>2, <1>3, <1>4 DEF b, t

LEMMA ParNegIndActs ==
  ASSUME NEW e, Steady(e), NEW p \in Ports, NEW n \in 0..credit_rx_max
  PROVE  LET q == e.port[p]
             found == q.mcb \/ port_find_dlci_port(e, p)
             r == PORT_ParNegInd(e, p, n)
         IN /\ Winds(e, r)
            /\ found => Alters(e, r, p, Answering(q, n), <<Credits("PNR", p, k)>>)
            /\ ~found => Alters(e, r, p, q, <<Frame("DM", p)>>)
<1> DEFINE q == e.port[p]
           found == q.mcb \/ port_find_dlci_port(e, p)
           u == Answering(q, n)
           f == Credits("PNR", p, k)
           d == Frame("DM", p)
           c == rfc_check_send_cmd(e, d)
           r == PORT_ParNegInd(e, p, n)
<1>1. q \in Port /\ u \in Port /\ f \in Frames /\ f.p = p /\ d \in Frames /\ d.p = p
  <2>1. q \in Port /\ k \in 0..credit_rx_max
    BY Constants DEF Steady, Ends
  <2> QED BY <2>1, AnsweredFields, FrameTypes DEF Credits, Frame
<1>2. /\ found => r = rfc_check_send_cmd(Put(e, p, u), f)
      /\ ~found => r = rfc_check_mcb_active(c, FALSE)
  BY Zenon DEF PORT_ParNegInd, Answering
<1>3. Alters(e, c, p, q, <<d>>) /\ SameMx(e, c)
  <2> HIDE DEF d, q
  <2>1. d \in Frames /\ d.p = p
    BY <1>1
  <2> QED BY <2>1, AnswerActs DEF q
<1> HIDE DEF q, found, u, f, d, c, r
<1>4. found => Alters(e, r, p, u, <<f>>) /\ Winds(e, r)
  BY <1>1, <1>2, PutSendActs, CalmWinds
<1>5. ~found => Alters(e, r, p, q, <<d>>) /\ Winds(e, r)
  <2>1. Calm(e, c)
    BY <1>3, CalmWinds
  <2> QED BY <1>2, <1>3, <2>1, AltersActive
<1> QED BY <1>4, <1>5 DEF q, found, u, f, d, r

(* The client goes on when its PN is answered. *)
Proceeds(q, n) ==
  [Answered(q, n) EXCEPT !.rfc = IF q.state = "OPENING" /\ @ = "CLOSED"
                                 THEN "ORIG_WAIT_SEC_CHECK" ELSE @]

LEMMA ProcessPnrActs ==
  ASSUME NEW e, Steady(e), NEW p \in Ports, NEW f \in Frames, f.p = p, f.t = "PNR"
  PROVE  LET q == e.port[p]
             heard == q.mcb /\ "PN" \in q.rsp
             late == q.state = "OPENING" /\ e.mx # "CONNECTED"
             r == rfc_process_pn(e, f)
         IN /\ Proceeds(q, f.n) \in Port /\ Winds(e, r)
            /\ ~heard => r = e
            /\ heard /\ late => Alters(e, r, p, Closed(e.self, p, Answered(q, f.n)), <<>>)
            /\ heard /\ ~late => Alters(e, r, p, Proceeds(q, f.n), <<>>)
<1> DEFINE q == e.port[p]
           heard == q.mcb /\ "PN" \in q.rsp
           late == q.state = "OPENING" /\ e.mx # "CONNECTED"
           c == Answered(q, f.n)
           u == Proceeds(q, f.n)
           r == rfc_process_pn(e, f)
<1>1. q \in Port /\ f.n \in 0..credit_rx_max
  BY DEF Steady, Ends, Frames
<1>2. c \in Port /\ c.rfc = q.rfc
  <2> HIDE DEF q
  <2>1. c \in Port
    BY <1>1, AnsweredFields
  <2>2. c.rfc = q.rfc
    BY <1>1 DEF Answered, port_get_credits, Port
  <2> QED BY <2>1, <2>2
<1>3. u \in Port
  <2> DEFINE x == IF q.state = "OPENING" /\ c.rfc = "CLOSED"
                  THEN "ORIG_WAIT_SEC_CHECK" ELSE c.rfc
  <2>1. x \in States /\ u = [c EXCEPT !.rfc = x]
    BY <1>2 DEF Port, States, Proceeds
  <2> HIDE DEF x, u, c
  <2> QED BY <1>2, <2>1 DEF Port
<1>4. /\ ~heard => r = e
      /\ heard /\ late => r = port_rfc_closed(Put(e, p, c), p, FALSE)
      /\ heard /\ ~late => r = Put(e, p, u)
  BY DEF rfc_process_pn, Answered, Proceeds
<1> HIDE DEF q, heard, late, c, u, r
<1>5. Alters(e, Put(e, p, c), p, c, <<>>) /\ SameMx(e, Put(e, p, c))
  BY <1>2, PutActs
<1>6. ASSUME heard, late
      PROVE  Alters(e, r, p, Closed(e.self, p, c), <<>>) /\ Winds(e, r)
  <2> DEFINE z == Put(e, p, c)
  <2>1. <<>> \in Seq(Frames) /\ Calm(e, z) /\ Alters(e, z, p, c, <<>>)
    BY <1>5, CalmWinds
  <2>2. r = port_rfc_closed(z, p, FALSE)
    BY <1>4, <1>6
  <2> HIDE DEF z
  <2> QED BY <2>1, <2>2, AltersClosed
<1>7. heard /\ ~late => Alters(e, r, p, u, <<>>) /\ Winds(e, r)
  BY <1>3, <1>4, PutActs, CalmWinds
<1>8. ~heard => Winds(e, r)
  BY <1>4 DEF Winds
<1>9. Winds(e, r)
  BY <1>6, <1>7, <1>8
<1> QED BY <1>3, <1>4, <1>6, <1>7, <1>9 DEF q, heard, late, c, u, r

LEMMA ProcessPnActs ==
  ASSUME NEW e, Steady(e), NEW p \in Ports, NEW f \in Frames, f.p = p, f.t = "PN"
  PROVE  LET q == e.port[p]
             found == (q.mcb \/ port_find_dlci_port(e, p)) /\ e.mx # "DISC_WAIT_UA"
             r == rfc_process_pn(e, f)
         IN /\ Winds(e, r)
            /\ found => Alters(e, r, p, Answering(q, f.n), <<Credits("PNR", p, k)>>)
            /\ ~found => Alters(e, r, p, q, <<Frame("DM", p)>>)
<1>1. f.n \in 0..credit_rx_max
  BY DEF Frames
<1>2. CASE e.mx = "DISC_WAIT_UA"
  <2> DEFINE d == Frame("DM", p)
             r == rfc_process_pn(e, f)
  <2>1. r = rfc_check_send_cmd(e, d)
    BY <1>2 DEF rfc_process_pn
  <2>2. d \in Frames /\ d.p = p
    BY FrameTypes DEF Frame
  <2> HIDE DEF d, r
  <2>3. Alters(e, r, p, e.port[p], <<d>>) /\ Winds(e, r)
    BY <2>1, <2>2, AnswerActs, CalmWinds
  <2> QED BY <1>2, <2>3 DEF d, r
<1>3. CASE e.mx # "DISC_WAIT_UA"
  <2>1. rfc_process_pn(e, f) = PORT_ParNegInd(e, p, f.n)
    BY <1>3 DEF rfc_process_pn
  <2> QED BY <1>1, <1>3, <2>1, ParNegIndActs
<1> QED BY <1>2, <1>3

(* A connection accepted by a multiplexer that is up. *)
Accepting(q) == [q EXCEPT !.rfc = "OPENED", !.state = "OPENED"]
Refusing(s, p, q) == [Closed(s, p, q) EXCEPT !.state = "OPENED"]

LEMMA EstablishActs ==
  ASSUME NEW e, Steady(e), NEW p \in Ports
  PROVE  LET q == e.port[p]
             r == PORT_DlcEstablishInd(e, p)
         IN /\ Accepting(q) \in Port /\ Refusing(e.self, p, q) \in Port /\ Winds(e, r)
            /\ e.mx = "CONNECTED" => Alters(e, r, p, Accepting(q), <<Frame("UA", p)>>)
            /\ e.mx # "CONNECTED" => Alters(e, r, p, Refusing(e.self, p, q), <<>>)
<1> DEFINE q == e.port[p]
           c == [e EXCEPT !.timer = FALSE]
           a == [q EXCEPT !.rfc = "OPENED"]
           u == Accepting(q)
           w == Closed(e.self, p, q)
           v == Refusing(e.self, p, q)
           f == Frame("UA", p)
           b == rfc_check_send_cmd(Put(c, p, a), f)
           d == port_rfc_closed(c, p, FALSE)
           r == PORT_DlcEstablishInd(e, p)
<1>1. q \in Port /\ a \in Port /\ w \in Port /\ f \in Frames /\ f.p = p
  <2>1. q \in Port
    BY DEF Steady, Ends
  <2>2. a \in Port
    BY <2>1 DEF Port, States
  <2>3. w \in Port
    BY <2>1, UnusedTypes
  <2> QED BY <2>1, <2>2, <2>3, FrameTypes DEF Frame
<1>2. u \in Port /\ v \in Port /\ u = [a EXCEPT !.state = "OPENED"]
      /\ v = [w EXCEPT !.state = "OPENED"]
  <2>1. u = [a EXCEPT !.state = "OPENED"] /\ v = [w EXCEPT !.state = "OPENED"]
    BY <1>1 DEF Accepting, Refusing, Port
  <2> HIDE DEF u, v, a, w
  <2> QED BY <1>1, <2>1 DEF Port
<1>3. Alters(e, c, p, q, <<>>) /\ Calm(e, c) /\ Steady(c)
  BY TimerActs
<1>4. /\ e.mx = "CONNECTED" => r = Put(b, p, [b.port[p] EXCEPT !.state = "OPENED"])
      /\ e.mx # "CONNECTED" => r = Put(d, p, [d.port[p] EXCEPT !.state = "OPENED"])
  <2>1. [c EXCEPT !.port[p].rfc = "OPENED"] = Put(c, p, a)
    BY DEF Put, Steady, Ends
  <2> QED BY <2>1 DEF PORT_DlcEstablishInd, Put
<1>5. <<>> \in Seq(Frames) /\ <<>> \o <<f>> = <<f>> /\ <<f>> \in Seq(Frames)
  BY <1>1
<1> HIDE DEF q, c, a, u, w, v, f, b, d, r
<1>6. ASSUME e.mx = "CONNECTED"
      PROVE  Alters(e, r, p, u, <<f>>) /\ Winds(e, r)
  <2> DEFINE z == Put(c, p, a)
  <2>1. Alters(e, z, p, a, <<>>) /\ Calm(e, z)
    BY <1>1, <1>3, <1>5, AltersPut
  <2> HIDE DEF z
  <2>2. Alters(e, b, p, a, <<>> \o <<f>>) /\ Calm(e, b)
    BY <1>1, <1>5, <2>1, AltersSend DEF b, z
  <2>3. Alters(e, b, p, a, <<f>>) /\ b.port[p] = a
    BY <1>5, <2>2 DEF Alters, Steady, Ends
  <2>4. r = Put(b, p, u)
    BY <1>2, <1>4, <1>6, <2>3
  <2>5. Alters(e, r, p, u, <<f>>) /\ Calm(e, r)
    BY <1>2, <1>5, <2>2, <2>3, <2>4, AltersPut
  <2> QED BY <2>5, CalmWinds
<1>7. ASSUME e.mx # "CONNECTED"
      PROVE  Alters(e, r, p, v, <<>>) /\ Winds(e, r)
  <2>1. Alters(e, d, p, w, <<>>) /\ Winds(e, d)
    BY <1>3, <1>5, AltersClosed DEF d, w
  <2>2. Steady(d) /\ d.port[p] = w
    BY <2>1 DEF Alters, Steady, Ends
  <2>3. r = Put(d, p, v)
    BY <1>2, <1>4, <1>7, <2>2
  <2>4. Alters(d, r, p, v, <<>>) /\ SameMx(d, r)
    BY <1>2, <2>2, <2>3, PutActs
  <2>5. Alters(e, r, p, v, <<>> \o <<>>)
    BY <1>5, <2>1, <2>4, AltersThen
  <2>6. Winds(e, r)
    <3>1. r.port = d.port \/ r.mx = d.mx
      BY <2>4 DEF SameMx
    <3>2. NoPorts(d) => NoPorts(r)
      <4>2. ~w.mcb
        BY <1>1, UnusedTypes DEF w
      <4>3. v.mcb = w.mcb
        BY <1>1, <1>2 DEF Port
      <4>1. ~w.mcb /\ ~v.mcb
        BY <4>2, <4>3
      <4> QED BY <2>2, <2>4, <4>1 DEF NoPorts, Alters, Steady, Ends
    <3> QED BY <2>1, <2>4, <3>2 DEF Winds, SameMx, Stopping
  <2>7. <<>> \o <<>> = <<>>
    OBVIOUS
  <2> QED BY <2>5, <2>6, <2>7
<1>8. Winds(e, r)
  BY <1>6, <1>7
<1> QED BY <1>2, <1>6, <1>7, <1>8 DEF q, u, v, f, r

LEMMA SecurityActs ==
  ASSUME NEW e, Steady(e), NEW p \in Ports, NEW ok \in BOOLEAN,
         e.port[p].rfc \in {"ORIG_WAIT_SEC_CHECK", "TERM_WAIT_SEC_CHECK"}
  PROVE  LET q == e.port[p]
             u == [q EXCEPT !.rfc = "SABME_WAIT_UA", !.timer = TRUE]
             orig == q.rfc = "ORIG_WAIT_SEC_CHECK"
             r == rfc_sec_check_complete(e, p, ok)
         IN /\ u \in Port /\ Winds(e, r)
            /\ orig /\ ok => Alters(e, r, p, u, <<Frame("SABME", p)>>)
            /\ orig /\ ~ok => Alters(e, r, p, Closed(e.self, p, q), <<>>)
            /\ ~orig /\ ok => /\ e.mx = "IDLE" => r = e
                              /\ e.mx # "IDLE" => r = PORT_DlcEstablishInd(e, p)
            /\ ~orig /\ ~ok => Alters(e, r, p, Closed(e.self, p, q), <<Frame("DM", p)>>)
<1> DEFINE q == e.port[p]
           u == [q EXCEPT !.rfc = "SABME_WAIT_UA", !.timer = TRUE]
           orig == q.rfc = "ORIG_WAIT_SEC_CHECK"
           f == Frame("SABME", p)
           d == Frame("DM", p)
           w == Closed(e.self, p, q)
           c == rfc_check_send_cmd(e, d)
           r == rfc_sec_check_complete(e, p, ok)
<1>1. q \in Port /\ f \in Frames /\ f.p = p /\ d \in Frames /\ d.p = p
  BY FrameTypes DEF Steady, Ends, Frame
<1>2. u \in Port
  BY <1>1 DEF Port, States
<1>3. /\ orig /\ ok => r = rfc_check_send_cmd(Put(e, p, u), f)
      /\ orig /\ ~ok => r = port_rfc_closed(e, p, TRUE)
      /\ ~orig /\ ok => r = IF e.mx = "IDLE" THEN e ELSE PORT_DlcEstablishInd(e, p)
      /\ ~orig /\ ~ok => r = port_rfc_closed(c, p, TRUE)
  BY DEF rfc_sec_check_complete
<1>4. Alters(e, c, p, q, <<d>>) /\ SameMx(e, c)
  <2> HIDE DEF d
  <2> QED BY <1>1, AnswerActs
<1>5. <<d>> \in Seq(Frames) /\ Calm(e, c)
  BY <1>1, <1>4, CalmWinds
<1> HIDE DEF q, u, orig, f, d, c, r
<1>6. orig /\ ok => Alters(e, r, p, u, <<f>>) /\ Winds(e, r)
  BY <1>1, <1>2, <1>3, PutSendActs, CalmWinds
<1>7. orig /\ ~ok => Alters(e, r, p, w, <<>>) /\ Winds(e, r)
  BY <1>3, ClosedActs DEF q
<1>8. ~orig /\ ~ok => Alters(e, r, p, w, <<d>>) /\ Winds(e, r)
  BY <1>3, <1>4, <1>5, AltersClosed
<1>9. ~orig /\ ok => Winds(e, r)
  <2>1. PORT_DlcEstablishInd(e, p) = r \/ r = e \/ ~(~orig /\ ok)
    BY <1>3
  <2> QED BY <1>3, EstablishActs DEF Winds
<1>10. Winds(e, r)
  BY <1>6, <1>7, <1>8, <1>9
<1> QED BY <1>2, <1>3, <1>6, <1>7, <1>8, <1>10 DEF q, u, orig, f, d, r

-----------------------------------------------------------------------------
(* Frames of a port *)

Found(q) == [q EXCEPT !.mcb = TRUE]
Deciding(q) == [q EXCEPT !.mcb = TRUE, !.rfc = "TERM_WAIT_SEC_CHECK"]

LEMMA SabmeActs ==
  ASSUME NEW e, Steady(e), NEW p \in Ports
  PROVE  LET q == e.port[p]
             found == q.mcb \/ port_find_dlci_port(e, p)
             r == OnSABME(e, p)
         IN /\ Calm(e, r) /\ Deciding(q) \in Port /\ Found(q) \in Port
            /\ ~found => Alters(e, r, p, q, <<Frame("DM", p)>>)
            /\ found /\ q.rfc = "CLOSED" => Alters(e, r, p, Deciding(q), <<>>)
            /\ found /\ q.rfc \in {"SABME_WAIT_UA", "OPENED"} =>
                 Alters(e, r, p, Found(q), <<Frame("UA", p)>>)
            /\ found /\ q.rfc = "DISC_WAIT_UA" =>
                 Alters(e, r, p, Found(q), <<Frame("DM", p)>>)
            /\ found /\ q.rfc \in {"ORIG_WAIT_SEC_CHECK", "TERM_WAIT_SEC_CHECK"} =>
                 Alters(e, r, p, Found(q), <<>>)
<1> DEFINE q == e.port[p]
           found == q.mcb \/ port_find_dlci_port(e, p)
           u == Deciding(q)
           v == Found(q)
           d == Frame("DM", p)
           a == Frame("UA", p)
           c == Put(e, p, v)
           t == [e EXCEPT !.timer = FALSE]
           r == OnSABME(e, p)
<1>1. q \in Port /\ d \in Frames /\ d.p = p /\ a \in Frames /\ a.p = p
  BY FrameTypes DEF Steady, Ends, Frame
<1>2. u \in Port /\ v \in Port
  BY <1>1 DEF Port, States, Deciding, Found
<1>3. (q.mcb => Found(q) = q) /\ q.rfc \in States /\ e \in Ends
  BY <1>1 DEF Port, Found, Steady
<1>4. c = IF q.mcb THEN e ELSE [e EXCEPT !.port[p].mcb = TRUE]
  <2>1. CASE q.mcb
    <3>1. v = q
      BY <1>3, <2>1
    <3>2. Put(e, p, e.port[p]) = e
      BY <1>3 DEF Ends, Put
    <3> QED BY <2>1, <3>1, <3>2
  <2>2. CASE ~q.mcb
    BY <2>2 DEF Put, Found
  <2> QED BY <2>1, <2>2
<1>5. /\ ~found => r = rfc_check_send_cmd(e, d)
      /\ found /\ q.rfc = "CLOSED" =>
           r = [c EXCEPT !.port[p].rfc = "TERM_WAIT_SEC_CHECK", !.timer = FALSE]
      /\ found /\ q.rfc \in {"SABME_WAIT_UA", "OPENED"} => r = rfc_check_send_cmd(c, a)
      /\ found /\ q.rfc = "DISC_WAIT_UA" => r = rfc_check_send_cmd(c, d)
      /\ found /\ q.rfc \in {"ORIG_WAIT_SEC_CHECK", "TERM_WAIT_SEC_CHECK"} => r = c
  <2> HIDE DEF c
  <2> QED BY <1>4 DEF OnSABME, DM, UA
<1>6. [c EXCEPT !.port[p].rfc = "TERM_WAIT_SEC_CHECK", !.timer = FALSE] = Put(t, p, u)
  BY <1>3 DEF Put, Ends, Deciding, Found
<1>7. Alters(e, t, p, q, <<>>) /\ Calm(e, t) /\ <<>> \in Seq(Frames)
  BY TimerActs
<1> HIDE DEF q, found, u, v, d, a, t, r, c
<1>8. ~found => Alters(e, r, p, q, <<d>>) /\ Calm(e, r)
  BY <1>1, <1>5, AnswerActs, CalmWinds DEF q
<1>9. found /\ q.rfc = "CLOSED" => Alters(e, r, p, u, <<>>) /\ Calm(e, r)
  <2>1. Alters(e, Put(t, p, u), p, u, <<>>) /\ Calm(e, Put(t, p, u))
    BY <1>2, <1>7, AltersPut
  <2> QED BY <1>5, <1>6, <2>1
<1>10. found /\ q.rfc \in {"SABME_WAIT_UA", "OPENED"} =>
         Alters(e, r, p, v, <<a>>) /\ Calm(e, r)
  BY <1>1, <1>2, <1>5, PutSendActs, CalmWinds DEF c
<1>11. found /\ q.rfc = "DISC_WAIT_UA" => Alters(e, r, p, v, <<d>>) /\ Calm(e, r)
  BY <1>1, <1>2, <1>5, PutSendActs, CalmWinds DEF c
<1>12. found /\ q.rfc \in {"ORIG_WAIT_SEC_CHECK", "TERM_WAIT_SEC_CHECK"} =>
         Alters(e, r, p, v, <<>>) /\ Calm(e, r)
  <2>1. Alters(e, c, p, v, <<>>) /\ Calm(e, c)
    BY <1>2, PutActs, CalmWinds DEF c
  <2> QED BY <1>5, <2>1
<1>13. Calm(e, r)
  BY <1>3, <1>8, <1>9, <1>10, <1>11, <1>12 DEF States
<1> QED BY <1>2, <1>8, <1>9, <1>10, <1>11, <1>12, <1>13 DEF q, found, u, v, d, a, r

(* The client is told that the server accepted. *)
Confirmed(q) == [q EXCEPT !.rfc = "OPENED", !.state = "OPENED", !.timer = FALSE]

LEMMA UaActs ==
  ASSUME NEW e, Steady(e), NEW p \in Ports
  PROVE  LET q == e.port[p]
             u == Asked(Confirmed(q))
             r == OnUA(e, p)
         IN /\ Confirmed(q) \in Port /\ u \in Port /\ Winds(e, r)
            /\ q.rfc = "SABME_WAIT_UA" => /\ Alters(e, r, p, u, <<Frame("MSC", p)>>)
                                          /\ Calm(e, r)
                                          /\ ~r.timer
            /\ q.rfc = "DISC_WAIT_UA" => Alters(e, r, p, Closed(e.self, p, q), <<>>)
            /\ q.rfc \notin {"SABME_WAIT_UA", "DISC_WAIT_UA"} => r = e
<1> DEFINE q == e.port[p]
           w == Confirmed(q)
           u == Asked(w)
           f == Frame("MSC", p)
           t == [e EXCEPT !.timer = FALSE]
           c == Put(t, p, w)
           r == OnUA(e, p)
<1>1. q \in Port /\ e \in Ends
  BY DEF Steady, Ends
<1>2. w \in Port /\ w.state = "OPENED" /\ w.rfc = "OPENED"
  BY <1>1 DEF Port, States, Confirmed
<1>3. Alters(e, t, p, q, <<>>) /\ Calm(e, t) /\ Steady(t) /\ ~t.timer /\ <<>> \in Seq(Frames)
  BY TimerActs
<1>4. /\ q.rfc = "SABME_WAIT_UA" => r = RFCOMM_ControlReq(c, p)
      /\ q.rfc = "DISC_WAIT_UA" => r = port_rfc_closed(e, p, TRUE)
      /\ q.rfc \notin {"SABME_WAIT_UA", "DISC_WAIT_UA"} => r = e
  <2>1. c = [Put(e, p, w) EXCEPT !.timer = FALSE]
    <3> HIDE DEF w
    <3> QED BY <1>1 DEF Put, Ends
  <2> HIDE DEF c
  <2> QED BY <2>1 DEF OnUA, Confirmed
<1>5. c.timer = t.timer
  <2> HIDE DEF t, w
  <2> QED BY <1>3 DEF Put, Steady, Ends
<1> HIDE DEF q, w, u, f, t, r
<1>6. Alters(e, c, p, w, <<>>) /\ Calm(e, c)
  BY <1>2, <1>3, AltersPut
<1> HIDE DEF c
<1>7. Steady(c) /\ c.port[p] = w
  BY <1>6 DEF Alters, Steady, Ends
<1>8. u \in Port
  BY <1>7, ControlReqActs DEF u
<1>9. ASSUME q.rfc = "SABME_WAIT_UA"
      PROVE  Alters(e, r, p, u, <<f>>) /\ Calm(e, r) /\ ~r.timer
  <2>1. Alters(c, r, p, u, <<f>>) /\ SameMx(c, r)
    BY <1>2, <1>4, <1>7, <1>9, ControlReqActs DEF u, f
  <2>2. <<f>> \in Seq(Frames) /\ <<>> \o <<f>> = <<f>>
    BY FrameTypes DEF f
  <2>3. Alters(e, r, p, u, <<>> \o <<f>>)
    BY <1>3, <1>6, <2>1, <2>2, AltersThen
  <2>4. Calm(e, r) /\ ~r.timer
    BY <1>3, <1>5, <1>6, <2>1, CalmWinds DEF SameMx
  <2> QED BY <2>2, <2>3, <2>4
<1>10. q.rfc = "DISC_WAIT_UA" => Alters(e, r, p, Closed(e.self, p, q), <<>>) /\ Winds(e, r)
  BY <1>4, ClosedActs DEF q
<1>11. Winds(e, r)
  BY <1>4, <1>9, <1>10, CalmWinds DEF Winds
<1> QED BY <1>2, <1>4, <1>8, <1>9, <1>10, <1>11 DEF q, w, u, f, r

LEMMA DmActs ==
  ASSUME NEW e, Steady(e), NEW p \in Ports
  PROVE  LET q == e.port[p]
             closes == q.rfc \in {"SABME_WAIT_UA", "CLOSED", "OPENED", "DISC_WAIT_UA"}
             r == OnDM(e, p)
         IN /\ Winds(e, r)
            /\ closes => Alters(e, r, p, Closed(e.self, p, q), <<>>)
            /\ ~closes => r = e
<1> DEFINE q == e.port[p]
           closes == q.rfc \in {"SABME_WAIT_UA", "CLOSED", "OPENED", "DISC_WAIT_UA"}
           r == OnDM(e, p)
<1>1. /\ closes => r = port_rfc_closed(e, p, TRUE) \/ r = port_rfc_closed(e, p, FALSE)
      /\ ~closes => r = e
  BY DEF OnDM
<1> HIDE DEF closes, r
<1>2. closes => Alters(e, r, p, Closed(e.self, p, q), <<>>) /\ Winds(e, r)
  <2>1. ASSUME NEW b \in BOOLEAN, r = port_rfc_closed(e, p, b)
        PROVE  Alters(e, r, p, Closed(e.self, p, q), <<>>) /\ Winds(e, r)
    BY <2>1, ClosedActs
  <2> QED BY <1>1, <2>1
<1>3. Winds(e, r)
  BY <1>1, <1>2 DEF Winds
<1> QED BY <1>1, <1>2, <1>3 DEF closes, r

(* A connection whose peer left while there is data to read. *)
Lingering(q) == [q EXCEPT !.rfc = "CLOSED", !.timer = TRUE]

LEMMA DiscActs ==
  ASSUME NEW e, Steady(e), NEW p \in Ports
  PROVE  LET q == e.port[p]
             closes == \/ q.rfc \in {"SABME_WAIT_UA", "TERM_WAIT_SEC_CHECK"}
                       \/ q.rfc = "OPENED" /\ q.rx = <<>>
             r == OnDISC(e, p)
         IN /\ Winds(e, r) /\ Lingering(q) \in Port
            /\ q.rfc \in {"CLOSED", "DISC_WAIT_UA"} => Alters(e, r, p, q, <<Frame("DM", p)>>)
            /\ closes => Alters(e, r, p, Closed(e.self, p, q), <<Frame("UA", p)>>)
            /\ q.rfc = "OPENED" /\ q.rx # <<>> =>
                 Alters(e, r, p, Lingering(q), <<Frame("UA", p)>>)
            /\ q.rfc = "ORIG_WAIT_SEC_CHECK" => r = e
<1> DEFINE q == e.port[p]
           closes == \/ q.rfc \in {"SABME_WAIT_UA", "TERM_WAIT_SEC_CHECK"}
                     \/ q.rfc = "OPENED" /\ q.rx = <<>>
           u == Lingering(q)
           d == Frame("DM", p)
           a == Frame("UA", p)
           c == rfc_check_send_cmd(e, a)
           r == OnDISC(e, p)
<1>1. q \in Port /\ d \in Frames /\ d.p = p /\ a \in Frames /\ a.p = p
  BY FrameTypes DEF Steady, Ends, Frame
<1>2. u \in Port /\ q.rfc \in States
  BY <1>1 DEF Port, States, Lingering
<1>3. /\ q.rfc \in {"CLOSED", "DISC_WAIT_UA"} => r = rfc_check_send_cmd(e, d)
      /\ closes => r = port_rfc_closed(c, p, FALSE)
      /\ q.rfc = "OPENED" /\ q.rx # <<>> => r = rfc_check_send_cmd(Put(e, p, u), a)
      /\ q.rfc = "ORIG_WAIT_SEC_CHECK" => r = e
  BY DEF OnDISC, DM, UA, Lingering
<1>4. Alters(e, c, p, q, <<a>>) /\ SameMx(e, c)
  <2> HIDE DEF a
  <2> QED BY <1>1, AnswerActs
<1>5. <<a>> \in Seq(Frames) /\ Calm(e, c)
  BY <1>1, <1>4, CalmWinds
<1> HIDE DEF u, d, a, r, c
<1>6. q.rfc \in {"CLOSED", "DISC_WAIT_UA"} => Alters(e, r, p, q, <<d>>) /\ Winds(e, r)
  <2>1. Alters(e, rfc_check_send_cmd(e, d), p, q, <<d>>)
        /\ SameMx(e, rfc_check_send_cmd(e, d))
    BY <1>1, AnswerActs
  <2> QED BY <1>3, <2>1, CalmWinds
<1>7. closes => Alters(e, r, p, Closed(e.self, p, q), <<a>>) /\ Winds(e, r)
  <2> HIDE DEF q, closes
  <2>1. Alters(e, port_rfc_closed(c, p, FALSE), p, Closed(e.self, p, q), <<a>>)
        /\ Winds(e, port_rfc_closed(c, p, FALSE))
    BY <1>4, <1>5, AltersClosed
  <2> QED BY <1>3, <2>1
<1>8. q.rfc = "OPENED" /\ q.rx # <<>> => Alters(e, r, p, u, <<a>>) /\ Winds(e, r)
  <2>1. Alters(e, rfc_check_send_cmd(Put(e, p, u), a), p, u, <<a>>)
        /\ SameMx(e, rfc_check_send_cmd(Put(e, p, u), a))
    BY <1>1, <1>2, PutSendActs
  <2> QED BY <1>3, <2>1, CalmWinds
<1>9. q.rfc = "ORIG_WAIT_SEC_CHECK" => Winds(e, r)
  BY <1>3 DEF Winds
<1>10. Winds(e, r)
  BY <1>2, <1>6, <1>7, <1>8, <1>9 DEF States
<1> QED BY <1>2, <1>3, <1>6, <1>7, <1>8, <1>10 DEF u, d, a, r

(* The data of a frame is stored, refused or dropped; its credits are counted *)
(* by rfc_inc_credit, in every case.                                          *)
Stored(q, d) == [q EXCEPT !.rx = Append(@, d)]

LEMMA DataActs ==
  ASSUME NEW e, Steady(e), NEW p \in Ports, NEW f \in Frames, f.p = p, f.t = "DATA",
         f.d \in Buffers
  PROVE  LET q == e.port[p]
             stores == q.rfc = "OPENED" /\ Len(q.rx) < rx_buf_critical
             refuses == q.rfc \in {"CLOSED", "DISC_WAIT_UA"}
         IN \E c : /\ OnDATA(e, f) = rfc_inc_credit(c, p, f.n) /\ SameMx(e, c) /\ Steady(c)
                   /\ stores => Stored(q, f.d) \in Port /\ Alters(e, c, p, Stored(q, f.d), <<>>)
                   /\ refuses => Alters(e, c, p, q, <<Frame("DM", p)>>)
                   /\ ~stores /\ ~refuses => c = e
<1> DEFINE q == e.port[p]
           stores == q.rfc = "OPENED" /\ Len(q.rx) < rx_buf_critical
           refuses == q.rfc \in {"CLOSED", "DISC_WAIT_UA"}
           u == Stored(q, f.d)
           d == Frame("DM", p)
           c == CASE q.rfc = "OPENED" /\ Len(q.rx) < rx_buf_critical -> Put(e, p, u)
                  [] q.rfc \in {"CLOSED", "DISC_WAIT_UA"} -> rfc_check_send_cmd(e, d)
                  [] OTHER -> e
<1>1. q \in Port /\ d \in Frames /\ d.p = p
  BY FrameTypes DEF Steady, Ends, Frame
<1>2. u \in Port
  <2>1. Append(q.rx, f.d) \in Seq(Buffers)
    BY <1>1 DEF Port
  <2> QED BY <1>1, <2>1 DEF Port, Stored
<1>3. OnDATA(e, f) = rfc_inc_credit(c, p, f.n)
  BY Zenon DEF OnDATA, DM, Stored
<1>4. /\ stores => c = Put(e, p, u)
      /\ refuses => c = rfc_check_send_cmd(e, d)
      /\ ~stores /\ ~refuses => c = e
  OBVIOUS
<1> HIDE DEF u, d, c
<1>5. stores => Alters(e, c, p, u, <<>>) /\ SameMx(e, c)
  BY <1>2, <1>4, PutActs
<1>6. refuses => Alters(e, c, p, q, <<d>>) /\ SameMx(e, c)
  <2>1. Alters(e, rfc_check_send_cmd(e, d), p, q, <<d>>)
        /\ SameMx(e, rfc_check_send_cmd(e, d))
    BY <1>1, AnswerActs
  <2> QED BY <1>4, <2>1
<1>7. SameMx(e, c)
  BY <1>4, <1>5, <1>6 DEF SameMx
<1>8. Steady(c)
  BY <1>4, <1>5, <1>6 DEF Alters
<1> QED BY <1>2, <1>3, <1>4, <1>5, <1>6, <1>7, <1>8 DEF u, d

Indicated(q) == [q EXCEPT !.ctrl = @ \cup {"IND_RECEIVED"}]
Settled(q) == [q EXCEPT !.rsp = @ \ {"MSC"}, !.timer = FALSE, !.ctrl = @ \cup {"REQ_CONFIRMED"}]

LEMMA SettledTypes ==
  ASSUME NEW q \in Port
  PROVE  Indicated(q) \in Port /\ Settled(q) \in Port
<1> DEFINE a == q.ctrl \cup {"IND_RECEIVED"}
           b == q.ctrl \cup {"REQ_CONFIRMED"}
           c == q.rsp \ {"MSC"}
<1>1. a \in SUBSET PORT_CTRL /\ b \in SUBSET PORT_CTRL /\ c \in SUBSET {"PN", "MSC"}
  BY DEF Port, PORT_CTRL
<1>2. Indicated(q) = [q EXCEPT !.ctrl = a]
      /\ Settled(q) = [q EXCEPT !.rsp = c, !.timer = FALSE, !.ctrl = b]
  BY DEF Indicated, Settled
<1> HIDE DEF a, b, c
<1> QED BY <1>1, <1>2 DEF Port

(* The peer's modem status is answered; then this end tells its own, or sends *)
(* what waited for it, or neither.                                            *)
LEMMA MscActs ==
  ASSUME NEW e, Steady(e), NEW p \in Ports, NEW f \in Frames, f.p = p, f.t = "MSC",
         e.port[p].mcb
  PROVE  LET q == e.port[p]
             up == q.state = "OPENED" /\ q.rfc = "OPENED"
         IN \E a, c : /\ rfc_process_msc(e, f) = Put(c, p, Indicated(c.port[p]))
                      /\ Alters(e, a, p, q, <<Frame("MSCR", p)>>) /\ SameMx(e, a) /\ a.port[p] = q
                      /\ "REQ_SENT" \notin q.ctrl /\ up =>
                           Alters(a, c, p, Asked(q), <<Frame("MSC", p)>>) /\ SameMx(a, c)
                      /\ "REQ_SENT" \notin q.ctrl /\ ~up => c = a
                      /\ {"REQ_SENT", "REQ_CONFIRMED"} \subseteq q.ctrl =>
                           c = port_rfc_send_tx_data(a, p)
                      /\ "REQ_SENT" \in q.ctrl /\ "REQ_CONFIRMED" \notin q.ctrl => c = a
<1> DEFINE q == e.port[p]
           up == q.state = "OPENED" /\ q.rfc = "OPENED"
           d == Frame("MSCR", p)
           a == rfc_check_send_cmd(e, d)
           c == CASE "REQ_SENT" \notin q.ctrl -> RFCOMM_ControlReq(a, p)
                  [] {"REQ_SENT", "REQ_CONFIRMED"} \subseteq q.ctrl -> port_rfc_send_tx_data(a, p)
                  [] OTHER -> a
<1>1. d \in Frames /\ d.p = p
  BY FrameTypes DEF Frame
<1>2. rfc_process_msc(e, f) = [c EXCEPT !.port[p].ctrl = @ \cup {"IND_RECEIVED"}]
  BY DEF rfc_process_msc
<1>3. rfc_process_msc(e, f) = Put(c, p, Indicated(c.port[p]))
  <2> HIDE DEF c
  <2> QED BY <1>2 DEF Put, Indicated
<1>4. /\ "REQ_SENT" \notin q.ctrl => c = RFCOMM_ControlReq(a, p)
      /\ {"REQ_SENT", "REQ_CONFIRMED"} \subseteq q.ctrl => c = port_rfc_send_tx_data(a, p)
      /\ "REQ_SENT" \in q.ctrl /\ "REQ_CONFIRMED" \notin q.ctrl => c = a
  OBVIOUS
<1>5. Alters(e, a, p, q, <<d>>) /\ SameMx(e, a)
  <2> HIDE DEF d
  <2> QED BY <1>1, AnswerActs
<1>6. Steady(a) /\ a.port[p] = q
  BY <1>5 DEF Alters, Steady, Ends
<1> HIDE DEF d, a, c
<1>7. "REQ_SENT" \notin q.ctrl /\ up => Alters(a, c, p, Asked(q), <<Frame("MSC", p)>>) /\ SameMx(a, c)
  BY <1>4, <1>6, ControlReqActs
<1>8. ASSUME "REQ_SENT" \notin q.ctrl, ~up
      PROVE  c = a
  <2>1. ~(a.port[p].state = "OPENED" /\ a.port[p].rfc = "OPENED")
    BY <1>6, <1>8
  <2>2. RFCOMM_ControlReq(a, p) = a
    BY <1>6, <2>1, ControlReqActs
  <2> QED BY <1>4, <1>8, <2>2
<1> QED BY <1>3, <1>4, <1>5, <1>6, <1>7, <1>8 DEF d

LEMMA MscrActs ==
  ASSUME NEW e, Steady(e), NEW p \in Ports, NEW f \in Frames, f.p = p, f.t = "MSCR",
         e.port[p].mcb
  PROVE  LET q == e.port[p]
             c == Put(e, p, Settled(q))
             r == rfc_process_msc(e, f)
         IN /\ "MSC" \notin q.rsp => r = e
            /\ "MSC" \in q.rsp =>
                 /\ Alters(e, c, p, Settled(q), <<>>) /\ SameMx(e, c)
                 /\ "IND_RECEIVED" \in q.ctrl => r = port_rfc_send_tx_data(c, p)
                 /\ "IND_RECEIVED" \notin q.ctrl => r = c
<1> DEFINE q == e.port[p]
           u == Settled(q)
           c == Put(e, p, u)
           r == rfc_process_msc(e, f)
<1>1. /\ "MSC" \notin q.rsp => r = e
      /\ "MSC" \in q.rsp => r = IF "IND_RECEIVED" \in q.ctrl THEN port_rfc_send_tx_data(c, p) ELSE c
  BY DEF rfc_process_msc, Settled
<1>2. u \in Port
  BY SettledTypes DEF Steady, Ends
<1>3. Alters(e, c, p, u, <<>>) /\ SameMx(e, c)
  <2> HIDE DEF u
  <2> QED BY <1>2, PutActs
<1> QED BY <1>1, <1>3

-----------------------------------------------------------------------------
(* The multiplexer *)

CloseOf(s, p, q) == IF q.mcb THEN Closed(s, p, q) ELSE q

LEMMA CloseAllActs ==
  ASSUME NEW e \in Ends
  PROVE  LET r == CloseAll(e)
         IN /\ r \in Ends /\ NoPorts(r)
            /\ r.self = e.self /\ r.mx = e.mx /\ r.timer = e.timer /\ r.congested = e.congested
            /\ r.cmd_q = e.cmd_q /\ r.out = e.out
            /\ \A x \in Ports : r.port[x] = CloseOf(e.self, x, e.port[x])
<1> DEFINE r == CloseAll(e)
           n == [p \in Ports |-> CloseOf(e.self, p, e.port[p])]
<1>1. r = [e EXCEPT !.port = n]
  BY DEF CloseAll, CloseOf
<1>2. \A x \in Ports : CloseOf(e.self, x, e.port[x]) \in Port /\ ~CloseOf(e.self, x, e.port[x]).mcb
  BY UnusedTypes DEF Ends, CloseOf
<1>3. n \in [Ports -> Port] /\ \A x \in Ports : n[x] = CloseOf(e.self, x, e.port[x])
  BY <1>2
<1> HIDE DEF n, r
<1>4. /\ r \in Ends /\ r.port = n
      /\ r.self = e.self /\ r.mx = e.mx /\ r.timer = e.timer /\ r.congested = e.congested
      /\ r.cmd_q = e.cmd_q /\ r.out = e.out
  BY <1>1, <1>3 DEF Ends
<1>5. NoPorts(r)
  BY <1>2, <1>3, <1>4 DEF NoPorts
<1> QED BY <1>3, <1>4, <1>5 DEF r

(* The released multiplexer forgets the commands that wait. *)
Drops(e, r) ==
  /\ Steady(r) /\ r.self = e.self /\ r.mx = "IDLE" /\ ~r.timer /\ ~r.congested
  /\ \A x \in Ports : Mine(r, x) = Only(e.out, Of(x))

LEMMA ReleaseActs ==
  ASSUME NEW e \in Ends
  PROVE  LET r == rfc_release_multiplexer_channel(e)
         IN Drops(e, r) /\ r.port = e.port
<1> DEFINE r == rfc_release_multiplexer_channel(e)
<1>1. /\ r \in Ends /\ r.port = e.port /\ r.self = e.self /\ r.out = e.out
      /\ r.cmd_q = <<>> /\ r.mx = "IDLE" /\ ~r.timer /\ ~r.congested
  <2>1. r = [e EXCEPT !.mx = "IDLE", !.timer = FALSE, !.cmd_q = <<>>, !.congested = FALSE]
    BY DEF rfc_release_multiplexer_channel
  <2>2. <<>> \in Seq(Frames)
    OBVIOUS
  <2> HIDE DEF r
  <2>3. r \in Ends
    BY <2>1, <2>2 DEF Ends
  <2> QED BY <2>1, <2>3 DEF Ends
<1> HIDE DEF r
<1>2. r.out \o r.cmd_q = e.out
  BY <1>1 DEF Ends
<1> QED BY <1>1, <1>2 DEF Drops, Steady, Mine, r

LEMMA HangUpActs ==
  ASSUME NEW e \in Ends
  PROVE  LET r == L2CA_DisconnectReq(e)
         IN /\ r \in Ends /\ r.port = e.port /\ r.self = e.self
            /\ \A x \in Ports : Only(r.out, Of(x)) = Only(e.out, Of(x))
<1> DEFINE r == L2CA_DisconnectReq(e)
           f == Mx("HANGUP")
<1>1. f \in Frames /\ f.p = 0 /\ 0 \notin Ports
  BY FrameTypes, Constants DEF Mx
<1>2. r \in Ends /\ r.port = e.port /\ r.self = e.self /\ r.out = Append(e.out, f)
  <2> HIDE DEF f
  <2>1. Append(e.out, f) \in Seq(Frames)
    BY <1>1 DEF Ends
  <2> QED BY <2>1 DEF L2CA_DisconnectReq, Ends, f
<1> HIDE DEF r, f
<1>3. ASSUME NEW x \in Ports PROVE Only(r.out, Of(x)) = Only(e.out, Of(x))
  <2>1. f \notin Of(x) /\ e.out \in Seq(Frames)
    BY <1>1 DEF Of, Ends
  <2>2. Only(Append(e.out, f), Of(x)) = IF f \in Of(x) THEN Append(Only(e.out, Of(x)), f)
                                       ELSE Only(e.out, Of(x))
    BY <1>1, <2>1, OnlyAppend
  <2> QED BY <1>2, <2>1, <2>2
<1> QED BY <1>2, <1>3 DEF r

(* Everything is closed and the multiplexer released. *)
Leaves(e, r) ==
  /\ Drops(e, r)
  /\ \A x \in Ports : r.port[x] = CloseOf(e.self, x, e.port[x])

LEMMA CloseIndActs ==
  ASSUME NEW e \in Ends
  PROVE  Leaves(e, PORT_CloseInd(e))
<1> DEFINE c == CloseAll(e)
           r == PORT_CloseInd(e)
<1>1. /\ c \in Ends /\ c.self = e.self /\ c.out = e.out
      /\ \A x \in Ports : c.port[x] = CloseOf(e.self, x, e.port[x])
  BY CloseAllActs
<1>2. r = rfc_release_multiplexer_channel(c)
  BY DEF PORT_CloseInd
<1> HIDE DEF c, r
<1>3. Drops(c, r) /\ r.port = c.port
  BY <1>1, <1>2, ReleaseActs
<1>4. Leaves(e, r)
  BY <1>1, <1>3 DEF Leaves, Drops
<1> QED BY <1>4 DEF r

(* The ports are as before, and so is what they have sent. *)
Spares(e, r) ==
  /\ Steady(r) /\ r.self = e.self /\ r.congested = e.congested /\ r.port = e.port
  /\ \A x \in Ports : Mine(r, x) = Mine(e, x)

LEMMA MxSendActs ==
  ASSUME NEW e, Steady(e), NEW t \in {"UA", "DISC"}
  PROVE  LET r == rfc_check_send_cmd(e, Mx(t))
         IN /\ Spares(e, r) /\ SameMx(e, r)
            /\ \A x \in Ports : Only(r.out, Of(x)) = Only(e.out, Of(x))
<1> DEFINE f == Mx(t)
           r == rfc_check_send_cmd(e, f)
<1>1. f \in Frames /\ f.p = 0 /\ 0 \notin Ports
  BY FrameTypes, Constants DEF Mx
<1> HIDE DEF f
<1>2. /\ Steady(r) /\ SameMx(e, r)
      /\ r.self = e.self /\ r.congested = e.congested /\ r.port = e.port
      /\ \A x \in Ports : Mine(r, x) = IF f.p = x THEN Mine(e, x) \o <<f>> ELSE Mine(e, x)
  BY <1>1, SendActs
<1>3. Spares(e, r)
  BY <1>1, <1>2 DEF Spares
<1>4. ASSUME NEW x \in Ports PROVE Only(r.out, Of(x)) = Only(e.out, Of(x))
  <2>1. f \notin Of(x) /\ e.out \in Seq(Frames)
    BY <1>1 DEF Of, Ends, Steady
  <2>2. Only(Append(e.out, f), Of(x)) = IF f \in Of(x) THEN Append(Only(e.out, Of(x)), f)
                                       ELSE Only(e.out, Of(x))
    BY <1>1, <2>1, OnlyAppend
  <2>3. r.out = e.out \/ r.out = Append(e.out, f)
    BY DEF rfc_check_send_cmd, Steady, Ends
  <2> QED BY <2>1, <2>2, <2>3
<1> QED BY <1>2, <1>3, <1>4 DEF f

LEMMA OnMxActs ==
  ASSUME NEW e, Steady(e), NEW t
  PROVE  LET r == OnMx(e, t)
         IN \/ Spares(e, r) /\ SameMx(e, r)
            \/ Leaves(e, r)
            \/ Drops(e, r) /\ r.port = e.port /\ e.mx = "DISC_WAIT_UA"
<1> DEFINE ua == rfc_check_send_cmd(e, Mx("UA"))
           h == L2CA_DisconnectReq(ua)
           r == OnMx(e, t)
<1>1. /\ Spares(e, ua) /\ SameMx(e, ua)
      /\ \A x \in Ports : Only(ua.out, Of(x)) = Only(e.out, Of(x))
  BY MxSendActs
<1>2. \/ r = e \/ r = ua \/ r = PORT_CloseInd(e) \/ r = PORT_CloseInd(h) \/ r = PORT_CloseInd(ua)
      \/ e.mx = "DISC_WAIT_UA" /\ r = rfc_release_multiplexer_channel(L2CA_DisconnectReq(e))
  BY Zenon DEF OnMx
<1>3. e \in Ends /\ ua \in Ends
  BY <1>1 DEF Steady, Spares
<1> HIDE DEF ua, r
<1>4. /\ h \in Ends /\ h.port = ua.port /\ h.self = ua.self
      /\ \A x \in Ports : Only(h.out, Of(x)) = Only(ua.out, Of(x))
  BY <1>3, HangUpActs
<1> HIDE DEF h
<1>5. CASE r = e
  BY <1>5 DEF Spares, SameMx, r
<1>6. CASE r = ua
  BY <1>1, <1>6 DEF r
<1>7. CASE r = PORT_CloseInd(e)
  BY <1>3, <1>7, CloseIndActs DEF r
<1>8. CASE r = PORT_CloseInd(h)
  <2>1. Leaves(h, r)
    BY <1>4, <1>8, CloseIndActs
  <2>2. Leaves(e, r)
    BY <1>1, <1>4, <2>1 DEF Leaves, Drops, Spares
  <2> QED BY <2>2 DEF r
<1>9. CASE r = PORT_CloseInd(ua)
  <2>1. Leaves(ua, r)
    BY <1>3, <1>9, CloseIndActs
  <2>2. Leaves(e, r)
    BY <1>1, <2>1 DEF Leaves, Drops, Spares
  <2> QED BY <2>2 DEF r
<1>10. CASE e.mx = "DISC_WAIT_UA" /\ r = rfc_release_multiplexer_channel(L2CA_DisconnectReq(e))
  <2> DEFINE n == L2CA_DisconnectReq(e)
  <2>1. /\ n \in Ends /\ n.port = e.port /\ n.self = e.self
        /\ \A x \in Ports : Only(n.out, Of(x)) = Only(e.out, Of(x))
    BY <1>3, HangUpActs
  <2>2. r = rfc_release_multiplexer_channel(n)
    BY <1>10
  <2> HIDE DEF n
  <2>3. Drops(n, r) /\ r.port = n.port
    BY <2>1, <2>2, ReleaseActs
  <2>4. Drops(e, r) /\ r.port = e.port
    BY <2>1, <2>3 DEF Drops
  <2> QED BY <1>10, <2>4 DEF r
<1> QED BY <1>2, <1>5, <1>6, <1>7, <1>8, <1>9, <1>10

Untimed(q) == [q EXCEPT !.timer = FALSE]

(* Every port is closed, with p's timer stopped first. *)
Shuts(e, r, p) ==
  /\ Steady(r) /\ NoPorts(r) /\ r.self = e.self /\ r.congested = e.congested
  /\ r.mx = "CONNECTED" => e.mx = "CONNECTED"
  /\ \A x \in Ports :
       /\ Mine(r, x) = Mine(e, x)
       /\ r.port[x] = CloseOf(e.self, x, IF x = p THEN Untimed(e.port[x]) ELSE e.port[x])

LEMMA PortExpiresActs ==
  ASSUME NEW e, Steady(e), NEW p \in Ports
  PROVE  LET q == e.port[p]
             r == PortExpires(e, p)
         IN /\ Untimed(q) \in Port
            /\ q.rfc \in {"CLOSED", "OPENED"} => Shuts(e, r, p)
            /\ q.rfc \in {"SABME_WAIT_UA", "DISC_WAIT_UA"} =>
                 Alters(e, r, p, Closed(e.self, p, Untimed(q)), <<>>) /\ Winds(e, r)
            /\ q.rfc \in {"ORIG_WAIT_SEC_CHECK", "TERM_WAIT_SEC_CHECK"} =>
                 Alters(e, r, p, Untimed(q), <<>>) /\ SameMx(e, r)
<1> DEFINE q == e.port[p]
           u == Untimed(q)
           c == Put(e, p, u)
           n == CloseAll(c)
           r == PortExpires(e, p)
<1>1. u \in Port
  <2>1. q \in Port
    BY DEF Steady, Ends
  <2> HIDE DEF q
  <2> QED BY <2>1 DEF Port, Untimed
<1>2. c = [e EXCEPT !.port[p].timer = FALSE]
  BY DEF Put, Untimed
<1>3. /\ q.rfc \in {"CLOSED", "OPENED"} => r = rfc_check_mcb_active(n, FALSE)
      /\ q.rfc \in {"SABME_WAIT_UA", "DISC_WAIT_UA"} => r = port_rfc_closed(c, p, FALSE)
      /\ q.rfc \in {"ORIG_WAIT_SEC_CHECK", "TERM_WAIT_SEC_CHECK"} => r = c
  <2> HIDE DEF c
  <2> QED BY <1>2 DEF PortExpires, Port_TimeOutCloseMux
<1> HIDE DEF u, r
<1>4. Alters(e, c, p, u, <<>>) /\ SameMx(e, c)
  BY <1>1, PutActs
<1> HIDE DEF c
<1>5. /\ Steady(c) /\ c \in Ends /\ c.self = e.self /\ c.congested = e.congested /\ c.mx = e.mx
      /\ \A x \in Ports : c.port[x] = IF x = p THEN u ELSE e.port[x]
  BY <1>4 DEF Alters, Steady, Ends, SameMx
<1>6. \A x \in Ports : Mine(c, x) = Mine(e, x)
  <2>1. \A x \in Ports : Mine(e, x) \o <<>> = Mine(e, x)
    BY MineType DEF Steady
  <2> QED BY <1>4, <2>1 DEF Alters
<1>7. ASSUME q.rfc \in {"CLOSED", "OPENED"} PROVE Shuts(e, r, p)
  <2>1. /\ n \in Ends /\ NoPorts(n)
        /\ n.self = c.self /\ n.mx = c.mx /\ n.timer = c.timer /\ n.congested = c.congested
        /\ n.cmd_q = c.cmd_q /\ n.out = c.out
        /\ \A x \in Ports : n.port[x] = CloseOf(c.self, x, c.port[x])
    BY <1>5, CloseAllActs
  <2> HIDE DEF n
  <2>2. Steady(n) /\ \A x \in Ports : Mine(n, x) = Mine(c, x)
    BY <1>5, <2>1 DEF Steady, Mine
  <2>3. r = rfc_check_mcb_active(n, FALSE)
    BY <1>3, <1>7 DEF n
  <2>4. /\ Steady(r) /\ Winds(n, r)
        /\ r.self = n.self /\ r.congested = n.congested /\ r.port = n.port
        /\ \A x \in Ports : Mine(r, x) = Mine(n, x)
    BY <2>2, <2>3, ActiveActs
  <2>5. \A x \in Ports :
          r.port[x] = CloseOf(e.self, x, IF x = p THEN Untimed(e.port[x]) ELSE e.port[x])
    BY <1>5, <2>1, <2>4 DEF u
  <2>6. NoPorts(r)
    BY <2>1, <2>4 DEF NoPorts
  <2>7. r.mx = "CONNECTED" => e.mx = "CONNECTED"
    BY <1>5, <2>1, <2>4 DEF Winds
  <2> QED BY <1>5, <1>6, <2>1, <2>2, <2>4, <2>5, <2>6, <2>7 DEF Shuts
<1>8. ASSUME q.rfc \in {"SABME_WAIT_UA", "DISC_WAIT_UA"}
      PROVE  Alters(e, r, p, Closed(e.self, p, u), <<>>) /\ Winds(e, r)
  <2>1. r = port_rfc_closed(c, p, FALSE)
    BY <1>3, <1>8
  <2>2. <<>> \in Seq(Frames) /\ Calm(e, c)
    BY <1>4, CalmWinds
  <2> QED BY <1>4, <2>1, <2>2, AltersClosed
<1>9. q.rfc \in {"ORIG_WAIT_SEC_CHECK", "TERM_WAIT_SEC_CHECK"} =>
        Alters(e, r, p, u, <<>>) /\ SameMx(e, r)
  BY <1>3, <1>4
<1> QED BY <1>1, <1>7, <1>8, <1>9 DEF u, r

LEMMA MxExpiresActs ==
  ASSUME NEW e, Steady(e)
  PROVE  LET r == MxExpires(e)
         IN \/ Spares(e, r) /\ (r.mx = "CONNECTED" => e.mx = "CONNECTED")
            \/ Drops(e, r) /\ r.port = e.port /\ e.mx = "DISC_WAIT_UA"
<1> DEFINE c == [e EXCEPT !.timer = FALSE]
           n == [c EXCEPT !.mx = "DISC_WAIT_UA", !.timer = TRUE]
           h == L2CA_DisconnectReq(c)
           r == MxExpires(e)
<1>1. /\ c \in Ends /\ c.port = e.port /\ c.self = e.self /\ c.mx = e.mx /\ e \in Ends
      /\ c.congested = e.congested /\ c.cmd_q = e.cmd_q /\ c.out = e.out
  BY DEF Steady, Ends
<1>2. /\ e.mx = "CONNECTED" => r = rfc_check_send_cmd(n, Mx("DISC"))
      /\ e.mx = "DISC_WAIT_UA" => r = rfc_release_multiplexer_channel(h)
      /\ e.mx \notin {"CONNECTED", "DISC_WAIT_UA"} => r = c
  <2>1. c.mx = e.mx
    BY <1>1
  <2> HIDE DEF c
  <2> QED BY <2>1 DEF MxExpires, rfc_mx_close, c
<1> HIDE DEF c, r
<1>3. /\ n \in Ends /\ n.port = e.port /\ n.self = e.self /\ n.mx = "DISC_WAIT_UA"
      /\ n.congested = e.congested /\ n.cmd_q = e.cmd_q /\ n.out = e.out
  BY <1>1 DEF Ends
<1> HIDE DEF n
<1>4. CASE e.mx = "CONNECTED"
  <2>1. Steady(n) /\ \A x \in Ports : Mine(n, x) = Mine(e, x)
    BY <1>3 DEF Steady, Mine
  <2>2. Spares(n, r) /\ SameMx(n, r)
    BY <1>2, <1>4, <2>1, MxSendActs
  <2>3. Spares(e, r) /\ r.mx = "DISC_WAIT_UA"
    BY <1>3, <2>1, <2>2 DEF Spares, SameMx
  <2> QED BY <1>4, <2>3 DEF r
<1>5. CASE e.mx = "DISC_WAIT_UA"
  <2>1. /\ h \in Ends /\ h.port = c.port /\ h.self = c.self
        /\ \A x \in Ports : Only(h.out, Of(x)) = Only(c.out, Of(x))
    BY <1>1, HangUpActs
  <2>2. r = rfc_release_multiplexer_channel(h)
    BY <1>2, <1>5
  <2> HIDE DEF h
  <2>3. Drops(h, r) /\ r.port = h.port
    BY <2>1, <2>2, ReleaseActs
  <2>4. Drops(e, r) /\ r.port = e.port
    BY <1>1, <2>1, <2>3 DEF Drops
  <2> QED BY <1>5, <2>4 DEF r
<1>6. CASE e.mx \notin {"CONNECTED", "DISC_WAIT_UA"}
  <2>1. Steady(c) /\ \A x \in Ports : Mine(c, x) = Mine(e, x)
    BY <1>1 DEF Steady, Mine
  <2> QED BY <1>1, <1>2, <1>6, <2>1 DEF Spares, r
<1> QED BY <1>4, <1>5, <1>6

(* told[i] is the end after the first i entries of the table of ports. *)
LEMMA FlowIndRounds ==
  ASSUME NEW e
  PROVE  \E told :
           /\ told = [i \in 0..MAX_RFC_PORTS |->
                        IF i = 0 THEN e
                        ELSE IF /\ i \in Ports /\ e.port[i].mcb /\ e.port[i].rfc = "OPENED"
                             THEN port_rfc_send_tx_data(told[i - 1], i)
                             ELSE told[i - 1]]
           /\ PORT_FlowInd(e) = told[MAX_RFC_PORTS]
<1> DEFINE n == MAX_RFC_PORTS
           Told(r, m) == r = [i \in 0..m |->
                               IF i = 0 THEN e
                               ELSE IF /\ i \in Ports /\ e.port[i].mcb /\ e.port[i].rfc = "OPENED"
                                    THEN port_rfc_send_tx_data(r[i - 1], i)
                                    ELSE r[i - 1]]
           W == {m \in 0..n : \E r : Told(r, m)}
<1>0. n \in Nat
  BY Constants
<1>1. 0 \in W
  <2>1. Told([i \in 0..0 |-> e], 0)
    OBVIOUS
  <2> HIDE DEF Told
  <2> QED BY <1>0, <2>1
<1>2. ASSUME NEW m \in 1..n, m - 1 \in W PROVE m \in W
  <2>1. PICK r : Told(r, m - 1)
    BY <1>2
  <2> DEFINE Round(x, i) == IF /\ i \in Ports /\ e.port[i].mcb /\ e.port[i].rfc = "OPENED"
                            THEN port_rfc_send_tx_data(x, i) ELSE x
             s == [i \in 0..m |-> IF i = m THEN Round(r[m - 1], m) ELSE r[i]]
  <2>2. r = [i \in 0..(m - 1) |-> IF i = 0 THEN e ELSE Round(r[i - 1], i)]
    BY <2>1
  <2> HIDE DEF Round
  <2>3. ASSUME NEW i \in 0..m
        PROVE  s[i] = IF i = 0 THEN e ELSE Round(s[i - 1], i)
    <3>1. CASE i = m
      BY <1>0, <3>1
    <3>2. CASE i # m
      <4>1. i \in 0..(m - 1) /\ (i # 0 => i - 1 \in 0..m /\ i - 1 # m)
        BY <1>0, <3>2
      <4>2. s[i] = r[i] /\ (i # 0 => s[i - 1] = r[i - 1])
        BY <3>2, <4>1
      <4> QED BY <2>2, <4>1, <4>2
    <3> QED BY <3>1, <3>2
  <2>4. s = [i \in 0..m |-> IF i = 0 THEN e ELSE Round(s[i - 1], i)]
    <3>1. s = [i \in 0..m |-> s[i]]
      OBVIOUS
    <3> HIDE DEF s
    <3> QED BY <2>3, <3>1
  <2> HIDE DEF s
  <2>5. Told(s, m)
    BY <2>4 DEF Round
  <2> HIDE DEF Told
  <2> QED BY <1>0, <2>5
<1>3. n \in W
  <2> HIDE DEF W, n
  <2> QED BY <1>0, <1>1, <1>2, AfterRounds
<1>4. \E r : Told(r, n)
  BY <1>3
<1>5. \E r : Told(r, n) /\ PORT_FlowInd(e) = r[n]
  BY Zenon, <1>4 DEF PORT_FlowInd
<1> QED BY <1>5

(* What sending the data of an open port keeps, PORT_FlowInd keeps. *)
LEMMA FlowIndKeeps ==
  ASSUME NEW e, NEW W, e \in W,
         \A x \in W, p \in Ports :
           e.port[p].mcb /\ e.port[p].rfc = "OPENED" => port_rfc_send_tx_data(x, p) \in W
  PROVE  PORT_FlowInd(e) \in W
<1> DEFINE n == MAX_RFC_PORTS
<1>1. PICK r : /\ r = [i \in 0..n |->
                        IF i = 0 THEN e
                        ELSE IF /\ i \in Ports /\ e.port[i].mcb /\ e.port[i].rfc = "OPENED"
                             THEN port_rfc_send_tx_data(r[i - 1], i)
                             ELSE r[i - 1]]
               /\ PORT_FlowInd(e) = r[n]
  BY FlowIndRounds
<1>2. /\ n \in Nat
      /\ \A i \in 0..n : r[i] = IF i = 0 THEN e
                                ELSE IF /\ i \in Ports /\ e.port[i].mcb /\ e.port[i].rfc = "OPENED"
                                     THEN port_rfc_send_tx_data(r[i - 1], i)
                                     ELSE r[i - 1]
  BY <1>1, Constants
<1> HIDE DEF n
<1> DEFINE T == {i \in 0..n : r[i] \in W}
<1>3. 0 \in T
  BY <1>2
<1>4. ASSUME NEW i \in 1..n, i - 1 \in T PROVE i \in T
  <2>1. i \in 0..n /\ i # 0 /\ r[i - 1] \in W
    BY <1>2, <1>4
  <2> QED BY <1>2, <2>1
<1>5. n \in T
  <2> HIDE DEF T
  <2> QED BY <1>2, <1>3, <1>4, AfterRounds
<1> QED BY <1>1, <1>5 DEF n

(* What the end of congestion makes of an end: each open port has sent data. *)
Flushes(e, r) ==
  /\ Steady(r) /\ r.self = e.self /\ r.congested = e.congested /\ SameMx(e, r)
  /\ \A p \in Ports :
       /\ ButData(e.port[p], r.port[p])
       /\ \E g \in Seq(DataOf(p)) : /\ Mine(r, p) = Mine(e, p) \o g
                                    /\ e.port[p].rfc # "OPENED" => g = <<>>

LEMMA FlowIndActs ==
  ASSUME NEW e, Steady(e)
  PROVE  Flushes(e, PORT_FlowInd(e))
<1> DEFINE W == {x \in Ends : Flushes(e, x)}
<1>1. Flushes(e, e) /\ e \in Ends
  <2>1. \A p \in Ports : Mine(e, p) \o <<>> = Mine(e, p) /\ <<>> \in Seq(DataOf(p))
    BY MineType DEF Steady
  <2> QED BY <2>1 DEF Flushes, SameMx, ButData, Steady
<1>2. ASSUME NEW x \in W, NEW p \in Ports
      PROVE  port_rfc_send_tx_data(x, p) \in W
  <2> DEFINE r == port_rfc_send_tx_data(x, p)
  <2>1. Flushes(e, x) /\ Steady(x)
    BY DEF Flushes
  <2>2. Pushes(x, r, p)
    BY <2>1, SendTxPushes
  <2> HIDE DEF r
  <2>3. PICK g \in Seq(DataOf(p)) : /\ Alters(x, r, p, r.port[p], g)
                                    /\ x.port[p].rfc # "OPENED" => g = <<>>
    BY <2>2 DEF Pushes
  <2>4. /\ Steady(r) /\ r \in Ends /\ r.self = e.self /\ r.congested = e.congested /\ SameMx(e, r)
    BY <2>1, <2>2, <2>3 DEF Alters, Flushes, Pushes, SameMx, Steady
  <2>5. ASSUME NEW y \in Ports
        PROVE  /\ ButData(e.port[y], r.port[y])
               /\ \E h \in Seq(DataOf(y)) : /\ Mine(r, y) = Mine(e, y) \o h
                                            /\ e.port[y].rfc # "OPENED" => h = <<>>
    <3>1. CASE y # p
      <4>1. r.port[y] = x.port[y] /\ Mine(r, y) = Mine(x, y)
        BY <2>1, <2>3, <3>1 DEF Alters, Steady, Ends
      <4> QED BY <2>1, <4>1 DEF Flushes
    <3>2. CASE y = p
      <4>1. PICK h \in Seq(DataOf(p)) : /\ Mine(x, p) = Mine(e, p) \o h
                                        /\ e.port[p].rfc # "OPENED" => h = <<>>
        BY <2>1 DEF Flushes
      <4>2. ButData(e.port[p], x.port[p]) /\ ButData(x.port[p], r.port[p])
        BY <2>1, <2>2 DEF Flushes, Pushes
      <4>3. ButData(e.port[p], r.port[p]) /\ x.port[p].rfc = e.port[p].rfc
        BY <4>2 DEF ButData
      <4>4. Mine(r, p) = Mine(x, p) \o g
        BY <2>1, <2>3 DEF Alters
      <4>5. Mine(e, p) \in Seq(Frames) /\ h \in Seq(Frames) /\ g \in Seq(Frames)
            /\ h \o g \in Seq(DataOf(p))
        BY MineType DEF DataOf, Steady
      <4> DEFINE m == Mine(e, p)
      <4> HIDE DEF m
      <4>6. (m \o h) \o g = m \o (h \o g)
        BY <4>5 DEF m
      <4>7. Mine(r, p) = Mine(e, p) \o (h \o g)
        BY <4>1, <4>4, <4>6 DEF m
      <4>8. e.port[p].rfc # "OPENED" => h \o g = <<>>
        BY <2>3, <4>1, <4>3
      <4> QED BY <3>2, <4>3, <4>5, <4>7, <4>8
    <3> QED BY <3>1, <3>2
  <2>6. Flushes(e, r)
    BY <2>4, <2>5 DEF Flushes
  <2> QED BY <2>4, <2>6 DEF r
<1>3. PORT_FlowInd(e) \in W
  <2> HIDE DEF W
  <2>1. e \in W
    BY <1>1 DEF W
  <2> QED BY <1>2, <2>1, FlowIndKeeps
<1> QED BY <1>3

-----------------------------------------------------------------------------
(* TypeOK *)

Server(p) == Peer(Client(p))

LEMMA SideFacts ==
  /\ \A s \in Sides : Peer(s) \in Sides /\ Peer(s) # s /\ Peer(Peer(s)) = s
  /\ \A s \in Sides, x \in Sides : x = s \/ x = Peer(s)
  /\ \A p \in Ports : /\ Client(p) \in Sides /\ Server(p) \in Sides /\ Server(p) # Client(p)
                      /\ Peer(Server(p)) = Client(p) /\ Peer(Client(p)) = Server(p)
                      /\ ~IsServer(Client(p), p) /\ IsServer(Server(p), p)
                      /\ \A s \in Sides : s = Client(p) \/ s = Server(p)
BY Constants DEF Sides, Peer, Client, Server, IsServer

(* Between two steps. *)
TypeInv ==
  /\ TypeOK
  /\ \A s \in Sides : end[s].self = s /\ (end[s].congested \/ end[s].cmd_q = <<>>)

LEMMA EndsSteady ==
  ASSUME TypeInv, NEW s \in Sides
  PROVE  /\ Steady(end[s]) /\ end[s].self = s /\ end[s].out = <<>>
         /\ wire[s] \in Seq(Frames) /\ Peer(s) \in Sides
         /\ \A x : Mine(end[s], x) = Only(end[s].cmd_q, Of(x))
<1>1. end[s] \in End /\ wire[s] \in Seq(Frames) /\ end[s].self = s
      /\ (end[s].congested \/ end[s].cmd_q = <<>>)
  BY DEF TypeInv, TypeOK
<1>2. end[s] \in Ends /\ end[s].out = <<>>
  <2>1. <<>> \in Seq(Frames)
    OBVIOUS
  <2> QED BY <1>1, <2>1 DEF End, Ends
<1>3. <<>> \o end[s].cmd_q = end[s].cmd_q
  BY <1>2 DEF Ends
<1> QED BY <1>1, <1>2, <1>3, SideFacts DEF Steady, Mine

LEMMA IncCreditSteady ==
  ASSUME NEW e, Steady(e), NEW p \in Ports, NEW n \in 0..credit_rx_max
  PROVE  LET r == rfc_inc_credit(e, p, n)
         IN Steady(r) /\ r.self = e.self /\ SameMx(e, r)
<1> DEFINE r == rfc_inc_credit(e, p, n)
           u == [e.port[p] EXCEPT !.credit_tx = @ + n, !.peer_fc = FALSE]
           c == Put(e, p, u)
<1>1. CASE n = 0
  <2>1. r = e
    BY <1>1 DEF rfc_inc_credit
  <2> QED BY <2>1 DEF SameMx
<1>2. CASE n # 0
  <2>1. /\ Alters(e, c, p, u, <<>>) /\ SameMx(e, c)
        /\ r = IF e.port[p].peer_fc THEN port_rfc_send_tx_data(c, p) ELSE c
    BY <1>2, IncCreditActs
  <2> HIDE DEF c, u, r
  <2>2. Steady(c) /\ c.self = e.self
    BY <2>1 DEF Alters
  <2>3. Pushes(c, port_rfc_send_tx_data(c, p), p)
    BY <2>2, SendTxPushes
  <2>4. Steady(r) /\ r.self = e.self /\ SameMx(e, r)
    BY <2>1, <2>2, <2>3 DEF Pushes, Alters, SameMx
  <2> QED BY <2>4 DEF r
<1> QED BY <1>1, <1>2

LEMMA MscSteady ==
  ASSUME NEW e, Steady(e), NEW f \in Frames, f.p \in Ports, f.t \in {"MSC", "MSCR"}
  PROVE  LET r == rfc_process_msc(e, f)
         IN Steady(r) /\ r.self = e.self /\ SameMx(e, r)
<1> DEFINE p == f.p
           r == rfc_process_msc(e, f)
<1>1. CASE ~e.port[p].mcb
  <2>1. r = e
    BY <1>1 DEF rfc_process_msc
  <2> QED BY <2>1 DEF SameMx
<1>2. CASE e.port[p].mcb /\ f.t = "MSC"
  <2>1. PICK a, c : /\ r = Put(c, p, Indicated(c.port[p]))
                    /\ Alters(e, a, p, e.port[p], <<Frame("MSCR", p)>>) /\ SameMx(e, a)
                    /\ \/ c = a \/ c = port_rfc_send_tx_data(a, p)
                       \/ Alters(a, c, p, Asked(e.port[p]), <<Frame("MSC", p)>>) /\ SameMx(a, c)
    <3> DEFINE q == e.port[p]
    <3>1. \/ {"REQ_SENT", "REQ_CONFIRMED"} \subseteq q.ctrl
          \/ "REQ_SENT" \notin q.ctrl
          \/ "REQ_SENT" \in q.ctrl /\ "REQ_CONFIRMED" \notin q.ctrl
      <4> DEFINE t == q.ctrl
      <4> HIDE DEF t
      <4>1. \/ {"REQ_SENT", "REQ_CONFIRMED"} \subseteq t
            \/ "REQ_SENT" \notin t
            \/ "REQ_SENT" \in t /\ "REQ_CONFIRMED" \notin t
        OBVIOUS
      <4> QED BY <4>1 DEF t
    <3>2. PICK a, c :
               /\ rfc_process_msc(e, f) = Put(c, p, Indicated(c.port[p]))
               /\ Alters(e, a, p, q, <<Frame("MSCR", p)>>) /\ SameMx(e, a) /\ a.port[p] = q
               /\ "REQ_SENT" \notin q.ctrl /\ (q.state = "OPENED" /\ q.rfc = "OPENED") =>
                    Alters(a, c, p, Asked(q), <<Frame("MSC", p)>>) /\ SameMx(a, c)
               /\ "REQ_SENT" \notin q.ctrl /\ ~(q.state = "OPENED" /\ q.rfc = "OPENED") => c = a
               /\ {"REQ_SENT", "REQ_CONFIRMED"} \subseteq q.ctrl => c = port_rfc_send_tx_data(a, p)
               /\ "REQ_SENT" \in q.ctrl /\ "REQ_CONFIRMED" \notin q.ctrl => c = a
      BY <1>2, MscActs
    <3> QED BY <3>1, <3>2
  <2>2. Steady(a) /\ a.self = e.self
    BY <2>1 DEF Alters
  <2>3. Pushes(a, port_rfc_send_tx_data(a, p), p)
    BY <2>2, SendTxPushes
  <2>4. Steady(c) /\ c.self = e.self /\ SameMx(e, c)
    BY <2>1, <2>2, <2>3 DEF Pushes, Alters, SameMx
  <2>5. Indicated(c.port[p]) \in Port
    BY <2>4, SettledTypes DEF Steady, Ends
  <2> HIDE DEF r
  <2>6. Alters(c, r, p, Indicated(c.port[p]), <<>>) /\ SameMx(c, r)
    BY <2>1, <2>4, <2>5, PutActs
  <2> QED BY <2>4, <2>6 DEF Alters, SameMx, r
<1>3. CASE e.port[p].mcb /\ f.t = "MSCR"
  <2> DEFINE c == Put(e, p, Settled(e.port[p]))
  <2>1. r = e \/ (/\ Alters(e, c, p, Settled(e.port[p]), <<>>) /\ SameMx(e, c)
                  /\ (r = c \/ r = port_rfc_send_tx_data(c, p)))
    <3>1. "MSC" \in e.port[p].rsp => /\ Alters(e, c, p, Settled(e.port[p]), <<>>) /\ SameMx(e, c)
                                    /\ (r = c \/ r = port_rfc_send_tx_data(c, p))
      BY <1>3, MscrActs
    <3>2. "MSC" \notin e.port[p].rsp => r = e
      BY <1>3, MscrActs
    <3> HIDE DEF c, r
    <3> QED BY <3>1, <3>2
  <2> HIDE DEF c, r
  <2>2. CASE r = e
    BY <2>2 DEF SameMx, r
  <2>3. CASE r # e
    <3>1. Steady(c) /\ c.self = e.self
      BY <2>1, <2>3 DEF Alters
    <3>2. Pushes(c, port_rfc_send_tx_data(c, p), p)
      BY <3>1, SendTxPushes
    <3>3. Steady(r) /\ r.self = e.self /\ SameMx(e, r)
      BY <2>1, <2>3, <3>1, <3>2 DEF Pushes, Alters, SameMx
    <3> QED BY <3>3 DEF r
  <2> QED BY <2>2, <2>3
<1> QED BY <1>1, <1>2, <1>3

LEMMA AltersSteady ==
  ASSUME NEW e, NEW r, NEW p \in Ports, NEW q, NEW g, Alters(e, r, p, q, g)
  PROVE  Steady(r) /\ r.self = e.self
BY DEF Alters

LEMMA ReceiveSteady ==
  ASSUME NEW e, Steady(e), NEW f \in Frames
  PROVE  LET r == RFCOMM_BufDataInd(e, f)
         IN Steady(r) /\ r.self = e.self
<1> DEFINE p == f.p
           q == e.port[p]
           r == RFCOMM_BufDataInd(e, f)
<1>1. CASE e.mx = "IDLE"
  BY <1>1 DEF RFCOMM_BufDataInd
<1>2. CASE e.mx # "IDLE" /\ p = 0
  <2>1. r = OnMx(e, f.t)
    BY <1>2 DEF RFCOMM_BufDataInd
  <2> QED BY <2>1, OnMxActs DEF Spares, Leaves, Drops
<1>3. CASE e.mx # "IDLE" /\ p \in Ports
  <2>0. p # 0 /\ f.n \in 0..credit_rx_max /\ e.port[p] \in Port
        /\ f.t \in {"PN", "PNR", "MSC", "MSCR", "SABME", "UA", "DM", "DISC", "DATA", "CREDIT"}
        /\ (f.t = "DATA" => f.d \in Buffers)
    BY <1>3, Constants DEF Frames, Steady, Ends
  <2>1. CASE f.t = "PN"
    <3>1. r = rfc_process_pn(e, f)
      BY <1>3, <2>0, <2>1 DEF RFCOMM_BufDataInd
    <3>2. \E u, g : Alters(e, r, p, u, g)
      BY <1>3, <2>1, <3>1, ProcessPnActs
    <3> HIDE DEF r, p
    <3> QED BY <1>3, <3>2, AltersSteady DEF r
  <2>2. CASE f.t = "PNR"
    <3>1. r = rfc_process_pn(e, f)
      BY <1>3, <2>0, <2>2 DEF RFCOMM_BufDataInd
    <3>2. r = e \/ \E u, g : Alters(e, r, p, u, g)
      BY <1>3, <2>2, <3>1, ProcessPnrActs
    <3> HIDE DEF r, p
    <3> QED BY <1>3, <3>2, AltersSteady DEF r
  <2>3. CASE f.t \in {"MSC", "MSCR"}
    <3>1. r = rfc_process_msc(e, f)
      BY <1>3, <2>0, <2>3 DEF RFCOMM_BufDataInd
    <3> QED BY <1>3, <2>3, <3>1, MscSteady
  <2>4. CASE f.t = "SABME"
    <3>1. r = OnSABME(e, p)
      BY <1>3, <2>0, <2>4 DEF RFCOMM_BufDataInd
    <3>2. q.rfc \in States
      BY <2>0 DEF Port
    <3>3. \E u, g : Alters(e, r, p, u, g)
      BY <1>3, <3>1, <3>2, SabmeActs DEF States
    <3> HIDE DEF r, p
    <3> QED BY <1>3, <3>3, AltersSteady DEF r
  <2>5. CASE f.t \in {"UA", "DM", "DISC", "DATA", "CREDIT"} /\ ~q.mcb
    <3> DEFINE d == Frame("DM", p)
    <3>1. r = e \/ r = rfc_check_send_cmd(e, d)
      BY <1>3, <2>0, <2>5 DEF RFCOMM_BufDataInd, DM
    <3>2. d \in Frames /\ d.p = p
      BY <1>3, FrameTypes DEF Frame
    <3> HIDE DEF d
    <3> QED BY <1>3, <3>1, <3>2, SendActs
  <2>6. CASE f.t = "UA" /\ q.mcb
    <3>1. r = OnUA(e, p)
      BY <1>3, <2>0, <2>6 DEF RFCOMM_BufDataInd
    <3>2. r = e \/ \E u, g : Alters(e, r, p, u, g)
      <4> HIDE DEF r
      <4>1. CASE q.rfc = "SABME_WAIT_UA"
        BY <1>3, <3>1, <4>1, UaActs
      <4>2. CASE q.rfc = "DISC_WAIT_UA"
        BY <1>3, <3>1, <4>2, UaActs
      <4>3. CASE q.rfc \notin {"SABME_WAIT_UA", "DISC_WAIT_UA"}
        BY <1>3, <3>1, <4>3, UaActs
      <4> QED BY <4>1, <4>2, <4>3
    <3> HIDE DEF r, p
    <3> QED BY <1>3, <3>2, AltersSteady DEF r
  <2>7. CASE f.t = "DM" /\ q.mcb
    <3>1. r = OnDM(e, p)
      BY <1>3, <2>0, <2>7 DEF RFCOMM_BufDataInd
    <3> QED BY <1>3, <3>1, DmActs, AltersSteady
  <2>8. CASE f.t = "DISC" /\ q.mcb
    <3>1. r = OnDISC(e, p)
      BY <1>3, <2>0, <2>8 DEF RFCOMM_BufDataInd
    <3>2. q.rfc \in States
      BY <2>0 DEF Port
    <3>3. r = e \/ \E u, g : Alters(e, r, p, u, g)
      <4> HIDE DEF r
      <4>1. CASE q.rfc \in {"CLOSED", "DISC_WAIT_UA"}
        BY <1>3, <3>1, <4>1, DiscActs
      <4>2. CASE \/ q.rfc \in {"SABME_WAIT_UA", "TERM_WAIT_SEC_CHECK"}
                 \/ q.rfc = "OPENED" /\ q.rx = <<>>
        BY <1>3, <3>1, <4>2, DiscActs
      <4>3. CASE q.rfc = "OPENED" /\ q.rx # <<>>
        BY <1>3, <3>1, <4>3, DiscActs
      <4>4. CASE q.rfc = "ORIG_WAIT_SEC_CHECK"
        BY <1>3, <3>1, <4>4, DiscActs
      <4> QED BY <3>2, <4>1, <4>2, <4>3, <4>4 DEF States
    <3> HIDE DEF r, p
    <3> QED BY <1>3, <3>3, AltersSteady DEF r
  <2>9. CASE f.t = "DATA" /\ q.mcb
    <3>1. r = OnDATA(e, f)
      BY <1>3, <2>0, <2>9 DEF RFCOMM_BufDataInd
    <3>2. PICK c : r = rfc_inc_credit(c, p, f.n) /\ Steady(c)
                   /\ (c = e \/ c.self = e.self)
      <4>1. PICK c : /\ OnDATA(e, f) = rfc_inc_credit(c, p, f.n) /\ Steady(c)
                     /\ \/ c = e
                        \/ Alters(e, c, p, Stored(q, f.d), <<>>)
                        \/ Alters(e, c, p, q, <<Frame("DM", p)>>)
        BY <1>3, <2>0, <2>9, DataActs
      <4> QED BY <1>3, <3>1, <4>1, AltersSteady
    <3> QED BY <1>3, <2>0, <3>2, IncCreditSteady
  <2>10. CASE f.t = "CREDIT" /\ q.mcb
    <3>1. r = rfc_inc_credit(e, p, f.n)
      BY <1>3, <2>0, <2>10 DEF RFCOMM_BufDataInd
    <3> QED BY <1>3, <2>0, <3>1, IncCreditSteady
  <2> QED BY <2>0, <2>1, <2>2, <2>3, <2>4, <2>5, <2>6, <2>7, <2>8, <2>9, <2>10
<1> QED BY <1>1, <1>2, <1>3 DEF Frames

(* What end s sent goes on the wire to its peer, after whatever it received. *)
LEMMA BecomesTyped ==
  ASSUME TypeInv, NEW s \in Sides, NEW r, Steady(r), r.self = s, NEW w \in Seq(Frames),
         end' = [end EXCEPT ![s] = [r EXCEPT !.out = <<>>]],
         wire' = [wire EXCEPT ![s] = w, ![Peer(s)] = @ \o r.out]
  PROVE  /\ end' \in [Sides -> End] /\ wire' \in [Sides -> Seq(Frames)]
         /\ \A x \in Sides : end'[x].self = x /\ (end'[x].congested \/ end'[x].cmd_q = <<>>)
<1> DEFINE z == [r EXCEPT !.out = <<>>]
<1>1. /\ end \in [Sides -> End] /\ wire \in [Sides -> Seq(Frames)] /\ Peer(s) \in Sides
      /\ \A x \in Sides : end[x].self = x /\ (end[x].congested \/ end[x].cmd_q = <<>>)
  BY SideFacts DEF TypeInv, TypeOK
<1>2. r \in Ends /\ (r.congested \/ r.cmd_q = <<>>) /\ r.out \in Seq(Frames)
  BY DEF Steady, Ends
<1>3. z \in End /\ z.self = s /\ (z.congested \/ z.cmd_q = <<>>)
  BY <1>2 DEF Ends, End
<1> HIDE DEF z
<1>4. end' = [end EXCEPT ![s] = z]
  BY DEF z
<1>5. end' \in [Sides -> End]
  BY <1>1, <1>3, <1>4
<1>6. wire[Peer(s)] \o r.out \in Seq(Frames)
  BY <1>1, <1>2
<1>7. wire' \in [Sides -> Seq(Frames)]
  BY <1>1, <1>6, SideFacts
<1>8. \A x \in Sides : end'[x].self = x /\ (end'[x].congested \/ end'[x].cmd_q = <<>>)
  BY <1>1, <1>3, <1>4
<1> QED BY <1>5, <1>7, <1>8

LEMMA SentTyped ==
  ASSUME TypeInv, NEW s \in Sides, NEW r, Steady(r), r.self = s, Becomes(s, r)
  PROVE  /\ end' \in [Sides -> End] /\ wire' \in [Sides -> Seq(Frames)]
         /\ \A x \in Sides : end'[x].self = x /\ (end'[x].congested \/ end'[x].cmd_q = <<>>)
<1>1. wire \in [Sides -> Seq(Frames)] /\ wire[s] \in Seq(Frames)
  BY DEF TypeInv, TypeOK
<1>2. wire' = [wire EXCEPT ![s] = wire[s], ![Peer(s)] = @ \o r.out]
  BY <1>1, SideFacts DEF Becomes
<1>3. end' = [end EXCEPT ![s] = [r EXCEPT !.out = <<>>]]
  BY DEF Becomes
<1> QED BY <1>1, <1>2, <1>3, BecomesTyped

Fresh == [Unused EXCEPT !.state = "OPENING", !.mcb = TRUE]

LEMMA CreateActs ==
  ASSUME NEW e, Steady(e), NEW p \in Ports
  PROVE  LET c == [e EXCEPT !.timer = FALSE, !.port[p] = Fresh]
             r == RFCOMM_ParNegReq(c, p)
         IN /\ Fresh \in Port /\ Asking(Fresh) \in Port
            /\ Alters(e, r, p, Asking(Fresh), <<Credits("PN", p, k)>>) /\ Calm(e, r) /\ ~r.timer
<1> DEFINE t == [e EXCEPT !.timer = FALSE]
           c == [e EXCEPT !.timer = FALSE, !.port[p] = Fresh]
           r == RFCOMM_ParNegReq(c, p)
           f == Credits("PN", p, k)
           u == Asking(Fresh)
<1>1. Fresh \in Port
  BY UnusedTypes DEF Fresh, Port
<1>2. Alters(e, t, p, e.port[p], <<>>) /\ Calm(e, t) /\ Steady(t) /\ ~t.timer
  BY TimerActs
<1>3. c = Put(t, p, Fresh) /\ c.timer = t.timer
  BY DEF Put, Steady, Ends
<1> HIDE DEF t, c
<1>4. Alters(e, c, p, Fresh, <<>>) /\ Calm(e, c)
  <2>1. <<>> \in Seq(Frames)
    OBVIOUS
  <2> QED BY <1>1, <1>2, <1>3, <2>1, AltersPut
<1>5. Steady(c) /\ c.port[p] = Fresh
  BY <1>4 DEF Alters, Steady, Ends
<1> HIDE DEF r
<1>6. u \in Port /\ SameMx(c, r) /\ Alters(c, r, p, u, <<f>>)
  BY <1>5, ParNegReqActs DEF r
<1>7. f \in Frames
  BY Constants, FrameTypes
<1> HIDE DEF f, u
<1>8. <<f>> \in Seq(Frames) /\ <<>> \in Seq(Frames) /\ <<>> \o <<f>> = <<f>>
  BY <1>7
<1>9. Alters(e, r, p, u, <<>> \o <<f>>)
  BY <1>4, <1>6, <1>8, AltersThen
<1>10. Alters(e, r, p, u, <<f>>)
  BY <1>8, <1>9
<1>11. Calm(e, r) /\ ~r.timer
  BY <1>2, <1>3, <1>4, <1>6, CalmWinds DEF SameMx
<1> QED BY <1>1, <1>6, <1>10, <1>11 DEF r, c, f, u

(* The application takes a buffer, and the peer may be granted credits for it. *)
Taken(q) == [q EXCEPT !.rx = Tail(@)]

LEMMA ReadActs ==
  ASSUME NEW e, Steady(e), NEW p \in Ports, e.port[p].rx # <<>>
  PROVE  LET q == Taken(e.port[p])
             c == [e EXCEPT !.port[p].rx = Tail(@)]
         IN /\ q \in Port /\ Steady(c) /\ c.port[p] = q
            /\ Alters(e, c, p, q, <<>>) /\ SameMx(e, c)
<1> DEFINE q == Taken(e.port[p])
           c == [e EXCEPT !.port[p].rx = Tail(@)]
<1>1. e.port[p] \in Port
  BY DEF Steady, Ends
<1>2. q \in Port
  <2>1. Tail(e.port[p].rx) \in Seq(Buffers)
    BY <1>1 DEF Port
  <2> QED BY <1>1, <2>1 DEF Port, Taken
<1>3. c = Put(e, p, q)
  BY DEF Put, Taken
<1> HIDE DEF q, c
<1>4. Alters(e, c, p, q, <<>>) /\ SameMx(e, c)
  BY <1>2, <1>3, PutActs
<1>5. Steady(c) /\ c.port[p] = q
  BY <1>4 DEF Alters, Steady, Ends
<1> QED BY <1>2, <1>4, <1>5 DEF q, c

Holding(q, enable) == [q EXCEPT !.user_fc = ~enable]

LEMMA HoldActs ==
  ASSUME NEW e, Steady(e), NEW p \in Ports, NEW enable \in BOOLEAN
  PROVE  LET q == Holding(e.port[p], enable)
             c == [e EXCEPT !.port[p].user_fc = ~enable]
         IN /\ q \in Port /\ Steady(c) /\ c.port[p] = q
            /\ Alters(e, c, p, q, <<>>) /\ SameMx(e, c)
<1> DEFINE q == Holding(e.port[p], enable)
           c == [e EXCEPT !.port[p].user_fc = ~enable]
<1>1. e.port[p] \in Port
  BY DEF Steady, Ends
<1>2. q \in Port
  <2> DEFINE b == ~enable
  <2>1. b \in BOOLEAN /\ q = [e.port[p] EXCEPT !.user_fc = b]
    BY DEF Holding
  <2> HIDE DEF b, q
  <2> QED BY <1>1, <2>1 DEF Port
<1>3. c = Put(e, p, q)
  BY DEF Put, Holding
<1> HIDE DEF q, c
<1>4. Alters(e, c, p, q, <<>>) /\ SameMx(e, c)
  BY <1>2, <1>3, PutActs
<1>5. Steady(c) /\ c.port[p] = q
  BY <1>4 DEF Alters, Steady, Ends
<1> QED BY <1>2, <1>4, <1>5 DEF q, c

LEMMA FlowControlSteady ==
  ASSUME NEW e, Steady(e), NEW p \in Ports, NEW m \in {0, 1}
  PROVE  LET r == port_flow_control_peer(e, p, m) IN Steady(r) /\ r.self = e.self
<1> DEFINE r == port_flow_control_peer(e, p, m)
<1>1. r = e \/ \E u, g : Alters(e, r, p, u, g)
  <2> DEFINE q == e.port[p]
             left == q.credit_rx - Least(m, q.credit_rx)
             grants == q.mcb /\ left <= credit_rx_low /\ ~q.user_fc
  <2>1. CASE grants
    BY <2>1, FlowControlActs
  <2>2. CASE q.mcb /\ ~grants
    BY <2>2, FlowControlActs
  <2>3. CASE ~q.mcb
    BY <2>3, FlowControlActs
  <2> QED BY <2>1, <2>2, <2>3
<1> HIDE DEF r
<1>2. Steady(r) /\ r.self = e.self
  BY <1>1 DEF Alters
<1> QED BY <1>2 DEF r

(* The end of congestion sends the commands that waited first. *)
Uncongested(e) == [e EXCEPT !.congested = FALSE, !.cmd_q = <<>>, !.out = e.cmd_q]

LEMMA UncongestedActs ==
  ASSUME NEW e, Steady(e), e.out = <<>>
  PROVE  LET c == Uncongested(e)
         IN /\ Steady(c) /\ c.self = e.self /\ c.port = e.port /\ SameMx(e, c) /\ ~c.congested
            /\ \A x : Mine(c, x) = Mine(e, x)
<1> DEFINE c == Uncongested(e)
<1>1. e.cmd_q \in Seq(Frames) /\ <<>> \in Seq(Frames) /\ e \in Ends
  BY DEF Steady, Ends
<1>2. /\ c \in Ends /\ c.self = e.self /\ c.port = e.port /\ c.mx = e.mx /\ c.timer = e.timer
      /\ ~c.congested /\ c.cmd_q = <<>> /\ c.out = e.cmd_q
  <2>1. c \in Ends
    BY <1>1 DEF Ends, Uncongested
  <2> QED BY <1>1, <2>1 DEF Ends, Uncongested
<1> HIDE DEF c
<1>3. c.out \o c.cmd_q = e.out \o e.cmd_q
  BY <1>1, <1>2
<1> QED BY <1>2, <1>3 DEF Steady, SameMx, Mine, c

LEMMA TypeInit ==
  ASSUME Init
  PROVE  TypeInv
<1>1. /\ 0 \in Nat /\ \A x \in {MaxOpens, WritesA, WritesB, MaxHolds, MaxTimeouts} : x \in Nat /\ 0 \in 0..x
  BY RfcommAssumption
<1>2. \A s \in Sides : end[s] \in End /\ end[s].self = s /\ end[s].cmd_q = <<>>
  <2> DEFINE n(s) == [p \in Ports |-> IF IsServer(s, p) THEN Listening ELSE Unused]
             z(s) == [self |-> s, mx |-> "CONNECTED", timer |-> FALSE, congested |-> FALSE,
                      cmd_q |-> <<>>, out |-> <<>>, port |-> n(s)]
  <2>1. \A s \in Sides : n(s) \in [Ports -> Port]
    BY UnusedTypes
  <2>2. \A s \in Sides : end[s] = z(s)
    BY DEF Init
  <2> HIDE DEF n
  <2>3. \A s \in Sides : z(s) \in End /\ z(s).self = s /\ z(s).cmd_q = <<>>
    BY <2>1 DEF End
  <2> QED BY <2>2, <2>3
<1>3. end = [s \in Sides |-> end[s]]
  BY DEF Init
<1>4. end \in [Sides -> End]
  BY <1>2, <1>3
<1>5. /\ wire \in [Sides -> Seq(Frames)]
      /\ written \in [Sides -> [Ports -> {0} \cup Buffers]]
      /\ early \in [Sides -> [Ports -> SUBSET Buffers]]
  BY DEF Init
<1>6. used \in [opens : [Ports -> 0..MaxOpens], holds : 0..MaxHolds, timeouts : 0..MaxTimeouts]
  BY <1>1 DEF Init
<1> QED BY <1>2, <1>4, <1>5, <1>6 DEF TypeInv, TypeOK

EndTyped ==
  /\ end' \in [Sides -> End] /\ wire' \in [Sides -> Seq(Frames)]
  /\ \A x \in Sides : end'[x].self = x /\ (end'[x].congested \/ end'[x].cmd_q = <<>>)

UsedType == [opens : [Ports -> 0..MaxOpens], holds : 0..MaxHolds, timeouts : 0..MaxTimeouts]

LEMMA ExpiresType ==
  ASSUME TypeOK, NEW b, Expires(b)
  PROVE  used' \in UsedType
<1>1. used \in UsedType /\ MaxTimeouts \in Nat
  BY RfcommAssumption DEF TypeOK, UsedType
<1>2. CASE used' = used
  BY <1>1, <1>2
<1>3. CASE used' # used
  <2>1. used.timeouts < MaxTimeouts /\ used' = [used EXCEPT !.timeouts = @ + 1]
    BY <1>3 DEF Expires
  <2>2. used.timeouts \in 0..MaxTimeouts /\ used.timeouts + 1 \in 0..MaxTimeouts
    BY <1>1, <2>1 DEF UsedType
  <2> QED BY <1>1, <2>1, <2>2 DEF UsedType
<1> QED BY <1>2, <1>3

LEMMA HoldsType ==
  ASSUME TypeOK, used.holds < MaxHolds, used' = [used EXCEPT !.holds = @ + 1]
  PROVE  used' \in UsedType
<1>1. used \in UsedType /\ MaxHolds \in Nat
  BY RfcommAssumption DEF TypeOK, UsedType
<1>2. used.holds \in 0..MaxHolds /\ used.holds + 1 \in 0..MaxHolds
  BY <1>1 DEF UsedType
<1> QED BY <1>1, <1>2 DEF UsedType

LEMMA WriteTypes ==
  ASSUME TypeOK, NEW s \in Sides, NEW p \in Ports, written[s][p] < Writes(s)
  PROVE  written[s][p] \in Nat /\ written[s][p] + 1 \in Buffers
<1>1. written[s][p] \in {0} \cup Buffers /\ WritesA \in Nat /\ WritesB \in Nat
  BY RfcommAssumption DEF TypeOK
<1> QED BY <1>1 DEF Writes, Buffers

LEMMA TypeStep ==
  ASSUME TypeInv, [Next]_vars
  PROVE  TypeInv'
<1>1. TypeOK /\ used \in UsedType
  BY DEF TypeInv, TypeOK, UsedType
<1>2. ASSUME EndTyped, UNCHANGED <<written, early>>, used' \in UsedType
      PROVE  TypeInv'
  BY <1>1, <1>2 DEF EndTyped, TypeInv, TypeOK, UsedType
<1>3. ASSUME EndTyped, UNCHANGED <<written, early, used>>
      PROVE  TypeInv'
  BY <1>1, <1>2, <1>3
<1>4. ASSUME NEW s \in Sides, NEW r, Steady(r), r.self = s, Runs(s, r)
      PROVE  TypeInv'
  BY <1>3, <1>4, SentTyped DEF Runs, EndTyped
<1>5. CASE UNCHANGED vars
  BY <1>5 DEF vars, TypeInv, TypeOK
<1>6. ASSUME NEW p \in Ports, RFCOMM_CreateConnection(p) PROVE TypeInv'
  <2> DEFINE s == Client(p)
             c == [end[s] EXCEPT !.timer = FALSE, !.port[p] = Fresh]
             r == RFCOMM_ParNegReq(c, p)
  <2>1. s \in Sides /\ Steady(end[s]) /\ end[s].self = s
    BY SideFacts, EndsSteady
  <2>2. Becomes(s, r) /\ UNCHANGED <<written, early>>
    BY <1>6 DEF RFCOMM_CreateConnection, Fresh
  <2> HIDE DEF s
  <2>3. Alters(end[s], r, p, Asking(Fresh), <<Credits("PN", p, k)>>)
    BY <2>1, CreateActs
  <2> HIDE DEF r, c
  <2>4. Steady(r) /\ r.self = s
    BY <2>1, <2>3 DEF Alters
  <2>5. used' \in UsedType
    <3>1. used.opens[p] < MaxOpens /\ used' = [used EXCEPT !.opens[p] = @ + 1] /\ MaxOpens \in Nat
      BY <1>6, RfcommAssumption DEF RFCOMM_CreateConnection
    <3>2. used.opens \in [Ports -> 0..MaxOpens] /\ used.opens[p] + 1 \in 0..MaxOpens
      BY <1>1, <3>1 DEF UsedType
    <3> QED BY <1>1, <3>1, <3>2 DEF UsedType
  <2> QED BY <1>2, <2>1, <2>2, <2>4, <2>5, SentTyped DEF EndTyped
<1>7. ASSUME NEW s \in Sides, Receive(s) PROVE TypeInv'
  <2> DEFINE r == RFCOMM_BufDataInd(end[s], Head(wire[s]))
  <2>1. /\ wire[s] # <<>> /\ UNCHANGED <<written, early, used>>
        /\ end' = [end EXCEPT ![s] = [r EXCEPT !.out = <<>>]]
        /\ wire' = [wire EXCEPT ![s] = Tail(@), ![Peer(s)] = @ \o r.out]
    BY <1>7 DEF Receive
  <2>2. Steady(end[s]) /\ end[s].self = s /\ wire[s] \in Seq(Frames)
    BY EndsSteady
  <2>3. Head(wire[s]) \in Frames /\ Tail(wire[s]) \in Seq(Frames)
    BY <2>1, <2>2
  <2>4. Steady(r) /\ r.self = s
    BY <2>2, <2>3, ReceiveSteady
  <2> HIDE DEF r
  <2>5. wire' = [wire EXCEPT ![s] = Tail(wire[s]), ![Peer(s)] = @ \o r.out]
    BY <2>1
  <2>6. EndTyped
    BY <2>1, <2>3, <2>4, <2>5, BecomesTyped DEF EndTyped
  <2> QED BY <1>3, <2>1, <2>6
<1>8. ASSUME NEW s \in Sides, Congestion(s) PROVE TypeInv'
  <2>1. /\ used.holds < MaxHolds /\ used' = [used EXCEPT !.holds = @ + 1]
        /\ end' = [end EXCEPT ![s] = [end[s] EXCEPT !.congested = TRUE]]
        /\ UNCHANGED <<wire, written, early>>
    BY <1>8 DEF Congestion, TypeInv, TypeOK
  <2>2. end[s] \in End /\ end[s].self = s
    BY DEF TypeInv, TypeOK
  <2> DEFINE z == [end[s] EXCEPT !.congested = TRUE]
  <2>3. z \in End /\ z.self = s /\ z.congested
    BY <2>2 DEF End
  <2> HIDE DEF z
  <2>4. EndTyped
    BY <2>1, <2>3 DEF z, EndTyped, TypeInv, TypeOK
  <2>5. used' \in UsedType
    BY <1>1, <2>1, HoldsType
  <2> QED BY <1>2, <2>1, <2>4, <2>5
<1>9. ASSUME NEW s \in Sides, CongestionEnds(s) PROVE TypeInv'
  <2> DEFINE c == Uncongested(end[s])
             r == PORT_FlowInd(c)
  <2>1. Runs(s, r)
    BY <1>9 DEF CongestionEnds, Uncongested
  <2>2. Steady(c) /\ c.self = s
    BY EndsSteady, UncongestedActs
  <2> HIDE DEF c
  <2>3. Steady(r) /\ r.self = s
    BY <2>2, FlowIndActs DEF Flushes
  <2> HIDE DEF r
  <2> QED BY <1>4, <2>1, <2>3
<1>10. ASSUME NEW s \in Sides, MxTimeout(s) PROVE TypeInv'
  <2> DEFINE r == MxExpires(end[s])
  <2>1. Becomes(s, r) /\ UNCHANGED <<written, early>> /\ used' \in UsedType
    BY <1>1, <1>10, ExpiresType DEF MxTimeout
  <2>2. Steady(end[s]) /\ end[s].self = s
    BY EndsSteady
  <2>3. Steady(r) /\ r.self = s
    BY <2>2, MxExpiresActs DEF Spares, Drops
  <2> HIDE DEF r
  <2> QED BY <1>2, <2>1, <2>3, SentTyped DEF EndTyped
<1>11. ASSUME NEW s \in Sides, NEW p \in Ports, PORT_Write(s, p) PROVE TypeInv'
  <2> DEFINE d == written[s][p] + 1
             r == port_write(end[s], p, d)
  <2>1. /\ written[s][p] < Writes(s) /\ Becomes(s, r) /\ UNCHANGED used
        /\ written' = [written EXCEPT ![s][p] = d]
        /\ early' = early \/ early' = [early EXCEPT ![s][p] = @ \cup {d}]
    <3> DEFINE t == IF SetUp(end[s].port[p]) /\ "REQ_CONFIRMED" \notin end[s].port[p].ctrl
                    THEN early[s][p] \cup {d} ELSE early[s][p]
    <3>1. /\ written[s][p] < Writes(s) /\ Becomes(s, r) /\ UNCHANGED used
          /\ written' = [written EXCEPT ![s][p] = d]
          /\ early' = [early EXCEPT ![s][p] = t]
      BY <1>11 DEF PORT_Write
    <3>2. early \in [Sides -> [Ports -> SUBSET Buffers]]
      BY <1>1 DEF TypeOK
    <3> QED BY <3>1, <3>2
  <2>2. d \in Buffers
    BY <1>1, <2>1, WriteTypes
  <2>3. Steady(end[s]) /\ end[s].self = s
    BY EndsSteady
  <2> HIDE DEF d
  <2>4. \E q, g : Alters(end[s], r, p, q, g)
    BY <2>2, <2>3, WriteActs
  <2> HIDE DEF r
  <2>5. Steady(r) /\ r.self = s
    BY <2>3, <2>4 DEF Alters
  <2>6. EndTyped
    BY <2>1, <2>5, SentTyped DEF EndTyped
  <2>7. written' \in [Sides -> [Ports -> {0} \cup Buffers]]
        /\ early' \in [Sides -> [Ports -> SUBSET Buffers]]
    <3>1. written \in [Sides -> [Ports -> {0} \cup Buffers]]
          /\ early \in [Sides -> [Ports -> SUBSET Buffers]]
      BY <1>1 DEF TypeOK
    <3>2. written' \in [Sides -> [Ports -> {0} \cup Buffers]]
      BY <2>1, <2>2, <3>1
    <3>3. early' \in [Sides -> [Ports -> SUBSET Buffers]]
      <4>1. CASE early' = early
        BY <3>1, <4>1
      <4>2. CASE early' = [early EXCEPT ![s][p] = @ \cup {d}]
        <5>1. early[s][p] \cup {d} \in SUBSET Buffers
          BY <2>2, <3>1
        <5> QED BY <3>1, <4>2, <5>1
      <4> QED BY <2>1, <4>1, <4>2
    <3> QED BY <3>2, <3>3
  <2> QED BY <1>1, <2>1, <2>6, <2>7 DEF EndTyped, TypeInv, TypeOK
<1>12. ASSUME NEW s \in Sides, NEW p \in Ports, PORT_Read(s, p) PROVE TypeInv'
  <2> DEFINE c == [end[s] EXCEPT !.port[p].rx = Tail(@)]
             r == port_flow_control_peer(c, p, 1)
  <2>1. Runs(s, r) /\ end[s].port[p].rx # <<>>
    BY <1>12 DEF PORT_Read
  <2>2. Steady(end[s]) /\ end[s].self = s
    BY EndsSteady
  <2>3. Steady(c) /\ c.self = s
    BY <2>1, <2>2, ReadActs DEF Alters
  <2> HIDE DEF c
  <2>4. Steady(r) /\ r.self = s
    BY <2>3, FlowControlSteady
  <2> HIDE DEF r
  <2> QED BY <1>4, <2>1, <2>4
<1>13. ASSUME NEW s \in Sides, NEW p \in Ports, PortTimeout(s, p) PROVE TypeInv'
  <2> DEFINE r == PortExpires(end[s], p)
  <2>1. Becomes(s, r) /\ UNCHANGED <<written, early>> /\ used' \in UsedType
    BY <1>1, <1>13, ExpiresType DEF PortTimeout
  <2>2. Steady(end[s]) /\ end[s].self = s /\ end[s].port[p].rfc \in States
    BY EndsSteady DEF Steady, Ends, Port
  <2>3. Shuts(end[s], r, p) \/ \E q, g : Alters(end[s], r, p, q, g)
    BY <2>2, PortExpiresActs DEF States
  <2> HIDE DEF r
  <2>4. Steady(r) /\ r.self = s
    BY <2>2, <2>3 DEF Alters, Shuts
  <2> QED BY <1>2, <2>1, <2>4, SentTyped DEF EndTyped
<1>14. ASSUME NEW s \in Sides, NEW p \in Ports, NEW b \in BOOLEAN, RemovePort(s, p, b)
       PROVE  TypeInv'
  <2> DEFINE r == port_start_close(end[s], p, b)
             q == Departing(end[s].port[p], b)
  <2>1. Runs(s, r)
    BY <1>14 DEF RemovePort
  <2>2. Steady(end[s]) /\ end[s].self = s
    BY EndsSteady
  <2>3. q \in Port
    BY <2>2, StartCloseActs
  <2>4. \E u, g : Alters(end[s], r, p, u, g)
    <3>1. \/ q.rfc = "CLOSED" \/ ~q.mcb
          \/ q.mcb /\ q.rfc \in {"SABME_WAIT_UA", "OPENED"}
          \/ q.mcb /\ q.rfc = "ORIG_WAIT_SEC_CHECK"
          \/ q.mcb /\ q.rfc \in {"TERM_WAIT_SEC_CHECK", "DISC_WAIT_UA"}
      <4> HIDE DEF q
      <4> QED BY <2>3 DEF Port, States
    <3> HIDE DEF r
    <3> QED BY <2>2, <3>1, StartCloseActs DEF r
  <2> HIDE DEF r
  <2>5. Steady(r) /\ r.self = s
    BY <2>2, <2>4 DEF Alters
  <2> QED BY <1>4, <2>1, <2>5
<1>15. ASSUME NEW s \in Sides, NEW p \in Ports, NEW b \in BOOLEAN, SecurityAnswers(s, p, b)
       PROVE  TypeInv'
  <2> DEFINE r == rfc_sec_check_complete(end[s], p, b)
             e == end[s]
             q == e.port[p]
  <2>1. Runs(s, r) /\ q.rfc \in {"ORIG_WAIT_SEC_CHECK", "TERM_WAIT_SEC_CHECK"}
    BY <1>15 DEF SecurityAnswers
  <2>2. Steady(e) /\ e.self = s
    BY EndsSteady
  <2> HIDE DEF e
  <2>3. r = e \/ r = PORT_DlcEstablishInd(e, p) \/ \E u, g : Alters(e, r, p, u, g)
    <3>1. CASE q.rfc = "ORIG_WAIT_SEC_CHECK" /\ b
      BY <2>1, <2>2, <3>1, SecurityActs DEF e
    <3>2. CASE q.rfc = "ORIG_WAIT_SEC_CHECK" /\ ~b
      BY <2>1, <2>2, <3>2, SecurityActs DEF e
    <3>3. CASE q.rfc # "ORIG_WAIT_SEC_CHECK" /\ b
      BY <2>1, <2>2, <3>3, SecurityActs DEF e
    <3>4. CASE q.rfc # "ORIG_WAIT_SEC_CHECK" /\ ~b
      BY <2>1, <2>2, <3>4, SecurityActs DEF e
    <3> QED BY <3>1, <3>2, <3>3, <3>4
  <2> DEFINE x == PORT_DlcEstablishInd(e, p)
  <2>4. \E u, g : Alters(e, x, p, u, g)
    <3>1. CASE e.mx = "CONNECTED"
      BY <2>2, <3>1, EstablishActs
    <3>2. CASE e.mx # "CONNECTED"
      BY <2>2, <3>2, EstablishActs
    <3> QED BY <3>1, <3>2
  <2> HIDE DEF r, x
  <2>5. Steady(r) /\ r.self = s
    BY <2>2, <2>3, <2>4 DEF Alters, x
  <2> QED BY <1>4, <2>1, <2>5
<1>16. ASSUME NEW s \in Sides, NEW p \in Ports, NEW b \in BOOLEAN, PORT_FlowControl(s, p, b)
       PROVE  TypeInv'
  <2> DEFINE c == [end[s] EXCEPT !.port[p].user_fc = ~b]
             n == port_flow_control_peer(c, p, 0)
             r == IF b THEN n ELSE c
  <2>1. /\ Becomes(s, r) /\ UNCHANGED <<written, early>> /\ (b \/ used.holds < MaxHolds)
        /\ used' = IF b THEN used ELSE [used EXCEPT !.holds = @ + 1]
    BY <1>16 DEF PORT_FlowControl
  <2>2. Steady(end[s]) /\ end[s].self = s
    BY EndsSteady
  <2>3. Steady(c) /\ c.self = s
    <3>1. Steady(c) /\ \E q : Alters(end[s], c, p, q, <<>>)
      BY <2>2, HoldActs
    <3> HIDE DEF c
    <3> QED BY <2>2, <3>1 DEF Alters
  <2> HIDE DEF c
  <2>4. Steady(r) /\ r.self = s
    BY <2>3, FlowControlSteady
  <2>5. used' \in UsedType
    BY <1>1, <2>1, HoldsType
  <2> HIDE DEF r, n
  <2> QED BY <1>2, <2>1, <2>4, <2>5, SentTyped DEF EndTyped
<1> QED BY <1>5, <1>6, <1>7, <1>8, <1>9, <1>10, <1>11, <1>12, <1>13, <1>14, <1>15, <1>16 DEF Next

(* TypeOK: no handler, and no order of them, leaves an end, a frame or a      *)
(* counter outside the range the code declares; the credits one end grants    *)
(* never exceed credit_rx_max, whatever the peer and the application do.      *)
THEOREM TypesKept == Spec => []TypeOK
<1>1. Init => TypeInv
  BY TypeInit
<1>2. TypeInv /\ [Next]_vars => TypeInv'
  BY TypeStep
<1>3. TypeInv => TypeOK
  BY DEF TypeInv
<1> QED BY <1>1, <1>2, <1>3, PTL DEF Spec

-----------------------------------------------------------------------------
(* The credits and buffers between two ports *)

Grants == {f \in Frames : f.t \in {"DATA", "CREDIT"}}
Loads == {f \in Frames : f.t = "DATA"}

(* The credits that the frames of q carry, and the buffers. *)
Owed(q) == Granted(Only(q, Grants))
Bufs(q) == [i \in DOMAIN Only(q, Loads) |-> Only(q, Loads)[i].d]

LEMMA FlowSplit ==
  ASSUME NEW q \in Seq(Frames), NEW r \in Seq(Frames)
  PROVE  /\ Owed(q) \in Nat /\ Owed(r) \in Nat /\ Owed(q \o r) = Owed(q) + Owed(r)
         /\ Bufs(q) \in Seq(Buffers) /\ Bufs(r) \in Seq(Buffers)
         /\ Bufs(q \o r) = Bufs(q) \o Bufs(r)
<1>1. \A x \in Seq(Frames) : Only(x, Grants) \in Seq(Frames) /\ Only(x, Loads) \in Seq(Loads)
  <2>1. Frames \cap Loads = Loads
    BY DEF Loads
  <2> QED BY <2>1, OnlyType
<1>2. /\ Only(q \o r, Grants) = Only(q, Grants) \o Only(r, Grants)
      /\ Only(q \o r, Loads) = Only(q, Loads) \o Only(r, Loads)
  BY OnlyConcat
<1>3. Owed(q) \in Nat /\ Owed(r) \in Nat /\ Owed(q \o r) = Owed(q) + Owed(r)
  BY <1>1, <1>2, GrantedNat, GrantedConcat DEF Owed
<1>4. \A x \in Loads : x.d \in Buffers
  BY DEF Loads, Frames
<1>5. \A x \in Seq(Loads) : [i \in DOMAIN x |-> x[i].d] \in Seq(Buffers)
  <2>1. ASSUME NEW x \in Seq(Loads) PROVE [i \in DOMAIN x |-> x[i].d] \in Seq(Buffers)
    <3>1. DOMAIN x = 1..Len(x) /\ Len(x) \in Nat /\ \A i \in 1..Len(x) : x[i] \in Loads
      OBVIOUS
    <3>2. [i \in DOMAIN x |-> x[i].d] = [i \in 1..Len(x) |-> x[i].d]
      BY <3>1
    <3>3. \A i \in 1..Len(x) : x[i].d \in Buffers
      BY <1>4, <3>1
    <3> QED BY <3>1, <3>2, <3>3
  <2> QED BY <2>1
<1>6. Bufs(q) \in Seq(Buffers) /\ Bufs(r) \in Seq(Buffers)
  BY <1>1, <1>5 DEF Bufs
<1>7. Bufs(q \o r) = Bufs(q) \o Bufs(r)
  <2> DEFINE a == Only(q, Loads)
             b == Only(r, Loads)
  <2>1. a \in Seq(Loads) /\ b \in Seq(Loads)
    BY <1>1
  <2> HIDE DEF a, b
  <2> DEFINE x == [i \in DOMAIN a |-> a[i].d]
             y == [i \in DOMAIN b |-> b[i].d]
             z == [i \in DOMAIN (a \o b) |-> (a \o b)[i].d]
  <2>2. /\ x \in Seq(Buffers) /\ y \in Seq(Buffers) /\ z \in Seq(Buffers)
        /\ Len(x) = Len(a) /\ Len(y) = Len(b) /\ Len(z) = Len(a) + Len(b)
    BY <1>5, <2>1
  <2>3. /\ \A i \in 1..Len(a) : x[i] = a[i].d
        /\ \A i \in 1..Len(b) : y[i] = b[i].d
    BY <2>1
  <2>4. \A i \in 1..(Len(a) + Len(b)) : z[i] = IF i <= Len(a) THEN a[i].d ELSE b[i - Len(a)].d
    BY <2>1
  <2> HIDE DEF x, y, z
  <2>5. z = x \o y
    <3>1. x \o y \in Seq(Buffers)
      <4>1. \A S : \A c, d \in Seq(S) : c \o d \in Seq(S)
        OBVIOUS
      <4> QED BY <2>2, <4>1
    <3>2. Len(x \o y) = Len(x) + Len(y)
      <4>1. \A S : \A c, d \in Seq(S) : Len(c \o d) = Len(c) + Len(d)
        OBVIOUS
      <4> QED BY <2>2, <4>1
    <3>3. Len(a) \in Nat /\ Len(b) \in Nat
      BY <2>1
    <3>4. \A i \in 1..(Len(x) + Len(y)) : (x \o y)[i] = IF i <= Len(x) THEN x[i] ELSE y[i - Len(x)]
      BY <2>2
    <3>5. ASSUME NEW i \in 1..Len(z) PROVE z[i] = (x \o y)[i]
      <4>1. i \in 1..(Len(a) + Len(b)) /\ i \in 1..(Len(x) + Len(y))
        BY <2>2, <3>5
      <4>2. CASE i <= Len(a)
        <5>1. i \in 1..Len(a)
          BY <3>3, <4>1, <4>2
        <5> QED BY <2>2, <2>3, <2>4, <3>4, <4>1, <4>2, <5>1
      <4>3. CASE ~(i <= Len(a))
        <5>1. i - Len(a) \in 1..Len(b)
          BY <3>3, <4>1, <4>3
        <5> QED BY <2>2, <2>3, <2>4, <3>4, <4>1, <4>3, <5>1
      <4> QED BY <4>2, <4>3
    <3> QED BY <2>2, <3>1, <3>2, <3>5
  <2> QED BY <1>2, <2>5 DEF Bufs, a, b, x, y, z
<1> QED BY <1>3, <1>6, <1>7

LEMMA FlowOne ==
  ASSUME NEW f \in Frames
  PROVE  /\ <<f>> \in Seq(Frames) /\ f.n \in 0..credit_rx_max
         /\ Owed(<<f>>) = IF f.t \in {"DATA", "CREDIT"} THEN f.n ELSE 0
         /\ Bufs(<<f>>) = IF f.t = "DATA" THEN <<f.d>> ELSE <<>>
         /\ f.t = "DATA" => f.d \in Buffers
<1>1. <<>> \in Seq(Frames) /\ Append(<<>>, f) = <<f>>
  OBVIOUS
<1>2. /\ Only(<<f>>, Grants) = IF f \in Grants THEN <<f>> ELSE <<>>
      /\ Only(<<f>>, Loads) = IF f \in Loads THEN <<f>> ELSE <<>>
  <2>1. \A T : Only(Append(<<>>, f), T) = IF f \in T THEN Append(Only(<<>>, T), f) ELSE Only(<<>>, T)
    BY <1>1, OnlyAppend
  <2>2. \A T : Only(Append(<<>>, f), T) = IF f \in T THEN Append(<<>>, f) ELSE <<>>
    BY <2>1, OnlyEmpty
  <2> QED BY <1>1, <2>2
<1>3. f.n \in 0..credit_rx_max /\ (f.t = "DATA" => f.d \in Buffers) /\ credit_rx_max \in Nat
  BY Constants DEF Frames
<1>4. Granted(<<f>>) = f.n
  <2>1. Granted(Append(<<>>, f)) = Granted(<<>>) + f.n
    BY <1>1, GrantedAppend
  <2> QED BY <1>1, <1>3, <2>1, GrantedEmpty
<1>5. Owed(<<f>>) = IF f.t \in {"DATA", "CREDIT"} THEN f.n ELSE 0
  BY <1>2, <1>4, GrantedEmpty DEF Owed, Grants
<1>6. Bufs(<<f>>) = IF f.t = "DATA" THEN <<f.d>> ELSE <<>>
  <2>1. CASE f.t = "DATA"
    <3>1. Only(<<f>>, Loads) = <<f>>
      BY <1>2, <2>1 DEF Loads
    <3>2. Bufs(<<f>>) = [i \in DOMAIN <<f>> |-> <<f>>[i].d]
      BY <3>1 DEF Bufs
    <3> QED BY <2>1, <3>2
  <2>2. CASE f.t # "DATA"
    <3>1. Only(<<f>>, Loads) = <<>>
      BY <1>2, <2>2 DEF Loads
    <3> QED BY <2>2, <3>1 DEF Bufs
  <2> QED BY <2>1, <2>2
<1> QED BY <1>1, <1>3, <1>5, <1>6

LEMMA FlowEmpty == Owed(<<>>) = 0 /\ Bufs(<<>>) = <<>>
<1>1. Only(<<>>, Grants) = <<>> /\ Only(<<>>, Loads) = <<>>
  BY OnlyEmpty
<1> QED BY <1>1, GrantedEmpty DEF Owed, Bufs

(* No frame of q is of a type in T. *)
Free(q, T) == \A i \in 1..Len(q) : q[i].t \notin T

LEMMA FreeFacts ==
  ASSUME NEW q \in Seq(Frames), NEW r \in Seq(Frames), NEW T
  PROVE  /\ Free(q \o r, T) <=> Free(q, T) /\ Free(r, T)
         /\ Free(<<>>, T)
         /\ \A f \in Frames : Free(<<f>>, T) <=> f.t \notin T
         /\ q # <<>> => (Free(q, T) <=> Head(q).t \notin T /\ Free(Tail(q), T))
<1>1. Free(q \o r, T) <=> Free(q, T) /\ Free(r, T)
  <2>1. ASSUME Free(q \o r, T) PROVE Free(q, T) /\ Free(r, T)
    <3>1. \A i \in 1..Len(q) : i \in 1..Len(q \o r) /\ (q \o r)[i] = q[i]
      OBVIOUS
    <3>2. \A i \in 1..Len(r) : Len(q) + i \in 1..Len(q \o r) /\ (q \o r)[Len(q) + i] = r[i]
      OBVIOUS
    <3> QED BY <2>1, <3>1, <3>2 DEF Free
  <2>2. ASSUME Free(q, T), Free(r, T) PROVE Free(q \o r, T)
    <3>1. \A i \in 1..Len(q \o r) : \/ i \in 1..Len(q) /\ (q \o r)[i] = q[i]
                                    \/ i - Len(q) \in 1..Len(r) /\ (q \o r)[i] = r[i - Len(q)]
      OBVIOUS
    <3> QED BY <2>2, <3>1 DEF Free
  <2> QED BY <2>1, <2>2
<1>2. Free(<<>>, T)
  BY DEF Free
<1>3. \A f \in Frames : Free(<<f>>, T) <=> f.t \notin T
  BY DEF Free
<1>4. ASSUME q # <<>> PROVE Free(q, T) <=> Head(q).t \notin T /\ Free(Tail(q), T)
  <2>1. 1 \in 1..Len(q) /\ Head(q) = q[1] /\ Len(Tail(q)) = Len(q) - 1
    BY <1>4
  <2>2. \A i \in 1..Len(Tail(q)) : i + 1 \in 1..Len(q) /\ Tail(q)[i] = q[i + 1]
    BY <1>4
  <2>3. \A i \in 1..Len(q) : i = 1 \/ (i - 1 \in 1..Len(Tail(q)) /\ Tail(q)[i - 1] = q[i])
    BY <1>4
  <2> QED BY <2>1, <2>2, <2>3 DEF Free
<1> QED BY <1>1, <1>2, <1>3, <1>4

(* Frames without data and credits do not matter to the flow. *)
LEMMA FlowNone ==
  ASSUME NEW q \in Seq(Frames), Free(q, {"DATA", "CREDIT"})
  PROVE  Owed(q) = 0 /\ Bufs(q) = <<>>
<1>1. Only(q, Grants) = <<>> /\ Only(q, Loads) = <<>>
  <2>1. \A i \in 1..Len(q) : q[i] \notin Grants /\ q[i] \notin Loads
    BY DEF Free, Grants, Loads
  <2> QED BY <2>1, OnlyNone
<1> QED BY <1>1, GrantedEmpty DEF Owed, Bufs

-----------------------------------------------------------------------------
(* The stream f of an end that has written w buffers, of which those in ea may *)
(* have overtaken others.                                                      *)
StreamOk(f, w, ea) ==
  /\ \A i \in DOMAIN f : f[i] <= w
  /\ \A i, j \in DOMAIN f : i < j => f[i] < f[j] \/ f[i] \in ea

LEMMA StreamTail ==
  ASSUME NEW f \in Seq(Nat), f # <<>>, NEW w \in Nat, NEW ea, StreamOk(f, w, ea)
  PROVE  Tail(f) \in Seq(Nat) /\ StreamOk(Tail(f), w, ea)
<1> DEFINE r == Tail(f)
<1>1. /\ r \in Seq(Nat) /\ Len(r) = Len(f) - 1 /\ DOMAIN r = 1..Len(r) /\ DOMAIN f = 1..Len(f)
      /\ Len(r) \in Nat /\ Len(f) \in Nat
  OBVIOUS
<1>4. \A i \in 1..Len(r) : r[i] = f[i + 1] /\ i + 1 \in 1..Len(f)
  OBVIOUS
<1> HIDE DEF r
<1>2. \A i \in DOMAIN r : r[i] <= w
  BY <1>1, <1>4 DEF StreamOk
<1>3. ASSUME NEW i \in DOMAIN r, NEW j \in DOMAIN r, i < j PROVE r[i] < r[j] \/ r[i] \in ea
  <2>1. i \in 1..Len(r) /\ j \in 1..Len(r) /\ i + 1 < j + 1
    BY <1>1, <1>3
  <2>2. i + 1 \in DOMAIN f /\ j + 1 \in DOMAIN f /\ r[i] = f[i + 1] /\ r[j] = f[j + 1]
    BY <1>1, <1>4, <2>1
  <2>3. f[i + 1] < f[j + 1] \/ f[i + 1] \in ea
    BY <2>1, <2>2 DEF StreamOk
  <2> QED BY <2>2, <2>3
<1> QED BY <1>1, <1>2, <1>3 DEF StreamOk, r

(* The next buffer comes last, or is one that may overtake. *)
LEMMA StreamInsert ==
  ASSUME NEW a \in Seq(Nat), NEW b \in Seq(Nat), NEW w \in Nat, NEW ea, NEW ea2,
         StreamOk(a \o b, w, ea), ea \subseteq ea2, b = <<>> \/ w + 1 \in ea2
  PROVE  StreamOk(a \o (<<w + 1>> \o b), w + 1, ea2)
<1> DEFINE f == a \o b
           r == a \o (<<w + 1>> \o b)
           m == Len(a)
<1>1. /\ m \in Nat /\ Len(b) \in Nat /\ Len(f) = m + Len(b) /\ Len(r) = m + 1 + Len(b)
      /\ f \in Seq(Nat) /\ r \in Seq(Nat) /\ DOMAIN r = 1..Len(r) /\ DOMAIN f = 1..Len(f)
  OBVIOUS
<1>2. \A i \in 1..m : i \in DOMAIN f /\ r[i] = f[i]
  OBVIOUS
<1>3. r[m + 1] = w + 1
  OBVIOUS
<1>4. \A i \in (m + 2)..Len(r) : i - 1 \in DOMAIN f /\ r[i] = f[i - 1]
  <2>1. ASSUME NEW i \in (m + 2)..Len(r) PROVE i - 1 \in DOMAIN f /\ r[i] = f[i - 1]
    <3>1. i - 1 \in DOMAIN f /\ f[i - 1] = b[i - 1 - m]
      BY <1>1
    <3>2. r[i] = (<<w + 1>> \o b)[i - m]
      BY <1>1
    <3>3. (<<w + 1>> \o b)[i - m] = b[i - m - 1]
      BY <1>1
    <3> QED BY <1>1, <3>1, <3>2, <3>3
  <2> QED BY <2>1
<1>5. \A i \in DOMAIN f : f[i] \in Nat /\ f[i] <= w
  BY <1>1 DEF StreamOk
<1>6. \A i, j \in DOMAIN f : i < j => f[i] < f[j] \/ f[i] \in ea2
  BY DEF StreamOk
<1>7. Len(r) > m + 1 => w + 1 \in ea2
  BY <1>1
<1> HIDE DEF f, r, m
<1>8. \A i \in DOMAIN r : i \in 1..m \/ i = m + 1 \/ i \in (m + 2)..Len(r)
  BY <1>1
<1>9. \A i \in DOMAIN r : r[i] <= w + 1
  BY <1>2, <1>3, <1>4, <1>5, <1>8
<1>10. ASSUME NEW i \in DOMAIN r, NEW j \in DOMAIN r, i < j PROVE r[i] < r[j] \/ r[i] \in ea2
  <2>1. CASE i = m + 1
    <3>1. Len(r) > m + 1
      BY <1>1, <1>10, <2>1
    <3> QED BY <1>3, <1>7, <2>1, <3>1
  <2>2. CASE j = m + 1
    <3>1. i \in 1..m
      BY <1>1, <1>10, <2>2
    <3> QED BY <1>2, <1>3, <1>5, <2>2, <3>1
  <2>3. CASE i # m + 1 /\ j # m + 1
    <3> DEFINE x == IF i <= m THEN i ELSE i - 1
               y == IF j <= m THEN j ELSE j - 1
    <3>1. x \in DOMAIN f /\ r[i] = f[x]
      <4>1. CASE i \in 1..m
        BY <1>1, <1>2, <4>1
      <4>2. CASE i \in (m + 2)..Len(r)
        <5>1. ~(i <= m)
          BY <1>1, <4>2
        <5> QED BY <1>4, <4>2, <5>1
      <4> QED BY <1>8, <2>3, <4>1, <4>2
    <3>2. y \in DOMAIN f /\ r[j] = f[y]
      <4>1. CASE j \in 1..m
        BY <1>1, <1>2, <4>1
      <4>2. CASE j \in (m + 2)..Len(r)
        <5>1. ~(j <= m)
          BY <1>1, <4>2
        <5> QED BY <1>4, <4>2, <5>1
      <4> QED BY <1>8, <2>3, <4>1, <4>2
    <3>3. x < y
      <4>1. i \in Nat /\ j \in Nat /\ m \in Nat
        BY <1>1
      <4> QED BY <1>10, <2>3, <4>1
    <3> QED BY <1>6, <3>1, <3>2, <3>3
  <2> QED BY <2>1, <2>2, <2>3
<1> QED BY <1>9, <1>10 DEF StreamOk, r

LEMMA Joins ==
  ASSUME NEW S
  PROVE  /\ \A c, d \in Seq(S) : /\ c \o d \in Seq(S) /\ Len(c \o d) = Len(c) + Len(d)
                                 /\ <<>> \o c = c /\ c \o <<>> = c /\ Len(c) \in Nat
         /\ \A c, d, x \in Seq(S) : c \o (d \o x) = (c \o d) \o x
         /\ \A c, d \in Seq(S) : c # <<>> => c \o d # <<>> /\ Tail(c \o d) = Tail(c) \o d
                                             /\ Head(c \o d) = Head(c) /\ Tail(c) \in Seq(S)
                                             /\ Head(c) \in S
<1>1. \A c, d \in Seq(S) : /\ c \o d \in Seq(S) /\ Len(c \o d) = Len(c) + Len(d)
                           /\ <<>> \o c = c /\ c \o <<>> = c /\ Len(c) \in Nat
  OBVIOUS
<1>2. \A c, d, x \in Seq(S) : c \o (d \o x) = (c \o d) \o x
  BY ConcatAssociative
<1>3. ASSUME NEW c \in Seq(S), NEW d \in Seq(S), c # <<>>
      PROVE  c \o d # <<>> /\ Tail(c \o d) = Tail(c) \o d /\ Head(c \o d) = Head(c)
             /\ Tail(c) \in Seq(S) /\ Head(c) \in S
  <2>1. /\ Len(c) \in Nat /\ Len(c) > 0 /\ Len(d) \in Nat /\ Tail(c) \in Seq(S)
        /\ Len(Tail(c)) = Len(c) - 1 /\ Head(c) \in S /\ Head(c) = c[1]
        /\ \A j \in 1..(Len(c) - 1) : Tail(c)[j] = c[j + 1]
    BY <1>3
  <2>2. /\ c \o d \in Seq(S) /\ Len(c \o d) = Len(c) + Len(d)
        /\ \A j \in 1..(Len(c) + Len(d)) : (c \o d)[j] = IF j <= Len(c) THEN c[j] ELSE d[j - Len(c)]
    OBVIOUS
  <2>3. /\ c \o d # <<>> /\ Head(c \o d) = c[1] /\ Tail(c \o d) \in Seq(S)
        /\ Len(Tail(c \o d)) = Len(c) + Len(d) - 1
        /\ \A j \in 1..(Len(c) + Len(d) - 1) : Tail(c \o d)[j] = (c \o d)[j + 1]
    BY <2>1, <2>2
  <2>4. /\ Tail(c) \o d \in Seq(S) /\ Len(Tail(c) \o d) = Len(c) + Len(d) - 1
        /\ \A j \in 1..(Len(c) + Len(d) - 1) :
             (Tail(c) \o d)[j] = IF j <= Len(c) - 1 THEN Tail(c)[j] ELSE d[j - (Len(c) - 1)]
    BY <2>1
  <2>5. \A j \in 1..(Len(c) + Len(d) - 1) : Tail(c \o d)[j] = (Tail(c) \o d)[j]
    BY <2>1, <2>2, <2>3, <2>4
  <2>6. \A y, z \in Seq(S) : Len(y) = Len(z) /\ (\A j \in 1..Len(y) : y[j] = z[j]) => y = z
    OBVIOUS
  <2> QED BY <2>1, <2>3, <2>4, <2>5, <2>6
<1> QED BY <1>1, <1>2, <1>3

(* Between the ports q and o: in is on its way to q, out to o, and q's and o's *)
(* applications have written w and wo buffers.                                 *)
Balance(credit_tx, in, out, rx, credit_rx) ==
  credit_tx + Owed(in) + Len(Bufs(out)) + Len(rx) = credit_rx

FlowInv(q, o, in, out, w, wo, ea, eo) ==
  /\ Balance(q.credit_tx, in, out, o.rx, o.credit_rx)
  /\ Balance(o.credit_tx, out, in, q.rx, q.credit_rx)
  /\ StreamOk(o.rx \o (Bufs(out) \o q.tx), w, ea)
  /\ StreamOk(q.rx \o (Bufs(in) \o o.tx), wo, eo)

(* q may become u when it takes the frames i from its input and sends g. *)
Conserves(q, u, i, g, w, w2, ea, ea2) ==
  \A o \in Port, in \in Seq(Frames), out \in Seq(Frames), wo \in Nat, eo \in SUBSET Nat :
    FlowInv(q, o, i \o in, out, w, wo, ea, eo) => FlowInv(u, o, in, out \o g, w2, wo, ea2, eo)

LEMMA PortFields ==
  ASSUME NEW q \in Port
  PROVE  /\ q.credit_tx \in Nat /\ q.credit_rx \in Nat /\ q.credit_rx <= credit_rx_max
         /\ q.tx \in Seq(Buffers) /\ q.rx \in Seq(Buffers)
         /\ q.tx \in Seq(Nat) /\ q.rx \in Seq(Nat)
         /\ Len(q.tx) \in Nat /\ Len(q.rx) \in Nat
         /\ Buffers \subseteq Nat
<1>1. credit_rx_max \in Nat /\ Buffers \subseteq Nat
  BY Constants DEF Buffers
<1>2. q.credit_tx \in Nat /\ q.credit_rx \in 0..credit_rx_max /\ q.tx \in Seq(Buffers)
      /\ q.rx \in Seq(Buffers)
  BY DEF Port
<1>3. \A x \in Seq(Buffers) : x \in Seq(Nat) /\ Len(x) \in Nat
  <2>1. ASSUME NEW x \in Seq(Buffers) PROVE x \in Seq(Nat) /\ Len(x) \in Nat
    <3>1. Len(x) \in Nat /\ x = [j \in 1..Len(x) |-> x[j]] /\ \A j \in 1..Len(x) : x[j] \in Buffers
      OBVIOUS
    <3>2. \A j \in 1..Len(x) : x[j] \in Nat
      BY <1>1, <3>1
    <3> QED BY <3>1, <3>2
  <2> QED BY <2>1
<1> QED BY <1>1, <1>2, <1>3

(* Its credits, what the peer may send it, its output and its input add up. *)
Spends(q, u, i, g) == u.credit_tx + Len(Bufs(g)) = q.credit_tx + Owed(i)

Lends(q, u, i, g) ==
  Len(Bufs(i)) + Len(q.rx) <= q.credit_rx =>
    u.credit_rx + (Len(Bufs(i)) + Len(q.rx)) = q.credit_rx + Owed(g) + Len(u.rx)

Emits(tx, tx2, g, w, w2, ea, ea2) ==
  \A a \in Seq(Nat) : StreamOk(a \o tx, w, ea) => StreamOk(a \o (Bufs(g) \o tx2), w2, ea2)

Takes(rx, rx2, i) ==
  \/ rx2 = rx \o Bufs(i)
  \/ Bufs(i) = <<>> /\ rx # <<>> /\ rx2 = Tail(rx)

LEMMA Assoc == \A c, d, x \in Seq(Nat) : c \o (d \o x) = (c \o d) \o x
  BY SMTT(30)

LEMMA NatJoins ==
  /\ \A c, d, x \in Seq(Nat) : c \o (d \o x) = (c \o d) \o x
  /\ \A c, d \in Seq(Nat) : c \o d \in Seq(Nat) /\ Len(c \o d) = Len(c) + Len(d)
  /\ \A c \in Seq(Nat) : <<>> \o c = c /\ c \o <<>> = c /\ Len(c) \in Nat
  /\ \A c, d \in Seq(Nat) : c # <<>> => /\ c \o d # <<>> /\ Tail(c \o d) = Tail(c) \o d
                                        /\ Tail(c) \in Seq(Nat)
<1>1. \A c, d \in Seq(Nat) : /\ c \o d \in Seq(Nat) /\ Len(c \o d) = Len(c) + Len(d)
                             /\ <<>> \o c = c /\ c \o <<>> = c /\ Len(c) \in Nat
  BY Joins, Zenon
<1>2. ASSUME NEW c \in Seq(Nat), NEW d \in Seq(Nat), c # <<>>
      PROVE  c \o d # <<>> /\ Tail(c \o d) = Tail(c) \o d /\ Tail(c) \in Seq(Nat)
  BY <1>2, Joins
<1> QED BY Assoc, <1>1, <1>2, Zenon

LEMMA CatNat == \A c, d \in Seq(Nat) : c \o d \in Seq(Nat)
OBVIOUS

Regroups(a, b, c, d) == a \o ((b \o c) \o d) = (a \o b) \o (c \o d)

LEMMA CatFour == \A a, b, c, d \in Seq(Nat) : Regroups(a, b, c, d)
<1>1. ASSUME NEW a \in Seq(Nat), NEW b \in Seq(Nat), NEW c \in Seq(Nat), NEW d \in Seq(Nat)
      PROVE  Regroups(a, b, c, d)
  <2>1. (b \o c) \o d = b \o (c \o d)
    BY Assoc, Zenon
  <2>2. c \o d \in Seq(Nat)
    BY CatNat, Zenon
  <2> DEFINE z == c \o d
  <2> HIDE DEF z
  <2>3. a \o (b \o z) = (a \o b) \o z
    BY <2>2, Assoc, Zenon DEF z
  <2> QED BY <2>1, <2>3, Zenon DEF z, Regroups
<1> QED BY <1>1, Zenon

LEMMA Buffered == \A x \in Seq(Buffers) : x \in Seq(Nat) /\ Len(x) \in Nat
<1>1. Buffers \subseteq Nat
  BY DEF Buffers
<1>2. ASSUME NEW x \in Seq(Buffers) PROVE x \in Seq(Nat) /\ Len(x) \in Nat
  <2>1. Len(x) \in Nat /\ x = [j \in 1..Len(x) |-> x[j]] /\ \A j \in 1..Len(x) : x[j] \in Buffers
    OBVIOUS
  <2>2. \A j \in 1..Len(x) : x[j] \in Nat
    BY <1>1, <2>1
  <2> QED BY <2>1, <2>2
<1> QED BY <1>2

LEMMA BalanceOut ==
  ASSUME NEW c \in Nat, NEW c2 \in Nat, NEW n \in Nat, NEW rx \in Seq(Nat),
         NEW i \in Seq(Frames), NEW in \in Seq(Frames), NEW g \in Seq(Frames), NEW out \in Seq(Frames),
         Balance(c, i \o in, out, rx, n), c2 + Len(Bufs(g)) = c + Owed(i)
  PROVE  Balance(c2, in, out \o g, rx, n)
<1> DEFINE oi == Owed(i)
           oin == Owed(in)
           bg == Bufs(g)
           bout == Bufs(out)
<1>1. /\ oi \in Nat /\ oin \in Nat /\ Owed(i \o in) = oi + oin
      /\ bg \in Seq(Buffers) /\ bout \in Seq(Buffers) /\ Bufs(out \o g) = bout \o bg
  BY FlowSplit
<1> HIDE DEF bg, bout, oi, oin
<1> DEFINE ng == Len(bg)
           nout == Len(bout)
           m == Len(rx)
<1>2. ng \in Nat /\ nout \in Nat /\ m \in Nat /\ Len(bout \o bg) = nout + ng
  BY <1>1
<1>3. c + (oi + oin) + nout + m = n /\ c2 + ng = c + oi
  BY <1>1 DEF Balance, bg, bout, oi
<1> HIDE DEF ng, nout, m
<1>4. c2 + oin + (nout + ng) + m = n
  BY <1>1, <1>2, <1>3
<1> QED BY <1>1, <1>2, <1>4 DEF Balance, m, oin

LEMMA BalanceIn ==
  ASSUME NEW c \in Nat, NEW n \in Nat, NEW n2 \in Nat, NEW rx \in Seq(Nat), NEW rx2 \in Seq(Nat),
         NEW i \in Seq(Frames), NEW in \in Seq(Frames), NEW g \in Seq(Frames), NEW out \in Seq(Frames),
         Balance(c, out, i \o in, rx, n),
         Len(Bufs(i)) + Len(rx) <= n =>
           n2 + (Len(Bufs(i)) + Len(rx)) = n + Owed(g) + Len(rx2)
  PROVE  Balance(c, out \o g, in, rx2, n2)
<1> DEFINE og == Owed(g)
           oout == Owed(out)
           bi == Bufs(i)
           bin == Bufs(in)
<1>1. /\ og \in Nat /\ oout \in Nat /\ Owed(out \o g) = oout + og
      /\ bi \in Seq(Buffers) /\ bin \in Seq(Buffers) /\ Bufs(i \o in) = bi \o bin
  BY FlowSplit
<1> HIDE DEF og, oout, bi, bin
<1> DEFINE ni == Len(bi)
           nin == Len(bin)
           m == Len(rx)
           m2 == Len(rx2)
<1>2. ni \in Nat /\ nin \in Nat /\ m \in Nat /\ m2 \in Nat /\ Len(bi \o bin) = ni + nin
  BY <1>1
<1>3. c + oout + (ni + nin) + m = n /\ (ni + m <= n => n2 + (ni + m) = n + og + m2)
  BY <1>1, <1>2 DEF Balance, bi, oout, og
<1> HIDE DEF ni, nin, m, m2
<1>4. c + (oout + og) + nin + m2 = n2
  BY <1>1, <1>2, <1>3
<1> QED BY <1>1, <1>2, <1>4 DEF Balance, m2, nin, bin

LEMMA StreamOut ==
  ASSUME NEW a \in Seq(Nat), NEW tx \in Seq(Nat), NEW tx2 \in Seq(Nat),
         NEW g \in Seq(Frames), NEW out \in Seq(Frames), NEW w, NEW w2, NEW ea, NEW ea2,
         StreamOk(a \o (Bufs(out) \o tx), w, ea), Emits(tx, tx2, g, w, w2, ea, ea2)
  PROVE  StreamOk(a \o (Bufs(out \o g) \o tx2), w2, ea2)
<1> DEFINE bg == Bufs(g)
           bout == Bufs(out)
<1>1. bg \in Seq(Nat) /\ bout \in Seq(Nat) /\ Bufs(out \o g) = bout \o bg
  BY Buffered, FlowSplit
<1> HIDE DEF bg, bout
<1>2. a \o (bout \o tx) = (a \o bout) \o tx
  BY <1>1, Assoc, Zenon
<1>5. a \o bout \in Seq(Nat)
  BY <1>1, CatNat, Zenon
<1>3. StreamOk((a \o bout) \o (bg \o tx2), w2, ea2)
  BY <1>2, <1>5 DEF Emits, bg, bout
<1>6. bg \in Seq(Nat) /\ bout \in Seq(Nat)
  BY <1>1
<1>7. Regroups(a, bout, bg, tx2)
  BY <1>6, CatFour, Zenon
<1>4. a \o ((bout \o bg) \o tx2) = (a \o bout) \o (bg \o tx2)
  BY <1>7, Zenon DEF Regroups
<1> QED BY <1>1, <1>3, <1>4

LEMMA StreamIn ==
  ASSUME NEW rx \in Seq(Nat), NEW rx2 \in Seq(Nat), NEW tx \in Seq(Nat),
         NEW i \in Seq(Frames), NEW in \in Seq(Frames), NEW w \in Nat, NEW ea,
         StreamOk(rx \o (Bufs(i \o in) \o tx), w, ea),
         Takes(rx, rx2, i)
  PROVE  StreamOk(rx2 \o (Bufs(in) \o tx), w, ea)
<1> DEFINE bi == Bufs(i)
           bin == Bufs(in)
<1>1. bi \in Seq(Nat) /\ bin \in Seq(Nat) /\ Bufs(i \o in) = bi \o bin
  BY Buffered, FlowSplit
<1>2. StreamOk(rx \o ((bi \o bin) \o tx), w, ea)
  BY <1>1
<1>3. rx2 = rx \o bi \/ (bi = <<>> /\ rx # <<>> /\ rx2 = Tail(rx))
  BY DEF Takes
<1> HIDE DEF bi, bin
<1>4. CASE rx2 = rx \o bi
  <2>2. bi \in Seq(Nat) /\ bin \in Seq(Nat)
    BY <1>1
  <2>3. Regroups(rx, bi, bin, tx)
    BY <2>2, CatFour, Zenon
  <2>1. rx \o ((bi \o bin) \o tx) = (rx \o bi) \o (bin \o tx)
    BY <2>3, Zenon DEF Regroups
  <2> QED BY <1>2, <1>4, <2>1 DEF bin
<1>5. CASE bi = <<>> /\ rx # <<>> /\ rx2 = Tail(rx)
  <2>1. (bi \o bin) \o tx = bin \o tx /\ bin \o tx \in Seq(Nat)
    BY <1>1, <1>5
  <2> DEFINE z == bin \o tx
  <2>2. z \in Seq(Nat) /\ StreamOk(rx \o z, w, ea)
    BY <1>2, <2>1
  <2> HIDE DEF z
  <2>3. rx \o z \in Seq(Nat) /\ rx \o z # <<>> /\ Tail(rx \o z) = Tail(rx) \o z
    BY <1>5, <2>2, NatJoins
  <2>4. StreamOk(Tail(rx \o z), w, ea)
    BY <2>2, <2>3, StreamTail
  <2> QED BY <1>5, <2>3, <2>4 DEF z, bin
<1> QED BY <1>3, <1>4, <1>5

LEMMA ConservesBy ==
  ASSUME NEW q \in Port, NEW u \in Port, NEW i \in Seq(Frames), NEW g \in Seq(Frames),
         NEW w, NEW w2, NEW ea, NEW ea2,
         Spends(q, u, i, g), Lends(q, u, i, g), Emits(q.tx, u.tx, g, w, w2, ea, ea2), Takes(q.rx, u.rx, i)
  PROVE  Conserves(q, u, i, g, w, w2, ea, ea2)
<1> SUFFICES ASSUME NEW o \in Port, NEW in \in Seq(Frames), NEW out \in Seq(Frames),
                    NEW wo \in Nat, NEW eo \in SUBSET Nat,
                    FlowInv(q, o, i \o in, out, w, wo, ea, eo)
             PROVE  FlowInv(u, o, in, out \o g, w2, wo, ea2, eo)
  BY DEF Conserves
<1>1. /\ q.credit_tx \in Nat /\ u.credit_tx \in Nat /\ o.credit_tx \in Nat
      /\ q.credit_rx \in Nat /\ u.credit_rx \in Nat /\ o.credit_rx \in Nat
      /\ q.tx \in Seq(Nat) /\ u.tx \in Seq(Nat) /\ o.tx \in Seq(Nat)
      /\ q.rx \in Seq(Nat) /\ u.rx \in Seq(Nat) /\ o.rx \in Seq(Nat)
  BY PortFields
<1>2. Balance(u.credit_tx, in, out \o g, o.rx, o.credit_rx)
  BY <1>1, BalanceOut DEF FlowInv, Spends
<1>3. Balance(o.credit_tx, out \o g, in, u.rx, u.credit_rx)
  BY <1>1, BalanceIn DEF FlowInv, Lends
<1>4. StreamOk(o.rx \o (Bufs(out \o g) \o u.tx), w2, ea2)
  BY <1>1, StreamOut DEF FlowInv
<1>5. StreamOk(u.rx \o (Bufs(in) \o o.tx), wo, eo)
  BY <1>1, StreamIn DEF FlowInv
<1> QED BY <1>2, <1>3, <1>4, <1>5 DEF FlowInv

-----------------------------------------------------------------------------
(* What the handlers do to the flow *)

LEMMA ConservesThen ==
  ASSUME NEW q, NEW u, NEW v, NEW i \in Seq(Frames), NEW g \in Seq(Frames), NEW h \in Seq(Frames),
         NEW w, NEW w2, NEW ea, NEW ea2,
         Conserves(q, u, i, g, w, w2, ea, ea2), Conserves(u, v, <<>>, h, w2, w2, ea2, ea2)
  PROVE  Conserves(q, v, i, g \o h, w, w2, ea, ea2)
<1> SUFFICES ASSUME NEW o \in Port, NEW in \in Seq(Frames), NEW out \in Seq(Frames),
                    NEW wo \in Nat, NEW eo \in SUBSET Nat,
                    FlowInv(q, o, i \o in, out, w, wo, ea, eo)
             PROVE  FlowInv(v, o, in, out \o (g \o h), w2, wo, ea2, eo)
  BY DEF Conserves
<1>1. FlowInv(u, o, in, out \o g, w2, wo, ea2, eo)
  BY DEF Conserves
<1>2. <<>> \o in = in /\ out \o g \in Seq(Frames)
  OBVIOUS
<1>3. (out \o g) \o h = out \o (g \o h)
  OBVIOUS
<1>4. FlowInv(u, o, <<>> \o in, out \o g, w2, wo, ea2, eo)
  BY <1>1, <1>2
<1>5. FlowInv(v, o, in, (out \o g) \o h, w2, wo, ea2, eo)
  BY <1>2, <1>4 DEF Conserves
<1> QED BY <1>3, <1>5

(* The same flow, with a frame that carries none of it. *)
SameFlow(q, u) ==
  u.credit_tx = q.credit_tx /\ u.credit_rx = q.credit_rx /\ u.tx = q.tx /\ u.rx = q.rx

LEMMA FlowSame ==
  ASSUME NEW q \in Port, NEW u \in Port, SameFlow(q, u), NEW i \in Seq(Frames), NEW g \in Seq(Frames),
         Free(i, {"DATA", "CREDIT"}), Free(g, {"DATA", "CREDIT"}), NEW w, NEW ea
  PROVE  Conserves(q, u, i, g, w, w, ea, ea)
<1>1. Owed(i) = 0 /\ Bufs(i) = <<>> /\ Owed(g) = 0 /\ Bufs(g) = <<>>
  BY FlowNone
<1>2. q.credit_tx \in Nat /\ q.credit_rx \in Nat /\ q.tx \in Seq(Nat) /\ q.rx \in Seq(Nat)
      /\ Len(q.rx) \in Nat
  BY PortFields
<1>3. Spends(q, u, i, g)
  BY <1>1, <1>2 DEF Spends, SameFlow
<1>4. Lends(q, u, i, g)
  BY <1>1, <1>2 DEF Lends, SameFlow
<1>5. Emits(q.tx, u.tx, g, w, w, ea, ea)
  BY <1>1, <1>2 DEF Emits, SameFlow
<1>6. Takes(q.rx, u.rx, i)
  BY <1>1, <1>2 DEF Takes, SameFlow
<1> QED BY <1>3, <1>4, <1>5, <1>6, ConservesBy

LEMMA AppendCat ==
  ASSUME NEW a \in Seq(Nat), NEW t \in Seq(Nat), NEW n \in Nat
  PROVE  a \o Append(t, n) = (a \o t) \o (<<n>> \o <<>>)
<1>1. Append(t, n) = t \o <<n>> /\ <<n>> \o <<>> = <<n>> /\ <<n>> \in Seq(Nat)
  OBVIOUS
<1>2. a \o (t \o <<n>>) = (a \o t) \o <<n>>
  BY <1>1, Assoc, Zenon
<1> QED BY <1>1, <1>2

(* A buffer is queued behind the others. *)
LEMMA FlowQueue ==
  ASSUME NEW q \in Port, NEW u \in Port, NEW w \in Nat, NEW ea, NEW ea2, ea \subseteq ea2,
         u.credit_tx = q.credit_tx, u.credit_rx = q.credit_rx, u.rx = q.rx,
         u.tx = Append(q.tx, w + 1)
  PROVE  /\ Conserves(q, u, <<>>, <<>>, w, w + 1, ea, ea2)
         /\ StreamOk(q.tx, w, ea) => StreamOk(u.tx, w + 1, ea2)
<1>1. <<>> \in Seq(Frames) /\ Owed(<<>>) = 0 /\ Bufs(<<>>) = <<>>
  BY FlowEmpty
<1>2. q.credit_tx \in Nat /\ q.credit_rx \in Nat /\ q.tx \in Seq(Nat) /\ q.rx \in Seq(Nat)
      /\ Len(q.rx) \in Nat
  BY PortFields
<1>3. Spends(q, u, <<>>, <<>>)
  BY <1>1, <1>2 DEF Spends
<1>4. Lends(q, u, <<>>, <<>>)
  BY <1>1, <1>2 DEF Lends
<1>5. Takes(q.rx, u.rx, <<>>)
  BY <1>1, <1>2 DEF Takes
<1>6. ASSUME NEW a \in Seq(Nat), StreamOk(a \o q.tx, w, ea)
      PROVE  StreamOk(a \o u.tx, w + 1, ea2)
  <2> DEFINE c == a \o q.tx
  <2>1. c \in Seq(Nat) /\ c \o <<>> = c
    BY <1>2
  <2>6. w + 1 \in Nat /\ q.tx \in Seq(Nat)
    BY <1>2
  <2>2. a \o Append(q.tx, w + 1) = c \o (<<w + 1>> \o <<>>)
    BY <2>6, AppendCat, Zenon
  <2> HIDE DEF c
  <2>3. StreamOk(c \o <<>>, w, ea)
    BY <1>6, <2>1 DEF c
  <2>4. <<>> \in Seq(Nat)
    OBVIOUS
  <2> DEFINE b == <<>>
  <2>5. StreamOk(c \o (<<w + 1>> \o b), w + 1, ea2)
    BY <2>1, <2>3, <2>4, StreamInsert
  <2> QED BY <2>2, <2>5
<1>7. Emits(q.tx, u.tx, <<>>, w, w + 1, ea, ea2)
  <2>1. <<>> \o u.tx = u.tx
    BY PortFields
  <2> QED BY <1>1, <1>6, <2>1 DEF Emits
<1>8. StreamOk(q.tx, w, ea) => StreamOk(u.tx, w + 1, ea2)
  <2>1. <<>> \in Seq(Nat) /\ <<>> \o u.tx = u.tx /\ <<>> \o q.tx = q.tx
    BY <1>2, PortFields
  <2> QED BY <1>6, <2>1
<1> QED BY <1>1, <1>3, <1>4, <1>5, <1>7, <1>8, ConservesBy

(* A buffer is sent, with credits. *)
Spent(q, u, n) ==
  q.credit_tx > 0 /\ u.credit_tx = q.credit_tx - 1 /\ u.credit_rx = q.credit_rx + n /\ u.rx = q.rx

LEMMA DataFlow ==
  ASSUME NEW q \in Port, NEW u \in Port, NEW p \in Ports, NEW n \in 0..credit_rx_max, NEW d \in Buffers,
         Spent(q, u, n)
  PROVE  LET g == <<Data(p, n, d)>>
         IN /\ g \in Seq(Frames) /\ Bufs(g) = <<d>> /\ Owed(g) = n
            /\ Spends(q, u, <<>>, g) /\ Lends(q, u, <<>>, g) /\ Takes(q.rx, u.rx, <<>>)
<1> DEFINE f == Data(p, n, d)
           g == <<f>>
<1>1. f \in Frames /\ f.t = "DATA" /\ f.n = n /\ f.d = d
  BY FrameTypes DEF Data
<1> HIDE DEF f
<1>2. g \in Seq(Frames) /\ Bufs(g) = <<d>> /\ Owed(g) = n
  BY <1>1, FlowOne
<1>3. Owed(<<>>) = 0 /\ Bufs(<<>>) = <<>> /\ Len(<<d>>) = 1
  BY FlowEmpty
<1>4. q.credit_tx \in Nat /\ q.credit_rx \in Nat /\ q.rx \in Seq(Nat) /\ Len(q.rx) \in Nat /\ n \in Nat
  BY PortFields, Constants
<1> HIDE DEF g
<1>5. Spends(q, u, <<>>, g)
  BY <1>2, <1>3, <1>4 DEF Spends, Spent
<1>6. Lends(q, u, <<>>, g)
  <2> DEFINE m == Len(q.rx)
  <2>1. u.credit_rx = q.credit_rx + n /\ m \in Nat /\ Len(u.rx) = m /\ Len(Bufs(<<>>)) = 0
    BY <1>3, <1>4 DEF Spent
  <2> HIDE DEF m
  <2>2. u.credit_rx + (0 + m) = q.credit_rx + n + m
    BY <1>4, <2>1
  <2> QED BY <1>2, <2>1, <2>2 DEF Lends, m
<1>7. Takes(q.rx, u.rx, <<>>)
  BY <1>3, <1>4 DEF Takes, Spent
<1> QED BY <1>2, <1>5, <1>6, <1>7 DEF g, f

(* The first of the queue. *)
LEMMA FlowSend ==
  ASSUME NEW q \in Port, NEW u \in Port, NEW p \in Ports, NEW n \in 0..credit_rx_max,
         Spent(q, u, n), q.tx # <<>>, u.tx = Tail(q.tx), NEW w, NEW ea
  PROVE  /\ <<Data(p, n, Head(q.tx))>> \in Seq(Frames)
         /\ Conserves(q, u, <<>>, <<Data(p, n, Head(q.tx))>>, w, w, ea, ea)
<1> DEFINE d == Head(q.tx)
           g == <<Data(p, n, d)>>
<1>1. d \in Buffers /\ d \in Nat /\ q.tx \in Seq(Nat) /\ q.tx \in Seq(Buffers)
  BY PortFields
<1> HIDE DEF d
<1>2. g \in Seq(Frames) /\ Bufs(g) = <<d>>
      /\ Spends(q, u, <<>>, g) /\ Lends(q, u, <<>>, g) /\ Takes(q.rx, u.rx, <<>>)
  BY <1>1, DataFlow
<1> HIDE DEF g
<1>3. <<d>> \o u.tx = q.tx
  BY <1>1 DEF d
<1>4. Emits(q.tx, u.tx, g, w, w, ea, ea)
  BY <1>2, <1>3 DEF Emits
<1>5. <<>> \in Seq(Frames)
  OBVIOUS
<1>6. Conserves(q, u, <<>>, g, w, w, ea, ea)
  BY <1>2, <1>4, <1>5, ConservesBy
<1> QED BY <1>2, <1>6 DEF g, d

(* A buffer is sent at once; it overtakes none, or may do so. *)
LEMMA FlowDirect ==
  ASSUME NEW q \in Port, NEW u \in Port, NEW p \in Ports, NEW n \in 0..credit_rx_max,
         Spent(q, u, n), u.tx = q.tx, NEW w \in Nat, w + 1 \in Buffers, NEW ea, NEW ea2,
         ea \subseteq ea2, q.tx = <<>> \/ w + 1 \in ea2
  PROVE  Conserves(q, u, <<>>, <<Data(p, n, w + 1)>>, w, w + 1, ea, ea2)
<1> DEFINE d == w + 1
           g == <<Data(p, n, d)>>
<1>1. q.tx \in Seq(Nat)
  BY PortFields
<1>2. g \in Seq(Frames) /\ Bufs(g) = <<d>>
      /\ Spends(q, u, <<>>, g) /\ Lends(q, u, <<>>, g) /\ Takes(q.rx, u.rx, <<>>)
  BY DataFlow
<1> HIDE DEF g
<1>3. \A a \in Seq(Nat) : StreamOk(a \o q.tx, w, ea) => StreamOk(a \o (<<w + 1>> \o q.tx), w + 1, ea2)
  BY <1>1, StreamInsert
<1>4. Emits(q.tx, u.tx, g, w, w + 1, ea, ea2)
  BY <1>2, <1>3 DEF Emits
<1>5. <<>> \in Seq(Frames)
  OBVIOUS
<1>6. Conserves(q, u, <<>>, g, w, w + 1, ea, ea2)
  BY <1>2, <1>4, <1>5, ConservesBy
<1> QED BY <1>6 DEF g

LEMMA EmitsNone ==
  ASSUME NEW t \in Seq(Nat), NEW g, Bufs(g) = <<>>, NEW w, NEW ea
  PROVE  Emits(t, t, g, w, w, ea, ea)
<1>1. <<>> \o t = t
  OBVIOUS
<1> QED BY <1>1 DEF Emits

LEMMA TailLength == \A t \in Seq(Nat) : t # <<>> => 1 <= Len(t) /\ Len(Tail(t)) = Len(t) - 1
OBVIOUS

(* Buffers are read, and the peer may be granted credits for them. *)
LEMMA FlowRead ==
  ASSUME NEW q \in Port, NEW u \in Port, NEW p \in Ports,
         u.credit_tx = q.credit_tx, u.tx = q.tx, NEW m \in {0, 1},
         IF m = 0 THEN u.rx = q.rx ELSE q.rx # <<>> /\ u.rx = Tail(q.rx),
         NEW w, NEW ea
  PROVE  LET left == q.credit_rx - Least(m, q.credit_rx)
             g == <<Credits("CREDIT", p, credit_rx_max - left)>>
         IN /\ u.credit_rx = left => Conserves(q, u, <<>>, <<>>, w, w, ea, ea)
            /\ u.credit_rx = credit_rx_max => Conserves(q, u, <<>>, g, w, w, ea, ea)
<1> DEFINE left == q.credit_rx - Least(m, q.credit_rx)
           f == Credits("CREDIT", p, credit_rx_max - left)
           g == <<f>>
           n == Len(q.rx)
           n2 == Len(u.rx)
<1>1. /\ q.credit_tx \in Nat /\ q.credit_rx \in Nat /\ q.credit_rx <= credit_rx_max
      /\ q.tx \in Seq(Nat) /\ q.rx \in Seq(Nat) /\ n \in Nat /\ n2 \in Nat /\ credit_rx_max \in Nat
  BY PortFields, Constants
<1>2. n2 = n - m /\ m <= n
  <2>1. CASE m = 0
    BY <1>1, <2>1
  <2>2. CASE m = 1
    <3>1. u.rx = Tail(q.rx) /\ q.rx # <<>> /\ q.rx \in Seq(Nat)
      BY <1>1, <2>2
    <3> QED BY <2>2, <3>1, TailLength
  <2> QED BY <2>1, <2>2
<1> HIDE DEF n, n2
<1>3. /\ left \in 0..credit_rx_max /\ credit_rx_max - left \in 0..credit_rx_max
      /\ n <= q.credit_rx => left + n = q.credit_rx + n2
  <2>1. left = IF m = 0 \/ q.credit_rx = 0 THEN q.credit_rx ELSE q.credit_rx - 1
    BY <1>1 DEF Least
  <2> HIDE DEF left
  <2>2. left \in 0..credit_rx_max
    BY <1>1, <2>1
  <2>3. n <= q.credit_rx => left + n = q.credit_rx + n2
    <3>1. CASE m = 0
      BY <1>1, <1>2, <2>1, <3>1
    <3>2. CASE m = 1
      <4>1. n2 = n - 1 /\ 1 <= n /\ left = IF q.credit_rx = 0 THEN q.credit_rx ELSE q.credit_rx - 1
        BY <1>2, <2>1, <3>2
      <4>2. n \in Nat /\ n2 \in Nat /\ q.credit_rx \in Nat
        BY <1>1
      <4> QED BY <4>1, <4>2
    <3> QED BY <3>1, <3>2
  <2> QED BY <1>1, <2>2, <2>3
<1>11. left \in Nat
  BY <1>1, <1>3
<1> HIDE DEF left
<1>4. f \in Frames /\ f.t = "CREDIT" /\ f.n = credit_rx_max - left
  BY <1>3, FrameTypes DEF Credits
<1> HIDE DEF f
<1>5. g \in Seq(Frames) /\ Owed(g) = credit_rx_max - left /\ Bufs(g) = <<>>
  BY <1>4, FlowOne
<1>6. <<>> \in Seq(Frames) /\ Owed(<<>>) = 0 /\ Bufs(<<>>) = <<>>
  BY FlowEmpty
<1> HIDE DEF g
<1>7. Takes(q.rx, u.rx, <<>>)
  BY <1>1, <1>6 DEF Takes
<1>8. /\ Spends(q, u, <<>>, <<>>) /\ Spends(q, u, <<>>, g)
      /\ Emits(q.tx, u.tx, <<>>, w, w, ea, ea) /\ Emits(q.tx, u.tx, g, w, w, ea, ea)
  <2>1. Spends(q, u, <<>>, <<>>) /\ Spends(q, u, <<>>, g)
    BY <1>1, <1>5, <1>6 DEF Spends
  <2>2. Emits(q.tx, q.tx, <<>>, w, w, ea, ea) /\ Emits(q.tx, q.tx, g, w, w, ea, ea)
    BY <1>1, <1>5, <1>6, EmitsNone
  <2> QED BY <2>1, <2>2
<1>9. ASSUME u.credit_rx = left PROVE Conserves(q, u, <<>>, <<>>, w, w, ea, ea)
  <2>1. 0 + n <= q.credit_rx => u.credit_rx + (0 + n) = q.credit_rx + 0 + n2
    BY <1>1, <1>3, <1>9
  <2>2. Lends(q, u, <<>>, <<>>)
    <3>1. Len(Bufs(<<>>)) = 0
      BY <1>6
    <3> QED BY <1>6, <2>1, <3>1 DEF Lends, n, n2
  <2> QED BY <1>6, <1>7, <1>8, <2>2, ConservesBy
<1>10. ASSUME u.credit_rx = credit_rx_max PROVE Conserves(q, u, <<>>, g, w, w, ea, ea)
  <2>1. 0 + n <= q.credit_rx => u.credit_rx + (0 + n) = q.credit_rx + (credit_rx_max - left) + n2
    <3>1. 0 + n <= q.credit_rx => left + n = q.credit_rx + n2
      BY <1>1, <1>3
    <3>2. n2 \in Nat /\ n \in Nat /\ q.credit_rx \in Nat /\ left \in Nat /\ credit_rx_max \in Nat
      BY <1>1, <1>11
    <3> QED BY <1>10, <3>1, <3>2
  <2>2. Lends(q, u, <<>>, g)
    <3>1. Len(Bufs(<<>>)) = 0
      BY <1>6
    <3> QED BY <1>5, <2>1, <3>1 DEF Lends, n, n2
  <2> QED BY <1>5, <1>6, <1>7, <1>8, <2>2, ConservesBy
<1> QED BY <1>9, <1>10 DEF left, g, f

(* Credits are received, alone or with a buffer that is stored. *)
LEMMA FlowReceive ==
  ASSUME NEW q \in Port, NEW u \in Port, NEW f \in Frames, f.t \in {"DATA", "CREDIT"},
         u.credit_tx = q.credit_tx + f.n, u.credit_rx = q.credit_rx, u.tx = q.tx,
         u.rx = IF f.t = "DATA" THEN Append(q.rx, f.d) ELSE q.rx, NEW w, NEW ea
  PROVE  Conserves(q, u, <<f>>, <<>>, w, w, ea, ea)
<1> DEFINE i == <<f>>
           n == Len(q.rx)
           n2 == Len(u.rx)
           b == Bufs(i)
           m == Len(b)
<1>1. /\ q.credit_tx \in Nat /\ q.credit_rx \in Nat /\ q.tx \in Seq(Nat) /\ q.rx \in Seq(Nat)
      /\ n \in Nat /\ n2 \in Nat
  BY PortFields
<1>2. /\ i \in Seq(Frames) /\ Owed(i) = f.n /\ f.n \in Nat /\ (f.t = "DATA" => f.d \in Nat)
      /\ b = IF f.t = "DATA" THEN <<f.d>> ELSE <<>>
  BY FlowOne, PortFields, Constants
<1>3. <<>> \in Seq(Frames) /\ Owed(<<>>) = 0 /\ Bufs(<<>>) = <<>>
  BY FlowEmpty
<1> HIDE DEF i, b
<1>4. u.rx = q.rx \o b
  <2>1. Append(q.rx, f.d) = q.rx \o <<f.d>> /\ q.rx \o <<>> = q.rx
    BY <1>1
  <2> QED BY <1>2, <2>1
<1>5. n2 = n + m /\ m \in Nat
  <2>1. CASE f.t = "DATA"
    BY <1>1, <1>2, <2>1
  <2>2. CASE f.t # "DATA"
    BY <1>1, <1>2, <2>2
  <2> QED BY <2>1, <2>2
<1> HIDE DEF n, n2, m
<1>6. Spends(q, u, i, <<>>)
  BY <1>1, <1>2, <1>3 DEF Spends
<1>7. Lends(q, u, i, <<>>)
  <2>1. u.credit_rx + (m + n) = q.credit_rx + 0 + n2
    BY <1>1, <1>5
  <2> QED BY <1>3, <2>1 DEF Lends, m, n, n2, b
<1>8. Emits(q.tx, u.tx, <<>>, w, w, ea, ea)
  BY <1>1, <1>3, EmitsNone
<1>9. Takes(q.rx, u.rx, i)
  BY <1>4 DEF Takes, b
<1> QED BY <1>2, <1>3, <1>6, <1>7, <1>8, <1>9, ConservesBy DEF i

(* The peer never sends more buffers than this end can store. *)
LEMMA FlowFull ==
  ASSUME NEW q \in Port, NEW u, NEW f \in Frames, f.t = "DATA", Len(q.rx) >= rx_buf_critical,
         NEW g, NEW w, NEW w2, NEW ea, NEW ea2
  PROVE  Conserves(q, u, <<f>>, g, w, w2, ea, ea2)
<1> SUFFICES ASSUME NEW o \in Port, NEW in \in Seq(Frames), NEW out \in Seq(Frames),
                    NEW wo, NEW eo, FlowInv(q, o, <<f>> \o in, out, w, wo, ea, eo)
             PROVE  FALSE
  BY DEF Conserves
<1> DEFINE i == <<f>>
           b == Bufs(i)
           c == Bufs(in)
           n == Len(q.rx)
           m == Len(c)
<1>1. Balance(o.credit_tx, out, i \o in, q.rx, q.credit_rx)
  BY DEF FlowInv
<1>2. i \in Seq(Frames) /\ b = <<f.d>> /\ f.d \in Nat
  BY FlowOne, PortFields
<1> HIDE DEF i
<1>3. Bufs(i \o in) = b \o c /\ c \in Seq(Buffers) /\ Owed(out) \in Nat
  BY <1>2, FlowSplit
<1> HIDE DEF b, c
<1>4. c \in Seq(Nat) /\ Len(b \o c) = 1 + m /\ m \in Nat
  <2>1. c \in Seq(Nat)
    BY <1>3, Buffered
  <2> QED BY <1>2, <2>1
<1>5. /\ q.credit_rx \in Nat /\ q.credit_rx <= credit_rx_max /\ n \in Nat /\ o.credit_tx \in Nat
      /\ credit_rx_max \in Nat /\ rx_buf_critical \in Nat /\ credit_rx_max <= rx_buf_critical
      /\ n >= rx_buf_critical
  BY PortFields, Constants
<1> HIDE DEF m, n
<1>6. o.credit_tx + Owed(out) + (1 + m) + n = q.credit_rx
  BY <1>1, <1>3, <1>4 DEF Balance, n
<1> DEFINE x == o.credit_tx
           y == Owed(out)
<1>7. x \in Nat /\ y \in Nat /\ x + y + (1 + m) + n = q.credit_rx
  BY <1>3, <1>5, <1>6
<1> HIDE DEF x, y
<1> QED BY <1>4, <1>5, <1>7

-----------------------------------------------------------------------------
(* The loop of port_rfc_send_tx_data and the flow *)

(* e becomes r when p sends g of its queue. *)
Sends(e, r, p, g) ==
  /\ g \in Seq(DataOf(p)) /\ Alters(e, r, p, r.port[p], g)
  /\ e.port[p].rfc # "OPENED" => g = <<>>
  /\ e.port[p].rfc = "OPENED" =>
       \A w, ea : Conserves(e.port[p], r.port[p], <<>>, g, w, w, ea, ea)

SendsSome(e, r, p) ==
  /\ SameMx(e, r) /\ ButData(e.port[p], r.port[p]) /\ Flows(r.port[p])
  /\ \E g : Sends(e, r, p, g)

LEMMA DataFrames ==
  ASSUME NEW p
  PROVE  /\ \A g \in Seq(DataOf(p)) : g \in Seq(Frames)
         /\ \A g, h \in Seq(DataOf(p)) : g \o h \in Seq(DataOf(p))
         /\ <<>> \in Seq(DataOf(p))
<1>1. DataOf(p) \subseteq Frames
  BY DEF DataOf
<1>2. ASSUME NEW g \in Seq(DataOf(p)) PROVE g \in Seq(Frames)
  <2>1. g = [j \in 1..Len(g) |-> g[j]] /\ Len(g) \in Nat /\ \A j \in 1..Len(g) : g[j] \in DataOf(p)
    OBVIOUS
  <2>2. \A j \in 1..Len(g) : g[j] \in Frames
    BY <1>1, <2>1
  <2> QED BY <2>1, <2>2
<1>3. ASSUME NEW g \in Seq(DataOf(p)), NEW h \in Seq(DataOf(p)) PROVE g \o h \in Seq(DataOf(p))
  OBVIOUS
<1> QED BY <1>2, <1>3

LEMMA SendsSomeThen ==
  ASSUME NEW e, NEW r, NEW t, NEW p \in Ports, Steady(e), SendsSome(e, r, p), SendsSome(r, t, p)
  PROVE  SendsSome(e, t, p)
<1> DEFINE q == e.port[p]
           u == r.port[p]
           v == t.port[p]
<1>1. PICK g : Sends(e, r, p, g)
  BY DEF SendsSome
<1>2. PICK h : Sends(r, t, p, h)
  BY DEF SendsSome
<1>3. /\ g \in Seq(DataOf(p)) /\ h \in Seq(DataOf(p)) /\ g \o h \in Seq(DataOf(p))
      /\ g \in Seq(Frames) /\ h \in Seq(Frames) /\ <<>> \in Seq(Frames)
  BY <1>1, <1>2, DataFrames DEF Sends
<1>4. Alters(e, t, p, v, g \o h)
  BY <1>1, <1>2, <1>3, AltersThen DEF Sends
<1>5. SameMx(e, t) /\ ButData(q, v) /\ Flows(v) /\ u.rfc = q.rfc
  BY DEF SendsSome, SameMx, ButData
<1>6. q.rfc # "OPENED" => g \o h = <<>>
  BY <1>1, <1>2, <1>5 DEF Sends
<1>7. ASSUME q.rfc = "OPENED", NEW w, NEW ea PROVE Conserves(q, v, <<>>, g \o h, w, w, ea, ea)
  <2>1. Conserves(q, u, <<>>, g, w, w, ea, ea) /\ Conserves(u, v, <<>>, h, w, w, ea, ea)
    BY <1>1, <1>2, <1>5, <1>7 DEF Sends
  <2> QED BY <1>3, <2>1, ConservesThen
<1>8. Sends(e, t, p, g \o h)
  BY <1>3, <1>4, <1>6, <1>7 DEF Sends
<1> QED BY <1>5, <1>8 DEF SendsSome

LEMMA SendsNone ==
  ASSUME NEW e, NEW p \in Ports, Steady(e), Flows(e.port[p])
  PROVE  SendsSome(e, e, p)
<1> DEFINE q == e.port[p]
<1>1. Alters(e, e, p, q, <<>>) /\ q \in Port
  BY AltersNot DEF Steady, Ends
<1>2. \A w, ea : Conserves(q, q, <<>>, <<>>, w, w, ea, ea)
  <2>1. Free(<<>>, {"DATA", "CREDIT"}) /\ <<>> \in Seq(Frames) /\ SameFlow(q, q)
    BY DEF Free, SameFlow
  <2> QED BY <1>1, <2>1, FlowSame
<1>3. Sends(e, e, p, <<>>)
  BY <1>1, <1>2, DataFrames DEF Sends
<1> QED BY <1>3 DEF SendsSome, SameMx, ButData

LEMMA SendNextSends ==
  ASSUME NEW e, NEW p \in Ports, Steady(e), Flows(e.port[p])
  PROVE  SendsSome(e, SendNext(e, p), p)
<1> DEFINE r == SendNext(e, p)
           o == e.port[p]
           q == [o EXCEPT !.tx = Tail(@)]
           d == Head(o.tx)
           n == Grant(q, d)
           u == AfterData(q, d)
           g == <<Data(p, n, d)>>
<1>1. o \in Port
  BY DEF Steady, Ends
<1>2. CASE ~MaySend(e, p) \/ o.tx = <<>>
  BY <1>2, SendNextActs, SendsNone
<1>3. CASE MaySend(e, p) /\ o.tx # <<>>
  <2>1. /\ q \in Port /\ d \in Buffers /\ SameMx(e, r)
        /\ q.rfc = "OPENED" => Alters(e, r, p, u, g)
        /\ q.rfc # "OPENED" => Alters(e, r, p, q, <<>>)
    BY <1>3, SendNextActs
  <2>2. /\ q.credit_tx = o.credit_tx /\ q.credit_rx = o.credit_rx /\ q.rx = o.rx
        /\ q.tx = Tail(o.tx) /\ q.peer_fc = o.peer_fc /\ ButData(o, q)
    BY <1>1 DEF Port, ButData
  <2>3. ~o.peer_fc /\ Flows(q)
    BY <1>3, <2>2 DEF MaySend, Flows
  <2> HIDE DEF r, o, q, d
  <2>4. CASE q.rfc = "OPENED"
    <3>1. /\ Flows(u) /\ q.credit_tx > 0 /\ u.credit_tx = q.credit_tx - 1
          /\ ButData(q, u) /\ u.tx = q.tx /\ u.credit_rx = q.credit_rx + n
      BY <2>1, <2>2, <2>3, AfterDataFlows, AfterDataFields
    <3>2. u \in Port /\ n \in 0..credit_rx_max
      BY <2>1, GrantType
    <3> HIDE DEF u, n
    <3>3. Spent(o, u, n) /\ u.tx = Tail(o.tx)
      BY <2>2, <3>1 DEF Spent, ButData
    <3>4. \A w, ea : Conserves(o, u, <<>>, g, w, w, ea, ea)
      BY <1>1, <1>3, <3>2, <3>3, FlowSend DEF d
    <3>5. g \in Seq(DataOf(p))
      <4>1. Data(p, n, d) \in DataOf(p)
        BY <2>1, <3>2, FrameTypes DEF DataOf, Data
      <4> QED BY <4>1
    <3>6. Alters(e, r, p, u, g)
      BY <2>1, <2>4 DEF u, n
    <3> HIDE DEF g
    <3>7. r.port[p] = u
      BY <3>6 DEF Alters, Steady, Ends
    <3>8. ButData(o, u)
      BY <2>2, <3>1 DEF ButData
    <3>9. o.rfc = "OPENED"
      BY <2>2, <2>4 DEF ButData
    <3>10. Sends(e, r, p, g)
      BY <3>4, <3>5, <3>6, <3>7, <3>9 DEF Sends, o
    <3> QED BY <2>1, <3>1, <3>7, <3>8, <3>10 DEF SendsSome, r, o
  <2>5. CASE q.rfc # "OPENED"
    <3>1. Alters(e, r, p, q, <<>>)
      BY <2>1, <2>5
    <3>2. r.port[p] = q
      BY <3>1 DEF Alters, Steady, Ends
    <3>3. o.rfc # "OPENED"
      BY <2>2, <2>5 DEF ButData
    <3>4. Sends(e, r, p, <<>>)
      BY <3>1, <3>2, <3>3, DataFrames DEF Sends, o
    <3> QED BY <2>1, <2>2, <2>3, <3>2, <3>4 DEF SendsSome, r, o
  <2> QED BY <2>4, <2>5
<1> QED BY <1>2, <1>3

LEMMA SendTxSends ==
  ASSUME NEW e, NEW p \in Ports, Steady(e), Flows(e.port[p])
  PROVE  LET r == port_rfc_send_tx_data(e, p)
         IN SendsSome(e, r, p) /\ (r.port[p].tx = <<>> \/ ~MaySend(r, p))
<1> DEFINE W == {x \in Ends : SendsSome(e, x, p)}
<1>1. e \in W /\ Len(e.port[p].tx) \in Nat
  <2>1. e \in Ends /\ e.port[p] \in Port
    BY DEF Steady, Ends
  <2>2. Len(e.port[p].tx) \in Nat
    BY <2>1, PortFields DEF Port
  <2> QED BY <2>1, <2>2, SendsNone
<1>2. ASSUME NEW x \in W PROVE SendNext(x, p) \in W
  <2> DEFINE t == SendNext(x, p)
  <2>1. SendsSome(e, x, p)
    OBVIOUS
  <2>2. Steady(x) /\ Flows(x.port[p])
    BY <2>1 DEF SendsSome, Sends, Alters
  <2>3. SendsSome(x, t, p)
    BY <2>2, SendNextSends
  <2> HIDE DEF t
  <2>4. SendsSome(e, t, p)
    BY <2>1, <2>3, SendsSomeThen
  <2>5. t \in Ends
    BY <2>4 DEF SendsSome, Sends, Alters, Steady
  <2> QED BY <2>4, <2>5 DEF t
<1> HIDE DEF W
<1>3. port_rfc_send_tx_data(e, p) \in W
  BY <1>1, <1>2, SendTxKeeps
<1> QED BY <1>3, SendTxEmpties DEF W

-----------------------------------------------------------------------------
(* A port at both ends: what is on its way between the client, c, and the      *)
(* server, v.  up is on its way to the server and dn to the client.            *)

Opening == {"PN", "SABME"}
Talk == {"DATA", "CREDIT", "MSC", "MSCR"}

(* The client waits for the answer to PN; it has a connection, or is about to. *)
Negotiating(q) == q.mcb /\ q.rfc = "CLOSED" /\ "PN" \in q.rsp
Live(q) == Negotiating(q) \/ q.rfc \in {"ORIG_WAIT_SEC_CHECK", "SABME_WAIT_UA", "OPENED"}

(* The server has nothing of an earlier connection; it has agreed to a new one *)
(* and waits for SABME.                                                        *)
Rested(q) ==
  /\ q.state \in {"OPENING", "CLOSED"} /\ q.rfc = "CLOSED"
  /\ q.ctrl = {} /\ q.tx = <<>> /\ q.rx = <<>> /\ ~q.peer_fc /\ "MSC" \notin q.rsp

HasCredits(q) == q.credit_tx = k /\ q.credit_rx = k
Awaits(v) == Rested(v) /\ (v.state = "OPENING" => HasCredits(v))

(* The server's user decides about a connection that has carried nothing. *)
Undecided(v) ==
  /\ v.rfc = "TERM_WAIT_SEC_CHECK" /\ HasCredits(v) /\ v.state \in {"OPENING", "CLOSING"}
  /\ v.ctrl = {} /\ v.tx = <<>> /\ v.rx = <<>> /\ ~v.peer_fc /\ "MSC" \notin v.rsp

(* At most one frame that opens is on its way, before all others, to a server  *)
(* that has nothing to forget; while it or a decision is awaited, nothing that *)
(* belongs to an open port is on its way.                                      *)
ServerInv(c, v, up, dn) ==
  /\ \/ Free(up, Opening)
     \/ /\ up # <<>> /\ Free(Tail(up), Opening) /\ Rested(v)
        /\ \/ Head(up).t = "PN" /\ Head(up).n = k
           \/ Head(up).t = "SABME" /\ Awaits(v)
  /\ v.rfc = "TERM_WAIT_SEC_CHECK" => Undecided(v)
  /\ ~Free(up, Opening) \/ v.rfc = "TERM_WAIT_SEC_CHECK" =>
       Free(up, Talk) /\ Free(dn, Talk) /\ c.state # "OPENED"

(* The stages of a connection. *)
Asks(c, v, up, dn, p) ==
  /\ Negotiating(c) /\ c.credit_rx = k
  /\ \/ up = <<Credits("PN", p, k)>> /\ dn = <<>>
     \/ up = <<>> /\ dn = <<Credits("PNR", p, k)>> /\ Awaits(v)
     \/ Free(up, Opening) /\ dn # <<>> /\ Head(dn).t = "DM"

Checks(c, v, up, dn) ==
  c.rfc = "ORIG_WAIT_SEC_CHECK" /\ HasCredits(c) /\ up = <<>> /\ dn = <<>> /\ Awaits(v)

Calls(c, v, up, dn, p) ==
  /\ c.rfc = "SABME_WAIT_UA" /\ HasCredits(c) /\ dn = <<>>
  /\ \/ up = <<Frame("SABME", p)>>
     \/ up = <<>> /\ v.rfc = "TERM_WAIT_SEC_CHECK"

Talks(c, v, up, dn, w, wo, ea, eo) ==
  /\ c.rfc \in {"SABME_WAIT_UA", "OPENED"}
  /\ Free(up, Opening) /\ v.rfc # "TERM_WAIT_SEC_CHECK"
  /\ v.rfc = "OPENED" =>
       /\ c.rfc = "SABME_WAIT_UA" => dn # <<>> /\ Head(dn).t = "UA"
       /\ FlowInv(c, v, dn, up, w, wo, ea, eo)

Unheard(c, w, ea) == c.rx = <<>> /\ StreamOk(c.tx, w, ea)

LinkInv(c, v, up, dn, p, w, wo, ea, eo) ==
  \/ /\ Unheard(c, w, ea)
     /\ Asks(c, v, up, dn, p) \/ Checks(c, v, up, dn) \/ Calls(c, v, up, dn, p)
  \/ Talks(c, v, up, dn, w, wo, ea, eo)

PairInv(c, v, up, dn, p, w, wo, ea, eo) ==
  /\ ServerInv(c, v, up, dn)
  /\ Live(c) => LinkInv(c, v, up, dn, p, w, wo, ea, eo)

(* What a handler takes: a frame, a call that opens a connection, or neither. *)
None == [t |-> "NONE", p |-> 0, n |-> 0, d |-> 0]
Call(p) == [t |-> "CALL", p |-> p, n |-> 0, d |-> 0]
Inputs == Frames \cup {None} \cup {Call(p) : p \in Ports}
In(f) == IF f \in Frames THEN <<f>> ELSE <<>>

LEMMA InFacts ==
  ASSUME NEW f \in Inputs
  PROVE  /\ In(f) \in Seq(Frames)
         /\ f \in Frames <=> f.t \notin {"NONE", "CALL"}
         /\ f \in Frames => In(f) = <<f>>
         /\ f \notin Frames => In(f) = <<>>
<1>1. \A x \in Frames : x.t \notin {"NONE", "CALL"} /\ <<x>> \in Seq(Frames)
  BY DEF Frames
<1>2. None.t = "NONE" /\ (\A p \in Ports : Call(p).t = "CALL") /\ <<>> \in Seq(Frames)
  BY DEF None, Call
<1> QED BY <1>1, <1>2 DEF Inputs, In

Connects(q, f) == q.rfc = "SABME_WAIT_UA" /\ f.t = "UA"

Starts(u, g, p) ==
  /\ Negotiating(u) /\ u.state = "OPENING" /\ u.credit_rx = k /\ u.tx = <<>> /\ u.rx = <<>>
  /\ g = <<Credits("PN", p, k)>>

Dials(q, u, f, g, p) ==
  /\ q.rfc = "ORIG_WAIT_SEC_CHECK" /\ u.rfc = "SABME_WAIT_UA" /\ u.state # "OPENED"
  /\ f.t = "NONE" /\ g = <<Frame("SABME", p)>> /\ SameFlow(q, u)

Hears(q, u, f, g) ==
  /\ Negotiating(q) /\ f.t = "PNR" /\ g = <<>>
  /\ u.rfc = "ORIG_WAIT_SEC_CHECK" /\ u.credit_tx = f.n /\ u.credit_rx = q.credit_rx
  /\ u.tx = q.tx /\ u.rx = q.rx

Waits(q, u, f, g, w, w2, ea, ea2) ==
  /\ Live(q) /\ q.rfc # "OPENED" /\ u.rfc = q.rfc /\ f.t = "NONE" /\ g = <<>>
  /\ u.credit_tx = q.credit_tx /\ u.credit_rx = q.credit_rx /\ u.rx = q.rx
  /\ \/ u.tx = q.tx /\ w2 = w /\ ea2 = ea
     \/ u.tx = Append(q.tx, w + 1) /\ w2 = w + 1 /\ ea \subseteq ea2

(* A frame that does not matter to a client without a connection, or that the  *)
(* server does not send.                                                       *)
Passes(q, u, f) ==
  /\ Live(q) /\ u.rfc = q.rfc /\ u.rfc # "OPENED" /\ f.t \notin {"NONE", "CALL"}
  /\ q.rfc = "CLOSED" => f.t \notin {"PNR", "DM"}
  /\ ~Connects(q, f)

Uses(q, u, f, g, w, w2, ea, ea2) ==
  /\ u.rfc = "OPENED" /\ (q.rfc = "OPENED" \/ Connects(q, f))
  /\ Conserves(q, u, In(f), g, w, w2, ea, ea2)

(* What a client does: q becomes u when it takes f and sends g. *)
ClientMove(q, u, f, g, p, w, w2, ea, ea2) ==
  \/ f.t = "CALL" /\ Starts(u, g, p)
  \/ /\ f.t # "CALL"
     /\ Free(g, Opening) \/ Dials(q, u, f, g, p)
     /\ Free(g, Talk) \/ q.state = "OPENED" \/ f.t \in Talk \/ Connects(q, f)
     /\ u.state = "OPENED" => q.state = "OPENED" \/ Connects(q, f)
     /\ Live(u) => \/ Dials(q, u, f, g, p)
                   \/ Hears(q, u, f, g)
                   \/ Waits(q, u, f, g, w, w2, ea, ea2)
                   \/ Passes(q, u, f)
                   \/ Uses(q, u, f, g, w, w2, ea, ea2)

Accepts(q, u, f, g, p) ==
  q.rfc = "TERM_WAIT_SEC_CHECK" /\ f.t = "NONE" /\ g = <<Frame("UA", p)>> /\ SameFlow(q, u)

(* What a server does. *)
ServerMove(q, u, f, g, p, w, w2, ea, ea2) ==
  /\ f.t # "CALL" /\ Free(g, Opening)
  /\ u.rfc = "OPENED" => \/ Accepts(q, u, f, g, p)
                         \/ q.rfc = "OPENED" /\ Conserves(q, u, In(f), g, w, w2, ea, ea2)
  /\ u.rfc = "TERM_WAIT_SEC_CHECK" /\ f.t \notin Talk =>
       /\ g = <<>> /\ SameFlow(q, u) /\ u.ctrl = q.ctrl /\ u.peer_fc = q.peer_fc /\ u.rsp = q.rsp
       /\ \/ q.rfc = "TERM_WAIT_SEC_CHECK" /\ u.state \in {q.state, "CLOSING"}
          \/ q.rfc = "CLOSED" /\ f.t = "SABME" /\ u.state = q.state /\ q.state # "CLOSED"
  /\ u.rfc = "TERM_WAIT_SEC_CHECK" => q.rfc = "TERM_WAIT_SEC_CHECK" \/ f.t = "SABME"
  /\ Rested(q) /\ f.t = "NONE" => Rested(u) /\ g = <<>> /\ (Awaits(q) => Awaits(u))
  /\ Rested(q) /\ f.t = "PN" =>
       /\ Rested(u)
       /\ \/ g = <<Frame("DM", p)>>
          \/ g = <<Credits("PNR", p, k)>> /\ (f.n = k => HasCredits(u))

LEMMA FlowSwap ==
  \A q, o, in, out, w, wo, ea, eo :
    FlowInv(q, o, in, out, w, wo, ea, eo) <=> FlowInv(o, q, out, in, wo, w, eo, ea)
BY DEF FlowInv

(* A connection on which nothing was sent. *)
LEMMA FlowFresh ==
  ASSUME NEW q \in Port, NEW o \in Port, HasCredits(q), HasCredits(o),
         q.rx = <<>>, o.rx = <<>>, o.tx = <<>>,
         NEW in \in Seq(Frames), NEW out \in Seq(Frames),
         Free(in, {"DATA", "CREDIT"}), Free(out, {"DATA", "CREDIT"}),
         NEW w, NEW wo, NEW ea, NEW eo, StreamOk(q.tx, w, ea)
  PROVE  FlowInv(q, o, in, out, w, wo, ea, eo)
<1>1. Owed(in) = 0 /\ Bufs(in) = <<>> /\ Owed(out) = 0 /\ Bufs(out) = <<>>
  BY FlowNone
<1>2. q.tx \in Seq(Nat) /\ k \in Nat
  BY PortFields, Constants
<1>3. \A t \in Seq(Nat) : <<>> \o (<<>> \o t) = t
  BY Joins
<1>4. Balance(q.credit_tx, in, out, o.rx, o.credit_rx) /\ Balance(o.credit_tx, out, in, q.rx, q.credit_rx)
  BY <1>1, <1>2 DEF Balance, HasCredits
<1>5. StreamOk(o.rx \o (Bufs(out) \o q.tx), w, ea)
  BY <1>1, <1>2, <1>3
<1>6. StreamOk(q.rx \o (Bufs(in) \o o.tx), wo, eo)
  <2>1. q.rx \o (Bufs(in) \o o.tx) = <<>>
    BY <1>1
  <2> QED BY <2>1 DEF StreamOk
<1> QED BY <1>4, <1>5, <1>6 DEF FlowInv

LEMMA StreamMore ==
  ASSUME NEW f \in Seq(Nat), NEW w \in Nat, NEW w2 \in Nat, NEW ea, NEW ea2,
         StreamOk(f, w, ea), w <= w2, ea \subseteq ea2
  PROVE  StreamOk(f, w2, ea2)
<1>1. \A i \in DOMAIN f : f[i] \in Nat
  OBVIOUS
<1> QED BY <1>1 DEF StreamOk

LEMMA StartFrames ==
  ASSUME NEW p \in Ports
  PROVE  /\ Credits("PN", p, k) \in Frames /\ Credits("PN", p, k).t = "PN" /\ Credits("PN", p, k).n = k
         /\ Credits("PNR", p, k) \in Frames /\ Credits("PNR", p, k).t = "PNR"
         /\ Credits("PNR", p, k).n = k
         /\ Frame("SABME", p) \in Frames /\ Frame("SABME", p).t = "SABME"
         /\ Frame("UA", p) \in Frames /\ Frame("UA", p).t = "UA"
         /\ Frame("DM", p) \in Frames /\ Frame("DM", p).t = "DM"
<1>1. p \in Ports \cup {0} /\ k \in 0..credit_rx_max
  BY Constants
<1>2. /\ \A t \in {"MSC", "MSCR", "SABME", "UA", "DM", "DISC"} : Frame(t, p) \in Frames
      /\ \A t \in {"PN", "PNR", "CREDIT"}, n \in 0..credit_rx_max : Credits(t, p, n) \in Frames
  BY <1>1, FrameTypes
<1>3. /\ Credits("PN", p, k) \in Frames /\ Credits("PNR", p, k) \in Frames
      /\ Frame("SABME", p) \in Frames /\ Frame("UA", p) \in Frames /\ Frame("DM", p) \in Frames
  BY <1>1, <1>2
<1> QED BY <1>3 DEF Credits, Frame

(* The first frame of what is on its way is taken, and others are added. *)
LEMMA PipeFacts ==
  ASSUME NEW f \in Inputs, NEW q \in Seq(Frames), NEW g \in Seq(Frames)
  PROVE  /\ In(f) \o q \in Seq(Frames) /\ q \o g \in Seq(Frames)
         /\ f \in Frames => In(f) \o q # <<>> /\ Head(In(f) \o q) = f /\ Tail(In(f) \o q) = q
         /\ f \notin Frames => In(f) \o q = q
         /\ q # <<>> => q \o g # <<>> /\ Head(q \o g) = Head(q) /\ Tail(q \o g) = Tail(q) \o g
                        /\ Tail(q) \in Seq(Frames)
         /\ <<>> \o g = g /\ q \o <<>> = q
<1>1. /\ In(f) \in Seq(Frames) /\ (f \in Frames => In(f) = <<f>>)
      /\ (f \notin Frames => In(f) = <<>>) /\ <<>> \in Seq(Frames)
  BY InFacts
<1>2. f \in Frames => /\ <<f>> \o q # <<>> /\ Head(<<f>> \o q) = f
                      /\ Tail(<<f>> \o q) = q
  <2> SUFFICES ASSUME f \in Frames PROVE <<f>> \o q # <<>> /\ Head(<<f>> \o q) = f /\ Tail(<<f>> \o q) = q
    OBVIOUS
  <2>1. <<f>> \in Seq(Frames) /\ <<f>> # <<>> /\ Head(<<f>>) = f /\ Tail(<<f>>) = <<>>
    OBVIOUS
  <2>2. \A x, y \in Seq(Frames) : x # <<>> =>
           x \o y # <<>> /\ Tail(x \o y) = Tail(x) \o y /\ Head(x \o y) = Head(x)
    BY Joins
  <2>3. <<>> \o q = q
    OBVIOUS
  <2> QED BY <2>1, <2>2, <2>3
<1>3. In(f) \o q \in Seq(Frames) /\ q \o g \in Seq(Frames)
  BY <1>1
<1>4. <<>> \o g = g /\ q \o <<>> = q /\ <<>> \o q = q
  OBVIOUS
<1>5. \A x, y \in Seq(Frames) : x # <<>> =>
         /\ x \o y # <<>> /\ Tail(x \o y) = Tail(x) \o y /\ Head(x \o y) = Head(x)
         /\ Tail(x) \in Seq(Frames)
  BY Joins
<1> QED BY <1>1, <1>2, <1>3, <1>4, <1>5

(* While a frame that opens or a decision is awaited, nothing talks. *)
LEMMA QuietServer ==
  ASSUME NEW p \in Ports, NEW c \in Port, NEW v \in Port, NEW f \in Inputs,
         NEW up \in Seq(Frames), NEW dn \in Seq(Frames), NEW w, NEW wo, NEW ea, NEW eo,
         PairInv(c, v, up, In(f) \o dn, p, w, wo, ea, eo),
         ~Free(up, Opening) \/ v.rfc = "TERM_WAIT_SEC_CHECK"
  PROVE  /\ Free(up, Talk) /\ Free(dn, Talk) /\ c.state # "OPENED" /\ f.t \notin Talk
         /\ ~Connects(c, f)
<1>1. Free(up, Talk) /\ Free(In(f) \o dn, Talk) /\ c.state # "OPENED"
  BY DEF PairInv, ServerInv
<1>2. In(f) \in Seq(Frames)
  BY InFacts
<1>3. Free(In(f), Talk) /\ Free(dn, Talk)
  BY <1>1, <1>2, FreeFacts
<1>4. f.t \notin Talk
  <2>1. CASE f \in Frames
    <3>1. In(f) = <<f>>
      BY <2>1, InFacts
    <3> QED BY <1>3, <2>1, <3>1, FreeFacts
  <2>2. CASE f \notin Frames
    <3>1. f.t \in {"NONE", "CALL"}
      BY <2>2, InFacts
    <3> QED BY <3>1 DEF Talk
  <2> QED BY <2>1, <2>2
<1>5. ASSUME Connects(c, f) PROVE FALSE
  <2>1. c.rfc = "SABME_WAIT_UA" /\ f.t = "UA"
    BY <1>5 DEF Connects
  <2>2. f \in Frames
    BY <2>1, InFacts
  <2>3. In(f) \o dn # <<>>
    BY <2>2, PipeFacts
  <2>4. LinkInv(c, v, up, In(f) \o dn, p, w, wo, ea, eo)
    BY <2>1 DEF PairInv, Live
  <2>5. ~Asks(c, v, up, In(f) \o dn, p) /\ ~Checks(c, v, up, In(f) \o dn)
    BY <2>1 DEF Asks, Checks, Negotiating
  <2>6. ~Calls(c, v, up, In(f) \o dn, p)
    BY <2>3 DEF Calls
  <2>7. Talks(c, v, up, In(f) \o dn, w, wo, ea, eo)
    BY <2>4, <2>5, <2>6 DEF LinkInv
  <2> QED BY <2>7 DEF Talks
<1> QED BY <1>1, <1>3, <1>4, <1>5

(* The client dials only when the security manager has answered. *)
LEMMA DialsInv ==
  ASSUME NEW p \in Ports, NEW c \in Port, NEW v \in Port, NEW f \in Inputs, NEW u, NEW g,
         NEW up \in Seq(Frames), NEW dn \in Seq(Frames), NEW w, NEW wo, NEW ea, NEW eo,
         PairInv(c, v, up, In(f) \o dn, p, w, wo, ea, eo), Dials(c, u, f, g, p)
  PROVE  /\ Unheard(c, w, ea) /\ HasCredits(c) /\ up = <<>> /\ dn = <<>> /\ Awaits(v)
<1>1. c.rfc = "ORIG_WAIT_SEC_CHECK" /\ f.t = "NONE"
  BY DEF Dials
<1>2. In(f) \o dn = dn
  <2>1. f \notin Frames
    BY <1>1, InFacts
  <2> QED BY <2>1, PipeFacts
<1>3. LinkInv(c, v, up, In(f) \o dn, p, w, wo, ea, eo)
  BY <1>1 DEF PairInv, Live
<1>4. ~Asks(c, v, up, In(f) \o dn, p) /\ ~Calls(c, v, up, In(f) \o dn, p)
      /\ ~Talks(c, v, up, In(f) \o dn, w, wo, ea, eo)
  BY <1>1 DEF Asks, Calls, Talks, Negotiating
<1> QED BY <1>2, <1>3, <1>4 DEF LinkInv, Checks

LEMMA ClientServerInv ==
  ASSUME NEW p \in Ports, NEW c \in Port, NEW v \in Port, NEW u \in Port, NEW f \in Inputs,
         NEW up \in Seq(Frames), NEW dn \in Seq(Frames), NEW g \in Seq(Frames),
         NEW w, NEW w2, NEW wo, NEW ea, NEW ea2, NEW eo,
         PairInv(c, v, up, In(f) \o dn, p, w, wo, ea, eo),
         ClientMove(c, u, f, g, p, w, w2, ea, ea2),
         f.t = "CALL" => Rested(v) /\ up = <<>> /\ dn = <<>>
  PROVE  ServerInv(u, v, up \o g, dn)
<1>1. up \o g \in Seq(Frames)
  OBVIOUS
<1>2. CASE g = <<Credits("PN", p, k)>> /\ up = <<>> /\ dn = <<>> /\ Rested(v) /\ u.state # "OPENED"
  <2>1. up \o g = g /\ g # <<>> /\ Tail(g) = <<>> /\ Head(g) = Credits("PN", p, k)
    BY <1>2
  <2>2. Free(<<>>, Opening) /\ Free(<<>>, Talk) /\ Free(g, Talk)
    <3>1. Free(<<Credits("PN", p, k)>>, Talk)
      BY StartFrames, FreeFacts DEF Talk
    <3> QED BY <1>2, <3>1, FreeFacts
  <2>3. v.rfc = "CLOSED"
    BY <1>2 DEF Rested
  <2> QED BY <1>2, <2>1, <2>2, <2>3, StartFrames DEF ServerInv
<1>3. CASE g = <<Frame("SABME", p)>> /\ up = <<>> /\ dn = <<>> /\ Awaits(v) /\ u.state # "OPENED"
  <2>1. up \o g = g /\ g # <<>> /\ Tail(g) = <<>> /\ Head(g) = Frame("SABME", p)
    BY <1>3
  <2>2. Free(<<>>, Opening) /\ Free(<<>>, Talk) /\ Free(g, Talk)
    <3>1. Free(<<Frame("SABME", p)>>, Talk)
      BY StartFrames, FreeFacts DEF Talk
    <3> QED BY <1>3, <3>1, FreeFacts
  <2>3. v.rfc = "CLOSED" /\ Rested(v)
    BY <1>3 DEF Awaits, Rested
  <2> QED BY <1>3, <2>1, <2>2, <2>3, StartFrames DEF ServerInv
<1>4. CASE Free(g, Opening) /\ f.t # "CALL"
  <2>1. Free(up \o g, Opening) <=> Free(up, Opening)
    BY <1>4, FreeFacts
  <2>2. ASSUME ~Free(up, Opening)
        PROVE  /\ up \o g # <<>> /\ Free(Tail(up \o g), Opening) /\ Head(up \o g) = Head(up)
    <3>1. up # <<>> /\ Free(Tail(up), Opening)
      BY <2>2 DEF PairInv, ServerInv
    <3>2. up \o g # <<>> /\ Head(up \o g) = Head(up) /\ Tail(up \o g) = Tail(up) \o g
          /\ Tail(up) \in Seq(Frames)
      BY <3>1, Joins
    <3>3. Free(Tail(up) \o g, Opening)
      BY <1>4, <3>1, <3>2, FreeFacts
    <3> QED BY <3>2, <3>3
  <2>3. ASSUME ~Free(up, Opening) \/ v.rfc = "TERM_WAIT_SEC_CHECK"
        PROVE  Free(up \o g, Talk) /\ Free(dn, Talk) /\ u.state # "OPENED"
    <3>1. Free(up, Talk) /\ Free(dn, Talk) /\ c.state # "OPENED" /\ f.t \notin Talk /\ ~Connects(c, f)
      BY <2>3, QuietServer
    <3>2. Free(g, Talk) /\ u.state # "OPENED"
      BY <1>4, <3>1 DEF ClientMove
    <3> QED BY <3>1, <3>2, FreeFacts
  <2>4. ServerInv(c, v, up, In(f) \o dn)
    BY DEF PairInv
  <2>5. /\ v.rfc = "TERM_WAIT_SEC_CHECK" => Undecided(v)
        /\ ~Free(up, Opening) =>
             /\ Rested(v)
             /\ \/ Head(up).t = "PN" /\ Head(up).n = k
                \/ Head(up).t = "SABME" /\ Awaits(v)
    BY <2>4 DEF ServerInv
  <2> QED BY <2>1, <2>2, <2>3, <2>5 DEF ServerInv
<1>5. CASE f.t = "CALL"
  <2>1. Starts(u, g, p)
    BY <1>5 DEF ClientMove
  <2> QED BY <1>2, <1>5, <2>1 DEF Starts
<1>6. CASE f.t # "CALL" /\ Dials(c, u, f, g, p)
  <2>1. up = <<>> /\ dn = <<>> /\ Awaits(v)
    BY <1>6, DialsInv
  <2> QED BY <1>3, <1>6, <2>1 DEF Dials
<1> QED BY <1>4, <1>5, <1>6 DEF ClientMove

LEMMA ClientLinkInv ==
  ASSUME NEW p \in Ports, NEW c \in Port, NEW v \in Port, NEW u \in Port, NEW f \in Inputs,
         NEW up \in Seq(Frames), NEW dn \in Seq(Frames), NEW g \in Seq(Frames),
         NEW w \in Nat, NEW w2 \in Nat, NEW wo \in Nat,
         NEW ea \in SUBSET Nat, NEW ea2 \in SUBSET Nat, NEW eo \in SUBSET Nat,
         w <= w2, ea \subseteq ea2, Live(u),
         PairInv(c, v, up, In(f) \o dn, p, w, wo, ea, eo),
         ClientMove(c, u, f, g, p, w, w2, ea, ea2),
         f.t = "CALL" => Rested(v) /\ up = <<>> /\ dn = <<>>
  PROVE  LinkInv(u, v, up \o g, dn, p, w2, wo, ea2, eo)
<1> DEFINE in == In(f) \o dn
<1>1. /\ c.tx \in Seq(Nat) /\ u.tx \in Seq(Nat) /\ up \o g \in Seq(Frames)
      /\ \A x \in Seq(Frames) : <<>> \o x = x /\ x \o <<>> = x
  BY PortFields
<1>2. ASSUME u.tx = c.tx, u.rx = c.rx, Unheard(c, w, ea) PROVE Unheard(u, w2, ea2)
  BY <1>1, <1>2, StreamMore DEF Unheard
<1>3. CASE f.t = "CALL"
  <2>1. Starts(u, g, p) /\ up = <<>> /\ dn = <<>>
    BY <1>3 DEF ClientMove
  <2>2. Unheard(u, w2, ea2)
    BY <2>1 DEF Starts, Unheard, StreamOk
  <2>3. up \o g = <<Credits("PN", p, k)>>
    BY <1>1, <2>1 DEF Starts
  <2>4. Asks(u, v, up \o g, dn, p)
    BY <2>1, <2>3 DEF Starts, Asks
  <2> QED BY <2>2, <2>4 DEF LinkInv
<1>4. CASE Dials(c, u, f, g, p)
  <2>1. Unheard(c, w, ea) /\ HasCredits(c) /\ up = <<>> /\ dn = <<>> /\ Awaits(v)
    BY <1>4, DialsInv
  <2>2. Unheard(u, w2, ea2) /\ HasCredits(u) /\ u.rfc = "SABME_WAIT_UA"
    BY <1>2, <1>4, <2>1 DEF Dials, SameFlow, HasCredits
  <2>3. up \o g = <<Frame("SABME", p)>>
    BY <1>1, <1>4, <2>1 DEF Dials
  <2>4. Calls(u, v, up \o g, dn, p)
    BY <2>1, <2>2, <2>3 DEF Calls
  <2> QED BY <2>2, <2>4 DEF LinkInv
<1>5. CASE Hears(c, u, f, g)
  <2>1. f.t = "PNR" /\ f \in Frames /\ Negotiating(c) /\ g = <<>> /\ c.rfc = "CLOSED"
    BY <1>5, InFacts DEF Hears, Negotiating
  <2>2. in # <<>> /\ Head(in) = f /\ Tail(in) = dn
    BY <2>1, PipeFacts
  <2>3. LinkInv(c, v, up, in, p, w, wo, ea, eo)
    BY <2>1 DEF PairInv, Live
  <2>4. Unheard(c, w, ea) /\ Asks(c, v, up, in, p)
    BY <2>1, <2>3 DEF LinkInv, Checks, Calls, Talks
  <2>5. up = <<>> /\ in = <<Credits("PNR", p, k)>> /\ Awaits(v) /\ c.credit_rx = k
    BY <2>1, <2>2, <2>4 DEF Asks
  <2>6. f = Credits("PNR", p, k) /\ dn = <<>>
    BY <2>2, <2>5
  <2>7. Unheard(u, w2, ea2) /\ HasCredits(u)
    BY <1>2, <1>5, <2>4, <2>5, <2>6, StartFrames DEF Hears, HasCredits
  <2>8. up \o g = <<>>
    BY <1>1, <2>1, <2>5
  <2>9. Checks(u, v, up \o g, dn)
    BY <1>5, <2>5, <2>6, <2>7, <2>8 DEF Hears, Checks
  <2> QED BY <2>7, <2>9 DEF LinkInv
<1>6. CASE Waits(c, u, f, g, w, w2, ea, ea2)
  <2>1. f.t = "NONE" /\ g = <<>> /\ Live(c) /\ c.rfc # "OPENED" /\ u.rfc = c.rfc
    BY <1>6 DEF Waits
  <2>2. in = dn /\ up \o g = up
    <3>1. f \notin Frames
      BY <2>1, InFacts
    <3> QED BY <1>1, <2>1, <3>1, PipeFacts
  <2>3. LinkInv(c, v, up, dn, p, w, wo, ea, eo)
    BY <2>1, <2>2 DEF PairInv
  <2>4. u.credit_tx = c.credit_tx /\ u.credit_rx = c.credit_rx /\ u.rx = c.rx
    BY <1>6 DEF Waits
  <2>5. /\ StreamOk(c.tx, w, ea) => StreamOk(u.tx, w2, ea2)
        /\ Conserves(c, u, <<>>, <<>>, w, w2, ea, ea2)
    <3>1. CASE u.tx = c.tx /\ w2 = w /\ ea2 = ea
      <4>1. SameFlow(c, u) /\ <<>> \in Seq(Frames) /\ Free(<<>>, {"DATA", "CREDIT"})
        BY <2>4, <3>1 DEF SameFlow, Free
      <4> QED BY <3>1, <4>1, FlowSame
    <3>2. CASE u.tx = Append(c.tx, w + 1) /\ w2 = w + 1 /\ ea \subseteq ea2
      BY <2>4, <3>2, FlowQueue
    <3> QED BY <1>6, <3>1, <3>2 DEF Waits
  <2>6. CASE /\ Unheard(c, w, ea)
             /\ Asks(c, v, up, dn, p) \/ Checks(c, v, up, dn) \/ Calls(c, v, up, dn, p)
    <3>1. Unheard(u, w2, ea2)
      BY <2>4, <2>5, <2>6 DEF Unheard
    <3>2. HasCredits(c) => HasCredits(u)
      BY <2>4 DEF HasCredits
    <3>3. Asks(c, v, up, dn, p) => Asks(u, v, up, dn, p)
      BY <2>1, <2>4 DEF Asks, Negotiating, Live
    <3>4. Checks(c, v, up, dn) => Checks(u, v, up, dn)
      BY <2>1, <3>2 DEF Checks
    <3>5. Calls(c, v, up, dn, p) => Calls(u, v, up, dn, p)
      BY <2>1, <3>2 DEF Calls
    <3> QED BY <2>2, <2>6, <3>1, <3>3, <3>4, <3>5 DEF LinkInv
  <2>7. CASE Talks(c, v, up, dn, w, wo, ea, eo)
    <3>1. ASSUME v.rfc = "OPENED" PROVE FlowInv(u, v, dn, up, w2, wo, ea2, eo)
      <4>1. FlowInv(c, v, <<>> \o dn, up, w, wo, ea, eo)
        BY <1>1, <2>7, <3>1 DEF Talks
      <4>2. FlowInv(u, v, dn, up \o <<>>, w2, wo, ea2, eo)
        BY <2>5, <4>1 DEF Conserves
      <4> QED BY <1>1, <4>2
    <3>2. Talks(u, v, up, dn, w2, wo, ea2, eo)
      BY <2>1, <2>7, <3>1 DEF Talks
    <3> QED BY <2>2, <3>2 DEF LinkInv
  <2> QED BY <2>3, <2>6, <2>7 DEF LinkInv
<1>7. CASE Passes(c, u, f) /\ Free(g, Opening)
  <2>1. Live(c) /\ f \in Frames /\ u.rfc = c.rfc /\ c.rfc # "OPENED" /\ ~Connects(c, f)
    BY <1>7, InFacts DEF Passes
  <2>2. in # <<>> /\ Head(in) = f /\ LinkInv(c, v, up, in, p, w, wo, ea, eo)
    BY <2>1, PipeFacts DEF PairInv
  <2>3. ~Asks(c, v, up, in, p)
    <3>1. ASSUME Asks(c, v, up, in, p) PROVE FALSE
      <4>1. c.rfc = "CLOSED" /\ (Head(in) = Credits("PNR", p, k) \/ Head(in).t = "DM")
        <5>1. Head(<<Credits("PNR", p, k)>>) = Credits("PNR", p, k)
          OBVIOUS
        <5> QED BY <2>2, <3>1, <5>1 DEF Asks, Negotiating
      <4> QED BY <1>7, <2>2, <4>1, StartFrames DEF Passes
    <3> QED BY <3>1
  <2>4. ~Checks(c, v, up, in) /\ ~Calls(c, v, up, in, p)
    BY <2>2 DEF Checks, Calls
  <2>5. Talks(c, v, up, in, w, wo, ea, eo)
    BY <2>2, <2>3, <2>4 DEF LinkInv
  <2>6. v.rfc # "OPENED"
    BY <2>1, <2>2, <2>5 DEF Talks, Connects
  <2>7. Free(up \o g, Opening)
    BY <1>7, <2>5, FreeFacts DEF Talks
  <2>8. Talks(u, v, up \o g, dn, w2, wo, ea2, eo)
    BY <2>1, <2>5, <2>6, <2>7 DEF Talks
  <2> QED BY <2>8 DEF LinkInv
<1>8. CASE Uses(c, u, f, g, w, w2, ea, ea2) /\ Free(g, Opening)
  <2>1. u.rfc = "OPENED" /\ Conserves(c, u, In(f), g, w, w2, ea, ea2)
    BY <1>8 DEF Uses
  <2>2. LinkInv(c, v, up, in, p, w, wo, ea, eo)
    BY <1>8 DEF PairInv, Uses, Connects, Live
  <2>3. Talks(c, v, up, in, w, wo, ea, eo)
    <3>1. ~Asks(c, v, up, in, p) /\ ~Checks(c, v, up, in)
      BY <1>8 DEF Uses, Connects, Asks, Checks, Negotiating
    <3>2. ~Calls(c, v, up, in, p)
      <4>1. CASE c.rfc = "OPENED"
        BY <4>1 DEF Calls
      <4>2. CASE Connects(c, f)
        <5>1. f \in Frames
          BY <4>2, InFacts DEF Connects
        <5>2. in # <<>>
          BY <5>1, PipeFacts
        <5> QED BY <5>2 DEF Calls
      <4> QED BY <1>8, <4>1, <4>2 DEF Uses
    <3> QED BY <2>2, <3>1, <3>2 DEF LinkInv
  <2>4. Free(up \o g, Opening)
    BY <1>8, <2>3, FreeFacts DEF Talks
  <2>5. ASSUME v.rfc = "OPENED" PROVE FlowInv(u, v, dn, up \o g, w2, wo, ea2, eo)
    <3>1. FlowInv(c, v, In(f) \o dn, up, w, wo, ea, eo)
      BY <2>3, <2>5 DEF Talks
    <3> QED BY <2>1, <3>1 DEF Conserves
  <2>6. Talks(u, v, up \o g, dn, w2, wo, ea2, eo)
    BY <2>1, <2>3, <2>4, <2>5 DEF Talks
  <2> QED BY <2>6 DEF LinkInv
<1>9. CASE f.t # "CALL" /\ ~Dials(c, u, f, g, p)
  <2>1. /\ Free(g, Opening)
        /\ \/ Hears(c, u, f, g)
           \/ Waits(c, u, f, g, w, w2, ea, ea2)
           \/ Passes(c, u, f)
           \/ Uses(c, u, f, g, w, w2, ea, ea2)
    BY <1>9 DEF ClientMove
  <2> QED BY <1>5, <1>6, <1>7, <1>8, <2>1
<1> QED BY <1>3, <1>4, <1>9

LEMMA ClientStep ==
  ASSUME NEW p \in Ports, NEW c \in Port, NEW v \in Port, NEW u \in Port, NEW f \in Inputs,
         NEW up \in Seq(Frames), NEW dn \in Seq(Frames), NEW g \in Seq(Frames),
         NEW w \in Nat, NEW w2 \in Nat, NEW wo \in Nat,
         NEW ea \in SUBSET Nat, NEW ea2 \in SUBSET Nat, NEW eo \in SUBSET Nat,
         w <= w2, ea \subseteq ea2,
         PairInv(c, v, up, In(f) \o dn, p, w, wo, ea, eo),
         ClientMove(c, u, f, g, p, w, w2, ea, ea2),
         f.t = "CALL" => Rested(v) /\ up = <<>> /\ dn = <<>>
  PROVE  PairInv(u, v, up \o g, dn, p, w2, wo, ea2, eo)
<1>1. ServerInv(u, v, up \o g, dn)
  BY ClientServerInv
<1>2. Live(u) => LinkInv(u, v, up \o g, dn, p, w2, wo, ea2, eo)
  BY ClientLinkInv
<1> QED BY <1>1, <1>2 DEF PairInv

(* What the server keeps when it takes no part in the opening of a connection. *)
LEMMA ServerServerInv ==
  ASSUME NEW p \in Ports, NEW c \in Port, NEW v \in Port, NEW u \in Port, NEW f \in Inputs,
         NEW up \in Seq(Frames), NEW dn \in Seq(Frames), NEW g \in Seq(Frames),
         NEW w, NEW wo, NEW wo2, NEW ea, NEW eo, NEW eo2,
         ServerInv(c, v, In(f) \o up, dn),
         ServerMove(v, u, f, g, p, wo, wo2, eo, eo2)
  PROVE  /\ ServerInv(c, u, up, dn \o g)
         /\ f \in Frames /\ f.t \in Opening => Rested(v) /\ (f.t = "SABME" => Awaits(v))
         /\ f \in Frames /\ f.t = "PN" => f.n = k
         /\ u.rfc = "TERM_WAIT_SEC_CHECK" => g = <<>>
         /\ f \in Frames => Free(up, Opening) \/ f.t \notin Opening
<1> DEFINE in == In(f) \o up
<1>0. in \in Seq(Frames) /\ f.t # "CALL"
  BY PipeFacts DEF ServerMove
<1>1. ASSUME f \in Frames
      PROVE  /\ Free(in, Opening) <=> f.t \notin Opening /\ Free(up, Opening)
             /\ Free(in, Talk) <=> f.t \notin Talk /\ Free(up, Talk)
             /\ in # <<>> /\ Head(in) = f /\ Tail(in) = up
  <2>1. in # <<>> /\ Head(in) = f /\ Tail(in) = up
    BY <1>1, PipeFacts
  <2>2. \A T : Free(in, T) <=> Head(in).t \notin T /\ Free(Tail(in), T)
    BY <1>0, <2>1, FreeFacts
  <2> QED BY <2>1, <2>2
<1>2. ASSUME f \notin Frames PROVE in = up /\ f.t = "NONE"
  BY <1>0, <1>2, InFacts, PipeFacts
<1>3. /\ v.rfc = "TERM_WAIT_SEC_CHECK" => Undecided(v)
      /\ ~Free(in, Opening) \/ v.rfc = "TERM_WAIT_SEC_CHECK" =>
           Free(in, Talk) /\ Free(dn, Talk) /\ c.state # "OPENED"
      /\ ~Free(in, Opening) =>
           /\ Free(Tail(in), Opening) /\ Rested(v) /\ in # <<>>
           /\ \/ Head(in).t = "PN" /\ Head(in).n = k
              \/ Head(in).t = "SABME" /\ Awaits(v)
  BY DEF ServerInv
<1>4. f \in Frames /\ f.t \in Opening => Rested(v) /\ (f.t = "SABME" => Awaits(v))
  BY <1>1, <1>3
<1>5. f \in Frames /\ f.t = "PN" => f.n = k
  BY <1>1, <1>3 DEF Opening
<1>6. f \in Frames => Free(up, Opening) \/ f.t \notin Opening
  BY <1>1, <1>3
<1>7. ASSUME u.rfc = "TERM_WAIT_SEC_CHECK"
      PROVE  /\ g = <<>> /\ Undecided(u) /\ Free(up, Talk) /\ Free(dn, Talk) /\ c.state # "OPENED"
  <2>1. v.rfc = "TERM_WAIT_SEC_CHECK" \/ f.t = "SABME"
    BY <1>7 DEF ServerMove
  <2>2. f.t = "SABME" => f \in Frames /\ ~Free(in, Opening)
    BY <1>1, InFacts DEF Opening
  <2>3. Free(in, Talk) /\ Free(dn, Talk) /\ c.state # "OPENED"
    BY <1>3, <2>1, <2>2
  <2>4. f.t \notin Talk /\ Free(up, Talk)
    BY <1>1, <1>2, <2>3 DEF Talk
  <2>5. /\ g = <<>> /\ SameFlow(v, u) /\ u.ctrl = v.ctrl /\ u.peer_fc = v.peer_fc
        /\ u.rsp = v.rsp
        /\ \/ v.rfc = "TERM_WAIT_SEC_CHECK" /\ u.state \in {v.state, "CLOSING"}
           \/ v.rfc = "CLOSED" /\ f.t = "SABME" /\ u.state = v.state /\ v.state # "CLOSED"
    BY <1>7, <2>4 DEF ServerMove
  <2>6. CASE v.rfc = "TERM_WAIT_SEC_CHECK" /\ u.state \in {v.state, "CLOSING"}
    BY <1>3, <1>7, <2>3, <2>4, <2>5, <2>6 DEF Undecided, HasCredits, SameFlow
  <2>7. CASE v.rfc = "CLOSED" /\ f.t = "SABME" /\ u.state = v.state /\ v.state # "CLOSED"
    <3>1. Awaits(v) /\ Rested(v)
      BY <1>4, <2>2, <2>7 DEF Opening
    <3> QED BY <1>7, <2>3, <2>4, <2>5, <2>7, <3>1 DEF Undecided, HasCredits, SameFlow, Awaits, Rested
  <2> QED BY <2>5, <2>6, <2>7
<1>8. ASSUME ~Free(up, Opening)
      PROVE  /\ g = <<>> /\ Rested(u) /\ up # <<>> /\ Free(Tail(up), Opening)
             /\ \/ Head(up).t = "PN" /\ Head(up).n = k
                \/ Head(up).t = "SABME" /\ Awaits(u)
             /\ Free(up, Talk) /\ Free(dn, Talk) /\ c.state # "OPENED"
  <2>1. f \notin Frames
    BY <1>1, <1>3, <1>8
  <2>2. in = up /\ f.t = "NONE"
    BY <1>2, <2>1
  <2>3. /\ Rested(v) /\ up # <<>> /\ Free(Tail(up), Opening)
        /\ \/ Head(up).t = "PN" /\ Head(up).n = k
           \/ Head(up).t = "SABME" /\ Awaits(v)
        /\ Free(up, Talk) /\ Free(dn, Talk) /\ c.state # "OPENED"
    BY <1>3, <1>8, <2>2
  <2>4. Rested(u) /\ g = <<>> /\ (Awaits(v) => Awaits(u))
    BY <2>2, <2>3 DEF ServerMove
  <2> QED BY <2>3, <2>4
<1>9. ServerInv(c, u, up, dn \o g)
  <2>1. g = <<>> => dn \o g = dn
    OBVIOUS
  <2> QED BY <1>7, <1>8, <2>1 DEF ServerInv
<1> QED BY <1>4, <1>5, <1>6, <1>7, <1>9

LEMMA OpeningFrames ==
  ASSUME NEW p \in Ports
  PROVE  ~Free(<<Credits("PN", p, k)>>, Opening) /\ ~Free(<<Frame("SABME", p)>>, Opening)
<1>1. \A f \in Frames : Free(<<f>>, Opening) <=> f.t \notin Opening
  <2>1. <<>> \in Seq(Frames)
    OBVIOUS
  <2> QED BY <2>1, FreeFacts
<1>2. "PN" \in Opening /\ "SABME" \in Opening
  BY DEF Opening
<1> QED BY <1>1, <1>2, StartFrames

LEMMA ServerLinkInv ==
  ASSUME NEW p \in Ports, NEW c \in Port, NEW v \in Port, NEW u \in Port, NEW f \in Inputs,
         NEW up \in Seq(Frames), NEW dn \in Seq(Frames), NEW g \in Seq(Frames),
         NEW w \in Nat, NEW wo \in Nat, NEW wo2 \in Nat,
         NEW ea \in SUBSET Nat, NEW eo \in SUBSET Nat, NEW eo2 \in SUBSET Nat, Live(c),
         PairInv(c, v, In(f) \o up, dn, p, w, wo, ea, eo),
         ServerMove(v, u, f, g, p, wo, wo2, eo, eo2)
  PROVE  LinkInv(c, u, up, dn \o g, p, w, wo2, ea, eo2)
<1> DEFINE in == In(f) \o up
<1>1. /\ f \in Frames /\ f.t \in Opening => Rested(v) /\ (f.t = "SABME" => Awaits(v))
      /\ f \in Frames /\ f.t = "PN" => f.n = k
      /\ u.rfc = "TERM_WAIT_SEC_CHECK" => g = <<>>
      /\ f \in Frames => Free(up, Opening) \/ f.t \notin Opening
      /\ v.rfc = "TERM_WAIT_SEC_CHECK" => Undecided(v)
  <2>1. ServerInv(c, v, In(f) \o up, dn)
    BY DEF PairInv
  <2> QED BY <2>1, ServerServerInv DEF ServerInv
<1>2. /\ in \in Seq(Frames) /\ dn \o g \in Seq(Frames) /\ f.t # "CALL"
      /\ f \in Frames => in # <<>> /\ Head(in) = f /\ Tail(in) = up
      /\ f \notin Frames => in = up /\ f.t = "NONE"
      /\ \A x \in Seq(Frames) : <<>> \o x = x /\ x \o <<>> = x
      /\ \A x : Head(<<x>>) = x /\ Tail(<<x>>) = <<>>
  <2>1. \A x : Head(<<x>>) = x /\ Tail(<<x>>) = <<>>
    OBVIOUS
  <2>2. f.t # "CALL" /\ (f \notin Frames => f.t = "NONE")
    BY InFacts DEF ServerMove
  <2>3. \A x \in Seq(Frames) : <<>> \o x = x /\ x \o <<>> = x
    OBVIOUS
  <2>4. /\ in \in Seq(Frames) /\ dn \o g \in Seq(Frames)
        /\ f \in Frames => in # <<>> /\ Head(in) = f /\ Tail(in) = up
        /\ f \notin Frames => in = up
    BY PipeFacts
  <2> QED BY <2>1, <2>2, <2>3, <2>4
<1>3. LinkInv(c, v, in, dn, p, w, wo, ea, eo)
  BY DEF PairInv
<1>4. CASE Unheard(c, w, ea) /\ Asks(c, v, in, dn, p)
  <2>1. CASE in = <<Credits("PN", p, k)>> /\ dn = <<>> /\ f \in Frames
    <3>1. f = Credits("PN", p, k) /\ up = <<>>
      BY <1>2, <2>1
    <3>2. Rested(v) /\ f.t = "PN" /\ f.n = k
      BY <1>1, <2>1, <3>1, StartFrames DEF Opening
    <3>3. /\ Rested(u)
          /\ \/ g = <<Frame("DM", p)>>
             \/ g = <<Credits("PNR", p, k)>> /\ HasCredits(u)
      BY <3>2 DEF ServerMove
    <3>4. dn \o g = g
      BY <1>2, <2>1
    <3>5. CASE g = <<Frame("DM", p)>>
      <4>1. dn \o g # <<>> /\ Head(dn \o g).t = "DM"
        BY <1>2, <3>4, <3>5, StartFrames
      <4>2. Free(up, Opening)
        BY <3>1, FreeFacts
      <4> QED BY <1>4, <4>1, <4>2 DEF Asks, LinkInv
    <3>6. CASE g = <<Credits("PNR", p, k)>> /\ HasCredits(u)
      BY <1>4, <3>1, <3>3, <3>4, <3>6 DEF Asks, LinkInv, Awaits
    <3> QED BY <3>3, <3>5, <3>6
  <2>2. CASE in = <<Credits("PN", p, k)>> /\ dn = <<>> /\ f \notin Frames
    <3>1. up = <<Credits("PN", p, k)>> /\ f.t = "NONE"
      BY <1>2, <2>2
    <3>2. Rested(v)
      <4>1. ~Free(in, Opening)
        BY <2>2, OpeningFrames
      <4> QED BY <4>1 DEF PairInv, ServerInv
    <3>3. g = <<>>
      BY <3>1, <3>2 DEF ServerMove
    <3> QED BY <1>2, <1>4, <2>2, <3>1, <3>3 DEF Asks, LinkInv
  <2>3. CASE in = <<>> /\ dn = <<Credits("PNR", p, k)>> /\ Awaits(v)
    <3>1. up = <<>> /\ f.t = "NONE"
      BY <1>2, <2>3
    <3>2. g = <<>> /\ Awaits(u)
      BY <2>3, <3>1 DEF ServerMove, Awaits
    <3>3. dn \o g = <<Credits("PNR", p, k)>>
      BY <1>2, <2>3, <3>2
    <3> QED BY <1>4, <3>1, <3>2, <3>3 DEF Asks, LinkInv
  <2>4. CASE Free(in, Opening) /\ dn # <<>> /\ Head(dn).t = "DM"
    <3>1. dn \o g # <<>> /\ Head(dn \o g).t = "DM"
      BY <2>4, Joins
    <3>2. Free(up, Opening)
      <4>1. In(f) \in Seq(Frames)
        BY InFacts
      <4> QED BY <2>4, <4>1, FreeFacts
    <3> QED BY <1>4, <3>1, <3>2 DEF Asks, LinkInv
  <2> QED BY <1>4, <2>1, <2>2, <2>3, <2>4 DEF Asks
<1>5. CASE Unheard(c, w, ea) /\ Checks(c, v, in, dn)
  <2>1. up = <<>> /\ f.t = "NONE" /\ Awaits(v)
    BY <1>2, <1>5 DEF Checks
  <2>2. g = <<>> /\ Awaits(u)
    BY <2>1 DEF ServerMove, Awaits
  <2>3. dn \o g = <<>>
    BY <1>2, <1>5, <2>2 DEF Checks
  <2> QED BY <1>5, <2>1, <2>2, <2>3 DEF Checks, LinkInv
<1>6. CASE Unheard(c, w, ea) /\ Calls(c, v, in, dn, p)
  <2>1. CASE u.rfc = "TERM_WAIT_SEC_CHECK"
    <3>1. g = <<>> /\ dn \o g = <<>>
      BY <1>1, <1>2, <1>6, <2>1 DEF Calls
    <3>2. up = <<Frame("SABME", p)>> \/ up = <<>>
      BY <1>2, <1>6 DEF Calls
    <3> QED BY <1>6, <2>1, <3>1, <3>2 DEF Calls, LinkInv
  <2>2. CASE u.rfc # "TERM_WAIT_SEC_CHECK" /\ in = <<Frame("SABME", p)>> /\ f \in Frames
    <3>1. f = Frame("SABME", p) /\ up = <<>>
      BY <1>2, <2>2
    <3>2. Rested(v)
      BY <1>1, <2>2, <3>1, StartFrames DEF Opening
    <3>3. u.rfc # "OPENED"
      BY <3>1, <3>2, StartFrames DEF ServerMove, Accepts, Rested
    <3>4. Free(up, Opening)
      BY <3>1, FreeFacts
    <3>5. Talks(c, u, up, dn \o g, w, wo2, ea, eo2)
      BY <1>6, <2>2, <3>3, <3>4 DEF Calls, Talks
    <3> QED BY <3>5 DEF LinkInv
  <2>3. CASE u.rfc # "TERM_WAIT_SEC_CHECK" /\ in = <<Frame("SABME", p)>> /\ f \notin Frames
    <3>1. up = <<Frame("SABME", p)>> /\ f.t = "NONE"
      BY <1>2, <2>3
    <3>2. Rested(v)
      <4>1. ~Free(in, Opening)
        BY <2>3, OpeningFrames
      <4> QED BY <4>1 DEF PairInv, ServerInv
    <3>3. dn \o g = <<>>
      BY <1>2, <1>6, <3>1, <3>2 DEF ServerMove, Calls
    <3> QED BY <1>6, <3>1, <3>3 DEF Calls, LinkInv
  <2>4. CASE u.rfc # "TERM_WAIT_SEC_CHECK" /\ in = <<>> /\ v.rfc = "TERM_WAIT_SEC_CHECK"
    <3>1. up = <<>> /\ f.t = "NONE"
      BY <1>2, <2>4
    <3>2. Free(up, Opening)
      BY <3>1, FreeFacts
    <3>3. ASSUME u.rfc = "OPENED"
          PROVE  /\ dn \o g # <<>> /\ Head(dn \o g).t = "UA"
                 /\ FlowInv(c, u, dn \o g, up, w, wo2, ea, eo2)
      <4>1. Accepts(v, u, f, g, p)
        BY <2>4, <3>3 DEF ServerMove
      <4>2. g = <<Frame("UA", p)>> /\ SameFlow(v, u)
        BY <4>1 DEF Accepts
      <4>3. dn \o g = g
        BY <1>2, <1>6 DEF Calls
      <4>4. g # <<>> /\ Head(g).t = "UA" /\ Free(g, {"DATA", "CREDIT"})
        BY <1>2, <4>2, StartFrames, FreeFacts
      <4>5. HasCredits(c) /\ HasCredits(u) /\ c.rx = <<>> /\ u.rx = <<>> /\ u.tx = <<>>
            /\ StreamOk(c.tx, w, ea)
        BY <1>1, <1>6, <2>4, <4>2 DEF Undecided, SameFlow, HasCredits, Calls, Unheard
      <4>6. Free(up, {"DATA", "CREDIT"})
        BY <3>1, FreeFacts
      <4>7. FlowInv(c, u, g, up, w, wo2, ea, eo2)
        BY <4>4, <4>5, <4>6, FlowFresh
      <4> QED BY <4>3, <4>4, <4>7
    <3>4. Talks(c, u, up, dn \o g, w, wo2, ea, eo2)
      BY <1>6, <2>4, <3>2, <3>3 DEF Calls, Talks
    <3> QED BY <3>4 DEF LinkInv
  <2> QED BY <1>6, <2>1, <2>2, <2>3, <2>4 DEF Calls
<1>7. CASE Talks(c, v, in, dn, w, wo, ea, eo)
  <2>1. In(f) \in Seq(Frames) /\ Free(In(f), Opening) /\ Free(up, Opening)
    <3>1. In(f) \in Seq(Frames)
      BY InFacts
    <3> QED BY <1>7, <3>1, FreeFacts DEF Talks
  <2>2. u.rfc # "TERM_WAIT_SEC_CHECK"
    <3>1. f.t # "SABME"
      <4>1. ASSUME f.t = "SABME" PROVE FALSE
        <5>1. f \in Frames /\ In(f) = <<f>>
          BY <4>1, InFacts
        <5> QED BY <2>1, <4>1, <5>1, FreeFacts DEF Opening
      <4> QED BY <4>1
    <3> QED BY <1>7, <3>1 DEF Talks, ServerMove
  <2>3. ASSUME u.rfc = "OPENED"
        PROVE  /\ c.rfc = "SABME_WAIT_UA" => dn \o g # <<>> /\ Head(dn \o g).t = "UA"
               /\ FlowInv(c, u, dn \o g, up, w, wo2, ea, eo2)
    <3>1. v.rfc = "OPENED" /\ Conserves(v, u, In(f), g, wo, wo2, eo, eo2)
      BY <1>7, <2>3 DEF Talks, ServerMove, Accepts
    <3>2. /\ c.rfc = "SABME_WAIT_UA" => dn # <<>> /\ Head(dn).t = "UA"
          /\ FlowInv(c, v, dn, in, w, wo, ea, eo)
      BY <1>7, <3>1 DEF Talks
    <3>3. FlowInv(v, c, In(f) \o up, dn, wo, w, eo, ea)
      BY <3>2, FlowSwap
    <3>4. FlowInv(u, c, up, dn \o g, wo2, w, eo2, ea)
      BY <3>1, <3>3 DEF Conserves
    <3>5. FlowInv(c, u, dn \o g, up, w, wo2, ea, eo2)
      BY <3>4, FlowSwap
    <3>6. dn # <<>> => dn \o g # <<>> /\ Head(dn \o g) = Head(dn)
      BY Joins
    <3> QED BY <3>2, <3>5, <3>6
  <2>4. Talks(c, u, up, dn \o g, w, wo2, ea, eo2)
    BY <1>7, <2>1, <2>2, <2>3 DEF Talks
  <2> QED BY <2>4 DEF LinkInv
<1> QED BY <1>3, <1>4, <1>5, <1>6, <1>7 DEF LinkInv

LEMMA ServerStep ==
  ASSUME NEW p \in Ports, NEW c \in Port, NEW v \in Port, NEW u \in Port, NEW f \in Inputs,
         NEW up \in Seq(Frames), NEW dn \in Seq(Frames), NEW g \in Seq(Frames),
         NEW w \in Nat, NEW wo \in Nat, NEW wo2 \in Nat,
         NEW ea \in SUBSET Nat, NEW eo \in SUBSET Nat, NEW eo2 \in SUBSET Nat,
         PairInv(c, v, In(f) \o up, dn, p, w, wo, ea, eo),
         ServerMove(v, u, f, g, p, wo, wo2, eo, eo2)
  PROVE  PairInv(c, u, up, dn \o g, p, w, wo2, ea, eo2)
<1>1. ServerInv(c, u, up, dn \o g)
  BY ServerServerInv DEF PairInv
<1>2. Live(c) => LinkInv(c, u, up, dn \o g, p, w, wo2, ea, eo2)
  BY ServerLinkInv
<1> QED BY <1>1, <1>2 DEF PairInv

(* The client gives up, and the commands that waited are lost. *)
LEMMA ClientDrops ==
  ASSUME NEW p \in Ports, NEW c \in Port, NEW v \in Port, NEW u \in Port,
         NEW up \in Seq(Frames), NEW x \in Seq(Frames), NEW dn \in Seq(Frames),
         NEW w, NEW wo, NEW ea, NEW eo,
         PairInv(c, v, up \o x, dn, p, w, wo, ea, eo), ~Live(u), u.state = "OPENED" => c.state = "OPENED"
  PROVE  PairInv(u, v, up, dn, p, w, wo, ea, eo)
<1>1. Free(up \o x, Talk) => Free(up, Talk)
  BY FreeFacts
<1>2. Free(up \o x, Opening) => Free(up, Opening)
  BY FreeFacts
<1>3. ASSUME ~Free(up, Opening)
      PROVE  /\ up # <<>> /\ Head(up \o x) = Head(up) /\ Tail(up \o x) = Tail(up) \o x
             /\ Tail(up) \in Seq(Frames)
  <2>1. up # <<>>
    BY <1>3, FreeFacts
  <2> QED BY <2>1, Joins
<1>4. ~Free(up, Opening) => Free(Tail(up \o x), Opening) /\ Rested(v)
                            /\ \/ Head(up \o x).t = "PN" /\ Head(up \o x).n = k
                               \/ Head(up \o x).t = "SABME" /\ Awaits(v)
  BY <1>2 DEF PairInv, ServerInv
<1>5. ~Free(up, Opening) => Free(Tail(up), Opening)
  <2> SUFFICES ASSUME ~Free(up, Opening) PROVE Free(Tail(up), Opening)
    OBVIOUS
  <2>1. Tail(up) \in Seq(Frames) /\ Free(Tail(up) \o x, Opening)
    BY <1>3, <1>4
  <2> QED BY <2>1, FreeFacts
<1>6. ServerInv(u, v, up, dn)
  BY <1>1, <1>2, <1>3, <1>4, <1>5 DEF PairInv, ServerInv
<1> QED BY <1>6 DEF PairInv

-----------------------------------------------------------------------------
(* A port between two steps of its end *)

(* An MSC that waits for its answer, or has it, was sent on this connection; a *)
(* kept server that was released may still expect an answer of the last one.   *)
OwnMsc(s, p, q) ==
  (IsServer(s, p) => q.rfc = "OPENED") /\ ((q.mcb /\ "MSC" \in q.rsp) \/ "REQ_CONFIRMED" \in q.ctrl) =>
    "REQ_SENT" \in q.ctrl

(* What holds of port p of end s, whatever the peer does. *)
Sound(s, p, q) ==
  /\ q.rfc # "CLOSED" => q.mcb
  /\ q.state = "CLOSED" => ~q.mcb
  /\ q.rfc = "OPENED" => q.state = "OPENED"
  /\ q.rfc \in {"ORIG_WAIT_SEC_CHECK", "SABME_WAIT_UA"} \/ "PN" \in q.rsp =>
       ~IsServer(s, p) /\ q.state = "OPENING"
  /\ q.rfc = "TERM_WAIT_SEC_CHECK" => IsServer(s, p)
  /\ "PN" \in q.rsp => q.rfc = "CLOSED"
  /\ q.rfc \in {"ORIG_WAIT_SEC_CHECK", "SABME_WAIT_UA", "OPENED"} => Flows(q)
  /\ Negotiating(q) => ~q.peer_fc
  /\ OwnMsc(s, p, q)
  /\ ~IsServer(s, p) /\ q.state = "OPENING" => "REQ_SENT" \notin q.ctrl

(* A port that waits with data has a reason to. *)
Idle(q, congested) ==
  q.rfc = "OPENED" /\ q.tx # <<>> =>
    q.credit_tx = 0 \/ ~SetUp(q) \/ "REQ_CONFIRMED" \notin q.ctrl \/ congested

(* A multiplexer that is wound up has neither clients nor open ports. *)
Quits(s, p, q) == q.rfc # "OPENED" /\ (IsServer(s, p) \/ ~q.mcb)

Fit(e, p) ==
  /\ Sound(e.self, p, e.port[p])
  /\ Idle(e.port[p], e.congested)
  /\ Stopping(e) => Quits(e.self, p, e.port[p])

(* A port that has no connection stays so until a frame or a call comes. *)
Bare(s, p, q) == Rested(q) /\ ~q.mcb /\ (IsServer(s, p) \/ q.state = "CLOSED")
Rests(s, p, q, u, f, g) == f.t = "NONE" /\ Bare(s, p, q) => Bare(s, p, u) /\ g = <<>>

(* What a port may be given; on is whether its multiplexer is connected. *)
Ready(s, p, on, q, f) ==
  IF IsServer(s, p)
  THEN on => /\ f.t \in Opening => Rested(q)
             /\ f.t = "SABME" => Awaits(q)
             /\ f.t = "PN" => f.n = k
             /\ q.rfc = "TERM_WAIT_SEC_CHECK" => Undecided(q) /\ f.t \notin Talk
  ELSE f.t \notin Opening

Moves(s, p, on, q, u, f, g, w, w2, ea, ea2) ==
  /\ IF IsServer(s, p)
     THEN Free(g, Opening) /\ (on => ServerMove(q, u, f, g, p, w, w2, ea, ea2))
     ELSE ClientMove(q, u, f, g, p, w, w2, ea, ea2)
  /\ Rests(s, p, q, u, f, g)

(* q becomes u, with nothing written. *)
Does(s, p, on, q, u, f, g) ==
  \A w \in Nat, ea \in SUBSET Nat : Moves(s, p, on, q, u, f, g, w, w, ea, ea)

On(e) == e.mx = "CONNECTED"

(* A multiplexer that is no longer connected stays so. *)
Remains(e, r) == Steady(r) /\ r.self = e.self /\ (On(r) => On(e))

PortStep(e, r, p, f) ==
  /\ Fit(r, p) /\ Remains(e, r)
  /\ \E g \in Seq(Frames) :
       /\ Mine(r, p) = Mine(e, p) \o g
       /\ Does(e.self, p, On(e), e.port[p], r.port[p], f, g)

(* u differs from q in nothing that matters here. *)
Alike(q, u) ==
  /\ u.state = q.state /\ u.rfc = q.rfc /\ u.mcb = q.mcb /\ u.rsp = q.rsp /\ u.ctrl = q.ctrl
  /\ u.peer_fc = q.peer_fc /\ SameFlow(q, u)

LEMMA NoneFacts ==
  /\ None \in Inputs /\ None.t = "NONE" /\ In(None) = <<>> /\ None \notin Frames
  /\ None.t \notin Opening /\ None.t \notin Talk /\ <<>> \in Seq(Frames)
  /\ \A T : Free(<<>>, T)
<1>1. None \in Inputs /\ None.t = "NONE"
  BY DEF None, Inputs
<1>2. None \notin Frames
  BY <1>1, InFacts
<1>3. None.t \notin Opening /\ None.t \notin Talk
  BY <1>1 DEF Opening, Talk
<1>4. \A T : Free(<<>>, T)
  BY DEF Free
<1> QED BY <1>1, <1>2, <1>3, <1>4 DEF In

(* What a frame leaves as it was, with an answer that neither opens nor talks. *)
LEMMA DoesAlike ==
  ASSUME NEW s, NEW p \in Ports, NEW on, NEW q \in Port, NEW u \in Port, Alike(q, u),
         NEW f \in Inputs, NEW g \in Seq(Frames), f.t # "CALL",
         Free(g, Opening), Free(g, Talk), f.t = "NONE" => g = <<>>,
         q.rfc = "OPENED" => f.t \notin {"DATA", "CREDIT"},
         ~IsServer(s, p) => ~Connects(q, f) /\ (Negotiating(q) => f.t \notin {"PNR", "DM"}),
         IsServer(s, p) /\ on => /\ q.rfc = "TERM_WAIT_SEC_CHECK" => g = <<>>
                                 /\ Rested(q) /\ f.t = "PN" => g = <<Frame("DM", p)>>
  PROVE  Does(s, p, on, q, u, f, g)
<1> SUFFICES ASSUME NEW w \in Nat, NEW ea \in SUBSET Nat
             PROVE  Moves(s, p, on, q, u, f, g, w, w, ea, ea)
  BY DEF Does
<1>1. ASSUME q.rfc = "OPENED" PROVE Conserves(q, u, In(f), g, w, w, ea, ea)
  <2>1. In(f) \in Seq(Frames) /\ Free(In(f), {"DATA", "CREDIT"})
    <3>1. CASE f \in Frames
      <4>1. In(f) = <<f>> /\ <<>> \in Seq(Frames)
        BY <3>1, InFacts
      <4> QED BY <1>1, <3>1, <4>1, InFacts, FreeFacts
    <3>2. CASE f \notin Frames
      BY <3>2, InFacts, NoneFacts
    <3> QED BY <3>1, <3>2
  <2>2. Free(g, {"DATA", "CREDIT"})
    BY DEF Free, Talk
  <2> QED BY <2>1, <2>2, FlowSame DEF Alike
<1>2. ASSUME ~IsServer(s, p) PROVE ClientMove(q, u, f, g, p, w, w, ea, ea)
  <2>1. ASSUME Live(u), q.rfc = "OPENED" PROVE Uses(q, u, f, g, w, w, ea, ea)
    BY <1>1, <2>1 DEF Uses, Alike
  <2>2. ASSUME Live(u), q.rfc # "OPENED", f.t = "NONE" PROVE Waits(q, u, f, g, w, w, ea, ea)
    BY <2>2 DEF Waits, Alike, SameFlow, Live, Negotiating
  <2>3. ASSUME Live(u), q.rfc # "OPENED", f.t # "NONE" PROVE Passes(q, u, f)
    BY <1>2, <2>3 DEF Passes, Alike, Live, Negotiating
  <2>4. u.state = q.state
    BY DEF Alike
  <2> QED BY <2>1, <2>2, <2>3, <2>4 DEF ClientMove
<1>3. ASSUME IsServer(s, p), on PROVE ServerMove(q, u, f, g, p, w, w, ea, ea)
  <2>1. u.rfc = q.rfc /\ u.state = q.state /\ SameFlow(q, u) /\ u.ctrl = q.ctrl /\ u.peer_fc = q.peer_fc
        /\ u.rsp = q.rsp
    BY DEF Alike
  <2>2. Rested(q) => Rested(u)
    BY <2>1 DEF Rested, SameFlow
  <2>3. Awaits(q) => Awaits(u)
    BY <2>1, <2>2 DEF Awaits, HasCredits, SameFlow
  <2> QED BY <1>1, <1>3, <2>1, <2>2, <2>3 DEF ServerMove
<1>4. Rests(s, p, q, u, f, g)
  BY DEF Rests, Bare, Rested, Alike, SameFlow
<1> QED BY <1>2, <1>3, <1>4 DEF Moves

(* What ends a connection, or the wish for one. *)
LEMMA DoesEnd ==
  ASSUME NEW s, NEW p \in Ports, NEW on, NEW q \in Port, NEW u \in Port,
         NEW f \in Inputs, NEW g \in Seq(Frames), f.t # "CALL",
         Free(g, Opening), Free(g, Talk) \/ q.state = "OPENED",
         ~Live(u), u.rfc # "TERM_WAIT_SEC_CHECK", u.state = "OPENED" => q.state = "OPENED" \/ IsServer(s, p),
         IsServer(s, p) /\ on /\ Rested(q) =>
           /\ f.t = "NONE" => Rested(u) /\ g = <<>> /\ (Awaits(q) => Awaits(u))
           /\ f.t # "PN",
         Rests(s, p, q, u, f, g)
  PROVE  Does(s, p, on, q, u, f, g)
<1> SUFFICES ASSUME NEW w \in Nat, NEW ea \in SUBSET Nat
             PROVE  Moves(s, p, on, q, u, f, g, w, w, ea, ea)
  BY DEF Does
<1>1. ASSUME ~IsServer(s, p) PROVE ClientMove(q, u, f, g, p, w, w, ea, ea)
  BY <1>1 DEF ClientMove
<1>2. ASSUME IsServer(s, p), on PROVE ServerMove(q, u, f, g, p, w, w, ea, ea)
  <2>1. u.rfc # "OPENED"
    BY DEF Live
  <2> QED BY <1>2, <2>1 DEF ServerMove
<1> QED BY <1>1, <1>2 DEF Moves

LEMMA AlikeKept ==
  ASSUME NEW s, NEW p, NEW q, NEW u, Alike(q, u), NEW b
  PROVE  /\ Sound(s, p, q) => Sound(s, p, u)
         /\ Idle(q, b) => Idle(u, b)
         /\ Quits(s, p, q) => Quits(s, p, u)
<1>1. /\ u.state = q.state /\ u.rfc = q.rfc /\ u.mcb = q.mcb /\ u.rsp = q.rsp /\ u.ctrl = q.ctrl
      /\ u.peer_fc = q.peer_fc /\ u.credit_tx = q.credit_tx /\ u.tx = q.tx
  BY DEF Alike, SameFlow
<1>2. (Flows(u) <=> Flows(q)) /\ (Negotiating(u) <=> Negotiating(q)) /\ (SetUp(u) <=> SetUp(q))
  BY <1>1 DEF Flows, Negotiating, SetUp
<1>3. Sound(s, p, q) => Sound(s, p, u)
  BY <1>1, <1>2 DEF Sound, OwnMsc
<1>4. Idle(q, b) => Idle(u, b)
  BY <1>1, <1>2 DEF Idle
<1>5. Quits(s, p, q) => Quits(s, p, u)
  BY <1>1 DEF Quits
<1> QED BY <1>3, <1>4, <1>5

LEMMA AlikeSelf == \A q : Alike(q, q)
BY DEF Alike, SameFlow

(* p becomes u when it takes f and sends g. *)
Turns(e, p, u, f, g) ==
  /\ Sound(e.self, p, u) /\ Idle(u, e.congested)
  /\ Does(e.self, p, On(e), e.port[p], u, f, g)

(* The ports that a handler does not concern. *)
LEMMA AltersOthers ==
  ASSUME NEW e, Steady(e), NEW p \in Ports, \A x \in Ports : Fit(e, x),
         NEW r, NEW u, NEW g \in Seq(Frames), Alters(e, r, p, u, g), Winds(e, r)
  PROVE  \A x \in Ports \ {p} : PortStep(e, r, x, None)
<1>1. /\ r.self = e.self /\ r.congested = e.congested
      /\ \A x \in Ports \ {p} : r.port[x] = e.port[x] /\ Mine(r, x) = Mine(e, x)
  <2>1. r.self = e.self /\ r.congested = e.congested
    BY DEF Alters
  <2>2. \A x \in Ports \ {p} : r.port[x] = e.port[x]
    BY DEF Alters, Steady, Ends
  <2>3. \A x \in Ports \ {p} : Mine(r, x) = Mine(e, x)
    BY DEF Alters
  <2> QED BY <2>1, <2>2, <2>3
<1>2. \A x \in Ports : NoPorts(r) => ~r.port[x].mcb
  BY DEF NoPorts
<1>4. ASSUME NEW x \in Ports, x # p PROVE PortStep(e, r, x, None)
  <2>1. Fit(e, x) /\ r.port[x] = e.port[x] /\ Mine(r, x) = Mine(e, x)
    BY <1>1, <1>4
  <2>2. Fit(r, x)
    <3>1. Stopping(r) => Quits(r.self, x, r.port[x])
      <4>1. CASE NoPorts(r)
        BY <1>1, <1>2, <2>1, <4>1 DEF Fit, Sound, OwnMsc, Quits
      <4> QED BY <1>1, <2>1, <4>1 DEF Winds, Fit
    <3> QED BY <1>1, <2>1, <3>1 DEF Fit
  <2>3. e.port[x] \in Port /\ Mine(e, x) \in Seq(Frames)
    BY MineType DEF Steady, Ends
  <2>4. Does(e.self, x, On(e), e.port[x], r.port[x], None, <<>>)
    <3>1. Alike(e.port[x], e.port[x]) /\ None.t = "NONE" /\ None \in Inputs
      BY AlikeSelf, NoneFacts
    <3>2. ~Connects(e.port[x], None)
      BY <3>1 DEF Connects
    <3>3. Does(e.self, x, On(e), e.port[x], e.port[x], None, <<>>)
      BY <2>3, <3>1, <3>2, NoneFacts, DoesAlike
    <3> QED BY <2>1, <3>3
  <2>5. Mine(r, x) = Mine(e, x) \o <<>> /\ <<>> \in Seq(Frames)
    BY <2>1, <2>3
  <2>6. Remains(e, r)
    BY DEF Winds, On, Alters, Remains
  <2> QED BY <2>2, <2>4, <2>5, <2>6 DEF PortStep
<1> QED BY <1>4

LEMMA AltersStep ==
  ASSUME NEW e, Steady(e), NEW p \in Ports, \A x \in Ports : Fit(e, x),
         NEW r, NEW u, NEW g \in Seq(Frames), NEW f, Alters(e, r, p, u, g), Winds(e, r),
         Turns(e, p, u, f, g), Stopping(r) /\ Stopping(e) => Quits(e.self, p, u)
  PROVE  \A x \in Ports : PortStep(e, r, x, IF x = p THEN f ELSE None)
<1>1. /\ r.self = e.self /\ r.congested = e.congested /\ r.port[p] = u
      /\ Mine(r, p) = Mine(e, p) \o g
  <2>1. r.self = e.self /\ r.congested = e.congested
    BY DEF Alters
  <2> QED BY <2>1, AltersPorts
<1>2. NoPorts(r) => ~r.port[p].mcb
  BY DEF NoPorts
<1>3. PortStep(e, r, p, f)
  <2>1. Sound(r.self, p, r.port[p]) /\ Idle(r.port[p], r.congested)
    BY <1>1 DEF Turns
  <2>2. Stopping(r) => Quits(r.self, p, r.port[p])
    <3>1. CASE NoPorts(r)
      BY <1>2, <2>1, <3>1 DEF Sound, OwnMsc, Quits
    <3> QED BY <1>1, <3>1 DEF Winds
  <2>3. Remains(e, r)
    BY DEF Winds, On, Alters, Remains
  <2> QED BY <1>1, <2>1, <2>2, <2>3 DEF PortStep, Fit, Turns
<1>4. \A x \in Ports \ {p} : PortStep(e, r, x, None)
  BY AltersOthers
<1> QED BY <1>3, <1>4

(* A port that opens nothing may do so while the multiplexer is wound up. *)
LEMMA QuitsKept ==
  ASSUME NEW e, NEW p, Fit(e, p), NEW u,
         u.rfc = "OPENED" => e.port[p].rfc = "OPENED", u.mcb => e.port[p].mcb \/ IsServer(e.self, p)
  PROVE  Stopping(e) => Quits(e.self, p, u)
BY DEF Fit, Quits

(* What is left of a port that was released. *)
LEMMA ReleasedPort ==
  ASSUME NEW q \in Port
  PROVE  LET u == port_release_port(q)
         IN /\ u.rfc = "CLOSED" /\ ~u.mcb /\ u.state \in {"OPENING", "CLOSED"}
            /\ u.ctrl = {} /\ u.rsp \subseteq q.rsp /\ (u.state = "CLOSED" => u.rsp = {})
            /\ u.tx = <<>> /\ u.rx = <<>> /\ ~u.peer_fc /\ (~q.keep => u.state = "CLOSED")
<1> DEFINE c == [Listening EXCEPT !.rsp = q.rsp]
<1>1. /\ Unused.rfc = "CLOSED" /\ ~Unused.mcb /\ Unused.state = "CLOSED" /\ Unused.ctrl = {}
      /\ Unused.rsp = {} /\ Unused.tx = <<>> /\ Unused.rx = <<>> /\ ~Unused.peer_fc
  BY DEF Unused
<1>2. /\ c.rfc = "CLOSED" /\ ~c.mcb /\ c.state = "OPENING" /\ c.ctrl = {} /\ c.rsp = q.rsp
      /\ c.tx = <<>> /\ c.rx = <<>> /\ ~c.peer_fc
  BY DEF Listening, Unused
<1> HIDE DEF c
<1>3. CASE q.keep
  <2> DEFINE u == port_release_port(q)
  <2>1. u = c
    BY <1>3 DEF port_release_port, c
  <2> HIDE DEF u
  <2>2. /\ u.rfc = "CLOSED" /\ ~u.mcb /\ u.state = "OPENING" /\ u.ctrl = {} /\ u.rsp = q.rsp
        /\ u.tx = <<>> /\ u.rx = <<>> /\ ~u.peer_fc
    BY <1>2, <2>1
  <2>3. u.rsp \subseteq q.rsp
    BY <2>2
  <2> QED BY <1>3, <2>2, <2>3 DEF u
<1>4. CASE ~q.keep
  <2> DEFINE u == port_release_port(q)
  <2>1. u = Unused
    BY <1>4 DEF port_release_port
  <2> HIDE DEF u
  <2>2. /\ u.rfc = "CLOSED" /\ ~u.mcb /\ u.state = "CLOSED" /\ u.ctrl = {} /\ u.rsp = {}
        /\ u.tx = <<>> /\ u.rx = <<>> /\ ~u.peer_fc
    BY <1>1, <2>1
  <2>3. u.rsp \subseteq q.rsp
    BY <2>2
  <2> QED BY <1>4, <2>2, <2>3 DEF u
<1> QED BY <1>3, <1>4

(* A port that was closed. *)
LEMMA ClosedSound ==
  ASSUME NEW s, NEW p \in Ports, NEW q \in Port, IsServer(s, p) => "PN" \notin q.rsp, NEW b
  PROVE  LET u == Closed(s, p, q)
         IN /\ Sound(s, p, u) /\ Idle(u, b) /\ u.rfc = "CLOSED" /\ ~u.mcb
            /\ u.state \in {"OPENING", "CLOSED"} /\ ~Live(u)
            /\ IsServer(s, p) /\ Rested(q) /\ q.state = "OPENING" =>
                 Rested(u) /\ (Awaits(q) => Awaits(u))
<1> DEFINE u == Closed(s, p, q)
<1>1. CASE q.state = "OPENING" /\ IsServer(s, p)
  <2>1. u = [q EXCEPT !.timer = FALSE, !.rfc = "CLOSED", !.mcb = FALSE]
    BY <1>1 DEF Closed
  <2>2. /\ u.rfc = "CLOSED" /\ ~u.mcb /\ u.state = "OPENING" /\ u.rsp = q.rsp /\ u.ctrl = q.ctrl
        /\ u.peer_fc = q.peer_fc /\ SameFlow(q, u)
    BY <1>1, <2>1 DEF Port, SameFlow
  <2> HIDE DEF u
  <2>3. ~Live(u)
    BY <2>2 DEF Live, Negotiating
  <2>4. Sound(s, p, u)
    BY <1>1, <2>2, <2>3 DEF Sound, OwnMsc, Live
  <2>5. Idle(u, b)
    BY <2>2 DEF Idle
  <2>6. Rested(q) => Rested(u) /\ (Awaits(q) => Awaits(u))
    BY <1>1, <2>2 DEF Rested, Awaits, HasCredits, SameFlow
  <2> QED BY <2>2, <2>3, <2>4, <2>5, <2>6 DEF u
<1>2. CASE ~(q.state = "OPENING" /\ IsServer(s, p))
  <2>1. u = port_release_port(q)
    BY <1>2 DEF Closed
  <2>2. /\ u.rfc = "CLOSED" /\ ~u.mcb /\ u.state \in {"OPENING", "CLOSED"} /\ u.ctrl = {}
        /\ u.rsp \subseteq q.rsp /\ (u.state = "CLOSED" => u.rsp = {})
    BY <2>1, ReleasedPort
  <2> HIDE DEF u
  <2>3. Sound(s, p, u) /\ Idle(u, b) /\ ~Live(u)
    BY <2>2 DEF Sound, OwnMsc, Negotiating, Idle, Live
  <2> QED BY <1>2, <2>2, <2>3 DEF u
<1> QED BY <1>1, <1>2

-----------------------------------------------------------------------------
(* The handlers of frames *)

Steps(e, r, p, f) == \A x \in Ports : PortStep(e, r, x, IF x = p THEN f ELSE None)

(* What is answered to a frame that is not wanted, or that closes. *)
LEMMA PlainFrames ==
  ASSUME NEW p \in Ports, NEW t \in {"UA", "DM", "DISC"}
  PROVE  /\ <<Frame(t, p)>> \in Seq(Frames)
         /\ Free(<<Frame(t, p)>>, Opening) /\ Free(<<Frame(t, p)>>, Talk)
<1>1. Frame(t, p) \in Frames /\ Frame(t, p).t = t
  BY FrameTypes DEF Frame
<1>2. <<>> \in Seq(Frames)
  OBVIOUS
<1>3. t \notin Opening /\ t \notin Talk
  BY DEF Opening, Talk
<1> HIDE DEF Frame
<1>4. \A T : \A f \in Frames : Free(<<f>>, T) <=> f.t \notin T
  BY <1>2, FreeFacts
<1>5. Free(<<Frame(t, p)>>, Opening) /\ Free(<<Frame(t, p)>>, Talk)
  BY <1>1, <1>3, <1>4
<1>6. <<Frame(t, p)>> \in Seq(Frames)
  BY <1>1
<1> QED BY <1>5, <1>6

LEMMA StayStep ==
  ASSUME NEW e, Steady(e), NEW p \in Ports, \A x \in Ports : Fit(e, x),
         NEW r, NEW u, NEW f \in Inputs, NEW g \in Seq(Frames), Alters(e, r, p, u, g), Winds(e, r),
         Alike(e.port[p], u), f.t # "CALL", Free(g, Opening), Free(g, Talk),
         f.t = "NONE" => g = <<>>,
         e.port[p].rfc = "OPENED" => f.t \notin {"DATA", "CREDIT"},
         ~IsServer(e.self, p) => /\ ~Connects(e.port[p], f)
                                 /\ Negotiating(e.port[p]) => f.t \notin {"PNR", "DM"},
         IsServer(e.self, p) /\ On(e) =>
           /\ e.port[p].rfc = "TERM_WAIT_SEC_CHECK" => g = <<>>
           /\ Rested(e.port[p]) /\ f.t = "PN" => g = <<Frame("DM", p)>>
  PROVE  Steps(e, r, p, f)
<1> DEFINE q == e.port[p]
           s == e.self
           on == On(e)
<1>1. q \in Port /\ u \in Port /\ Fit(e, p)
  BY AltersPorts
<1> HIDE DEF q, s, on
<1>2. Does(s, p, on, q, u, f, g)
  BY <1>1, DoesAlike DEF q, s, on
<1>3. Sound(s, p, u) /\ Idle(u, e.congested) /\ (Stopping(e) => Quits(s, p, u))
  BY <1>1, AlikeKept DEF q, s, Fit
<1>4. Turns(e, p, u, f, g)
  BY <1>2, <1>3 DEF Turns, q, s, on
<1>5. \A x \in Ports : PortStep(e, r, x, IF x = p THEN f ELSE None)
  BY <1>3, <1>4, AltersStep DEF s
<1> QED BY <1>5 DEF Steps

(* Nothing changes. *)
LEMMA SameStep ==
  ASSUME NEW e, Steady(e), NEW p \in Ports, \A x \in Ports : Fit(e, x),
         NEW f \in Inputs, f.t \notin {"CALL", "PN"},
         e.port[p].rfc = "OPENED" => f.t \notin {"DATA", "CREDIT"},
         ~IsServer(e.self, p) => /\ ~Connects(e.port[p], f)
                                 /\ Negotiating(e.port[p]) => f.t \notin {"PNR", "DM"}
  PROVE  Steps(e, e, p, f)
<1>1. Alters(e, e, p, e.port[p], <<>>) /\ Winds(e, e) /\ Alike(e.port[p], e.port[p])
  BY AltersNot, AlikeSelf DEF Winds
<1> QED BY <1>1, NoneFacts, StayStep

LEMMA EndStep ==
  ASSUME NEW e, Steady(e), NEW p \in Ports, \A x \in Ports : Fit(e, x),
         NEW r, NEW u, NEW f \in Inputs, NEW g \in Seq(Frames), Alters(e, r, p, u, g), Winds(e, r),
         Sound(e.self, p, u), f.t # "CALL", Free(g, Opening),
         Free(g, Talk) \/ e.port[p].state = "OPENED",
         ~Live(u), u.rfc # "TERM_WAIT_SEC_CHECK", u.mcb => e.port[p].mcb \/ IsServer(e.self, p),
         u.state = "OPENED" => e.port[p].state = "OPENED" \/ IsServer(e.self, p),
         IsServer(e.self, p) /\ On(e) /\ Rested(e.port[p]) =>
           /\ f.t = "NONE" => Rested(u) /\ g = <<>> /\ (Awaits(e.port[p]) => Awaits(u))
           /\ f.t # "PN",
         Rests(e.self, p, e.port[p], u, f, g)
  PROVE  Steps(e, r, p, f)
<1> DEFINE q == e.port[p]
           s == e.self
           on == On(e)
<1>1. q \in Port /\ u \in Port /\ Fit(e, p)
  BY AltersPorts
<1>2. u.rfc # "OPENED"
  BY DEF Live
<1>3. Stopping(e) => Quits(e.self, p, u)
  BY <1>1, <1>2, QuitsKept
<1> HIDE DEF q, s, on
<1>4. Does(s, p, on, q, u, f, g)
  BY <1>1, DoesEnd DEF q, s, on
<1>5. Turns(e, p, u, f, g)
  BY <1>2, <1>4 DEF Turns, q, s, on, Idle
<1>6. \A x \in Ports : PortStep(e, r, x, IF x = p THEN f ELSE None)
  BY <1>3, <1>5, AltersStep DEF s
<1> QED BY <1>6 DEF Steps

(* The port, or what became of it before, is closed. *)
LEMMA ClosedStep ==
  ASSUME NEW e, Steady(e), NEW p \in Ports, \A x \in Ports : Fit(e, x),
         NEW r, NEW q \in Port, NEW f \in Inputs, NEW g \in Seq(Frames),
         Alters(e, r, p, Closed(e.self, p, q), g), Winds(e, r), f.t # "CALL",
         Free(g, Opening), Free(g, Talk),
         q.rsp \subseteq e.port[p].rsp, q.ctrl = e.port[p].ctrl,
         IsServer(e.self, p) /\ On(e) /\ Rested(e.port[p]) => f.t \notin {"NONE", "PN"},
         Rested(e.port[p]) => f.t # "NONE"
  PROVE  Steps(e, r, p, f)
<1> DEFINE u == Closed(e.self, p, q)
<1>1. Sound(e.self, p, e.port[p])
  BY DEF Fit
<1>2. IsServer(e.self, p) => "PN" \notin q.rsp
  BY <1>1 DEF Sound, OwnMsc
<1>3. /\ Sound(e.self, p, u) /\ u.rfc = "CLOSED" /\ ~u.mcb /\ u.state \in {"OPENING", "CLOSED"} /\ ~Live(u)
  BY <1>2, ClosedSound
<1> HIDE DEF u
<1>4. Alters(e, r, p, u, g)
  BY DEF u
<1>5. Rests(e.self, p, e.port[p], u, f, g)
  BY DEF Rests, Bare
<1> QED BY <1>3, <1>4, <1>5, EndStep

(* PN *)
LEMMA PnStep ==
  ASSUME NEW e, Steady(e), NEW p \in Ports, \A x \in Ports : Fit(e, x), e.mx # "IDLE",
         NEW f \in Frames, f.p = p, f.t = "PN", Ready(e.self, p, On(e), e.port[p], f)
  PROVE  Steps(e, rfc_process_pn(e, f), p, f)
<1> DEFINE q == e.port[p]
           r == rfc_process_pn(e, f)
           found == (q.mcb \/ port_find_dlci_port(e, p)) /\ e.mx # "DISC_WAIT_UA"
           d == <<Frame("DM", p)>>
           g == <<Credits("PNR", p, k)>>
           u == Answering(q, f.n)
<1>1. /\ IsServer(e.self, p) /\ Fit(e, p) /\ f \in Inputs
      /\ On(e) => Rested(q) /\ f.n = k
  BY DEF Ready, Opening, Inputs
<1>2. /\ e.mx \in {"CONNECTED", "DISC_WAIT_UA"} /\ q \in Port /\ f.n \in 0..credit_rx_max
  BY DEF Steady, Ends, Frames
<1>3. /\ Winds(e, r)
      /\ found => Alters(e, r, p, u, g)
      /\ ~found => Alters(e, r, p, q, d)
  BY ProcessPnActs
<1> HIDE DEF r
<1>4. CASE ~found
  <2>1. Alters(e, r, p, q, d) /\ Alike(q, q) /\ d \in Seq(Frames) /\ Free(d, Opening) /\ Free(d, Talk)
    BY <1>3, <1>4, AlikeSelf, PlainFrames
  <2>2. On(e) => q.rfc = "CLOSED"
    BY <1>1 DEF Rested
  <2> HIDE DEF found
  <2> QED BY <1>1, <1>3, <2>1, <2>2, StayStep DEF d, r
<1>5. CASE found
  <2>2. On(e) /\ Rested(q) /\ f.n = k /\ q.state # "CLOSED"
    BY <1>1, <1>2, <1>5 DEF On, port_find_dlci_port, Fit, Sound, OwnMsc
  <2>3. u = [q EXCEPT !.credit_tx = f.n, !.peer_fc = @ \/ f.n = 0, !.mcb = TRUE, !.credit_rx = k]
    BY <1>2, AnsweredFields
  <2>4. /\ u.state = q.state /\ u.rfc = "CLOSED" /\ u.mcb /\ u.rsp = q.rsp /\ u.ctrl = q.ctrl
        /\ u.tx = q.tx /\ u.rx = q.rx /\ ~u.peer_fc /\ u.credit_tx = k /\ u.credit_rx = k
    <3>1. k # 0 /\ ~q.peer_fc /\ q.rfc = "CLOSED"
      BY <2>2, Constants DEF Rested
    <3> QED BY <1>2, <2>2, <2>3, <3>1 DEF Port
  <2> HIDE DEF u
  <2>5. Rested(u) /\ HasCredits(u) /\ "PN" \notin u.rsp
    BY <1>1, <2>2, <2>4 DEF Rested, HasCredits, Fit, Sound, OwnMsc
  <2>6. Sound(e.self, p, u)
    BY <1>1, <2>2, <2>4, <2>5 DEF Fit, Sound, OwnMsc, Negotiating
  <2>7. Idle(u, e.congested)
    BY <2>4 DEF Idle
  <2>8. Does(e.self, p, On(e), q, u, f, g)
    <3>1. ASSUME NEW w, NEW ea PROVE ServerMove(q, u, f, g, p, w, w, ea, ea)
      <4>1. Free(g, Opening)
        <5>1. <<>> \in Seq(Frames) /\ Credits("PNR", p, k) \in Frames /\ Credits("PNR", p, k).t = "PNR"
          BY StartFrames
        <5>2. "PNR" \notin Opening
          BY DEF Opening
        <5> QED BY <5>1, <5>2, FreeFacts
      <4> QED BY <2>4, <2>5, <4>1 DEF ServerMove
    <3>2. Free(g, Opening)
      BY <3>1 DEF ServerMove
    <3> QED BY <1>1, <3>1, <3>2 DEF Does, Moves, Rests
  <2>9. Turns(e, p, u, f, g)
    BY <2>6, <2>7, <2>8 DEF Turns
  <2>10. Stopping(e) => Quits(e.self, p, u)
    BY <1>1, <2>4 DEF Quits
  <2>11. g \in Seq(Frames)
    BY StartFrames
  <2>12. Alters(e, r, p, u, g)
    BY <1>3, <1>5 DEF u
  <2> HIDE DEF g, q, found
  <2>13. \A x \in Ports : PortStep(e, r, x, IF x = p THEN f ELSE None)
    BY <1>3, <2>9, <2>10, <2>11, <2>12, AltersStep
  <2> QED BY <2>13 DEF Steps, r
<1> QED BY <1>4, <1>5 DEF r

(* The answer to PN *)
LEMMA PnrStep ==
  ASSUME NEW e, Steady(e), NEW p \in Ports, \A x \in Ports : Fit(e, x),
         NEW f \in Frames, f.p = p, f.t = "PNR"
  PROVE  Steps(e, rfc_process_pn(e, f), p, f)
<1> DEFINE q == e.port[p]
           r == rfc_process_pn(e, f)
           heard == q.mcb /\ "PN" \in q.rsp
           late == q.state = "OPENING" /\ e.mx # "CONNECTED"
           u == Proceeds(q, f.n)
           c == Answered(q, f.n)
<1>1. /\ Fit(e, p) /\ f \in Inputs /\ q \in Port /\ f.n \in 0..credit_rx_max
      /\ f.n \in Nat
  BY Constants DEF Inputs, Steady, Ends, Frames
<1>2. /\ Winds(e, r)
      /\ ~heard => r = e
      /\ heard /\ late => Alters(e, r, p, Closed(e.self, p, c), <<>>)
      /\ heard /\ ~late => Alters(e, r, p, u, <<>>)
  BY ProcessPnrActs
<1> HIDE DEF r
<1>3. /\ c = [q EXCEPT !.credit_tx = f.n, !.peer_fc = @ \/ f.n = 0, !.rsp = @ \ {"PN"}, !.timer = FALSE]
      /\ c \in Port
  BY <1>1, AnsweredFields
<1>4. CASE ~heard
  <2>1. ~Negotiating(q) /\ ~Connects(q, f)
    BY <1>4 DEF Negotiating, Connects
  <2> QED BY <1>1, <1>2, <1>4, <2>1, SameStep DEF r
<1>5. CASE heard /\ late
  <2>1. c.rsp \subseteq q.rsp /\ c.ctrl = q.ctrl
    BY <1>1, <1>3 DEF Port
  <2>2. ~Rested(q) \/ f.t \notin {"NONE", "PN"}
    OBVIOUS
  <2> HIDE DEF c, u
  <2> QED BY <1>1, <1>2, <1>3, <1>5, <2>1, NoneFacts, ClosedStep DEF r
<1>6. CASE heard /\ ~late
  <2>1. /\ ~IsServer(e.self, p) /\ q.state = "OPENING" /\ q.rfc = "CLOSED" /\ ~q.peer_fc
        /\ "REQ_SENT" \notin q.ctrl /\ "MSC" \notin q.rsp /\ "REQ_CONFIRMED" \notin q.ctrl
        /\ Negotiating(q) /\ q.mcb
    BY <1>1, <1>6 DEF Fit, Sound, OwnMsc, Negotiating
  <2>2. u = [c EXCEPT !.rfc = "ORIG_WAIT_SEC_CHECK"]
    BY <1>1, <1>3, <2>1 DEF Proceeds, Port
  <2>3. /\ u.state = q.state /\ u.rfc = "ORIG_WAIT_SEC_CHECK" /\ u.mcb /\ u.ctrl = q.ctrl
        /\ u.rsp = q.rsp \ {"PN"}
        /\ u.tx = q.tx /\ u.rx = q.rx /\ u.credit_tx = f.n /\ u.credit_rx = q.credit_rx
        /\ (u.peer_fc <=> f.n = 0)
    BY <1>1, <1>3, <2>1, <2>2 DEF Port
  <2> HIDE DEF u, c
  <2>4. Sound(e.self, p, u)
    BY <1>1, <2>1, <2>3 DEF Sound, OwnMsc, Flows, Negotiating
  <2>5. Idle(u, e.congested)
    BY <2>3 DEF Idle
  <2>6. Does(e.self, p, On(e), q, u, f, <<>>)
    <3>1. Hears(q, u, f, <<>>)
      BY <2>1, <2>3 DEF Hears
    <3>2. ASSUME NEW w, NEW ea PROVE ClientMove(q, u, f, <<>>, p, w, w, ea, ea)
      <4>1. u.state # "OPENED"
        BY <2>1, <2>3
      <4> QED BY <3>1, <4>1, NoneFacts DEF ClientMove
    <3> QED BY <2>1, <3>2 DEF Does, Moves, Rests
  <2>7. Turns(e, p, u, f, <<>>)
    BY <2>4, <2>5, <2>6 DEF Turns
  <2>8. Stopping(e) => Quits(e.self, p, u)
    BY <1>1, <2>1, <2>3, QuitsKept
  <2>9. Alters(e, r, p, u, <<>>)
    BY <1>2, <1>6
  <2> HIDE DEF q, heard, late
  <2>10. \A x \in Ports : PortStep(e, r, x, IF x = p THEN f ELSE None)
    BY <1>2, <2>7, <2>8, <2>9, NoneFacts, AltersStep
  <2> QED BY <2>10 DEF Steps, r
<1> QED BY <1>4, <1>5, <1>6

(* SABME *)
LEMMA SabmeStep ==
  ASSUME NEW e, Steady(e), NEW p \in Ports, \A x \in Ports : Fit(e, x),
         NEW f \in Frames, f.p = p, f.t = "SABME", Ready(e.self, p, On(e), e.port[p], f)
  PROVE  Steps(e, OnSABME(e, p), p, f)
<1> DEFINE q == e.port[p]
           r == OnSABME(e, p)
           found == q.mcb \/ port_find_dlci_port(e, p)
           ua == <<Frame("UA", p)>>
           dm == <<Frame("DM", p)>>
           u == Deciding(q)
<1>1. /\ IsServer(e.self, p) /\ Sound(e.self, p, q) /\ f \in Inputs /\ q \in Port
      /\ On(e) => Rested(q)
  BY DEF Ready, Opening, Inputs, Fit, Steady, Ends
<1>2. /\ Calm(e, r)
      /\ ~found => Alters(e, r, p, q, dm)
      /\ found /\ q.rfc = "CLOSED" => Alters(e, r, p, u, <<>>)
      /\ found /\ q.rfc \in {"SABME_WAIT_UA", "OPENED"} => Alters(e, r, p, Found(q), ua)
      /\ found /\ q.rfc = "DISC_WAIT_UA" => Alters(e, r, p, Found(q), dm)
      /\ found /\ q.rfc \in {"ORIG_WAIT_SEC_CHECK", "TERM_WAIT_SEC_CHECK"} =>
           Alters(e, r, p, Found(q), <<>>)
  BY SabmeActs
<1> HIDE DEF r
<1>3. Winds(e, r)
  BY <1>2, CalmWinds
<1>4. /\ ua \in Seq(Frames) /\ Free(ua, Opening) /\ Free(ua, Talk)
      /\ dm \in Seq(Frames) /\ Free(dm, Opening) /\ Free(dm, Talk)
  BY PlainFrames
<1> HIDE DEF ua, dm
<1>5. CASE ~found
  <2>1. On(e) => q.rfc = "CLOSED"
    BY <1>1 DEF Rested
  <2>2. Alike(q, q)
    BY AlikeSelf
  <2> HIDE DEF found
  <2> QED BY <1>1, <1>2, <1>3, <1>4, <1>5, <2>1, <2>2, StayStep DEF r
<1>6. CASE found /\ q.rfc = "CLOSED"
  <2>1. q.state # "CLOSED"
    BY <1>1, <1>6 DEF port_find_dlci_port, Sound, OwnMsc
  <2>2. /\ u.state = q.state /\ u.rfc = "TERM_WAIT_SEC_CHECK" /\ u.mcb /\ u.rsp = q.rsp
        /\ u.ctrl = q.ctrl /\ u.peer_fc = q.peer_fc /\ SameFlow(q, u)
    BY <1>1 DEF Deciding, Port, SameFlow
  <2> HIDE DEF u
  <2>3. Sound(e.self, p, u)
    BY <1>1, <2>1, <2>2 DEF Sound, OwnMsc, Negotiating
  <2>4. Idle(u, e.congested)
    BY <2>2 DEF Idle
  <2>5. Does(e.self, p, On(e), q, u, f, <<>>)
    <3>1. ASSUME NEW w, NEW ea PROVE ServerMove(q, u, f, <<>>, p, w, w, ea, ea)
      BY <1>6, <2>1, <2>2, NoneFacts DEF ServerMove
    <3> QED BY <1>1, <3>1, NoneFacts DEF Does, Moves, Rests
  <2>6. Turns(e, p, u, f, <<>>)
    BY <2>3, <2>4, <2>5 DEF Turns
  <2>7. Stopping(e) => Quits(e.self, p, u)
    BY <1>1, <2>2 DEF Quits
  <2>8. Alters(e, r, p, u, <<>>)
    BY <1>2, <1>6
  <2> HIDE DEF q, found
  <2>9. \A x \in Ports : PortStep(e, r, x, IF x = p THEN f ELSE None)
    BY <1>3, <2>6, <2>7, <2>8, NoneFacts, AltersStep
  <2> QED BY <2>9 DEF Steps, r
<1>7. CASE found /\ q.rfc # "CLOSED"
  <2>1. ~On(e) /\ q.mcb
    BY <1>1, <1>7 DEF Rested, Sound, OwnMsc
  <2>2. Found(q) = q
    BY <1>1, <2>1 DEF Found, Port
  <2>3. PICK g \in {ua, dm, <<>>} : Alters(e, r, p, q, g)
    BY <1>1, <1>2, <1>7, <2>2 DEF Port, States
  <2>4. g \in Seq(Frames) /\ Free(g, Opening) /\ Free(g, Talk)
    BY <1>4, <2>3, NoneFacts
  <2>5. Alike(q, q)
    BY AlikeSelf
  <2> HIDE DEF found
  <2> QED BY <1>1, <1>3, <2>1, <2>3, <2>4, <2>5, StayStep DEF r
<1> QED BY <1>5, <1>6, <1>7

(* UA *)
LEMMA UaStep ==
  ASSUME NEW e, Steady(e), NEW p \in Ports, \A x \in Ports : Fit(e, x),
         NEW f \in Frames, f.p = p, f.t = "UA"
  PROVE  Steps(e, OnUA(e, p), p, f)
<1> DEFINE q == e.port[p]
           r == OnUA(e, p)
           u == Asked(Confirmed(q))
           g == <<Frame("MSC", p)>>
<1>1. /\ Fit(e, p) /\ f \in Inputs /\ q \in Port
  BY DEF Inputs, Steady, Ends
<1>2. /\ Winds(e, r)
      /\ q.rfc = "SABME_WAIT_UA" => Alters(e, r, p, u, g) /\ Calm(e, r) /\ ~r.timer
      /\ q.rfc = "DISC_WAIT_UA" => Alters(e, r, p, Closed(e.self, p, q), <<>>)
      /\ q.rfc \notin {"SABME_WAIT_UA", "DISC_WAIT_UA"} => r = e
  BY UaActs
<1> HIDE DEF r
<1>3. CASE q.rfc \notin {"SABME_WAIT_UA", "DISC_WAIT_UA"}
  <2>1. ~Connects(q, f)
    BY <1>3 DEF Connects
  <2> QED BY <1>1, <1>2, <1>3, <2>1, SameStep DEF r
<1>4. CASE q.rfc = "DISC_WAIT_UA"
  <2>1. ~Rested(q) \/ f.t \notin {"NONE", "PN"}
    OBVIOUS
  <2> HIDE DEF u, g
  <2> QED BY <1>1, <1>2, <1>4, NoneFacts, ClosedStep DEF r
<1>5. CASE q.rfc = "SABME_WAIT_UA"
  <2>1. /\ ~IsServer(e.self, p) /\ Flows(q) /\ q.mcb /\ "PN" \notin q.rsp
    BY <1>1, <1>5 DEF Fit, Sound, OwnMsc
  <2>2. /\ u.state = "OPENED" /\ u.rfc = "OPENED" /\ u.mcb /\ u.ctrl = q.ctrl \cup {"REQ_SENT"}
        /\ u.rsp = q.rsp \cup {"MSC"} /\ u.peer_fc = q.peer_fc /\ SameFlow(q, u) /\ u \in Port
    <3>1. Confirmed(q) \in Port /\ u \in Port
      BY UaActs
    <3>2. /\ Confirmed(q).state = "OPENED" /\ Confirmed(q).rfc = "OPENED" /\ Confirmed(q).mcb
          /\ Confirmed(q).ctrl = q.ctrl /\ Confirmed(q).rsp = q.rsp
          /\ Confirmed(q).peer_fc = q.peer_fc /\ SameFlow(q, Confirmed(q))
      BY <1>1, <2>1 DEF Confirmed, Port, SameFlow
    <3> HIDE DEF Confirmed
    <3>3. /\ u.state = Confirmed(q).state /\ u.rfc = Confirmed(q).rfc /\ u.mcb = Confirmed(q).mcb
          /\ u.ctrl = Confirmed(q).ctrl \cup {"REQ_SENT"} /\ u.rsp = Confirmed(q).rsp \cup {"MSC"}
          /\ u.peer_fc = Confirmed(q).peer_fc /\ SameFlow(Confirmed(q), u)
      BY <3>1 DEF Asked, Port, SameFlow
    <3> QED BY <3>1, <3>2, <3>3 DEF SameFlow
  <2> HIDE DEF u
  <2>3. Sound(e.self, p, u)
    BY <1>5, <2>1, <2>2 DEF Sound, OwnMsc, Flows, SameFlow, Negotiating
  <2>4. Idle(u, e.congested)
    <3>1. "REQ_CONFIRMED" \notin u.ctrl
      <4>1. q.state = "OPENING" /\ "REQ_SENT" \notin q.ctrl
        BY <1>1, <1>5, <2>1 DEF Fit, Sound
      <4>2. "REQ_CONFIRMED" \notin q.ctrl
        BY <1>1, <2>1, <4>1 DEF Fit, Sound, OwnMsc
      <4> QED BY <2>2, <4>2
    <3> QED BY <3>1 DEF Idle
  <2>5. g \in Seq(Frames) /\ Free(g, Opening) /\ Free(g, {"DATA", "CREDIT"})
    <3>1. Frame("MSC", p) \in Frames /\ Frame("MSC", p).t = "MSC"
      BY FrameTypes DEF Frame
    <3>2. <<>> \in Seq(Frames) /\ "MSC" \notin Opening /\ "MSC" \notin {"DATA", "CREDIT"}
      BY DEF Opening
    <3> HIDE DEF Frame
    <3>3. \A T : \A h \in Frames : Free(<<h>>, T) <=> h.t \notin T
      BY <3>2, FreeFacts
    <3> QED BY <3>1, <3>2, <3>3
  <2>6. Does(e.self, p, On(e), q, u, f, g)
    <3>1. Connects(q, f) /\ In(f) = <<f>> /\ <<f>> \in Seq(Frames) /\ Free(<<f>>, {"DATA", "CREDIT"})
      <4>1. \A T : \A h \in Frames : Free(<<h>>, T) <=> h.t \notin T
        BY NoneFacts, FreeFacts
      <4> QED BY <1>5, <4>1 DEF Connects, In
    <3>2. ASSUME NEW w, NEW ea PROVE ClientMove(q, u, f, g, p, w, w, ea, ea)
      <4>1. Conserves(q, u, In(f), g, w, w, ea, ea)
        BY <1>1, <2>2, <2>5, <3>1, FlowSame
      <4>2. Uses(q, u, f, g, w, w, ea, ea)
        BY <2>2, <3>1, <4>1 DEF Uses
      <4> QED BY <2>5, <3>1, <4>2 DEF ClientMove
    <3> QED BY <2>1, <3>2 DEF Does, Moves, Rests
  <2>7. Turns(e, p, u, f, g)
    BY <2>3, <2>4, <2>6 DEF Turns
  <2>8. ~(Stopping(r) /\ Stopping(e))
    BY <1>1, <1>5, <2>1 DEF Fit, Quits
  <2>9. Alters(e, r, p, u, g)
    BY <1>2, <1>5
  <2> HIDE DEF q, g
  <2>10. \A x \in Ports : PortStep(e, r, x, IF x = p THEN f ELSE None)
    BY <1>2, <2>5, <2>7, <2>8, <2>9, AltersStep
  <2> QED BY <2>10 DEF Steps, r
<1> QED BY <1>3, <1>4, <1>5

(* DM *)
LEMMA DmStep ==
  ASSUME NEW e, Steady(e), NEW p \in Ports, \A x \in Ports : Fit(e, x),
         NEW f \in Frames, f.p = p, f.t = "DM"
  PROVE  Steps(e, OnDM(e, p), p, f)
<1> DEFINE q == e.port[p]
           r == OnDM(e, p)
           closes == q.rfc \in {"SABME_WAIT_UA", "CLOSED", "OPENED", "DISC_WAIT_UA"}
<1>1. f \in Inputs /\ q \in Port /\ ~Connects(q, f)
  BY DEF Inputs, Steady, Ends, Connects
<1>2. /\ Winds(e, r)
      /\ closes => Alters(e, r, p, Closed(e.self, p, q), <<>>)
      /\ ~closes => r = e
  BY DmActs
<1> HIDE DEF r
<1>3. CASE closes
  <2> QED BY <1>1, <1>2, <1>3, NoneFacts, ClosedStep DEF r
<1>4. CASE ~closes
  <2>1. ~Negotiating(q)
    BY <1>4 DEF Negotiating
  <2> QED BY <1>1, <1>2, <1>4, <2>1, SameStep DEF r
<1> QED BY <1>3, <1>4

(* DISC *)
LEMMA DiscStep ==
  ASSUME NEW e, Steady(e), NEW p \in Ports, \A x \in Ports : Fit(e, x),
         NEW f \in Frames, f.p = p, f.t = "DISC"
  PROVE  Steps(e, OnDISC(e, p), p, f)
<1> DEFINE q == e.port[p]
           r == OnDISC(e, p)
           closes == \/ q.rfc \in {"SABME_WAIT_UA", "TERM_WAIT_SEC_CHECK"}
                     \/ q.rfc = "OPENED" /\ q.rx = <<>>
           u == Lingering(q)
           ua == <<Frame("UA", p)>>
           dm == <<Frame("DM", p)>>
<1>1. f \in Inputs /\ q \in Port /\ ~Connects(q, f) /\ Sound(e.self, p, q)
  BY DEF Inputs, Steady, Ends, Connects, Fit
<1>2. /\ Winds(e, r)
      /\ q.rfc \in {"CLOSED", "DISC_WAIT_UA"} => Alters(e, r, p, q, dm)
      /\ closes => Alters(e, r, p, Closed(e.self, p, q), ua)
      /\ q.rfc = "OPENED" /\ q.rx # <<>> => Alters(e, r, p, u, ua)
      /\ q.rfc = "ORIG_WAIT_SEC_CHECK" => r = e
  BY DiscActs
<1>3. /\ ua \in Seq(Frames) /\ Free(ua, Opening) /\ Free(ua, Talk)
      /\ dm \in Seq(Frames) /\ Free(dm, Opening) /\ Free(dm, Talk)
  BY PlainFrames
<1> HIDE DEF r, ua, dm
<1>4. CASE q.rfc \in {"CLOSED", "DISC_WAIT_UA"}
  BY <1>1, <1>2, <1>3, <1>4, AlikeSelf, StayStep DEF r
<1>5. CASE closes
  BY <1>1, <1>2, <1>3, <1>5, ClosedStep DEF r
<1>6. CASE q.rfc = "OPENED" /\ q.rx # <<>>
  <2>1. /\ u.rfc = "CLOSED" /\ u.state = "OPENED" /\ u.mcb /\ u.rsp = q.rsp /\ u.ctrl = q.ctrl
        /\ q.state = "OPENED" /\ q.mcb /\ "PN" \notin q.rsp
    BY <1>1, <1>6 DEF Lingering, Port, Sound, OwnMsc
  <2> HIDE DEF u
  <2>2. Sound(e.self, p, u)
    BY <1>1, <2>1 DEF Sound, OwnMsc, Negotiating
  <2>3. ~Live(u)
    BY <2>1 DEF Live, Negotiating
  <2>4. Rests(e.self, p, q, u, f, ua)
    BY DEF Rests
  <2> QED BY <1>1, <1>2, <1>3, <1>6, <2>1, <2>2, <2>3, <2>4, EndStep DEF r
<1>7. CASE q.rfc = "ORIG_WAIT_SEC_CHECK"
  BY <1>1, <1>2, <1>7, SameStep DEF r
<1> QED BY <1>1, <1>4, <1>5, <1>6, <1>7 DEF Port, States

(* A frame for a port that is not in use is refused. *)
LEMMA RefuseStep ==
  ASSUME NEW e, Steady(e), NEW p \in Ports, \A x \in Ports : Fit(e, x), ~e.port[p].mcb,
         NEW f \in Frames, f.p = p, f.t \in {"DISC", "DATA", "CREDIT"}
  PROVE  Steps(e, DM(e, p), p, f)
<1> DEFINE q == e.port[p]
           r == rfc_check_send_cmd(e, Frame("DM", p))
           g == <<Frame("DM", p)>>
<1>1. f \in Inputs /\ ~Connects(q, f) /\ Sound(e.self, p, q)
  BY DEF Inputs, Connects, Fit
<1>2. q.rfc = "CLOSED"
  BY <1>1 DEF Sound, OwnMsc
<1>3. Frame("DM", p) \in Frames /\ Frame("DM", p).p = p
  BY FrameTypes DEF Frame
<1>4. g \in Seq(Frames) /\ Free(g, Opening) /\ Free(g, Talk)
  BY PlainFrames
<1> HIDE DEF Frame
<1>5. Alters(e, r, p, q, g) /\ Winds(e, r)
  BY <1>3, AnswerActs, CalmWinds
<1> HIDE DEF r, g
<1>6. Steps(e, r, p, f)
  BY <1>1, <1>2, <1>4, <1>5, AlikeSelf, StayStep
<1> QED BY <1>6 DEF DM, r

(* The same port, but for its data, its credits and its timer. *)
SamePhase(q, v) ==
  v.state = q.state /\ v.rfc = q.rfc /\ v.mcb = q.mcb /\ v.rsp = q.rsp /\ v.ctrl = q.ctrl

Credited(q, n) == [q EXCEPT !.credit_tx = @ + n, !.peer_fc = FALSE]

LEMMA CreditedFields ==
  ASSUME NEW q \in Port, NEW n \in Nat, n # 0
  PROVE  LET u == Credited(q, n)
         IN /\ ButData(q, u) /\ SamePhase(q, u) /\ u.credit_tx = q.credit_tx + n /\ u.credit_tx # 0
            /\ u.credit_rx = q.credit_rx /\ u.tx = q.tx /\ ~u.peer_fc /\ Flows(u)
<1> DEFINE u == Credited(q, n)
<1>1. q.credit_tx \in Nat
  BY DEF Port
<1>2. /\ ButData(q, u) /\ u.credit_tx = q.credit_tx + n
      /\ u.credit_rx = q.credit_rx /\ u.tx = q.tx /\ ~u.peer_fc
  BY DEF Credited, Port, ButData
<1> HIDE DEF u
<1>3. u.credit_tx # 0
  BY <1>1, <1>2
<1> QED BY <1>2, <1>3 DEF Flows, ButData, SamePhase, u

(* Credits for a port that is not open. *)
LEMMA IncCreditRest ==
  ASSUME NEW e, Steady(e), NEW p \in Ports, NEW n \in 0..credit_rx_max, e.port[p].rfc # "OPENED"
  PROVE  LET q == e.port[p]
             r == rfc_inc_credit(e, p, n)
             v == r.port[p]
         IN /\ Alters(e, r, p, v, <<>>) /\ SameMx(e, r) /\ SamePhase(q, v)
            /\ Flows(q) => Flows(v)
            /\ ~q.peer_fc => ~v.peer_fc
<1> DEFINE q == e.port[p]
           r == rfc_inc_credit(e, p, n)
           u == Credited(q, n)
           c == Put(e, p, u)
<1>1. q \in Port /\ n \in Nat
  BY Constants DEF Steady, Ends
<1>2. CASE n = 0
  <2>1. r = e
    BY <1>2 DEF rfc_inc_credit
  <2> QED BY <2>1, AltersNot DEF SameMx, SamePhase
<1>3. CASE n # 0
  <2>1. /\ u \in Port /\ Alters(e, c, p, u, <<>>) /\ SameMx(e, c)
        /\ r = IF q.peer_fc THEN port_rfc_send_tx_data(c, p) ELSE c
    BY <1>3, IncCreditActs DEF Credited
  <2>2. ButData(q, u) /\ SamePhase(q, u) /\ ~u.peer_fc /\ Flows(u)
    BY <1>1, <1>3, CreditedFields
  <2> HIDE DEF u, c, r
  <2>6. Alters(e, c, p, u, <<>>)
    BY <2>1
  <2>3. c.port[p] = u /\ Steady(c)
    BY <2>6 DEF Alters, Steady, Ends
  <2>4. CASE ~q.peer_fc
    BY <2>1, <2>2, <2>3, <2>4 DEF r
  <2>5. CASE q.peer_fc
    <3>1. r = port_rfc_send_tx_data(c, p)
      BY <2>1, <2>5
    <3>2. SendsSome(c, r, p)
      BY <2>2, <2>3, <3>1, SendTxSends
    <3>3. PICK g : Sends(c, r, p, g)
      BY <3>2 DEF SendsSome
    <3>4. u.rfc # "OPENED"
      BY <2>2 DEF ButData
    <3>5. Alters(c, r, p, r.port[p], <<>>) /\ SameMx(c, r) /\ ButData(u, r.port[p]) /\ Flows(r.port[p])
      BY <2>3, <3>2, <3>3, <3>4 DEF Sends, SendsSome
    <3>6. Alters(e, r, p, r.port[p], <<>> \o <<>>)
      BY <2>1, <3>5, NoneFacts, AltersThen
    <3>7. Alters(e, r, p, r.port[p], <<>>)
      BY <3>6, NoneFacts
    <3>8. SamePhase(q, r.port[p]) /\ SameMx(e, r)
      BY <2>1, <2>2, <3>5 DEF ButData, SamePhase, SameMx
    <3> QED BY <2>5, <3>5, <3>7, <3>8 DEF r
  <2> QED BY <2>4, <2>5
<1> QED BY <1>2, <1>3

(* Credits for an open port; data that waited for them is sent. *)
LEMMA IncCreditOpen ==
  ASSUME NEW e, Steady(e), NEW p \in Ports, NEW n \in 0..credit_rx_max, e.port[p].rfc = "OPENED",
         e.port[p].mcb, Flows(e.port[p]), Idle(e.port[p], e.congested)
  PROVE  LET q == e.port[p]
             r == rfc_inc_credit(e, p, n)
             v == r.port[p]
         IN /\ SameMx(e, r) /\ SamePhase(q, v) /\ Flows(v) /\ Idle(v, e.congested)
            /\ \E u \in Port, g \in Seq(DataOf(p)) :
                 /\ Alters(e, r, p, v, g)
                 /\ u.credit_tx = q.credit_tx + n /\ u.credit_rx = q.credit_rx /\ u.tx = q.tx
                 /\ u.rx = q.rx
                 /\ \A w, ea : Conserves(u, v, <<>>, g, w, w, ea, ea)
<1> DEFINE q == e.port[p]
           r == rfc_inc_credit(e, p, n)
           u == Credited(q, n)
           c == Put(e, p, u)
<1>1. q \in Port /\ n \in Nat /\ q.credit_tx \in Nat
  BY Constants DEF Steady, Ends, Port
<1>2. CASE n = 0
  <2>1. r = e
    BY <1>2 DEF rfc_inc_credit
  <2>2. q.credit_tx + n = q.credit_tx
    BY <1>1, <1>2
  <2>3. \A w, ea : Conserves(q, q, <<>>, <<>>, w, w, ea, ea)
    BY <1>1, NoneFacts, FlowSame DEF SameFlow
  <2>4. <<>> \in Seq(DataOf(p)) /\ Alters(e, e, p, q, <<>>)
    BY DataFrames, AltersNot
  <2> HIDE DEF q, r
  <2>5. SameMx(e, e) /\ SamePhase(q, q)
    BY DEF SameMx, SamePhase
  <2>6. /\ SameMx(e, r) /\ SamePhase(q, r.port[p]) /\ Flows(r.port[p]) /\ Idle(r.port[p], e.congested)
    BY <2>1, <2>5 DEF q
  <2>7. r.port[p] = q /\ Alters(e, r, p, q, <<>>)
    BY <2>1, <2>4 DEF q
  <2> QED BY <1>1, <2>2, <2>3, <2>4, <2>6, <2>7 DEF q, r
<1>3. CASE n # 0
  <2>1. /\ u \in Port /\ Alters(e, c, p, u, <<>>) /\ SameMx(e, c)
        /\ r = IF q.peer_fc THEN port_rfc_send_tx_data(c, p) ELSE c
    BY <1>3, IncCreditActs DEF Credited
  <2>2. /\ ButData(q, u) /\ SamePhase(q, u) /\ ~u.peer_fc /\ Flows(u) /\ u.credit_tx = q.credit_tx + n
        /\ u.credit_rx = q.credit_rx /\ u.tx = q.tx /\ u.rx = q.rx
    BY <1>1, <1>3, CreditedFields DEF ButData
  <2> HIDE DEF u, c, r, q
  <2>6. Alters(e, c, p, u, <<>>)
    BY <2>1
  <2>7. c.port[p] = u /\ Steady(c)
    BY <2>6 DEF Alters, Steady, Ends
  <2>3. c.port[p] = u /\ Steady(c) /\ c.congested = e.congested
    BY <2>6, <2>7 DEF Alters
  <2>4. CASE ~q.peer_fc
    <3>1. r = c /\ r.port[p] = u
      BY <2>1, <2>3, <2>4
    <3>2. q.credit_tx # 0
      BY <2>4 DEF Flows, q
    <3>3. Idle(u, e.congested)
      BY <2>2, <3>2 DEF Idle, SetUp, q, SamePhase
    <3>4. \A w, ea : Conserves(u, u, <<>>, <<>>, w, w, ea, ea)
      BY <2>1, NoneFacts, FlowSame DEF SameFlow
    <3>5. <<>> \in Seq(DataOf(p))
      BY DataFrames
    <3> QED BY <2>1, <2>2, <3>1, <3>3, <3>4, <3>5 DEF r, q
  <2>5. CASE q.peer_fc
    <3>1. r = port_rfc_send_tx_data(c, p)
      BY <2>1, <2>5
    <3>2. SendsSome(c, r, p) /\ (r.port[p].tx = <<>> \/ ~MaySend(r, p))
      BY <2>2, <2>3, <3>1, SendTxSends
    <3>3. PICK g : Sends(c, r, p, g)
      BY <3>2 DEF SendsSome
    <3>4. u.rfc = "OPENED" /\ u.mcb
      BY <2>2 DEF ButData, q
    <3>5. /\ Alters(c, r, p, r.port[p], g) /\ SameMx(c, r) /\ ButData(u, r.port[p]) /\ Flows(r.port[p])
          /\ g \in Seq(DataOf(p)) /\ \A w, ea : Conserves(u, r.port[p], <<>>, g, w, w, ea, ea)
      BY <2>3, <3>2, <3>3, <3>4 DEF Sends, SendsSome
    <3>6. g \in Seq(Frames) /\ <<>> \o g = g
      BY <3>5, DataFrames
    <3>7. Alters(e, r, p, r.port[p], g)
      <4>1. Alters(e, r, p, r.port[p], <<>> \o g)
        BY <2>1, <3>5, <3>6, NoneFacts, AltersThen
      <4> QED BY <3>6, <4>1
    <3>8. SamePhase(q, r.port[p]) /\ SameMx(e, r)
      BY <2>1, <2>2, <3>5 DEF ButData, SamePhase, SameMx
    <3>9. Idle(r.port[p], e.congested)
      <4>1. r.congested = e.congested /\ r.port[p].mcb
        BY <2>3, <3>4, <3>5 DEF Alters, ButData
      <4> QED BY <3>2, <3>5, <4>1 DEF Idle, MaySend, Flows
    <3> QED BY <2>1, <2>2, <3>5, <3>7, <3>8, <3>9 DEF r, q
  <2> QED BY <2>4, <2>5
<1> QED BY <1>2, <1>3

(* An open port stays open. *)
LEMMA OpenStep ==
  ASSUME NEW e, Steady(e), NEW p \in Ports, \A x \in Ports : Fit(e, x), e.port[p].rfc = "OPENED",
         NEW r, NEW v, NEW f \in Inputs, f.t # "CALL", NEW g \in Seq(Frames), Free(g, Opening),
         Alters(e, r, p, v, g), Winds(e, r), v.rfc = "OPENED",
         Sound(e.self, p, v), Idle(v, e.congested),
         \A w \in Nat, ea \in SUBSET Nat : Conserves(e.port[p], v, In(f), g, w, w, ea, ea)
  PROVE  Steps(e, r, p, f)
<1> DEFINE q == e.port[p]
<1>1. Fit(e, p) /\ q.state = "OPENED"
  BY DEF Fit, Sound, OwnMsc
<1>2. ~Stopping(e)
  BY <1>1 DEF Fit, Quits
<1>3. Does(e.self, p, On(e), q, v, f, g)
  <2>1. ASSUME NEW w \in Nat, NEW ea \in SUBSET Nat PROVE Moves(e.self, p, On(e), q, v, f, g, w, w, ea, ea)
    <3>1. Conserves(q, v, In(f), g, w, w, ea, ea)
      OBVIOUS
    <3>2. Uses(q, v, f, g, w, w, ea, ea)
      BY <3>1 DEF Uses
    <3>3. ClientMove(q, v, f, g, p, w, w, ea, ea)
      BY <1>1, <3>2 DEF ClientMove
    <3>4. ServerMove(q, v, f, g, p, w, w, ea, ea)
      BY <3>1 DEF ServerMove, Rested
    <3> QED BY <3>3, <3>4 DEF Moves, Rests, Bare, Rested
  <2> QED BY <2>1 DEF Does
<1>4. Turns(e, p, v, f, g)
  BY <1>3 DEF Turns
<1> HIDE DEF q
<1>5. \A x \in Ports : PortStep(e, r, x, IF x = p THEN f ELSE None)
  BY <1>2, <1>4, AltersStep
<1> QED BY <1>5 DEF Steps

(* Data or credits for a port that is not open. *)
LEMMA RestStep ==
  ASSUME NEW e, Steady(e), NEW p \in Ports, \A x \in Ports : Fit(e, x), e.port[p].rfc # "OPENED",
         NEW r, NEW v, NEW f \in Frames, f.t \in {"DATA", "CREDIT"}, NEW g \in Seq(Frames),
         Free(g, Opening), Free(g, Talk), Alters(e, r, p, v, g), Winds(e, r),
         SamePhase(e.port[p], v), Flows(e.port[p]) => Flows(v), ~e.port[p].peer_fc => ~v.peer_fc
  PROVE  Steps(e, r, p, f)
<1> DEFINE q == e.port[p]
<1>1. Fit(e, p) /\ Sound(e.self, p, q)
  BY DEF Fit
<1>2. Sound(e.self, p, v) /\ Idle(v, e.congested) /\ v.rfc # "OPENED"
  BY <1>1 DEF Sound, OwnMsc, Idle, SamePhase, Negotiating
<1>3. Does(e.self, p, On(e), q, v, f, g)
  <2>1. ASSUME NEW w, NEW ea PROVE Moves(e.self, p, On(e), q, v, f, g, w, w, ea, ea)
    <3>1. Live(v) => Passes(q, v, f)
      BY DEF Live, Negotiating, SamePhase, Passes, Connects
    <3>2. ClientMove(q, v, f, g, p, w, w, ea, ea)
      BY <3>1 DEF ClientMove, SamePhase
    <3>3. f.t \in Talk
      BY DEF Talk
    <3>4. ServerMove(q, v, f, g, p, w, w, ea, ea)
      BY <3>3 DEF ServerMove, SamePhase
    <3> QED BY <3>2, <3>4 DEF Moves, Rests
  <2> QED BY <2>1 DEF Does
<1>4. Turns(e, p, v, f, g)
  BY <1>2, <1>3 DEF Turns
<1>5. Stopping(e) => Quits(e.self, p, v)
  BY <1>1 DEF Fit, Quits, SamePhase
<1> HIDE DEF q
<1>6. \A x \in Ports : PortStep(e, r, x, IF x = p THEN f ELSE None)
  BY <1>4, <1>5, AltersStep
<1> QED BY <1>6 DEF Steps

DataFree == \A p \in Ports : \A g \in Seq(DataOf(p)) : g \in Seq(Frames) /\ Free(g, Opening)

LEMMA DataFreeFacts == DataFree
<1> SUFFICES ASSUME NEW p \in Ports, NEW g \in Seq(DataOf(p)) PROVE g \in Seq(Frames) /\ Free(g, Opening)
  BY DEF DataFree
<1>1. g \in Seq(Frames)
  BY DataFrames
<1>2. \A i \in 1..Len(g) : g[i] \in DataOf(p)
  OBVIOUS
<1>3. "DATA" \notin Opening
  BY DEF Opening
<1> QED BY <1>1, <1>2, <1>3 DEF Free, DataOf

(* Credits alone *)
LEMMA CreditStep ==
  ASSUME NEW e, Steady(e), NEW p \in Ports, \A x \in Ports : Fit(e, x), e.port[p].mcb,
         NEW f \in Frames, f.p = p, f.t = "CREDIT"
  PROVE  Steps(e, rfc_inc_credit(e, p, f.n), p, f)
<1> DEFINE q == e.port[p]
           r == rfc_inc_credit(e, p, f.n)
           v == r.port[p]
<1>1. /\ Sound(e.self, p, q) /\ Idle(q, e.congested) /\ f \in Inputs /\ q \in Port
      /\ f.n \in 0..credit_rx_max /\ In(f) = <<f>> /\ <<f>> \in Seq(Frames) /\ f.t # "CALL"
  BY DEF Inputs, Steady, Ends, Frames, In, Fit
<1> HIDE DEF r
<1>2. CASE q.rfc # "OPENED"
  <2>1. /\ Alters(e, r, p, v, <<>>) /\ SameMx(e, r) /\ SamePhase(q, v)
        /\ Flows(q) => Flows(v)
        /\ ~q.peer_fc => ~v.peer_fc
    BY <1>1, <1>2, IncCreditRest DEF r
  <2>2. Winds(e, r)
    BY <2>1, CalmWinds
  <2> QED BY <1>2, <2>1, <2>2, NoneFacts, RestStep DEF r
<1>3. CASE q.rfc = "OPENED"
  <2>1. Flows(q)
    BY <1>1, <1>3 DEF Sound, OwnMsc
  <2>2. /\ SameMx(e, r) /\ SamePhase(q, v) /\ Flows(v) /\ Idle(v, e.congested)
        /\ \E u \in Port, g \in Seq(DataOf(p)) :
                 /\ Alters(e, r, p, v, g)
                 /\ u.credit_tx = q.credit_tx + f.n /\ u.credit_rx = q.credit_rx /\ u.tx = q.tx
                 /\ u.rx = q.rx
                 /\ \A w, ea : Conserves(u, v, <<>>, g, w, w, ea, ea)
    BY <1>1, <1>3, <2>1, IncCreditOpen DEF r
  <2>3. PICK u \in Port, g \in Seq(DataOf(p)) :
                 /\ Alters(e, r, p, v, g)
                 /\ u.credit_tx = q.credit_tx + f.n /\ u.credit_rx = q.credit_rx /\ u.tx = q.tx
                 /\ u.rx = q.rx
                 /\ \A w, ea : Conserves(u, v, <<>>, g, w, w, ea, ea)
    BY <2>2
  <2>4. g \in Seq(Frames) /\ Free(g, Opening) /\ <<>> \o g = g
    BY DataFreeFacts DEF DataFree
  <2>5. Winds(e, r)
    BY <2>2, CalmWinds
  <2>6. ASSUME NEW w \in Nat, NEW ea \in SUBSET Nat PROVE Conserves(q, v, In(f), g, w, w, ea, ea)
    <3>1. Conserves(q, u, <<f>>, <<>>, w, w, ea, ea)
      BY <1>1, <2>3, FlowReceive
    <3>2. Conserves(u, v, <<>>, g, w, w, ea, ea)
      BY <2>3
    <3>3. Conserves(q, v, <<f>>, <<>> \o g, w, w, ea, ea)
      BY <1>1, <2>4, <3>1, <3>2, NoneFacts, ConservesThen
    <3> QED BY <1>1, <2>4, <3>3
  <2>7. v.rfc = "OPENED" /\ Sound(e.self, p, v)
    BY <1>1, <1>3, <2>2 DEF SamePhase, Sound, OwnMsc, Negotiating
  <2> HIDE DEF v
  <2> QED BY <1>1, <1>3, <2>2, <2>3, <2>4, <2>5, <2>6, <2>7, OpenStep DEF r
<1> QED BY <1>2, <1>3

(* Data with the credits it carries *)
LEMMA DataStep ==
  ASSUME NEW e, Steady(e), NEW p \in Ports, \A x \in Ports : Fit(e, x), e.port[p].mcb,
         NEW f \in Frames, f.p = p, f.t = "DATA"
  PROVE  Steps(e, OnDATA(e, f), p, f)
<1> DEFINE q == e.port[p]
           r == OnDATA(e, f)
           v == r.port[p]
           stores == q.rfc = "OPENED" /\ Len(q.rx) < rx_buf_critical
           refuses == q.rfc \in {"CLOSED", "DISC_WAIT_UA"}
           dm == <<Frame("DM", p)>>
<1>1. /\ Sound(e.self, p, q) /\ Idle(q, e.congested) /\ f \in Inputs /\ q \in Port
      /\ f.n \in 0..credit_rx_max /\ In(f) = <<f>> /\ <<f>> \in Seq(Frames) /\ f.t # "CALL"
      /\ f.d \in Buffers
  BY DEF Inputs, Steady, Ends, Frames, In, Fit
<1>2. PICK c : /\ r = rfc_inc_credit(c, p, f.n) /\ SameMx(e, c) /\ Steady(c)
               /\ stores => Stored(q, f.d) \in Port /\ Alters(e, c, p, Stored(q, f.d), <<>>)
               /\ refuses => Alters(e, c, p, q, dm)
               /\ ~stores /\ ~refuses => c = e
  BY <1>1, DataActs
<1> HIDE DEF r
<1>3. CASE q.rfc # "OPENED"
  <2>1. PICK g \in {dm, <<>>} : Alters(e, c, p, q, g)
    BY <1>2, <1>3, AltersNot
  <2>2. g \in Seq(Frames) /\ Free(g, Opening) /\ Free(g, Talk) /\ g \o <<>> = g
    <3>1. g \in Seq(Frames) /\ Free(g, Opening) /\ Free(g, Talk)
      BY <2>1, NoneFacts, PlainFrames
    <3> QED BY <3>1
  <2>3. c.port[p] = q
    BY <2>1 DEF Alters, Steady, Ends
  <2>4. /\ Alters(c, r, p, v, <<>>) /\ SameMx(c, r) /\ SamePhase(q, v)
        /\ Flows(q) => Flows(v)
        /\ ~q.peer_fc => ~v.peer_fc
    BY <1>1, <1>2, <1>3, <2>3, IncCreditRest
  <2>5. Winds(e, r)
    <3>1. SameMx(e, r)
      BY <1>2, <2>4 DEF SameMx
    <3> QED BY <3>1, CalmWinds
  <2> HIDE DEF v
  <2>6. Alters(e, r, p, v, g)
    <3>1. Alters(e, r, p, v, g \o <<>>)
      BY <2>1, <2>2, <2>4, NoneFacts, AltersThen
    <3> QED BY <2>2, <3>1
  <2> QED BY <1>1, <1>3, <2>2, <2>4, <2>5, <2>6, RestStep DEF r
<1>4. CASE q.rfc = "OPENED"
  <2> DEFINE b == c.port[p]
  <2>1. Flows(q) /\ q.credit_tx \in Nat /\ Len(q.rx) \in Nat
    BY <1>1, <1>4 DEF Sound, OwnMsc, Port
  <2>2. stores => /\ b = Stored(q, f.d) /\ b \in Port
                  /\ b.state = q.state /\ b.rfc = q.rfc /\ b.mcb = q.mcb /\ b.rsp = q.rsp
                  /\ b.ctrl = q.ctrl /\ b.credit_tx = q.credit_tx /\ b.credit_rx = q.credit_rx
                  /\ b.peer_fc = q.peer_fc /\ b.tx = q.tx /\ b.rx = Append(q.rx, f.d)
    <3>1. stores => b = Stored(q, f.d) /\ b \in Port
      BY <1>2 DEF Alters, Steady, Ends
    <3> QED BY <1>1, <3>1 DEF Stored, Port
  <2>3. ~stores => b = q /\ c = e
    BY <1>2, <1>4
  <2>4. Alters(e, c, p, b, <<>>) /\ c.congested = e.congested
    <3>1. CASE stores
      BY <1>2, <2>2, <3>1 DEF Alters
    <3>2. CASE ~stores
      BY <2>3, <3>2, AltersNot
    <3> QED BY <3>1, <3>2
  <2>5. /\ b \in Port /\ SamePhase(q, b) /\ b.rfc = "OPENED" /\ b.mcb /\ Flows(b) /\ Idle(b, e.congested)
        /\ b.credit_tx = q.credit_tx /\ b.credit_rx = q.credit_rx /\ b.tx = q.tx
    <3>1. CASE stores
      BY <1>1, <1>4, <2>1, <2>2, <3>1 DEF SamePhase, Flows, Idle, SetUp
    <3>2. CASE ~stores
      BY <1>1, <1>4, <2>1, <2>3, <3>2 DEF SamePhase
    <3> QED BY <3>1, <3>2
  <2>6. stores => b.rx = Append(q.rx, f.d)
    BY <2>2
  <2>7. ~stores => Len(q.rx) >= rx_buf_critical
    BY <1>4, <2>1, Constants
  <2> HIDE DEF b, v, stores, refuses, q
  <2>8. /\ SameMx(c, r) /\ SamePhase(b, v) /\ Flows(v) /\ Idle(v, e.congested)
        /\ \E u \in Port, g \in Seq(DataOf(p)) :
                 /\ Alters(c, r, p, v, g)
                 /\ u.credit_tx = b.credit_tx + f.n /\ u.credit_rx = b.credit_rx /\ u.tx = b.tx
                 /\ u.rx = b.rx
                 /\ \A w, ea : Conserves(u, v, <<>>, g, w, w, ea, ea)
    BY <1>1, <1>2, <2>4, <2>5, IncCreditOpen DEF b, v
  <2>9. PICK u \in Port, g \in Seq(DataOf(p)) :
                 /\ Alters(c, r, p, v, g)
                 /\ u.credit_tx = b.credit_tx + f.n /\ u.credit_rx = b.credit_rx /\ u.tx = b.tx
                 /\ u.rx = b.rx
                 /\ \A w, ea : Conserves(u, v, <<>>, g, w, w, ea, ea)
    BY <2>8
  <2>10. g \in Seq(Frames) /\ Free(g, Opening) /\ <<>> \o g = g
    BY DataFreeFacts DEF DataFree
  <2>11. Winds(e, r)
    <3>1. SameMx(e, r)
      BY <1>2, <2>8 DEF SameMx
    <3> QED BY <3>1, CalmWinds
  <2>12. ASSUME NEW w \in Nat, NEW ea \in SUBSET Nat PROVE Conserves(q, v, In(f), g, w, w, ea, ea)
    <3>1. CASE stores
      <4>1. Conserves(q, u, <<f>>, <<>>, w, w, ea, ea)
        BY <1>1, <2>5, <2>6, <2>9, <3>1, FlowReceive
      <4>2. Conserves(u, v, <<>>, g, w, w, ea, ea)
        BY <2>9
      <4>3. Conserves(q, v, <<f>>, <<>> \o g, w, w, ea, ea)
        BY <1>1, <2>10, <4>1, <4>2, NoneFacts, ConservesThen
      <4> QED BY <1>1, <2>10, <4>3
    <3>2. CASE ~stores
      BY <1>1, <2>7, <3>2, FlowFull
    <3> QED BY <3>1, <3>2
  <2>13. v.rfc = "OPENED" /\ Sound(e.self, p, v)
    BY <1>1, <1>4, <2>5, <2>8 DEF SamePhase, Sound, OwnMsc, Negotiating
  <2>14. Alters(e, r, p, v, g)
    <3>1. Alters(e, r, p, v, <<>> \o g)
      BY <2>4, <2>9, <2>10, NoneFacts, AltersThen
    <3> QED BY <2>10, <3>1
  <2> QED BY <1>1, <1>4, <2>8, <2>10, <2>11, <2>12, <2>13, <2>14, OpenStep DEF r, q
<1> QED BY <1>3, <1>4

(* What belongs to an open port, for one that is not open. *)
LEMMA TalkStep ==
  ASSUME NEW e, Steady(e), NEW p \in Ports, \A x \in Ports : Fit(e, x), e.port[p].rfc # "OPENED",
         NEW r, NEW v, NEW f \in Frames, f.t \in Talk, NEW g \in Seq(Frames),
         Free(g, Opening), Alters(e, r, p, v, g), Winds(e, r), Sound(e.self, p, v),
         v.state = e.port[p].state, v.rfc = e.port[p].rfc, v.mcb = e.port[p].mcb,
         "PN" \in v.rsp <=> "PN" \in e.port[p].rsp
  PROVE  Steps(e, r, p, f)
<1> DEFINE q == e.port[p]
<1>1. Fit(e, p)
  OBVIOUS
<1>2. Idle(v, e.congested)
  BY DEF Idle
<1>3. Does(e.self, p, On(e), q, v, f, g)
  <2>1. ASSUME NEW w, NEW ea PROVE Moves(e.self, p, On(e), q, v, f, g, w, w, ea, ea)
    <3>1. Live(v) => Passes(q, v, f)
      BY DEF Live, Negotiating, Passes, Connects, Talk
    <3>2. ClientMove(q, v, f, g, p, w, w, ea, ea)
      BY <3>1 DEF ClientMove, Talk
    <3>3. ServerMove(q, v, f, g, p, w, w, ea, ea)
      BY DEF ServerMove, Talk
    <3>4. f.t # "NONE"
      BY DEF Talk
    <3> QED BY <3>2, <3>3, <3>4 DEF Moves, Rests
  <2> QED BY <2>1 DEF Does
<1>4. Turns(e, p, v, f, g)
  BY <1>2, <1>3 DEF Turns
<1>5. Stopping(e) => Quits(e.self, p, v)
  BY <1>1 DEF Fit, Quits
<1> HIDE DEF q
<1>6. \A x \in Ports : PortStep(e, r, x, IF x = p THEN f ELSE None)
  BY <1>4, <1>5, AltersStep
<1> QED BY <1>6 DEF Steps

(* The modem status, or its answer, is sent. *)
LEMMA StatusFrames ==
  ASSUME NEW p \in Ports, NEW t \in {"MSC", "MSCR"}
  PROVE  LET g == <<Frame(t, p)>>
         IN g \in Seq(Frames) /\ Free(g, Opening) /\ Free(g, {"DATA", "CREDIT"})
<1>1. Frame(t, p) \in Frames /\ Frame(t, p).t = t
  BY FrameTypes DEF Frame
<1>2. t \notin Opening /\ t \notin {"DATA", "CREDIT"}
  BY DEF Opening
<1> HIDE DEF Frame
<1>3. \A T : \A h \in Frames : Free(<<h>>, T) <=> h.t \notin T
  BY NoneFacts, FreeFacts
<1> QED BY <1>1, <1>2, <1>3

LEMMA StatusFields ==
  ASSUME NEW q \in Port
  PROVE  /\ LET u == Asked(q)
            IN /\ u.state = q.state /\ u.rfc = q.rfc /\ u.mcb = q.mcb /\ u.rsp = q.rsp \cup {"MSC"}
               /\ u.ctrl = q.ctrl \cup {"REQ_SENT"} /\ u.peer_fc = q.peer_fc /\ SameFlow(q, u)
         /\ LET u == Indicated(q)
            IN /\ u.state = q.state /\ u.rfc = q.rfc /\ u.mcb = q.mcb /\ u.rsp = q.rsp
               /\ u.ctrl = q.ctrl \cup {"IND_RECEIVED"} /\ u.peer_fc = q.peer_fc /\ SameFlow(q, u)
         /\ LET u == Settled(q)
            IN /\ u.state = q.state /\ u.rfc = q.rfc /\ u.mcb = q.mcb /\ u.rsp = q.rsp \ {"MSC"}
               /\ u.ctrl = q.ctrl \cup {"REQ_CONFIRMED"} /\ u.peer_fc = q.peer_fc /\ SameFlow(q, u)
BY DEF Asked, Indicated, Settled, Port, SameFlow

(* What waited is sent by an open port. *)
LEMMA OpenSends ==
  ASSUME NEW e, Steady(e), NEW p \in Ports, e.port[p].rfc = "OPENED", e.port[p].mcb, Flows(e.port[p])
  PROVE  LET q == e.port[p]
             r == port_rfc_send_tx_data(e, p)
             v == r.port[p]
         IN /\ SameMx(e, r) /\ ButData(q, v) /\ Flows(v)
            /\ v.tx # <<>> => v.credit_tx = 0 \/ e.congested
            /\ \E g \in Seq(DataOf(p)) :
                 /\ Alters(e, r, p, v, g)
                 /\ \A w, ea : Conserves(q, v, <<>>, g, w, w, ea, ea)
<1> DEFINE r == port_rfc_send_tx_data(e, p)
           v == r.port[p]
<1>1. SendsSome(e, r, p) /\ (v.tx = <<>> \/ ~MaySend(r, p))
  BY SendTxSends
<1> HIDE DEF r
<1>2. PICK g : Sends(e, r, p, g)
  BY <1>1 DEF SendsSome
<1>3. /\ SameMx(e, r) /\ ButData(e.port[p], v) /\ Flows(v)
  BY <1>1 DEF SendsSome
<1>4. /\ g \in Seq(DataOf(p)) /\ Alters(e, r, p, v, g)
      /\ \A w, ea : Conserves(e.port[p], v, <<>>, g, w, w, ea, ea)
  BY <1>2 DEF Sends
<1>5. v.tx # <<>> => v.credit_tx = 0 \/ e.congested
  BY <1>1, <1>3, <1>4 DEF MaySend, Flows, Alters, ButData
<1> QED BY <1>3, <1>4, <1>5 DEF r

(* MSCR *)
LEMMA MscrStep ==
  ASSUME NEW e, Steady(e), NEW p \in Ports, \A x \in Ports : Fit(e, x),
         NEW f \in Frames, f.p = p, f.t = "MSCR"
  PROVE  Steps(e, rfc_process_msc(e, f), p, f)
<1> DEFINE q == e.port[p]
           u == Settled(q)
           c == Put(e, p, u)
           r == rfc_process_msc(e, f)
           v == r.port[p]
<1>1. /\ Sound(e.self, p, q) /\ Idle(q, e.congested) /\ f \in Inputs /\ q \in Port
      /\ In(f) = <<f>> /\ <<f>> \in Seq(Frames) /\ f.t \in Talk /\ ~Connects(q, f)
  BY DEF Inputs, Steady, Ends, In, Fit, Talk, Connects
<1>2. CASE ~q.mcb \/ "MSC" \notin q.rsp
  <2>1. r = e
    <3>1. CASE ~q.mcb
      BY <3>1 DEF rfc_process_msc
    <3>2. CASE q.mcb
      BY <1>2, <3>2, MscrActs
    <3> QED BY <3>1, <3>2
  <2> QED BY <1>1, <2>1, SameStep
<1>3. CASE q.mcb /\ "MSC" \in q.rsp
  <2>1. /\ Alters(e, c, p, u, <<>>) /\ SameMx(e, c)
        /\ "IND_RECEIVED" \in q.ctrl => r = port_rfc_send_tx_data(c, p)
        /\ "IND_RECEIVED" \notin q.ctrl => r = c
    BY <1>3, MscrActs
  <2>2. /\ u.state = q.state /\ u.rfc = q.rfc /\ u.mcb = q.mcb /\ u.rsp = q.rsp \ {"MSC"}
        /\ u.ctrl = q.ctrl \cup {"REQ_CONFIRMED"} /\ u.peer_fc = q.peer_fc /\ SameFlow(q, u)
        /\ u \in Port
    BY <1>1, StatusFields, SettledTypes
  <2>3. /\ (IsServer(e.self, p) => q.rfc = "OPENED") => "REQ_SENT" \in q.ctrl
        /\ "PN" \notin q.rsp /\ q.rfc \notin {"ORIG_WAIT_SEC_CHECK", "SABME_WAIT_UA"}
    <3>1. (IsServer(e.self, p) => q.rfc = "OPENED") => "REQ_SENT" \in q.ctrl
      BY <1>1, <1>3 DEF Sound, OwnMsc
    <3> QED BY <1>1, <3>1 DEF Sound
  <2>4. Sound(e.self, p, u)
    BY <1>1, <1>3, <2>2, <2>3 DEF Sound, OwnMsc, Negotiating, Flows, SameFlow
  <2> HIDE DEF c, r, u, q
  <2>5. c.port[p] = u /\ Steady(c) /\ c.congested = e.congested
    BY <2>1 DEF Alters, Steady, Ends
  <2>6. CASE q.rfc # "OPENED"
    <3>1. ButData(u, v) /\ SameMx(c, r) /\ Alters(c, r, p, v, <<>>)
      <4>1. CASE "IND_RECEIVED" \in q.ctrl
        <5>1. Pushes(c, r, p)
          BY <2>1, <2>5, <4>1, SendTxPushes
        <5> QED BY <2>2, <2>5, <2>6, <5>1 DEF Pushes
      <4>2. CASE "IND_RECEIVED" \notin q.ctrl
        BY <2>1, <2>5, <4>2, AltersNot DEF ButData, SameMx
      <4> QED BY <4>1, <4>2
    <3>2. Alters(e, r, p, v, <<>>)
      <4>1. Alters(e, r, p, v, <<>> \o <<>>)
        BY <2>1, <3>1, NoneFacts, AltersThen
      <4> QED BY <4>1, NoneFacts
    <3>3. Winds(e, r)
      <4>1. SameMx(e, r)
        BY <2>1, <3>1 DEF SameMx
      <4> QED BY <4>1, CalmWinds
    <3>4. Sound(e.self, p, v)
      BY <2>2, <2>3, <2>4, <2>6, <3>1 DEF Sound, OwnMsc, ButData, Negotiating
    <3>5. v.state = q.state /\ v.rfc = q.rfc /\ v.mcb = q.mcb /\ ("PN" \in v.rsp <=> "PN" \in q.rsp)
      BY <2>2, <3>1 DEF ButData
    <3> HIDE DEF v
    <3> QED BY <1>1, <2>6, <3>2, <3>3, <3>4, <3>5, NoneFacts, TalkStep DEF q, r
  <2>7. CASE q.rfc = "OPENED"
    <3>1. Flows(u)
      BY <1>1, <2>2, <2>7 DEF Sound, OwnMsc, Flows, SameFlow
    <3>2. /\ SameMx(c, r) /\ ButData(u, v) /\ Flows(v) /\ Idle(v, e.congested)
          /\ \E g \in Seq(DataOf(p)) :
                /\ Alters(c, r, p, v, g)
                /\ \A w, ea : Conserves(u, v, <<>>, g, w, w, ea, ea)
      <4>1. CASE "IND_RECEIVED" \in q.ctrl
        <5>1. /\ SameMx(c, r) /\ ButData(u, v) /\ Flows(v)
              /\ v.tx # <<>> => v.credit_tx = 0 \/ e.congested
              /\ \E g \in Seq(DataOf(p)) :
                    /\ Alters(c, r, p, v, g)
                    /\ \A w, ea : Conserves(u, v, <<>>, g, w, w, ea, ea)
          <6>1. c.port[p].rfc = "OPENED" /\ c.port[p].mcb /\ Flows(c.port[p])
            BY <1>3, <2>2, <2>5, <2>7, <3>1
          <6>2. r = port_rfc_send_tx_data(c, p)
            BY <2>1, <4>1
          <6> QED BY <2>5, <6>1, <6>2, OpenSends
        <5> QED BY <5>1 DEF Idle
      <4>2. CASE "IND_RECEIVED" \notin q.ctrl
        <5>1. r = c /\ v = u
          BY <2>1, <2>5, <4>2
        <5>2. \A w, ea : Conserves(u, u, <<>>, <<>>, w, w, ea, ea)
          BY <2>2, NoneFacts, FlowSame DEF SameFlow
        <5>3. <<>> \in Seq(DataOf(p)) /\ Alters(c, c, p, u, <<>>)
          BY <2>5, DataFrames, AltersNot
        <5>4. Idle(u, e.congested)
          BY <2>2, <4>2 DEF Idle, SetUp
        <5> QED BY <3>1, <5>1, <5>2, <5>3, <5>4 DEF SameMx, ButData
      <4> QED BY <4>1, <4>2
    <3>3. PICK g \in Seq(DataOf(p)) : /\ Alters(c, r, p, v, g)
                                      /\ \A w, ea : Conserves(u, v, <<>>, g, w, w, ea, ea)
      BY <3>2
    <3>4. g \in Seq(Frames) /\ Free(g, Opening) /\ <<>> \o g = g
      BY DataFreeFacts DEF DataFree
    <3>5. Winds(e, r)
      <4>1. SameMx(e, r)
        BY <2>1, <3>2 DEF SameMx
      <4> QED BY <4>1, CalmWinds
    <3> HIDE DEF v
    <3>6. Alters(e, r, p, v, g)
      <4>1. Alters(e, r, p, v, <<>> \o g)
        BY <2>1, <3>3, <3>4, NoneFacts, AltersThen
      <4> QED BY <3>4, <4>1
    <3>7. Sound(e.self, p, v)
      BY <2>2, <2>3, <2>4, <2>7, <3>2 DEF Sound, OwnMsc, ButData, Negotiating
    <3>8. v.rfc = "OPENED"
      BY <2>2, <2>7, <3>2 DEF ButData
    <3>9. ASSUME NEW w \in Nat, NEW ea \in SUBSET Nat PROVE Conserves(q, v, In(f), g, w, w, ea, ea)
      <4>1. Free(<<f>>, {"DATA", "CREDIT"})
        <5>1. \A T : \A h \in Frames : Free(<<h>>, T) <=> h.t \notin T
          BY NoneFacts, FreeFacts
        <5> QED BY <5>1
      <4>2. Conserves(q, u, <<f>>, <<>>, w, w, ea, ea)
        BY <1>1, <2>2, <4>1, NoneFacts, FlowSame
      <4>3. Conserves(u, v, <<>>, g, w, w, ea, ea)
        BY <3>3
      <4>4. Conserves(q, v, <<f>>, <<>> \o g, w, w, ea, ea)
        BY <1>1, <3>4, <4>2, <4>3, NoneFacts, ConservesThen
      <4> QED BY <1>1, <3>4, <4>4
    <3>10. f.t # "CALL"
      OBVIOUS
    <3> QED BY <1>1, <2>7, <3>2, <3>4, <3>5, <3>6, <3>7, <3>8, <3>9, <3>10, OpenStep DEF q, r
  <2> QED BY <2>6, <2>7
<1> QED BY <1>2, <1>3

(* MSC *)
LEMMA MscStep ==
  ASSUME NEW e, Steady(e), NEW p \in Ports, \A x \in Ports : Fit(e, x),
         NEW f \in Frames, f.p = p, f.t = "MSC"
  PROVE  Steps(e, rfc_process_msc(e, f), p, f)
<1> DEFINE q == e.port[p]
           r == rfc_process_msc(e, f)
           v == r.port[p]
           m == <<Frame("MSCR", p)>>
           n == <<Frame("MSC", p)>>
<1>1. /\ Sound(e.self, p, q) /\ Idle(q, e.congested) /\ f \in Inputs /\ q \in Port
      /\ In(f) = <<f>> /\ <<f>> \in Seq(Frames) /\ f.t \in Talk /\ ~Connects(q, f)
  BY DEF Inputs, Steady, Ends, In, Fit, Talk, Connects
<1>2. CASE ~q.mcb
  <2>1. r = e
    BY <1>2 DEF rfc_process_msc
  <2> QED BY <1>1, <2>1, SameStep
<1>3. CASE q.mcb
  <2> DEFINE up == q.state = "OPENED" /\ q.rfc = "OPENED"
  <2>1. PICK a, c : /\ r = Put(c, p, Indicated(c.port[p]))
                    /\ Alters(e, a, p, q, m) /\ SameMx(e, a) /\ a.port[p] = q
                    /\ "REQ_SENT" \notin q.ctrl /\ up => Alters(a, c, p, Asked(q), n) /\ SameMx(a, c)
                    /\ "REQ_SENT" \notin q.ctrl /\ ~up => c = a
                    /\ {"REQ_SENT", "REQ_CONFIRMED"} \subseteq q.ctrl =>
                         c = port_rfc_send_tx_data(a, p)
                    /\ "REQ_SENT" \in q.ctrl /\ "REQ_CONFIRMED" \notin q.ctrl => c = a
    BY <1>3, MscActs
  <2> DEFINE b == c.port[p]
  <2>2. Steady(a) /\ a.congested = e.congested
    BY <2>1 DEF Alters
  <2>3. /\ m \in Seq(Frames) /\ Free(m, Opening) /\ Free(m, {"DATA", "CREDIT"})
        /\ n \in Seq(Frames) /\ Free(n, Opening) /\ Free(n, {"DATA", "CREDIT"})
    BY StatusFrames
  <2>4. q.rfc = "OPENED" /\ "REQ_CONFIRMED" \in q.ctrl => "REQ_SENT" \in q.ctrl
    BY <1>1 DEF Sound, OwnMsc
  <2> HIDE DEF r, q, m, n, up
  <2>5. CASE q.rfc # "OPENED"
    <3>1. ~up
      BY <2>5 DEF up
    <3>2. ButData(q, b) /\ SameMx(a, c) /\ Alters(a, c, p, b, <<>>)
      <4>1. CASE {"REQ_SENT", "REQ_CONFIRMED"} \subseteq q.ctrl
        <5>1. Pushes(a, c, p)
          BY <2>1, <2>2, <4>1, SendTxPushes
        <5> QED BY <2>1, <2>5, <5>1 DEF Pushes
      <4>2. CASE ~({"REQ_SENT", "REQ_CONFIRMED"} \subseteq q.ctrl)
        <5>1. c = a
          BY <2>1, <3>1, <4>2
        <5> QED BY <2>1, <2>2, <5>1, AltersNot DEF ButData, SameMx
      <4> QED BY <4>1, <4>2
    <3>3. ~({"REQ_SENT", "REQ_CONFIRMED"} \subseteq q.ctrl) => b = q
      BY <2>1, <3>1
    <3>4. Alters(e, c, p, b, m)
      <4>1. Alters(e, c, p, b, m \o <<>>)
        BY <2>1, <2>3, <3>2, NoneFacts, AltersThen
      <4> QED BY <2>3, <4>1
    <3>5. b \in Port
      BY <3>2 DEF Alters, Steady, Ends
    <3> HIDE DEF b
    <3>6. /\ Indicated(b) \in Port /\ Indicated(b).state = b.state /\ Indicated(b).rfc = b.rfc
          /\ Indicated(b).mcb = b.mcb /\ Indicated(b).rsp = b.rsp
          /\ Indicated(b).ctrl = b.ctrl \cup {"IND_RECEIVED"}
          /\ Indicated(b).peer_fc = b.peer_fc /\ SameFlow(b, Indicated(b))
      BY <3>5, StatusFields, SettledTypes
    <3>7. Calm(e, c)
      <4>1. SameMx(e, c)
        BY <2>1, <3>2 DEF SameMx
      <4> QED BY <4>1, CalmWinds
    <3>8. Alters(e, r, p, Indicated(b), m) /\ Winds(e, r)
      <4>1. Alters(e, r, p, Indicated(b), m) /\ Calm(e, r)
        BY <2>1, <2>3, <3>4, <3>6, <3>7, AltersPut DEF b
      <4> QED BY <4>1, CalmWinds
    <3>9. Sound(e.self, p, Indicated(b))
      <4>1. CASE ~({"REQ_SENT", "REQ_CONFIRMED"} \subseteq q.ctrl)
        BY <1>1, <3>3, <3>6, <4>1 DEF Sound, OwnMsc, Negotiating, Flows, SameFlow
      <4>2. CASE {"REQ_SENT", "REQ_CONFIRMED"} \subseteq q.ctrl
        <5>1. q.rfc \notin {"ORIG_WAIT_SEC_CHECK", "SABME_WAIT_UA"} /\ "PN" \notin q.rsp
          BY <1>1, <4>2 DEF Sound, OwnMsc
        <5> QED BY <1>1, <2>5, <3>2, <3>6, <5>1 DEF Sound, OwnMsc, Negotiating, ButData
      <4> QED BY <4>1, <4>2
    <3> QED BY <1>1, <2>3, <2>5, <3>2, <3>6, <3>8, <3>9, TalkStep DEF ButData, q, r
  <2>6. CASE q.rfc = "OPENED"
    <3>1. up /\ Flows(q) /\ q.state = "OPENED" /\ "PN" \notin q.rsp
      BY <1>1, <2>6 DEF Sound, OwnMsc, up
    <3>2. \E h \in Seq(Frames) :
            /\ Free(h, Opening) /\ Alters(a, c, p, b, h) /\ SameMx(a, c)
            /\ b.state = q.state /\ b.rfc = q.rfc /\ b.mcb = q.mcb /\ Flows(b)
            /\ b.rsp \subseteq q.rsp \cup {"MSC"} /\ "REQ_SENT" \in b.ctrl
            /\ "REQ_CONFIRMED" \in b.ctrl => b.tx = <<>> \/ b.credit_tx = 0 \/ e.congested
            /\ \A w, ea : Conserves(q, b, <<>>, h, w, w, ea, ea)
      <4>1. CASE "REQ_SENT" \notin q.ctrl
        <5>1. Alters(a, c, p, Asked(q), n) /\ SameMx(a, c)
          BY <2>1, <3>1, <4>1
        <5>2. b = Asked(q)
          BY <2>2, <5>1 DEF Alters, Steady, Ends
        <5>3. b \in Port
          BY <5>1 DEF Alters, Steady, Ends
        <5> HIDE DEF b
        <5>4. /\ b.state = q.state /\ b.rfc = q.rfc /\ b.mcb = q.mcb /\ b.rsp = q.rsp \cup {"MSC"}
              /\ b.ctrl = q.ctrl \cup {"REQ_SENT"} /\ b.peer_fc = q.peer_fc /\ SameFlow(q, b)
          BY <1>1, <5>2, StatusFields
        <5>5. \A w, ea : Conserves(q, b, <<>>, n, w, w, ea, ea)
          BY <1>1, <2>3, <5>3, <5>4, NoneFacts, FlowSame
        <5>6. "REQ_CONFIRMED" \notin b.ctrl
          BY <2>4, <2>6, <4>1, <5>4
        <5>7. Flows(b)
          BY <3>1, <5>4 DEF Flows, SameFlow
        <5> QED BY <2>3, <5>1, <5>2, <5>4, <5>5, <5>6, <5>7
      <4>2. CASE {"REQ_SENT", "REQ_CONFIRMED"} \subseteq q.ctrl
        <5>1. c = port_rfc_send_tx_data(a, p)
          BY <2>1, <4>2
        <5>2. a.port[p].rfc = "OPENED" /\ a.port[p].mcb /\ Flows(a.port[p])
          BY <1>3, <2>1, <2>6, <3>1
        <5>3. /\ SameMx(a, c) /\ ButData(a.port[p], b) /\ Flows(b)
              /\ b.tx # <<>> => b.credit_tx = 0 \/ a.congested
              /\ \E g \in Seq(DataOf(p)) :
                   /\ Alters(a, c, p, b, g)
                   /\ \A w, ea : Conserves(a.port[p], b, <<>>, g, w, w, ea, ea)
          BY <2>2, <5>1, <5>2, OpenSends
        <5>4. PICK g \in Seq(DataOf(p)) :
                   /\ Alters(a, c, p, b, g)
                   /\ \A w, ea : Conserves(a.port[p], b, <<>>, g, w, w, ea, ea)
          BY <5>3
        <5>5. g \in Seq(Frames) /\ Free(g, Opening)
          BY DataFreeFacts DEF DataFree
        <5> HIDE DEF b
        <5>6. b.state = q.state /\ b.rfc = q.rfc /\ b.mcb = q.mcb /\ b.rsp = q.rsp /\ b.ctrl = q.ctrl
          BY <2>1, <5>3 DEF ButData
        <5> QED BY <2>1, <2>2, <4>2, <5>3, <5>4, <5>5, <5>6
      <4>3. CASE "REQ_SENT" \in q.ctrl /\ "REQ_CONFIRMED" \notin q.ctrl
        <5>1. c = a /\ b = q
          BY <2>1, <4>3
        <5>2. \A w, ea : Conserves(q, q, <<>>, <<>>, w, w, ea, ea)
          BY <1>1, NoneFacts, FlowSame DEF SameFlow
        <5>3. Alters(a, c, p, b, <<>>)
          BY <2>1, <2>2, <5>1, AltersNot
        <5> QED BY <3>1, <4>3, <5>1, <5>2, <5>3, NoneFacts DEF SameMx
      <4> QED BY <4>1, <4>2, <4>3
    <3>3. PICK h \in Seq(Frames) :
            /\ Free(h, Opening) /\ Alters(a, c, p, b, h) /\ SameMx(a, c)
            /\ b.state = q.state /\ b.rfc = q.rfc /\ b.mcb = q.mcb /\ Flows(b)
            /\ b.rsp \subseteq q.rsp \cup {"MSC"} /\ "REQ_SENT" \in b.ctrl
            /\ "REQ_CONFIRMED" \in b.ctrl => b.tx = <<>> \/ b.credit_tx = 0 \/ e.congested
            /\ \A w, ea : Conserves(q, b, <<>>, h, w, w, ea, ea)
      BY <3>2
    <3> DEFINE g == m \o h
    <3>4. g \in Seq(Frames) /\ Free(g, Opening)
      BY <2>3, <3>3, FreeFacts
    <3>5. Alters(e, c, p, b, g)
      BY <2>1, <2>3, <3>3, AltersThen
    <3>6. b \in Port
      BY <3>3 DEF Alters, Steady, Ends
    <3> HIDE DEF b, g
    <3> DEFINE u == Indicated(b)
    <3>7. /\ u \in Port /\ u.state = b.state /\ u.rfc = b.rfc /\ u.mcb = b.mcb /\ u.rsp = b.rsp
          /\ u.ctrl = b.ctrl \cup {"IND_RECEIVED"} /\ u.peer_fc = b.peer_fc /\ SameFlow(b, u)
      BY <3>6, StatusFields, SettledTypes
    <3>8. Calm(e, c)
      <4>1. SameMx(e, c)
        BY <2>1, <3>3 DEF SameMx
      <4> QED BY <4>1, CalmWinds
    <3>9. Alters(e, r, p, u, g) /\ Winds(e, r)
      <4>1. Alters(e, r, p, u, g) /\ Calm(e, r)
        BY <2>1, <3>4, <3>5, <3>7, <3>8, AltersPut DEF b
      <4> QED BY <4>1, CalmWinds
    <3> HIDE DEF u
    <3>10. Sound(e.self, p, u)
      BY <1>1, <1>3, <2>6, <3>1, <3>3, <3>7 DEF Sound, OwnMsc, Negotiating, Flows, SameFlow
    <3>11. Idle(u, e.congested)
      BY <3>3, <3>7 DEF Idle, SameFlow
    <3>12. ASSUME NEW w \in Nat, NEW ea \in SUBSET Nat PROVE Conserves(q, u, In(f), g, w, w, ea, ea)
      <4>1. Free(<<f>>, {"DATA", "CREDIT"})
        <5>1. \A T : \A x \in Frames : Free(<<x>>, T) <=> x.t \notin T
          BY NoneFacts, FreeFacts
        <5> QED BY <5>1
      <4>2. Conserves(q, q, <<f>>, m, w, w, ea, ea)
        BY <1>1, <2>3, <4>1, FlowSame DEF SameFlow
      <4>3. Conserves(q, b, <<>>, h, w, w, ea, ea)
        BY <3>3
      <4>4. Conserves(q, b, <<f>>, g, w, w, ea, ea)
        BY <1>1, <2>3, <4>2, <4>3, ConservesThen DEF g
      <4>5. Conserves(b, u, <<>>, <<>>, w, w, ea, ea)
        BY <3>6, <3>7, NoneFacts, FlowSame
      <4>6. Conserves(q, u, <<f>>, g \o <<>>, w, w, ea, ea)
        BY <1>1, <3>4, <4>4, <4>5, NoneFacts, ConservesThen
      <4> QED BY <1>1, <3>4, <4>6
    <3>13. f.t # "CALL" /\ u.rfc = "OPENED"
      BY <2>6, <3>3, <3>7
    <3> QED BY <1>1, <2>6, <3>4, <3>9, <3>10, <3>11, <3>12, <3>13, OpenStep DEF q, r
  <2> QED BY <2>5, <2>6
<1> QED BY <1>2, <1>3

(* Any frame of a port *)
LEMMA FrameStep ==
  ASSUME NEW e, Steady(e), NEW p \in Ports, \A x \in Ports : Fit(e, x),
         NEW f \in Frames, f.p = p, Ready(e.self, p, On(e), e.port[p], f)
  PROVE  Steps(e, RFCOMM_BufDataInd(e, f), p, f)
<1> DEFINE q == e.port[p]
<1>1. /\ Fit(e, p) /\ Sound(e.self, p, q) /\ f \in Inputs /\ q \in Port /\ f.p # 0 /\ f.t # "CALL"
      /\ f.t \in {"PN", "PNR", "MSC", "MSCR", "SABME", "UA", "DM", "DISC", "DATA", "CREDIT"}
      /\ f.t # "NONE"
  BY Constants DEF Fit, Inputs, Steady, Ends, Frames
<1>2. CASE e.mx = "IDLE"
  <2>1. RFCOMM_BufDataInd(e, f) = e
    BY <1>2 DEF RFCOMM_BufDataInd
  <2>2. Stopping(e) /\ ~On(e)
    BY <1>2 DEF Stopping, On
  <2>3. q.rfc # "OPENED" /\ (IsServer(e.self, p) \/ ~q.mcb)
    BY <1>1, <2>2 DEF Fit, Quits
  <2>4. ~IsServer(e.self, p) => ~Connects(q, f) /\ ~Negotiating(q)
    BY <1>1, <2>3 DEF Sound, OwnMsc, Connects, Negotiating
  <2>5. Alters(e, e, p, q, <<>>) /\ Winds(e, e) /\ Alike(q, q)
    BY AltersNot, AlikeSelf DEF Winds
  <2> QED BY <1>1, <2>1, <2>2, <2>3, <2>4, <2>5, NoneFacts, StayStep
<1>3. CASE e.mx # "IDLE"
  <2>1. CASE f.t = "PN"
    BY <1>1, <1>3, <2>1, PnStep DEF RFCOMM_BufDataInd
  <2>2. CASE f.t = "PNR"
    BY <1>1, <1>3, <2>2, PnrStep DEF RFCOMM_BufDataInd
  <2>3. CASE f.t = "MSC"
    BY <1>1, <1>3, <2>3, MscStep DEF RFCOMM_BufDataInd
  <2>4. CASE f.t = "MSCR"
    BY <1>1, <1>3, <2>4, MscrStep DEF RFCOMM_BufDataInd
  <2>5. CASE f.t = "SABME"
    BY <1>1, <1>3, <2>5, SabmeStep DEF RFCOMM_BufDataInd
  <2>6. CASE f.t \in {"UA", "DM"} /\ ~q.mcb
    <3>1. RFCOMM_BufDataInd(e, f) = e
      BY <1>1, <1>3, <2>6 DEF RFCOMM_BufDataInd
    <3>2. ~Connects(q, f) /\ ~Negotiating(q)
      BY <1>1, <2>6 DEF Sound, OwnMsc, Connects, Negotiating
    <3> QED BY <1>1, <2>6, <3>1, <3>2, SameStep
  <2>7. CASE f.t \in {"DISC", "DATA", "CREDIT"} /\ ~q.mcb
    <3>1. RFCOMM_BufDataInd(e, f) = DM(e, p)
      BY <1>1, <1>3, <2>7 DEF RFCOMM_BufDataInd
    <3> QED BY <1>1, <2>7, <3>1, RefuseStep
  <2>8. CASE f.t = "UA" /\ q.mcb
    <3>1. RFCOMM_BufDataInd(e, f) = OnUA(e, p)
      BY <1>1, <1>3, <2>8 DEF RFCOMM_BufDataInd
    <3> QED BY <2>8, <3>1, UaStep
  <2>9. CASE f.t = "DM" /\ q.mcb
    <3>1. RFCOMM_BufDataInd(e, f) = OnDM(e, p)
      BY <1>1, <1>3, <2>9 DEF RFCOMM_BufDataInd
    <3> QED BY <2>9, <3>1, DmStep
  <2>10. CASE f.t = "DISC" /\ q.mcb
    <3>1. RFCOMM_BufDataInd(e, f) = OnDISC(e, p)
      BY <1>1, <1>3, <2>10 DEF RFCOMM_BufDataInd
    <3> QED BY <2>10, <3>1, DiscStep
  <2>11. CASE f.t = "DATA" /\ q.mcb
    <3>1. RFCOMM_BufDataInd(e, f) = OnDATA(e, f)
      BY <1>1, <1>3, <2>11 DEF RFCOMM_BufDataInd
    <3> QED BY <2>11, <3>1, DataStep
  <2>12. CASE f.t = "CREDIT" /\ q.mcb
    <3>1. RFCOMM_BufDataInd(e, f) = rfc_inc_credit(e, p, f.n)
      BY <1>1, <1>3, <2>12 DEF RFCOMM_BufDataInd
    <3> QED BY <2>12, <3>1, CreditStep
  <2>13. q.mcb \in BOOLEAN
    BY <1>1 DEF Port
  <2> QED BY <1>1, <2>1, <2>2, <2>3, <2>4, <2>5, <2>6, <2>7, <2>8, <2>9, <2>10, <2>11, <2>12, <2>13
<1> QED BY <1>2, <1>3

-----------------------------------------------------------------------------
(* The answers of the security manager, and the calls of the application *)

(* The client may connect. *)
LEMMA DialStep ==
  ASSUME NEW e, Steady(e), NEW p \in Ports, \A x \in Ports : Fit(e, x),
         e.port[p].rfc = "ORIG_WAIT_SEC_CHECK"
  PROVE  Steps(e, rfc_sec_check_complete(e, p, TRUE), p, None)
<1> DEFINE q == e.port[p]
           r == rfc_sec_check_complete(e, p, TRUE)
           u == [q EXCEPT !.rfc = "SABME_WAIT_UA", !.timer = TRUE]
           g == <<Frame("SABME", p)>>
<1>1. Fit(e, p) /\ Sound(e.self, p, q) /\ q \in Port
  BY DEF Fit, Steady, Ends
<1>2. Alters(e, r, p, u, g) /\ Winds(e, r)
  BY SecurityActs
<1>3. /\ u.state = q.state /\ u.rfc = "SABME_WAIT_UA" /\ u.mcb = q.mcb /\ u.rsp = q.rsp
      /\ u.ctrl = q.ctrl /\ u.peer_fc = q.peer_fc /\ SameFlow(q, u)
  BY <1>1 DEF Port, SameFlow
<1>4. g \in Seq(Frames) /\ Free(g, Talk)
  <2>1. Frame("SABME", p) \in Frames /\ Frame("SABME", p).t = "SABME" /\ "SABME" \notin Talk
    BY StartFrames DEF Talk
  <2> HIDE DEF Frame
  <2>2. \A T : \A h \in Frames : Free(<<h>>, T) <=> h.t \notin T
    BY NoneFacts, FreeFacts
  <2> QED BY <2>1, <2>2
<1> HIDE DEF r, u
<1>5. ~IsServer(e.self, p) /\ q.state = "OPENING" /\ q.mcb /\ "PN" \notin q.rsp
  BY <1>1 DEF Sound, OwnMsc
<1>6. Sound(e.self, p, u) /\ Idle(u, e.congested)
  BY <1>1, <1>3, <1>5 DEF Sound, OwnMsc, Idle, Negotiating, Flows, SameFlow
<1>7. Does(e.self, p, On(e), q, u, None, g)
  <2>1. Dials(q, u, None, g, p)
    BY <1>3, <1>5, NoneFacts DEF Dials
  <2>2. ASSUME NEW w, NEW ea PROVE ClientMove(q, u, None, g, p, w, w, ea, ea)
    BY <1>3, <1>4, <1>5, <2>1, NoneFacts DEF ClientMove
  <2> QED BY <1>5, <2>2 DEF Does, Moves, Rests, Bare
<1>8. Turns(e, p, u, None, g)
  BY <1>6, <1>7 DEF Turns
<1>9. ~Stopping(e)
  BY <1>1, <1>5 DEF Fit, Quits
<1> HIDE DEF g, q
<1>10. \A x \in Ports : PortStep(e, r, x, IF x = p THEN None ELSE None)
  BY <1>2, <1>4, <1>8, <1>9, AltersStep
<1> QED BY <1>10 DEF Steps, r

(* The server may accept. *)
LEMMA AcceptStep ==
  ASSUME NEW e, Steady(e), NEW p \in Ports, \A x \in Ports : Fit(e, x), On(e),
         e.port[p].rfc = "TERM_WAIT_SEC_CHECK", Undecided(e.port[p])
  PROVE  Steps(e, PORT_DlcEstablishInd(e, p), p, None)
<1> DEFINE q == e.port[p]
           r == PORT_DlcEstablishInd(e, p)
           u == Accepting(q)
           g == <<Frame("UA", p)>>
<1>1. Fit(e, p) /\ Sound(e.self, p, q) /\ q \in Port /\ IsServer(e.self, p) /\ q.mcb
  BY DEF Fit, Steady, Ends, Sound, OwnMsc
<1>2. Alters(e, r, p, u, g) /\ Winds(e, r)
  BY EstablishActs DEF On
<1>3. ~Stopping(r)
  <2> DEFINE c == [e EXCEPT !.timer = FALSE]
             d == [c EXCEPT !.port[p].rfc = "OPENED"]
             a == rfc_check_send_cmd(d, Frame("UA", p))
  <2>1. r = [a EXCEPT !.port[p].state = "OPENED"]
    BY DEF PORT_DlcEstablishInd, On
  <2>2. e \in Ends
    BY DEF Steady
  <2>3. a.timer = FALSE /\ a.mx = e.mx
    BY <2>2 DEF rfc_check_send_cmd, Ends
  <2>4. r.timer = a.timer /\ r.mx = a.mx
    <3> HIDE DEF a
    <3>1. r = [a EXCEPT !.port = [a.port EXCEPT ![p] = [a.port[p] EXCEPT !.state = "OPENED"]]]
      BY <2>1
    <3> QED BY <3>1
  <2> QED BY <2>3, <2>4 DEF Stopping, On
<1>4. /\ u.state = "OPENED" /\ u.rfc = "OPENED" /\ u.mcb /\ u.rsp = q.rsp
      /\ u.ctrl = q.ctrl /\ u.peer_fc = q.peer_fc /\ SameFlow(q, u)
  BY <1>1 DEF Port, SameFlow, Accepting
<1>5. g \in Seq(Frames) /\ Free(g, Opening)
  BY PlainFrames
<1> HIDE DEF r, u
<1>6. Flows(u) /\ u.tx = <<>> /\ u.ctrl = {} /\ "MSC" \notin u.rsp
  BY <1>4, Constants DEF Undecided, HasCredits, SameFlow, Flows
<1>7. Sound(e.self, p, u) /\ Idle(u, e.congested)
  BY <1>1, <1>4, <1>6 DEF Sound, OwnMsc, Idle, Negotiating
<1>8. Does(e.self, p, On(e), q, u, None, g)
  <2>1. Accepts(q, u, None, g, p)
    BY <1>4, NoneFacts DEF Accepts
  <2>2. ASSUME NEW w, NEW ea PROVE ServerMove(q, u, None, g, p, w, w, ea, ea)
    BY <1>4, <1>5, <2>1, NoneFacts DEF ServerMove, Rested
  <2> QED BY <1>1, <1>5, <2>2 DEF Does, Moves, Rests, Bare
<1>9. Turns(e, p, u, None, g)
  BY <1>7, <1>8 DEF Turns
<1> HIDE DEF g, q
<1>10. \A x \in Ports : PortStep(e, r, x, IF x = p THEN None ELSE None)
  BY <1>2, <1>3, <1>5, <1>9, AltersStep
<1> QED BY <1>10 DEF Steps, r

(* The server accepts although the multiplexer is being disconnected. *)
LEMMA RefusedStep ==
  ASSUME NEW e, Steady(e), NEW p \in Ports, \A x \in Ports : Fit(e, x), ~On(e),
         e.port[p].rfc = "TERM_WAIT_SEC_CHECK"
  PROVE  Steps(e, PORT_DlcEstablishInd(e, p), p, None)
<1> DEFINE q == e.port[p]
           r == PORT_DlcEstablishInd(e, p)
           c == Closed(e.self, p, q)
           u == Refusing(e.self, p, q)
<1>1. Sound(e.self, p, q) /\ q \in Port /\ IsServer(e.self, p) /\ q.mcb /\ "PN" \notin q.rsp
  BY DEF Fit, Steady, Ends, Sound, OwnMsc
<1>2. Alters(e, r, p, u, <<>>) /\ Winds(e, r)
  BY EstablishActs DEF On
<1>3. Sound(e.self, p, c) /\ c.rfc = "CLOSED" /\ ~c.mcb /\ c \in Port
  BY <1>1, ClosedSound, UnusedTypes
<1> HIDE DEF c
<1>4. /\ u.state = "OPENED" /\ u.rfc = "CLOSED" /\ ~u.mcb /\ u.rsp = c.rsp /\ u.ctrl = c.ctrl
  BY <1>3 DEF Refusing, c, Port
<1> HIDE DEF r, u
<1>5. Sound(e.self, p, u) /\ ~Live(u)
  BY <1>1, <1>3, <1>4 DEF Sound, OwnMsc, Negotiating, Live
<1>6. Rests(e.self, p, q, u, None, <<>>)
  BY <1>1 DEF Rests, Bare
<1> QED BY <1>1, <1>2, <1>4, <1>5, <1>6, NoneFacts, EndStep DEF r

(* The answer of the security manager *)
LEMMA SecurityStep ==
  ASSUME NEW e, Steady(e), NEW p \in Ports, \A x \in Ports : Fit(e, x), NEW ok \in BOOLEAN,
         e.port[p].rfc \in {"ORIG_WAIT_SEC_CHECK", "TERM_WAIT_SEC_CHECK"},
         Ready(e.self, p, On(e), e.port[p], None)
  PROVE  Steps(e, rfc_sec_check_complete(e, p, ok), p, None)
<1> DEFINE q == e.port[p]
           r == rfc_sec_check_complete(e, p, ok)
           orig == q.rfc = "ORIG_WAIT_SEC_CHECK"
           dm == <<Frame("DM", p)>>
<1>1. Sound(e.self, p, q) /\ q \in Port
  BY DEF Fit, Steady, Ends
<1>2. /\ Winds(e, r)
      /\ orig /\ ~ok => Alters(e, r, p, Closed(e.self, p, q), <<>>)
      /\ ~orig /\ ok => /\ e.mx = "IDLE" => r = e
                        /\ e.mx # "IDLE" => r = PORT_DlcEstablishInd(e, p)
      /\ ~orig /\ ~ok => Alters(e, r, p, Closed(e.self, p, q), dm)
  BY SecurityActs
<1>3. dm \in Seq(Frames) /\ Free(dm, Opening) /\ Free(dm, Talk)
  BY PlainFrames
<1>4. None \in Inputs /\ None.t = "NONE" /\ ~Connects(q, None)
  BY NoneFacts DEF Connects
<1>5. ~Rested(q)
  BY DEF Rested
<1>6. CASE orig /\ ok
  BY <1>6, DialStep
<1>7. CASE orig /\ ~ok
  <2> HIDE DEF r
  <2> QED BY <1>1, <1>2, <1>4, <1>5, <1>7, NoneFacts, ClosedStep DEF r
<1>8. CASE ~orig /\ ~ok
  <2> HIDE DEF r, dm
  <2> QED BY <1>1, <1>2, <1>3, <1>4, <1>5, <1>8, ClosedStep DEF r
<1>9. CASE ~orig /\ ok
  <2>1. q.rfc = "TERM_WAIT_SEC_CHECK" /\ IsServer(e.self, p)
    BY <1>1, <1>9 DEF Sound, OwnMsc
  <2>2. CASE e.mx = "IDLE"
    BY <1>2, <1>4, <1>9, <2>1, <2>2, SameStep
  <2>3. CASE e.mx # "IDLE" /\ On(e)
    <3>1. Undecided(q)
      BY <2>1, <2>3 DEF Ready
    <3> QED BY <1>2, <1>9, <2>1, <2>3, <3>1, AcceptStep
  <2>4. CASE e.mx # "IDLE" /\ ~On(e)
    BY <1>2, <1>9, <2>1, <2>4, RefusedStep
  <2> QED BY <2>2, <2>3, <2>4
<1> QED BY <1>6, <1>7, <1>8, <1>9

(* RFCOMM_CreateConnection *)
LEMMA CreateStep ==
  ASSUME NEW e, Steady(e), NEW p \in Ports, \A x \in Ports : Fit(e, x), ~IsServer(e.self, p), On(e)
  PROVE  LET c == [e EXCEPT !.timer = FALSE, !.port[p] = [Unused EXCEPT !.state = "OPENING", !.mcb = TRUE]]
         IN Steps(e, RFCOMM_ParNegReq(c, p), p, Call(p))
<1> DEFINE c == [e EXCEPT !.timer = FALSE, !.port[p] = Fresh]
           r == RFCOMM_ParNegReq(c, p)
           u == Asking(Fresh)
           g == <<Credits("PN", p, k)>>
           q == e.port[p]
<1>1. Alters(e, r, p, u, g) /\ Calm(e, r) /\ ~r.timer
  BY CreateActs
<1>2. /\ u.state = "OPENING" /\ u.rfc = "CLOSED" /\ u.mcb /\ u.rsp = {"PN"} /\ u.ctrl = {}
      /\ u.tx = <<>> /\ u.rx = <<>> /\ u.credit_rx = k /\ u.peer_fc = FALSE
  BY DEF Asking, Fresh, Unused
<1>3. g \in Seq(Frames) /\ Call(p) \in Inputs /\ Call(p).t = "CALL"
  BY StartFrames DEF Call, Inputs
<1> HIDE DEF u, r
<1>4. Winds(e, r) /\ ~Stopping(r)
  BY <1>1, CalmWinds DEF Calm, Stopping, On
<1>5. Sound(e.self, p, u) /\ Idle(u, e.congested)
  BY <1>2 DEF Sound, OwnMsc, Idle, Negotiating
<1>6. Does(e.self, p, On(e), q, u, Call(p), g)
  <2>1. Starts(u, g, p)
    BY <1>2 DEF Starts, Negotiating
  <2>2. ASSUME NEW w, NEW ea PROVE ClientMove(q, u, Call(p), g, p, w, w, ea, ea)
    BY <1>3, <2>1 DEF ClientMove
  <2> QED BY <1>3, <2>2 DEF Does, Moves, Rests
<1>7. Turns(e, p, u, Call(p), g)
  BY <1>5, <1>6 DEF Turns
<1> HIDE DEF g, q
<1>8. \A x \in Ports : PortStep(e, r, x, IF x = p THEN Call(p) ELSE None)
  BY <1>1, <1>3, <1>4, <1>7, AltersStep
<1> QED BY <1>8 DEF Steps, r, Fresh

(* What a port does when its application writes. *)
PortMoves(e, r, p, f, w, w2, ea, ea2) ==
  /\ Fit(r, p) /\ Remains(e, r)
  /\ \E g \in Seq(Frames) :
       /\ Mine(r, p) = Mine(e, p) \o g
       /\ Moves(e.self, p, On(e), e.port[p], r.port[p], f, g, w, w2, ea, ea2)

LEMMA WriteMoves ==
  ASSUME NEW e, Steady(e), NEW p \in Ports, \A x \in Ports : Fit(e, x),
         NEW r, NEW u, NEW g \in Seq(Frames), Alters(e, r, p, u, g), SameMx(e, r),
         u.rfc = e.port[p].rfc, u.mcb = e.port[p].mcb,
         Sound(e.self, p, u), Idle(u, e.congested), NEW w, NEW w2, NEW ea, NEW ea2,
         Moves(e.self, p, On(e), e.port[p], u, None, g, w, w2, ea, ea2)
  PROVE  /\ PortMoves(e, r, p, None, w, w2, ea, ea2)
         /\ \A x \in Ports \ {p} : PortStep(e, r, x, None)
<1>1. r.self = e.self /\ r.congested = e.congested /\ r.port[p] = u /\ Mine(r, p) = Mine(e, p) \o g
  BY DEF Alters, Steady, Ends
<1>2. Winds(e, r)
  BY CalmWinds
<1>3. \A x \in Ports \ {p} : PortStep(e, r, x, None)
  BY <1>2, AltersOthers
<1>4. Fit(r, p)
  <2>1. Stopping(r) => Quits(e.self, p, e.port[p])
    BY DEF Fit, SameMx, Stopping
  <2> QED BY <1>1, <2>1 DEF Fit, Quits
<1>5. Remains(e, r)
  BY DEF SameMx, On, Alters, Remains
<1> QED BY <1>1, <1>3, <1>4, <1>5 DEF PortMoves

LEMMA WriteStep ==
  ASSUME NEW e, Steady(e), NEW p \in Ports, \A x \in Ports : Fit(e, x),
         IsServer(e.self, p) => e.port[p].rfc = "OPENED", e.port[p].state # "CLOSED",
         NEW w \in Nat, w + 1 \in Buffers, NEW ea \in SUBSET Nat
  PROVE  LET q == e.port[p]
             ea2 == IF SetUp(q) /\ "REQ_CONFIRMED" \notin q.ctrl THEN ea \cup {w + 1} ELSE ea
             r == port_write(e, p, w + 1)
         IN /\ PortMoves(e, r, p, None, w, w + 1, ea, ea2)
            /\ \A x \in Ports \ {p} : PortStep(e, r, x, None)
<1> DEFINE q == e.port[p]
           ea2 == IF SetUp(q) /\ "REQ_CONFIRMED" \notin q.ctrl THEN ea \cup {w + 1} ELSE ea
           r == port_write(e, p, w + 1)
           direct == MaySend(e, p) /\ q.rfc = "OPENED" /\ SetUp(q)
           d == w + 1
           n == Grant(q, d)
           u == AfterData(q, d)
           t == [q EXCEPT !.tx = Append(@, d)]
           g == <<Data(p, n, d)>>
<1>1. Sound(e.self, p, q) /\ Idle(q, e.congested) /\ q \in Port
  BY DEF Fit, Steady, Ends
<1>2. /\ SameMx(e, r)
      /\ direct => Alters(e, r, p, u, g)
      /\ ~direct => Alters(e, r, p, t, <<>>)
  BY WriteActs
<1>3. ea \subseteq ea2 /\ In(None) = <<>>
  BY NoneFacts
<1> HIDE DEF r
<1>4. CASE direct
  <2>1. Flows(q) /\ ~q.peer_fc /\ q.credit_tx > 0 /\ q.state = "OPENED" /\ q.mcb /\ SetUp(q)
        /\ q.rfc = "OPENED" /\ ~e.congested /\ "PN" \notin q.rsp
    <3>1. Flows(q) /\ ~q.peer_fc /\ q.state = "OPENED" /\ q.mcb /\ SetUp(q) /\ ~e.congested
          /\ "PN" \notin q.rsp
      BY <1>1, <1>4 DEF Sound, OwnMsc, MaySend
    <3>2. q.credit_tx > 0
      BY <1>1, <3>1, AfterDataFlows
    <3> QED BY <1>4, <3>1, <3>2
  <2>2. /\ ButData(q, u) /\ u.tx = q.tx /\ u.credit_rx = q.credit_rx + n
        /\ u.credit_tx = q.credit_tx - 1 /\ Flows(u) /\ u \in Port
        /\ n \in 0..credit_rx_max
    BY <1>1, <2>1, AfterDataFields, AfterDataFlows, GrantType
  <2>3. g \in Seq(Frames) /\ Free(g, Opening)
    <3>1. Data(p, n, d) \in Frames /\ Data(p, n, d).t = "DATA"
      BY <2>2, FrameTypes DEF Data
    <3>2. "DATA" \notin Opening
      BY DEF Opening
    <3> HIDE DEF Data
    <3>3. \A T : \A h \in Frames : Free(<<h>>, T) <=> h.t \notin T
      BY NoneFacts, FreeFacts
    <3> QED BY <3>1, <3>2, <3>3
  <2>4. q.tx = <<>> \/ "REQ_CONFIRMED" \notin q.ctrl
    <3>1. q.credit_tx # 0
      BY <1>1, <2>1 DEF Flows
    <3> QED BY <1>1, <2>1, <3>1 DEF Idle
  <2> HIDE DEF u
  <2>5. Sound(e.self, p, u) /\ Idle(u, e.congested)
    BY <1>1, <2>1, <2>2, <2>4 DEF Sound, OwnMsc, Idle, ButData, Negotiating
  <2>6. Conserves(q, u, <<>>, g, w, w + 1, ea, ea2)
    <3>1. q.tx = <<>> \/ d \in ea2
      BY <2>1, <2>4
    <3>2. Spent(q, u, n)
      BY <2>1, <2>2 DEF Spent, ButData
    <3> HIDE DEF ea2, n
    <3> QED BY <1>1, <1>3, <2>2, <3>1, <3>2, FlowDirect DEF d, g
  <2> HIDE DEF ea2, g, n
  <2>7. Moves(e.self, p, On(e), q, u, None, g, w, w + 1, ea, ea2)
    <3>1. u.rfc = "OPENED" /\ u.state = "OPENED"
      BY <2>1, <2>2 DEF ButData
    <3>2. ClientMove(q, u, None, g, p, w, w + 1, ea, ea2)
      <4>1. Uses(q, u, None, g, w, w + 1, ea, ea2)
        BY <1>3, <2>1, <2>6, <3>1 DEF Uses
      <4> QED BY <2>1, <2>3, <4>1, NoneFacts DEF ClientMove
    <3>3. ServerMove(q, u, None, g, p, w, w + 1, ea, ea2)
      BY <1>3, <2>1, <2>3, <2>6, <3>1, NoneFacts DEF ServerMove, Rested
    <3> QED BY <2>1, <2>3, <3>2, <3>3 DEF Moves, Rests, Bare, Rested
  <2>8. u.rfc = q.rfc /\ u.mcb = q.mcb /\ Alters(e, r, p, u, g)
    BY <1>2, <1>4, <2>2 DEF ButData
  <2> QED BY <1>2, <2>3, <2>5, <2>7, <2>8, WriteMoves DEF r, ea2
<1>5. CASE ~direct
  <2>1. /\ t.state = q.state /\ t.rfc = q.rfc /\ t.mcb = q.mcb /\ t.rsp = q.rsp /\ t.ctrl = q.ctrl
        /\ t.peer_fc = q.peer_fc /\ t.credit_tx = q.credit_tx /\ t.credit_rx = q.credit_rx
        /\ t.rx = q.rx /\ t.tx = Append(q.tx, d)
    BY <1>1 DEF Port
  <2>3. Alters(e, r, p, t, <<>>)
    BY <1>2, <1>5
  <2> HIDE DEF t
  <2>2. t \in Port
    BY <2>3 DEF Alters, Steady, Ends
  <2>4. Sound(e.self, p, t)
    BY <1>1, <2>1 DEF Sound, OwnMsc, Negotiating, Flows
  <2>5. Idle(t, e.congested)
    BY <1>1, <1>5, <2>1 DEF Idle, MaySend, SetUp, Sound, OwnMsc, Flows
  <2> HIDE DEF ea2, direct
  <2>6. Conserves(q, t, <<>>, <<>>, w, w + 1, ea, ea2)
    BY <1>1, <1>3, <2>1, <2>2, FlowQueue DEF d
  <2>7. Moves(e.self, p, On(e), q, t, None, <<>>, w, w + 1, ea, ea2)
    <3>1. ClientMove(q, t, None, <<>>, p, w, w + 1, ea, ea2)
      <4>1. Live(t) => Waits(q, t, None, <<>>, w, w + 1, ea, ea2) \/ Uses(q, t, None, <<>>, w, w + 1, ea, ea2)
        BY <1>3, <2>1, <2>6, NoneFacts DEF Live, Negotiating, Waits, Uses, d
      <4> QED BY <2>1, <4>1, NoneFacts DEF ClientMove
    <3>2. q.rfc = "OPENED" => ServerMove(q, t, None, <<>>, p, w, w + 1, ea, ea2)
      BY <1>3, <2>1, <2>6, NoneFacts DEF ServerMove, Rested
    <3> QED BY <3>1, <3>2, NoneFacts DEF Moves, Rests, Bare, Rested
  <2> QED BY <1>2, <2>1, <2>3, <2>4, <2>5, <2>7, NoneFacts, WriteMoves DEF r, ea2
<1> QED BY <1>4, <1>5

(* A server whose multiplexer is being disconnected may do as it likes. *)
LEMMA OffStep ==
  ASSUME NEW e, Steady(e), NEW p \in Ports, \A x \in Ports : Fit(e, x), IsServer(e.self, p), ~On(e),
         NEW r, NEW u, NEW f, NEW g \in Seq(Frames), Alters(e, r, p, u, g), Winds(e, r),
         Free(g, Opening), Sound(e.self, p, u), u.rfc # "OPENED", Rests(e.self, p, e.port[p], u, f, g)
  PROVE  Steps(e, r, p, f)
<1>1. Does(e.self, p, On(e), e.port[p], u, f, g)
  BY DEF Does, Moves
<1>2. Turns(e, p, u, f, g)
  BY <1>1 DEF Turns, Idle
<1>3. Quits(e.self, p, u)
  BY DEF Quits
<1>4. \A x \in Ports : PortStep(e, r, x, IF x = p THEN f ELSE None)
  BY <1>2, <1>3, AltersStep
<1> QED BY <1>4 DEF Steps

(* What was stored is read, or not, and credits are granted. *)
LEMMA GrantStep ==
  ASSUME NEW e, Steady(e), NEW p \in Ports, \A x \in Ports : Fit(e, x), e.port[p].state = "OPENED",
         Ready(e.self, p, On(e), e.port[p], None), NEW m \in {0, 1},
         NEW c, NEW b, Alters(e, c, p, b, <<>>), SameMx(e, c), SamePhase(e.port[p], b),
         b.peer_fc = e.port[p].peer_fc, b.credit_tx = e.port[p].credit_tx,
         b.credit_rx = e.port[p].credit_rx, b.tx = e.port[p].tx,
         IF m = 0 THEN b.rx = e.port[p].rx ELSE e.port[p].rx # <<>> /\ b.rx = Tail(e.port[p].rx)
  PROVE  Steps(e, port_flow_control_peer(c, p, m), p, None)
<1> DEFINE q == e.port[p]
           r == port_flow_control_peer(c, p, m)
           left == b.credit_rx - Least(m, b.credit_rx)
           h == <<Credits("CREDIT", p, credit_rx_max - left)>>
           grants == b.mcb /\ left <= credit_rx_low /\ ~b.user_fc
           full == [b EXCEPT !.credit_rx = credit_rx_max]
           fewer == [b EXCEPT !.credit_rx = left]
<1>1. Sound(e.self, p, q) /\ Idle(q, e.congested) /\ q \in Port /\ In(None) = <<>>
  BY NoneFacts DEF Fit, Steady, Ends
<1>2. Steady(c) /\ c.port[p] = b /\ b \in Port /\ <<>> \o <<>> = <<>>
  BY DEF Alters, Steady, Ends
<1>3. /\ left \in 0..credit_rx_max /\ full \in Port /\ fewer \in Port
      /\ SameMx(c, r)
      /\ grants => Alters(c, r, p, full, h)
      /\ b.mcb /\ ~grants => Alters(c, r, p, fewer, <<>>)
      /\ ~b.mcb => r = c
  BY <1>2, FlowControlActs
<1>4. h \in Seq(Frames) /\ Free(h, Opening)
  <2>1. credit_rx_max - left \in 0..credit_rx_max
    BY <1>3, Constants
  <2>2. Credits("CREDIT", p, credit_rx_max - left) \in Frames
    BY <2>1, FrameTypes
  <2>3. Credits("CREDIT", p, credit_rx_max - left).t = "CREDIT" /\ "CREDIT" \notin Opening
    BY DEF Credits, Opening
  <2> HIDE DEF Credits
  <2>4. \A T : \A x \in Frames : Free(<<x>>, T) <=> x.t \notin T
    BY NoneFacts, FreeFacts
  <2> QED BY <2>2, <2>3, <2>4
<1> HIDE DEF r
<1>5. \E v \in Port, g \in Seq(Frames) :
        /\ Alters(c, r, p, v, g) /\ Free(g, Opening) /\ SameMx(c, r)
        /\ SamePhase(q, v) /\ v.peer_fc = q.peer_fc /\ v.credit_tx = q.credit_tx /\ v.tx = q.tx
        /\ q.mcb => \A w, ea : Conserves(q, v, <<>>, g, w, w, ea, ea)
  <2>1. CASE grants
    <3>1. SamePhase(q, full) /\ full.peer_fc = q.peer_fc /\ full.credit_tx = q.credit_tx
          /\ full.tx = q.tx /\ full.credit_rx = credit_rx_max /\ full.rx = b.rx
      BY <1>2 DEF SamePhase, Port
    <3> HIDE DEF full, grants
    <3>2. \A w, ea : Conserves(q, full, <<>>, h, w, w, ea, ea)
      BY <1>1, <1>3, <3>1, FlowRead
    <3> QED BY <1>3, <1>4, <2>1, <3>1, <3>2
  <2>2. CASE b.mcb /\ ~grants
    <3>1. SamePhase(q, fewer) /\ fewer.peer_fc = q.peer_fc /\ fewer.credit_tx = q.credit_tx
          /\ fewer.tx = q.tx /\ fewer.credit_rx = left /\ fewer.rx = b.rx
      BY <1>2 DEF SamePhase, Port
    <3> HIDE DEF fewer, grants
    <3>2. \A w, ea : Conserves(q, fewer, <<>>, <<>>, w, w, ea, ea)
      BY <1>1, <1>3, <3>1, FlowRead
    <3> QED BY <1>3, <2>2, <3>1, <3>2, NoneFacts
  <2>3. CASE ~b.mcb
    <3>1. ~q.mcb /\ SamePhase(q, b)
      BY <2>3 DEF SamePhase
    <3>2. r = c /\ Alters(c, c, p, b, <<>>) /\ SameMx(c, c)
      BY <1>2, <1>3, <2>3, AltersNot DEF SameMx
    <3> QED BY <1>2, <3>1, <3>2, NoneFacts
  <2> QED BY <2>1, <2>2, <2>3
<1> HIDE DEF h, grants, full, fewer, left
<1>6. PICK v \in Port, g \in Seq(Frames) :
        /\ Alters(c, r, p, v, g) /\ Free(g, Opening) /\ SameMx(c, r)
        /\ SamePhase(q, v) /\ v.peer_fc = q.peer_fc /\ v.credit_tx = q.credit_tx /\ v.tx = q.tx
        /\ q.mcb => \A w, ea : Conserves(q, v, <<>>, g, w, w, ea, ea)
  BY <1>5
<1>7. Alters(e, r, p, v, g)
  <2>1. Alters(e, r, p, v, <<>> \o g)
    BY <1>6, NoneFacts, AltersThen
  <2>2. <<>> \o g = g
    OBVIOUS
  <2> QED BY <2>1, <2>2
<1>8. Winds(e, r)
  <2>1. SameMx(e, r)
    BY <1>6 DEF SameMx
  <2> QED BY <2>1, CalmWinds
<1>9. Sound(e.self, p, v) /\ Idle(v, e.congested)
  BY <1>1, <1>6 DEF Sound, OwnMsc, Idle, SetUp, SamePhase, Negotiating, Flows
<1> HIDE DEF q
<1>10. CASE q.rfc = "OPENED"
  <2>1. v.rfc = "OPENED" /\ q.mcb
    BY <1>1, <1>6, <1>10 DEF SamePhase, Sound, OwnMsc
  <2> QED BY <1>1, <1>6, <1>7, <1>8, <1>9, <1>10, <2>1, NoneFacts, OpenStep DEF q, r
<1>11. CASE q.rfc # "OPENED"
  <2>1. ~Live(v) /\ v.state = q.state /\ v.rfc = q.rfc /\ v.mcb = q.mcb /\ q.state = "OPENED"
    BY <1>1, <1>6, <1>11 DEF SamePhase, Sound, OwnMsc, Live, Negotiating, q
  <2>4. Rests(e.self, p, q, v, None, g)
    BY <2>1 DEF Rests, Bare, Rested
  <2>2. CASE q.rfc = "TERM_WAIT_SEC_CHECK"
    <3>1. IsServer(e.self, p)
      BY <1>1, <2>2 DEF Sound, OwnMsc
    <3>2. ~On(e)
      BY <2>1, <2>2, <3>1 DEF Ready, Undecided, q
    <3> QED BY <1>6, <1>7, <1>8, <1>9, <1>11, <2>1, <3>1, <3>2, <2>4, OffStep DEF q, r
  <2>3. CASE q.rfc # "TERM_WAIT_SEC_CHECK"
    <3>1. ~Rested(q)
      BY <2>1 DEF Rested
    <3> QED BY <1>6, <1>7, <1>8, <1>9, <1>11, <2>1, <2>3, <2>4, <3>1, NoneFacts, EndStep DEF q, r
  <2> QED BY <2>2, <2>3
<1> QED BY <1>10, <1>11

(* PORT_Read *)
LEMMA ReadStep ==
  ASSUME NEW e, Steady(e), NEW p \in Ports, \A x \in Ports : Fit(e, x), e.port[p].state = "OPENED",
         e.port[p].rx # <<>>, Ready(e.self, p, On(e), e.port[p], None)
  PROVE  Steps(e, port_flow_control_peer([e EXCEPT !.port[p].rx = Tail(@)], p, 1), p, None)
<1> DEFINE q == e.port[p]
           b == Taken(q)
           c == [e EXCEPT !.port[p].rx = Tail(@)]
<1>1. b \in Port /\ Alters(e, c, p, b, <<>>) /\ SameMx(e, c) /\ q \in Port
  BY ReadActs DEF Steady, Ends
<1>2. /\ SamePhase(q, b) /\ b.peer_fc = q.peer_fc /\ b.credit_tx = q.credit_tx
      /\ b.credit_rx = q.credit_rx /\ b.tx = q.tx /\ b.rx = Tail(q.rx)
  BY <1>1 DEF Taken, SamePhase, Port
<1> HIDE DEF b, c
<1> QED BY <1>1, <1>2, GrantStep DEF c

(* PORT_FlowControl *)
LEMMA HoldStep ==
  ASSUME NEW e, Steady(e), NEW p \in Ports, \A x \in Ports : Fit(e, x), e.port[p].state = "OPENED",
         Ready(e.self, p, On(e), e.port[p], None), NEW enable \in BOOLEAN
  PROVE  LET c == [e EXCEPT !.port[p].user_fc = ~enable]
         IN Steps(e, IF enable THEN port_flow_control_peer(c, p, 0) ELSE c, p, None)
<1> DEFINE q == e.port[p]
           b == Holding(q, enable)
           c == [e EXCEPT !.port[p].user_fc = ~enable]
<1>1. b \in Port /\ Alters(e, c, p, b, <<>>) /\ SameMx(e, c) /\ q \in Port
  BY HoldActs DEF Steady, Ends
<1>2. /\ SamePhase(q, b) /\ b.peer_fc = q.peer_fc /\ b.credit_tx = q.credit_tx
      /\ b.credit_rx = q.credit_rx /\ b.tx = q.tx /\ b.rx = q.rx
  BY <1>1 DEF Holding, SamePhase, Port
<1> HIDE DEF b, c
<1>3. CASE enable
  BY <1>1, <1>2, <1>3, GrantStep DEF c
<1>4. CASE ~enable
  <2>1. Alike(q, b)
    BY <1>2 DEF Alike, SameFlow, SamePhase
  <2>2. Winds(e, c)
    BY <1>1, CalmWinds
  <2>3. ~Connects(q, None)
    BY NoneFacts DEF Connects
  <2>4. Steps(e, c, p, None)
    BY <1>1, <2>1, <2>2, <2>3, NoneFacts, StayStep
  <2> QED BY <1>4, <2>4 DEF c
<1> QED BY <1>3, <1>4

(* RFCOMM_RemoveConnection and RFCOMM_RemoveServer *)
LEMMA RemoveStep ==
  ASSUME NEW e, Steady(e), NEW p \in Ports, \A x \in Ports : Fit(e, x), NEW forget \in BOOLEAN,
         e.port[p].state \in {"OPENING", "OPENED"},
         IsServer(e.self, p) /\ ~forget => e.port[p].state = "OPENED"
  PROVE  Steps(e, port_start_close(e, p, forget), p, None)
<1> DEFINE h == e.port[p]
           q == Departing(h, forget)
           d == [q EXCEPT !.timer = TRUE, !.rsp = {}, !.rfc = "DISC_WAIT_UA"]
           g == <<Frame("DISC", p)>>
           r == port_start_close(e, p, forget)
<1>1. Sound(e.self, p, h) /\ h \in Port /\ None \in Inputs /\ None.t = "NONE"
  BY NoneFacts DEF Fit, Steady, Ends
<1>2. /\ q \in Port /\ d \in Port /\ Winds(e, r)
      /\ q.rfc = "CLOSED" \/ ~q.mcb => Alters(e, r, p, port_release_port(q), <<>>)
      /\ q.mcb /\ q.rfc \in {"SABME_WAIT_UA", "OPENED"} => Alters(e, r, p, d, g)
      /\ q.mcb /\ q.rfc = "ORIG_WAIT_SEC_CHECK" => Alters(e, r, p, Closed(e.self, p, q), <<>>)
      /\ q.mcb /\ q.rfc \in {"TERM_WAIT_SEC_CHECK", "DISC_WAIT_UA"} => Alters(e, r, p, q, <<>>)
  BY StartCloseActs
<1>3. /\ q.state = "CLOSING" /\ q.rfc = h.rfc /\ q.mcb = h.mcb /\ q.rsp = h.rsp /\ q.ctrl = h.ctrl
      /\ q.peer_fc = h.peer_fc /\ SameFlow(h, q) /\ (forget => ~q.keep)
  BY <1>1 DEF Departing, Port, SameFlow
<1>4. g \in Seq(Frames) /\ Free(g, Opening) /\ Free(g, Talk)
  BY PlainFrames
<1> HIDE DEF r, g
<1>5. CASE q.rfc = "CLOSED" \/ ~q.mcb
  <2> DEFINE u == port_release_port(q)
  <2>1. Alters(e, r, p, u, <<>>)
    BY <1>2, <1>5
  <2>2. /\ u.rfc = "CLOSED" /\ ~u.mcb /\ u.state \in {"OPENING", "CLOSED"}
        /\ u.ctrl = {} /\ u.rsp \subseteq h.rsp /\ (u.state = "CLOSED" => u.rsp = {})
        /\ u.tx = <<>> /\ u.rx = <<>> /\ ~u.peer_fc /\ (~q.keep => u.state = "CLOSED")
    BY <1>2, <1>3, ReleasedPort
  <2> HIDE DEF u, q
  <2>3. Sound(e.self, p, u) /\ ~Live(u)
    BY <1>1, <2>2 DEF Sound, OwnMsc, Negotiating, Live
  <2>4. IsServer(e.self, p) /\ Rested(h) => Rested(u) /\ Awaits(u)
    BY <1>3, <2>2 DEF Rested, Awaits
  <2>5. Rests(e.self, p, h, u, None, <<>>)
    BY <2>2, <2>4 DEF Rests, Bare, Rested
  <2> QED BY <1>1, <1>2, <2>1, <2>2, <2>3, <2>4, <2>5, NoneFacts, EndStep DEF r
<1>6. CASE q.mcb /\ q.rfc \in {"SABME_WAIT_UA", "OPENED"}
  <2>1. Alters(e, r, p, d, g)
    BY <1>2, <1>6
  <2>2. /\ d.rfc = "DISC_WAIT_UA" /\ d.mcb = h.mcb /\ d.rsp = {} /\ d.ctrl = h.ctrl /\ d.state = "CLOSING"
    BY <1>2, <1>3 DEF Port
  <2> HIDE DEF d, q
  <2>3. Sound(e.self, p, d) /\ ~Live(d) /\ ~Rested(h)
    BY <1>1, <1>3, <1>6, <2>2 DEF Sound, OwnMsc, Negotiating, Live, Rested
  <2>4. Rests(e.self, p, h, d, None, g)
    BY <2>3 DEF Rests, Bare
  <2> QED BY <1>1, <1>2, <1>4, <2>1, <2>2, <2>3, <2>4, EndStep DEF r
<1>7. CASE q.mcb /\ q.rfc = "ORIG_WAIT_SEC_CHECK"
  <2>1. Alters(e, r, p, Closed(e.self, p, q), <<>>) /\ ~Rested(h)
    BY <1>2, <1>3, <1>7 DEF Rested
  <2> HIDE DEF q
  <2> QED BY <1>1, <1>2, <1>3, <2>1, NoneFacts, ClosedStep DEF r
<1>8. CASE q.mcb /\ q.rfc \in {"TERM_WAIT_SEC_CHECK", "DISC_WAIT_UA"}
  <2>1. Alters(e, r, p, q, <<>>)
    BY <1>2, <1>8
  <2> HIDE DEF q
  <2>2. Sound(e.self, p, q) /\ ~Live(q) /\ ~Rested(h) /\ q.rfc # "OPENED" /\ Idle(q, e.congested)
    BY <1>1, <1>3, <1>8 DEF Sound, OwnMsc, Negotiating, Live, Rested, Idle
  <2>3. CASE q.rfc = "DISC_WAIT_UA"
    <3>1. Rests(e.self, p, h, q, None, <<>>)
      BY <2>2 DEF Rests, Bare
    <3> QED BY <1>1, <1>2, <1>3, <2>1, <2>2, <2>3, <3>1, NoneFacts, EndStep DEF r
  <2>4. CASE q.rfc = "TERM_WAIT_SEC_CHECK"
    <3>1. IsServer(e.self, p)
      BY <1>1, <1>3, <2>4 DEF Sound, OwnMsc
    <3>2. ASSUME NEW w, NEW ea PROVE ServerMove(h, q, None, <<>>, p, w, w, ea, ea)
      BY <1>1, <1>3, <2>2, <2>4, NoneFacts DEF ServerMove
    <3>3. Turns(e, p, q, None, <<>>)
      BY <2>2, <3>1, <3>2, NoneFacts DEF Turns, Does, Moves, Rests, Bare
    <3>4. Quits(e.self, p, q)
      BY <2>2, <3>1 DEF Quits
    <3>5. \A x \in Ports : PortStep(e, r, x, IF x = p THEN None ELSE None)
      <4> HIDE DEF h
      <4> QED BY <1>2, <2>1, <3>3, <3>4, NoneFacts, AltersStep
    <3> QED BY <3>5 DEF Steps, r
  <2> QED BY <1>8, <2>3, <2>4
<1> QED BY <1>2, <1>5, <1>6, <1>7, <1>8 DEF Port, States

-----------------------------------------------------------------------------
(* Timers and the multiplexer *)

(* A port when all ports are closed. *)
LEMMA ShutFields ==
  ASSUME NEW s, NEW x \in Ports, NEW q \in Port, Sound(s, x, q), NEW h \in Port, Alike(q, h),
         NEW on, NEW b
  PROVE  LET u == CloseOf(s, x, h)
         IN /\ Sound(s, x, u) /\ Idle(u, b) /\ ~u.mcb /\ u.rfc = "CLOSED" /\ ~Live(u)
            /\ u.state = "OPENED" => q.state = "OPENED"
            /\ Does(s, x, on, q, u, None, <<>>)
<1> DEFINE u == CloseOf(s, x, h)
<1>1. Sound(s, x, h) /\ h.mcb = q.mcb /\ h.state = q.state /\ h.rsp = q.rsp /\ h.ctrl = q.ctrl
  BY AlikeKept DEF Alike
<1>2. None \in Inputs /\ None.t = "NONE" /\ ~Connects(q, None)
  BY NoneFacts DEF Connects
<1>3. CASE ~q.mcb
  <2>1. u = h
    BY <1>1, <1>3 DEF CloseOf
  <2>2. h.rfc = "CLOSED"
    BY <1>1, <1>3 DEF Sound, OwnMsc
  <2>3. ~Live(h) /\ Idle(h, b)
    BY <1>1, <1>3, <2>2 DEF Live, Negotiating, Idle
  <2>4. Does(s, x, on, q, h, None, <<>>)
    BY <1>2, NoneFacts, DoesAlike
  <2> QED BY <1>1, <1>3, <2>1, <2>2, <2>3, <2>4
<1>4. CASE q.mcb
  <2> DEFINE c == Closed(s, x, h)
  <2>1. u = c
    BY <1>1, <1>4 DEF CloseOf
  <2>2. IsServer(s, x) => "PN" \notin h.rsp
    BY <1>1 DEF Sound
  <2>3. /\ Sound(s, x, c) /\ Idle(c, b) /\ c.rfc = "CLOSED" /\ ~c.mcb
        /\ c.state \in {"OPENING", "CLOSED"} /\ ~Live(c)
        /\ IsServer(s, x) /\ Rested(h) /\ h.state = "OPENING" => Rested(c) /\ (Awaits(h) => Awaits(c))
    BY <2>2, ClosedSound
  <2>4. c \in Port
    BY UnusedTypes
  <2>5. (Rested(q) => Rested(h) /\ h.state = "OPENING") /\ (Awaits(q) => Awaits(h))
    <3>1. Rested(q) => Rested(h)
      BY DEF Rested, Alike, SameFlow
    <3>2. Awaits(q) => Awaits(h)
      BY <3>1 DEF Awaits, HasCredits, Alike, SameFlow
    <3>3. Rested(q) => h.state = "OPENING"
      BY <1>1, <1>4 DEF Rested, Sound, OwnMsc
    <3> QED BY <3>1, <3>2, <3>3
  <2>7. Rests(s, x, q, c, None, <<>>)
    BY <1>4 DEF Rests, Bare
  <2> HIDE DEF c
  <2>6. Does(s, x, on, q, c, None, <<>>)
    BY <1>2, <2>3, <2>4, <2>5, <2>7, NoneFacts, DoesEnd
  <2> QED BY <2>1, <2>3, <2>6
<1> QED BY <1>3, <1>4

(* The multiplexer is no longer wound up, or is as it was. *)
LEMMA SpareStep ==
  ASSUME NEW e, Steady(e), \A x \in Ports : Fit(e, x), NEW r, Spares(e, r),
         Stopping(r) => Stopping(e), On(r) => On(e)
  PROVE  \A x \in Ports : PortStep(e, r, x, None)
<1> SUFFICES ASSUME NEW x \in Ports PROVE PortStep(e, r, x, None)
  OBVIOUS
<1>1. r.self = e.self /\ r.congested = e.congested /\ r.port[x] = e.port[x] /\ Mine(r, x) = Mine(e, x)
  BY DEF Spares
<1>2. Fit(r, x)
  BY <1>1 DEF Fit
<1>3. e.port[x] \in Port /\ Mine(e, x) \in Seq(Frames)
  BY MineType DEF Steady, Ends
<1>4. ~Connects(e.port[x], None)
  BY NoneFacts DEF Connects
<1>5. Does(e.self, x, On(e), e.port[x], e.port[x], None, <<>>)
  BY <1>3, <1>4, NoneFacts, AlikeSelf, DoesAlike
<1>6. Mine(r, x) = Mine(e, x) \o <<>> /\ <<>> \in Seq(Frames)
  BY <1>1, <1>3
<1>7. Remains(e, r)
  BY DEF Spares, Remains
<1> QED BY <1>1, <1>2, <1>5, <1>6, <1>7 DEF PortStep

(* Every port is closed, and the multiplexer is not. *)
LEMMA ShutStep ==
  ASSUME NEW e, Steady(e), \A x \in Ports : Fit(e, x), NEW p \in Ports, NEW r, Shuts(e, r, p)
  PROVE  \A x \in Ports : PortStep(e, r, x, None)
<1> SUFFICES ASSUME NEW x \in Ports PROVE PortStep(e, r, x, None)
  OBVIOUS
<1> DEFINE q == e.port[x]
           h == IF x = p THEN Untimed(q) ELSE q
           u == CloseOf(e.self, x, h)
<1>1. r.self = e.self /\ r.congested = e.congested /\ r.port[x] = u /\ Mine(r, x) = Mine(e, x)
      /\ Steady(r)
  BY DEF Shuts
<1>2. q \in Port /\ Mine(e, x) \in Seq(Frames) /\ Sound(e.self, x, q)
  BY MineType DEF Steady, Ends, Fit
<1>3. h \in Port /\ Alike(q, h)
  <2>1. Untimed(q) \in Port
    BY <1>2, PortExpiresActs
  <2>2. Alike(q, Untimed(q))
    BY <1>2 DEF Untimed, Port, Alike, SameFlow
  <2> QED BY <1>2, <2>1, <2>2, AlikeSelf
<1> HIDE DEF h, q
<1>4. /\ Sound(e.self, x, u) /\ Idle(u, e.congested) /\ ~u.mcb /\ u.rfc = "CLOSED"
      /\ Does(e.self, x, On(e), q, u, None, <<>>)
  BY <1>2, <1>3, ShutFields
<1> HIDE DEF u
<1>5. Fit(r, x)
  BY <1>1, <1>4 DEF Fit, Quits
<1>6. Mine(r, x) = Mine(e, x) \o <<>> /\ <<>> \in Seq(Frames)
  BY <1>1, <1>2
<1>7. Remains(e, r)
  BY DEF Shuts, On, Remains
<1> QED BY <1>1, <1>4, <1>5, <1>6, <1>7 DEF PortStep, q

(* rfc_port_sm_execute with RFC_EVENT_TIMEOUT *)
LEMMA PortTimerStep ==
  ASSUME NEW e, Steady(e), NEW p \in Ports, \A x \in Ports : Fit(e, x)
  PROVE  \A x \in Ports : PortStep(e, PortExpires(e, p), x, None)
<1> DEFINE q == e.port[p]
           r == PortExpires(e, p)
           u == Untimed(q)
<1>1. /\ u \in Port
      /\ q.rfc \in {"CLOSED", "OPENED"} => Shuts(e, r, p)
      /\ q.rfc \in {"SABME_WAIT_UA", "DISC_WAIT_UA"} =>
           Alters(e, r, p, Closed(e.self, p, u), <<>>) /\ Winds(e, r)
      /\ q.rfc \in {"ORIG_WAIT_SEC_CHECK", "TERM_WAIT_SEC_CHECK"} =>
           Alters(e, r, p, u, <<>>) /\ SameMx(e, r)
  BY PortExpiresActs
<1>2. q \in Port /\ q.rfc \in States
  BY DEF Steady, Ends, Port
<1>3. Alike(q, u) /\ u.rsp = q.rsp /\ u.ctrl = q.ctrl
  BY <1>2 DEF Untimed, Port, Alike, SameFlow
<1>4. ~Connects(q, None) /\ None \in Inputs /\ None.t = "NONE"
  BY NoneFacts DEF Connects
<1> HIDE DEF r, u
<1>5. CASE q.rfc \in {"CLOSED", "OPENED"}
  BY <1>1, <1>5, ShutStep DEF r
<1>6. CASE q.rfc \in {"SABME_WAIT_UA", "DISC_WAIT_UA"}
  <2>1. ~Rested(q)
    BY <1>6 DEF Rested
  <2>2. Steps(e, r, p, None)
    BY <1>1, <1>3, <1>4, <1>6, <2>1, NoneFacts, ClosedStep
  <2> QED BY <2>2 DEF Steps, r
<1>7. CASE q.rfc \in {"ORIG_WAIT_SEC_CHECK", "TERM_WAIT_SEC_CHECK"}
  <2>1. Winds(e, r)
    BY <1>1, <1>7, CalmWinds
  <2>2. Steps(e, r, p, None)
    BY <1>1, <1>3, <1>4, <1>7, <2>1, NoneFacts, StayStep
  <2> QED BY <2>2 DEF Steps, r
<1> QED BY <1>2, <1>5, <1>6, <1>7 DEF States

(* The multiplexer was released; what waited to be sent is gone. *)
PortDrops(e, r, x) ==
  /\ Fit(r, x) /\ Remains(e, r) /\ Mine(r, x) = Only(e.out, Of(x)) /\ ~On(r)
  /\ ~Live(r.port[x]) /\ (r.port[x].state = "OPENED" => e.port[x].state = "OPENED")
  /\ Bare(e.self, x, e.port[x]) => Bare(e.self, x, r.port[x])

LEMMA LeaveStep ==
  ASSUME NEW e, Steady(e), \A x \in Ports : Fit(e, x), NEW r,
         \/ Leaves(e, r)
         \/ Drops(e, r) /\ r.port = e.port /\ e.mx = "DISC_WAIT_UA"
  PROVE  \A x \in Ports : PortDrops(e, r, x)
<1> SUFFICES ASSUME NEW x \in Ports PROVE PortDrops(e, r, x)
  OBVIOUS
<1> DEFINE q == e.port[x]
<1>1. /\ Steady(r) /\ r.self = e.self /\ ~On(r) /\ ~r.congested /\ Mine(r, x) = Only(e.out, Of(x))
  BY DEF Leaves, Drops, On
<1>2. q \in Port /\ Sound(e.self, x, q) /\ Remains(e, r)
  BY <1>1 DEF Steady, Ends, Fit, Remains
<1>3. CASE Leaves(e, r)
  <2> DEFINE u == CloseOf(e.self, x, q)
  <2>1. r.port[x] = u
    BY <1>3 DEF Leaves
  <2>2. /\ Sound(e.self, x, u) /\ Idle(u, r.congested) /\ ~u.mcb /\ u.rfc = "CLOSED" /\ ~Live(u)
        /\ u.state = "OPENED" => q.state = "OPENED"
    BY <1>2, AlikeSelf, ShutFields
  <2>4. Bare(e.self, x, q) => Bare(e.self, x, u)
    BY DEF Bare, CloseOf
  <2> HIDE DEF u
  <2>3. Fit(r, x)
    BY <1>1, <2>1, <2>2 DEF Fit, Quits
  <2> QED BY <1>1, <1>2, <2>1, <2>2, <2>3, <2>4 DEF PortDrops
<1>4. CASE Drops(e, r) /\ r.port = e.port /\ e.mx = "DISC_WAIT_UA"
  <2>1. Quits(e.self, x, q)
    BY <1>4 DEF Fit, Stopping
  <2>2. ~Live(q) /\ Idle(q, r.congested)
    BY <1>2, <2>1 DEF Quits, Live, Negotiating, Sound, OwnMsc, Idle
  <2>3. Fit(r, x)
    BY <1>1, <1>2, <1>4, <2>1, <2>2 DEF Fit
  <2> QED BY <1>1, <1>2, <1>4, <2>2, <2>3 DEF PortDrops
<1> QED BY <1>3, <1>4

(* rfc_mx_sm_execute with RFC_EVENT_TIMEOUT *)
LEMMA MxTimerStep ==
  ASSUME NEW e, Steady(e), \A x \in Ports : Fit(e, x), e.timer
  PROVE  LET r == MxExpires(e)
         IN \/ \A x \in Ports : PortStep(e, r, x, None)
            \/ \A x \in Ports : PortDrops(e, r, x)
<1> DEFINE r == MxExpires(e)
<1>1. \/ Spares(e, r) /\ (On(r) => On(e))
      \/ Drops(e, r) /\ r.port = e.port /\ e.mx = "DISC_WAIT_UA"
  BY MxExpiresActs DEF On
<1>2. Stopping(e)
  BY DEF Stopping
<1> HIDE DEF r
<1> QED BY <1>1, <1>2, SpareStep, LeaveStep DEF r

(* A frame of the multiplexer *)
LEMMA MxFrameStep ==
  ASSUME NEW e, Steady(e), \A x \in Ports : Fit(e, x), NEW f \in Frames, f.p = 0
  PROVE  LET r == RFCOMM_BufDataInd(e, f)
         IN \/ \A x \in Ports : PortStep(e, r, x, None)
            \/ \A x \in Ports : PortDrops(e, r, x)
<1> DEFINE r == RFCOMM_BufDataInd(e, f)
           m == OnMx(e, f.t)
<1>1. r = e \/ r = m
  BY DEF RFCOMM_BufDataInd
<1>2. \/ Spares(e, m) /\ SameMx(e, m)
      \/ Leaves(e, m)
      \/ Drops(e, m) /\ m.port = e.port /\ e.mx = "DISC_WAIT_UA"
  BY OnMxActs
<1>3. Spares(e, e) /\ SameMx(e, e)
  BY DEF Spares, SameMx
<1> HIDE DEF r, m
<1>4. CASE Spares(e, r) /\ SameMx(e, r)
  <2>1. (Stopping(r) => Stopping(e)) /\ (On(r) => On(e))
    BY <1>4 DEF SameMx, Stopping, On
  <2> QED BY <1>4, <2>1, SpareStep DEF r
<1> QED BY <1>1, <1>2, <1>3, <1>4, LeaveStep DEF r

-----------------------------------------------------------------------------
(* Congestion *)

LEMMA CongestedStep ==
  ASSUME NEW e, Steady(e), e.out = <<>>, ~e.congested, \A x \in Ports : Fit(e, x)
  PROVE  LET r == [e EXCEPT !.congested = TRUE]
         IN \A x \in Ports : PortStep(e, r, x, None)
<1> DEFINE r == [e EXCEPT !.congested = TRUE]
<1>1. /\ r.self = e.self /\ r.congested /\ r.port = e.port /\ r.mx = e.mx /\ r.timer = e.timer
      /\ r.out = e.out /\ r.cmd_q = e.cmd_q
  BY DEF Steady, Ends
<1> HIDE DEF r
<1> SUFFICES ASSUME NEW x \in Ports PROVE PortStep(e, r, x, None)
  BY DEF r
<1>2. Fit(r, x)
  BY <1>1 DEF Fit, Idle, Stopping
<1>3. e.port[x] \in Port /\ Mine(e, x) \in Seq(Frames) /\ Mine(r, x) = Mine(e, x)
  BY <1>1, MineType DEF Steady, Ends, Mine
<1>4. ~Connects(e.port[x], None)
  BY NoneFacts DEF Connects
<1>5. Does(e.self, x, On(e), e.port[x], e.port[x], None, <<>>)
  BY <1>3, <1>4, NoneFacts, AlikeSelf, DoesAlike
<1>6. Mine(r, x) = Mine(e, x) \o <<>> /\ <<>> \in Seq(Frames)
  BY <1>3
<1>7. Remains(e, r)
  <2>1. r \in Ends
    BY DEF Steady, Ends, r
  <2> QED BY <1>1, <2>1 DEF Remains, On, Steady
<1> QED BY <1>1, <1>2, <1>5, <1>6, <1>7 DEF PortStep

(* p has sent what it could. *)
Emptied(e, r, p) ==
  /\ ButData(e.port[p], r.port[p]) /\ Flows(r.port[p])
  /\ r.port[p].tx # <<>> => r.port[p].credit_tx = 0
  /\ \E g \in Seq(DataOf(p)) :
       /\ Mine(r, p) = Mine(e, p) \o g
       /\ \A w, ea : Conserves(e.port[p], r.port[p], <<>>, g, w, w, ea, ea)

Untouched(e, r, p) == r.port[p] = e.port[p] /\ Mine(r, p) = Mine(e, p)

EmptiedTo(e, r, i) ==
  /\ Steady(r) /\ r.self = e.self /\ r.congested = e.congested /\ SameMx(e, r)
  /\ \A p \in Ports : IF e.port[p].rfc = "OPENED" /\ p <= i
                      THEN Emptied(e, r, p) ELSE Untouched(e, r, p)

LEMMA EmptiesNext ==
  ASSUME NEW e, Steady(e), ~e.congested, NEW i \in Ports, NEW x, EmptiedTo(e, x, i - 1),
         e.port[i].rfc = "OPENED", e.port[i].mcb, Flows(e.port[i])
  PROVE  EmptiedTo(e, port_rfc_send_tx_data(x, i), i)
<1> DEFINE r == port_rfc_send_tx_data(x, i)
<1>1. Ports \subseteq Nat
  BY Constants
<1>2. Untouched(e, x, i)
  BY <1>1 DEF EmptiedTo
<1>3. Steady(x) /\ x.port[i] = e.port[i] /\ x.self = e.self /\ ~x.congested /\ SameMx(e, x)
  BY <1>2 DEF EmptiedTo, Untouched
<1>4. /\ SameMx(x, r) /\ ButData(x.port[i], r.port[i]) /\ Flows(r.port[i])
      /\ r.port[i].tx # <<>> => r.port[i].credit_tx = 0
      /\ \E g \in Seq(DataOf(i)) :
           /\ Alters(x, r, i, r.port[i], g)
           /\ \A w, ea : Conserves(x.port[i], r.port[i], <<>>, g, w, w, ea, ea)
  BY <1>3, OpenSends
<1> HIDE DEF r
<1>5. PICK g \in Seq(DataOf(i)) :
        /\ Alters(x, r, i, r.port[i], g)
        /\ \A w, ea : Conserves(x.port[i], r.port[i], <<>>, g, w, w, ea, ea)
  BY <1>4
<1>6. /\ Steady(r) /\ r.self = e.self /\ r.congested = e.congested /\ SameMx(e, r)
      /\ \A p \in Ports \ {i} : r.port[p] = x.port[p] /\ Mine(r, p) = Mine(x, p)
      /\ Mine(r, i) = Mine(x, i) \o g
  <2>1. r.self = x.self /\ r.congested = x.congested
    BY <1>5 DEF Alters
  <2>2. /\ Steady(r) /\ Mine(r, i) = Mine(x, i) \o g
        /\ \A p \in Ports \ {i} : r.port[p] = x.port[p] /\ Mine(r, p) = Mine(x, p)
    <3>1. Steady(r) /\ Mine(r, i) = Mine(x, i) \o g /\ \A p \in Ports \ {i} : Mine(r, p) = Mine(x, p)
      BY <1>5 DEF Alters
    <3>2. \A p \in Ports \ {i} : r.port[p] = x.port[p]
      BY <1>3, <1>5 DEF Alters, Steady, Ends
    <3> QED BY <3>1, <3>2
  <2> QED BY <1>3, <1>4, <2>1, <2>2 DEF SameMx, EmptiedTo
<1>7. Emptied(e, r, i)
  BY <1>2, <1>4, <1>5, <1>6 DEF Emptied, Untouched
<1>8. ASSUME NEW p \in Ports, p # i
      PROVE  IF e.port[p].rfc = "OPENED" /\ p <= i THEN Emptied(e, r, p) ELSE Untouched(e, r, p)
  <2>1. IF e.port[p].rfc = "OPENED" /\ p <= i - 1 THEN Emptied(e, x, p) ELSE Untouched(e, x, p)
    BY DEF EmptiedTo
  <2>2. p <= i <=> p <= i - 1
    BY <1>1, <1>8
  <2>3. r.port[p] = x.port[p] /\ Mine(r, p) = Mine(x, p)
    BY <1>6, <1>8
  <2>4. (Emptied(e, x, p) => Emptied(e, r, p)) /\ (Untouched(e, x, p) => Untouched(e, r, p))
    BY <2>3 DEF Emptied, Untouched
  <2> QED BY <2>1, <2>2, <2>4
<1>9. IF e.port[i].rfc = "OPENED" /\ i <= i THEN Emptied(e, r, i) ELSE Untouched(e, r, i)
  BY <1>1, <1>7
<1> QED BY <1>6, <1>8, <1>9 DEF EmptiedTo, r

LEMMA FlowIndEmpties ==
  ASSUME NEW e, Steady(e), ~e.congested,
         \A p \in Ports : e.port[p].rfc = "OPENED" => e.port[p].mcb /\ Flows(e.port[p])
  PROVE  EmptiedTo(e, PORT_FlowInd(e), MAX_RFC_PORTS)
<1> DEFINE n == MAX_RFC_PORTS
<1>1. PICK r : /\ r = [i \in 0..n |->
                        IF i = 0 THEN e
                        ELSE IF /\ i \in Ports /\ e.port[i].mcb /\ e.port[i].rfc = "OPENED"
                             THEN port_rfc_send_tx_data(r[i - 1], i)
                             ELSE r[i - 1]]
               /\ PORT_FlowInd(e) = r[n]
  BY FlowIndRounds
<1>2. /\ n \in Nat /\ Ports \subseteq Nat /\ 0 \notin Ports
      /\ \A i \in 0..n : r[i] = IF i = 0 THEN e
                                ELSE IF /\ i \in Ports /\ e.port[i].mcb /\ e.port[i].rfc = "OPENED"
                                     THEN port_rfc_send_tx_data(r[i - 1], i)
                                     ELSE r[i - 1]
  BY <1>1, Constants
<1> HIDE DEF n
<1> DEFINE T == {i \in 0..n : EmptiedTo(e, r[i], i)}
<1>3. 0 \in T
  <2>1. \A p \in Ports : ~(p <= 0)
    BY <1>2
  <2>2. \A p \in Ports : Untouched(e, e, p)
    BY DEF Untouched
  <2>3. EmptiedTo(e, e, 0)
    BY <2>1, <2>2 DEF EmptiedTo, SameMx
  <2>4. 0 \in 0..n /\ r[0] = e
    BY <1>2
  <2> QED BY <2>3, <2>4
<1>4. ASSUME NEW i \in 1..n, i - 1 \in T PROVE i \in T
  <2>1. i \in 0..n /\ i # 0 /\ EmptiedTo(e, r[i - 1], i - 1)
    BY <1>2, <1>4
  <2>2. CASE i \in Ports /\ e.port[i].mcb /\ e.port[i].rfc = "OPENED"
    <3>1. r[i] = port_rfc_send_tx_data(r[i - 1], i)
      BY <1>2, <2>1, <2>2
    <3>2. EmptiedTo(e, r[i], i)
      BY <2>1, <2>2, <3>1, EmptiesNext
    <3> QED BY <2>1, <3>2
  <2>3. CASE ~(i \in Ports /\ e.port[i].mcb /\ e.port[i].rfc = "OPENED")
    <3>1. r[i] = r[i - 1]
      BY <1>2, <2>1, <2>3
    <3>2. \A p \in Ports : e.port[p].rfc = "OPENED" => (p <= i <=> p <= i - 1)
      BY <1>2, <2>3
    <3>3. EmptiedTo(e, r[i], i)
      BY <2>1, <3>1, <3>2 DEF EmptiedTo
    <3> QED BY <2>1, <3>3
  <2> QED BY <2>2, <2>3
<1>5. n \in T
  <2> HIDE DEF T
  <2> QED BY <1>2, <1>3, <1>4, AfterRounds
<1> QED BY <1>1, <1>5 DEF n

(* rfc_process_l2cap_congestion *)
LEMMA UncongestedStep ==
  ASSUME NEW e, Steady(e), e.out = <<>>, \A x \in Ports : Fit(e, x)
  PROVE  \A x \in Ports : PortStep(e, PORT_FlowInd(Uncongested(e)), x, None)
<1> DEFINE c == Uncongested(e)
           r == PORT_FlowInd(c)
<1>1. /\ Steady(c) /\ c.self = e.self /\ c.port = e.port /\ SameMx(e, c) /\ ~c.congested
      /\ \A x : Mine(c, x) = Mine(e, x)
  BY UncongestedActs
<1> HIDE DEF c
<1>2. \A x \in Ports : e.port[x].rfc = "OPENED" =>
        e.port[x].mcb /\ Flows(e.port[x]) /\ e.port[x].state = "OPENED"
  BY DEF Fit, Sound, OwnMsc
<1>3. EmptiedTo(c, r, MAX_RFC_PORTS)
  BY <1>1, <1>2, FlowIndEmpties
<1> HIDE DEF r
<1>4. r.self = e.self /\ ~r.congested /\ r.mx = e.mx /\ r.timer = e.timer
  BY <1>1, <1>3 DEF EmptiedTo, SameMx
<1> SUFFICES ASSUME NEW x \in Ports PROVE PortStep(e, r, x, None)
  BY DEF r, c
<1> DEFINE q == e.port[x]
           v == r.port[x]
<1>5. q \in Port /\ Fit(e, x) /\ Mine(e, x) \in Seq(Frames) /\ Steady(r) /\ v \in Port
  BY <1>3, MineType DEF Steady, Ends, EmptiedTo
<1>6. (Stopping(r) => Stopping(e)) /\ Remains(e, r)
  BY <1>4, <1>5 DEF Stopping, On, Remains
<1>7. CASE q.rfc = "OPENED"
  <2>1. x <= MAX_RFC_PORTS
    BY RfcommAssumption
  <2>2. Emptied(c, r, x)
    BY <1>1, <1>3, <1>7, <2>1 DEF EmptiedTo
  <2>3. PICK g \in Seq(DataOf(x)) :
          /\ Mine(r, x) = Mine(e, x) \o g
          /\ \A w, ea : Conserves(q, v, <<>>, g, w, w, ea, ea)
    BY <1>1, <2>2 DEF Emptied
  <2>4. ButData(q, v) /\ Flows(v) /\ (v.tx # <<>> => v.credit_tx = 0)
    BY <1>1, <2>2 DEF Emptied
  <2> HIDE DEF v
  <2>5. g \in Seq(Frames) /\ Free(g, Opening)
    BY DataFreeFacts DEF DataFree
  <2> HIDE DEF q
  <2>6. q.state = "OPENED" /\ q.mcb
    BY <1>2, <1>7 DEF q
  <2>7. Sound(e.self, x, v) /\ Idle(v, r.congested)
    BY <1>5, <1>7, <2>4, <2>6 DEF Fit, Sound, OwnMsc, Idle, ButData, Negotiating, q
  <2>8. Fit(r, x)
    BY <1>4, <1>5, <1>6, <1>7, <2>7 DEF Fit, Quits, q, v
  <2>9. Does(e.self, x, On(e), q, v, None, g)
    <3>1. ASSUME NEW w, NEW ea
          PROVE  ClientMove(q, v, None, g, x, w, w, ea, ea) /\ ServerMove(q, v, None, g, x, w, w, ea, ea)
      <4>1. v.rfc = "OPENED" /\ v.state = "OPENED"
        BY <1>7, <2>4, <2>6 DEF ButData
      <4>2. Conserves(q, v, In(None), g, w, w, ea, ea)
        BY <2>3, NoneFacts DEF v, q
      <4>3. Uses(q, v, None, g, w, w, ea, ea)
        BY <1>7, <4>1, <4>2 DEF Uses
      <4>4. ClientMove(q, v, None, g, x, w, w, ea, ea)
        BY <2>5, <2>6, <4>3, NoneFacts DEF ClientMove
      <4>5. ServerMove(q, v, None, g, x, w, w, ea, ea)
        BY <1>7, <2>5, <4>1, <4>2, NoneFacts DEF ServerMove, Rested
      <4> QED BY <4>4, <4>5
    <3> QED BY <1>7, <2>5, <3>1 DEF Does, Moves, Rests, Bare, Rested
  <2> QED BY <1>6, <2>3, <2>5, <2>8, <2>9 DEF PortStep, q, v
<1>8. CASE q.rfc # "OPENED"
  <2>1. Untouched(c, r, x)
    BY <1>1, <1>3, <1>8 DEF EmptiedTo
  <2>2. v = q /\ Mine(r, x) = Mine(e, x) \o <<>> /\ <<>> \in Seq(Frames)
    BY <1>1, <1>5, <2>1 DEF Untouched
  <2>3. Fit(r, x)
    BY <1>4, <1>5, <1>6, <1>8, <2>2 DEF Fit, Idle
  <2>4. ~Connects(q, None)
    BY NoneFacts DEF Connects
  <2>5. Does(e.self, x, On(e), q, q, None, <<>>)
    BY <1>5, <2>4, NoneFacts, AlikeSelf, DoesAlike
  <2> QED BY <1>6, <2>2, <2>3, <2>5 DEF PortStep
<1> QED BY <1>7, <1>8

-----------------------------------------------------------------------------
(* Both ends of a port *)

(* The frames of port p on their way to end s. *)
Toward(s, p) == Only(Pipe(s), Of(p))

Pair(p) ==
  LET c == Client(p)
      v == Server(p)
  IN PairInv(end[c].port[p], end[v].port[p], Toward(v, p), Toward(c, p), p,
             written[c][p], written[v][p], early[c][p], early[v][p])

(* What holds of port p: of either end, and, while the server's multiplexer is *)
(* connected, of both and what is between them.                                *)
Unopened(p) == \A s \in Sides : Bare(s, p, end[s].port[p]) /\ Toward(s, p) = <<>>

PortInv(p) ==
  /\ \A s \in Sides : Fit(end[s], p)
  /\ Free(Toward(Client(p), p), Opening)
  /\ On(end[Server(p)]) => Pair(p)
  /\ used.opens[p] = 0 => Unopened(p)

SafeInv == TypeInv /\ \A p \in Ports : PortInv(p)

LEMMA PipeSplit ==
  ASSUME NEW p
  PROVE  \A x, y, t \in Seq(Frames) : Only((x \o y) \o t, Of(p)) = Only(x, Of(p)) \o Only(y \o t, Of(p))
<1>1. \A x, b \in Seq(Frames) : Only(x \o b, Of(p)) = Only(x, Of(p)) \o Only(b, Of(p))
  BY OnlyConcat
<1>2. ASSUME NEW x \in Seq(Frames), NEW y \in Seq(Frames), NEW t \in Seq(Frames)
      PROVE  y \o t \in Seq(Frames) /\ (x \o y) \o t = x \o (y \o t)
  OBVIOUS
<1>3. ASSUME NEW x \in Seq(Frames), NEW y \in Seq(Frames), NEW t \in Seq(Frames)
      PROVE  Only((x \o y) \o t, Of(p)) = Only(x, Of(p)) \o Only(y \o t, Of(p))
  <2>1. Only(x \o (y \o t), Of(p)) = Only(x, Of(p)) \o Only(y \o t, Of(p))
    BY <1>1, <1>2
  <2> QED BY <1>2, <2>1
<1> QED BY <1>3

(* End s becomes r and leaves w of what is on the wire to it. *)
Turn(s, r, w) ==
  /\ end' = [end EXCEPT ![s] = [r EXCEPT !.out = <<>>]]
  /\ wire' = [wire EXCEPT ![s] = w, ![Peer(s)] = @ \o r.out]

(* The pipes after such a step. *)
LEMMA WireStep ==
  ASSUME TypeInv, NEW s \in Sides, NEW r, Steady(r), NEW w \in Seq(Frames), Turn(s, r, w), NEW p
  PROVE  LET o == Peer(s)
         IN /\ Toward(s, p) = Only(wire[s], Of(p)) \o Mine(end[o], p)
            /\ Toward(s, p)' = Only(w, Of(p)) \o Mine(end[o], p)
            /\ Toward(o, p) = Only(wire[o], Of(p)) \o Mine(end[s], p)
            /\ Toward(o, p)' = Only(wire[o], Of(p)) \o Mine(r, p)
            /\ Toward(s, p) \in Seq(Frames) /\ Toward(s, p)' \in Seq(Frames)
            /\ Toward(o, p) \in Seq(Frames)
            /\ end'[o] = end[o] /\ end'[s].port = r.port /\ end'[s].mx = r.mx
            /\ end'[s].timer = r.timer /\ end'[s].congested = r.congested /\ end'[s].self = r.self
<1> DEFINE o == Peer(s)
           z == [r EXCEPT !.out = <<>>]
<1>1. /\ end \in [Sides -> End] /\ wire \in [Sides -> Seq(Frames)]
      /\ o \in Sides /\ o # s /\ Peer(o) = s
  BY SideFacts DEF TypeInv, TypeOK
<1>2. /\ end[s].cmd_q \in Seq(Frames) /\ end[o].cmd_q \in Seq(Frames)
      /\ wire[s] \in Seq(Frames) /\ wire[o] \in Seq(Frames)
      /\ Mine(end[s], p) = Only(end[s].cmd_q, Of(p)) /\ Mine(end[o], p) = Only(end[o].cmd_q, Of(p))
  BY <1>1, EndsSteady DEF Steady, Ends
<1>3. r.out \in Seq(Frames) /\ r.cmd_q \in Seq(Frames)
  BY DEF Steady, Ends
<1>4. /\ z.cmd_q = r.cmd_q /\ z.port = r.port /\ z.mx = r.mx /\ z.timer = r.timer
      /\ z.congested = r.congested /\ z.self = r.self
  BY DEF Steady, Ends
<1> HIDE DEF z
<1>5. end' = [end EXCEPT ![s] = z]
  BY DEF z, Turn
<1>6. end'[s] = z /\ end'[o] = end[o]
  BY <1>1, <1>5
<1>7. wire'[s] = w /\ wire'[o] = wire[o] \o r.out
  BY <1>1 DEF Turn
<1> HIDE DEF o
<1>8. /\ Toward(s, p) = Only(wire[s] \o end[o].cmd_q, Of(p))
      /\ Toward(o, p) = Only(wire[o] \o end[s].cmd_q, Of(p))
      /\ Toward(s, p)' = Only(wire'[s] \o end'[o].cmd_q, Of(p))
      /\ Toward(o, p)' = Only(wire'[o] \o end'[s].cmd_q, Of(p))
  BY <1>1 DEF Toward, Pipe, o
<1>9. Mine(end[s], p) \in Seq(Frames) /\ Mine(end[o], p) \in Seq(Frames)
  BY <1>2, OnlyType
<1>10. /\ Toward(s, p) = Only(wire[s], Of(p)) \o Mine(end[o], p)
       /\ Toward(o, p) = Only(wire[o], Of(p)) \o Mine(end[s], p)
       /\ Toward(s, p)' = Only(w, Of(p)) \o Mine(end[o], p)
  <2>1. \A x, c \in Seq(Frames) : Only(x \o c, Of(p)) = Only(x, Of(p)) \o Only(c, Of(p))
    BY OnlyConcat
  <2>2. /\ Only(wire[s] \o end[o].cmd_q, Of(p)) = Only(wire[s], Of(p)) \o Only(end[o].cmd_q, Of(p))
        /\ Only(wire[o] \o end[s].cmd_q, Of(p)) = Only(wire[o], Of(p)) \o Only(end[s].cmd_q, Of(p))
        /\ Only(w \o end[o].cmd_q, Of(p)) = Only(w, Of(p)) \o Only(end[o].cmd_q, Of(p))
    BY Zenon, <1>2, <2>1
  <2> QED BY Zenon, <1>2, <1>6, <1>7, <1>8, <2>2
<1>11. Toward(o, p)' = Only(wire[o], Of(p)) \o Mine(r, p)
  <2>1. Toward(o, p)' = Only((wire[o] \o r.out) \o r.cmd_q, Of(p))
    BY <1>4, <1>6, <1>7, <1>8
  <2> DEFINE a == wire[o]
             b == r.out
             c == r.cmd_q
  <2>2. a \in Seq(Frames) /\ b \in Seq(Frames) /\ c \in Seq(Frames)
    BY <1>2, <1>3
  <2> HIDE DEF a, b, c
  <2>3. Only((a \o b) \o c, Of(p)) = Only(a, Of(p)) \o Only(b \o c, Of(p))
    <3>1. \A x, y, t \in Seq(Frames) : Only((x \o y) \o t, Of(p)) = Only(x, Of(p)) \o Only(y \o t, Of(p))
      BY Zenon, PipeSplit
    <3> QED BY Zenon, <2>2, <3>1
  <2> QED BY <2>1, <2>3 DEF Mine, a, b, c
<1>12. Only(w, Of(p)) \in Seq(Frames) /\ Only(wire[s], Of(p)) \in Seq(Frames)
       /\ Only(wire[o], Of(p)) \in Seq(Frames)
  BY <1>2, OnlyType
<1>13. Toward(s, p) \in Seq(Frames) /\ Toward(s, p)' \in Seq(Frames) /\ Toward(o, p) \in Seq(Frames)
  BY <1>9, <1>10, <1>12
<1> QED BY <1>4, <1>6, <1>10, <1>11, <1>13 DEF o

LEMMA CountTypes ==
  ASSUME TypeInv
  PROVE  \A s \in Sides, p \in Ports :
           /\ written[s][p] \in Nat /\ early[s][p] \in SUBSET Nat
           /\ end[s].port[p] \in Port /\ Toward(s, p) \in Seq(Frames)
<1> SUFFICES ASSUME NEW s \in Sides, NEW p \in Ports
             PROVE  /\ written[s][p] \in Nat /\ early[s][p] \in SUBSET Nat
                    /\ end[s].port[p] \in Port /\ Toward(s, p) \in Seq(Frames)
  OBVIOUS
<1>1. written[s][p] \in Nat /\ early[s][p] \in SUBSET Nat
  BY DEF TypeInv, TypeOK, Buffers
<1>2. end[s].port[p] \in Port /\ wire[s] \in Seq(Frames) /\ end[Peer(s)].cmd_q \in Seq(Frames)
  BY SideFacts, EndsSteady DEF Steady, Ends
<1>3. Pipe(s) \in Seq(Frames)
  BY <1>2 DEF Pipe
<1>4. Toward(s, p) \in Seq(Frames)
  <2> DEFINE q == Pipe(s)
  <2> HIDE DEF q
  <2>1. \A T : Only(q, T) \in Seq(Frames)
    BY <1>3, OnlyType DEF q
  <2> QED BY <2>1 DEF Toward, q
<1> QED BY <1>1, <1>2, <1>4

(* What reaches a port is what the port is ready for. *)
LEMMA ReadyFor ==
  ASSUME NEW p \in Ports, NEW c, NEW v, NEW f \in Inputs, f.t # "CALL",
         NEW up \in Seq(Frames), NEW dn, ServerInv(c, v, In(f) \o up, dn)
  PROVE  /\ f.t \in Opening => Rested(v)
         /\ f.t = "SABME" => Awaits(v)
         /\ f.t = "PN" => f.n = k
         /\ v.rfc = "TERM_WAIT_SEC_CHECK" => Undecided(v) /\ f.t \notin Talk
<1> DEFINE q == In(f) \o up
<1>1. /\ f \in Frames => q # <<>> /\ Head(q) = f /\ Tail(q) = up
      /\ f \notin Frames => q = up
      /\ q \in Seq(Frames)
  BY PipeFacts
<1>2. f \notin Frames => f.t \notin Opening /\ f.t \notin Talk /\ f.t \notin {"PN", "SABME"}
  BY InFacts DEF Opening, Talk
<1> HIDE DEF q
<1>3. \A T : f \in Frames /\ Free(q, T) => f.t \notin T
  BY <1>1, FreeFacts
<1>4. "PN" \in Opening /\ "SABME" \in Opening
  BY DEF Opening
<1>5. ServerInv(c, v, q, dn)
  BY DEF q
<1>6. CASE f \notin Frames
  BY <1>2, <1>5, <1>6 DEF ServerInv
<1>7. CASE f \in Frames
  BY <1>1, <1>3, <1>4, <1>5, <1>7 DEF ServerInv
<1> QED BY <1>6, <1>7

LEMMA InputReady ==
  ASSUME TypeInv, NEW s \in Sides, NEW p \in Ports, PortInv(p), NEW f \in Inputs, f.t # "CALL",
         NEW rest \in Seq(Frames), Toward(s, p) = In(f) \o rest
  PROVE  Ready(s, p, On(end[s]), end[s].port[p], f)
<1>1. CASE s = Client(p)
  <2>1. Free(In(f) \o rest, Opening) /\ ~IsServer(s, p)
    BY <1>1, SideFacts DEF PortInv
  <2>2. /\ f \in Frames => In(f) \o rest # <<>> /\ Head(In(f) \o rest) = f
        /\ In(f) \o rest \in Seq(Frames)
    BY PipeFacts
  <2>3. f \notin Frames => f.t \notin Opening
    BY InFacts DEF Opening
  <2> DEFINE q == In(f) \o rest
  <2> HIDE DEF q
  <2>4. q \in Seq(Frames) /\ Free(q, Opening) /\ (f \in Frames => q # <<>> /\ Head(q) = f)
    BY <2>1, <2>2 DEF q
  <2>5. f \in Frames => f.t \notin Opening
    BY <2>4, FreeFacts
  <2> QED BY <2>1, <2>3, <2>5 DEF Ready
<1>2. CASE s = Server(p)
  <2>1. IsServer(s, p)
    BY <1>2, SideFacts
  <2>2. On(end[s]) => ServerInv(end[Client(p)].port[p], end[s].port[p], In(f) \o rest, Toward(Client(p), p))
    BY <1>2 DEF PortInv, Pair, PairInv
  <2> QED BY <2>1, <2>2, ReadyFor DEF Ready
<1> QED BY <1>1, <1>2, SideFacts

(* A port that a client has opened stays one that a client has opened. *)
OpensKept == \A p \in Ports : used'.opens[p] = 0 => used.opens[p] = 0

(* A step of end s, seen by port p: what it does to the end, the pipes and the *)
(* count of buffers.                                                           *)
Seen(s, p, r) ==
  /\ end'[Peer(s)] = end[Peer(s)] /\ end'[s].port = r.port /\ end'[s].mx = r.mx
  /\ end'[s].timer = r.timer /\ end'[s].congested = r.congested /\ end'[s].self = r.self
  /\ written'[Peer(s)][p] = written[Peer(s)][p] /\ early'[Peer(s)][p] = early[Peer(s)][p]

LEMMA FitKept ==
  ASSUME TypeInv, NEW p \in Ports, PortInv(p), NEW s \in Sides, NEW r, Fit(r, p), r.self = s, Seen(s, p, r)
  PROVE  \A x \in Sides : Fit(end'[x], p)
<1>1. \A x \in Sides : x = s \/ x = Peer(s)
  BY SideFacts
<1>2. Peer(s) \in Sides
  BY SideFacts
<1>3. Fit(end'[s], p)
  BY DEF Seen, Fit, Stopping
<1>4. Fit(end'[Peer(s)], p)
  BY <1>2 DEF Seen, PortInv
<1> QED BY <1>1, <1>3, <1>4

LEMMA FramesJoin == \A x, y, z \in Seq(Frames) : x \o (y \o z) = (x \o y) \o z
<1> SUFFICES ASSUME NEW x \in Seq(Frames), NEW y \in Seq(Frames), NEW z \in Seq(Frames)
             PROVE  x \o (y \o z) = (x \o y) \o z
  OBVIOUS
<1> QED BY ConcatAssociative

LEMMA MovesKeep ==
  ASSUME TypeInv, OpensKept, NEW p \in Ports, PortInv(p), NEW s \in Sides, NEW r, NEW f \in Inputs, Seen(s, p, r),
         PortMoves(end[s], r, p, f, written[s][p], written'[s][p], early[s][p], early'[s][p]),
         written'[s][p] \in Nat, early'[s][p] \in SUBSET Nat,
         written[s][p] <= written'[s][p], early[s][p] \subseteq early'[s][p],
         Toward(s, p)' \in Seq(Frames), Toward(s, p) = In(f) \o Toward(s, p)',
         NEW a \in Seq(Frames), Toward(Peer(s), p) = a \o Mine(end[s], p),
         Toward(Peer(s), p)' = a \o Mine(r, p),
         f.t = "CALL" => Rested(end[Peer(s)].port[p]) /\ Toward(s, p) = <<>> /\ Toward(Peer(s), p) = <<>>
                         /\ used'.opens[p] # 0
  PROVE  PortInv(p)'
<1> DEFINE o == Peer(s)
           q == end[s].port[p]
           u == r.port[p]
           v == end[o].port[p]
           i == Toward(s, p)'
           j == Toward(o, p)
           j2 == Toward(o, p)'
           w == written[s][p]
           w2 == written'[s][p]
           ea == early[s][p]
           ea2 == early'[s][p]
           wo == written[o][p]
           eo == early[o][p]
<1>1. /\ o \in Sides /\ end[s].self = s /\ r.self = s /\ Mine(end[s], p) \in Seq(Frames)
      /\ Steady(r) /\ (On(r) => On(end[s])) /\ Fit(r, p)
  <2>1. o \in Sides /\ end[s].self = s /\ Steady(end[s])
    BY SideFacts, EndsSteady
  <2> QED BY <2>1, MineType DEF PortMoves, Remains, Steady
<1>2. PICK g \in Seq(Frames) : Mine(r, p) = Mine(end[s], p) \o g
                               /\ Moves(s, p, On(end[s]), q, u, f, g, w, w2, ea, ea2)
  BY <1>1 DEF PortMoves
<1>3. \A x \in Sides : Fit(end'[x], p)
  BY <1>1, FitKept
<1>4. q \in Port /\ v \in Port /\ u \in Port /\ j \in Seq(Frames)
      /\ w \in Nat /\ wo \in Nat /\ ea \in SUBSET Nat /\ eo \in SUBSET Nat
  <2>1. u \in Port
    BY <1>1 DEF Steady, Ends
  <2> QED BY <1>1, <2>1, CountTypes
<1>5. j2 = j \o g
  <2>1. \A x, y, z \in Seq(Frames) : x \o (y \o z) = (x \o y) \o z
    BY FramesJoin
  <2>2. a \o (Mine(end[s], p) \o g) = (a \o Mine(end[s], p)) \o g
    BY Zenon, <1>1, <1>2, <2>1
  <2> QED BY Zenon, <1>2, <2>2
<1>6. i \in Seq(Frames) /\ Toward(s, p) = In(f) \o i
  OBVIOUS
<1>7. /\ end'[s].port[p] = u /\ end'[o].port[p] = v /\ (On(end'[s]) <=> On(r)) /\ end'[o] = end[o]
      /\ written'[o][p] = wo /\ early'[o][p] = eo
  BY DEF Seen, On
<1>8. f.t = "CALL" => Rested(v) /\ In(f) \o i = <<>> /\ j = <<>>
  OBVIOUS
<1>9. w2 \in Nat /\ ea2 \in SUBSET Nat /\ w <= w2 /\ ea \subseteq ea2
  OBVIOUS
<1>10. In(f) \in Seq(Frames) /\ (f.t = "CALL" => In(f) = <<>> /\ In(f) \o i = i)
  BY <1>6, InFacts, Joins
<1>11. ASSUME s = Client(p), o = Server(p)
       PROVE  Free(i, Opening) /\ (On(end'[o]) => PairInv(u, v, j2, i, p, w2, wo, ea2, eo))
  <2>1. Free(In(f) \o i, Opening)
    BY <1>6, <1>11 DEF PortInv
  <2>2. Free(i, Opening)
    BY <1>6, <1>10, <2>1, FreeFacts
  <2>3. ClientMove(q, u, f, g, p, w, w2, ea, ea2)
    BY <1>2, <1>11, SideFacts DEF Moves
  <2>4. On(end[o]) => PairInv(q, v, j, In(f) \o i, p, w, wo, ea, eo)
    BY <1>6, <1>11 DEF PortInv, Pair
  <2> HIDE DEF o, q, u, v, i, j, j2, w, w2, ea, ea2, wo, eo
  <2>5. f.t = "CALL" => Rested(v) /\ j = <<>> /\ i = <<>>
    BY <1>8, <1>10
  <2>6. On(end[o]) => PairInv(u, v, j \o g, i, p, w2, wo, ea2, eo)
    <3> SUFFICES ASSUME On(end[o]) PROVE PairInv(u, v, j \o g, i, p, w2, wo, ea2, eo)
      OBVIOUS
    <3>1. PairInv(q, v, j, In(f) \o i, p, w, wo, ea, eo)
      BY <2>4
    <3> QED BY <1>2, <1>4, <1>6, <1>9, <2>3, <2>5, <3>1, ClientStep
  <2> QED BY Zenon, <1>5, <1>7, <2>2, <2>6
<1>12. ASSUME s = Server(p), o = Client(p)
       PROVE  Free(j2, Opening) /\ (On(end'[s]) => PairInv(v, u, i, j2, p, wo, w2, eo, ea2))
  <2>1. Free(j, Opening)
    BY <1>12 DEF PortInv
  <2>2. Free(g, Opening) /\ (On(end[s]) => ServerMove(q, u, f, g, p, w, w2, ea, ea2))
    BY <1>2, <1>12, SideFacts DEF Moves
  <2>3. On(end[s]) => PairInv(v, q, In(f) \o i, j, p, wo, w, eo, ea)
    BY <1>6, <1>12 DEF PortInv, Pair
  <2> HIDE DEF o, q, u, v, i, j, j2, w, w2, ea, ea2, wo, eo
  <2>4. On(end[s]) => PairInv(v, u, i, j \o g, p, wo, w2, eo, ea2)
    BY <1>4, <1>6, <1>9, <2>2, <2>3, ServerStep
  <2>5. Free(j \o g, Opening)
    BY <1>2, <1>4, <2>1, <2>2, FreeFacts
  <2> QED BY Zenon, <1>1, <1>5, <1>7, <2>4, <2>5
<1>13. used'.opens[p] = 0 => Unopened(p)'
  <2> SUFFICES ASSUME used'.opens[p] = 0 PROVE Unopened(p)'
    OBVIOUS
  <2>1. Unopened(p)
    BY DEF PortInv, OpensKept
  <2>2. Bare(s, p, q) /\ Bare(o, p, v) /\ In(f) \o i = <<>> /\ j = <<>>
    BY <1>1, <1>6, <2>1 DEF Unopened
  <2>3. \A y, z \in Seq(Frames) : y \o z = <<>> => y = <<>> /\ z = <<>>
    OBVIOUS
  <2>4. In(f) = <<>> /\ i = <<>>
    BY Zenon, <1>6, <1>10, <2>2, <2>3
  <2>5. f.t = "NONE"
    <3>1. f \notin Frames /\ f.t # "CALL"
      BY <2>4 DEF In
    <3> QED BY <3>1, NoneFacts DEF Inputs, Call
  <2>6. Bare(s, p, u) /\ g = <<>>
    BY <1>2, <2>2, <2>5 DEF Moves, Rests
  <2>7. j2 = <<>>
    BY <1>4, <1>5, <2>2, <2>6
  <2>8. \A y \in Sides : y = s \/ y = o
    BY SideFacts
  <2> HIDE DEF q, u, v, i, j2
  <2>9. Bare(s, p, end'[s].port[p]) /\ Bare(o, p, end'[o].port[p])
        /\ Toward(s, p)' = <<>> /\ Toward(o, p)' = <<>>
    BY <1>7, <2>2, <2>4, <2>6, <2>7 DEF i, j2
  <2> QED BY <2>8, <2>9 DEF Unopened
<1>14. CASE s = Client(p)
  <2>1. o = Server(p)
    BY <1>14, SideFacts
  <2>2. Free(Toward(Client(p), p)', Opening) /\ (On(end'[Server(p)]) => Pair(p)')
    BY <1>7, <1>11, <1>14, <2>1 DEF Pair
  <2> QED BY <1>3, <1>13, <2>2 DEF PortInv
<1>15. CASE s = Server(p)
  <2>1. o = Client(p)
    BY <1>15, SideFacts
  <2>2. Free(Toward(Client(p), p)', Opening) /\ (On(end'[Server(p)]) => Pair(p)')
    BY <1>7, <1>12, <1>15, <2>1 DEF Pair
  <2> QED BY <1>3, <1>13, <2>2 DEF PortInv
<1> QED BY <1>14, <1>15, SideFacts

LEMMA DropsKeep ==
  ASSUME TypeInv, OpensKept, NEW p \in Ports, PortInv(p), NEW s \in Sides, NEW r, Seen(s, p, r),
         PortDrops(end[s], r, p),
         written'[s][p] = written[s][p], early'[s][p] = early[s][p], Toward(s, p)' = Toward(s, p),
         NEW a \in Seq(Frames), Toward(Peer(s), p) = a \o Mine(end[s], p),
         Toward(Peer(s), p)' = a \o Mine(r, p)
  PROVE  PortInv(p)'
<1> DEFINE o == Peer(s)
           q == end[s].port[p]
           u == r.port[p]
           v == end[o].port[p]
           i == Toward(s, p)
           j2 == Toward(o, p)'
           x == Mine(end[s], p)
           w == written[s][p]
           ea == early[s][p]
           wo == written[o][p]
           eo == early[o][p]
<1>1. /\ o \in Sides /\ end[s].self = s /\ r.self = s /\ x \in Seq(Frames) /\ end[s].out = <<>>
      /\ Steady(r) /\ Fit(r, p) /\ ~On(r) /\ ~Live(u) /\ (u.state = "OPENED" => q.state = "OPENED")
  <2>1. o \in Sides /\ end[s].self = s /\ Steady(end[s]) /\ end[s].out = <<>>
    BY SideFacts, EndsSteady
  <2> QED BY <2>1, MineType DEF PortDrops, Remains, Steady
<1>2. \A y \in Sides : Fit(end'[y], p)
  BY <1>1, FitKept
<1>3. q \in Port /\ v \in Port /\ u \in Port /\ i \in Seq(Frames)
      /\ w \in Nat /\ wo \in Nat /\ ea \in SUBSET Nat /\ eo \in SUBSET Nat
  <2>1. u \in Port
    BY <1>1 DEF Steady, Ends
  <2> QED BY <1>1, <2>1, CountTypes
<1>4. j2 = a
  <2>1. Only(<<>>, Of(p)) = <<>>
    BY OnlyEmpty
  <2>2. a \o <<>> = a
    BY Joins
  <2> QED BY Zenon, <1>1, <2>1, <2>2 DEF PortDrops
<1>5. /\ end'[s].port[p] = u /\ end'[o].port[p] = v /\ (On(end'[s]) <=> On(r)) /\ end'[o] = end[o]
      /\ written'[o][p] = wo /\ early'[o][p] = eo /\ written'[s][p] = w /\ early'[s][p] = ea
  BY DEF Seen, On
<1>6. used'.opens[p] = 0 => Unopened(p)'
  <2> SUFFICES ASSUME used'.opens[p] = 0 PROVE Unopened(p)'
    OBVIOUS
  <2>1. Unopened(p)
    BY DEF PortInv, OpensKept
  <2>2. Bare(s, p, q) /\ Bare(o, p, v) /\ i = <<>> /\ a \o x = <<>>
    BY <1>1, <2>1 DEF Unopened
  <2> HIDE DEF x
  <2>3. a = <<>>
    BY <1>1, <2>2
  <2>4. Bare(s, p, u)
    BY <1>1, <2>2 DEF PortDrops
  <2>5. \A y \in Sides : y = s \/ y = o
    BY SideFacts
  <2>6. Bare(s, p, end'[s].port[p]) /\ Bare(o, p, end'[o].port[p])
        /\ Toward(s, p)' = <<>> /\ Toward(o, p)' = <<>>
    BY <1>4, <1>5, <2>2, <2>3, <2>4
  <2> QED BY <2>5, <2>6 DEF Unopened
<1>7. CASE s = Client(p)
  <2>1. o = Server(p)
    BY <1>7, SideFacts
  <2>2. On(end[o]) => PairInv(q, v, a \o x, i, p, w, wo, ea, eo)
    BY <1>7, <2>1 DEF PortInv, Pair
  <2>3. Free(i, Opening)
    BY <1>7 DEF PortInv
  <2>4. On(end'[o]) => PairInv(u, v, j2, i, p, w, wo, ea, eo)
    <3> HIDE DEF o, q, u, v, i, j2, x, w, ea, wo, eo
    <3>1. On(end[o]) => PairInv(u, v, a, i, p, w, wo, ea, eo)
      BY <1>1, <1>3, <2>2, ClientDrops
    <3> QED BY Zenon, <1>4, <1>5, <3>1
  <2>5. Free(Toward(Client(p), p)', Opening) /\ (On(end'[Server(p)]) => Pair(p)')
    BY <1>5, <1>7, <2>1, <2>3, <2>4 DEF Pair
  <2> QED BY <1>2, <1>6, <2>5 DEF PortInv
<1>8. CASE s = Server(p)
  <2>1. o = Client(p)
    BY <1>8, SideFacts
  <2>2. Free(a \o x, Opening)
    BY <1>8, <2>1 DEF PortInv
  <2>3. Free(j2, Opening)
    <3> HIDE DEF x, j2
    <3> QED BY <1>1, <1>4, <2>2, FreeFacts
  <2>4. Free(Toward(Client(p), p)', Opening) /\ ~On(end'[Server(p)])
    BY <1>1, <1>5, <1>8, <2>1, <2>3
  <2> QED BY <1>2, <1>6, <2>4 DEF PortInv
<1> QED BY <1>7, <1>8, SideFacts

Spared(s, p) == written'[s][p] = written[s][p] /\ early'[s][p] = early[s][p]

LEMMA TurnSeen ==
  ASSUME TypeInv, NEW p \in Ports, NEW s \in Sides, NEW r, Steady(r), NEW w \in Seq(Frames),
         Turn(s, r, w), Spared(Peer(s), p), NEW x \in Seq(Frames),
         Only(wire[s], Of(p)) = x \o Only(w, Of(p))
  PROVE  LET a == Only(wire[Peer(s)], Of(p))
         IN /\ Seen(s, p, r)
            /\ Toward(s, p)' \in Seq(Frames) /\ Toward(s, p) = x \o Toward(s, p)'
            /\ a \in Seq(Frames) /\ Toward(Peer(s), p) = a \o Mine(end[s], p)
            /\ Toward(Peer(s), p)' = a \o Mine(r, p)
<1> DEFINE o == Peer(s)
           c == Only(w, Of(p))
           d == Mine(end[o], p)
           t == Toward(s, p)
           t2 == Toward(s, p)'
<1>1. /\ t = Only(wire[s], Of(p)) \o d /\ t2 = c \o d
      /\ Toward(o, p) = Only(wire[o], Of(p)) \o Mine(end[s], p)
      /\ Toward(o, p)' = Only(wire[o], Of(p)) \o Mine(r, p)
      /\ t2 \in Seq(Frames)
      /\ end'[o] = end[o] /\ end'[s].port = r.port /\ end'[s].mx = r.mx
      /\ end'[s].timer = r.timer /\ end'[s].congested = r.congested /\ end'[s].self = r.self
  <2>1. t = Only(wire[s], Of(p)) \o d
    BY WireStep
  <2>2. t2 = c \o d
    BY WireStep
  <2>3. Toward(o, p) = Only(wire[o], Of(p)) \o Mine(end[s], p)
    BY WireStep
  <2>4. Toward(o, p)' = Only(wire[o], Of(p)) \o Mine(r, p)
    BY WireStep
  <2>5. t2 \in Seq(Frames)
    BY WireStep
  <2>6. end'[o] = end[o] /\ end'[s].port = r.port /\ end'[s].mx = r.mx
    BY WireStep
  <2>7. end'[s].timer = r.timer /\ end'[s].congested = r.congested /\ end'[s].self = r.self
    BY WireStep
  <2> QED BY <2>1, <2>2, <2>3, <2>4, <2>5, <2>6, <2>7
<1>2. Seen(s, p, r)
  BY <1>1 DEF Seen, Spared
<1>3. c \in Seq(Frames) /\ d \in Seq(Frames) /\ Only(wire[o], Of(p)) \in Seq(Frames)
  <2>1. o \in Sides /\ wire[o] \in Seq(Frames) /\ end[o] \in Ends
    BY SideFacts, EndsSteady DEF Steady
  <2> QED BY <2>1, OnlyType, MineType
<1>4. t = x \o t2
  <2>1. t = (x \o c) \o d
    BY <1>1
  <2>2. x \o (c \o d) = (x \o c) \o d
    <3> HIDE DEF c, d
    <3> QED BY Zenon, <1>3, FramesJoin
  <2> QED BY Zenon, <1>1, <2>1, <2>2
<1> HIDE DEF t, t2
<1> QED BY <1>1, <1>2, <1>3, <1>4 DEF t, t2, o

LEMMA TurnKeeps ==
  ASSUME TypeInv, OpensKept, NEW p \in Ports, PortInv(p), NEW s \in Sides, NEW r, NEW w \in Seq(Frames),
         Turn(s, r, w), Spared(Peer(s), p), NEW f \in Inputs,
         Only(wire[s], Of(p)) = In(f) \o Only(w, Of(p)),
         PortMoves(end[s], r, p, f, written[s][p], written'[s][p], early[s][p], early'[s][p]),
         written'[s][p] \in Nat, early'[s][p] \in SUBSET Nat,
         written[s][p] <= written'[s][p], early[s][p] \subseteq early'[s][p],
         f.t = "CALL" => Rested(end[Peer(s)].port[p]) /\ Toward(s, p) = <<>> /\ Toward(Peer(s), p) = <<>>
                         /\ used'.opens[p] # 0
  PROVE  PortInv(p)'
<1> DEFINE a == Only(wire[Peer(s)], Of(p))
<1>1. Steady(r)
  BY DEF PortMoves, Remains
<1>2. In(f) \in Seq(Frames)
  BY InFacts
<1>3. /\ Seen(s, p, r)
      /\ Toward(s, p)' \in Seq(Frames) /\ Toward(s, p) = In(f) \o Toward(s, p)'
      /\ a \in Seq(Frames) /\ Toward(Peer(s), p) = a \o Mine(end[s], p)
      /\ Toward(Peer(s), p)' = a \o Mine(r, p)
  BY <1>1, <1>2, TurnSeen
<1> HIDE DEF a
<1> QED BY <1>3, MovesKeep

LEMMA TurnDrops ==
  ASSUME TypeInv, OpensKept, NEW p \in Ports, PortInv(p), NEW s \in Sides, NEW r, NEW w \in Seq(Frames),
         Turn(s, r, w), Spared(Peer(s), p), Spared(s, p), Only(wire[s], Of(p)) = Only(w, Of(p)),
         PortDrops(end[s], r, p)
  PROVE  PortInv(p)'
<1> DEFINE a == Only(wire[Peer(s)], Of(p))
<1>1. Steady(r)
  BY DEF PortDrops, Remains
<1>2. Only(wire[s], Of(p)) = <<>> \o Only(w, Of(p)) /\ <<>> \in Seq(Frames)
  <2>1. Only(w, Of(p)) \in Seq(Frames)
    BY OnlyType
  <2> QED BY <2>1, Joins
<1>3. /\ Seen(s, p, r)
      /\ Toward(s, p)' \in Seq(Frames) /\ Toward(s, p) = <<>> \o Toward(s, p)'
      /\ a \in Seq(Frames) /\ Toward(Peer(s), p) = a \o Mine(end[s], p)
      /\ Toward(Peer(s), p)' = a \o Mine(r, p)
  BY <1>1, <1>2, TurnSeen
<1>4. Toward(s, p)' = Toward(s, p)
  <2> DEFINE t == Toward(s, p)
             t2 == Toward(s, p)'
  <2>1. t2 \in Seq(Frames) /\ t = <<>> \o t2
    BY <1>3
  <2> HIDE DEF t, t2
  <2>2. \A y \in Seq(Frames) : <<>> \o y = y
    OBVIOUS
  <2>3. t2 = t
    BY Zenon, <2>1, <2>2
  <2> QED BY <2>3 DEF t, t2
<1> HIDE DEF a
<1> QED BY <1>3, <1>4, DropsKeep DEF Spared

(* A step that takes f for port p, and nothing for the others. *)
LEMMA StepsKeep ==
  ASSUME TypeInv, OpensKept, NEW x \in Ports, PortInv(x), NEW s \in Sides, NEW r, NEW w \in Seq(Frames),
         Turn(s, r, w), Spared(Peer(s), x), Spared(s, x), NEW f \in Inputs,
         Only(wire[s], Of(x)) = In(f) \o Only(w, Of(x)), PortStep(end[s], r, x, f),
         f.t = "CALL" => Rested(end[Peer(s)].port[x]) /\ Toward(s, x) = <<>> /\ Toward(Peer(s), x) = <<>>
                         /\ used'.opens[x] # 0
  PROVE  PortInv(x)'
<1>1. written[s][x] \in Nat /\ early[s][x] \in SUBSET Nat
  BY CountTypes
<1>2. PortMoves(end[s], r, x, f, written[s][x], written'[s][x], early[s][x], early'[s][x])
  <2>1. PortMoves(end[s], r, x, f, written[s][x], written[s][x], early[s][x], early[s][x])
    BY <1>1 DEF PortStep, PortMoves, Does
  <2> QED BY <2>1 DEF Spared
<1>3. /\ written'[s][x] \in Nat /\ early'[s][x] \in SUBSET Nat
      /\ written[s][x] <= written'[s][x] /\ early[s][x] \subseteq early'[s][x]
  BY <1>1 DEF Spared
<1> QED BY <1>2, <1>3, TurnKeeps

LEMMA BecomesTurn ==
  ASSUME TypeInv, NEW s \in Sides, NEW r, Becomes(s, r)
  PROVE  wire[s] \in Seq(Frames) /\ Turn(s, r, wire[s])
<1>1. wire \in [Sides -> Seq(Frames)] /\ wire[s] \in Seq(Frames)
  BY DEF TypeInv, TypeOK
<1> QED BY <1>1, SideFacts DEF Becomes, Turn

LEMMA NothingTaken ==
  ASSUME TypeInv, NEW s \in Sides, NEW p, NEW f \in Inputs, f.t \in {"NONE", "CALL"}
  PROVE  Only(wire[s], Of(p)) = In(f) \o Only(wire[s], Of(p))
<1>1. In(f) = <<>> /\ wire[s] \in Seq(Frames)
  BY InFacts, EndsSteady
<1>2. Only(wire[s], Of(p)) \in Seq(Frames)
  BY <1>1, OnlyType
<1> QED BY <1>1, <1>2, Joins

LEMMA SafeInit ==
  ASSUME Init
  PROVE  SafeInv
<1>1. TypeInv
  BY TypeInit
<1> SUFFICES ASSUME NEW p \in Ports PROVE PortInv(p)
  BY <1>1 DEF SafeInv
<1>2. \A s \in Sides :
        /\ end[s].self = s /\ ~end[s].timer /\ end[s].mx = "CONNECTED" /\ end[s].cmd_q = <<>>
        /\ wire[s] = <<>> /\ end[s].port[p] = IF IsServer(s, p) THEN Listening ELSE Unused
  BY DEF Init
<1>3. \A q \in {Unused, Listening} :
        /\ q.rfc = "CLOSED" /\ q.rsp = {} /\ q.ctrl = {} /\ ~q.mcb /\ q.tx = <<>> /\ q.rx = <<>>
        /\ ~q.peer_fc
  <2> DEFINE Blank(q) == /\ q.rfc = "CLOSED" /\ q.rsp = {} /\ q.ctrl = {} /\ ~q.mcb /\ q.tx = <<>> /\ q.rx = <<>>
                        /\ ~q.peer_fc
  <2>1. Blank(Unused)
    BY DEF Unused
  <2>2. Blank(Listening)
    BY DEF Unused, Listening
  <2> QED BY <2>1, <2>2
<1>4. Unused.state = "CLOSED" /\ Listening.state = "OPENING"
  BY DEF Unused, Listening
<1>5. \A s \in Sides : Fit(end[s], p)
  <2> SUFFICES ASSUME NEW s \in Sides PROVE Fit(end[s], p)
    OBVIOUS
  <2> DEFINE q == end[s].port[p]
  <2>1. q \in {Unused, Listening} /\ (q.state = "OPENING" => IsServer(s, p))
    BY <1>2, <1>4
  <2> HIDE DEF q
  <2>2. Sound(s, p, q) /\ Idle(q, end[s].congested)
    BY <1>3, <2>1 DEF Sound, OwnMsc, Idle, Negotiating
  <2>3. ~Stopping(end[s]) /\ end[s].self = s
    BY <1>2 DEF Stopping
  <2> QED BY <2>2, <2>3 DEF Fit, q
<1>6. \A s \in Sides : Toward(s, p) = <<>>
  <2> SUFFICES ASSUME NEW s \in Sides PROVE Toward(s, p) = <<>>
    OBVIOUS
  <2>1. Pipe(s) = <<>>
    <3>1. wire[s] = <<>> /\ end[Peer(s)].cmd_q = <<>>
      BY <1>2, SideFacts
    <3> QED BY <3>1 DEF Pipe
  <2> QED BY <2>1, OnlyEmpty DEF Toward
<1>7. Pair(p)
  <2> DEFINE c == end[Client(p)].port[p]
             v == end[Server(p)].port[p]
  <2>1. c \in {Unused, Listening} /\ v \in {Unused, Listening}
    BY <1>2, SideFacts
  <2>2. Toward(Server(p), p) = <<>> /\ Toward(Client(p), p) = <<>>
    BY <1>6, SideFacts
  <2> HIDE DEF c, v
  <2>3. ~Live(c)
    BY <1>3, <2>1 DEF Live, Negotiating
  <2>4. \A T : Free(<<>>, T)
    BY DEF Free
  <2>5. ServerInv(c, v, <<>>, <<>>)
    BY <1>3, <2>1, <2>4 DEF ServerInv
  <2> QED BY <2>2, <2>3, <2>5 DEF Pair, PairInv, c, v
<1>8. Free(Toward(Client(p), p), Opening)
  <2>1. Toward(Client(p), p) = <<>>
    BY <1>6, SideFacts
  <2> QED BY <2>1 DEF Free
<1>9. Unopened(p)
  <2>1. ASSUME NEW s \in Sides PROVE Bare(s, p, end[s].port[p])
    <3>1. ~Unused.mcb /\ ~Listening.mcb
      BY DEF Unused, Listening
    <3>2. CASE IsServer(s, p)
      BY <1>2, <1>3, <1>4, <3>1, <3>2 DEF Bare, Rested
    <3>3. CASE ~IsServer(s, p)
      BY <1>2, <1>3, <1>4, <3>1, <3>3 DEF Bare, Rested
    <3> QED BY <3>2, <3>3
  <2> QED BY <1>6, <2>1 DEF Unopened
<1> QED BY <1>5, <1>7, <1>8, <1>9 DEF PortInv

(* A connection is opened only when the server's port is at rest and nothing of *)
(* an earlier connection is on its way.                                         *)
OnlyAtRest ==
  \A p \in Ports :
    used'.opens[p] # used.opens[p] =>
      /\ Rested(end[Server(p)].port[p])
      /\ Toward(Server(p), p) = <<>> /\ Toward(Client(p), p) = <<>>

LEMMA SafeFits ==
  ASSUME SafeInv, NEW s \in Sides
  PROVE  /\ Steady(end[s]) /\ end[s].self = s /\ end[s].out = <<>>
         /\ \A x \in Ports : PortInv(x) /\ Fit(end[s], x)
         /\ \A x \in Ports : Ready(s, x, On(end[s]), end[s].port[x], None)
<1>1. TypeInv /\ \A x \in Ports : PortInv(x)
  BY DEF SafeInv
<1>2. Steady(end[s]) /\ end[s].self = s /\ end[s].out = <<>>
  BY <1>1, EndsSteady
<1>3. \A x \in Ports : Fit(end[s], x)
  BY <1>1 DEF PortInv
<1>4. ASSUME NEW x \in Ports PROVE Ready(s, x, On(end[s]), end[s].port[x], None)
  <2> DEFINE t == Toward(s, x)
  <2>1. t \in Seq(Frames)
    BY <1>1, CountTypes
  <2>2. None \in Inputs /\ None.t # "CALL" /\ In(None) = <<>>
    BY NoneFacts
  <2>3. t = In(None) \o t
    <3> HIDE DEF t
    <3> QED BY <2>1, <2>2
  <2> QED BY <1>1, <2>1, <2>2, <2>3, InputReady
<1> QED BY <1>1, <1>2, <1>3, <1>4

(* A step in which end s takes f for port p, or nothing, and no one writes. *)
LEMMA SafeBecomes ==
  ASSUME SafeInv, OpensKept, NEW s \in Sides, NEW r, Becomes(s, r), UNCHANGED <<written, early>>,
         NEW x \in Ports, NEW f \in Inputs, f.t \in {"NONE", "CALL"}, PortStep(end[s], r, x, f),
         f.t = "CALL" => Rested(end[Peer(s)].port[x]) /\ Toward(s, x) = <<>> /\ Toward(Peer(s), x) = <<>>
                         /\ used'.opens[x] # 0
  PROVE  PortInv(x)'
<1>1. TypeInv /\ PortInv(x) /\ Spared(s, x) /\ Spared(Peer(s), x)
  BY DEF SafeInv, Spared
<1> DEFINE w == wire[s]
<1>2. w \in Seq(Frames) /\ Turn(s, r, w)
  BY <1>1, BecomesTurn
<1>3. Only(w, Of(x)) = In(f) \o Only(w, Of(x))
  BY <1>1, NothingTaken
<1> QED BY <1>1, <1>2, <1>3, StepsKeep

LEMMA SafeDrops ==
  ASSUME SafeInv, OpensKept, NEW s \in Sides, NEW r, Becomes(s, r), UNCHANGED <<written, early>>,
         NEW x \in Ports, PortDrops(end[s], r, x)
  PROVE  PortInv(x)'
<1>1. TypeInv /\ PortInv(x) /\ Spared(s, x) /\ Spared(Peer(s), x)
  BY DEF SafeInv, Spared
<1> DEFINE w == wire[s]
<1>2. w \in Seq(Frames) /\ Turn(s, r, w)
  BY <1>1, BecomesTurn
<1>3. Only(wire[s], Of(x)) = Only(w, Of(x))
  OBVIOUS
<1> HIDE DEF w
<1> QED BY <1>1, <1>2, <1>3, TurnDrops

LEMMA SafeCreate ==
  ASSUME SafeInv, OpensKept, NEW p \in Ports, RFCOMM_CreateConnection(p), OnlyAtRest, NEW x \in Ports
  PROVE  PortInv(x)'
<1> DEFINE s == Client(p)
           e == end[s]
           c == [e EXCEPT !.timer = FALSE, !.port[p] = [Unused EXCEPT !.state = "OPENING", !.mcb = TRUE]]
           r == RFCOMM_ParNegReq(c, p)
           f == IF x = p THEN Call(p) ELSE None
<1>1. s \in Sides /\ ~IsServer(s, p) /\ Peer(s) = Server(p)
  BY SideFacts
<1>2. /\ Becomes(s, r) /\ UNCHANGED <<written, early>> /\ end[s].mx = "CONNECTED"
      /\ used' = [used EXCEPT !.opens[p] = @ + 1]
  BY DEF RFCOMM_CreateConnection
<1>3. Steady(e) /\ e.self = s /\ \A y \in Ports : Fit(e, y)
  BY <1>1, SafeFits
<1>4. Rested(end[Server(p)].port[p]) /\ Toward(Server(p), p) = <<>> /\ Toward(Client(p), p) = <<>>
      /\ used'.opens[p] # 0
  <2>1. used.opens \in [Ports -> Nat] /\ used \in UsedType
    BY RfcommAssumption DEF SafeInv, TypeInv, TypeOK, UsedType
  <2>2. used'.opens[p] = used.opens[p] + 1
    BY <1>2, <2>1 DEF UsedType
  <2> QED BY <2>1, <2>2 DEF OnlyAtRest
<1> HIDE DEF s
<1>5. Steps(e, r, p, Call(p))
  BY <1>1, <1>2, <1>3, CreateStep DEF On
<1>6. PortStep(e, r, x, f) /\ f \in Inputs /\ f.t \in {"NONE", "CALL"}
  <2>1. Call(p) \in Inputs /\ Call(p).t = "CALL"
    BY DEF Call, Inputs
  <2> QED BY <1>5, <2>1, NoneFacts DEF Steps
<1>7. f.t = "CALL" => x = p
  BY NoneFacts
<1> HIDE DEF r, f
<1>8. f.t = "CALL" => Rested(end[Peer(s)].port[x]) /\ Toward(s, x) = <<>> /\ Toward(Peer(s), x) = <<>>
                         /\ used'.opens[x] # 0
  BY <1>1, <1>4, <1>7 DEF s
<1> QED BY <1>1, <1>2, <1>6, <1>8, SafeBecomes

(* A step that neither takes a frame nor writes. *)
LEMMA SafeQuiet ==
  ASSUME SafeInv, OpensKept, NEW s \in Sides, NEW r, Becomes(s, r), UNCHANGED <<written, early>>,
         \/ \A x \in Ports : PortStep(end[s], r, x, None)
         \/ \A x \in Ports : PortDrops(end[s], r, x)
  PROVE  \A x \in Ports : PortInv(x)'
<1> SUFFICES ASSUME NEW x \in Ports PROVE PortInv(x)'
  OBVIOUS
<1>1. None \in Inputs /\ None.t = "NONE"
  BY NoneFacts
<1>2. CASE PortStep(end[s], r, x, None)
  BY <1>1, <1>2, SafeBecomes
<1>3. CASE PortDrops(end[s], r, x)
  BY <1>3, SafeDrops
<1> QED BY <1>2, <1>3

LEMMA SafeReceive ==
  ASSUME SafeInv, OpensKept, NEW s \in Sides, Receive(s), NEW x \in Ports
  PROVE  PortInv(x)'
<1> DEFINE e == end[s]
           f == Head(wire[s])
           w == Tail(wire[s])
           r == RFCOMM_BufDataInd(e, f)
<1>1. /\ wire[s] # <<>> /\ UNCHANGED <<written, early, used>>
      /\ end' = [end EXCEPT ![s] = [r EXCEPT !.out = <<>>]]
      /\ wire' = [wire EXCEPT ![s] = Tail(@), ![Peer(s)] = @ \o r.out]
  BY DEF Receive
<1>2. TypeInv /\ PortInv(x) /\ Spared(s, x) /\ Spared(Peer(s), x)
  BY <1>1 DEF SafeInv, Spared
<1>3. Steady(e) /\ e.self = s /\ (\A y \in Ports : Fit(e, y))
  BY SafeFits
<1>4. wire \in [Sides -> Seq(Frames)] /\ wire[s] \in Seq(Frames) /\ Peer(s) # s
  BY <1>2, SideFacts DEF TypeInv, TypeOK
<1>5. f \in Frames /\ w \in Seq(Frames) /\ f.p \in Ports \cup {0}
  <2>1. f \in Frames /\ w \in Seq(Frames)
    BY <1>1, <1>4
  <2> HIDE DEF f
  <2> QED BY <2>1 DEF Frames
<1> HIDE DEF r
<1>6. Turn(s, r, w)
  BY <1>1, <1>4 DEF Turn
<1> HIDE DEF f, w
<1>7. f \in Inputs /\ f.t # "CALL" /\ In(f) = <<f>>
  BY <1>5, InFacts DEF Inputs
<1>8. \A y \in Ports : Only(wire[s], Of(y)) = IF f.p = y THEN In(f) \o Only(w, Of(y)) ELSE Only(w, Of(y))
  <2> SUFFICES ASSUME NEW y \in Ports
               PROVE  Only(wire[s], Of(y)) = IF f.p = y THEN In(f) \o Only(w, Of(y)) ELSE Only(w, Of(y))
    OBVIOUS
  <2>1. f \in Of(y) <=> f.p = y
    BY <1>5 DEF Of
  <2> QED BY <1>1, <1>4, <1>7, <2>1, OnlyHead DEF f, w
<1>9. CASE f.p = 0
  <2>1. f.p # x /\ Only(wire[s], Of(x)) = Only(w, Of(x))
    BY <1>8, <1>9, RfcommAssumption
  <2>2. (\A y \in Ports : PortStep(e, r, y, None)) \/ (\A y \in Ports : PortDrops(e, r, y))
    BY <1>3, <1>5, <1>9, MxFrameStep DEF r
  <2>3. CASE PortStep(e, r, x, None)
    <3>1. Only(w, Of(x)) \in Seq(Frames)
      BY <1>5, OnlyType
    <3>2. None \in Inputs /\ None.t = "NONE" /\ Only(wire[s], Of(x)) = In(None) \o Only(w, Of(x))
      BY <2>1, <3>1, NoneFacts, Joins
    <3> QED BY <1>2, <1>5, <1>6, <2>3, <3>2, StepsKeep
  <2>4. CASE PortDrops(e, r, x)
    BY <1>2, <1>5, <1>6, <2>1, <2>4, TurnDrops
  <2> QED BY <2>2, <2>3, <2>4
<1>10. CASE f.p \in Ports
  <2> DEFINE p == f.p
             n == IF x = p THEN f ELSE None
  <2>1. Ready(s, p, On(e), e.port[p], f)
    <3> DEFINE t == Only(w, Of(p))
               d == Mine(end[Peer(s)], p)
    <3>1. Peer(s) \in Sides /\ end[Peer(s)] \in Ends /\ Mine(end[Peer(s)], p) = Only(end[Peer(s)].cmd_q, Of(p))
      BY <1>2, EndsSteady, SideFacts DEF Steady
    <3>2. t \in Seq(Frames) /\ d \in Seq(Frames) /\ end[Peer(s)].cmd_q \in Seq(Frames)
      BY <1>5, <3>1, OnlyType, MineType DEF Ends
    <3>3. Toward(s, p) = Only(wire[s], Of(p)) \o d
      <4> DEFINE a == wire[s]
                 b == end[Peer(s)].cmd_q
      <4>1. a \in Seq(Frames) /\ b \in Seq(Frames) /\ Toward(s, p) = Only(a \o b, Of(p))
        BY <1>4, <3>2 DEF Toward, Pipe
      <4> HIDE DEF a, b
      <4>2. Only(a \o b, Of(p)) = Only(a, Of(p)) \o Only(b, Of(p))
        BY <4>1, OnlyConcat
      <4> QED BY <3>1, <4>1, <4>2 DEF a, b
    <3>4. Only(wire[s], Of(p)) = In(f) \o t
      BY <1>8, <1>10
    <3> HIDE DEF t, d
    <3>5. In(f) \in Seq(Frames) /\ t \o d \in Seq(Frames)
      BY <1>7, <3>2, InFacts, Joins
    <3>6. In(f) \o (t \o d) = (In(f) \o t) \o d
      BY <3>2, <3>5, FramesJoin
    <3>7. Toward(s, p) = In(f) \o (t \o d)
      BY Zenon, <3>3, <3>4, <3>6
    <3>8. PortInv(p)
      BY <1>10 DEF SafeInv
    <3> QED BY <1>2, <1>7, <1>10, <3>5, <3>7, <3>8, InputReady
  <2>2. Steps(e, r, p, f)
    BY <1>3, <1>5, <1>10, <2>1, FrameStep DEF r
  <2>3. n \in Inputs /\ n.t # "CALL" /\ PortStep(e, r, x, n)
    BY <1>7, <2>2, NoneFacts DEF Steps
  <2>4. Only(wire[s], Of(x)) = In(n) \o Only(w, Of(x))
    <3>1. CASE x = p
      BY <1>8, <3>1
    <3>2. CASE x # p
      <4>1. Only(w, Of(x)) \in Seq(Frames)
        BY <1>5, OnlyType
      <4> QED BY <1>8, <3>2, <4>1, NoneFacts, Joins
    <3> QED BY <3>1, <3>2
  <2> HIDE DEF n
  <2> QED BY <1>2, <1>5, <1>6, <2>3, <2>4, StepsKeep
<1> QED BY <1>5, <1>9, <1>10

LEMMA SafeWrite ==
  ASSUME SafeInv, OpensKept, NEW s \in Sides, NEW p \in Ports, PORT_Write(s, p), NEW x \in Ports
  PROVE  PortInv(x)'
<1> DEFINE e == end[s]
           q == e.port[p]
           w == written[s][p]
           ea == early[s][p]
           d == w + 1
           ea2 == IF SetUp(q) /\ "REQ_CONFIRMED" \notin q.ctrl THEN ea \cup {d} ELSE ea
           r == port_write(e, p, d)
           i == wire[s]
<1>1. /\ Becomes(s, r) /\ (IsServer(s, p) => q.rfc = "OPENED") /\ q.state # "CLOSED" /\ w < Writes(s)
      /\ written' = [written EXCEPT ![s][p] = d] /\ early' = [early EXCEPT ![s][p] = ea2]
  <2>1. /\ Becomes(s, r) /\ (IsServer(s, p) => q.rfc = "OPENED") /\ q.state # "CLOSED" /\ w < Writes(s)
        /\ written' = [written EXCEPT ![s][p] = d]
        /\ early' = [early EXCEPT ![s][p] =
             IF SetUp(q) /\ "REQ_CONFIRMED" \notin q.ctrl THEN @ \cup {d} ELSE @]
    BY DEF PORT_Write
  <2>2. early \in [Sides -> [Ports -> SUBSET Buffers]]
    BY DEF SafeInv, TypeInv, TypeOK
  <2> HIDE DEF r
  <2> QED BY <2>1, <2>2
<1>2. TypeInv /\ TypeOK /\ PortInv(x) /\ w \in Nat /\ ea \in SUBSET Nat
  BY CountTypes DEF SafeInv, TypeInv
<1>3. d \in Buffers /\ d \in Nat /\ w <= d
  BY <1>1, <1>2, WriteTypes
<1>4. Steady(e) /\ e.self = s /\ \A y \in Ports : Fit(e, y)
  BY SafeFits
<1>5. /\ PortMoves(e, r, p, None, w, d, ea, ea2)
      /\ \A y \in Ports \ {p} : PortStep(e, r, y, None)
  BY <1>1, <1>2, <1>3, <1>4, WriteStep
<1>6. /\ written'[s][p] = d /\ early'[s][p] = ea2
      /\ \A y \in Sides, z \in Ports : y # s \/ z # p =>
           written'[y][z] = written[y][z] /\ early'[y][z] = early[y][z]
  <2>1. written \in [Sides -> [Ports -> {0} \cup Buffers]]
        /\ early \in [Sides -> [Ports -> SUBSET Buffers]]
    BY <1>2 DEF TypeOK
  <2> HIDE DEF d, ea2
  <2> QED BY <1>1, <2>1
<1>7. ea2 \in SUBSET Nat /\ ea \subseteq ea2
  BY <1>2, <1>3
<1>8. i \in Seq(Frames) /\ Turn(s, r, i)
  BY <1>1, <1>2, BecomesTurn
<1>9. None \in Inputs /\ None.t = "NONE" /\ None.t # "CALL"
  BY NoneFacts
<1>10. Only(i, Of(x)) = In(None) \o Only(i, Of(x))
  BY <1>2, <1>9, NothingTaken
<1>11. Spared(Peer(s), x)
  BY <1>6, SideFacts DEF Spared
<1> HIDE DEF r, d, ea2, w, ea
<1>12. CASE x = p
  <2>1. PortMoves(end[s], r, x, None, written[s][x], written'[s][x], early[s][x], early'[s][x])
    BY <1>5, <1>6, <1>12 DEF w, ea
  <2>2. /\ written'[s][x] \in Nat /\ early'[s][x] \in SUBSET Nat
        /\ written[s][x] <= written'[s][x] /\ early[s][x] \subseteq early'[s][x]
    BY <1>3, <1>6, <1>7, <1>12 DEF w, ea
  <2> QED BY <1>2, <1>8, <1>9, <1>10, <1>11, <2>1, <2>2, TurnKeeps
<1>13. CASE x # p
  <2>1. Spared(s, x) /\ PortStep(end[s], r, x, None)
    BY <1>5, <1>6, <1>13 DEF Spared
  <2> QED BY <1>2, <1>8, <1>9, <1>10, <1>11, <2>1, StepsKeep
<1> QED BY <1>12, <1>13

LEMMA SafeCongestion ==
  ASSUME SafeInv, OpensKept, NEW s \in Sides, Congestion(s)
  PROVE  \A x \in Ports : PortInv(x)'
<1> DEFINE e == end[s]
           r == [e EXCEPT !.congested = TRUE]
<1>1. /\ ~e.congested /\ end' = [end EXCEPT ![s] = r]
      /\ UNCHANGED wire /\ UNCHANGED <<written, early>>
  BY DEF Congestion, SafeInv, TypeInv, TypeOK
<1>2. Steady(e) /\ e.self = s /\ e.out = <<>> /\ \A y \in Ports : Fit(e, y)
  BY SafeFits
<1>3. \A x \in Ports : PortStep(e, r, x, None)
  BY <1>1, <1>2, CongestedStep
<1>4. r.out = <<>> /\ [r EXCEPT !.out = <<>>] = r
  BY <1>2 DEF Steady, Ends
<1>5. wire \in [Sides -> Seq(Frames)] /\ Peer(s) \in Sides /\ wire[Peer(s)] \in Seq(Frames)
  BY SideFacts DEF SafeInv, TypeInv, TypeOK
<1> HIDE DEF r
<1>6. wire' = [wire EXCEPT ![Peer(s)] = @ \o r.out]
  <2>1. wire[Peer(s)] \o r.out = wire[Peer(s)]
    BY <1>4, <1>5, Joins
  <2> QED BY <1>1, <1>5, <2>1
<1>7. Becomes(s, r)
  BY <1>1, <1>4, <1>6 DEF Becomes
<1> QED BY <1>1, <1>3, <1>7, SafeQuiet

(* No port has been opened a second time yet. *)
OpenedOnce == \A p \in Ports : used.opens[p] <= 1

(* Only RFCOMM_CreateConnection counts a connection. *)
LEMMA OpensChange ==
  ASSUME TypeInv, [Next]_vars, used'.opens # used.opens
  PROVE  \E x \in Ports : RFCOMM_CreateConnection(x)
<1>1. used \in UsedType
  BY RfcommAssumption DEF TypeInv, TypeOK, UsedType
<1>2. ASSUME used' = [used EXCEPT !.holds = @ + 1] \/ used' = [used EXCEPT !.timeouts = @ + 1] \/ used' = used
      PROVE  FALSE
  BY <1>1, <1>2 DEF UsedType
<1>3. ASSUME UNCHANGED vars PROVE used' = used
  BY <1>3 DEF vars
<1>4. ASSUME NEW s \in Sides, Receive(s) \/ CongestionEnds(s) PROVE used' = used
  BY <1>4 DEF Receive, CongestionEnds, Runs
<1>5. ASSUME NEW s \in Sides, Congestion(s) PROVE used' = [used EXCEPT !.holds = @ + 1]
  BY <1>5 DEF Congestion
<1>6. ASSUME NEW s \in Sides, NEW x \in Ports, PORT_Write(s, x) \/ PORT_Read(s, x) PROVE used' = used
  BY <1>6 DEF PORT_Write, PORT_Read, Runs
<1>7. ASSUME NEW s \in Sides, MxTimeout(s) \/ \E x \in Ports : PortTimeout(s, x)
      PROVE  used' = [used EXCEPT !.timeouts = @ + 1] \/ used' = used
  BY <1>7 DEF MxTimeout, PortTimeout, Expires
<1>8. ASSUME NEW s \in Sides, NEW x \in Ports, NEW b \in BOOLEAN, RemovePort(s, x, b) \/ SecurityAnswers(s, x, b)
      PROVE  used' = used
  BY <1>8 DEF RemovePort, SecurityAnswers, Runs
<1>9. ASSUME NEW s \in Sides, NEW x \in Ports, NEW b \in BOOLEAN, PORT_FlowControl(s, x, b)
      PROVE  used' = [used EXCEPT !.holds = @ + 1] \/ used' = used
  BY <1>9 DEF PORT_FlowControl
<1> QED BY <1>2, <1>3, <1>4, <1>5, <1>6, <1>7, <1>8, <1>9 DEF Next

LEMMA OpensGrow ==
  ASSUME TypeInv, [Next]_vars
  PROVE  OpensKept /\ (OpenedOnce' => OpenedOnce)
<1>1. used \in UsedType /\ used.opens \in [Ports -> Nat]
  BY RfcommAssumption DEF TypeInv, TypeOK, UsedType
<1>2. CASE used'.opens = used.opens
  BY <1>2 DEF OpensKept, OpenedOnce
<1>3. CASE used'.opens # used.opens
  <2>1. PICK x \in Ports : RFCOMM_CreateConnection(x)
    BY <1>3, OpensChange
  <2>2. used'.opens = [used.opens EXCEPT ![x] = @ + 1]
    BY <1>1, <2>1 DEF RFCOMM_CreateConnection, UsedType
  <2>3. \A y \in Ports : used.opens[y] <= used'.opens[y]
    BY <1>1, <2>2
  <2> QED BY <1>1, <2>2, <2>3 DEF OpensKept, OpenedOnce
<1> QED BY <1>2, <1>3

LEMMA SafeStep ==
  ASSUME SafeInv, [Next]_vars, [OnlyAtRest]_vars
  PROVE  SafeInv'
<1>1. TypeInv'
  BY TypeStep DEF SafeInv
<1>2. OpensKept
  BY OpensGrow DEF SafeInv
<1> SUFFICES \A x \in Ports : PortInv(x)'
  BY <1>1 DEF SafeInv
<1>3. CASE UNCHANGED vars
  <2>1. \A x \in Ports : PortInv(x)
    BY DEF SafeInv
  <2> QED BY <1>3, <2>1 DEF vars, PortInv, Unopened, Toward, Pipe, Pair
<1>4. ASSUME NEW s \in Sides, NEW r, NEW p \in Ports, Steps(end[s], r, p, None), Runs(s, r)
      PROVE  \A x \in Ports : PortInv(x)'
  <2>1. \A x \in Ports : PortStep(end[s], r, x, None)
    BY <1>4 DEF Steps
  <2> QED BY <1>4, <2>1, <1>2, SafeQuiet DEF Runs
<1>5. ASSUME NEW p \in Ports, RFCOMM_CreateConnection(p), NEW x \in Ports PROVE PortInv(x)'
  <2>1. vars' # vars
    <3>1. used.opens \in [Ports -> Nat] /\ used \in UsedType
      BY RfcommAssumption DEF SafeInv, TypeInv, TypeOK, UsedType
    <3>2. used' = [used EXCEPT !.opens[p] = @ + 1]
      BY <1>5 DEF RFCOMM_CreateConnection
    <3>3. used'.opens[p] = used.opens[p] + 1
      BY <3>1, <3>2 DEF UsedType
    <3> QED BY <3>1, <3>3 DEF vars
  <2>2. OnlyAtRest
    BY <2>1
  <2> QED BY <1>5, <2>2, <1>2, SafeCreate
<1>6. ASSUME NEW s \in Sides, Receive(s), NEW x \in Ports PROVE PortInv(x)'
  BY <1>6, <1>2, SafeReceive
<1>7. ASSUME NEW s \in Sides, Congestion(s), NEW x \in Ports PROVE PortInv(x)'
  BY <1>7, <1>2, SafeCongestion
<1>8. ASSUME NEW s \in Sides, CongestionEnds(s), NEW x \in Ports PROVE PortInv(x)'
  <2> DEFINE r == PORT_FlowInd(Uncongested(end[s]))
  <2>1. Becomes(s, r) /\ UNCHANGED <<written, early>>
    BY <1>8 DEF CongestionEnds, Uncongested, Runs
  <2>2. Steady(end[s]) /\ end[s].out = <<>> /\ \A y \in Ports : Fit(end[s], y)
    BY SafeFits
  <2>3. \A y \in Ports : PortStep(end[s], r, y, None)
    BY <2>2, UncongestedStep
  <2> HIDE DEF r
  <2> QED BY <2>1, <2>3, <1>2, SafeQuiet
<1>9. ASSUME NEW s \in Sides, MxTimeout(s), NEW x \in Ports PROVE PortInv(x)'
  <2> DEFINE r == MxExpires(end[s])
  <2>1. Becomes(s, r) /\ UNCHANGED <<written, early>> /\ end[s].timer
    BY <1>9 DEF MxTimeout
  <2>2. Steady(end[s]) /\ \A y \in Ports : Fit(end[s], y)
    BY SafeFits
  <2>3. (\A y \in Ports : PortStep(end[s], r, y, None)) \/ (\A y \in Ports : PortDrops(end[s], r, y))
    BY <2>1, <2>2, MxTimerStep
  <2> HIDE DEF r
  <2> QED BY <2>1, <2>3, <1>2, SafeQuiet
<1>10. ASSUME NEW s \in Sides, NEW p \in Ports, PORT_Write(s, p), NEW x \in Ports PROVE PortInv(x)'
  BY <1>10, <1>2, SafeWrite
<1>11. ASSUME NEW s \in Sides, NEW p \in Ports, PORT_Read(s, p), NEW x \in Ports PROVE PortInv(x)'
  <2> DEFINE e == end[s]
             r == port_flow_control_peer([e EXCEPT !.port[p].rx = Tail(@)], p, 1)
  <2>1. Runs(s, r) /\ e.port[p].rx # <<>> /\ e.port[p].state = "OPENED"
    BY <1>11 DEF PORT_Read
  <2>2. Steady(e) /\ (\A y \in Ports : Fit(e, y)) /\ Ready(e.self, p, On(e), e.port[p], None)
    BY SafeFits
  <2>3. Steps(e, r, p, None)
    BY <2>1, <2>2, ReadStep
  <2> HIDE DEF r
  <2> QED BY <1>4, <2>1, <2>3
<1>12. ASSUME NEW s \in Sides, NEW p \in Ports, PortTimeout(s, p), NEW x \in Ports PROVE PortInv(x)'
  <2> DEFINE r == PortExpires(end[s], p)
  <2>1. Becomes(s, r) /\ UNCHANGED <<written, early>>
    BY <1>12 DEF PortTimeout
  <2>2. Steady(end[s]) /\ \A y \in Ports : Fit(end[s], y)
    BY SafeFits
  <2>3. \A y \in Ports : PortStep(end[s], r, y, None)
    BY <2>2, PortTimerStep
  <2> HIDE DEF r
  <2> QED BY <2>1, <2>3, <1>2, SafeQuiet
<1>13. ASSUME NEW s \in Sides, NEW p \in Ports, NEW b \in BOOLEAN, RemovePort(s, p, b), NEW x \in Ports
       PROVE  PortInv(x)'
  <2> DEFINE e == end[s]
             r == port_start_close(e, p, b)
  <2>1. /\ Runs(s, r) /\ e.port[p].state \in {"OPENING", "OPENED"}
        /\ IsServer(s, p) /\ ~b => e.port[p].state = "OPENED"
    BY <1>13 DEF RemovePort
  <2>2. Steady(e) /\ e.self = s /\ \A y \in Ports : Fit(e, y)
    BY SafeFits
  <2>3. Steps(e, r, p, None)
    BY <2>1, <2>2, RemoveStep
  <2> HIDE DEF r
  <2> QED BY <1>4, <2>1, <2>3
<1>14. ASSUME NEW s \in Sides, NEW p \in Ports, NEW b \in BOOLEAN, SecurityAnswers(s, p, b), NEW x \in Ports
       PROVE  PortInv(x)'
  <2> DEFINE e == end[s]
             r == rfc_sec_check_complete(e, p, b)
  <2>1. Runs(s, r) /\ e.port[p].rfc \in {"ORIG_WAIT_SEC_CHECK", "TERM_WAIT_SEC_CHECK"}
    BY <1>14 DEF SecurityAnswers
  <2>2. Steady(e) /\ (\A y \in Ports : Fit(e, y)) /\ Ready(e.self, p, On(e), e.port[p], None)
    BY SafeFits
  <2>3. Steps(e, r, p, None)
    BY <2>1, <2>2, SecurityStep
  <2> HIDE DEF r
  <2> QED BY <1>4, <2>1, <2>3
<1>15. ASSUME NEW s \in Sides, NEW p \in Ports, NEW b \in BOOLEAN, PORT_FlowControl(s, p, b), NEW x \in Ports
       PROVE  PortInv(x)'
  <2> DEFINE e == end[s]
             c == [e EXCEPT !.port[p].user_fc = ~b]
             r == IF b THEN port_flow_control_peer(c, p, 0) ELSE c
  <2>1. Becomes(s, r) /\ UNCHANGED <<written, early>> /\ e.port[p].state = "OPENED"
    BY <1>15 DEF PORT_FlowControl
  <2>2. Steady(e) /\ (\A y \in Ports : Fit(e, y)) /\ Ready(e.self, p, On(e), e.port[p], None)
    BY SafeFits
  <2>3. Steps(e, r, p, None)
    BY <2>1, <2>2, HoldStep
  <2> HIDE DEF r
  <2>4. \A y \in Ports : PortStep(e, r, y, None)
    BY <2>3 DEF Steps
  <2> QED BY <2>1, <2>4, <1>2, SafeQuiet
<1> QED BY <1>3, <1>5, <1>6, <1>7, <1>8, <1>9, <1>10, <1>11, <1>12, <1>13, <1>14, <1>15 DEF Next

-----------------------------------------------------------------------------
(* What an application finds in an open port *)

LEMMA ComingToward ==
  ASSUME TypeInv, NEW s \in Sides, NEW p \in Ports
  PROVE  LET data == Coming(s, p, {"DATA"})
         IN /\ CreditsComing(s, p) = Owed(Toward(s, p))
            /\ [i \in DOMAIN data |-> data[i].d] = Bufs(Toward(s, p))
            /\ Len(data) = Len(Bufs(Toward(s, p)))
<1> DEFINE pipe == Pipe(s)
           data == Coming(s, p, {"DATA"})
<1>1. pipe \in Seq(Frames)
  <2>1. wire[s] \in Seq(Frames) /\ end[Peer(s)].cmd_q \in Seq(Frames)
    BY SideFacts, EndsSteady DEF Steady, Ends
  <2> QED BY <2>1 DEF Pipe
<1>2. /\ Of(p) \cap Grants = {f \in Frames : f.p = p /\ f.t \in {"DATA", "CREDIT"}}
      /\ Of(p) \cap Loads = {f \in Frames : f.p = p /\ f.t \in {"DATA"}}
  BY DEF Of, Grants, Loads
<1> HIDE DEF pipe
<1>3. /\ Only(Toward(s, p), Grants) = Coming(s, p, {"DATA", "CREDIT"})
      /\ Only(Toward(s, p), Loads) = data
  <2>1. /\ Only(Only(pipe, Of(p)), Grants) = Only(pipe, Of(p) \cap Grants)
        /\ Only(Only(pipe, Of(p)), Loads) = Only(pipe, Of(p) \cap Loads)
    BY <1>1, OnlyOnly
  <2> QED BY <1>2, <2>1 DEF Coming, Toward, pipe
<1>4. data \in Seq(Frames)
  BY <1>1, OnlyType DEF Coming, pipe
<1> HIDE DEF data
<1>5. Len([i \in DOMAIN data |-> data[i].d]) = Len(data)
  <2>1. DOMAIN data = 1..Len(data) /\ Len(data) \in Nat
    BY <1>4
  <2> QED BY <2>1
<1> QED BY <1>3, <1>5 DEF Owed, Bufs, CreditsComing, data

LEMMA SafeFlow ==
  ASSUME SafeInv, NEW p \in Ports, BothOpened(p)
  PROVE  LET c == Client(p)
             v == Server(p)
         IN FlowInv(end[c].port[p], end[v].port[p], Toward(c, p), Toward(v, p),
                    written[c][p], written[v][p], early[c][p], early[v][p])
<1> DEFINE c == end[Client(p)].port[p]
           v == end[Server(p)].port[p]
<1>1. Client(p) \in Sides /\ Server(p) \in Sides /\ PortInv(p) /\ TypeInv
  BY SideFacts DEF SafeInv
<1>2. c.rfc = "OPENED" /\ v.rfc = "OPENED"
  BY <1>1 DEF BothOpened
<1>3. On(end[Server(p)])
  BY <1>1, <1>2 DEF PortInv, Fit, Quits, Stopping, On
<1>4. Pair(p)
  BY <1>1, <1>3 DEF PortInv
<1> HIDE DEF c, v
<1>5. LinkInv(c, v, Toward(Server(p), p), Toward(Client(p), p), p,
              written[Client(p)][p], written[Server(p)][p], early[Client(p)][p], early[Server(p)][p])
  BY <1>2, <1>4 DEF Pair, PairInv, Live, c, v
<1> QED BY <1>2, <1>5 DEF LinkInv, Asks, Checks, Calls, Talks, Negotiating, c, v

LEMMA SafeConserves ==
  ASSUME SafeInv
  PROVE  CreditsConserved
<1> SUFFICES ASSUME NEW s \in Sides, NEW p \in Ports, BothOpened(p)
             PROVE  end[s].port[p].credit_tx + CreditsComing(s, p)
                      + Len(Coming(Peer(s), p, {"DATA"})) + Len(end[Peer(s)].port[p].rx)
                    = end[Peer(s)].port[p].credit_rx
  BY DEF CreditsConserved
<1> DEFINE o == Peer(s)
<1>1. TypeInv /\ o \in Sides
  BY SideFacts DEF SafeInv
<1>2. CreditsComing(s, p) = Owed(Toward(s, p)) /\ Len(Coming(o, p, {"DATA"})) = Len(Bufs(Toward(o, p)))
  BY <1>1, ComingToward
<1>3. \/ s = Client(p) /\ o = Server(p)
      \/ s = Server(p) /\ o = Client(p)
  BY SideFacts
<1>4. Balance(end[s].port[p].credit_tx, Toward(s, p), Toward(o, p), end[o].port[p].rx, end[o].port[p].credit_rx)
  BY <1>3, SafeFlow DEF FlowInv
<1> QED BY <1>2, <1>4 DEF Balance

LEMMA SafeOrder ==
  ASSUME SafeInv
  PROVE  InOrder
<1> SUFFICES ASSUME NEW s \in Sides, NEW p \in Ports, BothOpened(p)
             PROVE  LET f == Stream(s, p)
                    IN \A i, j \in DOMAIN f : i < j => f[i] < f[j] \/ f[i] \in early[s][p]
  BY DEF InOrder
<1> DEFINE o == Peer(s)
           a == end[o].port[p].rx
           b == Bufs(Toward(o, p))
           c == end[s].port[p].tx
           f == Stream(s, p)
<1>1. TypeInv /\ o \in Sides
  BY SideFacts DEF SafeInv
<1>2. \/ s = Client(p) /\ o = Server(p)
      \/ s = Server(p) /\ o = Client(p)
  BY SideFacts
<1>3. StreamOk(a \o (b \o c), written[s][p], early[s][p])
  BY <1>2, SafeFlow DEF FlowInv
<1>4. a \in Seq(Buffers) /\ b \in Seq(Buffers) /\ c \in Seq(Buffers)
  <2>1. end[s].port[p] \in Port /\ end[o].port[p] \in Port /\ Toward(o, p) \in Seq(Frames)
    BY <1>1, CountTypes
  <2> QED BY <2>1, PortFields, FlowSplit
<1>5. f = (a \o b) \o c
  BY <1>1, ComingToward DEF Stream
<1> HIDE DEF a, b, c, f
<1>6. a \o (b \o c) = (a \o b) \o c
  BY <1>4, ConcatAssociative
<1> QED BY <1>3, <1>5, <1>6 DEF StreamOk, f

LEMMA SafeBusy ==
  ASSUME SafeInv
  PROVE  NoIdleData
BY DEF SafeInv, PortInv, Fit, Idle, NoIdleData

(* The first connection of a port is opened at rest. *)
LEMMA FirstAtRest ==
  ASSUME SafeInv, [Next]_vars, OpenedOnce'
  PROVE  [OnlyAtRest]_vars
<1> SUFFICES ASSUME NEW p \in Ports, used'.opens[p] # used.opens[p]
             PROVE  /\ Rested(end[Server(p)].port[p])
                    /\ Toward(Server(p), p) = <<>> /\ Toward(Client(p), p) = <<>>
  BY DEF OnlyAtRest
<1>1. PICK x \in Ports : RFCOMM_CreateConnection(x)
  BY OpensChange DEF SafeInv
<1>2. used \in UsedType /\ used.opens \in [Ports -> Nat]
  BY RfcommAssumption DEF SafeInv, TypeInv, TypeOK, UsedType
<1>3. used'.opens = [used.opens EXCEPT ![x] = @ + 1]
  BY <1>1, <1>2 DEF RFCOMM_CreateConnection, UsedType
<1>4. used'.opens[p] = used.opens[p] + 1 /\ used'.opens[p] <= 1
  BY <1>2, <1>3 DEF OpenedOnce
<1>5. used.opens[p] = 0
  BY <1>2, <1>4
<1>6. Unopened(p)
  BY <1>5 DEF SafeInv, PortInv
<1> QED BY <1>6, SideFacts DEF Unopened, Bare

(* The inductive invariant of the three theorems. *)
OnceInv == TypeInv /\ (OpenedOnce => SafeInv)

LEMMA OnceInit == Init => OnceInv
BY SafeInit DEF OnceInv, SafeInv

LEMMA OnceStep == OnceInv /\ [Next]_vars => OnceInv'
<1> SUFFICES ASSUME OnceInv, [Next]_vars PROVE OnceInv'
  OBVIOUS
<1>1. TypeInv'
  BY TypeStep DEF OnceInv
<1>2. ASSUME OpenedOnce' PROVE SafeInv'
  <2>1. SafeInv
    BY <1>2, OpensGrow DEF OnceInv
  <2>2. [OnlyAtRest]_vars
    BY <1>2, <2>1, FirstAtRest
  <2> QED BY <2>1, <2>2, SafeStep
<1> QED BY <1>1, <1>2 DEF OnceInv

(* CreditsConserved, as long as no port has been opened twice: whatever the    *)
(* two ends do with a port that is open at both (frames that wait for L2CAP,   *)
(* credits that travel alone or with data, a flow that is stopped, timers that *)
(* expire early, the other ports of the multiplexer closing), no credit that   *)
(* port_rfc_send_tx_data, PORT_DataInd or port_flow_control_peer counts is     *)
(* lost or counted twice.                                                      *)
THEOREM CreditsKept == Spec => [](OpenedOnce => CreditsConserved)
<1>1. OnceInv => (OpenedOnce => CreditsConserved)
  BY SafeConserves DEF OnceInv
<1> QED BY <1>1, OnceInit, OnceStep, PTL DEF Spec

(* InOrder, as long as no port has been opened twice: what port_write hands to *)
(* the peer past the buffers that wait is only what it wrote before the peer   *)
(* confirmed the setup; everything else reaches the application in the order   *)
(* written.                                                                    *)
THEOREM OrderKept == Spec => [](OpenedOnce => InOrder)
<1>1. OnceInv => (OpenedOnce => InOrder)
  BY SafeOrder DEF OnceInv
<1> QED BY <1>1, OnceInit, OnceStep, PTL DEF Spec

(* NoIdleData, as long as no port has been opened twice: port_write,           *)
(* port_rfc_send_tx_data and PORT_FlowInd between them leave no buffer behind  *)
(* that nothing holds up.                                                      *)
THEOREM DataMoves == Spec => [](OpenedOnce => NoIdleData)
<1>1. OnceInv => (OpenedOnce => NoIdleData)
  BY SafeBusy DEF OnceInv
<1> QED BY <1>1, OnceInit, OnceStep, PTL DEF Spec

(* RFCOMM_CreateConnection opens no port for the first time over the remains of *)
(* another connection: until a client opens it, nothing that is written, timed  *)
(* out, removed or sent for the other ports of the multiplexer leaves a frame,  *)
(* a buffer or a control block behind at the port of either end.  So where no   *)
(* client opens a port twice, the three properties hold of every state.         *)
THEOREM FirstConnection ==
  ASSUME MaxOpens <= 1
  PROVE  /\ Spec => [][OnlyAtRest]_vars
         /\ Spec => [](CreditsConserved /\ InOrder /\ NoIdleData)
<1>1. TypeInv => OpenedOnce
  <2> SUFFICES ASSUME TypeInv, NEW p \in Ports PROVE used.opens[p] <= 1
    BY DEF OpenedOnce
  <2>1. used \in UsedType /\ MaxOpens \in Nat
    BY RfcommAssumption DEF TypeInv, TypeOK, UsedType
  <2>2. used.opens[p] \in 0..MaxOpens
    BY <2>1 DEF UsedType
  <2> QED BY <2>1, <2>2
<1>2. OnceInv => SafeInv
  BY <1>1 DEF OnceInv
<1>3. OnceInv /\ [Next]_vars => [OnlyAtRest]_vars
  <2> SUFFICES ASSUME OnceInv, [Next]_vars PROVE [OnlyAtRest]_vars
    OBVIOUS
  <2>1. TypeInv'
    BY OnceStep DEF OnceInv
  <2>2. OpenedOnce'
    BY <1>1, <2>1, PTL
  <2> QED BY <1>2, <2>2, FirstAtRest
<1>4. OnceInv => CreditsConserved /\ InOrder /\ NoIdleData
  BY <1>2, SafeConserves, SafeOrder, SafeBusy
<1>5. Spec => [][OnlyAtRest]_vars
  BY <1>3, OnceInit, OnceStep, PTL DEF Spec
<1>6. Spec => [](CreditsConserved /\ InOrder /\ NoIdleData)
  BY <1>4, OnceInit, OnceStep, PTL DEF Spec
<1> QED BY <1>5, <1>6
=============================================================================
