----------------------------- MODULE SduService -----------------------------
(***************************************************************************)
(* What an L2CAP channel in enhanced retransmission mode promises the two  *)
(* applications above it: each direction is a reliable FIFO of SDUs.  A    *)
(* written SDU is received at most once, whole and in order; an SDU is     *)
(* reported complete to its writer only when the peer's application has    *)
(* it; nothing happens at an end that is closed.                           *)
(***************************************************************************)
EXTENDS Naturals, Sequences

CONSTANTS Ends,       \* the two ends of the channel
          Peer(_),    \* the other end
          Msg         \* the SDUs

VARIABLES sent,       \* sent[d]: the SDUs that d's application has written
          rcvd,       \* rcvd[d]: the SDUs handed to d's application
          complete,   \* complete[d]: how many of sent[d] were reported complete
          open        \* open[d]: d has the channel

vars == <<sent, rcvd, complete, open>>

Init ==
    /\ sent = [d \in Ends |-> <<>>]
    /\ rcvd = [d \in Ends |-> <<>>]
    /\ complete = [d \in Ends |-> 0]
    /\ open = [d \in Ends |-> TRUE]

(* The application of d writes one SDU. *)
Write(d) ==
    /\ open[d]
    /\ \E m \in Msg : sent' = [sent EXCEPT ![d] = Append(@, m)]
    /\ UNCHANGED <<rcvd, complete, open>>

(* One received frame may complete several SDUs, which end d then delivers *)
(* in the order of writing, and may acknowledge SDUs of d itself: those    *)
(* the peer's application already has.  The frame may be the last one.     *)
Progress(d) ==
    /\ open[d]
    /\ \E n \in Len(rcvd[d]) .. Len(sent[Peer(d)]) :
           rcvd' = [rcvd EXCEPT ![d] = SubSeq(sent[Peer(d)], 1, n)]
    /\ \E n \in complete[d] .. Len(rcvd[Peer(d)]) :
           complete' = [complete EXCEPT ![d] = n]
    /\ open' \in {open, [open EXCEPT ![d] = FALSE]}
    /\ UNCHANGED sent

Next == \E d \in Ends : Write(d) \/ Progress(d)

Spec == Init /\ [][Next]_vars
=============================================================================
