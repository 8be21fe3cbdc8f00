-------------------------- MODULE FPRuntime_proofs --------------------------
(***************************************************************************)
(* Proofs about FPRuntime, for every width of the sequence numbers, number *)
(* of candidates, threshold, link capacity and number of losses.           *)
(***************************************************************************)
EXTENDS FPRuntime, TLAPS

-----------------------------------------------------------------------------
(* Arithmetic of the registers. *)

(* The successor in bit<SEQ_WIDTH>, as inc_seqno() computes it, is one. *)
LEMMA SuccType == \A x \in SeqNo : Succ(x) \in SeqNo
BY ConstantsAssumption DEF Succ, SeqNo

(* Subtraction in bit<SEQ_WIDTH> stays in range, is 0 only for equal       *)
(* arguments, and grows by one with its first argument until it wraps: the *)
(* test "hdr.fp.seqno - seqno_ackreq_sent > max" counts packets.           *)
LEMMA SubFacts ==
    ASSUME NEW x \in SeqNo, NEW y \in SeqNo
    PROVE  /\ Sub(x, y) \in SeqNo
           /\ Sub(x, x) = 0
           /\ Sub(x, y) + 1 < SeqMod => Sub(Succ(x), y) = Sub(x, y) + 1
           /\ Sub(Succ(x), x) = 1
BY ConstantsAssumption DEF Succ, Sub, SeqNo

(* relink() yields a state that FPControlData.yml knows. *)
LEMMA RelinkedType ==
    ASSUME NEW s \in States
    PROVE  Relinked(s) \in States /\ (Relinked(s) = OFF \/ Relinked(s) \in Candidates)
BY ConstantsAssumption DEF Relinked, States, OFF, Candidates

(* The packet that a dataplane takes from a link, and what it leaves. *)
LEMMA HeadTail ==
    ASSUME NEW S, NEW q \in Seq(S), q # << >>
    PROVE  Head(q) \in S /\ Tail(q) \in Seq(S)
OBVIOUS

-----------------------------------------------------------------------------
(* Type correctness. *)

(* The registers that fpctl configures have their types. *)
LEMMA InitType == ASSUME NEW v \in {OFF, 1}, Configured(v) PROVE TypeOK
<1>1. 0 \in SeqNo /\ v \in States
  BY ConstantsAssumption DEF SeqNo, States, OFF
<1>2. << >> \in Seq(Packet) /\ << >> \in Seq(Answer)
  OBVIOUS
<1>3. drop_outgoing \in BOOLEAN /\ count_ack_relinks \in BOOLEAN
  BY ConstantsAssumption, Zenon DEF Configured
<1>4. /\ srv_seqno \in [Candidates -> SeqNo]
      /\ srv_nak_count \in [Candidates -> SeqNo]
      /\ srv_state \in [Candidates -> {OFF, 1}]
  BY <1>1 DEF Configured
<1>5. fwd \in [Candidates -> Seq(Packet)] /\ back \in [Candidates -> Seq(Answer)]
  BY <1>2, Zenon DEF Configured
<1>6. /\ crashed \in SUBSET Candidates
      /\ ctl \in States \cup {Idle}
      /\ unacked \in Nat
      /\ lost \in [Candidates -> Nat]
      /\ naks \in [Candidates -> Nat]
  BY DEF Configured
<1>7. /\ syn_next \in BOOLEAN /\ expecting_ack \in BOOLEAN
      /\ seqno \in SeqNo /\ seqno_ackreq_sent \in SeqNo
      /\ nak_count \in SeqNo
      /\ state \in States
  BY <1>1 DEF Configured
<1> QED
  BY <1>3, <1>4, <1>5, <1>6, <1>7, Zenon DEF TypeOK

(* inc_seqno() writes a well-formed header. *)
LEMMA HeaderType ==
    ASSUME TypeOK, NEW a \in BOOLEAN PROVE Header(a) \in Packet
<1>1. Seqno0 \in SeqNo
  BY ConstantsAssumption DEF TypeOK, Seqno0, Restart, SeqNo
<1> QED
  BY <1>1 DEF TypeOK, Header, Packet

(* Sending, losing or dropping a packet keeps the links well formed. *)
LEMMA EgressType ==
    ASSUME TypeOK, NEW s \in States, NEW p \in Packet, Egress(s, p)
    PROVE  fwd' \in [Candidates -> Seq(Packet)] /\ lost' \in [Candidates -> Nat]
<1>1. CASE UNCHANGED <<fwd, lost>>
  BY <1>1 DEF TypeOK
<1>2. CASE s # OFF /\ fwd' = [fwd EXCEPT ![s] = Append(@, p)] /\ UNCHANGED lost
  <2>1. s \in Candidates
    BY <1>2, ConstantsAssumption DEF States, Candidates, OFF
  <2>2. fwd[s] \in Seq(Packet)
    BY <2>1 DEF TypeOK
  <2>3. Append(fwd[s], p) \in Seq(Packet)
    BY <2>2
  <2> QED
    BY <1>2, <2>1, <2>3, Zenon DEF TypeOK
<1>3. CASE s # OFF /\ lost' = [lost EXCEPT ![s] = @ + 1] /\ UNCHANGED fwd
  <2>1. s \in Candidates
    BY <1>3, ConstantsAssumption DEF States, Candidates, OFF
  <2> QED
    BY <1>3, <2>1 DEF TypeOK
<1> QED
  BY <1>1, <1>2, <1>3 DEF Egress

(* The registers keep their types when a packet is numbered. *)
LEMMA NumberedType ==
    ASSUME TypeOK, Numbered
    PROVE  /\ syn_next' \in BOOLEAN
           /\ seqno' \in SeqNo
           /\ nak_count' \in SeqNo
           /\ unacked' \in Nat
<1>1. Seqno0 \in SeqNo /\ NakCount0 \in SeqNo /\ Unacked0 \in Nat
  BY ConstantsAssumption DEF TypeOK, Seqno0, NakCount0, Unacked0, Restart, SeqNo
<1>2. Succ(Seqno0) \in SeqNo
  BY <1>1, SuccType
<1>3. unacked' \in Nat
  BY <1>1 DEF Numbered
<1> QED
  BY <1>1, <1>2, <1>3, Zenon DEF Numbered

(* Each outcome of update_pip_state() keeps the types. *)
LEMMA SendType == ASSUME TypeOK, Send PROVE TypeOK'
<1>0. /\ AckReqSent0 \in SeqNo /\ Seqno0 \in SeqNo
      /\ 0 \in SeqNo /\ 1 \in SeqNo
  BY ConstantsAssumption DEF TypeOK, AckReqSent0, Seqno0, Restart, SeqNo
<1>1. CASE SendPlain
  BY <1>0, <1>1, NumberedType, HeaderType, EgressType
     DEF SendPlain, HandOver, TypeOK, flags, srv
<1>2. CASE SendAckRequest
  BY <1>0, <1>2, NumberedType, HeaderType, EgressType
     DEF SendAckRequest, HandOver, TypeOK, flags, srv
<1>3. CASE SendExpecting
  BY <1>3, NumberedType, HeaderType, EgressType
     DEF SendExpecting, HandOver, TypeOK, flags, srv
<1>4. CASE SendOverdueCounted
  BY <1>4, NumberedType, HeaderType, EgressType
     DEF SendOverdueCounted, HandOver, TypeOK, flags, srv
<1>5. CASE SendRelink
  <2>1. [seqno |-> 0, syn |-> TRUE, ack |-> FALSE] \in Packet
    BY <1>0 DEF Packet
  <2>2. state' \in States
    BY <1>5, RelinkedType DEF SendRelink, TypeOK
  <2>3. fwd' \in [Candidates -> Seq(Packet)] /\ lost' \in [Candidates -> Nat]
    BY <1>5, <2>1, <2>2, EgressType DEF SendRelink
  <2> QED
    BY <1>0, <1>5, <2>2, <2>3 DEF SendRelink, TypeOK, flags, srv
<1> QED
  BY <1>1, <1>2, <1>3, <1>4, <1>5 DEF Send

(* check_seqno() and the response of a candidate keep the types. *)
LEMMA ServeType ==
    ASSUME TypeOK, NEW d \in Candidates, ServeOff(d) \/ Serve(d) PROVE TypeOK'
<1>1. CASE ServeOff(d)
  BY <1>1 DEF ServeOff, TakeFwd, TypeOK, pip, flags, srv
<1>2. CASE Serve(d)
  <2> DEFINE p == Head(fwd[d])
  <2>1. p \in Packet /\ p.seqno \in SeqNo
    <3>1. fwd[d] \in Seq(Packet) /\ fwd[d] # << >>
      BY <1>2 DEF Serve, TakeFwd, TypeOK
    <3>2. p \in Packet
      BY <3>1, HeadTail
    <3> QED
      BY <3>2 DEF Packet
  <2>2. Succ(srv_nak_count[d]) \in SeqNo /\ 0 \in SeqNo
    BY SuccType, ConstantsAssumption DEF TypeOK, SeqNo
  <2>3. Response(d, p) \in Seq(Answer)
    <3>1. /\ <<"ack">> \in Seq(Answer) /\ <<"nak">> \in Seq(Answer)
          /\ << >> \in Seq(Answer)
      BY DEF Answer
    <3>2. Response(d, p) \in {<<"ack">>, <<"nak">>, << >>}
      <4>1. CASE p.ack
        BY <4>1, Zenon DEF Response
      <4>2. CASE ~p.ack /\ Gap(d, p)
        BY <4>2, Zenon DEF Response
      <4>3. CASE ~p.ack /\ ~Gap(d, p)
        BY <4>3, Zenon DEF Response
      <4> QED
        BY <4>1, <4>2, <4>3, Zenon
    <3> QED
      BY <3>1, <3>2, Zenon
  <2>4. back' \in [Candidates -> Seq(Answer)]
    <3>1. back[d] \in Seq(Answer)
      BY DEF TypeOK
    <3>2. back[d] \o Response(d, p) \in Seq(Answer)
      BY <2>3, <3>1
    <3>3. \/ back' = [back EXCEPT ![d] = back[d] \o Response(d, p)]
          \/ back' = back
      BY <1>2, Zenon DEF Serve, Reply
    <3> QED
      BY <3>2, <3>3, Zenon DEF TypeOK
  <2>5. /\ srv_seqno' \in [Candidates -> SeqNo]
        /\ srv_nak_count' \in [Candidates -> SeqNo]
        /\ srv_state' \in [Candidates -> {OFF, 1}]
        /\ naks' \in [Candidates -> Nat]
    BY <1>2, <2>1, <2>2 DEF Serve, CheckSeqno, CountNak, TypeOK
  <2>6. fwd' \in [Candidates -> Seq(Packet)]
    BY <1>2 DEF Serve, TakeFwd, TypeOK
  <2> QED
    BY <1>2, <2>4, <2>5, <2>6 DEF Serve, TakeFwd, TypeOK, pip, flags
<1> QED
  BY <1>1, <1>2

(* check_nak() and check_ack() of the using side keep the types. *)
LEMMA ReceiveType ==
    ASSUME TypeOK, NEW d \in Candidates, Receive(d) PROVE TypeOK'
<1>1. ASSUME NEW m \in Answer, TakeBack(d, m)
      PROVE  back' \in [Candidates -> Seq(Answer)]
  BY <1>1 DEF TakeBack, TypeOK
<1>2. "ack" \in Answer /\ "nak" \in Answer
  BY DEF Answer
<1>3. CASE ReceiveOff(d)
  BY <1>1, <1>3 DEF ReceiveOff, TakeBack, TypeOK, pip, flags, srv
<1>4. CASE ReceiveNak(d)
  BY <1>1, <1>2, <1>4, SuccType DEF ReceiveNak, TakeBack, TypeOK, flags, srv
<1>5. CASE ReceiveNakRelink(d)
  BY <1>1, <1>2, <1>5, SuccType, RelinkedType
     DEF ReceiveNakRelink, TakeBack, TypeOK, flags, srv
<1>6. CASE ReceiveAck(d)
  BY <1>1, <1>2, <1>6 DEF ReceiveAck, TakeBack, TypeOK, flags, srv
<1>7. CASE ReceiveLateAck(d)
  BY <1>1, <1>2, <1>7 DEF ReceiveLateAck, TakeBack, TypeOK, pip, flags, srv
<1> QED
  BY <1>3, <1>4, <1>5, <1>6, <1>7 DEF Receive

(* A crash of a candidate keeps the types. *)
LEMMA CrashType ==
    ASSUME TypeOK, NEW d \in Candidates, Crash(d) PROVE TypeOK'
BY DEF Crash, TypeOK, pip, flags, srv

(* The commands of fpctl keep the types. *)
LEMMA ControlType == ASSUME TypeOK, Control PROVE TypeOK'
<1>1. ASSUME NEW v \in {OFF, 1}, SetState(v) PROVE TypeOK'
  BY <1>1, ConstantsAssumption
     DEF SetState, TypeOK, pip, flags, srv, OFF, States
<1>2. ASSUME NEW v \in {OFF, 1}, NEW d \in Candidates, SetSrvState(d, v)
      PROVE  TypeOK'
  BY <1>2 DEF SetSrvState, TypeOK, pip, flags
<1>3. CASE TransitionRead
  BY <1>3 DEF TransitionRead, TypeOK, pip, flags, srv
<1>4. CASE TransitionWrite
  BY <1>4, ConstantsAssumption
     DEF TransitionWrite, TypeOK, pip, flags, srv, OFF, States, Idle
<1>5. ASSUME NEW v \in BOOLEAN, SetDropOutgoing(v) PROVE TypeOK'
  BY <1>5 DEF SetDropOutgoing, TypeOK, pip, srv
<1>6. ASSUME NEW v \in BOOLEAN, SetCountAckRelinks(v) PROVE TypeOK'
  BY <1>6 DEF SetCountAckRelinks, TypeOK, srv
<1> QED
  BY <1>1, <1>2, <1>3, <1>4, <1>5, <1>6 DEF Control

(* Every step of the dataplanes keeps the types. *)
LEMMA DataplaneType == ASSUME TypeOK, Dataplane PROVE TypeOK'
BY SendType, ServeType, ReceiveType, CrashType DEF Dataplane

(* So does a step that changes nothing. *)
LEMMA StutterType == ASSUME TypeOK, UNCHANGED vars PROVE TypeOK'
BY DEF TypeOK, vars, pip, flags, srv

(* Whatever the dataplanes and the control program do, every register      *)
(* keeps a value of its width, every link state is one that                *)
(* FPControlData.yml knows and every packet on a link is well formed.      *)
THEOREM TypeCorrect == Spec => []TypeOK
<1>1. Init => TypeOK
  BY InitType DEF Init
<1>2. TypeOK /\ [Next]_vars => TypeOK'
  BY DataplaneType, ControlType, StutterType DEF Next
<1> QED
  BY <1>1, <1>2, PTL DEF Spec

-----------------------------------------------------------------------------
(* Failure detection.  The inductive invariant is TypeOK /\ AckWindow, and *)
(* ExactWindow on top of it for the dataplanes left to themselves.         *)

(* Neither reads another variable. *)
window == <<seqno, expecting_ack, seqno_ackreq_sent, count_ack_relinks, unacked>>

(* A step that leaves the registers of the window alone keeps both. *)
LEMMA WindowUnchanged ==
    ASSUME UNCHANGED window
    PROVE  (AckWindow => AckWindow') /\ (ExactWindow => ExactWindow')
BY DEF AckWindow, ExactWindow, Since, window

(* The distance that update_pip_state() compares with its thresholds. *)
Since0 == Sub(Seqno0, AckReqSent0)

(* Honouring syn_next restarts the window: what the invariants say of the  *)
(* registers holds of the values that update_pip_state() computes with.    *)
LEMMA WindowRestart ==
    ASSUME TypeOK, AckWindow, AckInterval > 0, ExceedMax > 0
    PROVE  /\ Seqno0 \in SeqNo /\ AckReqSent0 \in SeqNo /\ Unacked0 \in Nat
           /\ Since0 \in SeqNo
           /\ Expecting0 =>
                /\ ~syn_next /\ expecting_ack
                /\ \/ Unacked0 = 0
                   \/ Since0 <= ExceedMax + 1 /\ Unacked0 <= AckInterval + 1 + Since0
           /\ ~Expecting0 => Since0 <= AckInterval + 1 /\ Unacked0 <= Since0
           /\ ExactWindow /\ ~count_ack_relinks =>
                Unacked0 = IF Expecting0 THEN AckInterval + 1 + Since0 ELSE Since0
<1>1. CASE syn_next
  <2>1. /\ Seqno0 = 0 /\ AckReqSent0 = 0 /\ Unacked0 = 0 /\ ~Expecting0
    BY <1>1 DEF Seqno0, AckReqSent0, Unacked0, Expecting0, Restart
  <2>2. 0 \in SeqNo /\ Sub(0, 0) = 0
    BY ConstantsAssumption DEF SeqNo, Sub
  <2> QED
    BY <2>1, <2>2, ConstantsAssumption DEF Since0
<1>2. CASE ~syn_next
  <2>1. /\ Seqno0 = seqno /\ AckReqSent0 = seqno_ackreq_sent
        /\ Unacked0 = unacked /\ Expecting0 = expecting_ack
    BY <1>2 DEF Seqno0, AckReqSent0, Unacked0, Expecting0, Restart
  <2>2. Since0 = Since /\ Since \in SeqNo
    BY <2>1, SubFacts DEF Since0, Since, TypeOK
  <2> QED
    BY <1>2, <2>1, <2>2 DEF TypeOK, AckWindow, ExactWindow
<1> QED
  BY <1>1, <1>2

(* A hand-over moves both ends of the window consistently. *)
LEMMA SendWindow ==
    ASSUME TypeOK, AckWindow, Send
    PROVE  AckWindow' /\ (ExactWindow => ExactWindow')
<1>0. count_ack_relinks' = count_ack_relinks
  BY DEF Send, SendPlain, SendAckRequest, SendExpecting, SendOverdueCounted,
         SendRelink, HandOver, flags
<1>1. AckInterval = 0 => ~expecting_ack'
  <2> SUFFICES ASSUME AckInterval = 0 PROVE ~expecting_ack'
    OBVIOUS
  <2>1. ~expecting_ack /\ ~AckReqDue
    BY DEF AckWindow, AckReqDue
  <2>2. ~Expecting0
    BY <2>1, Zenon DEF Expecting0, Restart
  <2> QED
    BY <2>1, <2>2, Zenon DEF Send, SendPlain, SendAckRequest, SendExpecting,
                             SendOverdueCounted, SendRelink, Overdue
<1>2. count_ack_relinks' => unacked' = 0
  BY <1>0 DEF Send, SendPlain, SendAckRequest, SendExpecting, SendOverdueCounted,
              SendRelink, Numbered
<1>3. CASE ~(AckInterval > 0 /\ ExceedMax > 0)
  BY <1>1, <1>2, <1>3 DEF AckWindow, ExactWindow
<1>4. CASE AckInterval > 0 /\ ExceedMax > 0
  <2>0. /\ Seqno0 \in SeqNo /\ AckReqSent0 \in SeqNo /\ Unacked0 \in Nat
        /\ Since0 \in SeqNo
        /\ Since0 + 1 < SeqMod => Sub(Succ(Seqno0), AckReqSent0) = Since0 + 1
        /\ Sub(Succ(Seqno0), Seqno0) = 1
    BY <1>4, WindowRestart, SubFacts DEF Since0
  <2> SUFFICES /\ IF expecting_ack'
                  THEN unacked' = 0 \/ (/\ Since' <= ExceedMax + 1
                                        /\ unacked' <= AckInterval + 1 + Since')
                  ELSE Since' <= AckInterval + 1 /\ unacked' <= Since'
               /\ ExactWindow /\ ~count_ack_relinks =>
                    unacked' = IF expecting_ack' THEN AckInterval + 1 + Since' ELSE Since'
    BY <1>0, <1>1, <1>2 DEF AckWindow, ExactWindow
  <2>1. CASE SendPlain
    <3>1. /\ Since0 <= AckInterval /\ Unacked0 <= Since0 /\ ~Expecting0
          /\ ExactWindow /\ ~count_ack_relinks => Unacked0 = Since0
      BY <1>4, <2>0, <2>1, WindowRestart, ConstantsAssumption
         DEF SendPlain, AckReqDue, SeqNo, Since0
    <3>2. seqno' = Succ(Seqno0) /\ seqno_ackreq_sent' = AckReqSent0 /\ ~expecting_ack'
          /\ unacked' = IF count_ack_relinks THEN 0 ELSE Unacked0 + 1
      BY <2>1 DEF SendPlain, Numbered
    <3>3. Since' = Since0 + 1
      BY <2>0, <3>1, <3>2, ConstantsAssumption DEF Since, SeqNo
    <3> QED
      BY <2>0, <3>1, <3>2, <3>3, ConstantsAssumption DEF SeqNo
  <2>2. CASE SendAckRequest
    <3>1. /\ Since0 = AckInterval + 1 /\ Unacked0 <= Since0
          /\ ExactWindow /\ ~count_ack_relinks => Unacked0 = Since0
      BY <1>4, <2>0, <2>2, WindowRestart, ConstantsAssumption
         DEF SendAckRequest, AckReqDue, SeqNo, Since0
    <3>2. seqno' = Succ(Seqno0) /\ seqno_ackreq_sent' = Seqno0 /\ expecting_ack'
          /\ unacked' = IF count_ack_relinks THEN 0 ELSE Unacked0 + 1
      BY <2>2 DEF SendAckRequest, Numbered
    <3>3. Since' = 1
      BY <2>0, <3>2 DEF Since
    <3> QED
      BY <1>4, <2>0, <3>1, <3>2, <3>3, ConstantsAssumption
  <2>3. CASE SendExpecting
    <3>1. /\ Since0 <= ExceedMax
          /\ Unacked0 = 0 \/ Unacked0 <= AckInterval + 1 + Since0
          /\ ~syn_next /\ expecting_ack
          /\ ExactWindow /\ ~count_ack_relinks => Unacked0 = AckInterval + 1 + Since0
      BY <1>4, <2>0, <2>3, WindowRestart, ConstantsAssumption
         DEF SendExpecting, Overdue, SeqNo, Since0
    <3>2. AckReqSent0 = seqno_ackreq_sent
      BY <3>1 DEF AckReqSent0, Restart
    <3>3. seqno' = Succ(Seqno0) /\ seqno_ackreq_sent' = AckReqSent0 /\ expecting_ack'
          /\ unacked' = IF count_ack_relinks THEN 0 ELSE Unacked0 + 1
      BY <2>3, <3>1, <3>2 DEF SendExpecting, Numbered
    <3>4. Since' = Since0 + 1
      BY <2>0, <3>1, <3>3, ConstantsAssumption DEF Since, SeqNo
    <3> QED
      BY <1>4, <2>0, <3>1, <3>3, <3>4, ConstantsAssumption DEF SeqNo
  <2>4. CASE SendOverdueCounted
    BY <1>0, <1>2, <2>4 DEF SendOverdueCounted, Overdue, Expecting0, Restart
  <2>5. CASE SendRelink
    <3>1. Sub(1, 0) = 1
      BY ConstantsAssumption DEF Sub
    <3> QED
      BY <1>4, <2>5, <3>1, ConstantsAssumption DEF SendRelink, Since
  <2> QED
    BY <2>1, <2>2, <2>3, <2>4, <2>5 DEF Send
<1> QED
  BY <1>3, <1>4

(* An ACK closes the window at the current number. *)
LEMMA ReceiveAckWindow ==
    ASSUME TypeOK, NEW d \in Candidates, ReceiveAck(d)
    PROVE  AckWindow' /\ ExactWindow'
<1>1. /\ ~expecting_ack' /\ seqno' = seqno /\ seqno_ackreq_sent' = seqno
      /\ unacked' = 0
  BY DEF ReceiveAck
<1>2. Since' = 0
  BY <1>1, SubFacts DEF TypeOK, Since
<1> QED
  BY <1>1, <1>2, ConstantsAssumption DEF AckWindow, ExactWindow

(* The dataplanes preserve both. *)
LEMMA DataplaneWindow ==
    ASSUME TypeOK, AckWindow, Dataplane
    PROVE  AckWindow' /\ (ExactWindow => ExactWindow')
<1>1. CASE Send
  BY <1>1, SendWindow
<1>2. ASSUME NEW d \in Candidates,
             ServeOff(d) \/ Serve(d) \/ Receive(d) \/ Crash(d)
      PROVE  AckWindow' /\ (ExactWindow => ExactWindow')
  <2>1. CASE ReceiveAck(d)
    BY <2>1, ReceiveAckWindow
  <2>2. CASE ~ReceiveAck(d)
    <3>1. UNCHANGED window
      BY <1>2, <2>2
         DEF ServeOff, Serve, TakeFwd, Receive, ReceiveOff, ReceiveNak,
             ReceiveNakRelink, ReceiveLateAck, TakeBack, Crash, window, pip, flags
    <3> QED
      BY <3>1, WindowUnchanged
  <2> QED
    BY <2>1, <2>2
<1> QED
  BY <1>1, <1>2 DEF Dataplane

(* fpctl preserves AckWindow: a debug flag that is set at any moment stops *)
(* the count of packets, and one that is cleared restarts it at none.      *)
LEMMA ControlWindow == ASSUME TypeOK, AckWindow, Control PROVE AckWindow'
<1>1. ASSUME NEW v \in BOOLEAN, SetCountAckRelinks(v) PROVE AckWindow'
  <2>1. /\ seqno' = seqno /\ seqno_ackreq_sent' = seqno_ackreq_sent
        /\ expecting_ack' = expecting_ack /\ count_ack_relinks' = v
        /\ unacked' = IF v THEN 0 ELSE unacked
    BY <1>1 DEF SetCountAckRelinks
  <2>2. Since' = Since /\ Since \in SeqNo
    BY <2>1, SubFacts DEF Since, TypeOK
  <2>3. CASE v
    <3>1. unacked' = 0
      BY <2>1, <2>3
    <3>2. unacked' <= Since'
      BY <2>2, <3>1, ConstantsAssumption DEF SeqNo
    <3> QED
      BY <2>1, <2>2, <3>1, <3>2 DEF AckWindow
  <2>4. CASE ~v
    <3>1. unacked' = unacked /\ ~count_ack_relinks'
      BY <2>1, <2>4
    <3> QED
      BY <2>1, <2>2, <3>1 DEF AckWindow
  <2> QED
    BY <2>3, <2>4
<1>2. CASE UNCHANGED window
  BY <1>2, WindowUnchanged
<1> QED
  BY <1>1, <1>2 DEF Control, SetState, SetSrvState, TransitionRead, TransitionWrite,
                    SetDropOutgoing, window, pip, flags

(* Both hold of the configured registers. *)
LEMMA InitWindow ==
    ASSUME NEW v \in {OFF, 1}, Configured(v) PROVE AckWindow /\ ExactWindow
<1>1. Since = 0
  BY ConstantsAssumption DEF Configured, Since, Sub
<1> QED
  BY <1>1, ConstantsAssumption DEF Configured, AckWindow, ExactWindow

(* The counter that update_pip_state() compares with its two thresholds    *)
(* bounds the number of packets since the last ACK, whatever the width of  *)
(* the numbers, the thresholds and the interleaving of dataplanes and      *)
(* control.                                                                *)
THEOREM WindowInvariant == Spec => [](TypeOK /\ AckWindow)
<1>1. Init => TypeOK /\ AckWindow
  BY InitType, InitWindow DEF Init
<1>2. TypeOK /\ AckWindow /\ [Next]_vars => (TypeOK /\ AckWindow)'
  <2>1. ASSUME UNCHANGED vars PROVE UNCHANGED window
    BY <2>1 DEF vars, pip, flags, window
  <2> QED
    BY <2>1, DataplaneType, ControlType, StutterType, DataplaneWindow, ControlWindow,
       WindowUnchanged DEF Next
<1> QED
  BY <1>1, <1>2, PTL DEF Spec

(* Without an ACK, the using side never hands over more than AckInterval + *)
(* ExceedMax + 2 packets in a row.                                         *)
THEOREM DetectionIsBounded == Spec => []DetectionBound
<1>1. TypeOK /\ AckWindow => DetectionBound
  <2> SUFFICES ASSUME TypeOK, AckWindow, AckInterval > 0, ExceedMax > 0
               PROVE  unacked <= AckInterval + ExceedMax + 2
    BY DEF DetectionBound
  <2>1. Since \in SeqNo
    BY SubFacts DEF Since, TypeOK
  <2> QED
    BY <2>1, ConstantsAssumption DEF AckWindow, TypeOK, SeqNo
<1> QED
  BY <1>1, WindowInvariant, PTL

-----------------------------------------------------------------------------
(* The dataplanes left to themselves. *)

(* After fpctl start, the dataplanes alone keep the types and the window.  *)
LEMMA StartedInvariant == DataplaneSpec => [](TypeOK /\ AckWindow /\ ExactWindow)
<1>1. StartedInit => TypeOK /\ AckWindow /\ ExactWindow
  BY InitType, InitWindow DEF StartedInit
<1>2. TypeOK /\ AckWindow /\ ExactWindow /\ [Dataplane]_vars
        => (TypeOK /\ AckWindow /\ ExactWindow)'
  <2>1. ASSUME UNCHANGED vars PROVE UNCHANGED window
    BY <2>1 DEF vars, pip, flags, window
  <2> QED
    BY <2>1, DataplaneType, StutterType, DataplaneWindow, WindowUnchanged
<1> QED
  BY <1>1, <1>2, PTL DEF DataplaneSpec

(* update_pip_state() relinks on silence only at the very packet at which  *)
(* both thresholds have been used up.                                      *)
LEMMA OverdueWindow ==
    ASSUME TypeOK, AckWindow, ExactWindow, SendRelink
    PROVE  unacked = AckInterval + ExceedMax + 2
<1>1. Expecting0 /\ ExceedMax > 0 /\ ~count_ack_relinks /\ Since0 > ExceedMax
  BY DEF SendRelink, Overdue, Since0
<1>2. ~syn_next /\ expecting_ack
  BY <1>1 DEF Expecting0, Restart
<1>3. AckInterval > 0
  BY <1>2, ConstantsAssumption DEF AckWindow
<1>4. Unacked0 = unacked
  BY <1>2 DEF Unacked0, Restart
<1>5. Since0 \in SeqNo /\ unacked = AckInterval + 1 + Since0 /\ Since0 <= ExceedMax + 1
  BY <1>1, <1>3, <1>4, WindowRestart, ConstantsAssumption DEF SeqNo
<1> QED
  BY <1>1, <1>5, ConstantsAssumption DEF SeqNo

(* The dataplanes never give a candidate up too early.                     *)
THEOREM FailoverIsNotPremature == DataplaneSpec => NoPrematureFailover
<1>1. TypeOK /\ AckWindow /\ ExactWindow /\ [Dataplane]_vars =>
        [state' # state =>
            \/ NakMax > 0 /\ nak_count' >= NakMax
            \/ /\ ~count_ack_relinks
               /\ unacked = AckInterval + ExceedMax + 2]_vars
  <2> SUFFICES ASSUME TypeOK, AckWindow, ExactWindow, Dataplane, state' # state
               PROVE  \/ NakMax > 0 /\ nak_count' >= NakMax
                      \/ /\ ~count_ack_relinks
                         /\ unacked = AckInterval + ExceedMax + 2
    BY DEF vars
  <2>1. CASE SendRelink
    BY <2>1, OverdueWindow DEF SendRelink
  <2>2. ASSUME NEW d \in Candidates, ReceiveNakRelink(d)
        PROVE  NakMax > 0 /\ nak_count' >= NakMax
    BY <2>2 DEF ReceiveNakRelink
  <2> QED
    BY <2>1, <2>2
       DEF Dataplane, Send, SendPlain, SendAckRequest, SendExpecting,
           SendOverdueCounted, HandOver, ServeOff, Serve, TakeFwd, Receive,
           ReceiveOff, ReceiveNak, ReceiveAck, ReceiveLateAck, Crash
<1> QED
  BY <1>1, StartedInvariant, PTL DEF NoPrematureFailover, DataplaneSpec

(* Only the control program brings a link or a candidate back.             *)
THEOREM OffStaysOff == DataplaneSpec => OffIsFinal
<1>1. TypeOK /\ AckWindow /\ [Dataplane]_vars =>
        [/\ state = OFF => state' = OFF
         /\ \A d \in Candidates : srv_state[d] = OFF => srv_state'[d] = OFF]_vars
  <2> SUFFICES ASSUME TypeOK, Dataplane
               PROVE  /\ state = OFF => state' = OFF
                      /\ \A d \in Candidates :
                            srv_state[d] = OFF => srv_state'[d] = OFF
    BY DEF vars
  <2>1. CASE Send
    <3>1. srv_state' = srv_state /\ (state' = state \/ state' = Relinked(state))
      BY <2>1 DEF Send, SendPlain, SendAckRequest, SendExpecting,
                  SendOverdueCounted, SendRelink, HandOver, srv
    <3> QED
      BY <3>1, Zenon DEF Relinked
  <2>2. ASSUME NEW c \in Candidates, Serve(c)
        PROVE  /\ state = OFF => state' = OFF
               /\ \A d \in Candidates :
                     srv_state[d] = OFF => srv_state'[d] = OFF
    BY <2>2 DEF Serve, TakeFwd, CheckSeqno, CountNak, TypeOK
  <2>3. ASSUME NEW c \in Candidates, ServeOff(c) \/ Receive(c) \/ Crash(c)
        PROVE  /\ state = OFF => state' = OFF
               /\ srv_state' = srv_state
    BY <2>3 DEF ServeOff, TakeFwd, Receive, ReceiveOff, ReceiveNak,
                ReceiveNakRelink, ReceiveAck, ReceiveLateAck, TakeBack, Crash,
                Relinked, srv
  <2> QED
    BY <2>1, <2>2, <2>3 DEF Dataplane
<1> QED
  BY <1>1, StartedInvariant, PTL DEF OffIsFinal, DataplaneSpec

-----------------------------------------------------------------------------
(* NAKs and losses. *)

(* The number that the packets behind those of q should follow on, when    *)
(* the candidate at the end of the link q has last seen r.                 *)
LastSent(q, r) == IF Len(q) = 0 THEN r ELSE q[Len(q)].seqno

(* The candidate will find a gap at the ith packet of q. *)
GapAt(q, r, i) == ~q[i].syn /\ q[i].seqno # Succ(IF i = 1 THEN r ELSE q[i - 1].seqno)

(* With n NAKs counted, the gaps on q will make it at most m: c[i] bounds  *)
(* the count when i packets have arrived.                                  *)
Accounted(q, r, n, m) ==
    \E c \in [0 .. Len(q) -> n .. m] :
        /\ \A i, j \in 0 .. Len(q) : i <= j => c[i] <= c[j]
        /\ \A i \in 1 .. Len(q) : GapAt(q, r, i) => c[i - 1] < c[i]

(* The next packet for candidate d will not follow on the last one. *)
Pending(d) ==
    state = d /\ ~syn_next /\ seqno # Succ(LastSent(fwd[d], srv_seqno[d]))

(* The losses on the link to a candidate that still answers pay for the    *)
(* NAKs that it has counted, for the gaps that are on their way to it, and *)
(* for the one that the next packet will show.                             *)
NaksAccounted ==
    /\ ~drop_outgoing
    /\ \A d \in Candidates \ crashed : srv_state[d] # OFF =>
        Accounted(fwd[d], srv_seqno[d], naks[d],
                  lost[d] - (IF Pending(d) THEN 1 ELSE 0))

(* What is accounted for stays so with more losses, and has been paid. *)
LEMMA AccountedMore ==
    ASSUME NEW q \in Seq(Packet), NEW r, NEW n \in Nat, NEW m \in Int, Accounted(q, r, n, m)
    PROVE  /\ n <= m
           /\ \A l \in Int : m <= l => Accounted(q, r, n, l)
<1>1. PICK c \in [0 .. Len(q) -> n .. m] :
        /\ \A i, j \in 0 .. Len(q) : i <= j => c[i] <= c[j]
        /\ \A i \in 1 .. Len(q) : GapAt(q, r, i) => c[i - 1] < c[i]
  BY DEF Accounted
<1>2. n <= m
  <2>1. 0 \in 0 .. Len(q)
    OBVIOUS
  <2>2. c[0] \in n .. m
    BY <1>1, <2>1
  <2> QED
    BY <2>2
<1>3. ASSUME NEW l \in Int, m <= l PROVE Accounted(q, r, n, l)
  <2>1. c \in [0 .. Len(q) -> n .. l]
    <3>1. \A i \in 0 .. Len(q) : c[i] \in n .. l
      BY <1>1, <1>3
    <3> QED
      BY <1>1, <3>1
  <2> QED
    BY <1>1, <2>1 DEF Accounted
<1> QED
  BY <1>2, <1>3

(* A packet that follows on costs nothing, one that does not costs one. *)
LEMMA AccountedAppend ==
    ASSUME NEW q \in Seq(Packet), NEW r, NEW n \in Nat, NEW m \in Int, NEW l \in Int,
           NEW p \in Packet,
           Accounted(q, r, n, m), m <= l,
           ~p.syn /\ p.seqno # Succ(LastSent(q, r)) => m < l
    PROVE  Accounted(Append(q, p), r, n, l)
<1> DEFINE new == Append(q, p)
<1>1. PICK c \in [0 .. Len(q) -> n .. m] :
        /\ \A i, j \in 0 .. Len(q) : i <= j => c[i] <= c[j]
        /\ \A i \in 1 .. Len(q) : GapAt(q, r, i) => c[i - 1] < c[i]
  BY DEF Accounted
<1>2. PICK N \in Nat : N = Len(q)
  OBVIOUS
<1>3. /\ Len(new) = N + 1 /\ new[N + 1] = p
      /\ \A i \in 1 .. N : new[i] = q[i]
      /\ q = << >> <=> N = 0
  BY <1>2
<1> HIDE DEF new
<1>4. n <= m
  BY AccountedMore
<1> DEFINE e == [i \in 0 .. N + 1 |-> IF i = N + 1 THEN l ELSE c[i]]
<1>5. e \in [0 .. N + 1 -> n .. l]
  <2>1. ASSUME NEW i \in 0 .. N + 1, i # N + 1 PROVE c[i] \in n .. m
    <3>1. i \in 0 .. N
      BY <2>1
    <3> QED
      BY <1>1, <1>2, <3>1
  <2>2. \A i \in 0 .. N + 1 : (IF i = N + 1 THEN l ELSE c[i]) \in n .. l
    BY <1>4, <2>1
  <2> QED
    BY <2>2
<1>6. \A i \in 0 .. N + 1 : e[i] = IF i = N + 1 THEN l ELSE c[i]
  OBVIOUS
<1> HIDE DEF e
<1>7. ASSUME NEW i \in 0 .. N + 1, NEW j \in 0 .. N + 1, i <= j PROVE e[i] <= e[j]
  <2>1. CASE j = N + 1
    <3>1. e[j] = l /\ e[i] \in n .. l
      BY <1>5, <1>6, <2>1
    <3> QED
      BY <3>1
  <2>2. CASE j # N + 1
    <3>1. i \in 0 .. N /\ j \in 0 .. N /\ i # N + 1
      BY <1>7, <2>2
    <3> QED
      BY <1>1, <1>2, <1>6, <1>7, <2>2, <3>1
  <2> QED
    BY <2>1, <2>2
<1>8. ASSUME NEW i \in 1 .. N + 1, GapAt(new, r, i) PROVE e[i - 1] < e[i]
  <2>1. CASE i = N + 1
    <3>1. GapAt(new, r, i) => ~p.syn /\ p.seqno # Succ(LastSent(q, r))
      <4>1. CASE N = 0
        BY <1>3, <2>1, <4>1 DEF GapAt, LastSent
      <4>2. CASE N # 0
        <5>1. i # 1 /\ i - 1 = N /\ N \in 1 .. N
          BY <2>1, <4>2
        <5> QED
          BY <1>2, <1>3, <2>1, <4>2, <5>1 DEF GapAt, LastSent
      <4> QED
        BY <4>1, <4>2
    <3>2. m < l
      BY <1>8, <3>1
    <3>3. i - 1 = N /\ N \in 0 .. N + 1 /\ N # N + 1 /\ N \in 0 .. N
      BY <2>1
    <3>4. e[i] = l /\ e[i - 1] = c[N] /\ c[N] \in n .. m
      BY <1>1, <1>2, <1>6, <2>1, <3>3
    <3> QED
      BY <3>2, <3>4
  <2>2. CASE i # N + 1
    <3>1. /\ i \in 1 .. N /\ i - 1 \in 0 .. N + 1 /\ i - 1 # N + 1 /\ i \in 0 .. N + 1
          /\ i # 1 => i - 1 \in 1 .. N
      BY <2>2
    <3>2. GapAt(q, r, i)
      BY <1>3, <1>8, <3>1 DEF GapAt
    <3>3. c[i - 1] < c[i]
      BY <1>1, <1>2, <3>1, <3>2
    <3> QED
      BY <1>6, <2>2, <3>1, <3>3
  <2> QED
    BY <2>1, <2>2
<1> QED
  BY <1>3, <1>5, <1>7, <1>8 DEF Accounted, new

(* The count that the candidate takes over with the first packet. *)
LEMMA AccountedTail ==
    ASSUME NEW q \in Seq(Packet), q # << >>, NEW r, NEW n \in Nat, NEW m \in Int, NEW k \in Nat,
           Accounted(q, r, n, m),
           IF GapAt(q, r, 1) THEN k <= n + 1 ELSE k <= n
    PROVE  Accounted(Tail(q), q[1].seqno, k, m)
<1> DEFINE new == Tail(q)
<1>1. PICK c \in [0 .. Len(q) -> n .. m] :
        /\ \A i, j \in 0 .. Len(q) : i <= j => c[i] <= c[j]
        /\ \A i \in 1 .. Len(q) : GapAt(q, r, i) => c[i - 1] < c[i]
  BY DEF Accounted
<1>2. PICK N \in Nat : Len(q) = N + 1
  OBVIOUS
<1>3. Len(new) = N /\ \A i \in 1 .. N : new[i] = q[i + 1]
  BY <1>2
<1> HIDE DEF new
<1>4. \A i \in 0 .. N + 1 : c[i] \in n .. m
  BY <1>1, <1>2
<1>5. k <= c[1]
  <2>1. c[0] \in n .. m /\ c[1] \in n .. m /\ 1 \in 1 .. N + 1 /\ 1 - 1 = 0
    BY <1>4
  <2> QED
    BY <1>1, <1>2, <2>1
<1> DEFINE e == [i \in 0 .. N |-> c[i + 1]]
<1>6. e \in [0 .. N -> k .. m]
  <2>1. ASSUME NEW i \in 0 .. N PROVE c[i + 1] \in k .. m
    <3>1. i + 1 \in 0 .. N + 1 /\ 1 \in 0 .. N + 1 /\ 1 <= i + 1
      OBVIOUS
    <3>2. c[1] <= c[i + 1]
      BY <1>1, <1>2, <3>1
    <3> QED
      BY <1>4, <1>5, <3>1, <3>2
  <2> QED
    BY <2>1
<1>7. \A i \in 0 .. N : e[i] = c[i + 1]
  OBVIOUS
<1> HIDE DEF e
<1>8. ASSUME NEW i \in 0 .. N, NEW j \in 0 .. N, i <= j PROVE e[i] <= e[j]
  <2>1. i + 1 \in 0 .. N + 1 /\ j + 1 \in 0 .. N + 1 /\ i + 1 <= j + 1
    BY <1>8
  <2> QED
    BY <1>1, <1>2, <1>7, <2>1
<1>9. ASSUME NEW i \in 1 .. N, GapAt(new, q[1].seqno, i) PROVE e[i - 1] < e[i]
  <2>1. /\ i + 1 \in 1 .. N + 1 /\ i - 1 \in 0 .. N /\ i \in 0 .. N /\ (i - 1) + 1 = i
        /\ (i + 1) - 1 = i /\ i + 1 # 1
        /\ i # 1 => i - 1 \in 1 .. N
    OBVIOUS
  <2>2. GapAt(q, r, i + 1)
    BY <1>3, <1>9, <2>1 DEF GapAt
  <2>3. c[(i + 1) - 1] < c[i + 1]
    BY <1>1, <1>2, <2>1, <2>2
  <2> QED
    BY <1>7, <2>1, <2>3
<1> QED
  BY <1>3, <1>6, <1>8, <1>9 DEF Accounted, new

(* The last packet stays the last one when the first one is taken. *)
LEMMA LastSentTail ==
    ASSUME NEW q \in Seq(Packet), q # << >>, NEW r
    PROVE  LastSent(Tail(q), q[1].seqno) = LastSent(q, r)
<1>1. PICK N \in Nat : Len(q) = N + 1
  OBVIOUS
<1>2. Len(Tail(q)) = N /\ \A i \in 1 .. N : Tail(q)[i] = q[i + 1]
  BY <1>1
<1>3. CASE N = 0
  BY <1>1, <1>2, <1>3 DEF LastSent
<1>4. CASE N # 0
  <2>1. N \in 1 .. N
    BY <1>4
  <2> QED
    BY <1>1, <1>2, <1>4, <2>1 DEF LastSent
<1> QED
  BY <1>3, <1>4

(* A packet is handed over to the candidate of state s, which is then the  *)
(* one in use: the losses pay for it, however it leaves.                   *)
LEMMA EgressAccounted ==
    ASSUME TypeOK, NaksAccounted, NaksBoundedByLosses,
           NEW s \in States, NEW p \in Packet, Egress(s, p),
           state' = s, syn_next' = FALSE, seqno' = Succ(p.seqno),
           UNCHANGED <<srv, crashed, drop_outgoing>>,
           ~p.syn => s = state /\ ~syn_next /\ p.seqno = seqno
    PROVE  NaksAccounted' /\ NaksBoundedByLosses'
<1> DEFINE Cost(d) == IF Pending(d) THEN 1 ELSE 0
           Good(d) == Accounted(fwd[d], srv_seqno[d], naks[d], lost[d] - Cost(d))
<1>1. /\ ~drop_outgoing /\ ~drop_outgoing'
      /\ srv_seqno' = srv_seqno /\ naks' = naks /\ srv_state' = srv_state
      /\ crashed' = crashed
  BY DEF NaksAccounted, srv
<1>2. \A d \in Candidates : /\ fwd[d] \in Seq(Packet) /\ naks[d] \in Nat
                            /\ lost[d] \in Nat /\ srv_seqno[d] \in SeqNo
                            /\ Cost(d) \in 0 .. 1
  BY DEF TypeOK, SeqNo
<1>3. \A d \in Candidates : /\ d # s => fwd'[d] = fwd[d] /\ lost'[d] = lost[d]
                            /\ lost'[d] \in Nat /\ lost[d] <= lost'[d]
  BY DEF Egress, TypeOK
<1>4. NaksBoundedByLosses'
  <2>1. \A d \in Candidates : naks[d] <= lost[d]
    BY DEF NaksBoundedByLosses
  <2>2. ASSUME NEW d \in Candidates PROVE naks'[d] <= lost'[d]
    BY <1>1, <1>2, <1>3, <2>1
  <2> QED
    BY <2>2 DEF NaksBoundedByLosses
<1>5. ASSUME NEW d \in Candidates \ crashed, srv_state[d] # OFF
      PROVE  Accounted(fwd'[d], srv_seqno[d], naks[d],
                       lost'[d] - (IF Pending(d)' THEN 1 ELSE 0))
  <2>1. Good(d)
    BY <1>5 DEF NaksAccounted
  <2>2. CASE d # s
    <3>1. ~Pending(d)' /\ fwd'[d] = fwd[d] /\ lost'[d] = lost[d]
      BY <1>3, <2>2 DEF Pending
    <3>2. /\ lost[d] - Cost(d) \in Int /\ lost[d] - 0 \in Int
          /\ lost[d] - Cost(d) <= lost[d] - 0
      BY <1>2
    <3> HIDE DEF Cost
    <3>3. Accounted(fwd[d], srv_seqno[d], naks[d], lost[d] - 0)
      BY <1>2, <2>1, <3>2, AccountedMore
    <3> QED
      BY <3>1, <3>3
  <2>3. CASE d = s
    <3>1. \/ /\ fwd' = [fwd EXCEPT ![s] = Append(@, p)]
             /\ UNCHANGED lost
          \/ /\ lost' = [lost EXCEPT ![s] = @ + 1]
             /\ UNCHANGED fwd
      BY <1>1, <1>5, <2>3, ConstantsAssumption DEF Egress, Candidates, OFF
    <3>2. CASE fwd' = [fwd EXCEPT ![s] = Append(@, p)] /\ UNCHANGED lost
      <4>1. fwd'[d] = Append(fwd[d], p) /\ lost'[d] = lost[d]
        BY <2>3, <3>2 DEF TypeOK
      <4>2. LastSent(Append(fwd[d], p), srv_seqno[d]) = p.seqno
        BY <1>2 DEF LastSent
      <4>3. ~Pending(d)'
        BY <1>1, <4>1, <4>2 DEF Pending
      <4>4. ~p.syn /\ p.seqno # Succ(LastSent(fwd[d], srv_seqno[d])) => Cost(d) = 1
        BY <2>3 DEF Pending
      <4>5. /\ lost[d] - Cost(d) \in Int /\ lost[d] - 0 \in Int
            /\ lost[d] - Cost(d) <= lost[d] - 0
            /\ ~p.syn /\ p.seqno # Succ(LastSent(fwd[d], srv_seqno[d]))
                  => lost[d] - Cost(d) < lost[d] - 0
        BY <1>2, <4>4
      <4> HIDE DEF Cost
      <4>6. Accounted(Append(fwd[d], p), srv_seqno[d], naks[d], lost[d] - 0)
        BY <1>2, <2>1, <4>5, AccountedAppend
      <4> QED
        BY <4>1, <4>3, <4>6
    <3>3. CASE lost' = [lost EXCEPT ![s] = @ + 1] /\ UNCHANGED fwd
      <4>1. lost'[d] = lost[d] + 1 /\ fwd'[d] = fwd[d]
        BY <2>3, <3>3 DEF TypeOK
      <4>2. PICK l \in Int : l = lost'[d] - (IF Pending(d)' THEN 1 ELSE 0)
        BY <1>2, <4>1
      <4>3. lost[d] - Cost(d) \in Int /\ lost[d] - Cost(d) <= l
        BY <1>2, <4>1, <4>2
      <4> HIDE DEF Cost
      <4>4. Accounted(fwd[d], srv_seqno[d], naks[d], l)
        BY <1>2, <2>1, <4>3, AccountedMore
      <4> QED
        BY <4>1, <4>2, <4>4
    <3> QED
      BY <3>1, <3>2, <3>3
  <2> QED
    BY <2>2, <2>3
<1>6. NaksAccounted'
  BY <1>1, <1>5 DEF NaksAccounted
<1> QED
  BY <1>4, <1>6

(* Sending. *)
LEMMA SendAccounted ==
    ASSUME TypeOK, NaksAccounted, NaksBoundedByLosses, Send
    PROVE  NaksAccounted' /\ NaksBoundedByLosses'
<1>1. ASSUME NEW a \in BOOLEAN, Numbered, HandOver(Header(a))
      PROVE  NaksAccounted' /\ NaksBoundedByLosses'
  <2>1. Header(a) \in Packet
    BY HeaderType
  <2>2. /\ Egress(state, Header(a)) /\ state' = state
        /\ UNCHANGED <<srv, crashed, drop_outgoing>>
    BY <1>1 DEF HandOver, flags
  <2>3. syn_next' = FALSE /\ seqno' = Succ(Header(a).seqno)
    BY <1>1 DEF Numbered, Header
  <2>4. ~Header(a).syn => ~syn_next /\ Header(a).seqno = seqno
    BY DEF Header, Seqno0, Restart
  <2>5. state \in States
    BY DEF TypeOK
  <2> QED
    BY <2>1, <2>2, <2>3, <2>4, <2>5, EgressAccounted
<1>2. CASE SendRelink
  <2> DEFINE p == [seqno |-> 0, syn |-> TRUE, ack |-> FALSE]
  <2>1. p \in Packet /\ Succ(p.seqno) = 1
    BY ConstantsAssumption DEF Packet, SeqNo, Succ
  <2>2. state' \in States
    BY <1>2, RelinkedType DEF SendRelink, TypeOK
  <2>3. PICK s \in States : s = state'
    BY <2>2
  <2>4. Egress(s, p) /\ UNCHANGED <<srv, crashed, drop_outgoing>>
    BY <1>2, <2>3 DEF SendRelink, flags
  <2>5. syn_next' = FALSE /\ seqno' = Succ(p.seqno) /\ p.syn
    BY <1>2, <2>1 DEF SendRelink
  <2> HIDE DEF p
  <2> QED
    BY <2>1, <2>3, <2>4, <2>5, EgressAccounted
<1> QED
  BY <1>1, <1>2 DEF Send, SendPlain, SendAckRequest, SendExpecting, SendOverdueCounted

(* A candidate counts a NAK exactly when it finds a gap. *)
LEMMA ServeAccounted ==
    ASSUME TypeOK, NaksAccounted, NaksBoundedByLosses, NEW c \in Candidates, Serve(c)
    PROVE  NaksAccounted' /\ NaksBoundedByLosses'
<1> DEFINE p == fwd[c][1]
           k == naks'[c]
<1>1. /\ c \notin crashed /\ fwd[c] # << >> /\ srv_state[c] # OFF
      /\ UNCHANGED <<state, syn_next, seqno, drop_outgoing, crashed, lost>>
      /\ fwd' = [fwd EXCEPT ![c] = Tail(@)]
  BY DEF Serve, TakeFwd, pip, flags
<1>2. /\ fwd[c] \in Seq(Packet) /\ Head(fwd[c]) = p /\ p \in Packet
      /\ naks[c] \in Nat /\ srv_seqno[c] \in SeqNo /\ lost[c] \in Nat
  BY <1>1 DEF TypeOK
<1>3. /\ srv_seqno' = [srv_seqno EXCEPT ![c] = p.seqno]
      /\ \E v : naks' = [naks EXCEPT ![c] = v]
      /\ \E v : srv_state' = [srv_state EXCEPT ![c] = v]
  BY <1>2 DEF Serve, CheckSeqno, CountNak
<1>4. \A d \in Candidates : d # c => /\ fwd'[d] = fwd[d] /\ srv_seqno'[d] = srv_seqno[d]
                                     /\ naks'[d] = naks[d]
                                     /\ srv_state'[d] = srv_state[d]
  BY <1>1, <1>3 DEF TypeOK
<1>5. srv_seqno'[c] = p.seqno /\ fwd'[c] = Tail(fwd[c])
  BY <1>1, <1>3 DEF TypeOK
<1>6. k = IF Gap(c, p) /\ naks[c] <= MaxLoss[c] THEN naks[c] + 1 ELSE naks[c]
  BY <1>2 DEF Serve, CheckSeqno, CountNak, TypeOK
<1>7. Gap(c, p) <=> GapAt(fwd[c], srv_seqno[c], 1)
  BY DEF Gap, GapAt
<1>8. k \in Nat /\ IF GapAt(fwd[c], srv_seqno[c], 1) THEN k <= naks[c] + 1
                   ELSE k <= naks[c]
  <2> HIDE DEF k, p
  <2> QED
    BY <1>2, <1>6, <1>7
<1>9. LastSent(Tail(fwd[c]), p.seqno) = LastSent(fwd[c], srv_seqno[c])
  BY <1>1, <1>2, LastSentTail
<1>10. \A d \in Candidates : Pending(d)' <=> Pending(d)
  BY <1>1, <1>4, <1>5, <1>9 DEF Pending
<1>11. PICK l \in Int : l = lost[c] - (IF Pending(c) THEN 1 ELSE 0)
  BY <1>2
<1>12. Accounted(Tail(fwd[c]), p.seqno, k, l)
  <2>1. Accounted(fwd[c], srv_seqno[c], naks[c], l)
    BY <1>1, <1>11 DEF NaksAccounted
  <2> HIDE DEF k
  <2> QED
    BY <1>1, <1>2, <1>8, <2>1, AccountedTail
<1>13. NaksAccounted'
  <2>1. ASSUME NEW d \in Candidates \ crashed, srv_state'[d] # OFF
        PROVE  Accounted(fwd'[d], srv_seqno'[d], naks'[d],
                         lost'[d] - (IF Pending(d)' THEN 1 ELSE 0))
    <3>1. CASE d = c
      BY <1>1, <1>5, <1>10, <1>11, <1>12, <3>1
    <3>2. CASE d # c
      BY <1>1, <1>4, <1>10, <2>1, <3>2 DEF NaksAccounted
    <3> QED
      BY <3>1, <3>2
  <2> QED
    BY <1>1, <2>1 DEF NaksAccounted
<1>14. NaksBoundedByLosses'
  <2>1. k <= l
    <3>1. Tail(fwd[c]) \in Seq(Packet)
      BY <1>1, <1>2
    <3> HIDE DEF k
    <3> QED
      BY <1>8, <1>12, <3>1, AccountedMore
  <2>2. k <= lost'[c]
    BY <1>1, <1>2, <1>8, <1>11, <2>1
  <2> QED
    BY <1>1, <1>4, <2>2 DEF NaksBoundedByLosses
<1> QED
  BY <1>13, <1>14

(* The other steps leave nothing unpaid. *)
LEMMA OtherAccounted ==
    ASSUME TypeOK, NaksAccounted, NaksBoundedByLosses, NEW c \in Candidates,
           ServeOff(c) \/ Receive(c) \/ Crash(c)
    PROVE  NaksAccounted' /\ NaksBoundedByLosses'
<1>1. /\ UNCHANGED <<drop_outgoing, naks, srv_seqno, srv_state, lost>>
      /\ crashed \subseteq crashed'
  BY DEF ServeOff, TakeFwd, Receive, ReceiveOff, ReceiveNak, ReceiveNakRelink, ReceiveAck,
         ReceiveLateAck, TakeBack, Crash, flags, srv
<1>2. \A d \in Candidates : d \notin crashed' /\ srv_state[d] # OFF => fwd'[d] = fwd[d]
  BY DEF ServeOff, TakeFwd, Receive, ReceiveOff, ReceiveNak, ReceiveNakRelink, ReceiveAck,
         ReceiveLateAck, TakeBack, Crash, TypeOK
<1>3. \/ UNCHANGED <<state, syn_next, seqno>>
      \/ state' = OFF
      \/ syn_next' = TRUE
  <2>1. CASE ReceiveNakRelink(c)
    BY <2>1 DEF ReceiveNakRelink, TypeOK
  <2> QED
    BY <2>1 DEF ServeOff, TakeFwd, Receive, ReceiveOff, ReceiveNak, ReceiveAck,
         ReceiveLateAck, Crash, pip
<1>4. ASSUME NEW d \in Candidates \ crashed', srv_state[d] # OFF
      PROVE  Accounted(fwd[d], srv_seqno[d], naks[d],
                       lost[d] - (IF Pending(d)' THEN 1 ELSE 0))
  <2>1. d \in Candidates \ crashed /\ fwd'[d] = fwd[d]
    BY <1>1, <1>2, <1>4
  <2>2. Pending(d)' => Pending(d)
    BY <1>1, <1>3, <2>1 DEF Pending, Candidates, OFF
  <2>3. lost[d] \in Nat /\ fwd[d] \in Seq(Packet) /\ naks[d] \in Nat
    BY DEF TypeOK, SeqNo
  <2>4. PICK m \in Int : m = lost[d] - (IF Pending(d) THEN 1 ELSE 0)
    BY <2>3
  <2>5. PICK l \in Int : l = lost[d] - (IF Pending(d)' THEN 1 ELSE 0)
    BY <2>3
  <2>6. m <= l
    BY <2>2, <2>3, <2>4, <2>5
  <2>7. Accounted(fwd[d], srv_seqno[d], naks[d], m)
    BY <1>4, <2>1, <2>4 DEF NaksAccounted
  <2>8. Accounted(fwd[d], srv_seqno[d], naks[d], l)
    BY <2>3, <2>6, <2>7, AccountedMore
  <2> QED
    BY <2>5, <2>8
<1>5. NaksAccounted'
  BY <1>1, <1>2, <1>4 DEF NaksAccounted
<1>6. NaksBoundedByLosses'
  BY <1>1 DEF NaksBoundedByLosses
<1> QED
  BY <1>5, <1>6

(* As long as the control program leaves the link alone, a candidate never *)
(* counts more NAKs in all than packets were lost on the way to it, for    *)
(* every width of the numbers, however often a Syn of check_seqno() resets *)
(* its register, and whatever is in flight when the using side relinks or  *)
(* the numbers wrap around.                                                *)
THEOREM NaksArePaid == DataplaneSpec => []NaksBoundedByLosses
<1>1. ASSUME StartedInit PROVE NaksAccounted /\ NaksBoundedByLosses
  <2>1. \A d \in Candidates : /\ fwd[d] = << >> /\ naks[d] = 0 /\ lost[d] = 0
                              /\ ~Pending(d)
    BY <1>1 DEF StartedInit, Configured, Pending
  <2>2. ASSUME NEW r PROVE Accounted(<< >>, r, 0, 0 - 0)
    <3> DEFINE c == [i \in 0 .. 0 |-> 0]
    <3>1. Len(<< >>) = 0 /\ 0 - 0 = 0 /\ 1 .. 0 = {}
      OBVIOUS
    <3>2. c \in [0 .. 0 -> 0 .. 0] /\ \A i, j \in 0 .. 0 : i <= j => c[i] <= c[j]
      OBVIOUS
    <3> HIDE DEF c
    <3> QED
      BY <3>1, <3>2 DEF Accounted
  <2>3. ~drop_outgoing
    BY <1>1 DEF StartedInit, Configured
  <2>4. NaksAccounted
    BY <2>1, <2>2, <2>3 DEF NaksAccounted
  <2> QED
    BY <2>1, <2>4 DEF NaksBoundedByLosses
<1>2. ASSUME TypeOK, NaksAccounted, NaksBoundedByLosses, [Dataplane]_vars
      PROVE  NaksAccounted' /\ NaksBoundedByLosses'
  <2>1. CASE UNCHANGED vars
    <3>1. UNCHANGED <<drop_outgoing, crashed, srv_state, srv_seqno, naks, fwd, lost,
                      state, syn_next, seqno>>
      BY <2>1 DEF vars, pip, flags, srv
    <3> QED
      BY <1>2, <3>1 DEF NaksAccounted, NaksBoundedByLosses, Pending
  <2> QED
    BY <1>2, <2>1, SendAccounted, ServeAccounted, OtherAccounted DEF Dataplane
<1> QED
  BY <1>1, <1>2, StartedInvariant, PTL DEF DataplaneSpec
=============================================================================
