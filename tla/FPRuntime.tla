----------------------------- MODULE FPRuntime -----------------------------
(***************************************************************************)
(* The Full Flightplan runtime on one hand-over: a dataplane that offloads *)
(* the rest of the computation (the using side), the candidate dataplanes  *)
(* that can serve it, the links between them, and the control program.     *)
(*                                                                         *)
(* Wharf/Sources/FPRuntime.p4 is included by both sides.  The using side   *)
(* numbers what it hands over, asks for an ACK every now and then, and     *)
(* fails over to the next candidate (relink) when too many NAKs arrive or  *)
(* an ACK is overdue.  The serving side sends a NAK for a gap in the       *)
(* numbers and shuts itself down after too many of them.  fpctl.py, the    *)
(* control program, writes the same registers while packets flow.          *)
(*                                                                         *)
(* current_nextseg_state of the using side is OFF or the number of the     *)
(* candidate in use: FPControlData.yml maps state s to the port of         *)
(* candidate s, so candidates are named by their state.                    *)
(***************************************************************************)
EXTENDS Integers, Sequences

CONSTANTS
    SeqMod,       \* 2^SEQ_WIDTH, the number of values of the seqno and counter registers
    NumStates,    \* num_nextseg_states: OFF and one state per candidate
    NakMax,       \* flightplan_pip_nak_count_max, 0 disables
    AckInterval,  \* flightplan_pip_ackreq_interval, 0 disables
    ExceedMax,    \* flightplan_pip_ackreq_interval_exceed_max, 0 disables
    CountFlags,   \* the values fpctl may have given reg_count_ack_relinks before start
    LinkCap,      \* bound: packets in flight on a link, per direction
    MaxLoss       \* bound: packets lost on the link towards each candidate

ASSUME ConstantsAssumption ==
    /\ SeqMod \in Nat /\ SeqMod > 1
    /\ NumStates \in 2..15     \* a cardinality that fits SEGMENT_DESC_SIZE bits
    /\ NakMax \in Nat /\ AckInterval \in Nat /\ ExceedMax \in Nat
    /\ AckInterval + 2 < SeqMod /\ ExceedMax + 2 < SeqMod
    /\ CountFlags \subseteq BOOLEAN
    /\ LinkCap \in Nat /\ MaxLoss \in [1 .. NumStates - 1 -> Nat]

OFF == 0
Idle == NumStates              \* control: no transition_state command is under way

Candidates == 1 .. NumStates - 1
States == 0 .. NumStates - 1
SeqNo == 0 .. SeqMod - 1

\* What the using side hands over, and the responses that come back.  (The
\* packets that come back after the serving side's segment carry no numbers and
\* match no PIP table: they touch no register and are left out.)
Packet == [seqno : SeqNo, syn : BOOLEAN, ack : BOOLEAN]
Answer == {"ack", "nak"}

VARIABLES
    \* registers of the using side
    syn_next, seqno, expecting_ack, seqno_ackreq_sent, nak_count,
    state, drop_outgoing, count_ack_relinks,
    \* registers of each candidate
    srv_seqno, srv_nak_count, srv_state,
    \* the links, the candidates that have crashed, the control program
    fwd, back, crashed, ctl,
    \* history: hand-overs since the last ACK, of whichever candidate, or restart
    \* of the numbering, while reg_count_ack_relinks is clear; packets lost on
    \* each link; NAKs that each candidate has counted, which no Syn resets
    unacked, lost, naks

pip == <<syn_next, seqno, expecting_ack, seqno_ackreq_sent, nak_count,
         unacked>>
flags == <<drop_outgoing, count_ack_relinks>>
srv == <<srv_seqno, srv_nak_count, srv_state, naks>>
vars == <<pip, state, flags, srv, fwd, back, crashed, ctl, lost>>

TypeOK ==
    /\ syn_next \in BOOLEAN /\ expecting_ack \in BOOLEAN
    /\ seqno \in SeqNo /\ seqno_ackreq_sent \in SeqNo
    /\ nak_count \in SeqNo
    /\ state \in States
    /\ drop_outgoing \in BOOLEAN /\ count_ack_relinks \in BOOLEAN
    /\ srv_seqno \in [Candidates -> SeqNo]
    /\ srv_nak_count \in [Candidates -> SeqNo]
    /\ srv_state \in [Candidates -> {OFF, 1}]
    /\ fwd \in [Candidates -> Seq(Packet)]
    /\ back \in [Candidates -> Seq(Answer)]
    /\ crashed \in SUBSET Candidates
    /\ ctl \in States \cup {Idle}
    /\ unacked \in Nat
    /\ lost \in [Candidates -> Nat]
    /\ naks \in [Candidates -> Nat]

-----------------------------------------------------------------------------
(* Arithmetic on bit<SEQ_WIDTH>. *)

Succ(x) == IF x + 1 = SeqMod THEN 0 ELSE x + 1
Sub(x, y) == IF x >= y THEN x - y ELSE x - y + SeqMod

(* Mutant: relink() without the test for OFF_STATE. *)
RelinkedFromOff(s) == IF s + 1 < NumStates THEN s + 1 ELSE OFF

(* The state that relink() leaves in current_nextseg_state. *)
Relinked(s) == IF s # OFF /\ s + 1 < NumStates THEN s + 1 ELSE OFF

(* The registers once update_pip_state() has honoured syn_next. *)
Restart(register, initial) == IF syn_next THEN initial ELSE register
Seqno0 == Restart(seqno, 0)
Expecting0 == Restart(expecting_ack, FALSE)
AckReqSent0 == Restart(seqno_ackreq_sent, 0)
NakCount0 == Restart(nak_count, 0)
Unacked0 == Restart(unacked, 0)

(* What inc_seqno() writes into the header: the wrap-around raises FPSyn. *)
Header(ack) ==
    [seqno |-> Seqno0, syn |-> syn_next \/ Succ(Seqno0) = 0, ack |-> ack]

Overdue ==
    /\ Expecting0
    /\ ExceedMax > 0
    /\ Sub(Seqno0, AckReqSent0) > ExceedMax
AckReqDue ==
    /\ ~Expecting0
    /\ AckInterval > 0
    /\ Sub(Seqno0, AckReqSent0) > AckInterval

-----------------------------------------------------------------------------
(* The using side hands a packet over: update_pip_state() and the rest of  *)
(* FPPostComputation.p4.                                                   *)

(* The packet leaves for the candidate of state s, or is dropped: the link *)
(* is off, the debug flag is set, the candidate is gone, or the link loses *)
(* it.                                                                     *)
Egress(s, p) ==
    \/ /\ \/ s = OFF
          \/ drop_outgoing
          \/ s \in crashed
       /\ UNCHANGED <<fwd, lost>>
    \/ /\ s # OFF /\ ~drop_outgoing /\ s \notin crashed
       /\ Len(fwd[s]) < LinkCap
       /\ fwd' = [fwd EXCEPT ![s] = Append(@, p)]
       /\ UNCHANGED lost
    \/ /\ s # OFF /\ ~drop_outgoing /\ s \notin crashed
       /\ lost[s] < MaxLoss[s]
       /\ lost' = [lost EXCEPT ![s] = @ + 1]
       /\ UNCHANGED fwd

(* inc_seqno() and the registers that honouring syn_next resets. *)
Numbered ==
    /\ syn_next' = FALSE
    /\ seqno' = Succ(Seqno0)
    /\ nak_count' = NakCount0
    /\ unacked' = IF count_ack_relinks THEN 0 ELSE Unacked0 + 1

HandOver(p) ==
    /\ Egress(state, p)
    /\ UNCHANGED <<state, flags, srv, back, crashed, ctl>>

SendPlain ==
    /\ ~Expecting0 /\ ~AckReqDue
    /\ Numbered
    /\ expecting_ack' = FALSE
    /\ seqno_ackreq_sent' = AckReqSent0
    /\ HandOver(Header(FALSE))

SendAckRequest ==
    /\ AckReqDue
    /\ Numbered
    /\ expecting_ack' = TRUE
    /\ seqno_ackreq_sent' = Seqno0
    /\ HandOver(Header(TRUE))

(* Mutant: the request is stamped again each time its flag is raised. *)
SendExpectingRestamps ==
    /\ Expecting0 /\ ~Overdue
    /\ Numbered
    /\ seqno_ackreq_sent' = Seqno0
    /\ HandOver(Header(TRUE))
    /\ UNCHANGED expecting_ack

(* The ACK flag is raised on every packet until the ACK arrives. *)
SendExpecting ==
    /\ Expecting0 /\ ~Overdue
    /\ Numbered
    /\ HandOver(Header(TRUE))
    /\ UNCHANGED <<expecting_ack, seqno_ackreq_sent>>

(* With the debug flag set, the code counts the relink instead, in a debug *)
(* register that nothing reads (left out).                                 *)
SendOverdueCounted ==
    /\ Overdue /\ count_ack_relinks
    /\ Numbered
    /\ HandOver(Header(FALSE))
    /\ UNCHANGED <<expecting_ack, seqno_ackreq_sent>>

(* The ACK is overdue: relink, restart the numbering, and send this packet *)
(* as the first one to the next candidate.                                 *)
SendRelink ==
    /\ Overdue /\ ~count_ack_relinks
    /\ state' = Relinked(state)
    /\ syn_next' = FALSE
    /\ seqno' = 1
    /\ expecting_ack' = FALSE
    /\ seqno_ackreq_sent' = 0
    /\ nak_count' = 0
    /\ unacked' = 1
    /\ Egress(state', [seqno |-> 0, syn |-> TRUE, ack |-> FALSE])
    /\ UNCHANGED <<flags, srv, back, crashed, ctl>>

Send ==
    \/ SendPlain
    \/ SendAckRequest
    \/ SendExpecting
    \/ SendOverdueCounted
    \/ SendRelink

-----------------------------------------------------------------------------
(* Candidate d receives a packet: FPCheckFeedback.p4 with check_seqno()    *)
(* and check_ack(), and the clone that FPRuntimeEgress.p4 turns into a     *)
(* response.                                                               *)

Gap(d, p) == ~p.syn /\ p.seqno # Succ(srv_seqno[d])

ShutsDown(d, p) ==
    /\ Gap(d, p)
    /\ NakMax > 0
    /\ Succ(srv_nak_count[d]) >= NakMax

(* At most one clone leaves, and ACK trumps NAK. *)
Response(d, p) ==
    CASE p.ack                -> <<"ack">>
      [] ~p.ack /\ Gap(d, p)  -> <<"nak">>
      [] ~p.ack /\ ~Gap(d, p) -> << >>

(* The NAKs in the candidate's register, which a Syn resets, and in all.   *)
(* More than MaxLoss[d] + 1 of the latter, which is already more than the  *)
(* link loses, are not told apart.                                         *)
CountNak(d, p) ==
    /\ srv_nak_count' = [srv_nak_count EXCEPT ![d] =
                            CASE p.syn     -> 0
                              [] Gap(d, p) -> Succ(@)
                              [] OTHER     -> @]
    /\ naks' = [naks EXCEPT ![d] = IF Gap(d, p) /\ @ <= MaxLoss[d] THEN @ + 1 ELSE @]
    /\ srv_state' = [srv_state EXCEPT ![d] = IF ShutsDown(d, p) THEN OFF ELSE @]

(* Mutant: after a gap the candidate goes on waiting for the lost packet. *)
CheckSeqnoNoResync(d, p) ==
    /\ srv_seqno' = [srv_seqno EXCEPT ![d] = IF Gap(d, p) THEN @ ELSE p.seqno]
    /\ CountNak(d, p)

CheckSeqno(d, p) ==
    /\ srv_seqno' = [srv_seqno EXCEPT ![d] = p.seqno]
    /\ CountNak(d, p)

(* The link back may lose the response. *)
Reply(d, answers) ==
    \/ /\ Len(back[d]) + Len(answers) <= LinkCap
       /\ back' = [back EXCEPT ![d] = @ \o answers]
    \/ /\ answers # << >>
       /\ UNCHANGED back

TakeFwd(d) ==
    /\ d \notin crashed
    /\ fwd[d] # << >>
    /\ fwd' = [fwd EXCEPT ![d] = Tail(@)]
    /\ UNCHANGED <<pip, state, flags, crashed, ctl, lost>>

(* Mutant: a candidate that has shut itself down still answers requests. *)
ServeOffAnswers(d) ==
    /\ TakeFwd(d)
    /\ srv_state[d] = OFF
    /\ Reply(d, IF Head(fwd[d]).ack THEN <<"ack">> ELSE << >>)
    /\ UNCHANGED srv

ServeOff(d) ==
    /\ TakeFwd(d)
    /\ srv_state[d] = OFF
    /\ UNCHANGED <<srv, back>>

Serve(d) ==
    LET p == Head(fwd[d]) IN
    /\ TakeFwd(d)
    /\ srv_state[d] # OFF
    /\ CheckSeqno(d, p)
    /\ Reply(d, Response(d, p))

-----------------------------------------------------------------------------
(* The using side receives from candidate d: FPCheckFeedback.p4 with       *)
(* check_nak() and check_ack().                                            *)

TakeBack(d, m) ==
    /\ back[d] # << >>
    /\ Head(back[d]) = m
    /\ back' = [back EXCEPT ![d] = Tail(@)]
    /\ UNCHANGED <<flags, srv, fwd, crashed, ctl, lost>>

ReceiveOff(d) ==
    /\ state = OFF
    /\ \E m \in Answer : TakeBack(d, m)
    /\ UNCHANGED <<pip, state>>

ReceiveNak(d) ==
    /\ state # OFF
    /\ TakeBack(d, "nak")
    /\ nak_count' = Succ(nak_count)
    /\ ~(NakMax > 0 /\ Succ(nak_count) >= NakMax)
    /\ UNCHANGED <<state, syn_next, seqno, expecting_ack, seqno_ackreq_sent, unacked>>

ReceiveNakRelink(d) ==
    /\ state # OFF
    /\ TakeBack(d, "nak")
    /\ nak_count' = Succ(nak_count)
    /\ NakMax > 0 /\ Succ(nak_count) >= NakMax
    /\ state' = Relinked(state)
    /\ syn_next' = (syn_next \/ Relinked(state) # OFF)
    /\ UNCHANGED <<seqno, expecting_ack, seqno_ackreq_sent,
                   unacked>>

(* Mutant: an ACK leaves flightplan_pip_seqno_ackreq_sent as it was. *)
ReceiveAckUnstamped(d) ==
    /\ state # OFF
    /\ TakeBack(d, "ack")
    /\ expecting_ack
    /\ expecting_ack' = FALSE
    /\ unacked' = 0
    /\ UNCHANGED <<state, syn_next, seqno, seqno_ackreq_sent, nak_count>>

ReceiveAck(d) ==
    /\ state # OFF
    /\ TakeBack(d, "ack")
    /\ expecting_ack
    /\ expecting_ack' = FALSE
    /\ seqno_ackreq_sent' = seqno
    /\ unacked' = 0
    /\ UNCHANGED <<state, syn_next, seqno, nak_count>>

(* No ACK is expected (any more): the code takes the reply for a request   *)
(* and clones it, to a mirroring session that fpctl configures only on     *)
(* serving sides, so nothing is sent and the packet is dropped.            *)
ReceiveLateAck(d) ==
    /\ state # OFF
    /\ TakeBack(d, "ack")
    /\ ~expecting_ack
    /\ UNCHANGED <<pip, state>>

Receive(d) ==
    \/ ReceiveOff(d)
    \/ ReceiveNak(d)
    \/ ReceiveNakRelink(d)
    \/ ReceiveAck(d)
    \/ ReceiveLateAck(d)

-----------------------------------------------------------------------------
(* The control program and the environment. *)

(* A candidate stops for good, with what was on its way to it. *)
Crash(d) ==
    /\ crashed' = crashed \cup {d}
    /\ fwd' = [fwd EXCEPT ![d] = << >>]
    /\ UNCHANGED <<pip, state, flags, srv, back, ctl, lost>>

(* fpctl start and stop, one switch at a time. *)
SetState(v) ==
    /\ state' = v
    /\ UNCHANGED <<pip, flags, srv, fwd, back, crashed, ctl, lost>>

SetSrvState(d, v) ==
    /\ srv_state' = [srv_state EXCEPT ![d] = v]
    /\ UNCHANGED <<pip, state, flags, srv_seqno, srv_nak_count, naks, fwd, back,
                   crashed, ctl, lost>>

(* fpctl transition_state reads the state with one command and writes its  *)
(* successor in state_sequence with another; the last one's is OFF.        *)
TransitionRead ==
    /\ ctl = Idle
    /\ ctl' = state
    /\ UNCHANGED <<pip, state, flags, srv, fwd, back, crashed, lost>>

(* Mutant: transition_state compares with the number of states off by one. *)
TransitionPastLast ==
    /\ ctl # Idle
    /\ state' = IF ctl + 1 <= NumStates THEN ctl + 1 ELSE OFF
    /\ ctl' = Idle
    /\ UNCHANGED <<pip, flags, srv, fwd, back, crashed, lost>>

TransitionWrite ==
    /\ ctl # Idle
    /\ state' = IF ctl + 1 < NumStates THEN ctl + 1 ELSE OFF
    /\ ctl' = Idle
    /\ UNCHANGED <<pip, flags, srv, fwd, back, crashed, lost>>

(* fpctl set_drop_outgoing and unset_drop_outgoing. *)
SetDropOutgoing(v) ==
    /\ drop_outgoing' = v
    /\ UNCHANGED <<pip, state, count_ack_relinks, srv, fwd, back, crashed, ctl,
                   lost>>

(* fpctl set_count_ack_relinks and unset_count_ack_relinks. *)
SetCountAckRelinks(v) ==
    /\ count_ack_relinks' = v
    /\ unacked' = IF v THEN 0 ELSE unacked
    /\ UNCHANGED <<syn_next, seqno, expecting_ack, seqno_ackreq_sent, nak_count,
                   state, drop_outgoing, srv, fwd, back, crashed, ctl, lost>>

-----------------------------------------------------------------------------
(* The registers as fpctl configure_flightplan leaves them, with every     *)
(* link in state v: OFF, or 1 once fpctl start has run on every switch.    *)
Configured(v) ==
    /\ syn_next = TRUE
    /\ seqno = 0 /\ expecting_ack = FALSE /\ seqno_ackreq_sent = 0
    /\ nak_count = 0
    /\ state = v
    /\ drop_outgoing = FALSE
    /\ count_ack_relinks \in CountFlags
    /\ srv_seqno = [d \in Candidates |-> 0]
    /\ srv_nak_count = [d \in Candidates |-> 0]
    /\ srv_state = [d \in Candidates |-> v]
    /\ fwd = [d \in Candidates |-> << >>]
    /\ back = [d \in Candidates |-> << >>]
    /\ crashed = {}
    /\ ctl = Idle
    /\ unacked = 0
    /\ lost = [d \in Candidates |-> 0]
    /\ naks = [d \in Candidates |-> 0]

Dataplane ==
    \/ Send
    \/ \E d \in Candidates :
        \/ ServeOff(d)
        \/ Serve(d)
        \/ Receive(d)
        \/ Crash(d)

Control ==
    \/ \E v \in {OFF, 1} :
        \/ SetState(v)
        \/ \E d \in Candidates : SetSrvState(d, v)
    \/ TransitionRead
    \/ TransitionWrite
    \/ \E v \in BOOLEAN : SetDropOutgoing(v) \/ SetCountAckRelinks(v)

Init == Configured(OFF)
Next == Dataplane \/ Control
Spec == Init /\ [][Next]_vars

(* The dataplanes left to themselves after fpctl start. *)
StartedInit == Configured(1)
DataplaneSpec == StartedInit /\ [][Dataplane]_vars

(* Traffic keeps arriving at the using side, and packets that have arrived *)
(* at candidates that have not crashed keep being processed.               *)
FairSpec ==
    /\ DataplaneSpec
    /\ WF_vars(Send)
    /\ WF_vars(\E d \in Candidates : ServeOff(d) \/ Serve(d))

(* The control program only ever moves the link with transition_state. *)
TransitionsSpec ==
    StartedInit /\ [][Dataplane \/ TransitionRead \/ TransitionWrite]_vars

-----------------------------------------------------------------------------
(* Silence is detected in bounded time: whatever the links, the candidates *)
(* and the control program do, the using side never hands over more than   *)
(* AckInterval + ExceedMax + 2 packets in a row without receiving an ACK   *)
(* before update_pip_state() relinks and restarts the numbering.  (An ACK  *)
(* of the candidate before is an ACK to the code; the debug flag           *)
(* reg_count_ack_relinks disables relinks while it is set.)                *)
DetectionBound ==
    AckInterval > 0 /\ ExceedMax > 0 =>
        unacked <= AckInterval + ExceedMax + 2

(* The inductive strengthening of DetectionBound: how far the numbering is *)
(* from flightplan_pip_seqno_ackreq_sent bounds how many packets have been *)
(* handed over since the last ACK, in both of that register's meanings     *)
(* (FPRuntime.p4, line 15), also when the numbers wrap around.  Clearing   *)
(* the debug flag may find the distance at any value: then nothing has     *)
(* been counted yet, and the next packet relinks or starts to count.       *)
Since == Sub(seqno, seqno_ackreq_sent)
AckWindow ==
    /\ count_ack_relinks => unacked = 0
    /\ AckInterval = 0 => ~expecting_ack
    /\ AckInterval > 0 /\ ExceedMax > 0 =>
        IF expecting_ack
        THEN unacked = 0 \/ (Since <= ExceedMax + 1 /\ unacked <= AckInterval + 1 + Since)
        ELSE Since <= AckInterval + 1 /\ unacked <= Since

(* As long as the debug flag is not touched, the distance is exact. *)
ExactWindow ==
    AckInterval > 0 /\ ExceedMax > 0 /\ ~count_ack_relinks =>
        unacked = IF expecting_ack THEN AckInterval + 1 + Since ELSE Since

(* No premature failover: the dataplanes leave a candidate only when as    *)
(* many NAKs as NakMax have been counted, or when no ACK has arrived for   *)
(* exactly the AckInterval + ExceedMax + 2 hand-overs that the two         *)
(* thresholds of update_pip_state() allow; never for the second reason     *)
(* while reg_count_ack_relinks is set.                                     *)
NoPrematureFailover ==
    [][state' # state =>
        \/ NakMax > 0 /\ nak_count' >= NakMax
        \/ /\ ~count_ack_relinks
           /\ unacked = AckInterval + ExceedMax + 2]_vars

(* A NAK stands for a packet that the link lost: a candidate never counts, *)
(* and so never sends, more NAKs in all than packets were lost on the way  *)
(* to it, across relinks and wrap-arounds of the numbering, each of which  *)
(* resets its register.  check_seqno() re-synchs after each gap.           *)
NaksBoundedByLosses ==
    \A d \in Candidates : naks[d] <= lost[d]

(* "Links can be reactived only from the controller": once OFF, the link   *)
(* stays OFF, and so does a candidate that shut itself down, although the  *)
(* registers of the using side keep running.                               *)
OffIsFinal ==
    [][/\ state = OFF => state' = OFF
       /\ \A d \in Candidates : srv_state[d] = OFF => srv_state'[d] = OFF]_vars

(* check_seqno() relies on the using side to relink when it shuts segment  *)
(* processing down, and a crashed candidate can only be noticed from its   *)
(* silence: in both cases the using side leaves it, if need be more than   *)
(* once, until the candidate in use is alive or the link is OFF.  It must  *)
(* poll for ACKs and have traffic, and the debug flag must allow relinks.  *)
DeadInUse == state # OFF /\ (state \in crashed \/ srv_state[state] = OFF)
LeavesDeadCandidate == (~count_ack_relinks /\ DeadInUse) ~> ~DeadInUse

-----------------------------------------------------------------------------
(* What comments in the repository say and the code does not do. *)

(* FPRuntime.p4:17 has nak_count hold "On both serving and using sides of  *)
(* a next_segment, the number of NAKs": the using side would then never    *)
(* count more NAKs against the candidate in use than that candidate sent.  *)
(* (A relink restarts the count with the next packet, hence ~syn_next.)    *)
NakCountsAgree ==
    state # OFF /\ ~syn_next => nak_count <= srv_nak_count[state]

(* FPControlData.yml says of the states of a link that "state transition   *)
(* is always strictly sequential".                                         *)
SequentialTransitions ==
    [][state' # state =>
        state' = IF state + 1 < NumStates THEN state + 1 ELSE OFF]_vars

=============================================================================
