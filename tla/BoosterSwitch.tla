--------------------------- MODULE BoosterSwitch ---------------------------
(***************************************************************************)
(* The threads and queues of the software switch that runs the boosters    *)
(* as externs (booster_switch/simple_switch.cpp): one ingress thread, the  *)
(* egress threads, the transmit thread, the thread that receives packets,  *)
(* and the destructor that stops them.                                     *)
(*                                                                         *)
(* The P4 program is external.  It calls Externs externs in order; each    *)
(* may generate packets and may have the program drop the packet.  A       *)
(* generated packet goes back to the ingress thread and enters the program *)
(* at the extern that made it.  What the program decides is left open.     *)
(*                                                                         *)
(* A packet is represented by the number of the arrival that it stems      *)
(* from.  The queues are sequences whose head is taken first.              *)
(***************************************************************************)
EXTENDS Integers, Sequences, FiniteSets, Ordered

CONSTANTS
    NbPorts,
    nb_egress_threads,
    Externs,       \* how many externs the program calls
    InputCap,      \* capacity of each queue of input_buffer
    EgressCap,     \* capacity of a port's queue in egress_buffers
    OutputCap,     \* capacity of output_buffer
    MaxArrivals,   \* bound: packets received
    MaxBacklog,    \* bound: priority_input_buffer, which has no limit
    MaxDetours     \* bound: resubmitted and recirculated packets, egress clones

ASSUME SwitchAssumption ==
    /\ nb_egress_threads \in Nat \ {0} /\ NbPorts \in Nat /\ nb_egress_threads <= NbPorts
    /\ Externs \in Nat /\ MaxArrivals \in Nat /\ MaxBacklog \in Nat /\ MaxDetours \in Nat
    /\ InputCap \in Nat \ {0} /\ EgressCap \in Nat \ {0} /\ OutputCap \in Nat \ {0}

Ports == 0 .. NbPorts - 1                \* each has a queue in egress_buffers
Workers == 0 .. nb_egress_threads - 1

VARIABLES
    queue_lo, queue_hi,     \* input_buffer
    priority_input_buffer,  \* packets generated by the externs
    egress_buffers,         \* for each worker, in the order of arrival
    held,                   \* for each worker, the packet it wants to output
    output_buffer,
    running,                \* the threads that have not ended
    stop,                   \* the sentinels that the destructor has sent
    arrivals, detours

queues == <<queue_lo, queue_hi, priority_input_buffer, egress_buffers, held, output_buffer>>
vars == <<queues, running, stop, arrivals, detours>>

(* entry is the extern that generated the packet, 0 for none; late says    *)
(* that the packet or one it stems from left the ingress thread's hands    *)
(* and came back, or is an egress clone.                                   *)
Packet == [id : 0 .. MaxArrivals, entry : 0 .. Externs, late : BOOLEAN, port : Ports]
nullptr(p) == [id |-> 0, entry |-> 0, late |-> FALSE, port |-> p]
IsNull(pkt) == pkt.id = 0
IngressThread == nb_egress_threads
TransmitThread == nb_egress_threads + 1
Threads == Workers \cup {IngressThread, TransmitThread}

(* What the destructor has yet to do: send sentinels to the ingress        *)
(* thread, to each worker and to the transmit thread, then join.           *)
Idle == 0
SentIngress == 1
SentWorkers == SentIngress + nb_egress_threads
SentTransmit == SentWorkers + 1

TypeOK ==
    /\ queue_lo \in Seq(Packet) /\ Len(queue_lo) <= InputCap
    /\ queue_hi \in Seq(Packet) /\ Len(queue_hi) <= InputCap
    /\ priority_input_buffer \in Seq(Packet) /\ Len(priority_input_buffer) <= MaxBacklog
    /\ egress_buffers \in [Workers -> Seq(Packet)]
    /\ held \in [Workers -> Packet]
    /\ output_buffer \in Seq(Packet) /\ Len(output_buffer) <= OutputCap
    /\ running \subseteq Threads
    /\ stop \in Idle .. SentTransmit
    /\ arrivals \in 0 .. MaxArrivals /\ detours \in 0 .. MaxDetours

Init ==
    /\ queue_lo = << >> /\ queue_hi = << >>
    /\ priority_input_buffer = << >>
    /\ egress_buffers = [w \in Workers |-> << >>]
    /\ held = [w \in Workers |-> nullptr(w)]
    /\ output_buffer = << >>
    /\ running = Threads
    /\ stop = Idle
    /\ arrivals = 0 /\ detours = 0

-----------------------------------------------------------------------------
(* Queues. *)

(* InputBuffer::push_front() of a resubmitted or recirculated packet does  *)
(* not block: the packet is lost when the queue is full.                   *)
\* mutant: it is not
PushHiUnbounded(queue, pkt) == Append(queue, pkt)
PushHi(queue, pkt) == IF Len(queue) = InputCap THEN queue ELSE Append(queue, pkt)

(* EgressThreadMapper *)
WorkerOf(p) == p % nb_egress_threads

(* egress_buffers.push_front() fails when the queue of the port is full. *)
EgressRoom(buffers, p) ==
    LET queue == buffers[WorkerOf(p)] IN
    Cardinality({i \in 1 .. Len(queue) : queue[i].port = p}) < EgressCap

(* A copy of a packet for a port.  From here on, the extern that generated *)
(* it does not matter.                                                     *)
Copy(pkt, p) == [id |-> pkt.id, entry |-> 0, late |-> pkt.late, port |-> p]

(* enqueue(): the packet is lost when there is no room. *)
enqueue(buffers, p, pkt) ==
    IF EgressRoom(buffers, p)
    THEN [buffers EXCEPT ![WorkerOf(p)] = Append(@, Copy(pkt, p))]
    ELSE buffers

(* multicast(), with one copy to every port. *)
multicast(buffers, pkt) ==
    LET to(w) == InOrder({p \in Ports : WorkerOf(p) = w /\ EgressRoom(buffers, p)})
        copies(w) == [n \in 1 .. Len(to(w)) |-> Copy(pkt, to(w)[n])]
    IN  [w \in Workers |-> buffers[w] \o copies(w)]

(* A clone goes to every port, to one port or to both, as the mirroring    *)
(* session says.                                                           *)
Cloned(buffers, pkt) ==
    {multicast(buffers, pkt)} \cup
    {enqueue(b, p, pkt) : b \in {buffers, multicast(buffers, pkt)}, p \in Ports}

-----------------------------------------------------------------------------
(* receive_(): blocks while queue_lo is full. *)

Receive ==
    /\ arrivals < MaxArrivals /\ Len(queue_lo) < InputCap
    /\ arrivals' = arrivals + 1
    /\ queue_lo' = Append(queue_lo, [id |-> arrivals + 1, entry |-> 0, late |-> FALSE, port |-> 0])
    /\ UNCHANGED <<queue_hi, priority_input_buffer, egress_buffers, held, output_buffer,
                   running, stop, detours>>

-----------------------------------------------------------------------------
(* The ingress thread. *)

(* Where it takes the next packet from. *)
\* mutant: generated packets wait for the input buffer to be empty
TakesInputFirst ==
    CASE queue_hi # << >> -> "hi"
      [] queue_hi = << >> /\ queue_lo # << >> -> "lo"
      [] queue_hi = << >> /\ queue_lo = << >> /\ priority_input_buffer # << >> -> "priority"
      [] queue_hi = << >> /\ queue_lo = << >> /\ priority_input_buffer = << >> -> "none"
Takes ==
    CASE priority_input_buffer # << >> -> "priority"
      [] priority_input_buffer = << >> /\ queue_hi # << >> -> "hi"
      [] priority_input_buffer = << >> /\ queue_hi = << >> /\ queue_lo # << >> -> "lo"
      [] priority_input_buffer = << >> /\ queue_hi = << >> /\ queue_lo = << >> -> "none"

Taken ==
    CASE Takes = "priority" -> Head(priority_input_buffer)
      [] Takes = "hi" -> Head(queue_hi)
      [] Takes = "lo" -> Head(queue_lo)

(* Externs let the packets pass that they generated. *)
\* mutant: they do not recognise them
never_generated(pkt, e) == FALSE
is_generated(pkt, e) == pkt.entry = e

(* The externs that process the packet, up to the one after which the      *)
(* program drops it, or all of them.                                       *)
Processing(pkt, end) == {e \in 1 .. Externs : pkt.entry <= e /\ e <= end /\ ~is_generated(pkt, e)}

(* What the externs generate: a packet for each extern of gen.  (One that  *)
(* generates several, as the FEC encoder its parities, stands for several  *)
(* externs in a row: no property counts packets.)                          *)
Generated(pkt, gen) ==
    [n \in 1 .. Cardinality(gen) |-> [pkt EXCEPT !.entry = InOrder(gen)[n]]]

(* The packet is taken from its queue and goes through the program, which  *)
(* drops it after extern end, or keeps it.                                 *)
Apply(pkt, end) ==
    \E gen \in SUBSET Processing(pkt, end) :
        LET rest == IF Takes = "priority" THEN Tail(priority_input_buffer)
                    ELSE priority_input_buffer
        IN  /\ Len(rest) + Cardinality(gen) <= MaxBacklog
            /\ priority_input_buffer' = rest \o Generated(pkt, gen)

Unresubmitted == queue_hi' = IF Takes = "hi" THEN Tail(queue_hi) ELSE queue_hi

IngressTakes(pkt) ==
    /\ IngressThread \in running
    /\ Takes # "none" /\ pkt = Taken /\ ~IsNull(pkt)
    /\ queue_lo' = IF Takes = "lo" THEN Tail(queue_lo) ELSE queue_lo
    /\ UNCHANGED <<held, output_buffer, running, stop, arrivals>>

(* The buffers with the ingress clone of the packet, if it is cloned. *)
IngressClone == {egress_buffers} \cup Cloned(egress_buffers, Taken)

(* The program returns early after an extern; or it drops the packet at    *)
(* the end, when it has passed all of them.                                *)
IngressDrop ==
    /\ IngressTakes(Taken)
    /\ \E end \in Taken.entry .. Externs : Apply(Taken, end)
    /\ egress_buffers' \in IngressClone
    /\ Unresubmitted
    /\ UNCHANGED detours

IngressForward ==
    /\ IngressTakes(Taken)
    /\ Apply(Taken, Externs)
    /\ \E b \in IngressClone, p \in Ports : egress_buffers' = enqueue(b, p, Taken)
    /\ Unresubmitted
    /\ UNCHANGED detours

IngressMulticast ==
    /\ IngressTakes(Taken)
    /\ Apply(Taken, Externs)
    /\ \E b \in IngressClone : egress_buffers' = multicast(b, Taken)
    /\ Unresubmitted
    /\ UNCHANGED detours

IngressResubmit ==
    /\ IngressTakes(Taken)
    /\ detours < MaxDetours /\ detours' = detours + 1
    /\ Apply(Taken, Externs)
    /\ egress_buffers' \in IngressClone
    /\ queue_hi' = PushHi(IF Takes = "hi" THEN Tail(queue_hi) ELSE queue_hi,
                          [Taken EXCEPT !.entry = 0])

(* The sentinel ends the thread. *)
IngressEnd ==
    /\ IngressThread \in running
    /\ Takes # "none" /\ IsNull(Taken)
    /\ queue_hi' = Tail(queue_hi)
    /\ running' = running \ {IngressThread}
    /\ UNCHANGED <<queue_lo, priority_input_buffer, egress_buffers, held, output_buffer,
                   stop, arrivals, detours>>

Ingress ==
    IngressDrop \/ IngressForward \/ IngressMulticast \/ IngressResubmit \/ IngressEnd

-----------------------------------------------------------------------------
(* The egress threads. *)

EgressTakes(w, pkt) ==
    /\ w \in running /\ IsNull(held[w])
    /\ egress_buffers[w] # << >> /\ pkt = Head(egress_buffers[w])
    /\ UNCHANGED <<queue_lo, priority_input_buffer, output_buffer, stop, arrivals>>

EgressLeft(w) == [egress_buffers EXCEPT ![w] = Tail(@)]

(* What is left, with the egress clone of the packet, if it is cloned. *)
EgressClone(w, pkt) ==
    \/ /\ egress_buffers' = EgressLeft(w)
       /\ UNCHANGED detours
    \/ /\ detours < MaxDetours /\ detours' = detours + 1
       /\ egress_buffers' \in Cloned(EgressLeft(w), [pkt EXCEPT !.late = TRUE])

(* The packet is dropped, or is to be output. *)
EgressApply(w) ==
    LET pkt == Head(egress_buffers[w]) IN
    /\ EgressTakes(w, pkt) /\ ~IsNull(pkt)
    /\ EgressClone(w, pkt)
    /\ held' \in {held, [held EXCEPT ![w] = pkt]}
    /\ UNCHANGED <<queue_hi, running>>

(* The packet goes back to ingress. *)
EgressRecirculate(w) ==
    LET pkt == Head(egress_buffers[w]) IN
    /\ EgressTakes(w, pkt) /\ ~IsNull(pkt)
    /\ detours < MaxDetours /\ detours' = detours + 1
    /\ egress_buffers' \in {EgressLeft(w)} \cup
                          Cloned(EgressLeft(w), [pkt EXCEPT !.late = TRUE])
    /\ queue_hi' = PushHi(queue_hi, [pkt EXCEPT !.late = TRUE])
    /\ UNCHANGED <<held, running>>

EgressEnd(w) ==
    LET pkt == Head(egress_buffers[w]) IN
    /\ EgressTakes(w, pkt) /\ IsNull(pkt)
    /\ egress_buffers' = EgressLeft(w)
    /\ running' = running \ {w}
    /\ UNCHANGED <<queue_hi, held, detours>>

(* output_buffer.push_front() blocks while the buffer is full. *)
EgressOutput(w) ==
    /\ w \in running /\ ~IsNull(held[w]) /\ Len(output_buffer) < OutputCap
    /\ output_buffer' = Append(output_buffer, held[w])
    /\ held' = [held EXCEPT ![w] = nullptr(w)]
    /\ UNCHANGED <<queue_lo, queue_hi, priority_input_buffer, egress_buffers, running, stop,
                   arrivals, detours>>

Egress(w) ==
    EgressApply(w) \/ EgressRecirculate(w) \/ EgressEnd(w) \/ EgressOutput(w)

-----------------------------------------------------------------------------
(* The transmit thread. *)

TransmitTakes(pkt) ==
    /\ TransmitThread \in running
    /\ output_buffer # << >> /\ pkt = Head(output_buffer)
    /\ output_buffer' = Tail(output_buffer)
    /\ UNCHANGED <<queue_lo, queue_hi, priority_input_buffer, egress_buffers, held, stop,
                   arrivals, detours>>

Transmit ==
    LET pkt == Head(output_buffer) IN
    /\ TransmitTakes(pkt) /\ ~IsNull(pkt)
    /\ UNCHANGED running

TransmitEnd ==
    LET pkt == Head(output_buffer) IN
    /\ TransmitTakes(pkt) /\ IsNull(pkt)
    /\ running' = running \ {TransmitThread}

-----------------------------------------------------------------------------
(* The destructor. *)

StopIngress ==
    /\ stop = Idle
    /\ Len(queue_hi) < InputCap
    /\ queue_hi' = Append(queue_hi, nullptr(0))
    /\ stop' = SentIngress
    /\ UNCHANGED <<queue_lo, priority_input_buffer, egress_buffers, held, output_buffer,
                   running, arrivals, detours>>

(* It tries again until the sentinel has found room. *)
\* mutant: it does not
StopWorkerOnce ==
    /\ stop \in SentIngress .. SentWorkers - 1
    /\ egress_buffers' = enqueue(egress_buffers, stop - SentIngress, nullptr(0))
    /\ stop' = stop + 1
    /\ UNCHANGED <<queue_lo, queue_hi, priority_input_buffer, held, output_buffer,
                   running, arrivals, detours>>
StopWorker ==
    /\ stop \in SentIngress .. SentWorkers - 1
    /\ EgressRoom(egress_buffers, stop - SentIngress)
    /\ egress_buffers' = enqueue(egress_buffers, stop - SentIngress, nullptr(0))
    /\ stop' = stop + 1
    /\ UNCHANGED <<queue_lo, queue_hi, priority_input_buffer, held, output_buffer,
                   running, arrivals, detours>>

StopTransmit ==
    /\ stop = SentWorkers
    /\ Len(output_buffer) < OutputCap
    /\ output_buffer' = Append(output_buffer, nullptr(0))
    /\ stop' = SentTransmit
    /\ UNCHANGED <<queue_lo, queue_hi, priority_input_buffer, egress_buffers, held,
                   running, arrivals, detours>>

Stop == StopWorker \/ StopTransmit

-----------------------------------------------------------------------------
Next ==
    \/ Receive
    \/ Ingress
    \/ \E w \in Workers : Egress(w)
    \/ Transmit \/ TransmitEnd
    \/ StopIngress
    \/ Stop

Spec == Init /\ [][Next]_vars

(* Every thread runs, and the destructor goes on once it is called. *)
FairSpec ==
    /\ Spec
    /\ WF_vars(Ingress)
    /\ \A w \in Workers : WF_vars(Egress(w))
    /\ WF_vars(Transmit \/ TransmitEnd)
    /\ WF_vars(Stop)

-----------------------------------------------------------------------------
(* The packets on their way out, for a worker, and all that wait to enter  *)
(* the program, first the ones that are closer to the exit.                *)
Leaving(w) == output_buffer \o <<held[w]>> \o egress_buffers[w]
Entering == priority_input_buffer \o queue_hi \o queue_lo

(* Packets leave a port in the order in which the packets arrived that     *)
(* they stem from, however many the boosters generate, clone, multicast    *)
(* and resubmit on the way: the ingress thread finishes all that an        *)
(* arrival has led to before it takes the next, and no queue changes the   *)
(* order.  Only recirculated packets and egress clones may fall behind.    *)
ArrivalOrder ==
    \A p \in Ports :
        LET leaving == Leaving(WorkerOf(p))
            way == leaving \o Entering
            counts(i) == /\ ~way[i].late /\ ~IsNull(way[i])
                         /\ i <= Len(leaving) => way[i].port = p
        IN  \A i, j \in 1 .. Len(way) :
                i < j /\ counts(i) /\ counts(j) => way[i].id <= way[j].id

(* The boosters see the packets of one arrival at a time: what waits to    *)
(* enter the program again stems from a single arrival.                    *)
OneArrivalAtATime ==
    \A i, j \in 1 .. Len(priority_input_buffer) :
        priority_input_buffer[i].id = priority_input_buffer[j].id

Empty ==
    /\ \A q \in {queue_lo, queue_hi, priority_input_buffer, output_buffer} : q = << >>
    /\ \A w \in Workers : IsNull(held[w]) /\ egress_buffers[w] = << >>

(* Once no more packets arrive, the switch gets rid of all that it has and *)
(* of all that this leads to, unless it is being stopped: no thread waits  *)
(* for ever for another, and an extern that generates a packet is not      *)
(* given it again.                                                         *)
Drains == arrivals = MaxArrivals ~> (Empty \/ stop # Idle)

(* The destructor ends, as each thread does.  The one exception: the       *)
(* transmit thread has ended, the output buffer is full, and an egress     *)
(* thread waits for room in it.                                            *)
StopEnds ==
    stop # Idle ~> \/ stop = SentTransmit /\ running = {}
                   \/ /\ TransmitThread \notin running /\ Len(output_buffer) = OutputCap
                      /\ \E w \in Workers \cap running : ~IsNull(held[w])

=============================================================================
