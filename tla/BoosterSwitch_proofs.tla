------------------------ MODULE BoosterSwitch_proofs ------------------------
(***************************************************************************)
(* Proofs about BoosterSwitch: the queues keep their types and bounds, the *)
(* externs see the packets of one arrival at a time, and packets leave a   *)
(* port in the order of arrival.                                           *)
(***************************************************************************)
EXTENDS BoosterSwitch, Ordered_proofs, TLAPS

(* No sentinel waits where the destructor puts none. *)
NoSentinels ==
    /\ \A i \in 1 .. Len(queue_lo) : ~IsNull(queue_lo[i])
    /\ \A i \in 1 .. Len(priority_input_buffer) : ~IsNull(priority_input_buffer[i])

Typed == TypeOK /\ NoSentinels

(* The packets whose order counts. *)
Counts(q) == ~q.late /\ ~IsNull(q)
SamePort(q, r) == Counts(q) /\ Counts(r) /\ q.port = r.port

(* A worker has the packets of its own ports. *)
OwnPorts(h, b) ==
    \A w \in Workers : /\ WorkerOf(h[w].port) = w
                       /\ \A i \in 1 .. Len(b[w]) : WorkerOf(b[w][i].port) = w

(* The packets that leave one port are in order, from the output buffer    *)
(* over the packet a worker holds to its queue.                            *)
PortOrder(o, h, b) ==
    /\ \A i, j \in 1 .. Len(o) : i < j /\ SamePort(o[i], o[j]) => o[i].id <= o[j].id
    /\ \A w \in Workers :
         /\ \A i \in 1 .. Len(o) : SamePort(o[i], h[w]) => o[i].id <= h[w].id
         /\ \A i \in 1 .. Len(o), j \in 1 .. Len(b[w]) :
              SamePort(o[i], b[w][j]) => o[i].id <= b[w][j].id
         /\ \A j \in 1 .. Len(b[w]) : SamePort(h[w], b[w][j]) => h[w].id <= b[w][j].id
         /\ \A i, j \in 1 .. Len(b[w]) :
              i < j /\ SamePort(b[w][i], b[w][j]) => b[w][i].id <= b[w][j].id

(* What leaves stems from arrival c or an earlier one. *)
LeavingUpTo(c, o, h, b) ==
    /\ \A i \in 1 .. Len(o) : Counts(o[i]) => o[i].id <= c
    /\ \A w \in Workers : /\ Counts(h[w]) => h[w].id <= c
                          /\ \A i \in 1 .. Len(b[w]) : Counts(b[w][i]) => b[w][i].id <= c

(* What enters again stems from arrival c, and the new arrivals are later  *)
(* ones, in order.                                                         *)
AllOf(c, q) == \A i \in 1 .. Len(q) : Counts(q[i]) => q[i].id = c
NewArrivals(c, q) ==
    /\ \A i \in 1 .. Len(q) : c <= q[i].id /\ q[i].id <= arrivals /\ ~q[i].late
    /\ \A i, j \in 1 .. Len(q) : i < j => q[i].id <= q[j].id

InTurn(c) ==
    /\ c <= arrivals
    /\ LeavingUpTo(c, output_buffer, held, egress_buffers)
    /\ AllOf(c, priority_input_buffer)
    /\ AllOf(c, queue_hi)
    /\ NewArrivals(c, queue_lo)

OrderInv ==
    /\ OwnPorts(held, egress_buffers)
    /\ PortOrder(output_buffer, held, egress_buffers)
    /\ \E c \in Nat : InTurn(c)

-----------------------------------------------------------------------------
(* The queues of the egress threads. *)

(* Buffers c are buffers b with copies of a packet added at the end. *)
Adds(b, c, pkt) ==
    /\ c \in [Workers -> Seq(Packet)]
    /\ \A w \in Workers :
         /\ Len(b[w]) <= Len(c[w])
         /\ \A i \in 1 .. Len(b[w]) : c[w][i] = b[w][i]
         /\ \A i \in Len(b[w]) + 1 .. Len(c[w]) :
              /\ c[w][i].id = pkt.id /\ c[w][i].late = pkt.late
              /\ WorkerOf(c[w][i].port) = w

(* Every port has a worker. *)
LEMMA PortFacts ==
    /\ \A p \in Ports : WorkerOf(p) \in Workers /\ p \in Nat
    /\ \A w \in Workers : WorkerOf(w) = w /\ w \in Ports
    /\ 0 \in Ports /\ IsFiniteSet(Ports)
<1> USE SwitchAssumption
<1>1. \A p \in Ports : WorkerOf(p) \in Workers /\ p \in Nat
  BY DEF Ports, Workers, WorkerOf
<1>2. \A w \in Workers : WorkerOf(w) = w /\ w \in Ports
  BY DEF Ports, Workers, WorkerOf
<1>3. 0 \in Ports
  BY DEF Ports
<1>4. IsFiniteSet(0 .. NbPorts - 1)
  BY FS_Interval
<1> QED
  BY <1>1, <1>2, <1>3, <1>4 DEF Ports

(* A copy of a packet for a port. *)
LEMMA CopyFacts ==
    ASSUME NEW pkt \in Packet, NEW p \in Ports, NEW q, q = Copy(pkt, p)
    PROVE  /\ q \in Packet /\ q.id = pkt.id /\ q.late = pkt.late /\ q.port = p
BY SwitchAssumption DEF Packet, Copy

(* enqueue() adds a copy or none. *)
LEMMA EnqueueAdds ==
    ASSUME NEW b \in [Workers -> Seq(Packet)], NEW pkt \in Packet, NEW p \in Ports
    PROVE  Adds(b, enqueue(b, p, pkt), pkt)
<1>1. PICK q : q = Copy(pkt, p)
  OBVIOUS
<1>2. q \in Packet /\ q.id = pkt.id /\ q.late = pkt.late /\ q.port = p
  BY <1>1, CopyFacts
<1>3. PICK v \in Workers : v = WorkerOf(p)
  BY PortFacts
<1>4. CASE EgressRoom(b, p)
  <2>1. enqueue(b, p, pkt) = [b EXCEPT ![v] = Append(b[v], q)]
    BY <1>1, <1>3, <1>4 DEF enqueue
  <2>2. Append(b[v], q) \in Seq(Packet) /\ Len(Append(b[v], q)) = Len(b[v]) + 1
    BY <1>2
  <2>3. /\ \A i \in 1 .. Len(b[v]) : Append(b[v], q)[i] = b[v][i]
        /\ Append(b[v], q)[Len(b[v]) + 1] = q /\ Len(b[v]) \in Nat
    BY <1>2
  <2> QED
    BY <1>2, <1>3, <2>1, <2>2, <2>3 DEF Adds
<1>5. CASE ~EgressRoom(b, p)
  BY <1>5 DEF enqueue, Adds
<1> QED
  BY <1>4, <1>5

(* multicast() adds the copies for the ports with room. *)
LEMMA MulticastAdds ==
    ASSUME NEW b \in [Workers -> Seq(Packet)], NEW pkt \in Packet
    PROVE  Adds(b, multicast(b, pkt), pkt)
<1> DEFINE S(w) == {p \in Ports : WorkerOf(p) = w /\ EgressRoom(b, p)}
           copies(w) == [n \in 1 .. Len(InOrder(S(w))) |-> Copy(pkt, InOrder(S(w))[n])]
<1>1. multicast(b, pkt) = [w \in Workers |-> b[w] \o copies(w)]
  BY DEF multicast
<1>2. ASSUME NEW w \in Workers
      PROVE  /\ copies(w) \in Seq(Packet)
             /\ \A n \in 1 .. Len(copies(w)) : /\ copies(w)[n].id = pkt.id
                                               /\ copies(w)[n].late = pkt.late
                                               /\ WorkerOf(copies(w)[n].port) = w
  <2>1. PICK T : T = S(w)
    OBVIOUS
  <2>2. T \subseteq Int /\ IsFiniteSet(T)
    <3>1. T \in SUBSET Ports
      BY <2>1
    <3> QED
      BY <3>1, PortFacts, FS_Subset
  <2>3. /\ Len(InOrder(T)) = Cardinality(T) /\ Cardinality(T) \in Nat
        /\ \A n \in 1 .. Cardinality(T) : InOrder(T)[n] \in T
    BY <2>2, InOrderFacts
  <2>4. PICK m \in Nat : m = Len(InOrder(T))
    BY <2>3
  <2>5. PICK e : e = [n \in 1 .. m |-> Copy(pkt, InOrder(T)[n])]
    OBVIOUS
  <2>6. ASSUME NEW n \in 1 .. m
        PROVE  /\ e[n] \in Packet /\ e[n].id = pkt.id /\ e[n].late = pkt.late
               /\ WorkerOf(e[n].port) = w
    <3>1. InOrder(T)[n] \in Ports /\ WorkerOf(InOrder(T)[n]) = w
      BY <2>1, <2>3, <2>4
    <3>2. e[n] = Copy(pkt, InOrder(T)[n])
      BY <2>5
    <3> QED
      BY <3>1, <3>2, CopyFacts
  <2>7. e \in Seq(Packet) /\ Len(e) = m
    BY <2>5, <2>6
  <2>8. copies(w) = e
    BY <2>1, <2>4, <2>5
  <2> QED
    BY <2>6, <2>7, <2>8
<1> HIDE DEF copies
<1>3. PICK c : c = multicast(b, pkt)
  OBVIOUS
<1>4. ASSUME NEW w \in Workers
      PROVE  /\ c[w] \in Seq(Packet)
             /\ Len(b[w]) <= Len(c[w])
             /\ \A i \in 1 .. Len(b[w]) : c[w][i] = b[w][i]
             /\ \A i \in Len(b[w]) + 1 .. Len(c[w]) :
                  /\ c[w][i].id = pkt.id /\ c[w][i].late = pkt.late
                  /\ WorkerOf(c[w][i].port) = w
  <2>1. c[w] = b[w] \o copies(w)
    BY <1>1, <1>3
  <2>2. PICK x \in Seq(Packet), y \in Seq(Packet) : x = b[w] /\ y = copies(w)
    BY <1>2
  <2>3. x \o y \in Seq(Packet) /\ Len(x \o y) = Len(x) + Len(y) /\ Len(x) \in Nat /\ Len(y) \in Nat
    BY <2>2
  <2>4. \A i \in 1 .. Len(x) : (x \o y)[i] = x[i]
    BY <2>2
  <2>5. \A i \in Len(x) + 1 .. Len(x) + Len(y) : (x \o y)[i] = y[i - Len(x)]
    BY <2>2
  <2>6. \A i \in Len(x) + 1 .. Len(x) + Len(y) : i - Len(x) \in 1 .. Len(y)
    BY <2>3
  <2>7. \A i \in Len(x) + 1 .. Len(x) + Len(y) :
          /\ (x \o y)[i].id = pkt.id /\ (x \o y)[i].late = pkt.late
          /\ WorkerOf((x \o y)[i].port) = w
    BY <1>2, <2>2, <2>5, <2>6
  <2> QED
    BY <2>1, <2>2, <2>3, <2>4, <2>7
<1>5. c \in [Workers -> Seq(Packet)]
  <2>1. c = [w \in Workers |-> c[w]]
    BY <1>1, <1>3
  <2> QED
    BY <1>4, <2>1
<1> QED
  BY <1>3, <1>4, <1>5 DEF Adds

(* What is added twice is added. *)
LEMMA AddsTwice ==
    ASSUME NEW b \in [Workers -> Seq(Packet)], NEW c, NEW d, NEW pkt,
           Adds(b, c, pkt), Adds(c, d, pkt)
    PROVE  Adds(b, d, pkt)
<1>1. ASSUME NEW w \in Workers
      PROVE  /\ Len(b[w]) <= Len(d[w])
             /\ \A i \in 1 .. Len(b[w]) : d[w][i] = b[w][i]
             /\ \A i \in Len(b[w]) + 1 .. Len(d[w]) :
                  /\ d[w][i].id = pkt.id /\ d[w][i].late = pkt.late
                  /\ WorkerOf(d[w][i].port) = w
  <2>1. PICK x \in Seq(Packet), y \in Seq(Packet), z \in Seq(Packet) :
          x = b[w] /\ y = c[w] /\ z = d[w]
    BY DEF Adds
  <2>2. Len(x) \in Nat /\ Len(y) \in Nat /\ Len(z) \in Nat
    OBVIOUS
  <2>3. /\ Len(x) <= Len(y) /\ \A i \in 1 .. Len(x) : y[i] = x[i]
        /\ \A i \in Len(x) + 1 .. Len(y) : /\ y[i].id = pkt.id /\ y[i].late = pkt.late
                                           /\ WorkerOf(y[i].port) = w
    BY <2>1 DEF Adds
  <2>4. /\ Len(y) <= Len(z) /\ \A i \in 1 .. Len(y) : z[i] = y[i]
        /\ \A i \in Len(y) + 1 .. Len(z) : /\ z[i].id = pkt.id /\ z[i].late = pkt.late
                                           /\ WorkerOf(z[i].port) = w
    BY <2>1 DEF Adds
  <2>5. \A i \in Len(x) + 1 .. Len(z) : i \in Len(x) + 1 .. Len(y) \/ i \in Len(y) + 1 .. Len(z)
    BY <2>2
  <2>6. \A i \in Len(x) + 1 .. Len(y) : i \in 1 .. Len(y)
    BY <2>2
  <2>7. Len(x) <= Len(z) /\ \A i \in 1 .. Len(x) : z[i] = x[i]
    BY <2>2, <2>3, <2>4
  <2>8. \A i \in Len(x) + 1 .. Len(z) : /\ z[i].id = pkt.id /\ z[i].late = pkt.late
                                        /\ WorkerOf(z[i].port) = w
    BY <2>3, <2>4, <2>5, <2>6
  <2> QED
    BY <2>1, <2>7, <2>8
<1> QED
  BY <1>1 DEF Adds

(* No copy, too. *)
LEMMA AddsNone ==
    ASSUME NEW b \in [Workers -> Seq(Packet)], NEW pkt
    PROVE  Adds(b, b, pkt)
BY DEF Adds

(* A clone adds copies. *)
LEMMA ClonedAdds ==
    ASSUME NEW b \in [Workers -> Seq(Packet)], NEW pkt \in Packet, NEW c \in Cloned(b, pkt)
    PROVE  Adds(b, c, pkt)
<1>1. Adds(b, b, pkt) /\ Adds(b, multicast(b, pkt), pkt)
  BY AddsNone, MulticastAdds
<1>2. CASE c = multicast(b, pkt)
  BY <1>1, <1>2
<1>3. ASSUME NEW d \in {b, multicast(b, pkt)}, NEW p \in Ports, c = enqueue(d, p, pkt)
      PROVE  Adds(b, c, pkt)
  <2>1. Adds(b, d, pkt) /\ d \in [Workers -> Seq(Packet)]
    BY <1>1, <1>3 DEF Adds
  <2>2. Adds(d, c, pkt)
    BY <1>3, <2>1, EnqueueAdds
  <2> QED
    BY <2>1, <2>2, AddsTwice
<1> QED
  BY <1>2, <1>3 DEF Cloned

-----------------------------------------------------------------------------
(* What the steps of the threads have in common. *)

(* The head and the rest of a queue. *)
LEMMA TakeHead ==
    ASSUME NEW S, NEW q \in Seq(S), q # << >>
    PROVE  /\ Head(q) = q[1] /\ Head(q) \in S /\ Tail(q) \in Seq(S)
           /\ Len(q) \in Nat /\ Len(q) >= 1 /\ Len(Tail(q)) = Len(q) - 1
           /\ \A i \in 1 .. Len(Tail(q)) : Tail(q)[i] = q[i + 1] /\ i + 1 \in 1 .. Len(q)
OBVIOUS

(* A queue with a packet more. *)
LEMMA PutLast ==
    ASSUME NEW S, NEW q \in Seq(S), NEW x \in S
    PROVE  /\ Append(q, x) \in Seq(S) /\ Len(q) \in Nat /\ Len(Append(q, x)) = Len(q) + 1
           /\ \A i \in 1 .. Len(q) : Append(q, x)[i] = q[i]
           /\ Append(q, x)[Len(q) + 1] = x
OBVIOUS

(* A queue followed by another. *)
LEMMA Concat ==
    ASSUME NEW S, NEW x \in Seq(S), NEW y \in Seq(S)
    PROVE  /\ x \o y \in Seq(S) /\ Len(x) \in Nat /\ Len(y) \in Nat
           /\ Len(x \o y) = Len(x) + Len(y)
           /\ \A i \in 1 .. Len(x) : (x \o y)[i] = x[i]
           /\ \A i \in Len(x) + 1 .. Len(x) + Len(y) :
                (x \o y)[i] = y[i - Len(x)] /\ i - Len(x) \in 1 .. Len(y)
<1>1. x \o y \in Seq(S) /\ Len(x) \in Nat /\ Len(y) \in Nat /\ Len(x \o y) = Len(x) + Len(y)
  OBVIOUS
<1>2. \A i \in 1 .. Len(x) : (x \o y)[i] = x[i]
  OBVIOUS
<1>3. \A i \in Len(x) + 1 .. Len(x) + Len(y) : (x \o y)[i] = y[i - Len(x)]
  OBVIOUS
<1>4. \A i \in Len(x) + 1 .. Len(x) + Len(y) : i - Len(x) \in 1 .. Len(y)
  BY <1>1
<1> QED
  BY <1>1, <1>2, <1>3, <1>4

(* The packets that the externs generate. *)
LEMMA GeneratedFacts ==
    ASSUME NEW pkt \in Packet, NEW gen \in SUBSET (1 .. Externs)
    PROVE  /\ Generated(pkt, gen) \in Seq(Packet)
           /\ Cardinality(gen) \in Nat /\ Len(Generated(pkt, gen)) = Cardinality(gen)
           /\ \A n \in 1 .. Cardinality(gen) :
                /\ Generated(pkt, gen)[n].id = pkt.id
                /\ Generated(pkt, gen)[n].late = pkt.late
<1>1. gen \subseteq Int /\ IsFiniteSet(gen)
  <2>1. IsFiniteSet(1 .. Externs)
    BY SwitchAssumption, FS_Interval
  <2>2. IsFiniteSet(gen)
    BY <2>1, FS_Subset
  <2>3. gen \subseteq Int
    OBVIOUS
  <2> QED
    BY <2>2, <2>3
<1>2. /\ Cardinality(gen) \in Nat
      /\ \A n \in 1 .. Cardinality(gen) : InOrder(gen)[n] \in gen
  BY <1>1, InOrderFacts
<1>3. PICK m \in Nat : m = Cardinality(gen)
  BY <1>2
<1>4. PICK g : g = [n \in 1 .. m |-> [pkt EXCEPT !.entry = InOrder(gen)[n]]]
  OBVIOUS
<1>5. ASSUME NEW n \in 1 .. m
      PROVE  g[n] \in Packet /\ g[n].id = pkt.id /\ g[n].late = pkt.late
  <2>1. InOrder(gen)[n] \in 0 .. Externs
    <3>1. InOrder(gen)[n] \in 1 .. Externs
      BY <1>2, <1>3
    <3> QED
      BY <3>1, SwitchAssumption
  <2>2. g[n] = [pkt EXCEPT !.entry = InOrder(gen)[n]]
    BY <1>4
  <2> QED
    BY <2>1, <2>2 DEF Packet
<1>6. g \in Seq(Packet) /\ Len(g) = m
  BY <1>4, <1>5
<1>7. Generated(pkt, gen) = g
  BY <1>3, <1>4 DEF Generated
<1> QED
  BY <1>3, <1>5, <1>6, <1>7

(* The ingress thread takes a packet, the head of its first queue that is  *)
(* not empty.                                                              *)
Takes3(pkt, rest, hi) ==
    \/ /\ priority_input_buffer # << >> /\ pkt = Head(priority_input_buffer)
       /\ rest = Tail(priority_input_buffer) /\ hi = queue_hi /\ queue_lo' = queue_lo
    \/ /\ priority_input_buffer = << >> /\ queue_hi # << >> /\ pkt = Head(queue_hi)
       /\ rest = << >> /\ hi = Tail(queue_hi) /\ queue_lo' = queue_lo
    \/ /\ priority_input_buffer = << >> /\ queue_hi = << >> /\ queue_lo # << >>
       /\ pkt = Head(queue_lo)
       /\ rest = << >> /\ hi = << >> /\ queue_lo' = Tail(queue_lo)

IngressStep(pkt, rest, hi, gen) ==
    /\ ~IsNull(pkt)
    /\ Takes3(pkt, rest, hi)
    /\ Len(rest) + Cardinality(gen) <= MaxBacklog
    /\ priority_input_buffer' = rest \o Generated(pkt, gen)
    /\ queue_hi' = hi \/ queue_hi' = PushHi(hi, [pkt EXCEPT !.entry = 0])
    /\ Adds(egress_buffers, egress_buffers', pkt)
    /\ detours' \in 0 .. MaxDetours
    /\ UNCHANGED <<held, output_buffer, running, stop, arrivals>>

(* The packet that the ingress thread takes. *)
LEMMA TakenFacts ==
    ASSUME TypeOK, Takes # "none"
    PROVE  Taken \in Packet
<1>1. \/ priority_input_buffer # << >> /\ Takes = "priority"
      \/ priority_input_buffer = << >> /\ queue_hi # << >> /\ Takes = "hi"
      \/ priority_input_buffer = << >> /\ queue_hi = << >> /\ queue_lo # << >> /\ Takes = "lo"
      \/ priority_input_buffer = << >> /\ queue_hi = << >> /\ queue_lo = << >> /\ Takes = "none"
  BY DEF Takes
<1>2. CASE priority_input_buffer # << >> /\ Takes = "priority"
  <2>1. Taken = Head(priority_input_buffer)
    BY <1>2 DEF Taken
  <2> QED
    BY <1>2, <2>1, TakeHead DEF TypeOK
<1>3. CASE priority_input_buffer = << >> /\ queue_hi # << >> /\ Takes = "hi"
  <2>1. Taken = Head(queue_hi)
    BY <1>3 DEF Taken
  <2> QED
    BY <1>3, <2>1, TakeHead DEF TypeOK
<1>4. CASE priority_input_buffer = << >> /\ queue_hi = << >> /\ queue_lo # << >> /\ Takes = "lo"
  <2>1. Taken = Head(queue_lo)
    BY <1>4 DEF Taken
  <2> QED
    BY <1>4, <2>1, TakeHead DEF TypeOK
<1> QED
  BY <1>1, <1>2, <1>3, <1>4

(* Each way in which a packet goes through the ingress pipeline is such a  *)
(* step.                                                                   *)
LEMMA IngressSteps ==
    ASSUME TypeOK, IngressDrop \/ IngressForward \/ IngressMulticast \/ IngressResubmit
    PROVE  \E pkt \in Packet, rest \in Seq(Packet), hi \in Seq(Packet), gen \in SUBSET (1 .. Externs) :
             IngressStep(pkt, rest, hi, gen)
<1>1. IngressTakes(Taken)
  BY DEF IngressDrop, IngressForward, IngressMulticast, IngressResubmit
<1>2. Taken \in Packet
  BY <1>1, TakenFacts DEF IngressTakes
<1>3. PICK pkt \in Packet : pkt = Taken
  BY <1>2
<1>4. egress_buffers \in [Workers -> Seq(Packet)]
  BY DEF TypeOK
<1>5. \A b \in IngressClone : Adds(egress_buffers, b, pkt) /\ b \in [Workers -> Seq(Packet)]
  <2> SUFFICES ASSUME NEW b \in IngressClone PROVE Adds(egress_buffers, b, pkt)
    BY DEF Adds
  <2>1. CASE b = egress_buffers
    BY <1>4, <2>1, AddsNone
  <2>2. CASE b \in Cloned(egress_buffers, pkt)
    BY <1>4, <2>2, ClonedAdds
  <2> QED
    BY <1>3, <2>1, <2>2 DEF IngressClone
<1>6. Adds(egress_buffers, egress_buffers', pkt)
  <2>1. CASE egress_buffers' \in IngressClone
    BY <1>5, <2>1
  <2>2. ASSUME NEW b \in IngressClone, NEW p \in Ports, egress_buffers' = enqueue(b, p, pkt)
        PROVE  Adds(egress_buffers, egress_buffers', pkt)
    <3>1. Adds(egress_buffers, b, pkt) /\ b \in [Workers -> Seq(Packet)]
      BY <1>5
    <3>2. Adds(b, egress_buffers', pkt)
      BY <2>2, <3>1, EnqueueAdds
    <3> QED
      BY <1>4, <3>1, <3>2, AddsTwice
  <2>3. ASSUME NEW b \in IngressClone, egress_buffers' = multicast(b, pkt)
        PROVE  Adds(egress_buffers, egress_buffers', pkt)
    <3>1. Adds(egress_buffers, b, pkt) /\ b \in [Workers -> Seq(Packet)]
      BY <1>5
    <3>2. Adds(b, egress_buffers', pkt)
      BY <2>3, <3>1, MulticastAdds
    <3> QED
      BY <1>4, <3>1, <3>2, AddsTwice
  <2> QED
    BY <1>3, <2>1, <2>2, <2>3 DEF IngressDrop, IngressForward, IngressMulticast, IngressResubmit
<1>7. \E end \in Int : Apply(pkt, end)
  <2>1. Taken.entry .. Externs \subseteq Int /\ Externs \in Int
    BY SwitchAssumption
  <2>2. CASE IngressDrop
    BY <1>3, <2>1, <2>2 DEF IngressDrop
  <2>3. CASE ~IngressDrop
    BY <1>3, <2>1, <2>3 DEF IngressForward, IngressMulticast, IngressResubmit
  <2> QED
    BY <2>2, <2>3
<1>8. PICK rest : rest = IF Takes = "priority" THEN Tail(priority_input_buffer)
                         ELSE priority_input_buffer
  OBVIOUS
<1>9. PICK gen \in SUBSET (1 .. Externs) :
        /\ Len(rest) + Cardinality(gen) <= MaxBacklog
        /\ priority_input_buffer' = rest \o Generated(pkt, gen)
  BY <1>7, <1>8 DEF Apply, Processing
<1>10. PICK hi : /\ hi = IF Takes = "hi" THEN Tail(queue_hi) ELSE queue_hi
                 /\ queue_hi' = hi \/ queue_hi' = PushHi(hi, [pkt EXCEPT !.entry = 0])
  BY <1>3 DEF Unresubmitted, IngressDrop, IngressForward, IngressMulticast, IngressResubmit
<1>11. detours' \in 0 .. MaxDetours
  BY SwitchAssumption DEF TypeOK, IngressDrop, IngressForward, IngressMulticast, IngressResubmit
<1>12. UNCHANGED <<held, output_buffer, running, stop, arrivals>> /\ ~IsNull(pkt)
  BY <1>1, <1>3 DEF IngressTakes
<1>13. Takes3(pkt, rest, hi) /\ rest \in Seq(Packet) /\ hi \in Seq(Packet)
  <2>1. \/ priority_input_buffer # << >> /\ Takes = "priority"
        \/ priority_input_buffer = << >> /\ queue_hi # << >> /\ Takes = "hi"
        \/ /\ priority_input_buffer = << >> /\ queue_hi = << >> /\ queue_lo # << >>
           /\ Takes = "lo"
    BY <1>1 DEF Takes, IngressTakes
  <2>2. /\ queue_lo' = IF Takes = "lo" THEN Tail(queue_lo) ELSE queue_lo
        /\ priority_input_buffer \in Seq(Packet) /\ queue_hi \in Seq(Packet)
    BY <1>1 DEF IngressTakes, TypeOK
  <2>3. CASE priority_input_buffer # << >> /\ Takes = "priority"
    <3>1. pkt = Head(priority_input_buffer) /\ rest = Tail(priority_input_buffer)
      BY <1>3, <1>8, <2>3 DEF Taken
    <3>2. hi = queue_hi /\ queue_lo' = queue_lo /\ rest \in Seq(Packet)
      BY <1>10, <2>2, <2>3, <3>1, TakeHead
    <3> QED
      BY <2>2, <2>3, <3>1, <3>2 DEF Takes3
  <2>4. CASE priority_input_buffer = << >> /\ queue_hi # << >> /\ Takes = "hi"
    <3>1. pkt = Head(queue_hi) /\ hi = Tail(queue_hi)
      BY <1>3, <1>10, <2>4 DEF Taken
    <3>2. rest = << >> /\ queue_lo' = queue_lo /\ hi \in Seq(Packet)
      BY <1>8, <2>2, <2>4, <3>1, TakeHead
    <3> QED
      BY <2>2, <2>4, <3>1, <3>2 DEF Takes3
  <2>5. CASE /\ priority_input_buffer = << >> /\ queue_hi = << >> /\ queue_lo # << >>
             /\ Takes = "lo"
    <3>1. pkt = Head(queue_lo)
      BY <1>3, <2>5 DEF Taken
    <3>2. rest = << >> /\ hi = << >> /\ queue_lo' = Tail(queue_lo)
      BY <1>8, <1>10, <2>2, <2>5
    <3> QED
      BY <2>2, <2>5, <3>1, <3>2 DEF Takes3
  <2> QED
    BY <2>1, <2>3, <2>4, <2>5
<1>14. IngressStep(pkt, rest, hi, gen)
  BY <1>6, <1>8, <1>9, <1>10, <1>11, <1>12, <1>13 DEF IngressStep
<1> QED
  BY <1>8, <1>13, <1>14

(* A worker takes a packet that is no sentinel: it may add egress clones,  *)
(* keep the packet for output, or hand it to the ingress thread.           *)
EgressStep(w, pkt, clone) ==
    /\ ~IsNull(pkt) /\ egress_buffers[w] # << >> /\ pkt = Head(egress_buffers[w])
    /\ clone = [pkt EXCEPT !.late = TRUE]
    /\ IsNull(held[w])
    /\ Adds(EgressLeft(w), egress_buffers', clone)
    /\ held' = held \/ held' = [held EXCEPT ![w] = pkt]
    /\ queue_hi' = queue_hi \/ queue_hi' = PushHi(queue_hi, clone)
    /\ detours' \in 0 .. MaxDetours
    /\ UNCHANGED <<queue_lo, priority_input_buffer, output_buffer, running, stop, arrivals>>

(* The queues of the workers after one has taken a packet. *)
LEMMA EgressLeftFacts ==
    ASSUME TypeOK, NEW w \in Workers, egress_buffers[w] # << >>
    PROVE  /\ EgressLeft(w) \in [Workers -> Seq(Packet)]
           /\ EgressLeft(w)[w] = Tail(egress_buffers[w])
           /\ \A v \in Workers \ {w} : EgressLeft(w)[v] = egress_buffers[v]
           /\ Head(egress_buffers[w]) \in Packet
<1>1. egress_buffers[w] \in Seq(Packet)
  BY DEF TypeOK
<1>2. Head(egress_buffers[w]) \in Packet /\ Tail(egress_buffers[w]) \in Seq(Packet)
  BY <1>1, TakeHead
<1> QED
  BY <1>2 DEF EgressLeft, TypeOK

(* What a worker does with a packet is such a step. *)
LEMMA EgressSteps ==
    ASSUME TypeOK, NEW w \in Workers, EgressApply(w) \/ EgressRecirculate(w)
    PROVE  \E pkt \in Packet, clone \in Packet : EgressStep(w, pkt, clone)
<1>1. /\ egress_buffers[w] # << >> /\ IsNull(held[w]) /\ ~IsNull(Head(egress_buffers[w]))
      /\ UNCHANGED <<queue_lo, priority_input_buffer, output_buffer, running, stop, arrivals>>
  BY DEF EgressApply, EgressRecirculate, EgressTakes
<1>2. /\ EgressLeft(w) \in [Workers -> Seq(Packet)]
      /\ Head(egress_buffers[w]) \in Packet
  BY <1>1, EgressLeftFacts
<1>3. PICK pkt \in Packet : pkt = Head(egress_buffers[w])
  BY <1>2
<1>4. PICK clone \in Packet : clone = [pkt EXCEPT !.late = TRUE]
  BY DEF Packet
<1>5. /\ egress_buffers' = EgressLeft(w) \/ egress_buffers' \in Cloned(EgressLeft(w), clone)
      /\ detours' \in 0 .. MaxDetours
  <2>1. egress_buffers' = EgressLeft(w) \/ egress_buffers' \in Cloned(EgressLeft(w), clone)
    BY <1>3, <1>4 DEF EgressApply, EgressRecirculate, EgressClone
  <2>2. detours' = detours \/ (detours < MaxDetours /\ detours' = detours + 1)
    <3>1. CASE EgressApply(w)
      <4>1. EgressClone(w, pkt)
        BY <1>3, <3>1 DEF EgressApply
      <4> QED
        BY <4>1 DEF EgressClone
    <3>2. CASE EgressRecirculate(w)
      BY <3>2 DEF EgressRecirculate
    <3> QED
      BY <3>1, <3>2
  <2>3. detours' \in 0 .. MaxDetours
    BY <2>2, SwitchAssumption DEF TypeOK
  <2> QED
    BY <2>1, <2>3
<1>6. Adds(EgressLeft(w), egress_buffers', clone)
  <2>1. CASE egress_buffers' = EgressLeft(w)
    <3>1. PICK b \in [Workers -> Seq(Packet)] : b = EgressLeft(w)
      BY <1>2
    <3>2. Adds(b, b, clone)
      BY AddsNone
    <3> QED
      BY <2>1, <3>1, <3>2
  <2>2. CASE egress_buffers' \in Cloned(EgressLeft(w), clone)
    BY <1>2, <2>2, ClonedAdds
  <2> QED
    BY <1>5, <2>1, <2>2
<1>7. held' = held \/ held' = [held EXCEPT ![w] = pkt]
  BY <1>3 DEF EgressApply, EgressRecirculate
<1>8. queue_hi' = queue_hi \/ queue_hi' = PushHi(queue_hi, clone)
  BY <1>3, <1>4 DEF EgressApply, EgressRecirculate
<1>9. EgressStep(w, pkt, clone)
  BY <1>1, <1>3, <1>4, <1>5, <1>6, <1>7, <1>8 DEF EgressStep
<1> QED
  BY <1>9

-----------------------------------------------------------------------------
(* Types and bounds. *)

(* A push on the high priority queue keeps its packets and its bound. *)
LEMMA PushHiFacts ==
    ASSUME NEW q \in Seq(Packet), Len(q) <= InputCap, NEW pkt \in Packet
    PROVE  PushHi(q, pkt) \in Seq(Packet) /\ Len(PushHi(q, pkt)) <= InputCap
<1>1. Len(q) \in Nat /\ InputCap \in Nat
  BY SwitchAssumption
<1>2. CASE Len(q) = InputCap
  BY <1>1, <1>2 DEF PushHi
<1>3. CASE Len(q) # InputCap
  BY <1>1, <1>3, PutLast DEF PushHi
<1> QED
  BY <1>2, <1>3

(* A step of the ingress thread keeps the types. *)
LEMMA IngressStepTyped ==
    ASSUME Typed, NEW pkt \in Packet, NEW rest \in Seq(Packet), NEW hi \in Seq(Packet),
           NEW gen \in SUBSET (1 .. Externs), IngressStep(pkt, rest, hi, gen)
    PROVE  Typed'
<1> USE DEF Typed
<1>1. /\ ~IsNull(pkt) /\ Takes3(pkt, rest, hi)
      /\ Len(rest) + Cardinality(gen) <= MaxBacklog
      /\ priority_input_buffer' = rest \o Generated(pkt, gen)
      /\ queue_hi' = hi \/ queue_hi' = PushHi(hi, [pkt EXCEPT !.entry = 0])
      /\ egress_buffers' \in [Workers -> Seq(Packet)]
      /\ detours' \in 0 .. MaxDetours
      /\ UNCHANGED <<held, output_buffer, running, stop, arrivals>>
  BY DEF IngressStep, Adds
<1>2. /\ queue_lo' \in Seq(Packet) /\ Len(queue_lo') <= InputCap
      /\ \A i \in 1 .. Len(queue_lo') : ~IsNull(queue_lo'[i])
  <2>1. queue_lo \in Seq(Packet) /\ Len(queue_lo) <= InputCap /\ InputCap \in Nat
    BY SwitchAssumption DEF TypeOK
  <2>2. CASE queue_lo' = queue_lo
    BY <2>2 DEF TypeOK, NoSentinels
  <2>3. CASE queue_lo # << >> /\ queue_lo' = Tail(queue_lo)
    <3>1. /\ queue_lo' \in Seq(Packet) /\ Len(queue_lo) \in Nat /\ Len(queue_lo') = Len(queue_lo) - 1
          /\ \A i \in 1 .. Len(queue_lo') : /\ queue_lo'[i] = queue_lo[i + 1]
                                            /\ i + 1 \in 1 .. Len(queue_lo)
      BY <2>1, <2>3, TakeHead
    <3> QED
      BY <2>1, <3>1 DEF NoSentinels
  <2> QED
    BY <1>1, <2>2, <2>3 DEF Takes3
<1>3. Len(hi) <= InputCap
  <2>1. queue_hi \in Seq(Packet) /\ Len(queue_hi) <= InputCap /\ InputCap \in Nat
    BY SwitchAssumption DEF TypeOK
  <2>2. CASE hi = queue_hi
    BY <2>1, <2>2
  <2>3. CASE queue_hi # << >> /\ hi = Tail(queue_hi)
    <3>1. Len(queue_hi) \in Nat /\ Len(hi) = Len(queue_hi) - 1
      BY <2>1, <2>3, TakeHead
    <3> QED
      BY <2>1, <3>1
  <2>4. CASE hi = << >>
    BY <2>1, <2>4
  <2> QED
    BY <1>1, <2>2, <2>3, <2>4 DEF Takes3
<1>4. queue_hi' \in Seq(Packet) /\ Len(queue_hi') <= InputCap
  <2>1. PICK q \in Packet : q = [pkt EXCEPT !.entry = 0]
    <3>1. 0 \in 0 .. Externs
      BY SwitchAssumption
    <3>2. [pkt EXCEPT !.entry = 0] \in Packet
      BY <3>1 DEF Packet
    <3> QED
      BY <3>2
  <2>2. PushHi(hi, q) \in Seq(Packet) /\ Len(PushHi(hi, q)) <= InputCap
    BY <1>3, PushHiFacts
  <2> QED
    BY <1>1, <1>3, <2>1, <2>2
<1>5. /\ priority_input_buffer' \in Seq(Packet) /\ Len(priority_input_buffer') <= MaxBacklog
      /\ \A i \in 1 .. Len(priority_input_buffer') : ~IsNull(priority_input_buffer'[i])
  <2>1. PICK g \in Seq(Packet) :
          /\ g = Generated(pkt, gen) /\ Len(g) = Cardinality(gen) /\ Cardinality(gen) \in Nat
          /\ \A n \in 1 .. Len(g) : g[n].id = pkt.id
    BY GeneratedFacts
  <2>2. \A i \in 1 .. Len(rest) : ~IsNull(rest[i])
    <3>1. CASE priority_input_buffer # << >> /\ rest = Tail(priority_input_buffer)
      <4>1. \A i \in 1 .. Len(rest) : /\ rest[i] = priority_input_buffer[i + 1]
                                      /\ i + 1 \in 1 .. Len(priority_input_buffer)
        BY <3>1, TakeHead DEF TypeOK
      <4> QED
        BY <4>1 DEF NoSentinels
    <3>2. CASE rest = << >>
      BY <3>2
    <3> QED
      BY <1>1, <3>1, <3>2 DEF Takes3
  <2>3. /\ rest \o g \in Seq(Packet) /\ Len(rest \o g) = Len(rest) + Len(g)
        /\ Len(rest) \in Nat /\ Len(g) \in Nat
        /\ \A i \in 1 .. Len(rest) : (rest \o g)[i] = rest[i]
        /\ \A i \in Len(rest) + 1 .. Len(rest) + Len(g) :
             (rest \o g)[i] = g[i - Len(rest)] /\ i - Len(rest) \in 1 .. Len(g)
    BY Concat
  <2>4. \A i \in 1 .. Len(rest) + Len(g) : i \in 1 .. Len(rest) \/ i \in Len(rest) + 1 .. Len(rest) + Len(g)
    BY <2>3
  <2>5. \A i \in 1 .. Len(rest \o g) : ~IsNull((rest \o g)[i])
    BY <1>1, <2>1, <2>2, <2>3, <2>4 DEF IsNull
  <2>6. priority_input_buffer' = rest \o g
    BY <1>1, <2>1
  <2> QED
    BY <1>1, <2>1, <2>3, <2>5, <2>6
<1>6. TypeOK'
  BY <1>1, <1>2, <1>4, <1>5 DEF TypeOK
<1> QED
  BY <1>2, <1>5, <1>6 DEF NoSentinels

(* A step of an egress worker keeps the types. *)
LEMMA EgressStepTyped ==
    ASSUME Typed, NEW w \in Workers, NEW pkt \in Packet, NEW clone \in Packet,
           EgressStep(w, pkt, clone)
    PROVE  Typed'
<1> USE DEF Typed
<1>1. /\ egress_buffers' \in [Workers -> Seq(Packet)]
      /\ held' = held \/ held' = [held EXCEPT ![w] = pkt]
      /\ queue_hi' = queue_hi \/ queue_hi' = PushHi(queue_hi, clone)
      /\ detours' \in 0 .. MaxDetours
      /\ UNCHANGED <<queue_lo, priority_input_buffer, output_buffer, running, stop, arrivals>>
  BY DEF EgressStep, Adds
<1>2. queue_hi' \in Seq(Packet) /\ Len(queue_hi') <= InputCap
  BY <1>1, PushHiFacts DEF TypeOK
<1>3. held' \in [Workers -> Packet]
  BY <1>1 DEF TypeOK
<1>4. TypeOK'
  BY <1>1, <1>2, <1>3 DEF TypeOK
<1> QED
  BY <1>1, <1>4 DEF NoSentinels

(* The queues keep their types and bounds. *)
LEMMA TypedStep ==
    ASSUME Typed, [Next]_vars
    PROVE  Typed'
<1> USE SwitchAssumption DEF Typed
<1>1. CASE Receive
  <2>1. PICK pkt : pkt = [id |-> arrivals + 1, entry |-> 0, late |-> FALSE, port |-> 0]
    OBVIOUS
  <2>2. pkt \in Packet /\ ~IsNull(pkt) /\ arrivals + 1 \in 0 .. MaxArrivals
    <3>1. arrivals + 1 \in 0 .. MaxArrivals /\ arrivals + 1 # 0
      BY <1>1 DEF Receive, TypeOK
    <3> QED
      BY <2>1, <3>1, PortFacts DEF Packet, IsNull
  <2>3. /\ queue_lo' = Append(queue_lo, pkt) /\ Len(queue_lo) < InputCap
        /\ queue_lo \in Seq(Packet)
    BY <1>1, <2>1 DEF Receive, TypeOK
  <2>4. /\ queue_lo' \in Seq(Packet) /\ Len(queue_lo) \in Nat /\ Len(queue_lo') = Len(queue_lo) + 1
        /\ \A i \in 1 .. Len(queue_lo) : queue_lo'[i] = queue_lo[i]
        /\ queue_lo'[Len(queue_lo) + 1] = pkt
    BY <2>2, <2>3, PutLast
  <2>5. Len(queue_lo') <= InputCap
    BY <2>3, <2>4
  <2>6. \A i \in 1 .. Len(queue_lo') : ~IsNull(queue_lo'[i])
    <3>1. \A i \in 1 .. Len(queue_lo') : i \in 1 .. Len(queue_lo) \/ i = Len(queue_lo) + 1
      BY <2>4
    <3> QED
      BY <2>2, <2>4, <3>1 DEF NoSentinels
  <2>7. TypeOK'
    BY <1>1, <2>2, <2>4, <2>5 DEF TypeOK, Receive
  <2> QED
    BY <1>1, <2>6, <2>7 DEF Receive, NoSentinels
<1>2. CASE IngressDrop \/ IngressForward \/ IngressMulticast \/ IngressResubmit
  <2>1. PICK pkt \in Packet, rest \in Seq(Packet), hi \in Seq(Packet),
             gen \in SUBSET (1 .. Externs) : IngressStep(pkt, rest, hi, gen)
    BY <1>2, IngressSteps
  <2> QED
    BY <2>1, IngressStepTyped
<1>3. CASE IngressEnd
  <2>1. queue_hi # << >> /\ queue_hi' = Tail(queue_hi)
    <3>1. CASE Takes = "priority"
      <4>1. priority_input_buffer # << >> /\ Taken = Head(priority_input_buffer)
        BY <3>1 DEF Takes, Taken
      <4>2. Taken = priority_input_buffer[1] /\ 1 \in 1 .. Len(priority_input_buffer)
        BY <4>1, TakeHead DEF TypeOK
      <4> QED
        BY <1>3, <4>2 DEF IngressEnd, NoSentinels
    <3>2. CASE Takes = "lo"
      <4>1. queue_lo # << >> /\ Taken = Head(queue_lo)
        BY <3>2 DEF Takes, Taken
      <4>2. Taken = queue_lo[1] /\ 1 \in 1 .. Len(queue_lo)
        BY <4>1, TakeHead DEF TypeOK
      <4> QED
        BY <1>3, <4>2 DEF IngressEnd, NoSentinels
    <3> QED
      BY <1>3, <3>1, <3>2 DEF IngressEnd, Takes
  <2>2. queue_hi' \in Seq(Packet) /\ Len(queue_hi') = Len(queue_hi) - 1 /\ Len(queue_hi) \in Nat
    BY <2>1, TakeHead DEF TypeOK
  <2>3. Len(queue_hi') <= InputCap
    BY <2>2 DEF TypeOK
  <2>4. running' \subseteq Threads
    BY <1>3 DEF IngressEnd, TypeOK
  <2>5. TypeOK'
    BY <1>3, <2>2, <2>3, <2>4 DEF TypeOK, IngressEnd
  <2> QED
    BY <1>3, <2>5 DEF IngressEnd, NoSentinels
<1>4. ASSUME NEW w \in Workers, EgressApply(w) \/ EgressRecirculate(w)
      PROVE  Typed'
  <2>1. PICK pkt \in Packet, clone \in Packet : EgressStep(w, pkt, clone)
    BY <1>4, EgressSteps
  <2> QED
    BY <2>1, EgressStepTyped
<1>5. ASSUME NEW w \in Workers, EgressEnd(w)
      PROVE  Typed'
  <2>1. /\ egress_buffers[w] # << >> /\ egress_buffers' = EgressLeft(w)
        /\ running' = running \ {w}
        /\ UNCHANGED <<queue_lo, queue_hi, priority_input_buffer, held, output_buffer, stop,
                       arrivals, detours>>
    BY <1>5 DEF EgressEnd, EgressTakes
  <2>2. egress_buffers' \in [Workers -> Seq(Packet)]
    BY <2>1, EgressLeftFacts
  <2>3. TypeOK'
    BY <2>1, <2>2 DEF TypeOK
  <2> QED
    BY <2>1, <2>3 DEF NoSentinels
<1>6. ASSUME NEW w \in Workers, EgressOutput(w)
      PROVE  Typed'
  <2>1. /\ Len(output_buffer) < OutputCap /\ output_buffer' = Append(output_buffer, held[w])
        /\ held' = [held EXCEPT ![w] = nullptr(w)]
        /\ UNCHANGED <<queue_lo, queue_hi, priority_input_buffer, egress_buffers, running,
                       stop, arrivals, detours>>
    BY <1>6 DEF EgressOutput
  <2>2. held[w] \in Packet /\ nullptr(w) \in Packet
    <3>1. held[w] \in Packet
      BY DEF TypeOK
    <3>2. nullptr(w) \in Packet
      BY PortFacts DEF nullptr, Packet
    <3> QED
      BY <3>1, <3>2
  <2>3. output_buffer' \in Seq(Packet) /\ Len(output_buffer') <= OutputCap
    <3>1. /\ output_buffer' \in Seq(Packet) /\ Len(output_buffer) \in Nat
          /\ Len(output_buffer') = Len(output_buffer) + 1
      BY <2>1, <2>2, PutLast DEF TypeOK
    <3> QED
      BY <2>1, <3>1
  <2>4. held' \in [Workers -> Packet]
    BY <2>1, <2>2 DEF TypeOK
  <2>5. TypeOK'
    BY <2>1, <2>3, <2>4 DEF TypeOK
  <2> QED
    BY <2>1, <2>5 DEF NoSentinels
<1>7. CASE Transmit \/ TransmitEnd
  <2>1. /\ output_buffer # << >> /\ output_buffer' = Tail(output_buffer)
        /\ running' \in SUBSET running
        /\ UNCHANGED <<queue_lo, queue_hi, priority_input_buffer, egress_buffers, held,
                       stop, arrivals, detours>>
    BY <1>7 DEF Transmit, TransmitEnd, TransmitTakes
  <2>2. output_buffer' \in Seq(Packet) /\ Len(output_buffer') <= OutputCap
    <3>1. /\ output_buffer' \in Seq(Packet) /\ Len(output_buffer) \in Nat
          /\ Len(output_buffer') = Len(output_buffer) - 1
      BY <2>1, TakeHead DEF TypeOK
    <3> QED
      BY <3>1 DEF TypeOK
  <2>3. TypeOK'
    BY <2>1, <2>2 DEF TypeOK
  <2> QED
    BY <2>1, <2>3 DEF NoSentinels
<1>8. nullptr(0) \in Packet
  BY PortFacts DEF nullptr, Packet
<1>9. CASE StopIngress
  <2>1. queue_hi' \in Seq(Packet) /\ Len(queue_hi') <= InputCap
    <3>1. /\ queue_hi' \in Seq(Packet) /\ Len(queue_hi) \in Nat
          /\ Len(queue_hi') = Len(queue_hi) + 1
      BY <1>8, <1>9, PutLast DEF TypeOK, StopIngress
    <3> QED
      BY <1>9, <3>1 DEF StopIngress
  <2>2. stop' \in Idle .. SentTransmit
    BY <1>9 DEF StopIngress, Idle, SentTransmit, SentWorkers, SentIngress
  <2>3. TypeOK'
    BY <1>9, <2>1, <2>2 DEF TypeOK, StopIngress
  <2> QED
    BY <1>9, <2>3 DEF StopIngress, NoSentinels
<1>10. CASE StopWorker
  <2>1. PICK p \in Ports : p = stop - SentIngress
    BY <1>10 DEF StopWorker, SentIngress, SentWorkers, Ports
  <2>2. Adds(egress_buffers, egress_buffers', nullptr(0))
    BY <1>8, <1>10, <2>1, EnqueueAdds DEF StopWorker, TypeOK
  <2>3. stop' \in Idle .. SentTransmit
    BY <1>10 DEF StopWorker, Idle, SentTransmit, SentWorkers, SentIngress
  <2>4. TypeOK'
    BY <1>10, <2>2, <2>3 DEF TypeOK, StopWorker, Adds
  <2> QED
    BY <1>10, <2>4 DEF StopWorker, NoSentinels
<1>11. CASE StopTransmit
  <2>1. output_buffer' \in Seq(Packet) /\ Len(output_buffer') <= OutputCap
    <3>1. /\ output_buffer' \in Seq(Packet) /\ Len(output_buffer) \in Nat
          /\ Len(output_buffer') = Len(output_buffer) + 1
      BY <1>8, <1>11, PutLast DEF TypeOK, StopTransmit
    <3> QED
      BY <1>11, <3>1 DEF StopTransmit
  <2>2. stop' \in Idle .. SentTransmit
    BY <1>11 DEF StopTransmit, Idle, SentTransmit, SentWorkers, SentIngress
  <2>3. TypeOK'
    BY <1>11, <2>1, <2>2 DEF TypeOK, StopTransmit
  <2> QED
    BY <1>11, <2>3 DEF StopTransmit, NoSentinels
<1>12. CASE UNCHANGED vars
  BY <1>12 DEF vars, queues, TypeOK, NoSentinels
<1> QED
  BY <1>1, <1>2, <1>3, <1>4, <1>5, <1>6, <1>7, <1>9, <1>10, <1>11, <1>12
     DEF Next, Ingress, Egress, Stop

(* The switch starts well typed. *)
LEMMA TypedInit == Init => Typed
<1> SUFFICES ASSUME Init PROVE Typed
  OBVIOUS
<1>1. \A w \in Workers : nullptr(w) \in Packet
  BY SwitchAssumption, PortFacts DEF nullptr, Packet
<1>2. stop \in Idle .. SentTransmit
  BY SwitchAssumption DEF Init, Idle, SentTransmit, SentWorkers, SentIngress
<1>3. << >> \in Seq(Packet) /\ Len(<< >>) = 0
  OBVIOUS
<1>4. TypeOK
  BY <1>1, <1>2, <1>3, SwitchAssumption DEF Init, TypeOK
<1>5. NoSentinels
  BY DEF Init, NoSentinels
<1> QED
  BY <1>4, <1>5 DEF Typed

(* The queues of the switch keep their types and their capacities, and no  *)
(* thread takes from an empty one.                                         *)
THEOREM SwitchTyped == Spec => []TypeOK
<1>1. Typed /\ [Next]_vars => Typed'
  BY TypedStep
<1>2. Typed => TypeOK
  BY DEF Typed
<1> QED
  BY <1>1, <1>2, TypedInit, PTL DEF Spec

-----------------------------------------------------------------------------
(* One arrival at a time. *)

(* The priority queue after a packet has gone through the ingress          *)
(* pipeline: what is left of it, then what the externs have generated.     *)
RestOrMadeOf(q, rest, pkt) ==
    \A i \in 1 .. Len(q) : \/ i \in 1 .. Len(rest) /\ q[i] = rest[i]
                           \/ q[i].id = pkt.id /\ q[i].late = pkt.late

(* What a step leaves in the priority input buffer. *)
LEMMA PriorityAfter ==
    ASSUME NEW pkt \in Packet, NEW rest \in Seq(Packet), NEW gen \in SUBSET (1 .. Externs),
           NEW q, q = rest \o Generated(pkt, gen)
    PROVE  RestOrMadeOf(q, rest, pkt)
<1>1. PICK g \in Seq(Packet) :
        /\ g = Generated(pkt, gen)
        /\ \A n \in 1 .. Len(g) : g[n].id = pkt.id /\ g[n].late = pkt.late
  BY GeneratedFacts
<1>2. /\ Len(rest \o g) = Len(rest) + Len(g) /\ Len(rest) \in Nat /\ Len(g) \in Nat
      /\ \A i \in 1 .. Len(rest) : (rest \o g)[i] = rest[i]
      /\ \A i \in Len(rest) + 1 .. Len(rest) + Len(g) :
           (rest \o g)[i] = g[i - Len(rest)] /\ i - Len(rest) \in 1 .. Len(g)
  BY Concat
<1>3. \A i \in 1 .. Len(rest) + Len(g) :
        i \in 1 .. Len(rest) \/ i \in Len(rest) + 1 .. Len(rest) + Len(g)
  BY <1>2
<1> QED
  BY <1>1, <1>2, <1>3 DEF RestOrMadeOf

(* Every step keeps the arrivals apart. *)
LEMMA OneArrivalStep ==
    ASSUME Typed, OneArrivalAtATime, [Next]_vars
    PROVE  OneArrivalAtATime'
<1>1. CASE UNCHANGED priority_input_buffer
  BY <1>1 DEF OneArrivalAtATime
<1>2. CASE IngressDrop \/ IngressForward \/ IngressMulticast \/ IngressResubmit
  <2>1. PICK pkt \in Packet, rest \in Seq(Packet), hi \in Seq(Packet),
             gen \in SUBSET (1 .. Externs) : IngressStep(pkt, rest, hi, gen)
    BY <1>2, IngressSteps DEF Typed
  <2>2. \A i \in 1 .. Len(rest) : rest[i].id = pkt.id
    <3>1. CASE /\ priority_input_buffer # << >> /\ pkt = Head(priority_input_buffer)
               /\ rest = Tail(priority_input_buffer)
      <4>1. /\ pkt = priority_input_buffer[1] /\ 1 \in 1 .. Len(priority_input_buffer)
            /\ \A i \in 1 .. Len(rest) : /\ rest[i] = priority_input_buffer[i + 1]
                                         /\ i + 1 \in 1 .. Len(priority_input_buffer)
        BY <3>1, TakeHead DEF Typed, TypeOK
      <4> QED
        BY <4>1 DEF OneArrivalAtATime
    <3>2. CASE rest = << >>
      BY <3>2
    <3> QED
      BY <2>1, <3>1, <3>2 DEF IngressStep, Takes3
  <2>3. PICK q : q = priority_input_buffer' /\ q = rest \o Generated(pkt, gen)
    BY <2>1 DEF IngressStep
  <2>4. RestOrMadeOf(q, rest, pkt)
    <3>1. pkt \in Packet /\ rest \in Seq(Packet) /\ gen \in SUBSET (1 .. Externs)
      BY <2>1
    <3>2. q = rest \o Generated(pkt, gen)
      BY <2>3
    <3> QED
      BY ONLY <3>1, <3>2, PriorityAfter
  <2>5. \A i \in 1 .. Len(q) : q[i].id = pkt.id
    BY <2>2, <2>4 DEF RestOrMadeOf
  <2> QED
    BY <2>3, <2>5 DEF OneArrivalAtATime
<1>3. UNCHANGED priority_input_buffer \/ IngressDrop \/ IngressForward \/ IngressMulticast
        \/ IngressResubmit
  BY DEF Next, vars, queues, Receive, Ingress, IngressEnd, Egress, EgressApply,
         EgressRecirculate, EgressEnd, EgressTakes, EgressOutput, Transmit, TransmitEnd,
         TransmitTakes, StopIngress, Stop, StopWorker, StopTransmit
<1> QED
  BY <1>1, <1>2, <1>3

(* The externs see the packets of one arrival at a time, since the ingress *)
(* thread takes what they generate before it takes anything else.          *)
THEOREM ArrivalsOneAtATime == Spec => []OneArrivalAtATime
<1>1. Typed /\ OneArrivalAtATime /\ [Next]_vars => Typed' /\ OneArrivalAtATime'
  BY TypedStep, OneArrivalStep
<1>2. Init => Typed /\ OneArrivalAtATime
  BY TypedInit DEF Init, OneArrivalAtATime
<1> QED
  BY <1>1, <1>2, PTL DEF Spec

-----------------------------------------------------------------------------
(* The order of arrival. *)

(* Every packet of the larger buffers is one of the smaller or a copy. *)
OldOrCopy(b, c, pkt, w, j) ==
    \/ j \in 1 .. Len(b[w]) /\ c[w][j] = b[w][j]
    \/ /\ j > Len(b[w]) /\ c[w][j].id = pkt.id /\ WorkerOf(c[w][j].port) = w
       /\ Counts(c[w][j]) <=> Counts(pkt)

(* A packet of a longer queue was there before or is new. *)
LEMMA AddsCases ==
    ASSUME NEW b \in [Workers -> Seq(Packet)], NEW c, NEW pkt, Adds(b, c, pkt),
           NEW w \in Workers, NEW j \in 1 .. Len(c[w])
    PROVE  OldOrCopy(b, c, pkt, w, j)
<1>1. Len(b[w]) \in Nat
  OBVIOUS
<1>2. j \in 1 .. Len(b[w]) \/ j \in Len(b[w]) + 1 .. Len(c[w])
  BY <1>1
<1>3. CASE j \in 1 .. Len(b[w])
  BY <1>1, <1>3 DEF Adds, OldOrCopy
<1>4. CASE j \in Len(b[w]) + 1 .. Len(c[w])
  <2>1. c[w][j].id = pkt.id /\ c[w][j].late = pkt.late /\ WorkerOf(c[w][j].port) = w
    BY <1>4 DEF Adds
  <2> QED
    BY <1>1, <1>4, <2>1 DEF Counts, IsNull, OldOrCopy
<1> QED
  BY <1>2, <1>3, <1>4

(* Copies of a packet that is not earlier than what leaves do not disturb  *)
(* the order.                                                              *)
LEMMA OrderGrows ==
    ASSUME NEW o \in Seq(Packet), NEW h \in [Workers -> Packet],
           NEW b \in [Workers -> Seq(Packet)], NEW c, NEW pkt \in Packet, Adds(b, c, pkt),
           OwnPorts(h, b), PortOrder(o, h, b),
           Counts(pkt) => LeavingUpTo(pkt.id, o, h, b)
    PROVE  OwnPorts(h, c) /\ PortOrder(o, h, c)
<1>0. \A w \in Workers : \A j \in 1 .. Len(c[w]) : OldOrCopy(b, c, pkt, w, j)
  BY AddsCases
<1>1. OwnPorts(h, c)
  <2> SUFFICES ASSUME NEW w \in Workers, NEW j \in 1 .. Len(c[w])
               PROVE  WorkerOf(c[w][j].port) = w
    BY DEF OwnPorts
  <2> QED
    BY <1>0 DEF OwnPorts, OldOrCopy
<1>2. ASSUME NEW w \in Workers, NEW i \in 1 .. Len(o), NEW j \in 1 .. Len(c[w]),
             SamePort(o[i], c[w][j])
      PROVE  o[i].id <= c[w][j].id
  <2>1. CASE j \in 1 .. Len(b[w]) /\ c[w][j] = b[w][j]
    BY <1>2, <2>1 DEF PortOrder
  <2>2. CASE c[w][j].id = pkt.id /\ (Counts(c[w][j]) <=> Counts(pkt))
    BY <1>2, <2>2 DEF SamePort, LeavingUpTo
  <2> QED
    BY <1>0, <2>1, <2>2 DEF OldOrCopy
<1>3. ASSUME NEW w \in Workers, NEW j \in 1 .. Len(c[w]), SamePort(h[w], c[w][j])
      PROVE  h[w].id <= c[w][j].id
  <2>1. CASE j \in 1 .. Len(b[w]) /\ c[w][j] = b[w][j]
    BY <1>3, <2>1 DEF PortOrder
  <2>2. CASE c[w][j].id = pkt.id /\ (Counts(c[w][j]) <=> Counts(pkt))
    BY <1>3, <2>2 DEF SamePort, LeavingUpTo
  <2> QED
    BY <1>0, <2>1, <2>2 DEF OldOrCopy
<1>4. ASSUME NEW w \in Workers, NEW i \in 1 .. Len(c[w]), NEW j \in 1 .. Len(c[w]),
             i < j, SamePort(c[w][i], c[w][j])
      PROVE  c[w][i].id <= c[w][j].id
  <2>1. /\ Len(b[w]) \in Nat
        /\ \/ i \in 1 .. Len(b[w]) /\ c[w][i] = b[w][i]
           \/ i > Len(b[w]) /\ c[w][i].id = pkt.id
    BY <1>0 DEF OldOrCopy
  <2>2. \/ j \in 1 .. Len(b[w]) /\ c[w][j] = b[w][j]
        \/ /\ j > Len(b[w]) /\ c[w][j].id = pkt.id
           /\ Counts(c[w][j]) <=> Counts(pkt)
    BY <1>0 DEF OldOrCopy
  <2>3. CASE j \in 1 .. Len(b[w]) /\ c[w][j] = b[w][j]
    BY <1>4, <2>1, <2>3 DEF PortOrder
  <2>4. CASE /\ i \in 1 .. Len(b[w]) /\ c[w][i] = b[w][i]
             /\ c[w][j].id = pkt.id
             /\ Counts(c[w][j]) <=> Counts(pkt)
    BY <1>4, <2>4 DEF SamePort, LeavingUpTo
  <2>5. CASE c[w][i].id = pkt.id /\ c[w][j].id = pkt.id
    BY <2>5 DEF Packet
  <2> QED
    BY <2>1, <2>2, <2>3, <2>4, <2>5
<1> QED
  BY <1>1, <1>2, <1>3, <1>4 DEF PortOrder

(* A packet of the current arrival may join those that leave. *)
LEMMA UpToGrows ==
    ASSUME NEW o, NEW h, NEW b \in [Workers -> Seq(Packet)], NEW c, NEW pkt, Adds(b, c, pkt),
           NEW e, LeavingUpTo(e, o, h, b), Counts(pkt) => pkt.id <= e
    PROVE  LeavingUpTo(e, o, h, c)
<1> SUFFICES ASSUME NEW w \in Workers, NEW j \in 1 .. Len(c[w]), Counts(c[w][j])
             PROVE  c[w][j].id <= e
  BY DEF LeavingUpTo
<1>1. OldOrCopy(b, c, pkt, w, j)
  BY AddsCases
<1> QED
  BY <1>1 DEF LeavingUpTo, OldOrCopy

(* A worker takes a packet, and drops or holds it. *)
LEMMA OrderTaken ==
    ASSUME NEW o \in Seq(Packet), NEW h \in [Workers -> Packet],
           NEW b \in [Workers -> Seq(Packet)], NEW w \in Workers, b[w] # << >>,
           NEW d \in [Workers -> Seq(Packet)], d[w] = Tail(b[w]),
           \A v \in Workers \ {w} : d[v] = b[v],
           NEW g, g = h \/ g = [h EXCEPT ![w] = Head(b[w])],
           OwnPorts(h, b), PortOrder(o, h, b)
    PROVE  /\ OwnPorts(g, d) /\ PortOrder(o, g, d)
           /\ \A e : LeavingUpTo(e, o, h, b) => LeavingUpTo(e, o, g, d)
<1>1. /\ Head(b[w]) = b[w][1] /\ Len(b[w]) \in Nat /\ Len(b[w]) >= 1
      /\ \A i \in 1 .. Len(d[w]) : d[w][i] = b[w][i + 1] /\ i + 1 \in 1 .. Len(b[w])
  <2>1. b[w] \in Seq(Packet)
    OBVIOUS
  <2> QED
    BY <2>1, TakeHead
<1>2. ASSUME NEW v \in Workers, NEW i \in 1 .. Len(d[v])
      PROVE  \E k \in 1 .. Len(b[v]) : /\ d[v][i] = b[v][k]
                                       /\ k = IF v = w THEN i + 1 ELSE i
  BY <1>1
<1>3. ASSUME NEW v \in Workers
      PROVE  \/ g[v] = h[v]
             \/ v = w /\ g[v] = b[w][1] /\ 1 \in 1 .. Len(b[w])
  BY <1>1
<1>4. OwnPorts(g, d)
  BY <1>2, <1>3 DEF OwnPorts
<1>5. ASSUME NEW v \in Workers, NEW i \in 1 .. Len(o), SamePort(o[i], g[v])
      PROVE  o[i].id <= g[v].id
  BY <1>3, <1>5 DEF PortOrder
<1>6. ASSUME NEW v \in Workers, NEW i \in 1 .. Len(o), NEW j \in 1 .. Len(d[v]),
             SamePort(o[i], d[v][j])
      PROVE  o[i].id <= d[v][j].id
  BY <1>2, <1>6 DEF PortOrder
<1>7. ASSUME NEW v \in Workers, NEW j \in 1 .. Len(d[v]), SamePort(g[v], d[v][j])
      PROVE  g[v].id <= d[v][j].id
  <2>1. PICK k \in 1 .. Len(b[v]) : d[v][j] = b[v][k] /\ k = IF v = w THEN j + 1 ELSE j
    BY <1>2
  <2>2. CASE g[v] = h[v]
    BY <1>7, <2>1, <2>2 DEF PortOrder
  <2>3. CASE v = w /\ g[v] = b[w][1] /\ 1 \in 1 .. Len(b[w])
    <3>1. 1 < k
      BY <2>1, <2>3
    <3> QED
      BY <1>7, <2>1, <2>3, <3>1 DEF PortOrder
  <2> QED
    BY <1>3, <2>2, <2>3
<1>8. ASSUME NEW v \in Workers, NEW i \in 1 .. Len(d[v]), NEW j \in 1 .. Len(d[v]), i < j,
             SamePort(d[v][i], d[v][j])
      PROVE  d[v][i].id <= d[v][j].id
  <2>1. PICK k \in 1 .. Len(b[v]) : d[v][i] = b[v][k] /\ k = IF v = w THEN i + 1 ELSE i
    BY <1>2
  <2>2. PICK m \in 1 .. Len(b[v]) : d[v][j] = b[v][m] /\ m = IF v = w THEN j + 1 ELSE j
    BY <1>2
  <2>3. k < m
    BY <1>8, <2>1, <2>2
  <2> QED
    BY <1>8, <2>1, <2>2, <2>3 DEF PortOrder
<1>9. PortOrder(o, g, d)
  <2>1. \A i, j \in 1 .. Len(o) : i < j /\ SamePort(o[i], o[j]) => o[i].id <= o[j].id
    BY DEF PortOrder
  <2> QED
    BY <1>5, <1>6, <1>7, <1>8, <2>1 DEF PortOrder
<1>10. ASSUME NEW e, LeavingUpTo(e, o, h, b) PROVE LeavingUpTo(e, o, g, d)
  <2>1. ASSUME NEW v \in Workers, Counts(g[v]) PROVE g[v].id <= e
    BY <1>3, <1>10, <2>1 DEF LeavingUpTo
  <2>2. ASSUME NEW v \in Workers, NEW i \in 1 .. Len(d[v]), Counts(d[v][i])
        PROVE  d[v][i].id <= e
    BY <1>2, <1>10, <2>2 DEF LeavingUpTo
  <2> QED
    BY <1>10, <2>1, <2>2 DEF LeavingUpTo
<1> QED
  BY <1>4, <1>9, <1>10

(* A worker puts the packet it holds into the output buffer. *)
LEMMA OrderOutput ==
    ASSUME NEW o \in Seq(Packet), NEW h \in [Workers -> Packet],
           NEW b \in [Workers -> Seq(Packet)], NEW w \in Workers,
           NEW q, q = Append(o, h[w]), NEW g, g = [h EXCEPT ![w] = nullptr(w)],
           OwnPorts(h, b), PortOrder(o, h, b)
    PROVE  /\ OwnPorts(g, b) /\ PortOrder(q, g, b)
           /\ \A e : LeavingUpTo(e, o, h, b) => LeavingUpTo(e, q, g, b)
<1>1. /\ Len(o) \in Nat /\ Len(q) = Len(o) + 1 /\ q[Len(o) + 1] = h[w]
      /\ \A i \in 1 .. Len(o) : q[i] = o[i]
  <2>1. h[w] \in Packet
    OBVIOUS
  <2> QED
    BY <2>1, PutLast
<1>2. ASSUME NEW i \in 1 .. Len(q)
      PROVE  \/ i \in 1 .. Len(o) /\ q[i] = o[i]
             \/ i = Len(o) + 1 /\ q[i] = h[w]
  BY <1>1
<1>3. g[w] = nullptr(w) /\ \A v \in Workers \ {w} : g[v] = h[v]
  OBVIOUS
<1>4. ~Counts(g[w]) /\ WorkerOf(g[w].port) = w
  BY <1>3, PortFacts DEF nullptr, Counts, IsNull
<1>5. OwnPorts(g, b)
  BY <1>3, <1>4 DEF OwnPorts
<1>6. ASSUME NEW i \in 1 .. Len(q), NEW j \in 1 .. Len(q), i < j, SamePort(q[i], q[j])
      PROVE  q[i].id <= q[j].id
  <2>1. i \in 1 .. Len(o) /\ q[i] = o[i]
    BY <1>1, <1>6
  <2>2. CASE j \in 1 .. Len(o) /\ q[j] = o[j]
    BY <1>6, <2>1, <2>2 DEF PortOrder
  <2>3. CASE q[j] = h[w]
    BY <1>6, <2>1, <2>3 DEF PortOrder
  <2> QED
    BY <1>2, <2>2, <2>3
<1>7. ASSUME NEW v \in Workers, NEW i \in 1 .. Len(q), SamePort(q[i], g[v])
      PROVE  q[i].id <= g[v].id
  <2>1. v # w /\ g[v] = h[v]
    BY <1>3, <1>4, <1>7 DEF SamePort
  <2>2. CASE i \in 1 .. Len(o) /\ q[i] = o[i]
    BY <1>7, <2>1, <2>2 DEF PortOrder
  <2>3. CASE q[i] = h[w]
    BY <1>7, <2>1, <2>3 DEF SamePort, OwnPorts
  <2> QED
    BY <1>2, <2>2, <2>3
<1>8. ASSUME NEW v \in Workers, NEW i \in 1 .. Len(q), NEW j \in 1 .. Len(b[v]),
             SamePort(q[i], b[v][j])
      PROVE  q[i].id <= b[v][j].id
  <2>1. CASE i \in 1 .. Len(o) /\ q[i] = o[i]
    BY <1>8, <2>1 DEF PortOrder
  <2>2. CASE q[i] = h[w]
    <3>1. v = w
      BY <1>8, <2>2 DEF SamePort, OwnPorts
    <3> QED
      BY <1>8, <2>2, <3>1 DEF PortOrder
  <2> QED
    BY <1>2, <2>1, <2>2
<1>9. ASSUME NEW v \in Workers, NEW j \in 1 .. Len(b[v]), SamePort(g[v], b[v][j])
      PROVE  g[v].id <= b[v][j].id
  <2>1. g[v] = h[v]
    BY <1>3, <1>4, <1>9 DEF SamePort
  <2> QED
    BY <1>9, <2>1 DEF PortOrder
<1>10. PortOrder(q, g, b)
  <2>1. ASSUME NEW v \in Workers, NEW i \in 1 .. Len(b[v]), NEW j \in 1 .. Len(b[v]), i < j,
               SamePort(b[v][i], b[v][j])
        PROVE  b[v][i].id <= b[v][j].id
    BY <2>1 DEF PortOrder
  <2> QED
    BY <1>6, <1>7, <1>8, <1>9, <2>1 DEF PortOrder
<1>11. ASSUME NEW e, LeavingUpTo(e, o, h, b) PROVE LeavingUpTo(e, q, g, b)
  <2>1. ASSUME NEW i \in 1 .. Len(q), Counts(q[i]) PROVE q[i].id <= e
    BY <1>2, <1>11, <2>1 DEF LeavingUpTo
  <2>2. ASSUME NEW v \in Workers, Counts(g[v]) PROVE g[v].id <= e
    BY <1>3, <1>4, <1>11, <2>2 DEF LeavingUpTo
  <2> QED
    BY <1>11, <2>1, <2>2 DEF LeavingUpTo
<1> QED
  BY <1>5, <1>10, <1>11

(* The output buffer loses its head, or gets a sentinel. *)
LEMMA OrderTransmit ==
    ASSUME NEW o \in Seq(Packet), NEW h \in [Workers -> Packet],
           NEW b \in [Workers -> Seq(Packet)],
           NEW q, (o # << >> /\ q = Tail(o)) \/ q = Append(o, nullptr(0)),
           nullptr(0) \in Packet, PortOrder(o, h, b)
    PROVE  /\ PortOrder(q, h, b)
           /\ \A e : LeavingUpTo(e, o, h, b) => LeavingUpTo(e, q, h, b)
<1>1. PICK d \in {0, 1} :
        \A i \in 1 .. Len(q) : \/ q[i] = o[i + d] /\ i + d \in 1 .. Len(o)
                               \/ ~Counts(q[i])
  <2>1. CASE o # << >> /\ q = Tail(o)
    BY <2>1, TakeHead
  <2>2. CASE q = Append(o, nullptr(0))
    <3>1. /\ Len(o) \in Nat /\ Len(q) = Len(o) + 1 /\ q[Len(o) + 1] = nullptr(0)
          /\ \A i \in 1 .. Len(o) : q[i] = o[i]
      BY <2>2, PutLast
    <3>2. ~Counts(nullptr(0))
      BY DEF Counts, IsNull, nullptr
    <3>3. \A i \in 1 .. Len(q) : \/ q[i] = o[i] /\ i \in 1 .. Len(o)
                                 \/ ~Counts(q[i])
      BY <3>1, <3>2
    <3> QED
      BY <3>3
  <2> QED
    BY <2>1, <2>2
<1>2. ASSUME NEW i \in 1 .. Len(q), NEW j \in 1 .. Len(q), i < j, SamePort(q[i], q[j])
      PROVE  q[i].id <= q[j].id
  <2>1. /\ q[i] = o[i + d] /\ i + d \in 1 .. Len(o)
        /\ q[j] = o[j + d] /\ j + d \in 1 .. Len(o)
    BY <1>1, <1>2 DEF SamePort
  <2>2. i + d < j + d
    BY <1>2
  <2> QED
    BY <1>2, <2>1, <2>2 DEF PortOrder
<1>3. ASSUME NEW v \in Workers, NEW i \in 1 .. Len(q), SamePort(q[i], h[v])
      PROVE  q[i].id <= h[v].id
  BY <1>1, <1>3 DEF PortOrder, SamePort
<1>4. ASSUME NEW v \in Workers, NEW i \in 1 .. Len(q), NEW j \in 1 .. Len(b[v]),
             SamePort(q[i], b[v][j])
      PROVE  q[i].id <= b[v][j].id
  BY <1>1, <1>4 DEF PortOrder, SamePort
<1>5. PortOrder(q, h, b)
  <2>1. ASSUME NEW v \in Workers, NEW i \in 1 .. Len(b[v]), NEW j \in 1 .. Len(b[v]), i < j,
               SamePort(b[v][i], b[v][j])
        PROVE  b[v][i].id <= b[v][j].id
    BY <2>1 DEF PortOrder
  <2>2. ASSUME NEW v \in Workers, NEW j \in 1 .. Len(b[v]), SamePort(h[v], b[v][j])
        PROVE  h[v].id <= b[v][j].id
    BY <2>2 DEF PortOrder
  <2> QED
    BY <1>2, <1>3, <1>4, <2>1, <2>2 DEF PortOrder
<1>6. ASSUME NEW e, LeavingUpTo(e, o, h, b) PROVE LeavingUpTo(e, q, h, b)
  BY <1>1, <1>6 DEF LeavingUpTo
<1> QED
  BY <1>5, <1>6

(* Packets that count have a number. *)
LEMMA Numbered == \A q \in Packet : q.id \in Nat /\ q.late \in BOOLEAN
BY SwitchAssumption DEF Packet

(* A queue that loses its head. *)
LEMMA AllOfTail ==
    ASSUME NEW q \in Seq(Packet), q # << >>, NEW c, AllOf(c, q)
    PROVE  AllOf(c, Tail(q)) /\ (Counts(Head(q)) => Head(q).id = c)
BY TakeHead DEF AllOf

(* The packet that the ingress thread takes is of the arrival whose turn   *)
(* it is: of the next one if it is a new arrival.                          *)
LEMMA TakenInTurn ==
    ASSUME Typed, NEW c \in Nat, InTurn(c), NEW pkt \in Packet,
           NEW rest \in Seq(Packet), NEW hi \in Seq(Packet), Takes3(pkt, rest, hi),
           UNCHANGED arrivals
    PROVE  \E e \in Nat : /\ e <= arrivals
                          /\ LeavingUpTo(e, output_buffer, held, egress_buffers)
                          /\ AllOf(e, rest) /\ AllOf(e, hi)
                          /\ NewArrivals(e, queue_lo)'
                          /\ Counts(pkt) => pkt.id = e
<1>1. /\ c <= arrivals /\ LeavingUpTo(c, output_buffer, held, egress_buffers)
      /\ AllOf(c, priority_input_buffer) /\ AllOf(c, queue_hi) /\ NewArrivals(c, queue_lo)
  BY DEF InTurn
<1>2. /\ priority_input_buffer \in Seq(Packet) /\ queue_hi \in Seq(Packet)
      /\ queue_lo \in Seq(Packet) /\ arrivals \in Nat
  BY SwitchAssumption DEF Typed, TypeOK
<1>3. \A e : AllOf(e, << >>)
  BY DEF AllOf
<1>4. CASE /\ priority_input_buffer # << >> /\ pkt = Head(priority_input_buffer)
           /\ rest = Tail(priority_input_buffer) /\ hi = queue_hi /\ queue_lo' = queue_lo
  <2>1. AllOf(c, rest) /\ (Counts(pkt) => pkt.id = c)
    BY <1>1, <1>2, <1>4, AllOfTail
  <2>2. NewArrivals(c, queue_lo)'
    BY <1>1, <1>4 DEF NewArrivals
  <2> QED
    BY <1>1, <1>4, <2>1, <2>2
<1>5. CASE /\ priority_input_buffer = << >> /\ queue_hi # << >> /\ pkt = Head(queue_hi)
           /\ rest = << >> /\ hi = Tail(queue_hi) /\ queue_lo' = queue_lo
  <2>1. AllOf(c, hi) /\ (Counts(pkt) => pkt.id = c)
    BY <1>1, <1>2, <1>5, AllOfTail
  <2>2. NewArrivals(c, queue_lo)'
    BY <1>1, <1>5 DEF NewArrivals
  <2> QED
    BY <1>1, <1>3, <1>5, <2>1, <2>2
<1>6. CASE /\ priority_input_buffer = << >> /\ queue_hi = << >> /\ queue_lo # << >>
           /\ pkt = Head(queue_lo)
           /\ rest = << >> /\ hi = << >> /\ queue_lo' = Tail(queue_lo)
  <2>1. PICK e \in Nat : e = pkt.id
    BY Numbered
  <2>2. /\ pkt = queue_lo[1] /\ 1 \in 1 .. Len(queue_lo)
        /\ \A i \in 1 .. Len(queue_lo') : /\ queue_lo'[i] = queue_lo[i + 1]
                                          /\ i + 1 \in 1 .. Len(queue_lo)
    BY <1>2, <1>6, TakeHead
  <2>3. c <= e /\ e <= arrivals
    BY <1>1, <2>1, <2>2 DEF NewArrivals
  <2>4. LeavingUpTo(e, output_buffer, held, egress_buffers)
    <3>1. ASSUME NEW q \in Packet, q.id <= c PROVE q.id <= e
      <4>1. q.id \in Nat
        BY Numbered
      <4> QED
        BY <2>3, <3>1, <4>1
    <3>2. /\ \A i \in 1 .. Len(output_buffer) : output_buffer[i] \in Packet
          /\ \A w \in Workers : /\ held[w] \in Packet
                                /\ \A i \in 1 .. Len(egress_buffers[w]) : egress_buffers[w][i] \in Packet
      BY DEF Typed, TypeOK
    <3> QED
      BY <1>1, <3>1, <3>2 DEF LeavingUpTo
  <2>5. NewArrivals(e, queue_lo)'
    <3>1. ASSUME NEW i \in 1 .. Len(queue_lo')
          PROVE  /\ e <= queue_lo'[i].id /\ queue_lo'[i].id <= arrivals'
                 /\ ~queue_lo'[i].late
      <4>1. queue_lo'[i] = queue_lo[i + 1] /\ i + 1 \in 1 .. Len(queue_lo) /\ 1 < i + 1
        BY <2>2
      <4> QED
        BY <1>1, <2>1, <2>2, <4>1 DEF NewArrivals
    <3>2. ASSUME NEW i \in 1 .. Len(queue_lo'), NEW j \in 1 .. Len(queue_lo'), i < j
          PROVE  queue_lo'[i].id <= queue_lo'[j].id
      <4>1. /\ queue_lo'[i] = queue_lo[i + 1] /\ i + 1 \in 1 .. Len(queue_lo)
            /\ queue_lo'[j] = queue_lo[j + 1] /\ j + 1 \in 1 .. Len(queue_lo) /\ i + 1 < j + 1
        BY <2>2, <3>2
      <4> QED
        BY <1>1, <4>1 DEF NewArrivals
    <3> QED
      BY <3>1, <3>2 DEF NewArrivals
  <2> QED
    BY <1>3, <1>6, <2>1, <2>3, <2>4, <2>5
<1> QED
  BY <1>4, <1>5, <1>6 DEF Takes3

(* A queue to which a packet of the same arrival is added, or one that     *)
(* does not count.                                                         *)
LEMMA AllOfAppend ==
    ASSUME NEW q \in Seq(Packet), NEW pkt \in Packet, NEW e, AllOf(e, q),
           Counts(pkt) => pkt.id = e
    PROVE  AllOf(e, Append(q, pkt))
<1>1. /\ Len(q) \in Nat /\ Len(Append(q, pkt)) = Len(q) + 1 /\ Append(q, pkt)[Len(q) + 1] = pkt
      /\ \A i \in 1 .. Len(q) : Append(q, pkt)[i] = q[i]
  BY PutLast
<1>2. \A i \in 1 .. Len(Append(q, pkt)) : i \in 1 .. Len(q) \/ i = Len(q) + 1
  BY <1>1
<1> QED
  BY <1>1, <1>2 DEF AllOf

(* A push keeps a queue to the packets of one arrival. *)
LEMMA AllOfPushHi ==
    ASSUME NEW q \in Seq(Packet), NEW pkt \in Packet, NEW e, AllOf(e, q),
           Counts(pkt) => pkt.id = e
    PROVE  AllOf(e, PushHi(q, pkt))
BY AllOfAppend DEF PushHi

(* A step of the ingress thread keeps the order. *)
LEMMA IngressStepOrder ==
    ASSUME Typed, OrderInv, NEW pkt \in Packet, NEW rest \in Seq(Packet), NEW hi \in Seq(Packet),
           NEW gen \in SUBSET (1 .. Externs), IngressStep(pkt, rest, hi, gen)
    PROVE  OrderInv'
<1>1. /\ Takes3(pkt, rest, hi)
      /\ priority_input_buffer' = rest \o Generated(pkt, gen)
      /\ queue_hi' = hi \/ queue_hi' = PushHi(hi, [pkt EXCEPT !.entry = 0])
      /\ Adds(egress_buffers, egress_buffers', pkt)
      /\ UNCHANGED <<held, output_buffer, arrivals>>
  BY DEF IngressStep
<1>2. PICK c \in Nat : InTurn(c)
  BY DEF OrderInv
<1>3. UNCHANGED arrivals
  BY <1>1
<1>4. PICK e \in Nat : /\ e <= arrivals
                       /\ LeavingUpTo(e, output_buffer, held, egress_buffers)
                       /\ AllOf(e, rest) /\ AllOf(e, hi)
                       /\ NewArrivals(e, queue_lo)'
                       /\ Counts(pkt) => pkt.id = e
  BY <1>1, <1>2, <1>3, TakenInTurn
<1>5. PICK o \in Seq(Packet), h \in [Workers -> Packet], b \in [Workers -> Seq(Packet)] :
        o = output_buffer /\ h = held /\ b = egress_buffers
  BY DEF Typed, TypeOK
<1>6. PICK d : d = egress_buffers'
  OBVIOUS
<1>7. Adds(b, d, pkt) /\ OwnPorts(h, b) /\ PortOrder(o, h, b) /\ LeavingUpTo(e, o, h, b)
  BY <1>1, <1>4, <1>5, <1>6 DEF OrderInv
<1>8. OwnPorts(h, d) /\ PortOrder(o, h, d)
  <2>1. Counts(pkt) => LeavingUpTo(pkt.id, o, h, b)
    BY <1>4, <1>7
  <2> QED
    BY <1>7, <2>1, OrderGrows
<1>9. LeavingUpTo(e, o, h, d)
  <2>1. Counts(pkt) => pkt.id <= e
    BY <1>4
  <2> QED
    BY <1>7, <2>1, UpToGrows
<1>10. AllOf(e, queue_hi)'
  <2>1. PICK r \in Packet : r = [pkt EXCEPT !.entry = 0] /\ r.id = pkt.id /\ r.late = pkt.late
    <3>1. 0 \in 0 .. Externs
      BY SwitchAssumption
    <3>2. /\ [pkt EXCEPT !.entry = 0] \in Packet
          /\ [pkt EXCEPT !.entry = 0].id = pkt.id /\ [pkt EXCEPT !.entry = 0].late = pkt.late
      BY <3>1 DEF Packet
    <3> QED
      BY <3>2
  <2>2. Counts(r) => r.id = e
    BY <1>4, <2>1 DEF Counts, IsNull
  <2>3. AllOf(e, hi) /\ AllOf(e, PushHi(hi, r))
    BY <1>4, <2>2, AllOfPushHi
  <2>4. queue_hi' = hi \/ queue_hi' = PushHi(hi, r)
    BY <1>1, <2>1
  <2>5. PICK q : q = queue_hi'
    OBVIOUS
  <2>6. AllOf(e, q)
    BY <2>3, <2>4, <2>5
  <2> QED
    BY <2>5, <2>6
<1>11. AllOf(e, priority_input_buffer)'
  <2>1. PICK q : q = priority_input_buffer' /\ q = rest \o Generated(pkt, gen)
    BY <1>1
  <2>2. RestOrMadeOf(q, rest, pkt)
    <3>1. pkt \in Packet /\ rest \in Seq(Packet) /\ gen \in SUBSET (1 .. Externs)
      OBVIOUS
    <3>2. q = rest \o Generated(pkt, gen)
      BY <2>1
    <3> QED
      BY ONLY <3>1, <3>2, PriorityAfter
  <2>3. AllOf(e, q)
    <3> SUFFICES ASSUME NEW i \in 1 .. Len(q), Counts(q[i]) PROVE q[i].id = e
      BY DEF AllOf
    <3>1. CASE i \in 1 .. Len(rest) /\ q[i] = rest[i]
      BY <1>4, <3>1 DEF AllOf
    <3>2. CASE q[i].id = pkt.id /\ q[i].late = pkt.late
      BY <1>4, <3>2 DEF Counts, IsNull
    <3> QED
      BY <2>2, <3>1, <3>2 DEF RestOrMadeOf
  <2> QED
    BY <2>1, <2>3
<1>12. o = output_buffer' /\ h = held' /\ d = egress_buffers'
  BY <1>1, <1>5, <1>6
<1>13. InTurn(e)'
  <2>1. LeavingUpTo(e, output_buffer, held, egress_buffers)'
    BY <1>9, <1>12
  <2>2. (e <= arrivals)'
    BY <1>3, <1>4
  <2> QED
    BY <1>4, <1>10, <1>11, <2>1, <2>2 DEF InTurn
<1>14. OwnPorts(held, egress_buffers)' /\ PortOrder(output_buffer, held, egress_buffers)'
  BY <1>8, <1>12
<1> QED
  BY <1>13, <1>14 DEF OrderInv

(* A step of an egress worker keeps the order. *)
LEMMA EgressStepOrder ==
    ASSUME Typed, OrderInv, NEW w \in Workers, NEW pkt \in Packet, NEW clone \in Packet,
           EgressStep(w, pkt, clone)
    PROVE  OrderInv'
<1>1. /\ egress_buffers[w] # << >> /\ pkt = Head(egress_buffers[w])
      /\ clone = [pkt EXCEPT !.late = TRUE]
      /\ Adds(EgressLeft(w), egress_buffers', clone)
      /\ held' = held \/ held' = [held EXCEPT ![w] = pkt]
      /\ queue_hi' = queue_hi \/ queue_hi' = PushHi(queue_hi, clone)
      /\ UNCHANGED <<queue_lo, priority_input_buffer, output_buffer, arrivals>>
  BY DEF EgressStep
<1>2. PICK c \in Nat : InTurn(c)
  BY DEF OrderInv
<1>3. ~Counts(clone)
  <2>1. clone.late = TRUE
    BY <1>1 DEF Packet
  <2> QED
    BY <2>1 DEF Counts
<1>4. PICK o \in Seq(Packet), h \in [Workers -> Packet], b \in [Workers -> Seq(Packet)] :
        o = output_buffer /\ h = held /\ b = egress_buffers
  BY DEF Typed, TypeOK
<1>5. PICK d \in [Workers -> Seq(Packet)] :
        /\ d = EgressLeft(w) /\ d[w] = Tail(b[w]) /\ \A v \in Workers \ {w} : d[v] = b[v]
  BY <1>1, <1>4, EgressLeftFacts DEF Typed
<1>6. PICK g : g = held' /\ (g = h \/ g = [h EXCEPT ![w] = Head(b[w])])
  BY <1>1, <1>4
<1>7. OwnPorts(h, b) /\ PortOrder(o, h, b) /\ LeavingUpTo(c, o, h, b)
  BY <1>2, <1>4 DEF OrderInv, InTurn
<1>8. OwnPorts(g, d) /\ PortOrder(o, g, d) /\ LeavingUpTo(c, o, g, d)
  <2>1. /\ b[w] # << >> /\ d[w] = Tail(b[w]) /\ \A v \in Workers \ {w} : d[v] = b[v]
        /\ g = h \/ g = [h EXCEPT ![w] = Head(b[w])]
    BY <1>1, <1>4, <1>5, <1>6
  <2> QED
    BY <1>7, <2>1, OrderTaken
<1>9. PICK f : f = egress_buffers' /\ Adds(d, f, clone)
  BY <1>1, <1>5
<1>10. g \in [Workers -> Packet]
  <2>1. Head(b[w]) \in Packet
    BY <1>1, <1>4
  <2> QED
    BY <1>6, <2>1
<1>11. OwnPorts(g, f) /\ PortOrder(o, g, f)
  BY <1>3, <1>8, <1>9, <1>10, OrderGrows
<1>12. LeavingUpTo(c, o, g, f)
  BY <1>3, <1>8, <1>9, UpToGrows
<1>13. AllOf(c, queue_hi)'
  <2>1. AllOf(c, queue_hi) /\ queue_hi \in Seq(Packet)
    BY <1>2 DEF InTurn, Typed, TypeOK
  <2>2. AllOf(c, PushHi(queue_hi, clone))
    BY <1>3, <2>1, AllOfPushHi
  <2>3. PICK q : q = queue_hi'
    OBVIOUS
  <2>4. AllOf(c, q)
    BY <1>1, <2>1, <2>2, <2>3
  <2> QED
    BY <2>3, <2>4
<1>14. AllOf(c, priority_input_buffer)' /\ NewArrivals(c, queue_lo)' /\ (c <= arrivals)'
  BY <1>1, <1>2 DEF InTurn, AllOf, NewArrivals
<1>15. o = output_buffer' /\ g = held' /\ f = egress_buffers'
  BY <1>1, <1>4, <1>6, <1>9
<1>16. InTurn(c)'
  <2>1. LeavingUpTo(c, output_buffer, held, egress_buffers)'
    BY <1>12, <1>15
  <2> QED
    BY <1>13, <1>14, <2>1 DEF InTurn
<1>17. OwnPorts(held, egress_buffers)' /\ PortOrder(output_buffer, held, egress_buffers)'
  BY <1>11, <1>15
<1> QED
  BY <1>16, <1>17 DEF OrderInv

(* Every step keeps the order. *)
LEMMA OrderStep ==
    ASSUME Typed, OrderInv, [Next]_vars
    PROVE  OrderInv'
<1>1. PICK c \in Nat : InTurn(c)
  BY DEF OrderInv
<1>2. PICK o \in Seq(Packet), h \in [Workers -> Packet], b \in [Workers -> Seq(Packet)] :
        o = output_buffer /\ h = held /\ b = egress_buffers
  BY DEF Typed, TypeOK
<1>3. OwnPorts(h, b) /\ PortOrder(o, h, b) /\ LeavingUpTo(c, o, h, b)
  BY <1>1, <1>2 DEF OrderInv, InTurn
<1>4. /\ c <= arrivals /\ arrivals \in Nat
      /\ AllOf(c, priority_input_buffer) /\ AllOf(c, queue_hi) /\ NewArrivals(c, queue_lo)
      /\ queue_hi \in Seq(Packet) /\ queue_lo \in Seq(Packet)
  BY <1>1, SwitchAssumption DEF InTurn, Typed, TypeOK
<1>5. nullptr(0) \in Packet /\ ~Counts(nullptr(0))
  <2>1. nullptr(0) \in Packet
    BY SwitchAssumption, PortFacts DEF nullptr, Packet
  <2> QED
    BY <2>1 DEF nullptr, Counts, IsNull
<1>6. ASSUME NEW p, NEW g, NEW d, p = output_buffer', g = held', d = egress_buffers',
             OwnPorts(g, d), PortOrder(p, g, d), LeavingUpTo(c, p, g, d),
             AllOf(c, queue_hi)', AllOf(c, priority_input_buffer)',
             NewArrivals(c, queue_lo)', c <= arrivals'
      PROVE  OrderInv'
  <2>1. LeavingUpTo(c, output_buffer, held, egress_buffers)'
    BY <1>6
  <2>2. OwnPorts(held, egress_buffers)' /\ PortOrder(output_buffer, held, egress_buffers)'
    BY <1>6
  <2>3. InTurn(c)'
    BY <1>6, <2>1 DEF InTurn
  <2> QED
    BY <2>2, <2>3 DEF OrderInv
<1>7. CASE Receive
  <2>1. /\ UNCHANGED <<output_buffer, held, egress_buffers, queue_hi, priority_input_buffer>>
        /\ arrivals' = arrivals + 1
    BY <1>7 DEF Receive
  <2>2. PICK pkt : pkt = [id |-> arrivals + 1, entry |-> 0, late |-> FALSE, port |-> 0]
    OBVIOUS
  <2>3. pkt \in Packet /\ pkt.id = arrivals + 1 /\ ~pkt.late
    <3>1. arrivals + 1 \in 0 .. MaxArrivals
      <4>1. arrivals < MaxArrivals
        BY <1>7 DEF Receive
      <4>2. arrivals \in Nat /\ MaxArrivals \in Nat
        BY SwitchAssumption DEF Typed, TypeOK
      <4> QED
        BY ONLY <4>1, <4>2
    <3> QED
      BY <2>2, <3>1, SwitchAssumption, PortFacts DEF Packet
  <2>4. /\ Len(queue_lo) \in Nat /\ Len(queue_lo') = Len(queue_lo) + 1
        /\ \A i \in 1 .. Len(queue_lo) : queue_lo'[i] = queue_lo[i]
        /\ queue_lo'[Len(queue_lo) + 1] = pkt
    <3>1. queue_lo' = Append(queue_lo, pkt)
      BY <1>7, <2>2 DEF Receive
    <3> QED
      BY <1>4, <2>3, <3>1, PutLast
  <2>5. \A i \in 1 .. Len(queue_lo) : queue_lo[i].id \in Nat
    BY <1>4, Numbered
  <2>6. NewArrivals(c, queue_lo)'
    <3>1. ASSUME NEW i \in 1 .. Len(queue_lo')
          PROVE  c <= queue_lo'[i].id /\ queue_lo'[i].id <= arrivals' /\ ~queue_lo'[i].late
      <4>1. CASE i \in 1 .. Len(queue_lo)
        BY <1>4, <2>1, <2>4, <2>5, <4>1 DEF NewArrivals
      <4>2. CASE i = Len(queue_lo) + 1
        BY <1>4, <2>1, <2>3, <2>4, <4>2
      <4> QED
        BY <2>4, <4>1, <4>2
    <3>2. ASSUME NEW i \in 1 .. Len(queue_lo'), NEW j \in 1 .. Len(queue_lo'), i < j
          PROVE  queue_lo'[i].id <= queue_lo'[j].id
      <4>1. i \in 1 .. Len(queue_lo)
        BY <2>4, <3>2
      <4>2. CASE j \in 1 .. Len(queue_lo)
        BY <1>4, <2>4, <3>2, <4>1, <4>2 DEF NewArrivals
      <4>3. CASE j = Len(queue_lo) + 1
        <5>1. queue_lo'[i].id <= arrivals /\ queue_lo'[i].id \in Nat
          BY <1>4, <2>4, <2>5, <4>1 DEF NewArrivals
        <5> QED
          BY <1>4, <2>3, <2>4, <4>3, <5>1
      <4> QED
        BY <2>4, <4>2, <4>3
    <3> QED
      BY <3>1, <3>2 DEF NewArrivals
  <2>7. AllOf(c, queue_hi)' /\ AllOf(c, priority_input_buffer)' /\ c <= arrivals'
    BY <1>4, <2>1 DEF AllOf
  <2> QED
    BY <1>2, <1>3, <1>6, <2>1, <2>6, <2>7
<1>8. CASE IngressDrop \/ IngressForward \/ IngressMulticast \/ IngressResubmit
  <2>1. PICK pkt \in Packet, rest \in Seq(Packet), hi \in Seq(Packet),
             gen \in SUBSET (1 .. Externs) : IngressStep(pkt, rest, hi, gen)
    BY <1>8, IngressSteps DEF Typed
  <2> QED
    BY <2>1, IngressStepOrder
<1>9. ASSUME UNCHANGED <<output_buffer, held, egress_buffers, queue_lo, priority_input_buffer,
                         arrivals>>,
             NEW q, q = queue_hi', AllOf(c, q)
      PROVE  OrderInv'
  <2>1. AllOf(c, queue_hi)'
    BY <1>9
  <2>2. AllOf(c, priority_input_buffer)' /\ NewArrivals(c, queue_lo)' /\ c <= arrivals'
    BY <1>4, <1>9 DEF AllOf, NewArrivals
  <2> QED
    BY <1>2, <1>3, <1>6, <1>9, <2>1, <2>2
<1>10. CASE IngressEnd
  <2>1. PICK q : q = queue_hi' /\ q = Tail(queue_hi)
    BY <1>10 DEF IngressEnd
  <2>2. queue_hi # << >>
    <3>1. CASE Takes = "priority"
      <4>1. priority_input_buffer # << >> /\ Taken = Head(priority_input_buffer)
        BY <3>1 DEF Takes, Taken
      <4>2. Taken = priority_input_buffer[1] /\ 1 \in 1 .. Len(priority_input_buffer)
        BY <4>1, TakeHead DEF Typed, TypeOK
      <4> QED
        BY <1>10, <4>2 DEF IngressEnd, Typed, NoSentinels
    <3>2. CASE Takes = "lo"
      <4>1. queue_lo # << >> /\ Taken = Head(queue_lo)
        BY <3>2 DEF Takes, Taken
      <4>2. Taken = queue_lo[1] /\ 1 \in 1 .. Len(queue_lo)
        BY <4>1, TakeHead DEF Typed, TypeOK
      <4> QED
        BY <1>10, <4>2 DEF IngressEnd, Typed, NoSentinels
    <3> QED
      BY <1>10, <3>1, <3>2 DEF IngressEnd, Takes
  <2>3. AllOf(c, q)
    BY <1>4, <2>1, <2>2, AllOfTail
  <2> QED
    BY <1>9, <1>10, <2>1, <2>3 DEF IngressEnd
<1>11. CASE StopIngress
  <2>1. PICK q : q = queue_hi' /\ q = Append(queue_hi, nullptr(0))
    BY <1>11 DEF StopIngress
  <2>2. AllOf(c, q)
    BY <1>4, <1>5, <2>1, AllOfAppend
  <2> QED
    BY <1>9, <1>11, <2>1, <2>2 DEF StopIngress
<1>12. ASSUME NEW w \in Workers, EgressApply(w) \/ EgressRecirculate(w)
       PROVE  OrderInv'
  <2>1. PICK pkt \in Packet, clone \in Packet : EgressStep(w, pkt, clone)
    BY <1>12, EgressSteps DEF Typed
  <2> QED
    BY <2>1, EgressStepOrder
<1>13. ASSUME UNCHANGED <<queue_lo, queue_hi, priority_input_buffer, arrivals>>
       PROVE  /\ AllOf(c, queue_hi)' /\ AllOf(c, priority_input_buffer)'
              /\ NewArrivals(c, queue_lo)' /\ c <= arrivals'
  BY <1>4, <1>13 DEF AllOf, NewArrivals
<1>14. ASSUME NEW w \in Workers, EgressEnd(w)
       PROVE  OrderInv'
  <2>1. /\ egress_buffers[w] # << >> /\ egress_buffers' = EgressLeft(w)
        /\ UNCHANGED <<queue_lo, queue_hi, priority_input_buffer, held, output_buffer, arrivals>>
    BY <1>14 DEF EgressEnd, EgressTakes
  <2>2. PICK d \in [Workers -> Seq(Packet)] :
          /\ d = EgressLeft(w) /\ d[w] = Tail(b[w]) /\ \A v \in Workers \ {w} : d[v] = b[v]
    BY <1>2, <2>1, EgressLeftFacts DEF Typed
  <2>3. /\ b[w] # << >> /\ d[w] = Tail(b[w]) /\ \A v \in Workers \ {w} : d[v] = b[v]
    BY <1>2, <2>1, <2>2
  <2>4. OwnPorts(h, d) /\ PortOrder(o, h, d) /\ LeavingUpTo(c, o, h, d)
    <3>1. PICK g : g = h
      OBVIOUS
    <3>2. g = h \/ g = [h EXCEPT ![w] = Head(b[w])]
      BY <3>1
    <3>3. OwnPorts(g, d) /\ PortOrder(o, g, d) /\ LeavingUpTo(c, o, g, d)
      BY <1>3, <2>3, <3>2, OrderTaken
    <3> QED
      BY <3>1, <3>3
  <2>5. o = output_buffer' /\ h = held' /\ d = egress_buffers'
    BY <1>2, <2>1, <2>2
  <2> QED
    BY <1>6, <1>13, <2>1, <2>4, <2>5
<1>15. ASSUME NEW w \in Workers, EgressOutput(w)
       PROVE  OrderInv'
  <2>1. /\ output_buffer' = Append(output_buffer, held[w])
        /\ held' = [held EXCEPT ![w] = nullptr(w)]
        /\ UNCHANGED <<queue_lo, queue_hi, priority_input_buffer, egress_buffers, arrivals>>
    BY <1>15 DEF EgressOutput
  <2>2. PICK q : q = output_buffer' /\ q = Append(o, h[w])
    BY <1>2, <2>1
  <2>3. PICK g : g = held' /\ g = [h EXCEPT ![w] = nullptr(w)]
    BY <1>2, <2>1
  <2>4. OwnPorts(g, b) /\ PortOrder(q, g, b) /\ LeavingUpTo(c, q, g, b)
    BY <1>3, <2>2, <2>3, OrderOutput
  <2> QED
    BY <1>2, <1>6, <1>13, <2>1, <2>2, <2>3, <2>4
<1>16. ASSUME NEW q, q = output_buffer', (o # << >> /\ q = Tail(o)) \/ q = Append(o, nullptr(0)),
              UNCHANGED <<queue_lo, queue_hi, priority_input_buffer, held, egress_buffers, arrivals>>
       PROVE  OrderInv'
  <2>1. PortOrder(q, h, b) /\ LeavingUpTo(c, q, h, b)
    BY <1>3, <1>5, <1>16, OrderTransmit
  <2> QED
    BY <1>2, <1>3, <1>6, <1>13, <1>16, <2>1
<1>17. CASE Transmit \/ TransmitEnd
  <2>1. /\ output_buffer # << >> /\ output_buffer' = Tail(output_buffer)
        /\ UNCHANGED <<queue_lo, queue_hi, priority_input_buffer, held, egress_buffers, arrivals>>
    BY <1>17 DEF Transmit, TransmitEnd, TransmitTakes
  <2> QED
    BY <1>2, <1>16, <2>1
<1>18. CASE StopTransmit
  <2>1. /\ output_buffer' = Append(output_buffer, nullptr(0))
        /\ UNCHANGED <<queue_lo, queue_hi, priority_input_buffer, held, egress_buffers, arrivals>>
    BY <1>18 DEF StopTransmit
  <2> QED
    BY <1>2, <1>16, <2>1
<1>19. CASE StopWorker
  <2>1. PICK p \in Ports : p = stop - SentIngress
    BY <1>19, SwitchAssumption DEF StopWorker, SentIngress, SentWorkers, Ports
  <2>2. PICK d : d = egress_buffers' /\ d = enqueue(b, p, nullptr(0))
    BY <1>2, <1>19, <2>1 DEF StopWorker
  <2>3. Adds(b, d, nullptr(0))
    BY <1>5, <2>2, EnqueueAdds
  <2>4. OwnPorts(h, d) /\ PortOrder(o, h, d)
    BY <1>3, <1>5, <2>3, OrderGrows
  <2>5. LeavingUpTo(c, o, h, d)
    BY <1>3, <1>5, <2>3, UpToGrows
  <2>6. UNCHANGED <<queue_lo, queue_hi, priority_input_buffer, held, output_buffer, arrivals>>
    BY <1>19 DEF StopWorker
  <2> QED
    BY <1>2, <1>6, <1>13, <2>2, <2>4, <2>5, <2>6
<1>20. CASE UNCHANGED vars
  <2>1. UNCHANGED <<queue_lo, queue_hi, priority_input_buffer, egress_buffers, held,
                    output_buffer, arrivals>>
    BY <1>20 DEF vars, queues
  <2> QED
    BY <1>2, <1>3, <1>6, <1>13, <2>1
<1> QED
  BY <1>7, <1>8, <1>10, <1>11, <1>12, <1>14, <1>15, <1>17, <1>18, <1>19, <1>20
     DEF Next, Ingress, Egress, Stop

(* The empty switch is in order. *)
LEMMA OrderInit == Init => OrderInv
<1> SUFFICES ASSUME Init PROVE OrderInv
  OBVIOUS
<1>1. \A w \in Workers : /\ held[w] = nullptr(w) /\ egress_buffers[w] = << >>
                         /\ WorkerOf(w) = w
  BY PortFacts DEF Init
<1>2. \A w \in Workers : ~Counts(held[w]) /\ held[w].port = w
  <2>1. \A w : nullptr(w).id = 0 /\ nullptr(w).port = w
    BY DEF nullptr
  <2> QED
    BY <1>1, <2>1 DEF Counts, IsNull
<1>3. OwnPorts(held, egress_buffers)
  BY <1>1, <1>2 DEF OwnPorts
<1>4. output_buffer = << >> /\ Len(<< >>) = 0 /\ arrivals = 0
  BY DEF Init
<1>5. PortOrder(output_buffer, held, egress_buffers)
  BY <1>1, <1>4 DEF PortOrder
<1>6. InTurn(0)
  BY <1>1, <1>2, <1>4 DEF Init, InTurn, LeavingUpTo, AllOf, NewArrivals
<1> QED
  BY <1>3, <1>5, <1>6 DEF OrderInv

(* Where an element of three queues in a row comes from. *)
PartOf3(s, x, y, z, k) ==
    \/ k \in 1 .. Len(x) /\ s[k] = x[k]
    \/ k - Len(x) \in 1 .. Len(y) /\ s[k] = y[k - Len(x)]
    \/ k - Len(x) - Len(y) \in 1 .. Len(z) /\ s[k] = z[k - Len(x) - Len(y)]

(* The places of a sequence put together from three. *)
LEMMA Concat3 ==
    ASSUME NEW S, NEW x \in Seq(S), NEW y \in Seq(S), NEW z \in Seq(S), NEW s,
           s = (x \o y) \o z, NEW k \in 1 .. Len(s)
    PROVE  PartOf3(s, x, y, z, k)
<1>1. PICK r \in Seq(S) : r = x \o y
  BY Concat
<1>2. /\ Len(r) = Len(x) + Len(y) /\ Len(x) \in Nat /\ Len(y) \in Nat
      /\ \A i \in 1 .. Len(x) : r[i] = x[i]
      /\ \A i \in Len(x) + 1 .. Len(x) + Len(y) :
           r[i] = y[i - Len(x)] /\ i - Len(x) \in 1 .. Len(y)
  BY <1>1, Concat
<1>3. s = r \o z
  BY <1>1
<1>4. /\ s \in Seq(S) /\ Len(s) = Len(r) + Len(z) /\ Len(z) \in Nat
      /\ \A i \in 1 .. Len(r) : s[i] = r[i]
      /\ \A i \in Len(r) + 1 .. Len(r) + Len(z) :
           s[i] = z[i - Len(r)] /\ i - Len(r) \in 1 .. Len(z)
  BY <1>3, Concat
<1>5. CASE k \in 1 .. Len(x)
  BY <1>2, <1>4, <1>5 DEF PartOf3
<1>6. CASE k \in Len(x) + 1 .. Len(x) + Len(y)
  BY <1>2, <1>4, <1>6 DEF PartOf3
<1>7. CASE k \in Len(r) + 1 .. Len(r) + Len(z)
  <2>1. k - Len(r) = k - Len(x) - Len(y)
    BY <1>2, <1>7
  <2>2. s[k] = z[k - Len(r)] /\ k - Len(r) \in 1 .. Len(z)
    BY <1>4, <1>7
  <2> QED
    BY <1>2, <1>4, <2>1, <2>2 DEF PartOf3
<1> QED
  BY <1>2, <1>4, <1>5, <1>6, <1>7

(* The order of all queues together, from the order of each. *)
LEMMA InvImpliesOrder ==
    ASSUME Typed, OrderInv
    PROVE  ArrivalOrder
<1>1. PICK c \in Nat : InTurn(c)
  BY DEF OrderInv
<1> SUFFICES ASSUME NEW p \in Ports,
                    NEW leaving, leaving = Leaving(WorkerOf(p)),
                    NEW way, way = leaving \o Entering,
                    NEW i \in 1 .. Len(way), NEW j \in 1 .. Len(way), i < j,
                    Counts(way[i]), Counts(way[j]),
                    i <= Len(leaving) => way[i].port = p,
                    j <= Len(leaving) => way[j].port = p
             PROVE  way[i].id <= way[j].id
  BY Zenon DEF ArrivalOrder, Counts
<1>2. PICK w \in Workers : w = WorkerOf(p)
  BY PortFacts
<1>3. PICK o \in Seq(Packet), h \in Packet, b \in Seq(Packet) :
        o = output_buffer /\ h = held[w] /\ b = egress_buffers[w]
  BY DEF Typed, TypeOK
<1>4. PICK x \in Seq(Packet), y \in Seq(Packet), z \in Seq(Packet) :
        x = priority_input_buffer /\ y = queue_hi /\ z = queue_lo
  BY DEF Typed, TypeOK
<1>5. PICK u \in Seq(Packet) : u = <<h>> /\ Len(u) = 1 /\ u[1] = h
  <2>1. <<h>> \in Seq(Packet) /\ Len(<<h>>) = 1 /\ <<h>>[1] = h
    OBVIOUS
  <2> QED
    BY <2>1
<1>6. leaving = (o \o u) \o b
  BY <1>2, <1>3, <1>5 DEF Leaving
<1>7. PICK entering : entering = Entering /\ entering = (x \o y) \o z
  BY <1>4 DEF Entering
<1>8. leaving \in Seq(Packet) /\ entering \in Seq(Packet)
  <2>1. o \o u \in Seq(Packet) /\ x \o y \in Seq(Packet)
    BY Concat
  <2> QED
    BY <1>6, <1>7, <2>1, Concat
<1>9. /\ Len(way) = Len(leaving) + Len(entering) /\ Len(leaving) \in Nat /\ Len(entering) \in Nat
      /\ \A k \in 1 .. Len(leaving) : way[k] = leaving[k]
      /\ \A k \in Len(leaving) + 1 .. Len(leaving) + Len(entering) :
           way[k] = entering[k - Len(leaving)] /\ k - Len(leaving) \in 1 .. Len(entering)
  <2>1. way = leaving \o entering
    BY <1>7
  <2>2. leaving \in Seq(Packet) /\ entering \in Seq(Packet)
    BY <1>8
  <2>3. /\ Len(leaving) \in Nat /\ Len(entering) \in Nat
        /\ Len(leaving \o entering) = Len(leaving) + Len(entering)
        /\ \A k \in 1 .. Len(leaving) : (leaving \o entering)[k] = leaving[k]
        /\ \A k \in Len(leaving) + 1 .. Len(leaving) + Len(entering) :
             (leaving \o entering)[k] = entering[k - Len(leaving)] /\ k - Len(leaving) \in 1 .. Len(entering)
    BY ONLY <2>2, Concat
  <2> QED
    BY <2>1, <2>3
<1>10. ASSUME NEW k \in 1 .. Len(leaving)
       PROVE  \/ k \in 1 .. Len(o) /\ leaving[k] = o[k]
              \/ k = Len(o) + 1 /\ leaving[k] = h
              \/ k - Len(o) - 1 \in 1 .. Len(b) /\ leaving[k] = b[k - Len(o) - 1]
  <2>1. PartOf3(leaving, o, u, b, k) /\ Len(o) \in Nat
    <3>1. /\ o \in Seq(Packet) /\ u \in Seq(Packet) /\ b \in Seq(Packet)
          /\ k \in 1 .. Len(leaving)
      OBVIOUS
    <3>2. leaving = (o \o u) \o b
      BY <1>6
    <3>3. PartOf3(leaving, o, u, b, k)
      BY ONLY <3>1, <3>2, Concat3
    <3> QED
      BY <3>1, <3>3
  <2>2. CASE k \in 1 .. Len(o) /\ leaving[k] = o[k]
    BY <2>2
  <2>3. CASE k - Len(o) \in 1 .. Len(u) /\ leaving[k] = u[k - Len(o)]
    <3>1. k - Len(o) = 1 /\ k = Len(o) + 1
      BY <1>5, <2>1, <2>3
    <3> QED
      BY <1>5, <2>3, <3>1
  <2>4. CASE k - Len(o) - Len(u) \in 1 .. Len(b) /\ leaving[k] = b[k - Len(o) - Len(u)]
    BY <1>5, <2>4
  <2> QED
    BY <2>1, <2>2, <2>3, <2>4 DEF PartOf3
<1>11. ASSUME NEW k \in 1 .. Len(entering)
       PROVE  PartOf3(entering, x, y, z, k)
  BY <1>7, Concat3
<1>12. LeavingUpTo(c, output_buffer, held, egress_buffers)
  BY <1>1 DEF InTurn
<1>13. AllOf(c, x) /\ AllOf(c, y) /\ NewArrivals(c, z)
  BY <1>1, <1>4 DEF InTurn
<1>14. ASSUME NEW k \in 1 .. Len(leaving), Counts(leaving[k])
       PROVE  leaving[k].id <= c
  BY <1>3, <1>10, <1>12, <1>14 DEF LeavingUpTo
<1>15. ASSUME NEW k \in 1 .. Len(entering), Counts(entering[k])
       PROVE  c <= entering[k].id
  <2>1. PartOf3(entering, x, y, z, k)
    BY <1>11
  <2>2. ASSUME NEW m \in 1 .. Len(x), entering[k] = x[m] PROVE c <= entering[k].id
    BY <1>1, <1>13, <1>15, <2>2 DEF AllOf
  <2>3. ASSUME NEW m \in 1 .. Len(y), entering[k] = y[m] PROVE c <= entering[k].id
    BY <1>1, <1>13, <1>15, <2>3 DEF AllOf
  <2>4. ASSUME NEW m \in 1 .. Len(z), entering[k] = z[m] PROVE c <= entering[k].id
    BY <1>13, <2>4 DEF NewArrivals
  <2> QED
    BY <2>1, <2>2, <2>3, <2>4 DEF PartOf3
<1>16. way[i] \in Packet /\ way[j] \in Packet /\ way[i].id \in Nat /\ way[j].id \in Nat
  <2>1. way \in Seq(Packet)
    BY <1>7, <1>8, Concat
  <2>2. way[i] \in Packet /\ way[j] \in Packet
    BY <2>1
  <2> QED
    BY <2>2, Numbered
<1>17. CASE i \in 1 .. Len(leaving) /\ j \in 1 .. Len(leaving)
  <2>1. SamePort(leaving[i], leaving[j]) /\ way[i] = leaving[i] /\ way[j] = leaving[j]
    BY <1>9, <1>17 DEF SamePort
  <2>2. /\ \A k, m \in 1 .. Len(o) : k < m /\ SamePort(o[k], o[m]) => o[k].id <= o[m].id
        /\ \A k \in 1 .. Len(o) : SamePort(o[k], h) => o[k].id <= h.id
        /\ \A k \in 1 .. Len(o), m \in 1 .. Len(b) : SamePort(o[k], b[m]) => o[k].id <= b[m].id
        /\ \A m \in 1 .. Len(b) : SamePort(h, b[m]) => h.id <= b[m].id
        /\ \A k, m \in 1 .. Len(b) : k < m /\ SamePort(b[k], b[m]) => b[k].id <= b[m].id
    BY <1>3 DEF OrderInv, PortOrder
  <2>3. Len(o) \in Nat /\ Len(b) \in Nat
    OBVIOUS
  <2>4. CASE i \in 1 .. Len(o) /\ leaving[i] = o[i]
    BY <1>10, <1>17, <2>1, <2>2, <2>4
  <2>5. CASE i = Len(o) + 1 /\ leaving[i] = h
    <3>1. j - Len(o) - 1 \in 1 .. Len(b) /\ leaving[j] = b[j - Len(o) - 1]
      <4>1. ~(j \in 1 .. Len(o)) /\ j # Len(o) + 1
        BY <2>3, <2>5
      <4> QED
        BY <1>10, <1>17, <4>1
    <3> QED
      BY <2>1, <2>2, <2>5, <3>1
  <2>6. CASE i - Len(o) - 1 \in 1 .. Len(b) /\ leaving[i] = b[i - Len(o) - 1]
    <3>1. j - Len(o) - 1 \in 1 .. Len(b) /\ leaving[j] = b[j - Len(o) - 1]
      <4>1. ~(j \in 1 .. Len(o)) /\ j # Len(o) + 1
        BY <2>3, <2>6
      <4> QED
        BY <1>10, <1>17, <4>1
    <3>2. i - Len(o) - 1 < j - Len(o) - 1
      BY <2>3
    <3> QED
      BY <2>1, <2>2, <2>6, <3>1, <3>2
  <2> QED
    BY <1>10, <1>17, <2>4, <2>5, <2>6
<1>18. CASE i \in 1 .. Len(leaving) /\ j \in Len(leaving) + 1 .. Len(way)
  <2>1. way[i].id <= c
    BY <1>9, <1>14, <1>18
  <2>2. c <= way[j].id
    BY <1>9, <1>15, <1>18
  <2> QED
    <3>1. PICK m \in Nat, n \in Nat : m = way[i].id /\ n = way[j].id
      BY <1>16, Zenon
    <3>2. c \in Nat /\ m <= c /\ c <= n
      BY <2>1, <2>2, <3>1, Zenon
    <3>3. m <= n
      BY ONLY <3>2, m \in Nat, n \in Nat
    <3> QED
      BY <3>1, <3>3, Zenon
<1>19. CASE i \in Len(leaving) + 1 .. Len(way) /\ j \in Len(leaving) + 1 .. Len(way)
  <2>1. PICK k \in 1 .. Len(entering), m \in 1 .. Len(entering) :
          k < m /\ way[i] = entering[k] /\ way[j] = entering[m]
    <3>1. i - Len(leaving) < j - Len(leaving)
      BY <1>9
    <3> QED
      BY <1>9, <1>19, <3>1
  <2>2. Len(x) \in Nat /\ Len(y) \in Nat /\ Len(z) \in Nat
    OBVIOUS
  <2>3. CASE entering[k].id = c
    BY <1>15, <2>1, <2>3
  <2>4. CASE k - Len(x) - Len(y) \in 1 .. Len(z) /\ entering[k] = z[k - Len(x) - Len(y)]
    <3>1. m - Len(x) - Len(y) \in 1 .. Len(z) /\ entering[m] = z[m - Len(x) - Len(y)]
      <4>1. ~(m \in 1 .. Len(x)) /\ ~(m - Len(x) \in 1 .. Len(y))
        <5>1. PICK a \in Nat, d \in Nat : a = Len(x) /\ d = Len(y)
          BY <2>2, Zenon
        <5>2. k \in Int /\ m \in Int /\ k < m
          BY <2>1
        <5>3. k - a - d >= 1
          BY <2>4, <5>1
        <5>4. ~(m <= a) /\ ~(m - a <= d)
          BY ONLY <5>2, <5>3, a \in Nat, d \in Nat
        <5> QED
          BY <5>1, <5>4
      <4> QED
        BY <1>11, <4>1 DEF PartOf3
    <3>2. k - Len(x) - Len(y) < m - Len(x) - Len(y)
      BY <2>1, <2>2
    <3> QED
      BY <1>13, <2>1, <2>4, <3>1, <3>2 DEF NewArrivals
  <2>5. CASE k \in 1 .. Len(x) /\ entering[k] = x[k]
    BY <1>13, <2>1, <2>3, <2>5 DEF AllOf
  <2>6. CASE k - Len(x) \in 1 .. Len(y) /\ entering[k] = y[k - Len(x)]
    BY <1>13, <2>1, <2>3, <2>6 DEF AllOf
  <2> QED
    BY <1>11, <2>4, <2>5, <2>6 DEF PartOf3
<1> QED
  BY <1>9, <1>17, <1>18, <1>19

(* Packets leave a port in the order of the arrivals that they stem from,  *)
(* whatever the program, the externs and the queues do with them;          *)
(* recirculated packets and egress clones excepted.                        *)
THEOREM PacketsInArrivalOrder == Spec => []ArrivalOrder
<1>1. Typed /\ OrderInv /\ [Next]_vars => Typed' /\ OrderInv'
  BY TypedStep, OrderStep
<1>2. Init => Typed /\ OrderInv
  BY TypedInit, OrderInit
<1>3. Typed /\ OrderInv => ArrivalOrder
  BY InvImpliesOrder
<1> QED
  BY <1>1, <1>2, <1>3, PTL DEF Spec
=============================================================================
