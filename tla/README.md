# Flightplan in TLA+

Flightplan splits a P4 program into segments that run on several dataplanes, and
hands packets from one dataplane to the next. This directory holds TLA+ models
of the parts of the repository that keep state between packets, TLC
configurations that check them on small instances, and TLAPS proofs.

    tlc -workers 2 -config FPRuntime_control.cfg MCFPRuntime
    tlapm FPRuntime_proofs.tla       # and the same for FecRules_proofs, Ordered_proofs,
                                     # FecPcap_proofs, FecSwitch_proofs, VJCompression_proofs,
                                     # MemcachedCache_proofs, BoosterSwitch_proofs

`PROJECT.json` lists the components, the runs, the source lines behind every
definition, the mutants that show what each property depends on, the findings
and the hazards.

## 1. The system

| Part | Where | State | Operations | What is hard |
|---|---|---|---|---|
| Flightplan runtime | `Wharf/Sources/FP*.p4` | per link: sequence number, ACK request, NAK count, link state; on both sides | hand over, check number, ACK, NAK, relink, shut down | losses, late answers, wrap-around, candidates that crash, two sides without a common clock |
| Control program | `Wharf/fpctl.py` | none; it writes the runtime's registers one command at a time | configure, start, stop, transition, flags | read and write of a register with packets in between |
| FEC boosters on pcap | `cpuBoosters/fecBoosters/fecPcap`, `fecBooster.c` | block buffers, block number and index, timers; decoder's last frame | tag, encode, timeout; receive, decode | bursts of losses, reuse of block numbers, timeouts |
| FEC configuration | `fecBoosterApi.c` | class table, rule table, default, enable flag | CLASS, DELCLASS, DEFAULT, SET, DEL, ENABLE, classify a packet | long sequences of commands on a table with reused slots |
| FEC boosters in the switch | `fecBoosters/fecP4`, `booster_switch/fec_booster_primitives.cpp` | as above, per port; k and h come from tables, for each packet | number a packet, encode, decode, drop at random | tables that change while blocks are open, on one side or both; losses |
| Header compression | `cpuBoosters/vjCompressor` | a header cache on either side | compress, decompress | caches diverge when packets are lost |
| Memcached booster | `FPGA/MemcachedVivadoHLS/MemHLS.cpp`, driven by `cpuBoosters/memcached` and `memcached_booster_primitives.cpp` | a cache of values, one entry per slot, keys share slots | get, set, delete, value | coherence with a server that requests reach later than the cache |
| Software switch | `booster_switch/simple_switch.cpp`, `booster_primitives.hpp` | queues between threads | receive, ingress, egress, transmit, generate, resubmit, recirculate, clone, stop | priorities, full queues, packets that re-enter, shutdown |
| Planner | `flightplanner/` | search state | find a plan | sequential; floating-point resources |
| Analyser, FPGA designs, scripts | `flightplan/`, `FPGA/`, `verilog/`, `testing/` ... | | | compiler patch, hardware, experiments |

Interactions. The runtime of the using side sends numbered packets over a link;
the serving side answers by cloning packets back. `fpctl` changes the registers
of all switches while traffic flows. The boosters are externs of a segment: a
segment that FEC protects tags packets with the class that the rule table yields;
the encoder's frames reach the decoder over the lossy link. In the switch, all
boosters run in the ingress thread, and what they generate goes back to it.

What makes each part correct:

* runtime: without an ACK, a candidate is left after a bounded number of packets,
  and never earlier; a NAK stands for a loss; a link that is off stays off;
* control: a transition follows the sequence of states;
* FEC: the pair is a channel that invents and repeats nothing, and repairs the
  losses it promises to repair; timers bound how long a block stays open;
* configuration: the rule table is a map from ports and protocols to classes;
* compression: what leaves the decompressor entered the compressor; a loss damages
  the fields that the lost frame would have changed, and no others;
* FEC in the switch: a change of parameters harms the blocks it touches only;
* memcached: the cache answers with values of the key that was asked for, and
  with what the server has once nothing is under way;
* switch: packets leave in the order in which they, or the packets they stem
  from, arrived; no thread waits for ever; the switch can be stopped.

## 2. Modules

### FPRuntime: one hand-over

`FPRuntime` is `FPRuntime.p4` as both sides include it, together with
`FPPostComputation.p4` (using side, sending), `FPCheckFeedback.p4` (both sides,
receiving), `FPRuntimeEgress.p4` (the clones) and the commands of `fpctl.py`.
Every register of the P4 code is a variable of the same name, but for
`flightplan_pip_ack_relink_count`, a debug counter that nothing reads; `srv_*` are
the registers of the candidates. `fwd[d]` and `back[d]` are the links to and from
candidate `d`.

| Action | Code |
|---|---|
| `SendPlain`, `SendAckRequest`, `SendExpecting`, `SendOverdueCounted`, `SendRelink` | the outcomes of `update_pip_state()` on a packet that is handed over, with `inc_seqno()`, the reset that `syn_next` asks for, `relink()`, and the drop or loss of the packet |
| `Serve`, `ServeOff` | a candidate takes a packet: `check_seqno()`, `check_ack()` and the response; nothing while its state is OFF |
| `ReceiveNak`, `ReceiveNakRelink`, `ReceiveAck`, `ReceiveLateAck`, `ReceiveOff` | the using side takes a response: `check_nak()`, `check_ack()` |
| `SetState`, `SetSrvState` | `fpctl start` and `stop`, one switch at a time |
| `TransitionRead`, `TransitionWrite` | the two commands of `transition_state` |
| `SetDropOutgoing`, `SetCountAckRelinks` | the debug flags: drop what is handed over; count an overdue ACK instead of relinking |
| `Crash` | a candidate stops for good |

Data is abstracted: a packet is its number, Syn and ACK flags; a response is
"ack" or "nak". Candidates are named by the link state that selects them.
History variables: `unacked` (hand-overs since the last ACK or restart, while the
flag that disables relinks is clear), `lost` (losses per link) and `naks` (NAKs that
a candidate has counted in all; its register restarts at every Syn). An ACK carries
no number and no sender: one of the candidate before is an ACK to the code, and ends
`unacked` as well. Specifications: `Spec` (dataplanes and control),
`DataplaneSpec` (after `fpctl start`, dataplanes only), `TransitionsSpec`
(`transition_state` as the only command), `FairSpec`.

### FecChannel, FecPcap: forward error correction

`FecPcap` composes the pcap encoder (`SendData`, `Tick`, `Expire`), a link that
loses frames in bursts (`Lose`, external) and the pcap decoder (`Skip`,
`Receive`) for one traffic class. A data packet is its number and a parity packet
is the block it was computed from, so that the RSE code can be modelled by what
it does: with as many parity packets as data packets are missing it yields the
missing ones when all packets come from one block, and `Garbage` otherwise. The
number `nr` of a frame is history; the decoder sees `block` and `idx` only.
`FecChannel` is the abstract channel: it may lose packets, but delivers only
packets that were sent, and none twice.

Frames of `FRAME_SIZE_CUTOFF` bytes and more are left out, because the encoder
ignores that tagging fails and forwards an uninitialised buffer.

### FecRuleTable, FecRules: configuration

`FecRules` is `fecBoosterApi.c`: the definitions have the names of the functions.
A refused command is a stuttering step. A key stands for a port and protocol;
`ZeroKey` is what unused slots hold (port 0, UDP), which a packet can have and a
command cannot name. `is_ipv4` is the macro's arithmetic on the first byte.
Class number `TCLASS_MAX` passes the code's checks but lies outside its array, so
the model's classes stay below it. `FecRuleTable` is the abstract map.

### VJCompression: header compression

`VJCompression` composes `compress()` (`Compress` for TCP packets of at least 100
bytes, `CompressOther` for the rest), a link that keeps the order of frames and
may lose them (`Lose`, external), and `decompress()` (`DecompressPlain`,
`Decompress`). The addresses and ports are one value, the flow; the fields that
`compressor.h` marks as fixed are another; sequence and acknowledgement number
are separate. Fields that every compressed header carries are left out.
`InSwitch` says whether the pair runs as externs of the switch, where a packet
that `decompress()` does not forward passes unchanged, or between pcap
interfaces. `stale` is history: the fields of each slot whose last change was
lost. The order on the link is an assumption; in the switch it rests on the
priority of generated packets: see `ArrivalOrder` of `BoosterSwitch`.

### FecSwitch: forward error correction in the switch

`FecSwitch` is the same code around `fecBooster.c` as it runs in the switch, and
differs from `FecPcap` where the code does: `update_fec_state()` numbers a packet
and advances the block, `fec_encode_p4_packet()` then stores it and encodes the
block when its index is k - 1 (together `SendData`, since the program calls one
after the other for a packet); nothing closes a block early, because the
registration of the timeout handler is commented out; k and h are read from a
table for each packet, and `ChangeEncoder` and `ChangeDecoder` let the control
plane change them at any time. On the receiving side a data packet passes
through (`Passed`, from `Complete.p4`) and what `decode_and_forward()` recovers
follows. `Skip` is the early return for a block that was forwarded. A frame that
the decoder misinterprets shows in `out` as the negative number of its block.
`touched` is history: the blocks that were open at the encoder when its table
changed, or of which a frame met other parameters at the decoder. `NbSlots` is
the size of a block's buffer (`TOTAL_NUM_PACKETS`); every k + h of the table fits.
The tables have an entry for the class: the default of `FEC.p4`, `set_k_h(0,0)`, would
make `advance_packet_idx()` take a number modulo zero.

`Ordered` has the one operator that several models share: the elements of a finite
set of integers in ascending order (`InOrder`). `FecPcap` and `FecSwitch` use it for
recovered packets and the frames that fill a block, which loops over indices
produce, and `BoosterSwitch` for multicast copies and generated packets.

### MemcachedCache: the cache in front of memcached

`MemcachedCache` composes clients, the cache and the server. `Process_Key`,
`Parse_Data` and `Output_packets` are the stages of `Memcore()` that touch the
cache or decide on the output; the others cut the packet into words and are
abstracted to its key, value and command. A request passes the cache as it is
sent (`SendHit`, `SendForwarded`, `SendStuck`), reaches the server later
(`Serve`), and the reply passes the cache on its way back (`ReceiveValue`,
`ReceiveOther`). The server and the network are external: UDP, first in first
out in each direction, with losses. For a DELETE `Process_Key` reads an
uninitialised variable: the model takes every outcome that its values lead to.
If nothing comes out of `Memcore()`, `call_memcached()` still reads: an empty
`hls::stream` of the Xilinx library either blocks or yields zeros, which never
mark the end of a frame. `hung` is that state.

### BoosterSwitch: threads and queues of the switch

| Action | Code |
|---|---|
| `Receive` | `receive_()`, blocked while `queue_lo` is full |
| `IngressForward`, `IngressDrop`, `IngressMulticast`, `IngressResubmit`, `IngressEnd` | an iteration of `ingress_thread()`: take a packet, generated ones first, run the program with the externs, clone, and one of the ends of `ingress_action()` |
| `EgressApply`, `EgressRecirculate`, `EgressEnd`, `EgressOutput` | an iteration of `egress_thread()`; `output_buffer.push_front()` may block, so it is a step of its own |
| `Transmit`, `TransmitEnd` | `transmit_thread()` |
| `StopIngress`, `StopWorker`, `StopTransmit` | the destructor, one sentinel at a time |

The P4 program is left open: which externs generate packets, and what becomes of
the packet, is any choice, with the packet's arrival as its only identity.
An extern generates at most one packet in a pass: one that generates several, as
the FEC encoder its parity packets, stands for several externs in a row, since no
property counts packets.
A generated packet has the extern that made it as its entry node and re-enters
the program there, which is what `is_generated()` tests. `late` marks
recirculated packets and egress clones, which no one promises to keep in order.

## 3. Runs

| Run | Shows | Bounds |
|---|---|---|
| `fpruntime_control` | `TypeOK`, `DetectionBound` under every interleaving of dataplanes, lost answers, crashes and control | four numbers, so that they wrap around while requests are open; one candidate, links of one packet; packets are lost through the drop flag, in any number |
| `fpruntime_dataplane` | `NaksBoundedByLosses`, `NoPrematureFailover`, `OffIsFinal`, and under `FairSpec` `LeavesDeadCandidate`, after start | two candidates, four numbers, `NakMax` 2, two losses on the first link and one on the second: a candidate resynchronises after a gap, a Syn resets a count of one, a second gap makes both sides give up |
| `fpruntime_late_nak` | violation: the NAK counts of the two sides disagree | |
| `fpruntime_transition` | violation: a transition is not sequential | |
| `fec_losses` | `ImplementsChannel`, `LossesAreRecovered`, `TagIsFree`, `Deadline` | K = 2, H = 1, two block numbers, six packets: every number is reused; bursts of five losses |
| `fec_switch` | `HarmIsConfined`, `LossesAreRecovered`, `FilledInOrder` | two changes between (k, h) = (1, 1), (2, 1) and (4, 2), two block numbers, six packets, bursts of two losses |
| `rules` | `ImplementsTable`, `SetWins`, `OnlyDefinedClasses` | three slots, three keys, two classes, one deletion |
| `rules_resurrected` | violation: a deleted rule comes back | two deletions |
| `vj` | `TypeOK`, `FieldsAreRight`, `CachesAgree` with losses | two flows that share the only slot, two numbers, links of three frames |
| `vj_fixed` | violation: a changed ttl or tos is not restored | no losses |
| `mcd` | `ValueOfTheKey`, `CoherentWhenQuiet`, `NeverStale`, `EveryRequestAnswered` | two keys of one slot, four requests, one loss |
| `switch` | `OneArrivalAtATime`, `ArrivalOrder`, `Drains`, `StopEnds` | two externs, two ports with a thread each, queues of one packet, two arrivals, one detour |

Bounds. `LinkCap`, `MaxLoss`, `MaxData`, `MaxBurst`, `MaxDeletes`, `MaxChanges`,
`MaxRequests`, `MaxArrivals` and `MaxDetours` bound the environment, in guards,
and not the program. `MaxBacklog` bounds a queue that has no limit in the code;
with two externs the queue never holds more than two packets, so that the bound
of three is never met. The capacities of the switch's queues are 1024, 64 and 128
in the code; with one packet each, every queue is full and every push blocks or
fails early. In `mcd` four requests suffice for a read, an overtaking write, a
collision and a read again. `MaxBurst` is also an assumption on the network that
the code depends on: `LongestBurst` in `FecPcap` is the longest burst that the
decoder survives, and TLC finds a counterexample with one loss more, for K, H =
(2, 1), (3, 1), (1, 1), (1, 2) and (2, 2). With the code's MAX_BLOCK = 6, K = 5
and H = 1 that is 35 frames in a row. When H >= K the bound is lower, because the
early return for a forwarded block leaves `lastPacketIdx` behind; the decoder in
the switch does the same. In `FecSwitch` blocks can be as short as two frames, and
the bound is 2 * (MaxBlock - 1): TLC finds a lost packet with bursts of three on
two block numbers.

Exceptions. Some properties name the case in which the code fails, and say that it
fails in no other: the fields in `stale` (`FieldsAreRight`), `raced` and `lost`
(`CoherentWhenQuiet`, `NeverStale`), `hung` and losses (`EveryRequestAnswered`), the
full output buffer (`StopEnds`). TLC finds a counterexample to each of them at the
run's bounds when any one of its exceptions is left out, so that none is
idle; section 4 describes the failures.

Deadlock is not checked in the FEC runs, `mcd` and `switch`: they stop when all
packets have been sent, or, in `switch`, when the destructor has ended.

Fairness. In `FPRuntime`, `FairSpec` assumes that traffic keeps arriving at the
using side (`WF(Send)`) and that candidates that have not crashed process what
arrives (`WF(\E d : Serve(d) \/ ServeOff(d))`): a dataplane has no other choice. Nothing is
assumed of the links, of responses or of the control program. Without traffic
nothing is detected: the runtime has no timer. In `BoosterSwitch` each thread
takes a step when it can, as the operating system schedules threads; a condition
variable wakes the only thread that waits on it. The destructor goes on once it
is called, but nothing says that it is called, nor that packets arrive. In
`MemcachedCache` the server answers what reaches it, and the switch processes
replies; clients need not send.

## 4. Findings

1. A NAK that is under way during a relink is counted against the next
   candidate (`FPRuntime.p4`, `check_nak`).
2. `transition_state` writes the successor of a state that may be stale; it can
   revive a link that ran out of candidates.
3. `wharf_set_rule` can give a key two slots; a deleted rule reappears when
   another rule is set.
4. The decompressor restores ttl, tos and fragment offset from the flow's first
   packet; the compressor does not check that they are the same.

More observations are part of the models, as exceptions that a property names or
in an action, but no run is about them:

* several ACK replies can be under way for one request, and the second is
  handled as a request (`ReceiveLateAck`);
* `IS_IPV4` tests a bit of the header length, not of the version (`is_ipv4`); packets
  other than TCP and UDP over IPv4 get the default class also while tagging is
  disabled (`wharf_query_packet`);
* `decompress()` forwards no IP packet of 100 bytes or more that is not TCP,
  which between pcap interfaces loses it (`Emitted` with `InSwitch` FALSE);
* a SET that overtakes a read between cache and server is undone in the cache by
  the VALUE of that read, and the cache stays stale until the next write
  (`raced`); a SET that is lost after it passed the cache is read by clients
  although the server never had it (`lost`);
* a DELETE never invalidates an entry: it is forwarded when the slot has another
  key, and otherwise hangs the ingress thread, or depends on an uninitialised
  variable (`SendStuck`). The pcap driver of the cache ignores whether a packet is
  to be dropped;
* the destructor of the switch sends the transmit thread its sentinel while
  egress threads may still have packets: if more of them are left than
  `output_buffer` holds, it never ends (the exception in `StopEnds`: the transmit
  thread has ended, the buffer is full, and an egress thread waits for room). Its comment
  takes the ingress thread to be stopped already, but it has only been sent a
  signal and still feeds the egress queues;
* when k or h changes while a block is open, or on one side before the other,
  data packets can be dropped although no frame was lost, and parity packets
  be forwarded as data (the blocks in `touched`);
* within one arrival, packets can change order: an extern further down generates
  its packets in the order in which generated packets re-enter.

## 5. Proofs

Every safety invariant and action property of the passing runs, and both
refinements, are theorems, for all values of the constants that the assumptions
named below allow. The bounds of the runs (packets, losses, link capacities, and
so on) are constants there, so that no run's bound is a limit of a theorem.

| Theorem | Statement |
|---|---|
| `FPRuntime_proofs`: `TypeCorrect`, `DetectionIsBounded` | `Spec => []TypeOK`, `Spec => []DetectionBound` |
| `FailoverIsNotPremature`, `OffStaysOff`, `NaksArePaid` | `DataplaneSpec =>` `NoPrematureFailover`, `OffIsFinal`, `[]NaksBoundedByLosses` |
| `FecRules_proofs`: `RulesTyped`, `SetDecides`, `ClassesAreDefined` | `Spec =>` `[]TypeOK`, `SetWins`, `[]OnlyDefinedClasses` |
| `SlotsImplementTable` | `MaxDeletes <= 1` implies `Spec => ImplementsTable` |
| `VJCompression_proofs`: `VJTyped` | `Spec => []TypeOK` |
| `FieldsRestored`, `CachesInStep` | `FixedFieldsAreFixed` implies `Spec => []FieldsAreRight`, `Spec => []CachesAgree` |
| `FecPcap_proofs`: `FecTyped`, `TagsAreFree`, `DeadlineKept` | `Spec =>` `[]TypeOK`, `[]TagIsFree`, `[]Deadline` |
| `BoostersImplementChannel`, `LossesRepaired` | `Spec => ImplementsChannel`, `Spec => []LossesAreRecovered` |
| `FecSwitch_proofs`: `SwitchFecTyped`, `SlotsFilledInOrder` | `Spec =>` `[]TypeOK`, `[]FilledInOrder` |
| `ChangesAreConfined`, `SwitchRecoversLosses` | `ShortBursts` implies `Spec => []HarmIsConfined`, `Spec => []LossesAreRecovered` |
| `MemcachedCache_proofs`: `CacheTyped`, `AnswersAreOfTheKey`, `CacheNeverStale`, `CacheCoherent` | `Spec =>` `[]TypeOK`, `[]ValueOfTheKey`, `[]NeverStale`, `[]CoherentWhenQuiet` |
| `BoosterSwitch_proofs`: `SwitchTyped`, `ArrivalsOneAtATime`, `PacketsInArrivalOrder` | `Spec =>` `[]TypeOK`, `[]OneArrivalAtATime`, `[]ArrivalOrder` |

Hypotheses. That sizes are positive includes k and h in the switch, where the code
divides by k (section 2). Three more are not about types and sizes, and each is one
that the code depends on, as a run or a counterexample shows. `MaxDeletes <= 1`: with two
deletions a deleted rule comes back (`rules_resurrected`). `FixedFieldsAreFixed`:
the packets of a flow have one ttl and tos, or they are restored wrongly
(`vj_fixed`). And bursts are bounded, by `FecAssumption` (`LongestBurst`) and
`ShortBursts` (2 * (MaxBlock - 1) frames): one loss more, and a frame is taken for
one of an earlier block with the same number (section 3).

### FPRuntime

The bound on detection is not inductive: nothing in it says why `unacked` stops
growing. `AckWindow` is the strengthening. It says that the distance between
`seqno` and `seqno_ackreq_sent`, modulo the width, bounds the number of hand-overs
since the last ACK while none is expected, and that number minus `AckInterval + 1`
while one is expected; the register has these two meanings in the code. While the
debug flag is set the distance runs freely, so that clearing it may find any
distance with nothing counted. `SubFacts` shows that the modular difference counts
packets, for the thresholds of `ConstantsAssumption` (they leave room below the
width). Honouring `syn_next` makes `AckWindow` hold of the values that
`update_pip_state()` computes with (`WindowRestart`); each outcome of it then keeps
the window (`SendWindow`), and so does fpctl (`ControlWindow`). Without the control
program the bounds are equations (`ExactWindow`), which gives the exact count at
which a relink on silence happens (`OverdueWindow`), from which
`FailoverIsNotPremature` follows.

For `NaksArePaid` the losses must pay for NAKs that nobody has sent yet.
`NaksAccounted` says that the losses on the way to a candidate pay for the NAKs it
has counted in all (`naks`), for each gap between two neighbouring numbers on its
link, and for the gap that the next packet will show when the last one was lost. Since numbers
wrap around, a gap may also close without a NAK, which is why this is a bound and
not an equation: `Accounted` asks for a count along the queue that grows at
every gap.

### FecRules

`SetDecides`: the slot that SET takes is afterwards the first one with its key,
since the search stops at any slot with the key. `ClassesAreDefined` rests on
`NamesDefined`: rules and the default name classes that were defined at some time,
and only those have parameters. `SlotsImplementTable` rests on `SlotsAreMap`:
before the first deletion the active slots come first and have different keys;
the slot of the deleted rule is the first free one and no other has its key, so
that the next SET either finds the key's own slot or takes this one.

### VJCompression

`InStep` looks along the frames on the link: what a frame leaves out is what the
decompressor's cache will hold when the frame arrives, after the frames before it
have changed it; and what the compressor's cache holds is what the decompressor's
will when all have arrived; fields whose last change was lost excepted in both
cases. `CacheOfFlow` says that the fields that are not compared are those of the
flow, which is where `FixedFieldsAreFixed` comes in.

### FecPcap

A frame's place in the stream of all frames is `Pos(n, i)`, block n's index i. The
encoder's part of the invariant is `OpenBlock` (slots filled up to the index, timer
running) and `PacketsDiffer` (no packet in two places); `InStream` says that the
link holds a contiguous part of the stream, and `DecoderAt(n)` that the decoder has
its last frame from block n and its buffer holds frames of that block only.
The heart of it is that a frame which does not look like the start of another
block is of block n indeed, or of a block so much later that the burst between
was longer than allowed (`SameBlock`). That gives the refinement of `FecChannel`.
`LossesRepaired` adds an account of the losses: a block the decoder is done with is
delivered or lost more than H frames (`Settled`); what the buffer lacks of the
block at hand was lost (`Accounted`); of later blocks all that has left the link
was lost (`Unseen`). The decoder also skips frames of a later block that has the
number of one it has forwarded. `SkipRepairs` shows that those are parity frames
of a block that is lost anyway when H < K, and that the shorter burst bound rules
them out when H >= K.

### FecSwitch

Here the sizes of the blocks differ, so the places are given by functions that the
invariant asserts to exist (`StreamInv(s, q, m)`): `s[n]` packets were sent before
block n, `q[n]` are its k and h, and m is the block of the last frame the decoder
took. Blocks that a change touched are exempt from nearly everything, but not from
one fact, that they put at least two frames on the wire (a data and a parity
packet). `DecoderAt` uses it to count a burst in blocks: 2 * (blocks skipped)
frames at least. Hence a frame with the number of block m that continues its
indices is of block m when bursts are at most 2 * (MaxBlock - 1). The rest follows
the pattern above: `BlocksClosed` and `FramesOK` tie parity packets to the packets
of their block, `BufferOK` the decoder's buffer, `PutOut`, `Settled`, `Unseen` and
`Accounted` the losses. `FilledInOrder` needs no such thing: it is inductive with
the types, because the remainder that `advance_packet_idx()` takes for the k of the
moment is never above the index it came from plus one.

### MemcachedCache

`AnswersAreOfTheKey` rests on `EntriesMatch`: a valid entry has data of its key as
long as the booster is not hung. The condition is needed, since a DELETE may change
the key of an entry, but only when it has no output. `CacheNeverStale` and
`CacheCoherent` need to know what is under way. `Numbered` says that requests reach
the server in the order of their numbers, that writes under way are newer than the
server's value and that clients know of no later one. `Coherent` says of every key
whose last write overtook no read that reads under way follow the writes under
way, that a VALUE on its way back is the server's with no write on its way
(`ReadsInOrder`), and that a cached value is as new as the server's and as every
write under way, and, if no write was lost, is one of them (`Fresh`). A forwarded
DELETE keeps `Fresh` only because it is then a collision: the slot has another key.
`Frame` disposes of the keys that a step is not about.

### BoosterSwitch

`SwitchTyped` needs `NoSentinels`: the destructor's sentinels are in no queue whose
packets are looked into. `PacketsInArrivalOrder` needs that a worker has the packets
of its own ports only (`OwnPorts`), that what leaves a port is in order from the
output buffer over the packet a worker holds to its queue (`PortOrder`), and a
number c, the arrival the ingress thread is at (`InTurn(c)`): everything that
leaves stems from c or before, everything that re-enters from c, and what waits
in `queue_lo` from c or later.

### Only model-checked

* Liveness: `LeavesDeadCandidate`, `Drains`, `StopEnds`, `EveryRequestAnswered`.
  Fairness is about `ENABLED`, which the proof system cannot reason about.
* That the hypotheses above are needed: this is a counterexample of TLC.

No safety invariant of a run is left without a theorem. The content of the
switch's and the boosters' queues is proved by invariants over places in
sequences; nothing needed induction over data.

## 6. Plan

1. Models of what section 7 leaves out for size and not for kind: the reset of the
   PIP registers under traffic, with a theorem on which packets may be misjudged.
2. Action properties that sharpen invariants, such as that a relink never returns
   to a candidate once left.

## 7. Not modelled

* Headerless runtimes: tables with a next hop, no registers.
* `SenderSeqState` and `ReceiverNakState`: a prototype whose numbers have no effect
  on any packet, since `relink()` is a TODO.
* The reset of the PIP registers under traffic (`fpctl.py`, eight writes), and
  lookups that miss and leave index 0: `FPRuntime` starts after the configuration.
* `fec_encode_timeout_handler()` in the switch, which nothing calls; the port
  status of `fecP4.cpp`; ports of 5 and above, whose buffers are out of range.
* Priority queueing and rate limits of the switch's egress queues, which are off
  in the build and by default; learning; the swap of programs.
* Frame sizes at `FRAME_SIZE_CUTOFF`, class `TCLASS_MAX`, a class without k and h
  in the switch, values longer than `MAX_DATA_SIZE` in the cache: what the code does is undefined.
* The planner (a sequential search over floating-point resources), the program
  analyser (a compiler patch), the FPGA and Verilog designs other than the cache
  (clocked hardware, generated code and board support, which are most of the
  repository's lines), the kvstore prototype, and the scripts for tests,
  measurements and telemetry.
