----------------------------- MODULE FecSwitch -----------------------------
(***************************************************************************)
(* The FEC boosters as externs of the software switch (fecP4/), for the    *)
(* traffic of one class and one lossy link: the encoder at its egress      *)
(* port, the link, and the decoder at its ingress port.                    *)
(*                                                                         *)
(* Unlike the boosters on pcap interfaces (FecPcap), the encoder never     *)
(* closes a block before its last packet, and both sides take the number   *)
(* of data and parity packets of a block from a table, which the control   *)
(* plane may change at any time, for each packet anew.                     *)
(*                                                                         *)
(* A data packet is represented by its number, a parity packet by the data *)
(* packets that it was computed from.  The switch handles one arrival at a *)
(* time, and sends what the externs generate after the packet itself       *)
(* (BoosterSwitch): a call of an extern is one step.                       *)
(***************************************************************************)
EXTENDS Integers, Sequences, FiniteSets, Ordered

CONSTANTS
    Params,      \* the parameters the tables may hold: records of k and h
    MaxBlock,    \* MAX_BLOCK
    NbSlots,     \* TOTAL_NUM_PACKETS: the packets of a block in the buffer
    MaxData,     \* bound: packets that enter the encoder
    LinkCap,     \* bound: frames on the link when the encoder takes a packet
    MaxBurst,    \* bound: frames lost in a row
    MaxChanges   \* bound: changes of a table

\* The tables have an entry for the traffic class.  (A class without one gets the
\* default set_k_h(0, 0) of FEC.p4: advance_packet_idx() would then take a number
\* modulo zero.)
ASSUME FecSwitchAssumption ==
    /\ Params # {} /\ Params \subseteq [k : Nat \ {0}, h : Nat \ {0}]
    /\ NbSlots \in Nat /\ \A p \in Params : p.k + p.h <= NbSlots
    /\ MaxBlock \in Nat \ {0, 1} /\ MaxData \in Nat /\ LinkCap \in Nat
    /\ MaxBurst \in Nat /\ MaxChanges \in Nat

Blocks == 0 .. MaxBlock - 1
Size(p) == p.k + p.h
Slots == 0 .. NbSlots - 1
DataIdx(p) == 0 .. p.k - 1
ParityIdx(p) == p.k .. Size(p) - 1

Absent == 0                \* PACKET_ABSENT
NoWord == << >>

VARIABLES
    \* encoder
    encoder_params, block_id, frame_idx, enc,
    \* the link, and how many frames in a row it has lost
    link, burst,
    \* decoder: the buffer, and struct tclass_state
    decoder_params, dec, last_block, packet_idx, forwarded,
    \* what entered the encoder and left the decoder
    sent, out,
    changes,
    \* history: the blocks closed, the block of each packet, the frames lost
    \* of each block, and the blocks that a change of parameters has touched
    closed, home, lost, touched

encoder == <<block_id, frame_idx, enc, sent, closed, home>>
decoder == <<dec, last_block, packet_idx, forwarded, out>>
vars == <<encoder_params, decoder_params, changes, encoder, link, burst, decoder, lost, touched>>

(* A frame on the wire.  The number of its block, which is not reused, and *)
(* the parameters it was sent with are not visible to the decoder.         *)
Content == [data : Absent .. MaxData, word : Seq(1 .. MaxData)]
Frame == [nr : Nat, par : Params, block : Blocks, idx : Slots, content : Content]
NoContent == [data |-> Absent, word |-> NoWord]

TypeOK ==
    /\ encoder_params \in Params /\ decoder_params \in Params
    /\ block_id \in Blocks /\ frame_idx \in Slots
    /\ enc \in [Blocks -> [Slots -> Absent .. MaxData]]
    /\ \A i \in 1 .. Len(link) : link[i] \in Frame
    /\ burst \in 0 .. MaxBurst
    /\ dec \in [Blocks -> [Slots -> Content]]
    /\ last_block \in Blocks \cup {-1} /\ packet_idx \in Slots /\ forwarded \in BOOLEAN
    /\ sent \in 0 .. MaxData /\ changes \in 0 .. MaxChanges
    /\ \A i \in 1 .. Len(out) : out[i] \in -MaxData .. MaxData
    /\ Len(home) = sent

Init ==
    /\ encoder_params \in Params /\ decoder_params = encoder_params
    /\ block_id = 0 /\ frame_idx = 0
    /\ enc = [b \in Blocks |-> [i \in Slots |-> Absent]]
    /\ link = << >> /\ burst = 0
    /\ dec = [b \in Blocks |-> [i \in Slots |-> NoContent]]
    /\ last_block = -1 /\ packet_idx = 0 /\ forwarded = FALSE
    /\ sent = 0 /\ out = << >> /\ changes = 0
    /\ closed = << >> /\ home = << >>
    /\ lost = [n \in 1 .. MaxData |-> 0] /\ touched = {}

-----------------------------------------------------------------------------
(* Encoder. *)

Current == Len(closed) + 1
NewFrame(i, content) ==
    [nr |-> Current, par |-> encoder_params, block |-> block_id, idx |-> i, content |-> content]

(* encode_and_forward(): the parity packets.  The code also fills a block  *)
(* up with empty frames, but no slot is ever absent: see FilledInOrder.    *)
ParityFrames(buf) ==
    [n \in 1 .. encoder_params.h |->
        NewFrame(encoder_params.k + n - 1,
                 [data |-> Absent, word |-> [m \in 1 .. encoder_params.k |-> buf[m - 1]]])]

(* advance_packet_idx() *)
\* mutants: the index starts again only when it is k; it starts from 1
NextIdxExact(k) == IF frame_idx + 1 = k THEN 0 ELSE frame_idx + 1
NextIdxFromOne(k) == 1 + (frame_idx % k)
NextIdx(k) == (frame_idx + 1) % k

(* Whether a packet completes the block. *)
Completes(k) == frame_idx = k - 1

(* update_fec_state(), then fec_encode_p4_packet(). *)
SendData ==
    LET k == encoder_params.k
        buf == [enc[block_id] EXCEPT ![frame_idx] = sent + 1]
        content == [data |-> sent + 1, word |-> NoWord]
    IN
    /\ sent < MaxData /\ Len(link) <= LinkCap
    /\ sent' = sent + 1
    /\ home' = Append(home, Current)
    /\ frame_idx' = NextIdx(k)
    /\ block_id' = IF NextIdx(k) = 0 THEN (block_id + 1) % MaxBlock ELSE block_id
    /\ enc' = [enc EXCEPT ![block_id] =
                 IF Completes(k) THEN [i \in Slots |-> Absent] ELSE buf]
    /\ link' = link \o <<NewFrame(frame_idx, content)>>
                    \o (IF Completes(k) THEN ParityFrames(buf) ELSE << >>)
    /\ closed' = IF NextIdx(k) = 0
                 THEN Append(closed, [h |-> encoder_params.h,
                                      data |-> {v \in 1 .. sent + 1 : home'[v] = Current}])
                 ELSE closed
    /\ UNCHANGED <<encoder_params, decoder_params, changes, burst, decoder, lost, touched>>

-----------------------------------------------------------------------------
(* The control plane changes the parameters of a side. *)

ChangeEncoder(p) ==
    /\ changes < MaxChanges /\ changes' = changes + 1
    /\ p # encoder_params /\ encoder_params' = p
    /\ touched' = IF frame_idx = 0 THEN touched ELSE touched \cup {Current}
    /\ UNCHANGED <<decoder_params, encoder, link, burst, decoder, lost>>

ChangeDecoder(p) ==
    /\ changes < MaxChanges /\ changes' = changes + 1
    /\ p # decoder_params /\ decoder_params' = p
    /\ UNCHANGED <<encoder_params, encoder, link, burst, decoder, lost, touched>>

-----------------------------------------------------------------------------
(* The link; in the experiments, random_drop at an egress port. *)

Lose ==
    /\ link # << >>
    /\ burst < MaxBurst
    /\ burst' = burst + 1
    /\ lost' = [lost EXCEPT ![Head(link).nr] = @ + 1]
    /\ link' = Tail(link)
    /\ UNCHANGED <<encoder_params, decoder_params, changes, encoder, decoder, touched>>

-----------------------------------------------------------------------------
(* Decoder: fec_decode_p4_packet() with decode_and_forward(), and what the *)
(* program does with the packet itself.                                    *)

\* mutant: a block is told apart from the last one only by its number
StartsBlockByNumber(f) == f.block # last_block
StartsBlock(f) == f.block # last_block \/ f.idx <= packet_idx

Missing(buf) == {i \in DataIdx(decoder_params) : buf[i] = NoContent}
Parities(buf) == {i \in ParityIdx(decoder_params) : buf[i] # NoContent}
\* mutant: decoding waits for one parity packet too many
can_decode_late(buf) == Cardinality(Missing(buf)) < Cardinality(Parities(buf))
can_decode(buf) == Cardinality(Missing(buf)) <= Cardinality(Parities(buf))

(* The RSE decoder solves for the missing packets: the result is right     *)
(* when all that it knows comes from one block, encoded with the same k.   *)
Word(buf) == buf[CHOOSE j \in Parities(buf) : TRUE].word
Solvable(buf) ==
    /\ Len(Word(buf)) = decoder_params.k
    /\ \A j \in Parities(buf) : buf[j].word = Word(buf)
    /\ \A j \in DataIdx(decoder_params) \ Missing(buf) : buf[j].data = Word(buf)[j + 1]

(* What decode_and_forward() generates: the packets recovered, in order.   *)
(* Otherwise they are garbage, noted with the block that led to it; one is *)
(* forwarded if its length, which it carries in its data, happens to be    *)
(* that of a packet.                                                       *)
Recovered(buf, nr) ==
    LET missing == InOrder(Missing(buf)) IN
    CASE Missing(buf) = {} -> {<< >>}
      [] Missing(buf) # {} /\ Solvable(buf) ->
            {[n \in 1 .. Len(missing) |-> Word(buf)[missing[n] + 1]]}
      [] Missing(buf) # {} /\ ~Solvable(buf) ->
            {[n \in 1 .. c |-> -nr] : c \in 0 .. Len(missing)}

(* The program forwards the packet itself if its index is that of a data   *)
(* packet.                                                                 *)
\* mutant: it forwards the parity packets too
PassedAll(f) == IF f.content.data # Absent THEN <<f.content.data>> ELSE <<-f.nr>>
Passed(f) ==
    IF f.idx >= decoder_params.k THEN << >>
    ELSE IF f.content.data # Absent THEN <<f.content.data>> ELSE <<-f.nr>>

TakeFrame(f) ==
    /\ link # << >> /\ f = Head(link)
    /\ link' = Tail(link)
    /\ burst' = 0
    /\ touched' = IF f.par = decoder_params THEN touched ELSE touched \cup {f.nr}
    /\ UNCHANGED <<encoder_params, decoder_params, changes, encoder, lost>>

(* The block has been forwarded already. *)
Skip ==
    LET f == Head(link) IN
    /\ TakeFrame(f)
    /\ ~StartsBlock(f) /\ forwarded
    /\ out' = out \o Passed(f)
    /\ UNCHANGED <<dec, last_block, packet_idx, forwarded>>

(* (The code does not insert a packet whose slot is taken; it never is,    *)
(* since a block starts anew when its indices do not increase.)            *)
Receive ==
    LET f == Head(link)
        old == IF StartsBlock(f) THEN [i \in Slots |-> NoContent] ELSE dec[f.block]
        new == [old EXCEPT ![f.idx] = f.content]
    IN
    /\ TakeFrame(f)
    /\ StartsBlock(f) \/ ~forwarded
    /\ last_block' = f.block
    /\ packet_idx' = f.idx
    /\ forwarded' = can_decode(new)
    /\ dec' = [dec EXCEPT ![f.block] = IF can_decode(new) THEN [i \in Slots |-> NoContent] ELSE new]
    /\ \E r \in (IF can_decode(new) THEN Recovered(new, f.nr) ELSE {<< >>}) :
        out' = out \o Passed(f) \o r

-----------------------------------------------------------------------------
Next ==
    \/ SendData
    \/ \E p \in Params : ChangeEncoder(p) \/ ChangeDecoder(p)
    \/ Lose
    \/ Skip
    \/ Receive

Spec == Init /\ [][Next]_vars

-----------------------------------------------------------------------------
(* A change of parameters harms only the blocks that it touches: those     *)
(* that the encoder had begun, and those of which the decoder takes a      *)
(* frame with other parameters than it was sent with.  Of all other blocks *)
(* the decoder forwards nothing that was not sent, and nothing twice,      *)
(* whatever is lost, up to MaxBurst frames in a row.                       *)
HarmIsConfined ==
    /\ \A i \in 1 .. Len(out) : out[i] < 0 => -out[i] \in touched
    /\ \A i, j \in 1 .. Len(out) : i # j /\ out[i] = out[j] /\ out[i] > 0 =>
         home[out[i]] \in touched

(* All packets of a block that no change has touched, and of which at most *)
(* h frames are lost, are delivered once its frames have passed the link,  *)
(* also when the blocks before and after it were touched.                  *)
LossesAreRecovered ==
    \A n \in 1 .. Len(closed) :
        (\A i \in 1 .. Len(link) : link[i].nr # n) /\ lost[n] <= closed[n].h /\ n \notin touched
            => \A v \in closed[n].data : \E j \in 1 .. Len(out) : out[j] = v

(* The encoder fills the slots of a block in order and finds none of them  *)
(* empty when it encodes the block, also when k changes while the block is *)
(* open and the index starts again in its middle.                          *)
FilledInOrder == \A i \in 0 .. frame_idx - 1 : enc[block_id][i] # Absent

=============================================================================
