------------------------------ MODULE FecPcap ------------------------------
(***************************************************************************)
(* The FEC boosters that run on a pcap interface (fecPcap/), for the       *)
(* traffic of one class: the encoder with its timeout, a link that loses   *)
(* frames, and the decoder.                                                *)
(*                                                                         *)
(* The encoder tags data packets with a block and an index, forwards them  *)
(* at once, and follows the K data packets of a block by H parity packets; *)
(* when a block stays open for too long it is filled up with empty frames. *)
(* The decoder forwards data packets at once, and recovers the ones that   *)
(* are missing as soon as it has as many parity packets.  Block numbers    *)
(* are reused after MaxBlock blocks.                                       *)
(*                                                                         *)
(* A data packet is represented by its number, a parity packet by the K    *)
(* data packets that it was computed from.                                 *)
(***************************************************************************)
EXTENDS Integers, Sequences, FiniteSets, Ordered

CONSTANTS
    K, H,       \* data and parity packets of a block
    MaxBlock,   \* MAX_BLOCK
    T,          \* the timeout of the class in ticks of one second, 0 for none
    MaxData,    \* bound: packets that enter the encoder
    LinkCap,    \* bound: frames on the link when the encoder takes a packet
    MaxBurst    \* bound: frames lost in a row

(* The longest burst of losses that the decoder survives.  When one frame  *)
(* more is lost, the next frame can have the number of the block before    *)
(* the burst and a higher index, and is taken for a frame of that block.   *)
(* With H >= K a shorter burst is enough: the decoder keeps last_idx while *)
(* it skips the parity frames of a block that it has forwarded, and then   *)
(* skips those of the block after the burst as well.                       *)
LongestBurst ==
    IF H < K THEN MaxBlock * (K + H) - 1 ELSE (MaxBlock - 1) * (K + H) + K - 1

ASSUME FecAssumption ==
    /\ K \in Nat \ {0} /\ H \in Nat \ {0} /\ MaxBlock \in Nat \ {0, 1}
    /\ T \in Nat /\ MaxData \in Nat /\ LinkCap \in Nat
    /\ MaxBurst \in 0 .. LongestBurst

Blocks == 0 .. MaxBlock - 1
DataIdx == 0 .. K - 1
ParityIdx == K .. K + H - 1

Absent == -1               \* PACKET_ABSENT
Filler == 0                \* an empty frame
Garbage == -2              \* what decoding packets of different blocks yields
NoWord == << >>
Word == [DataIdx -> Filler .. MaxData]

VARIABLES
    \* encoder
    block_id, frame_idx, enc, lastBlockId, timeout,
    \* the link, and how many frames in a row it has lost
    link, burst,
    \* decoder: the buffer, and struct tclass_state
    dec, nothing_to_decode, last_block, last_idx, forwarded,
    \* what entered the encoder and left the decoder
    sent, out,
    \* history: the blocks encoded, the frames lost of each block, and the
    \* ticks since the open block was started
    words, lost, age

encoder == <<block_id, frame_idx, enc, lastBlockId, timeout, sent, words, age>>
decoder == <<dec, nothing_to_decode, last_block, last_idx, forwarded, out>>
vars == <<encoder, link, burst, decoder, lost>>

(* A frame on the wire; nr numbers the blocks without reusing numbers and  *)
(* is not visible to the decoder.                                          *)
Frame == [nr : Nat, block : Blocks, idx : 0 .. K + H - 1,
          data : Absent .. MaxData, word : Word \cup {NoWord}]

(* A block of the decoder's buffer. *)
Buffer == [data : [DataIdx -> Absent .. MaxData],
           parity : [ParityIdx -> Word \cup {NoWord}]]

TypeOK ==
    /\ block_id \in Blocks /\ frame_idx \in DataIdx /\ lastBlockId \in Blocks
    /\ enc \in [Blocks -> [DataIdx -> Absent .. MaxData]]
    /\ timeout \in 0 .. T /\ age \in 0 .. T
    /\ link \in Seq(Frame)
    /\ burst \in 0 .. MaxBurst
    /\ dec \in [Blocks -> Buffer]
    /\ nothing_to_decode \in BOOLEAN /\ forwarded \in BOOLEAN
    /\ last_block \in Blocks /\ last_idx \in 0 .. K + H - 1
    /\ sent \in 0 .. MaxData
    /\ out \in Seq(Garbage .. MaxData)
    /\ words \in Seq(Word)
    /\ lost \in [1 .. MaxData -> Nat]

EmptyData == [i \in DataIdx |-> Absent]
EmptyBuffer == [data |-> EmptyData, parity |-> [i \in ParityIdx |-> NoWord]]

-----------------------------------------------------------------------------
(* Encoder. *)

NextBlockEndless(b) == b + 1  \* mutant: block numbers do not wrap around
NextBlock(b) == (b + 1) % MaxBlock

(* The number of the block that is being filled. *)
Current == Len(words) + 1

DataFrame(b, i, v) ==
    [nr |-> Current, block |-> b, idx |-> i, data |-> v, word |-> NoWord]
ParityFrame(b, i, w) ==
    [nr |-> Current, block |-> b, idx |-> i, data |-> Absent, word |-> w]

Filled(buf) == [i \in DataIdx |-> IF buf[i] = Absent THEN Filler ELSE buf[i]]

(* encode_and_forward_block(): the frames that fill the block up, then the *)
(* parity frames.                                                          *)
BlockFrames(b, buf) ==
    LET missing == InOrder({i \in DataIdx : buf[i] = Absent}) IN
    [n \in 1 .. Len(missing) |-> DataFrame(b, missing[n], Filler)]
        \o [n \in 1 .. H |-> ParityFrame(b, K + n - 1, Filled(buf))]

(* The block with the new packet: the first packet of a block clears it. *)
(* Mutant: it does not.                                                    *)
TaggedStale(b, i) == [enc[b] EXCEPT ![i] = sent + 1]
Tagged(b, i) == [(IF i = 0 THEN EmptyData ELSE enc[b]) EXCEPT ![i] = sent + 1]

(* The timer runs from the first packet of a block. *)
(* Mutant: it is started at index 1.                                       *)
TimerLate(i, complete) == IF complete THEN 0 ELSE IF i = 1 THEN T ELSE timeout
Timer(i, complete) ==
    CASE complete                       -> 0
      [] ~complete /\ i = 0 /\ T > 0    -> T
      [] ~complete /\ ~(i = 0 /\ T > 0) -> timeout

(* my_packet_handler() of the encoder, for a packet of the class.  (It     *)
(* exits when the slot is taken: see TagIsFree.)                           *)
SendData ==
    LET b == block_id
        i == frame_idx
        buf == Tagged(b, i)
        complete == i = K - 1
    IN
    /\ sent < MaxData /\ Len(link) <= LinkCap
    /\ i = 0 \/ enc[b][i] = Absent
    /\ sent' = sent + 1
    /\ frame_idx' = (i + 1) % K
    /\ block_id' = IF complete THEN NextBlock(b) ELSE b
    /\ enc' = [enc EXCEPT ![b] = buf]
    /\ lastBlockId' = IF i = 0 THEN b ELSE lastBlockId
    /\ link' = link \o <<DataFrame(b, i, sent + 1)>>
                    \o (IF complete THEN BlockFrames(b, buf) ELSE << >>)
    /\ words' = IF complete THEN Append(words, Filled(buf)) ELSE words
    /\ timeout' = Timer(i, complete)
    /\ age' = IF i = 0 THEN 0 ELSE age
    /\ UNCHANGED <<burst, decoder, lost>>

(* booster_timeout_handler(), once a second between two runs of the pcap   *)
(* loop.                                                                   *)
Tick ==
    /\ timeout > 1
    /\ timeout' = timeout - 1
    /\ age' = age + 1
    /\ UNCHANGED <<block_id, frame_idx, enc, lastBlockId, sent, words, link,
                   burst, decoder, lost>>

Expire ==
    /\ timeout = 1
    /\ timeout' = 0
    /\ age' = age + 1
    /\ link' = link \o BlockFrames(lastBlockId, enc[lastBlockId])
    /\ words' = Append(words, Filled(enc[lastBlockId]))
    /\ block_id' = NextBlock(block_id)
    /\ frame_idx' = 0
    /\ lastBlockId' = NextBlock(block_id)
    /\ enc' = [enc EXCEPT ![lastBlockId] = Filled(@), ![NextBlock(block_id)] = EmptyData]
    /\ UNCHANGED <<sent, burst, decoder, lost>>

-----------------------------------------------------------------------------
(* The link. *)

Lose ==
    /\ link # << >>
    /\ burst < MaxBurst
    /\ burst' = burst + 1
    /\ lost' = [lost EXCEPT ![Head(link).nr] = @ + 1]
    /\ link' = Tail(link)
    /\ UNCHANGED <<encoder, decoder>>

-----------------------------------------------------------------------------
(* Decoder: my_packet_handler() with decode_and_forward(). *)

(* Mutant: a block is told apart from the last one only by its number. *)
StartsBlockByNumber(f) == f.block # last_block
StartsBlock(f) == f.block # last_block \/ f.idx <= last_idx

Insert(buf, f) ==
    IF f.idx \in DataIdx
    THEN [buf EXCEPT !.data[f.idx] = IF @ = Absent THEN f.data ELSE @]
    ELSE [buf EXCEPT !.parity[f.idx] = IF @ = NoWord THEN f.word ELSE @]

Inserts(buf, f) ==
    IF f.idx \in DataIdx THEN buf.data[f.idx] = Absent ELSE buf.parity[f.idx] = NoWord

Missing(buf) == {i \in DataIdx : buf.data[i] = Absent}
Parities(buf) == {i \in ParityIdx : buf.parity[i] # NoWord}
(* Mutant: decoding waits for one parity packet too many. *)
CanDecodeLate(buf) == Cardinality(Missing(buf)) < Cardinality(Parities(buf))
CanDecode(buf) == Cardinality(Missing(buf)) <= Cardinality(Parities(buf))

(* The RSE decoder solves for the missing packets: the result is right     *)
(* when all that it knows comes from one block.                            *)
Consistent(buf, w) ==
    /\ \A i \in Parities(buf) : buf.parity[i] = w
    /\ \A i \in DataIdx \ Missing(buf) : buf.data[i] = w[i]
Solve(buf, i) ==
    LET w == buf.parity[CHOOSE j \in Parities(buf) : TRUE] IN
    IF Consistent(buf, w) THEN w[i] ELSE Garbage

(* The recovered packets that decode_and_forward() forwards: no fillers. *)
Recovered(buf) ==
    LET found == InOrder({i \in Missing(buf) : Solve(buf, i) # Filler}) IN
    [n \in 1 .. Len(found) |-> Solve(buf, found[n])]

(* A data frame is forwarded at once, unless it is a filler. *)
Passed(f) == IF f.idx \in DataIdx /\ f.data # Filler THEN <<f.data>> ELSE << >>

TakeFrame ==
    /\ link # << >>
    /\ link' = Tail(link)
    /\ burst' = 0
    /\ UNCHANGED <<encoder, lost>>

(* The block has been forwarded already. *)
Skip ==
    /\ TakeFrame
    /\ ~StartsBlock(Head(link)) /\ forwarded
    /\ UNCHANGED decoder

Receive ==
    LET f == Head(link)
        old == IF StartsBlock(f) THEN EmptyBuffer ELSE dec[f.block]
        new == Insert(old, f)
        idle == ~Inserts(old, f) /\ (StartsBlock(f) \/ nothing_to_decode)
    IN
    /\ TakeFrame
    /\ StartsBlock(f) \/ ~forwarded
    /\ last_block' = f.block
    /\ last_idx' = f.idx
    /\ forwarded' = CanDecode(new)
    /\ nothing_to_decode' = (CanDecode(new) \/ idle)
    /\ dec' = [dec EXCEPT ![f.block] = IF CanDecode(new) THEN EmptyBuffer ELSE new]
    /\ out' = out \o Passed(f)
                  \o (IF CanDecode(new) /\ ~idle THEN Recovered(new) ELSE << >>)

-----------------------------------------------------------------------------
Init ==
    /\ block_id = 0 /\ frame_idx = 0 /\ lastBlockId = 0 /\ timeout = 0
    /\ enc = [b \in Blocks |-> EmptyData]
    /\ link = << >> /\ burst = 0
    /\ dec = [b \in Blocks |-> EmptyBuffer]
    /\ nothing_to_decode = FALSE /\ forwarded = FALSE
    /\ last_block = 0 /\ last_idx = 0
    /\ sent = 0 /\ out = << >>
    /\ words = << >> /\ lost = [n \in 1 .. MaxData |-> 0] /\ age = 0

Next == SendData \/ Tick \/ Expire \/ Lose \/ Skip \/ Receive

Spec == Init /\ [][Next]_vars

-----------------------------------------------------------------------------
(* The boosters implement the channel: whatever is lost, up to MaxBurst    *)
(* frames in a row, the decoder never forwards a packet that it made up    *)
(* from frames of different blocks, nor a packet that it or the encoder    *)
(* has already forwarded, although block numbers are reused and although   *)
(* the decoder tells blocks apart only by comparing a frame with the one   *)
(* before.                                                                 *)
Channel == INSTANCE FecChannel
ImplementsChannel == Channel!Spec

(* A block of which at most H frames are lost is delivered completely,     *)
(* once its frames have passed the link.                                   *)
LossesAreRecovered ==
    \A n \in 1 .. Len(words) :
        (\A i \in 1 .. Len(link) : link[i].nr # n) /\ lost[n] <= H
            => \A i \in DataIdx : words[n][i] # Filler =>
                 \E j \in 1 .. Len(out) : out[j] = words[n][i]

(* The encoder never meets its own "Tagging produced a duplicate index",   *)
(* upon which it would exit: the slot of the next packet is free, across   *)
(* timeouts and the reuse of block numbers.                                *)
TagIsFree == frame_idx # 0 => enc[block_id][frame_idx] = Absent

(* "t is an upper bound on the encoding timeout" (readme.md): while a      *)
(* block is open its timer runs, and expires at most T ticks after the     *)
(* block's first packet, however slowly the others arrive.                 *)
Deadline == T > 0 /\ frame_idx # 0 => timeout > 0 /\ age + timeout <= T

=============================================================================
