--------------------------- MODULE FecPcap_proofs ---------------------------
(***************************************************************************)
(* Proofs about the FEC boosters on pcap interfaces, for any number of     *)
(* data and parity packets, any timeout, any losses in bursts that are not *)
(* too long, and any number of blocks and frames on the link.              *)
(***************************************************************************)
EXTENDS FecPcap, Ordered_proofs

-----------------------------------------------------------------------------
(* Arithmetic. *)

(* Multiples keep the order. *)
LEMMA MulMono ==
    ASSUME NEW M \in Nat, NEW a \in Int, NEW b \in Int, a <= b
    PROVE  a * M <= b * M
OBVIOUS

-----------------------------------------------------------------------------
(* The stream of frames. *)

W == K + H
BlockOf(n) == (n - 1) % MaxBlock

(* The place of a frame in the stream: all frames of a block, and all      *)
(* blocks, one after the other.                                            *)
Pos(n, i) == n * W + i

(* The data packet with index i of block n, if the encoder has tagged it.  *)
Known(n, i) == n <= Len(words) \/ (n = Current /\ i < frame_idx)
At(n, i) == IF n <= Len(words) THEN words[n][i] ELSE enc[block_id][i]

(* The place of the first frame on the link; of the last frame that the    *)
(* decoder has taken.                                                      *)
HeadPos == Pos(Current, frame_idx) - Len(link)
LastTaken == HeadPos - burst - 1

(* What a frame of the stream holds. *)
Genuine(f) ==
    /\ f.nr \in 1 .. Current /\ f.block = BlockOf(f.nr)
    /\ f.idx \in DataIdx => Known(f.nr, f.idx) /\ f.data = At(f.nr, f.idx)
    /\ f.idx \in ParityIdx => f.nr <= Len(words) /\ f.word = words[f.nr]

-----------------------------------------------------------------------------
(* The inductive invariant. *)

(* The slots of the open block are filled in order, and its timer runs. *)
OpenBlock ==
    /\ block_id = BlockOf(Current)
    /\ (timeout > 0) <=> (T > 0 /\ frame_idx # 0)
    /\ timeout > 0 => age + timeout <= T
    /\ frame_idx # 0 =>
        /\ lastBlockId = block_id
        /\ \A i \in DataIdx : IF i < frame_idx THEN enc[block_id][i] \in 1 .. sent
                              ELSE enc[block_id][i] = Absent

(* No packet is in two places. *)
PacketsDiffer ==
    /\ \A n \in 1 .. Len(words), i \in DataIdx : words[n][i] \in 0 .. sent
    /\ \A n, m \in 1 .. Current, i, j \in DataIdx :
        Known(n, i) /\ Known(m, j) /\ At(n, i) = At(m, j) /\ At(n, i) # Filler => n = m /\ i = j

(* The link holds a contiguous part of the stream. *)
InStream ==
    \A l \in 1 .. Len(link) :
        Genuine(link[l]) /\ Pos(link[l].nr, link[l].idx) = HeadPos + l - 1

(* The decoder's buffer for the block with number n: what it holds is from *)
(* this block, and from frames up to the last one received.                *)
BufferOf(n, buf) ==
    /\ \A i \in DataIdx : \/ buf.data[i] = Absent
                          \/ i <= last_idx /\ Known(n, i) /\ buf.data[i] = At(n, i)
    /\ \A i \in ParityIdx : \/ buf.parity[i] = NoWord
                            \/ i <= last_idx /\ n <= Len(words) /\ buf.parity[i] = words[n]

(* The decoder has received its last frame from block n. *)
DecoderAt(n) ==
    /\ last_block = BlockOf(n)
    /\ \/ Pos(n, last_idx) <= LastTaken
       \/ n = 1 /\ last_idx = 0 /\ ~forwarded /\ out = << >> /\ LastTaken = W - 1
    /\ ~forwarded => LastTaken <= Pos(n, last_idx) /\ BufferOf(n, dec[last_block])
    /\ \A l \in 1 .. Len(out) : out[l] # Filler /\ \E m \in 1 .. n, i \in DataIdx :
        /\ Known(m, i) /\ out[l] = At(m, i)
        /\ m = n /\ ~forwarded => dec[last_block].data[i] # Absent

OutOnce == \A i, j \in 1 .. Len(out) : i # j => out[i] # out[j]

Inv ==
    /\ OpenBlock /\ PacketsDiffer /\ InStream /\ OutOnce
    /\ \E n \in 1 .. Current : DecoderAt(n)

-----------------------------------------------------------------------------
(* Places and block numbers. *)

(* The constants. *)
LEMMA ConstantFacts ==
    /\ K \in Nat \ {0} /\ H \in Nat \ {0} /\ W \in Nat \ {0} /\ W = K + H
    /\ MaxBlock \in Nat \ {0} /\ T \in Nat /\ MaxData \in Nat
    /\ 0 \in Blocks /\ 0 \in DataIdx /\ 0 \in 0 .. K + H - 1
    /\ MaxBurst \in Nat /\ MaxBurst < MaxBlock * W
<1>1. /\ K \in Nat \ {0} /\ H \in Nat \ {0} /\ W \in Nat \ {0} /\ W = K + H
      /\ MaxBlock \in Nat \ {0, 1} /\ T \in Nat /\ MaxData \in Nat
  BY FecAssumption DEF W
<1>2. 0 \in Blocks /\ 0 \in DataIdx /\ 0 \in 0 .. K + H - 1
  BY <1>1 DEF Blocks, DataIdx
<1>3. MaxBurst \in Nat /\ MaxBurst <= LongestBurst
  <2>1. LongestBurst \in Int
    BY <1>1 DEF LongestBurst
  <2> QED
    BY <2>1, FecAssumption
<1>4. LongestBurst < MaxBlock * W
  <2>1. (MaxBlock - 1) * W = MaxBlock * W - W /\ MaxBlock * W \in Nat
    BY <1>1
  <2> QED
    BY <1>1, <2>1 DEF LongestBurst, W
<1>5. LongestBurst \in Int /\ MaxBlock * W \in Int
  BY <1>1 DEF LongestBurst
<1> QED
  BY <1>1, <1>2, <1>3, <1>4, <1>5

(* Places are in the order of blocks and indices. *)
LEMMA PosOrder ==
    ASSUME NEW n \in Nat, NEW m \in Nat, NEW i \in 0 .. K + H - 1, NEW j \in 0 .. K + H - 1
    PROVE  /\ Pos(n, i) \in Nat
           /\ Pos(n, i) <= Pos(m, j) => n <= m /\ (n = m => i <= j)
           /\ Pos(n, i) = Pos(m, j) => n = m /\ i = j
           /\ n + MaxBlock <= m => Pos(n, i) + MaxBlock * W + j - i <= Pos(m, j)
           /\ Pos(n + 1, 0) = Pos(n, K) + H
           /\ Pos(n, i + 1) = Pos(n, i) + 1
<1>1. /\ K \in Nat \ {0} /\ H \in Nat \ {0} /\ W \in Nat \ {0} /\ W = K + H
      /\ MaxBlock \in Nat \ {0}
  BY ConstantFacts
<1>2. /\ n * W \in Nat /\ m * W \in Nat
      /\ (n + 1) * W = n * W + W /\ (m + 1) * W = m * W + W
      /\ (n + MaxBlock) * W = n * W + MaxBlock * W
  BY <1>1
<1>3. ASSUME n < m PROVE n * W + W <= m * W
  <2>1. (n + 1) * W <= m * W
    BY <1>1, <1>3, MulMono
  <2> QED
    BY <1>2, <2>1
<1>4. ASSUME m < n PROVE m * W + W <= n * W
  <2>1. (m + 1) * W <= n * W
    BY <1>1, <1>4, MulMono
  <2> QED
    BY <1>2, <2>1
<1>5. ASSUME n + MaxBlock <= m PROVE n * W + MaxBlock * W <= m * W
  <2>1. (n + MaxBlock) * W <= m * W
    BY <1>1, <1>5, MulMono
  <2> QED
    BY <1>2, <2>1
<1>6. MaxBlock * W \in Nat
  BY <1>1
<1> QED
  BY <1>1, <1>2, <1>3, <1>4, <1>5, <1>6 DEF Pos

(* Block numbers count blocks, and are reused after MaxBlock of them. *)
LEMMA BlockFacts ==
    ASSUME NEW n \in Nat \ {0}
    PROVE  /\ BlockOf(n) \in Blocks
           /\ NextBlock(BlockOf(n)) = BlockOf(n + 1)
           /\ \A m \in Nat \ {0} : n < m /\ BlockOf(n) = BlockOf(m) => n + MaxBlock <= m
<1>1. MaxBlock \in Nat \ {0} /\ n - 1 \in Nat /\ (n - 1) + 1 = n /\ (n + 1) - 1 = n
  BY ConstantFacts
<1>2. BlockOf(n) \in Blocks
  BY <1>1, DivMod DEF BlockOf, Blocks
<1>3. NextBlock(BlockOf(n)) = BlockOf(n + 1)
  BY <1>1, ModSucc DEF NextBlock, BlockOf
<1>4. ASSUME NEW m \in Nat \ {0}, n < m, BlockOf(n) = BlockOf(m) PROVE n + MaxBlock <= m
  <2>1. m - 1 \in Nat /\ n - 1 < m - 1
    BY <1>4
  <2>2. (n - 1) + MaxBlock <= m - 1
    BY <1>1, <1>4, <2>1, ModSame DEF BlockOf
  <2> QED
    BY <1>1, <2>2
<1> QED
  BY <1>2, <1>3, <1>4

-----------------------------------------------------------------------------
(* The frames of the encoder. *)

(* A sequence is known by its length and its elements. *)
LEMMA SeqOf ==
    ASSUME NEW S, NEW m \in Nat, NEW s, s = [l \in 1 .. m |-> s[l]], \A l \in 1 .. m : s[l] \in S
    PROVE  s \in Seq(S) /\ Len(s) = m
<1>1. s \in [1 .. m -> S]
  OBVIOUS
<1> QED
  BY <1>1

(* The elements of a concatenation. *)
LEMMA ConcatFacts ==
    ASSUME NEW S, NEW s \in Seq(S), NEW t \in Seq(S)
    PROVE  /\ s \o t \in Seq(S) /\ Len(s \o t) = Len(s) + Len(t)
           /\ \A l \in 1 .. Len(s) : (s \o t)[l] = s[l]
           /\ \A l \in 1 .. Len(t) : (s \o t)[Len(s) + l] = t[l]
           /\ \A l \in Len(s) + 1 .. Len(s) + Len(t) : (s \o t)[l] = t[l - Len(s)]
OBVIOUS

(* A block that is full up to index c is completed by empty frames from c  *)
(* on, and followed by the parity frames.                                  *)
LEMMA BlockFramesFacts ==
    ASSUME words \in Seq(Word), NEW b \in Blocks, NEW c \in 0 .. K,
           NEW buf \in [DataIdx -> Absent .. MaxData],
           \A i \in DataIdx : (buf[i] = Absent) <=> (i >= c)
    PROVE  /\ Filled(buf) \in Word
           /\ BlockFrames(b, buf) \in Seq(Frame)
           /\ Len(BlockFrames(b, buf)) = K + H - c
           /\ \A l \in 1 .. K + H - c :
                /\ BlockFrames(b, buf)[l].nr = Current
                /\ BlockFrames(b, buf)[l].block = b
                /\ BlockFrames(b, buf)[l].idx = c + l - 1
                /\ l <= K - c => BlockFrames(b, buf)[l].data = Filler
                /\ l > K - c => BlockFrames(b, buf)[l].word = Filled(buf)
<1> DEFINE free == {i \in DataIdx : buf[i] = Absent}
           fill == [n \in 1 .. Len(InOrder(free)) |-> DataFrame(b, InOrder(free)[n], Filler)]
           par == [n \in 1 .. H |-> ParityFrame(b, K + n - 1, Filled(buf))]
<1>1. K \in Nat \ {0} /\ H \in Nat \ {0} /\ MaxData \in Nat
  BY ConstantFacts
<1>2. Filled(buf) \in Word
  BY <1>1 DEF Filled, Word, DataIdx, Absent, Filler
<1>3. Current \in Nat
  BY DEF Current
<1>4. free = c .. K - 1
  BY <1>1 DEF DataIdx
<1>5. /\ Len(InOrder(free)) = K - c
      /\ \A n \in 1 .. K - c : InOrder(free)[n] = c + n - 1
  <2>1. c \in Int /\ K - 1 \in Int /\ c <= K - 1 + 1 /\ K - 1 - c + 1 = K - c
    BY <1>1
  <2>2. /\ Cardinality(c .. K - 1) = K - c /\ IsFiniteSet(c .. K - 1)
        /\ \A n \in 1 .. K - c : InOrder(c .. K - 1)[n] = c + n - 1
    BY <2>1, InOrderInterval
  <2>3. c .. K - 1 \subseteq Int
    BY <1>1
  <2> QED
    BY <1>4, <2>2, <2>3, InOrderFacts
<1>6. fill \in Seq(Frame) /\ Len(fill) = K - c
  <2>1. ASSUME NEW n \in 1 .. K - c PROVE fill[n] \in Frame
    <3>1. fill[n] = DataFrame(b, c + n - 1, Filler)
      BY <1>5, <2>1
    <3>2. c + n - 1 \in 0 .. K + H - 1 /\ Filler \in Absent .. MaxData
      BY <1>1 DEF Filler, Absent
    <3>3. DataFrame(b, c + n - 1, Filler) \in Frame
      BY <1>3, <3>2 DEF DataFrame, Frame
    <3> QED
      BY <3>1, <3>3
  <2>2. fill = [n \in 1 .. K - c |-> fill[n]] /\ K - c \in Nat
    BY <1>1, <1>5
  <2> HIDE DEF fill
  <2> QED
    BY <2>1, <2>2, SeqOf
<1>7. par \in Seq(Frame) /\ Len(par) = H
  <2>1. ASSUME NEW n \in 1 .. H PROVE par[n] \in Frame
    <3>1. K + n - 1 \in 0 .. K + H - 1 /\ Absent \in Absent .. MaxData
      BY <1>1 DEF Absent
    <3> QED
      BY <1>2, <1>3, <3>1 DEF ParityFrame, Frame
  <2>2. par = [n \in 1 .. H |-> par[n]]
    OBVIOUS
  <2> HIDE DEF par
  <2> QED
    BY <1>1, <2>1, <2>2, SeqOf
<1>8. BlockFrames(b, buf) = fill \o par
  BY DEF BlockFrames
<1>9. \A n \in 1 .. K - c : fill[n] = DataFrame(b, c + n - 1, Filler)
  BY <1>5
<1>10. \A n \in 1 .. H : par[n] = ParityFrame(b, K + n - 1, Filled(buf))
  OBVIOUS
<1> HIDE DEF fill, par, free
<1>11. /\ BlockFrames(b, buf) \in Seq(Frame)
       /\ Len(BlockFrames(b, buf)) = K + H - c
       /\ \A l \in 1 .. K - c : BlockFrames(b, buf)[l] = fill[l]
       /\ \A l \in K - c + 1 .. K - c + H : BlockFrames(b, buf)[l] = par[l - (K - c)]
  <2>1. /\ fill \o par \in Seq(Frame) /\ Len(fill \o par) = Len(fill) + Len(par)
        /\ \A l \in 1 .. Len(fill) : (fill \o par)[l] = fill[l]
        /\ \A l \in Len(fill) + 1 .. Len(fill) + Len(par) : (fill \o par)[l] = par[l - Len(fill)]
    BY <1>6, <1>7, ConcatFacts
  <2>2. (K - c) + H = K + H - c
    BY <1>1
  <2> QED
    BY <1>6, <1>7, <1>8, <2>1, <2>2
<1>12. ASSUME NEW l \in 1 .. K + H - c
       PROVE  /\ BlockFrames(b, buf)[l].nr = Current
              /\ BlockFrames(b, buf)[l].block = b
              /\ BlockFrames(b, buf)[l].idx = c + l - 1
              /\ l <= K - c => BlockFrames(b, buf)[l].data = Filler
              /\ l > K - c => BlockFrames(b, buf)[l].word = Filled(buf)
  <2>1. CASE l <= K - c
    <3>1. l \in 1 .. K - c
      BY <1>1, <2>1
    <3>2. BlockFrames(b, buf)[l] = DataFrame(b, c + l - 1, Filler)
      BY <1>9, <1>11, <3>1
    <3> QED
      BY <1>1, <2>1, <3>2 DEF DataFrame
  <2>2. CASE l > K - c
    <3>1. l \in K - c + 1 .. K - c + H /\ l - (K - c) \in 1 .. H /\ K + (l - (K - c)) - 1 = c + l - 1
      BY <1>1, <2>2
    <3>2. BlockFrames(b, buf)[l] = ParityFrame(b, c + l - 1, Filled(buf))
      BY <1>10, <1>11, <3>1
    <3> QED
      BY <1>1, <2>2, <3>2 DEF ParityFrame
  <2> QED
    BY <1>1, <2>1, <2>2
<1> QED
  BY <1>2, <1>11, <1>12

(* The open block with one more packet. *)
LEMMA TaggedFacts ==
    ASSUME TypeOK, OpenBlock, sent < MaxData
    PROVE  /\ Tagged(block_id, frame_idx) \in [DataIdx -> Absent .. MaxData]
           /\ Tagged(block_id, frame_idx)[frame_idx] = sent + 1
           /\ \A i \in DataIdx : i < frame_idx =>
                /\ Tagged(block_id, frame_idx)[i] \in 1 .. sent
                /\ Tagged(block_id, frame_idx)[i] = enc[block_id][i]
           /\ \A i \in DataIdx : i > frame_idx => Tagged(block_id, frame_idx)[i] = Absent
<1>1. /\ K \in Nat \ {0} /\ MaxData \in Nat /\ frame_idx \in DataIdx /\ sent \in 0 .. MaxData
      /\ enc[block_id] \in [DataIdx -> Absent .. MaxData]
      /\ sent + 1 \in Absent .. MaxData
  BY ConstantFacts DEF TypeOK, Absent
<1>2. EmptyData \in [DataIdx -> Absent .. MaxData] /\ \A i \in DataIdx : EmptyData[i] = Absent
  BY <1>1 DEF EmptyData, Absent
<1>3. CASE frame_idx = 0
  <2>1. Tagged(block_id, frame_idx) = [EmptyData EXCEPT ![frame_idx] = sent + 1]
    BY <1>3 DEF Tagged
  <2> QED
    BY <1>1, <1>2, <1>3, <2>1 DEF DataIdx
<1>4. CASE frame_idx # 0
  <2>1. Tagged(block_id, frame_idx) = [enc[block_id] EXCEPT ![frame_idx] = sent + 1]
    BY <1>4 DEF Tagged
  <2>2. \A i \in DataIdx : IF i < frame_idx THEN enc[block_id][i] \in 1 .. sent
                           ELSE enc[block_id][i] = Absent
    BY <1>4 DEF OpenBlock
  <2> QED
    BY <1>1, <2>1, <2>2 DEF DataIdx
<1> QED
  BY <1>3, <1>4

(* What the encoder does with a packet that does not complete its block,   *)
(* and with one that does.                                                 *)
LEMMA SendFacts ==
    ASSUME TypeOK, OpenBlock, SendData
    PROVE  /\ DataFrame(block_id, frame_idx, sent + 1) \in Frame
           /\ Tagged(block_id, frame_idx) \in [DataIdx -> Absent .. MaxData]
           /\ enc' = [enc EXCEPT ![block_id] = Tagged(block_id, frame_idx)]
           /\ \/ /\ frame_idx < K - 1 /\ frame_idx' = frame_idx + 1
                 /\ block_id' = block_id /\ words' = words
                 /\ link' = Append(link, DataFrame(block_id, frame_idx, sent + 1))
              \/ /\ frame_idx = K - 1 /\ frame_idx' = 0
                 /\ block_id' = NextBlock(block_id)
                 /\ words' = Append(words, Filled(Tagged(block_id, frame_idx)))
                 /\ Filled(Tagged(block_id, frame_idx)) \in Word
                 /\ link' = Append(link, DataFrame(block_id, frame_idx, sent + 1))
                             \o BlockFrames(block_id, Tagged(block_id, frame_idx))
                 /\ BlockFrames(block_id, Tagged(block_id, frame_idx)) \in Seq(Frame)
<1>1. /\ K \in Nat \ {0} /\ H \in Nat \ {0} /\ MaxData \in Nat /\ block_id \in Blocks
      /\ frame_idx \in 0 .. K - 1 /\ sent \in 0 .. MaxData /\ sent < MaxData
      /\ link \in Seq(Frame) /\ words \in Seq(Word)
  BY ConstantFacts DEF TypeOK, DataIdx, SendData
<1>2. DataFrame(block_id, frame_idx, sent + 1) \in Frame
  <2>1. sent + 1 \in Absent .. MaxData /\ Current \in Nat /\ frame_idx \in 0 .. K + H - 1
    BY <1>1 DEF Absent, Current
  <2> QED
    BY <1>1, <2>1 DEF DataFrame, Frame
<1> PICK buf : buf = Tagged(block_id, frame_idx)
  OBVIOUS
<1>3. /\ buf \in [DataIdx -> Absent .. MaxData] /\ buf[frame_idx] = sent + 1
      /\ \A i \in DataIdx : i < frame_idx => buf[i] \in 1 .. sent
  BY <1>1, TaggedFacts
<1>4. enc' = [enc EXCEPT ![block_id] = buf]
  BY DEF SendData
<1>5. CASE frame_idx < K - 1
  <2>1. K * 0 + (frame_idx + 1) = frame_idx + 1 /\ frame_idx + 1 \in 0 .. K - 1
    BY <1>1, <1>5
  <2>2. (K * 0 + (frame_idx + 1)) % K = frame_idx + 1
    BY <1>1, <2>1, ModUnique
  <2>3. frame_idx' = frame_idx + 1 /\ block_id' = block_id /\ words' = words
    BY <1>1, <1>5, <2>1, <2>2 DEF SendData
  <2>4. link' = (link \o <<DataFrame(block_id, frame_idx, sent + 1)>>) \o << >>
    <3>1. frame_idx # K - 1
      BY <1>1, <1>5
    <3> QED
      BY <3>1 DEF SendData
  <2>5. link' = Append(link, DataFrame(block_id, frame_idx, sent + 1))
    BY <1>1, <1>2, <2>4
  <2> QED
    BY <1>2, <1>3, <1>4, <1>5, <2>3, <2>5
<1>6. CASE frame_idx = K - 1
  <2>1. K * 1 + 0 = frame_idx + 1 /\ 0 \in 0 .. K - 1
    BY <1>1, <1>6
  <2>2. (K * 1 + 0) % K = 0
    BY <1>1, <2>1, ModUnique
  <2>3. /\ frame_idx' = 0 /\ block_id' = NextBlock(block_id)
        /\ words' = Append(words, Filled(buf))
    BY <1>1, <1>6, <2>1, <2>2 DEF SendData
  <2>4. link' = (link \o <<DataFrame(block_id, frame_idx, sent + 1)>>) \o BlockFrames(block_id, buf)
    BY <1>1, <1>6 DEF SendData
  <2>5. link \o <<DataFrame(block_id, frame_idx, sent + 1)>>
          = Append(link, DataFrame(block_id, frame_idx, sent + 1))
    BY <1>1, <1>2
  <2>6. \A i \in DataIdx : (buf[i] = Absent) <=> (i >= K)
    BY <1>1, <1>3, <1>6 DEF DataIdx, Absent
  <2>7. Filled(buf) \in Word /\ BlockFrames(block_id, buf) \in Seq(Frame)
    <3>1. K \in 0 .. K
      BY <1>1
    <3> QED
      BY <1>1, <1>3, <2>6, <3>1, BlockFramesFacts
  <2> QED
    BY <1>2, <1>3, <1>4, <1>6, <2>3, <2>4, <2>5, <2>7
<1> QED
  BY <1>1, <1>5, <1>6

(* What the encoder does when the timer expires. *)
LEMMA ExpireFacts ==
    ASSUME TypeOK, OpenBlock, Expire
    PROVE  /\ frame_idx \in 1 .. K - 1 /\ lastBlockId = block_id
           /\ \A i \in DataIdx : (enc[block_id][i] = Absent) <=> (i >= frame_idx)
           /\ enc[block_id] \in [DataIdx -> Absent .. MaxData]
           /\ Filled(enc[block_id]) \in Word
           /\ BlockFrames(block_id, enc[block_id]) \in Seq(Frame)
           /\ link' = link \o BlockFrames(block_id, enc[block_id])
           /\ words' = Append(words, Filled(enc[block_id]))
           /\ frame_idx' = 0 /\ block_id' = NextBlock(block_id)
<1>1. /\ K \in Nat \ {0} /\ block_id \in Blocks /\ frame_idx \in 0 .. K - 1
      /\ enc[block_id] \in [DataIdx -> Absent .. MaxData] /\ timeout = 1
      /\ words \in Seq(Word) /\ sent \in Int
  BY ConstantFacts DEF TypeOK, DataIdx, Expire
<1>2. frame_idx # 0 /\ lastBlockId = block_id
  BY <1>1 DEF OpenBlock
<1>3. \A i \in DataIdx : (enc[block_id][i] = Absent) <=> (i >= frame_idx)
  <2>1. \A i \in DataIdx : IF i < frame_idx THEN enc[block_id][i] \in 1 .. sent
                           ELSE enc[block_id][i] = Absent
    BY <1>2 DEF OpenBlock
  <2> QED
    BY <1>1, <2>1 DEF DataIdx, Absent
<1>4. frame_idx \in 0 .. K
  BY <1>1
<1>5. /\ Filled(enc[block_id]) \in Word
      /\ BlockFrames(block_id, enc[block_id]) \in Seq(Frame)
  BY <1>1, <1>3, <1>4, BlockFramesFacts
<1> QED
  BY <1>1, <1>2, <1>3, <1>5 DEF Expire

-----------------------------------------------------------------------------
(* The decoder's buffer. *)

(* A frame goes to its own slot, if that is free. *)
LEMMA InsertFacts ==
    ASSUME NEW buf \in Buffer, NEW f \in Frame
    PROVE  /\ Insert(buf, f) \in Buffer
           /\ \A i \in DataIdx : Insert(buf, f).data[i] =
                IF i = f.idx /\ buf.data[i] = Absent THEN f.data ELSE buf.data[i]
           /\ \A i \in ParityIdx : Insert(buf, f).parity[i] =
                IF i = f.idx /\ buf.parity[i] = NoWord THEN f.word ELSE buf.parity[i]
<1>1. /\ K \in Nat \ {0} /\ H \in Nat \ {0} /\ f.idx \in 0 .. K + H - 1
      /\ f.data \in Absent .. MaxData /\ f.word \in Word \cup {NoWord}
      /\ buf.data \in [DataIdx -> Absent .. MaxData]
      /\ buf.parity \in [ParityIdx -> Word \cup {NoWord}]
      /\ buf = [data |-> buf.data, parity |-> buf.parity]
  BY ConstantFacts DEF Frame, Buffer
<1>2. \A i \in DataIdx : i \notin ParityIdx
  BY <1>1 DEF DataIdx, ParityIdx
<1>3. CASE f.idx \in DataIdx
  <2> PICK d : d = [buf.data EXCEPT ![f.idx] = IF @ = Absent THEN f.data ELSE @]
    OBVIOUS
  <2>1. Insert(buf, f) = [buf EXCEPT !.data = d]
    BY <1>3 DEF Insert
  <2>2. Insert(buf, f).data = d /\ Insert(buf, f).parity = buf.parity
    BY <1>1, <2>1
  <2>3. /\ d \in [DataIdx -> Absent .. MaxData]
        /\ \A i \in DataIdx : d[i] = IF i = f.idx /\ buf.data[i] = Absent THEN f.data ELSE buf.data[i]
    BY <1>1, <1>3
  <2>4. Insert(buf, f) \in Buffer
    BY <1>1, <2>1, <2>3 DEF Buffer
  <2> QED
    BY <1>2, <1>3, <2>2, <2>3, <2>4
<1>4. CASE f.idx \notin DataIdx
  <2> PICK p : p = [buf.parity EXCEPT ![f.idx] = IF @ = NoWord THEN f.word ELSE @]
    OBVIOUS
  <2>0. f.idx \in ParityIdx
    BY <1>1, <1>4 DEF DataIdx, ParityIdx
  <2>1. Insert(buf, f) = [buf EXCEPT !.parity = p]
    BY <1>4 DEF Insert
  <2>2. Insert(buf, f).parity = p /\ Insert(buf, f).data = buf.data
    BY <1>1, <2>1
  <2>3. /\ p \in [ParityIdx -> Word \cup {NoWord}]
        /\ \A i \in ParityIdx : p[i] = IF i = f.idx /\ buf.parity[i] = NoWord THEN f.word ELSE buf.parity[i]
    BY <1>1, <2>0
  <2>4. Insert(buf, f) \in Buffer
    BY <1>1, <2>1, <2>3 DEF Buffer
  <2> QED
    BY <1>2, <1>4, <2>2, <2>3, <2>4
<1> QED
  BY <1>3, <1>4

(* The sets of indices are finite. *)
LEMMA IndexSets ==
    ASSUME NEW buf
    PROVE  /\ Missing(buf) \subseteq Int /\ IsFiniteSet(Missing(buf))
           /\ Parities(buf) \subseteq Int /\ IsFiniteSet(Parities(buf))
           /\ Cardinality(Missing(buf)) \in Nat /\ Cardinality(Parities(buf)) \in Nat
<1>1. K \in Nat \ {0} /\ H \in Nat \ {0}
  BY ConstantFacts
<1>2. IsFiniteSet(DataIdx) /\ IsFiniteSet(ParityIdx)
  <2>1. 0 \in Int /\ K - 1 \in Int /\ K \in Int /\ K + H - 1 \in Int
    BY <1>1
  <2> QED
    BY <2>1, FS_Interval DEF DataIdx, ParityIdx
<1>3. Missing(buf) \in SUBSET DataIdx /\ Parities(buf) \in SUBSET ParityIdx
  BY DEF Missing, Parities
<1>4. DataIdx \subseteq Int /\ ParityIdx \subseteq Int
  BY <1>1 DEF DataIdx, ParityIdx
<1>5. IsFiniteSet(Missing(buf)) /\ IsFiniteSet(Parities(buf))
  BY <1>2, <1>3, FS_Subset
<1> QED
  BY <1>3, <1>4, <1>5, FS_CardinalityType

(* When packets are missing of a block that can be decoded, there is a     *)
(* parity packet to solve for them.                                        *)
LEMMA SolveFacts ==
    ASSUME NEW buf \in Buffer, CanDecode(buf), NEW i \in Missing(buf)
    PROVE  /\ \E j \in Parities(buf) :
                Solve(buf, i) = IF Consistent(buf, buf.parity[j]) THEN buf.parity[j][i] ELSE Garbage
           /\ Solve(buf, i) \in Garbage .. MaxData
<1>1. Parities(buf) # {}
  <2> SUFFICES ASSUME Parities(buf) = {} PROVE FALSE
    OBVIOUS
  <2>1. Cardinality(Parities(buf)) = 0
    BY FS_EmptySet
  <2>2. Cardinality(Missing(buf)) = 0
    BY <2>1, IndexSets DEF CanDecode
  <2>3. Missing(buf) = {}
    BY <2>2, IndexSets, FS_EmptySet
  <2> QED
    BY <2>3
<1> PICK j : j = CHOOSE k \in Parities(buf) : TRUE
  OBVIOUS
<1>2. j \in Parities(buf)
  BY <1>1
<1>3. Solve(buf, i) = IF Consistent(buf, buf.parity[j]) THEN buf.parity[j][i] ELSE Garbage
  BY DEF Solve
<1>4. buf.parity[j] \in Word
  BY <1>2 DEF Parities, Buffer
<1>5. i \in DataIdx
  BY DEF Missing
<1>6. buf.parity[j][i] \in 0 .. MaxData
  BY <1>4, <1>5 DEF Word, Filler
<1>7. Solve(buf, i) \in Garbage .. MaxData
  BY <1>3, <1>6, ConstantFacts DEF Garbage
<1> QED
  BY <1>2, <1>3, <1>7

(* The recovered packets are those of the missing indices, each once. *)
LEMMA RecoveredFacts ==
    ASSUME NEW buf \in Buffer, CanDecode(buf)
    PROVE  /\ Recovered(buf) \in Seq(Garbage .. MaxData)
           /\ \E at \in [1 .. Len(Recovered(buf)) -> Missing(buf)] :
                /\ \A l \in 1 .. Len(Recovered(buf)) :
                    Recovered(buf)[l] = Solve(buf, at[l]) /\ Solve(buf, at[l]) # Filler
                /\ \A l, m \in 1 .. Len(Recovered(buf)) : l # m => at[l] # at[m]
                /\ \A i \in Missing(buf) : Solve(buf, i) # Filler =>
                    \E l \in 1 .. Len(Recovered(buf)) : at[l] = i
<1> DEFINE S == {i \in Missing(buf) : Solve(buf, i) # Filler}
<1>1. S \subseteq Int /\ IsFiniteSet(S)
  <2>1. S \in SUBSET Missing(buf)
    OBVIOUS
  <2> QED
    BY <2>1, IndexSets, FS_Subset
<1> PICK at : at = InOrder(S)
  OBVIOUS
<1> PICK c \in Nat : c = Cardinality(S)
  BY <1>1, FS_CardinalityType
<1>2. /\ at \in Seq(S) /\ Len(at) = c
      /\ \A n \in 1 .. c : at[n] \in S
      /\ \A n, m \in 1 .. c : n < m => at[n] < at[m]
      /\ \A x \in S : \E n \in 1 .. c : at[n] = x
  BY <1>1, InOrderFacts
<1> PICK r : r = Recovered(buf)
  OBVIOUS
<1>3. r = [n \in 1 .. c |-> Solve(buf, at[n])]
  BY <1>2 DEF Recovered
<1>4. \A n \in 1 .. c : at[n] \in Missing(buf) /\ Solve(buf, at[n]) # Filler
  BY <1>2
<1>5. \A x \in Missing(buf) : Solve(buf, x) # Filler => \E n \in 1 .. c : at[n] = x
  BY <1>2
<1>6. \A l, m \in 1 .. c : l # m => at[l] # at[m]
  <2>1. \A n \in 1 .. c : at[n] \in Int
    BY <1>1, <1>2
  <2>2. \A l, m \in 1 .. c : l < m => at[l] # at[m]
    BY <1>2, <2>1
  <2>3. \A l, m \in 1 .. c : l < m \/ m < l \/ l = m
    OBVIOUS
  <2> QED
    BY <2>2, <2>3
<1> HIDE DEF S
<1>7. r \in Seq(Garbage .. MaxData) /\ Len(r) = c
  <2>1. \A n \in 1 .. c : r[n] \in Garbage .. MaxData
    BY <1>3, <1>4, SolveFacts
  <2>2. r = [n \in 1 .. c |-> r[n]]
    BY <1>3
  <2>3. c \in Nat
    OBVIOUS
  <2> QED
    BY ONLY <2>1, <2>2, <2>3, SeqOf
<1>8. at \in [1 .. c -> Missing(buf)]
  BY <1>2, <1>4
<1>9. \A l \in 1 .. c : r[l] = Solve(buf, at[l])
  BY <1>3
<1> QED
  BY <1>4, <1>5, <1>6, <1>7, <1>8, <1>9

-----------------------------------------------------------------------------
(* Types, and the open block. *)

(* The variables of the encoder, and the others. *)
EncoderTyped ==
    /\ block_id \in Blocks /\ frame_idx \in DataIdx /\ lastBlockId \in Blocks
    /\ enc \in [Blocks -> [DataIdx -> Absent .. MaxData]]
    /\ timeout \in 0 .. T /\ age \in 0 .. T /\ sent \in 0 .. MaxData
    /\ link \in Seq(Frame) /\ words \in Seq(Word)
DecoderTyped ==
    /\ dec \in [Blocks -> Buffer]
    /\ nothing_to_decode \in BOOLEAN /\ forwarded \in BOOLEAN
    /\ last_block \in Blocks /\ last_idx \in 0 .. K + H - 1
    /\ out \in Seq(Garbage .. MaxData)

(* A packet keeps the encoder's types. *)
LEMMA SendTyped ==
    ASSUME TypeOK, OpenBlock, SendData
    PROVE  EncoderTyped' /\ OpenBlock'
<1>1. /\ K \in Nat \ {0} /\ H \in Nat \ {0} /\ MaxData \in Nat /\ block_id \in Blocks
      /\ frame_idx \in 0 .. K - 1 /\ sent \in 0 .. MaxData /\ sent < MaxData
      /\ link \in Seq(Frame) /\ words \in Seq(Word) /\ T \in Nat
      /\ lastBlockId \in Blocks /\ timeout \in 0 .. T /\ age \in 0 .. T
      /\ enc \in [Blocks -> [DataIdx -> Absent .. MaxData]]
  BY ConstantFacts DEF TypeOK, DataIdx, SendData
<1> PICK b \in Blocks : b = block_id
  BY <1>1
<1> PICK i \in 0 .. K - 1 : i = frame_idx
  BY <1>1
<1> PICK buf : buf = Tagged(block_id, frame_idx)
  OBVIOUS
<1> PICK f : f = DataFrame(block_id, frame_idx, sent + 1)
  OBVIOUS
<1> PICK fs : fs = BlockFrames(block_id, buf)
  OBVIOUS
<1>2. /\ f \in Frame
      /\ buf \in [DataIdx -> Absent .. MaxData] /\ enc' = [enc EXCEPT ![b] = buf]
      /\ \/ /\ i < K - 1 /\ frame_idx' = i + 1 /\ block_id' = b /\ words' = words
            /\ link' = Append(link, f)
         \/ /\ i = K - 1 /\ frame_idx' = 0 /\ block_id' = NextBlock(b)
            /\ words' = Append(words, Filled(buf)) /\ Filled(buf) \in Word
            /\ link' = Append(link, f) \o fs /\ fs \in Seq(Frame)
  BY SendFacts
<1>3. /\ sent' = sent + 1 /\ lastBlockId' = (IF i = 0 THEN b ELSE lastBlockId)
      /\ timeout' = Timer(i, i = K - 1) /\ age' = (IF i = 0 THEN 0 ELSE age)
  BY DEF SendData
<1>4. /\ b = BlockOf(Current) /\ Current \in Nat \ {0} /\ Current = Len(words) + 1
      /\ NextBlock(b) = BlockOf(Current + 1) /\ NextBlock(b) \in Blocks
  <2>1. b = BlockOf(Current) /\ Current \in Nat \ {0} /\ Current = Len(words) + 1
    BY <1>1 DEF OpenBlock, Current
  <2>2. BlockOf(Current + 1) \in Blocks /\ NextBlock(BlockOf(Current)) = BlockOf(Current + 1)
    BY <2>1, BlockFacts
  <2> QED
    BY <2>1, <2>2
<1>5. timeout' = IF i = K - 1 THEN 0 ELSE IF i = 0 /\ T > 0 THEN T ELSE timeout
  BY <1>3 DEF Timer
<1>6. EncoderTyped'
  <2>1. block_id' \in Blocks /\ frame_idx' \in DataIdx /\ lastBlockId' \in Blocks
    <3>1. lastBlockId' \in Blocks
      BY <1>1, <1>3
    <3>2. block_id' \in Blocks
      BY <1>2, <1>4
    <3>3. frame_idx' \in 0 .. K - 1
      BY <1>1, <1>2
    <3> QED
      BY <3>1, <3>2, <3>3 DEF DataIdx
  <2>2. enc' \in [Blocks -> [DataIdx -> Absent .. MaxData]]
    BY <1>1, <1>2
  <2>3. timeout' \in 0 .. T /\ age' \in 0 .. T /\ sent' \in 0 .. MaxData
    BY <1>1, <1>3, <1>5
  <2>4. link' \in Seq(Frame) /\ words' \in Seq(Word)
    <3>1. Append(link, f) \in Seq(Frame)
      BY <1>1, <1>2
    <3>2. fs \in Seq(Frame) => Append(link, f) \o fs \in Seq(Frame)
      BY <3>1, ConcatFacts
    <3>3. link' \in Seq(Frame)
      BY <1>2, <3>1, <3>2
    <3>4. Filled(buf) \in Word => Append(words, Filled(buf)) \in Seq(Word)
      BY <1>1
    <3>5. words' \in Seq(Word)
      BY <1>1, <1>2, <3>4
    <3> QED
      BY <3>3, <3>5
  <2> QED
    BY <2>1, <2>2, <2>3, <2>4 DEF EncoderTyped
<1>7. CASE i = K - 1
  <2>1. frame_idx' = 0 /\ timeout' = 0 /\ block_id' = BlockOf(Current + 1)
    BY <1>1, <1>2, <1>4, <1>5, <1>7
  <2>2. Current' = Current + 1
    BY <1>1, <1>2, <1>4, <1>7 DEF Current
  <2> QED
    BY <1>6, <2>1, <2>2 DEF OpenBlock
<1>8. CASE i < K - 1
  <2>1. frame_idx' = i + 1 /\ block_id' = b /\ Current' = Current /\ enc'[b] = buf
    BY <1>1, <1>2, <1>8 DEF Current
  <2>2. timeout' = IF i = 0 /\ T > 0 THEN T ELSE timeout
    BY <1>1, <1>5, <1>8
  <2>3. /\ (timeout > 0) <=> (T > 0 /\ i # 0)
        /\ timeout > 0 => age + timeout <= T
        /\ i # 0 => lastBlockId = b
    BY DEF OpenBlock
  <2>4. ((timeout' > 0) <=> (T > 0 /\ i + 1 # 0)) /\ (timeout' > 0 => age' + timeout' <= T)
    BY <1>1, <1>3, <2>2, <2>3
  <2>5. lastBlockId' = b
    BY <1>3, <2>3
  <2>6. ASSUME NEW j \in DataIdx
        PROVE  IF j < i + 1 THEN buf[j] \in 1 .. sent + 1 ELSE buf[j] = Absent
    <3>1. /\ buf[i] = sent + 1 /\ (j < i => buf[j] \in 1 .. sent) /\ (j > i => buf[j] = Absent)
      BY <1>1, <2>6, TaggedFacts
    <3>2. j \in Int /\ i \in Int /\ (j < i \/ j = i \/ j > i)
      BY <1>1 DEF DataIdx
    <3>3. CASE j < i
      BY <1>1, <3>1, <3>2, <3>3
    <3>4. CASE j = i
      BY <1>1, <3>1, <3>2, <3>4
    <3>5. CASE j > i
      BY <3>1, <3>2, <3>5
    <3> QED
      BY <3>2, <3>3, <3>4, <3>5
  <2>7. BlockOf(Current)' = BlockOf(Current)
    BY <2>1 DEF BlockOf
  <2>8. enc'[block_id'] = buf
    BY <2>1
  <2>9. \A j \in DataIdx : IF j < frame_idx' THEN enc'[block_id'][j] \in 1 .. sent'
                            ELSE enc'[block_id'][j] = Absent
    BY <1>3, <2>1, <2>6, <2>8
  <2>10. block_id' = BlockOf(Current)' /\ lastBlockId' = block_id'
    BY <1>4, <2>1, <2>5, <2>7
  <2>11. ((timeout' > 0) <=> (T > 0 /\ frame_idx' # 0)) /\ (timeout' > 0 => age' + timeout' <= T)
    BY <2>1, <2>4
  <2>12. OpenBlock'
    BY <2>9, <2>10, <2>11 DEF OpenBlock
  <2> QED
    BY <1>6, <2>12
<1> QED
  BY <1>1, <1>6, <1>7, <1>8

(* So does the end of the timeout. *)
LEMMA ExpireTyped ==
    ASSUME TypeOK, OpenBlock, Expire
    PROVE  EncoderTyped' /\ OpenBlock'
<1>1. /\ MaxData \in Nat /\ block_id \in Blocks /\ T \in Nat /\ K \in Nat \ {0}
      /\ link \in Seq(Frame) /\ words \in Seq(Word) /\ sent \in 0 .. MaxData
      /\ timeout = 1 /\ age \in 0 .. T
      /\ enc \in [Blocks -> [DataIdx -> Absent .. MaxData]]
  BY ConstantFacts DEF TypeOK, Expire
<1> PICK b \in Blocks : b = block_id
  BY <1>1
<1> PICK buf : buf = enc[block_id]
  OBVIOUS
<1> PICK fs : fs = BlockFrames(block_id, buf)
  OBVIOUS
<1>2. /\ lastBlockId = b /\ Filled(buf) \in Word /\ fs \in Seq(Frame)
      /\ link' = link \o fs /\ words' = Append(words, Filled(buf))
      /\ frame_idx' = 0 /\ block_id' = NextBlock(b) /\ lastBlockId' = NextBlock(b)
  BY ExpireFacts DEF Expire
<1>3. /\ Current \in Nat \ {0} /\ Current' = Current + 1
      /\ NextBlock(b) = BlockOf(Current + 1) /\ NextBlock(b) \in Blocks
  <2>1. b = BlockOf(Current) /\ Current \in Nat \ {0} /\ Current' = Current + 1
    BY <1>1, <1>2 DEF OpenBlock, Current
  <2>2. BlockOf(Current + 1) \in Blocks /\ NextBlock(BlockOf(Current)) = BlockOf(Current + 1)
    BY <2>1, BlockFacts
  <2> QED
    BY <2>1, <2>2
<1>4. timeout' = 0 /\ age' = age + 1 /\ age + timeout <= T /\ sent' = sent
  BY <1>1 DEF Expire, OpenBlock
<1>5. enc' \in [Blocks -> [DataIdx -> Absent .. MaxData]]
  <2>1. EmptyData \in [DataIdx -> Absent .. MaxData]
    BY <1>1 DEF EmptyData, Absent
  <2>2. Filled(buf) \in [DataIdx -> Absent .. MaxData]
    BY <1>1, <1>2 DEF Word, Filler, Absent
  <2>3. enc' = [[enc EXCEPT ![b] = Filled(buf)] EXCEPT ![NextBlock(b)] = EmptyData]
    BY <1>2 DEF Expire
  <2> QED
    BY <1>1, <1>3, <2>1, <2>2, <2>3
<1>6. EncoderTyped'
  <2>1. link' \in Seq(Frame) /\ words' \in Seq(Word)
    BY <1>1, <1>2, ConcatFacts
  <2>2. frame_idx' \in DataIdx /\ timeout' \in 0 .. T /\ age' \in 0 .. T
    BY <1>1, <1>2, <1>4 DEF DataIdx
  <2> QED
    BY <1>1, <1>2, <1>3, <1>4, <1>5, <2>1, <2>2 DEF EncoderTyped
<1> QED
  BY <1>2, <1>3, <1>4, <1>6 DEF OpenBlock

(* A received frame keeps the decoder's types. *)
LEMMA ReceiveTyped ==
    ASSUME TypeOK, Receive
    PROVE  DecoderTyped'
<1> PICK f : f = Head(link)
  OBVIOUS
<1>1. /\ f \in Frame /\ dec \in [Blocks -> Buffer] /\ out \in Seq(Garbage .. MaxData)
      /\ nothing_to_decode \in BOOLEAN
  BY DEF TypeOK, Receive, TakeFrame
<1>2. f.block \in Blocks /\ f.idx \in 0 .. K + H - 1 /\ f.data \in Absent .. MaxData
  BY <1>1 DEF Frame
<1>3. EmptyBuffer \in Buffer
  BY ConstantFacts DEF EmptyBuffer, Buffer, EmptyData, Absent
<1> PICK old : old = IF StartsBlock(f) THEN EmptyBuffer ELSE dec[f.block]
  OBVIOUS
<1> PICK new : new = Insert(old, f)
  OBVIOUS
<1> PICK idle : idle = (~Inserts(old, f) /\ (StartsBlock(f) \/ nothing_to_decode))
  OBVIOUS
<1>4. /\ last_block' = f.block /\ last_idx' = f.idx /\ forwarded' = CanDecode(new)
      /\ nothing_to_decode' = (CanDecode(new) \/ idle)
      /\ dec' = [dec EXCEPT ![f.block] = IF CanDecode(new) THEN EmptyBuffer ELSE new]
      /\ out' = (out \o Passed(f)) \o (IF CanDecode(new) /\ ~idle THEN Recovered(new) ELSE << >>)
  BY DEF Receive
<1>5. new \in Buffer
  <2>1. old \in Buffer
    BY <1>1, <1>2, <1>3
  <2> QED
    BY <1>1, <2>1, InsertFacts
<1>6. dec' \in [Blocks -> Buffer]
  BY <1>1, <1>2, <1>3, <1>4, <1>5
<1>7. out' \in Seq(Garbage .. MaxData)
  <2> PICK G : G = Garbage .. MaxData
    OBVIOUS
  <2>1. Passed(f) \in Seq(G)
    <3>1. f.data \in G
      BY <1>2, ConstantFacts DEF Garbage, Absent
    <3>2. <<f.data>> \in Seq(G) /\ << >> \in Seq(G)
      BY <3>1
    <3> QED
      BY <3>2 DEF Passed
  <2>2. out \o Passed(f) \in Seq(G)
    BY <1>1, <2>1, ConcatFacts
  <2>3. (IF CanDecode(new) /\ ~idle THEN Recovered(new) ELSE << >>) \in Seq(G)
    <3>1. CanDecode(new) => Recovered(new) \in Seq(G)
      BY <1>5, RecoveredFacts
    <3>2. << >> \in Seq(G)
      OBVIOUS
    <3> QED
      BY <3>1, <3>2
  <2> QED
    BY <1>4, <2>2, <2>3, ConcatFacts
<1>8. forwarded' \in BOOLEAN /\ nothing_to_decode' \in BOOLEAN
  <2>1. CanDecode(new) \in BOOLEAN
    BY DEF CanDecode
  <2>2. idle \in BOOLEAN
    BY <1>1
  <2> QED
    BY <1>4, <2>1, <2>2
<1> QED
  BY <1>2, <1>4, <1>6, <1>7, <1>8 DEF DecoderTyped

(* Every step keeps the types and the facts about the open block. *)
LEMMA TypeStep ==
    ASSUME TypeOK, OpenBlock, [Next]_vars
    PROVE  TypeOK' /\ OpenBlock'
<1>1. EncoderTyped /\ DecoderTyped /\ burst \in 0 .. MaxBurst /\ lost \in [1 .. MaxData -> Nat]
  BY DEF TypeOK, EncoderTyped, DecoderTyped
<1> SUFFICES /\ EncoderTyped' /\ DecoderTyped' /\ OpenBlock'
             /\ burst' \in 0 .. MaxBurst /\ lost' \in [1 .. MaxData -> Nat]
  BY DEF TypeOK, EncoderTyped, DecoderTyped
<1>2. ASSUME UNCHANGED decoder PROVE DecoderTyped'
  BY <1>1, <1>2 DEF decoder, DecoderTyped
<1>3. ASSUME UNCHANGED encoder, link' \in Seq(Frame) PROVE EncoderTyped' /\ OpenBlock'
  <2>1. EncoderTyped'
    BY <1>1, <1>3 DEF encoder, EncoderTyped
  <2>2. OpenBlock'
    BY <1>3 DEF encoder, OpenBlock, BlockOf, Current
  <2> QED
    BY <2>1, <2>2
<1>4. CASE SendData
  BY <1>1, <1>2, <1>4, SendTyped DEF SendData
<1>5. CASE Tick
  <2>1. timeout > 1 /\ timeout' = timeout - 1 /\ age' = age + 1 /\ age + timeout <= T
    BY <1>1, <1>5, ConstantFacts DEF Tick, OpenBlock, EncoderTyped
  <2>2. UNCHANGED <<block_id, frame_idx, enc, lastBlockId, sent, words, link, burst, decoder, lost>>
    BY <1>5 DEF Tick
  <2>3. EncoderTyped'
    BY <1>1, <2>1, <2>2, ConstantFacts DEF EncoderTyped
  <2>4. T > 0 /\ frame_idx # 0
    BY <1>1, <2>1, ConstantFacts DEF OpenBlock, EncoderTyped
  <2>5. timeout' > 0 /\ age' + timeout' <= T
    BY <1>1, <2>1, ConstantFacts DEF EncoderTyped
  <2>6. OpenBlock'
    BY <2>2, <2>4, <2>5 DEF OpenBlock, BlockOf, Current
  <2> QED
    BY <1>1, <1>2, <2>2, <2>3, <2>6
<1>6. CASE Expire
  BY <1>1, <1>2, <1>6, ExpireTyped DEF Expire
<1>7. CASE Lose
  <2>1. link' \in Seq(Frame) /\ burst' \in 0 .. MaxBurst
    BY <1>1, <1>7, ConstantFacts DEF Lose, EncoderTyped
  <2>2. lost' \in [1 .. MaxData -> Nat]
    <3> PICK x : x = Head(link).nr
      OBVIOUS
    <3>1. lost' = [lost EXCEPT ![x] = lost[x] + 1]
      BY <1>7 DEF Lose
    <3>2. x \in 1 .. MaxData => lost[x] + 1 \in Nat
      BY <1>1
    <3>3. CASE x \in 1 .. MaxData
      BY <1>1, <3>1, <3>2, <3>3
    <3>4. CASE x \notin 1 .. MaxData
      BY <1>1, <3>1, <3>4
    <3> QED
      BY <3>3, <3>4
  <2> QED
    BY <1>2, <1>3, <1>7, <2>1, <2>2 DEF Lose
<1>8. CASE Skip
  <2>1. link' \in Seq(Frame) /\ burst' \in 0 .. MaxBurst
    BY <1>1, <1>8, ConstantFacts DEF Skip, TakeFrame, EncoderTyped
  <2> QED
    BY <1>1, <1>2, <1>3, <1>8, <2>1 DEF Skip, TakeFrame
<1>9. CASE Receive
  <2>1. link' \in Seq(Frame) /\ burst' \in 0 .. MaxBurst
    BY <1>1, <1>9, ConstantFacts DEF Receive, TakeFrame, EncoderTyped
  <2>2. UNCHANGED <<encoder, lost>>
    BY <1>9 DEF Receive, TakeFrame
  <2> QED
    BY <1>1, <1>3, <1>9, <2>1, <2>2, ReceiveTyped
<1>10. CASE UNCHANGED vars
  BY <1>1, <1>2, <1>3, <1>10 DEF vars, EncoderTyped
<1> QED
  BY <1>4, <1>5, <1>6, <1>7, <1>8, <1>9, <1>10 DEF Next

(* The initial state. *)
LEMMA TypeInit == Init => TypeOK /\ OpenBlock
<1> SUFFICES ASSUME Init PROVE TypeOK /\ OpenBlock
  OBVIOUS
<1>1. EmptyBuffer \in Buffer /\ EmptyData \in [DataIdx -> Absent .. MaxData]
  BY ConstantFacts DEF EmptyBuffer, Buffer, EmptyData, Absent
<1>2. TypeOK
  <2>1. /\ enc \in [Blocks -> [DataIdx -> Absent .. MaxData]] /\ dec \in [Blocks -> Buffer]
        /\ lost \in [1 .. MaxData -> Nat]
    BY <1>1 DEF Init
  <2>2. /\ link \in Seq(Frame) /\ out \in Seq(Garbage .. MaxData) /\ words \in Seq(Word)
    BY DEF Init
  <2>3. 0 \in 0 .. T /\ 0 \in 0 .. MaxBurst /\ 0 \in 0 .. MaxData
    BY ConstantFacts
  <2>4. 0 \in Blocks /\ 0 \in DataIdx /\ 0 \in 0 .. K + H - 1
    BY ConstantFacts
  <2>5. /\ block_id = 0 /\ frame_idx = 0 /\ lastBlockId = 0 /\ timeout = 0 /\ burst = 0
        /\ last_block = 0 /\ last_idx = 0 /\ sent = 0 /\ age = 0
        /\ nothing_to_decode \in BOOLEAN /\ forwarded \in BOOLEAN
    BY DEF Init
  <2> QED
    BY <2>1, <2>2, <2>3, <2>4, <2>5 DEF TypeOK
<1>3. 0 = BlockOf(1)
  <2>1. MaxBlock * 0 + 0 = 1 - 1 /\ 0 \in 0 .. MaxBlock - 1
    BY ConstantFacts
  <2> QED
    BY <2>1, ConstantFacts, ModUnique DEF BlockOf
<1> QED
  BY <1>2, <1>3 DEF Init, OpenBlock, Current

(* The boosters' variables keep their types: no block number or index      *)
(* leaves its range, whatever is lost and whenever the timer expires.      *)
THEOREM FecTyped == Spec => []TypeOK
<1>1. TypeOK /\ OpenBlock /\ [Next]_vars => TypeOK' /\ OpenBlock'
  BY TypeStep
<1> QED
  BY TypeInit, <1>1, PTL DEF Spec

(* The encoder never tags two packets of a block with the same index, and  *)
(* so never exits, across timeouts and the reuse of block numbers.         *)
THEOREM TagsAreFree == Spec => []TagIsFree
<1>1. TypeOK /\ OpenBlock /\ [Next]_vars => TypeOK' /\ OpenBlock'
  BY TypeStep
<1>2. TypeOK /\ OpenBlock => TagIsFree
  <2> SUFFICES ASSUME TypeOK, OpenBlock, frame_idx # 0 PROVE enc[block_id][frame_idx] = Absent
    BY DEF TagIsFree
  <2>1. frame_idx \in DataIdx /\ frame_idx \in Int
    BY ConstantFacts DEF TypeOK, DataIdx
  <2> QED
    BY <2>1 DEF OpenBlock
<1> QED
  BY TypeInit, <1>1, <1>2, PTL DEF Spec

(* Every block is complete at most T ticks after its first packet: its     *)
(* timer runs while it is open, and is not started again by later packets. *)
THEOREM DeadlineKept == Spec => []Deadline
<1>1. TypeOK /\ OpenBlock /\ [Next]_vars => TypeOK' /\ OpenBlock'
  BY TypeStep
<1>2. TypeOK /\ OpenBlock => Deadline
  BY DEF OpenBlock, Deadline
<1> QED
  BY TypeInit, <1>1, <1>2, PTL DEF Spec

-----------------------------------------------------------------------------
(* Steps of the encoder. *)

(* What has been tagged and encoded stays as it is. *)
EncoderGrows ==
    /\ Len(words) <= Len(words') /\ \A n \in 1 .. Len(words) : words'[n] = words[n]
    /\ \A n \in 1 .. Current, i \in DataIdx : Known(n, i) => Known(n, i)' /\ At(n, i)' = At(n, i)

(* The stream is only extended at its end. *)
StreamGrows == EncoderGrows /\ HeadPos' = HeadPos

(* The decoder stays where it is. *)
Stays == \A n \in 1 .. Current : DecoderAt(n) => DecoderAt(n)'

(* The packets of the stream have been sent. *)
LEMMA KnownSent ==
    ASSUME TypeOK, OpenBlock, PacketsDiffer, NEW n \in 1 .. Current, NEW i \in DataIdx, Known(n, i)
    PROVE  At(n, i) \in 0 .. sent
<1>1. /\ words \in Seq(Word) /\ Current = Len(words) + 1 /\ sent \in 0 .. MaxData
      /\ frame_idx \in Nat /\ i \in Nat /\ n \in Nat
  BY ConstantFacts DEF TypeOK, Current, DataIdx
<1>2. CASE n <= Len(words)
  BY <1>1, <1>2 DEF PacketsDiffer, At
<1>3. CASE ~(n <= Len(words))
  <2>1. i < frame_idx /\ At(n, i) = enc[block_id][i]
    BY <1>3 DEF Known, At
  <2>2. enc[block_id][i] \in 1 .. sent
    BY <1>1, <2>1 DEF OpenBlock
  <2> QED
    BY <1>1, <2>1, <2>2
<1> QED
  BY <1>2, <1>3

(* A step that adds at most one new packet to the stream, and empty ones,  *)
(* leaves the packets different.                                           *)
LEMMA DifferStep ==
    ASSUME TypeOK, TypeOK', OpenBlock, PacketsDiffer, sent' >= sent,
           \A n \in 1 .. Current', i \in DataIdx : Known(n, i)' =>
              \/ n \in 1 .. Current /\ Known(n, i) /\ At(n, i)' = At(n, i)
              \/ At(n, i)' = Filler
              \/ n = Current /\ i = frame_idx /\ At(n, i)' = sent + 1 /\ sent' = sent + 1
    PROVE  PacketsDiffer'
<1>1. /\ words' \in Seq(Word) /\ Current' = Len(words') + 1 /\ sent \in Nat /\ sent' \in Nat
      /\ Len(words') \in Nat
  BY ConstantFacts DEF TypeOK, Current
<1>2. \A n \in 1 .. Current, i \in DataIdx : Known(n, i) => At(n, i) \in 0 .. sent
  BY KnownSent
<1>3. ASSUME NEW n \in 1 .. Len(words'), NEW i \in DataIdx PROVE words'[n][i] \in 0 .. sent'
  <2>1. n \in 1 .. Current' /\ Known(n, i)' /\ At(n, i)' = words'[n][i]
    BY <1>1, <1>3 DEF Known, At
  <2>2. \/ At(n, i)' \in 0 .. sent
        \/ At(n, i)' = 0
        \/ At(n, i)' = sent + 1 /\ sent' = sent + 1
    BY <1>2, <2>1 DEF Filler
  <2> QED
    BY <1>1, <2>1, <2>2
<1>4. ASSUME NEW n \in 1 .. Current', NEW m \in 1 .. Current', NEW i \in DataIdx, NEW j \in DataIdx,
             Known(n, i)', Known(m, j)', At(n, i)' = At(m, j)', At(n, i)' # Filler
      PROVE  n = m /\ i = j
  <2>1. \/ n \in 1 .. Current /\ Known(n, i) /\ At(n, i)' = At(n, i)
        \/ n = Current /\ i = frame_idx /\ At(n, i)' = sent + 1
    BY <1>4
  <2>2. \/ m \in 1 .. Current /\ Known(m, j) /\ At(m, j)' = At(m, j)
        \/ m = Current /\ j = frame_idx /\ At(m, j)' = sent + 1
    BY <1>4
  <2>3. CASE At(n, i)' = sent + 1
    <3>1. ~(n \in 1 .. Current /\ Known(n, i) /\ At(n, i)' = At(n, i))
      BY <1>1, <1>2, <2>3
    <3>2. ~(m \in 1 .. Current /\ Known(m, j) /\ At(m, j)' = At(m, j))
      BY <1>1, <1>2, <1>4, <2>3
    <3> QED
      BY <2>1, <2>2, <3>1, <3>2
  <2>4. CASE At(n, i)' # sent + 1
    <3>1. /\ n \in 1 .. Current /\ Known(n, i) /\ At(n, i)' = At(n, i)
          /\ m \in 1 .. Current /\ Known(m, j) /\ At(m, j)' = At(m, j)
      BY <1>4, <2>1, <2>2, <2>4
    <3>2. At(n, i) = At(m, j) /\ At(n, i) # Filler
      BY <1>4, <3>1
    <3> QED
      BY <3>1, <3>2 DEF PacketsDiffer
  <2> QED
    BY <2>3, <2>4
<1> QED
  BY <1>3, <1>4 DEF PacketsDiffer

(* Closing a block: the frames that complete it are the next ones of the   *)
(* stream.                                                                 *)
LEMMA CloseFacts ==
    ASSUME TypeOK, NEW b \in Blocks, b = BlockOf(Current), NEW c \in 0 .. K,
           NEW buf \in [DataIdx -> Absent .. MaxData],
           \A i \in DataIdx : (buf[i] = Absent) <=> (i >= c),
           words' = Append(words, Filled(buf)), frame_idx' = 0,
           NEW fs, fs = BlockFrames(b, buf)
    PROVE  /\ fs \in Seq(Frame) /\ Len(fs) = K + H - c
           /\ Current' = Current + 1
           /\ Pos(Current, frame_idx)' = Pos(Current, c) + Len(fs)
           /\ \A l \in 1 .. Len(fs) :
                Genuine(fs[l])' /\ Pos(fs[l].nr, fs[l].idx) = Pos(Current, c) + l - 1
<1>1. /\ K \in Nat \ {0} /\ H \in Nat \ {0} /\ W \in Nat \ {0} /\ W = K + H
      /\ words \in Seq(Word) /\ Current = Len(words) + 1 /\ Current \in Nat \ {0}
  BY ConstantFacts DEF TypeOK, Current
<1>2. /\ Filled(buf) \in Word /\ fs \in Seq(Frame) /\ Len(fs) = K + H - c
      /\ \A l \in 1 .. K + H - c :
           /\ fs[l].nr = Current /\ fs[l].block = b /\ fs[l].idx = c + l - 1
           /\ l <= K - c => fs[l].data = Filler
           /\ l > K - c => fs[l].word = Filled(buf)
  <2>1. words \in Seq(Word) /\ b \in Blocks /\ c \in 0 .. K /\ buf \in [DataIdx -> Absent .. MaxData]
    BY <1>1
  <2>2. \A i \in DataIdx : (buf[i] = Absent) <=> (i >= c)
    OBVIOUS
  <2>3. Filled(buf) \in Word /\ BlockFrames(b, buf) \in Seq(Frame)
        /\ Len(BlockFrames(b, buf)) = K + H - c
    BY ONLY <2>1, <2>2, BlockFramesFacts
  <2>4. \A l \in 1 .. K + H - c :
           /\ BlockFrames(b, buf)[l].nr = Current
           /\ BlockFrames(b, buf)[l].block = b
           /\ BlockFrames(b, buf)[l].idx = c + l - 1
           /\ l <= K - c => BlockFrames(b, buf)[l].data = Filler
           /\ l > K - c => BlockFrames(b, buf)[l].word = Filled(buf)
    BY ONLY <2>1, <2>2, BlockFramesFacts
  <2>5. fs = BlockFrames(b, buf)
    OBVIOUS
  <2> QED
    BY ONLY <2>3, <2>4, <2>5
<1>3. Len(words') = Current /\ words'[Current] = Filled(buf) /\ Current' = Current + 1
  BY <1>1, <1>2 DEF Current
<1>4. Pos(Current, frame_idx)' = Pos(Current, c) + Len(fs)
  <2> PICK x \in Nat : x = Current * W
    BY <1>1
  <2>1. Pos(Current, frame_idx)' = (Current + 1) * W + 0
    BY <1>3 DEF Pos, W
  <2>2. (Current + 1) * W = x + W
    BY <1>1
  <2>3. Pos(Current, c) = x + c
    BY DEF Pos
  <2>4. Pos(Current, frame_idx)' = x + W
    BY <1>1, <2>1, <2>2
  <2>5. Len(fs) = W - c
    BY <1>1, <1>2
  <2>6. x + W = (x + c) + (W - c)
    BY <1>1
  <2> QED
    BY <2>3, <2>4, <2>5, <2>6
<1>5. ASSUME NEW l \in 1 .. Len(fs)
      PROVE  Genuine(fs[l])' /\ Pos(fs[l].nr, fs[l].idx) = Pos(Current, c) + l - 1
  <2> PICK f : f = fs[l]
    OBVIOUS
  <2> PICK n : n = Current
    OBVIOUS
  <2>1. /\ f.nr = n /\ f.block = BlockOf(n) /\ f.idx = c + l - 1
        /\ l <= K - c => f.data = Filler
        /\ l > K - c => f.word = Filled(buf)
    BY <1>2, <1>5
  <2>2. l \in Nat /\ n \in Nat \ {0} /\ n * W \in Nat
    BY <1>1, <1>2, <1>5
  <2>3. Pos(f.nr, f.idx) = Pos(n, c) + l - 1
    BY <1>1, <2>1, <2>2 DEF Pos
  <2>4. n \in 1 .. Current' /\ n = Len(words') /\ words'[n] = Filled(buf)
    BY <1>1, <1>3
  <2>5. ASSUME f.idx \in DataIdx PROVE Known(n, f.idx)' /\ f.data = At(n, f.idx)'
    <3>1. Known(n, f.idx)' /\ At(n, f.idx)' = Filled(buf)[f.idx]
      BY <2>2, <2>4 DEF Known, At
    <3>2. f.idx >= c /\ l <= K - c
      <4>1. f.idx = c + l - 1 /\ l \in Nat /\ l >= 1 /\ K \in Nat /\ c \in Int
        BY <1>1, <2>1, <2>2, <1>5
      <4>2. f.idx <= K - 1
        BY <1>1, <2>5 DEF DataIdx
      <4> QED
        BY ONLY <4>1, <4>2
    <3>3. Filled(buf)[f.idx] = Filler
      BY <2>5, <3>2 DEF Filled
    <3> QED
      BY <2>1, <3>1, <3>2, <3>3
  <2>6. ASSUME f.idx \in ParityIdx PROVE n <= Len(words') /\ f.word = words'[n]
    <3>1. l > K - c
      BY <1>1, <2>1, <2>2, <2>6 DEF ParityIdx
    <3> QED
      BY <2>1, <2>2, <2>4, <3>1
  <2>7. Genuine(f)'
    BY <2>1, <2>4, <2>5, <2>6 DEF Genuine, BlockOf
  <2> QED
    BY <2>3, <2>7
<1> QED
  BY <1>2, <1>3, <1>4, <1>5

(* A step that puts the next frames of the stream on the link. *)
LEMMA EncoderStep ==
    ASSUME TypeOK, TypeOK', Inv, UNCHANGED <<decoder, burst>>, EncoderGrows,
           OpenBlock', PacketsDiffer',
           NEW add \in Seq(Frame), link' = link \o add,
           Pos(Current, frame_idx)' = Pos(Current, frame_idx) + Len(add),
           \A l \in 1 .. Len(add) :
              Genuine(add[l])' /\ Pos(add[l].nr, add[l].idx) = Pos(Current, frame_idx) + l - 1
    PROVE  Inv' /\ Stays /\ StreamGrows
<1>1. /\ link \in Seq(Frame) /\ words \in Seq(Word) /\ words' \in Seq(Word)
      /\ Current = Len(words) + 1 /\ Current' = Len(words') + 1
      /\ Len(words) \in Nat /\ Len(words') \in Nat /\ Len(link) \in Nat /\ Len(add) \in Nat
      /\ Len(link') = Len(link) + Len(add)
  <2>1. link \in Seq(Frame) /\ words \in Seq(Word) /\ words' \in Seq(Word)
    BY DEF TypeOK
  <2>2. Len(link') = Len(link) + Len(add)
    BY <2>1, ConcatFacts
  <2> QED
    BY <2>1, <2>2 DEF Current
<1>2. Len(words) <= Len(words') /\ Current <= Current'
  BY <1>1 DEF EncoderGrows
<1> PICK p : p = Pos(Current, frame_idx)
  OBVIOUS
<1>3. p \in Nat /\ p = Pos(Current, frame_idx) /\ Pos(Current, frame_idx)' = p + Len(add)
  <2>1. frame_idx \in 0 .. K + H - 1 /\ Current \in Nat
    <3>1. K \in Nat /\ H \in Nat
      BY ConstantFacts
    <3>2. frame_idx \in DataIdx
      BY DEF TypeOK
    <3> QED
      BY <1>1, <3>1, <3>2 DEF DataIdx
  <2> QED
    BY <2>1, PosOrder
<1>4. HeadPos' = HeadPos /\ HeadPos = p - Len(link) /\ LastTaken' = LastTaken
  BY <1>1, <1>3 DEF HeadPos, LastTaken
<1>5. ASSUME NEW f, Genuine(f) PROVE Genuine(f)'
  <2>1. f.nr \in 1 .. Current' /\ f.block = BlockOf(f.nr)
    BY <1>1, <1>2, <1>5 DEF Genuine
  <2>2. f.idx \in DataIdx => Known(f.nr, f.idx)' /\ f.data = At(f.nr, f.idx)'
    BY <1>5 DEF Genuine, EncoderGrows
  <2>3. f.idx \in ParityIdx => f.nr <= Len(words') /\ f.word = words'[f.nr]
    BY <1>1, <1>2, <1>5 DEF Genuine, EncoderGrows
  <2>4. BlockOf(f.nr)' = BlockOf(f.nr)
    BY DEF BlockOf
  <2> QED
    BY <2>1, <2>2, <2>3, <2>4 DEF Genuine
<1>6. InStream'
  <2> SUFFICES ASSUME NEW l \in 1 .. Len(link'), NEW f, f = link'[l]
               PROVE  Genuine(f)' /\ Pos(f.nr, f.idx) = HeadPos' + l - 1
    BY DEF InStream, Genuine, Known, At, BlockOf, Pos, W
  <2>1. CASE l <= Len(link)
    <3>1. l \in 1 .. Len(link) /\ f = link[l]
      BY <1>1, <2>1, ConcatFacts
    <3>2. Genuine(f) /\ Pos(f.nr, f.idx) = HeadPos + l - 1
      BY <3>1 DEF Inv, InStream
    <3> QED
      BY <1>4, <1>5, <3>2
  <2>2. CASE l > Len(link)
    <3> PICK k : k = l - Len(link)
      OBVIOUS
    <3>1. k \in 1 .. Len(add) /\ f = add[k] /\ l = Len(link) + k /\ l \in Int
      BY <1>1, <2>2, ConcatFacts
    <3>2. Genuine(f)' /\ Pos(f.nr, f.idx) = p + k - 1
      BY <3>1
    <3>3. p + k - 1 = HeadPos' + l - 1
      BY <1>1, <1>3, <1>4, <3>1
    <3> QED
      BY <3>2, <3>3
  <2> QED
    BY <1>1, <2>1, <2>2
<1>7. OutOnce'
  BY DEF Inv, OutOnce, decoder
<1>8. \A n \in 1 .. Current : n \in 1 .. Current' /\ n \in Nat
  BY <1>1, <1>2
<1>9. ASSUME NEW n \in 1 .. Current, DecoderAt(n) PROVE DecoderAt(n)'
  <2>1. /\ last_block' = last_block /\ last_idx' = last_idx /\ forwarded' = forwarded
        /\ out' = out /\ dec' = dec
    BY DEF decoder
  <2>2. ~forwarded => LastTaken <= Pos(n, last_idx) /\ BufferOf(n, dec[last_block])
    BY <1>9 DEF DecoderAt
  <2> PICK buf : buf = dec[last_block]
    OBVIOUS
  <2>3. ASSUME ~forwarded PROVE BufferOf(n, buf)'
    <3>1. BufferOf(n, buf)
      BY <2>2, <2>3
    <3> SUFFICES
          /\ \A i \in DataIdx : \/ buf.data[i] = Absent
                                \/ i <= last_idx /\ Known(n, i)' /\ buf.data[i] = At(n, i)'
          /\ \A i \in ParityIdx : \/ buf.parity[i] = NoWord
                                  \/ i <= last_idx /\ n <= Len(words') /\ buf.parity[i] = words'[n]
      BY <2>1 DEF BufferOf
    <3>2. \A i \in DataIdx : Known(n, i) => Known(n, i)' /\ At(n, i)' = At(n, i)
      BY DEF EncoderGrows
    <3>3. n <= Len(words) => n <= Len(words') /\ words'[n] = words[n]
      BY <1>1, <1>2, <1>8 DEF EncoderGrows
    <3> QED
      BY <3>1, <3>2, <3>3 DEF BufferOf
  <2>4. /\ last_block = BlockOf(n)
        /\ \/ Pos(n, last_idx) <= LastTaken
           \/ n = 1 /\ last_idx = 0 /\ ~forwarded /\ out = << >> /\ LastTaken = W - 1
        /\ \A l \in 1 .. Len(out) : out[l] # Filler /\ \E m \in 1 .. n, i \in DataIdx :
             /\ Known(m, i) /\ out[l] = At(m, i)
             /\ m = n /\ ~forwarded => dec[last_block].data[i] # Absent
    BY <1>9 DEF DecoderAt
  <2>5. ASSUME NEW l \in 1 .. Len(out)
        PROVE  out[l] # Filler /\ \E m \in 1 .. n, i \in DataIdx :
                 /\ Known(m, i)' /\ out[l] = At(m, i)'
                 /\ m = n /\ ~forwarded => buf.data[i] # Absent
    <3> PICK m \in 1 .. n, i \in DataIdx :
               /\ Known(m, i) /\ out[l] = At(m, i)
               /\ m = n /\ ~forwarded => buf.data[i] # Absent
      BY <2>4, <2>5
    <3>1. m \in 1 .. Current
      BY <1>1
    <3>2. Known(m, i)' /\ At(m, i)' = At(m, i)
      BY <3>1 DEF EncoderGrows
    <3> QED
      BY <2>4, <2>5, <3>2
  <2>6. BlockOf(n)' = BlockOf(n) /\ Pos(n, last_idx)' = Pos(n, last_idx) /\ W' = W
    BY <2>1 DEF BlockOf, Pos, W
  <2>7. BufferOf(n, dec[last_block])' <=> BufferOf(n, buf)'
    BY <2>1 DEF BufferOf
  <2> QED
    BY <1>4, <2>1, <2>2, <2>3, <2>4, <2>5, <2>6, <2>7 DEF DecoderAt
<1> QED
  BY <1>4, <1>6, <1>7, <1>8, <1>9 DEF Inv, Stays, StreamGrows

(* When a block is closed, all of it is known. *)
LEMMA CloseKnown ==
    ASSUME words \in Seq(Word), NEW w \in Word, words' = Append(words, w), frame_idx' = 0
    PROVE  /\ Current' = Current + 1 /\ Len(words') = Current
           /\ \A n \in 1 .. Len(words) : words'[n] = words[n]
           /\ \A n \in 1 .. Current', j \in DataIdx : Known(n, j)' => n \in 1 .. Current
           /\ \A n \in 1 .. Current, j \in DataIdx :
                Known(n, j)' /\ At(n, j)' = IF n <= Len(words) THEN words[n][j] ELSE w[j]
<1>1. /\ Current = Len(words) + 1 /\ Len(words) \in Nat /\ Current' = Current + 1
      /\ Len(words') = Current /\ words'[Current] = w
      /\ \A n \in 1 .. Len(words) : words'[n] = words[n]
  BY DEF Current
<1>2. ASSUME NEW n \in 1 .. Current', NEW j \in DataIdx, Known(n, j)' PROVE n \in 1 .. Current
  <2>1. n <= Len(words') \/ j < frame_idx'
    BY <1>2 DEF Known
  <2>2. ~(j < frame_idx')
    BY ConstantFacts DEF DataIdx
  <2> QED
    BY <1>1, <2>1, <2>2
<1>3. ASSUME NEW n \in 1 .. Current, NEW j \in DataIdx
      PROVE  Known(n, j)' /\ At(n, j)' = IF n <= Len(words) THEN words[n][j] ELSE w[j]
  <2>1. n <= Len(words') /\ (n <= Len(words) => n \in 1 .. Len(words))
        /\ (~(n <= Len(words)) => n = Current)
    BY <1>1
  <2>2. Known(n, j)' /\ At(n, j)' = words'[n][j]
    BY <2>1 DEF Known, At
  <2> QED
    BY <1>1, <2>1, <2>2
<1> QED
  BY <1>1, <1>2, <1>3

(* Which packets are known. *)
LEMMA KnownCases ==
    ASSUME TypeOK, NEW n \in 1 .. Current, NEW j \in DataIdx
    PROVE  /\ n <= Len(words) => Known(n, j) /\ At(n, j) = words[n][j]
           /\ ~(n <= Len(words)) => /\ n = Current /\ At(n, j) = enc[block_id][j]
                                    /\ Known(n, j) <=> j < frame_idx
<1>1. Current = Len(words) + 1 /\ Len(words) \in Nat
  BY DEF TypeOK, Current
<1>2. n \in Nat
  BY <1>1
<1> QED
  BY <1>1, <1>2 DEF Known, At

(* A new packet. *)
LEMMA SendInv ==
    ASSUME TypeOK, Inv, SendData
    PROVE  Inv' /\ Stays /\ StreamGrows
<1>1. TypeOK' /\ OpenBlock' /\ OpenBlock /\ PacketsDiffer
  BY TypeStep DEF Inv, Next
<1>2. /\ K \in Nat \ {0} /\ H \in Nat \ {0} /\ block_id \in Blocks
      /\ frame_idx \in 0 .. K - 1 /\ sent \in 0 .. MaxData /\ sent < MaxData
      /\ words \in Seq(Word) /\ enc \in [Blocks -> [DataIdx -> Absent .. MaxData]]
      /\ Current = Len(words) + 1 /\ Len(words) \in Nat
  <2>1. K \in Nat \ {0} /\ H \in Nat \ {0}
    BY ConstantFacts
  <2>2. /\ block_id \in Blocks /\ frame_idx \in 0 .. K - 1 /\ sent \in 0 .. MaxData
        /\ words \in Seq(Word) /\ enc \in [Blocks -> [DataIdx -> Absent .. MaxData]]
    BY DEF TypeOK, DataIdx
  <2>3. sent < MaxData
    BY DEF SendData
  <2> QED
    BY <2>1, <2>2, <2>3 DEF Current
<1> PICK n0 \in Nat \ {0} : n0 = Current
  BY <1>2
<1> PICK b \in Blocks : b = block_id
  BY <1>2
<1> PICK i \in 0 .. K - 1 : i = frame_idx
  BY <1>2
<1> PICK s : s = sent
  OBVIOUS
<1> PICK buf : buf = Tagged(block_id, frame_idx)
  OBVIOUS
<1> PICK f : f = DataFrame(block_id, frame_idx, sent + 1)
  OBVIOUS
<1> PICK fs : fs = BlockFrames(block_id, buf)
  OBVIOUS
<1>3. /\ f \in Frame
      /\ buf \in [DataIdx -> Absent .. MaxData] /\ enc' = [enc EXCEPT ![b] = buf]
      /\ \/ /\ i < K - 1 /\ frame_idx' = i + 1 /\ block_id' = b /\ words' = words
            /\ link' = Append(link, f)
         \/ /\ i = K - 1 /\ frame_idx' = 0 /\ block_id' = NextBlock(b)
            /\ words' = Append(words, Filled(buf)) /\ Filled(buf) \in Word
            /\ link' = Append(link, f) \o fs /\ fs \in Seq(Frame)
  BY <1>1, SendFacts
<1>4. sent' = s + 1 /\ UNCHANGED <<decoder, burst>> /\ s \in Nat
  BY <1>2 DEF SendData
<1>5. /\ buf[i] = s + 1
      /\ \A j \in DataIdx : j < i => buf[j] \in 1 .. s /\ buf[j] = enc[b][j]
  BY <1>1, <1>2, TaggedFacts
<1>6. f.nr = n0 /\ f.block = BlockOf(n0) /\ f.idx = i /\ f.data = s + 1 /\ i \in DataIdx
  BY <1>1, <1>2 DEF DataFrame, OpenBlock, DataIdx
<1>7. i \in 0 .. K + H - 1 /\ ~(i \in ParityIdx) /\ link \in Seq(Frame)
  <2>1. i \in 0 .. K + H - 1 /\ ~(i \in ParityIdx)
    BY <1>2 DEF ParityIdx
  <2> QED
    BY <2>1 DEF TypeOK
<1>8. Append(link, f) = link \o <<f>> /\ <<f>> \in Seq(Frame) /\ Len(<<f>>) = 1 /\ <<f>>[1] = f
  BY <1>3, <1>7
<1>9. ASSUME Known(n0, i)', At(n0, i)' = s + 1, n0 \in 1 .. Current' PROVE Genuine(f)'
  <2>1. BlockOf(n0)' = BlockOf(n0)
    BY DEF BlockOf
  <2> QED
    BY <1>6, <1>7, <1>9, <2>1 DEF Genuine
<1>10. CASE i < K - 1
  <2>1. /\ frame_idx' = i + 1 /\ words' = words /\ enc'[block_id'] = buf /\ Current' = n0
        /\ link' = link \o <<f>>
    <3>1. frame_idx' = i + 1 /\ words' = words /\ block_id' = b /\ link' = link \o <<f>>
      <4>1. i # K - 1
        BY <1>2, <1>10
      <4> QED
        BY <1>3, <1>8, <4>1
    <3>2. enc'[b] = buf
      BY <1>2, <1>3
    <3>3. Current' = n0
      BY <3>1 DEF Current
    <3> QED
      BY <3>1, <3>2, <3>3
  <2>2. ASSUME NEW n \in 1 .. n0, NEW j \in DataIdx
        PROVE  /\ n <= Len(words) => Known(n, j)' /\ At(n, j)' = words[n][j]
               /\ ~(n <= Len(words)) => /\ n = n0 /\ At(n, j)' = buf[j]
                                        /\ Known(n, j)' <=> j < i + 1
    BY <1>2, <2>1 DEF Known, At
  <2>3. \A n \in 1 .. n0, j \in DataIdx :
          /\ n <= Len(words) => Known(n, j) /\ At(n, j) = words[n][j]
          /\ ~(n <= Len(words)) => n = n0 /\ At(n, j) = enc[b][j] /\ (Known(n, j) <=> j < i)
    BY KnownCases
  <2>4. \A j \in DataIdx : j < i + 1 <=> j < i \/ j = i
    BY <1>2 DEF DataIdx
  <2>5. EncoderGrows
    <3>1. ASSUME NEW n \in 1 .. n0, NEW j \in DataIdx, Known(n, j)
          PROVE  Known(n, j)' /\ At(n, j)' = At(n, j)
      BY <1>5, <2>2, <2>3, <2>4, <3>1
    <3> QED
      BY <1>2, <2>1, <3>1 DEF EncoderGrows
  <2>6. PacketsDiffer'
    <3>1. ASSUME NEW n \in 1 .. n0, NEW j \in DataIdx, Known(n, j)'
          PROVE  \/ n \in 1 .. n0 /\ Known(n, j) /\ At(n, j)' = At(n, j)
                 \/ At(n, j)' = Filler
                 \/ n = n0 /\ j = i /\ At(n, j)' = s + 1 /\ sent' = s + 1
      BY <1>4, <1>5, <2>2, <2>3, <2>4, <3>1
    <3>2. sent' >= sent
      BY <1>4
    <3> QED
      BY <1>1, <2>1, <3>1, <3>2, DifferStep
  <2>7. n0 \in 1 .. Current' /\ Known(n0, i)' /\ At(n0, i)' = s + 1
    <3>1. n0 \in 1 .. n0 /\ ~(n0 <= Len(words))
      BY <1>2
    <3> QED
      BY <1>5, <1>6, <2>1, <2>2, <2>4, <3>1
  <2>8. Pos(Current, frame_idx)' = Pos(n0, i) + 1 /\ Pos(n0, i) \in Nat
    <3>1. Pos(Current, frame_idx)' = Pos(n0, i + 1)
      BY <2>1 DEF Pos, W
    <3> QED
      <4>1. n0 \in Nat /\ i \in 0 .. K + H - 1
        BY <1>7
      <4>2. Pos(n0, i) \in Nat /\ Pos(n0, i + 1) = Pos(n0, i) + 1
        BY ONLY <4>1, PosOrder
      <4> QED
        BY <3>1, <4>2
  <2>9. ASSUME NEW l \in 1 .. Len(<<f>>)
        PROVE  Genuine(<<f>>[l])' /\ Pos(<<f>>[l].nr, <<f>>[l].idx) = Pos(Current, frame_idx) + l - 1
    <3> PICK g : g = <<f>>[l]
      OBVIOUS
    <3>1. l = 1 /\ g = f
      BY <1>8
    <3>2. Genuine(g)' /\ Pos(g.nr, g.idx) = Pos(n0, i) /\ Pos(n0, i) = Pos(n0, i) + l - 1
      BY <1>6, <1>9, <2>7, <2>8, <3>1
    <3> QED
      BY <3>2
  <2> PICK add : add = <<f>>
    OBVIOUS
  <2>10. /\ add \in Seq(Frame) /\ link' = link \o add
         /\ Pos(Current, frame_idx)' = Pos(Current, frame_idx) + Len(add)
    BY <1>8, <2>1, <2>8
  <2> QED
    BY <1>1, <1>4, <2>5, <2>6, <2>9, <2>10, EncoderStep
<1>11. CASE i = K - 1
  <2>1. /\ frame_idx' = 0 /\ words' = Append(words, Filled(buf)) /\ Filled(buf) \in Word
        /\ link' = (link \o <<f>>) \o fs /\ fs \in Seq(Frame)
    BY <1>2, <1>3, <1>8, <1>11
  <2>2. /\ Current' = n0 + 1 /\ Len(words') = n0
        /\ \A n \in 1 .. Len(words) : words'[n] = words[n]
        /\ \A n \in 1 .. Current', j \in DataIdx : Known(n, j)' => n \in 1 .. n0
        /\ \A n \in 1 .. n0, j \in DataIdx :
             Known(n, j)' /\ At(n, j)' = IF n <= Len(words) THEN words[n][j] ELSE Filled(buf)[j]
    BY <1>2, <2>1, CloseKnown
  <2>3. \A n \in 1 .. n0, j \in DataIdx :
          /\ n <= Len(words) => Known(n, j) /\ At(n, j) = words[n][j]
          /\ ~(n <= Len(words)) => n = n0 /\ At(n, j) = enc[b][j] /\ (Known(n, j) <=> j < i)
    BY KnownCases
  <2>4. \A j \in DataIdx : (j < i \/ j = i) /\ (buf[j] = Absent <=> j >= K) /\ Filled(buf)[j] = buf[j]
    BY <1>2, <1>5, <1>11 DEF DataIdx, Absent, Filled
  <2>5. EncoderGrows
    <3>1. ASSUME NEW n \in 1 .. n0, NEW j \in DataIdx, Known(n, j)
          PROVE  Known(n, j)' /\ At(n, j)' = At(n, j)
      BY <1>5, <2>2, <2>3, <2>4, <3>1
    <3>2. Len(words) <= Len(words')
      BY <1>2, <2>2
    <3> QED
      BY <2>2, <3>1, <3>2 DEF EncoderGrows
  <2>6. PacketsDiffer'
    <3>1. ASSUME NEW n \in 1 .. Current', NEW j \in DataIdx, Known(n, j)'
          PROVE  \/ n \in 1 .. n0 /\ Known(n, j) /\ At(n, j)' = At(n, j)
                 \/ At(n, j)' = Filler
                 \/ n = n0 /\ j = i /\ At(n, j)' = s + 1 /\ sent' = s + 1
      <4>1. n \in 1 .. n0
        BY <2>2, <3>1
      <4> QED
        BY <1>4, <1>5, <2>2, <2>3, <2>4, <4>1
    <3>2. sent' >= sent
      BY <1>4
    <3> QED
      BY <1>1, <3>1, <3>2, DifferStep
  <2>7. n0 \in 1 .. Current' /\ Known(n0, i)' /\ At(n0, i)' = s + 1
    <3>1. n0 \in 1 .. n0 /\ n0 \in 1 .. n0 + 1 /\ ~(n0 <= Len(words))
      BY <1>2
    <3> QED
      BY <1>5, <1>6, <2>2, <2>4, <3>1
  <2>8. Pos(n0, K) = Pos(n0, i) + 1 /\ Pos(n0, i) \in Nat
    <3>1. i + 1 = K
      BY <1>2, <1>11
    <3> QED
      <4>1. n0 \in Nat /\ i \in 0 .. K + H - 1
        BY <1>7
      <4>2. Pos(n0, i) \in Nat /\ Pos(n0, i + 1) = Pos(n0, i) + 1
        BY ONLY <4>1, PosOrder
      <4> QED
        BY <3>1, <4>2
  <2>9. /\ Pos(Current, frame_idx)' = Pos(n0, K) + Len(fs)
        /\ \A l \in 1 .. Len(fs) : Genuine(fs[l])' /\ Pos(fs[l].nr, fs[l].idx) = Pos(n0, K) + l - 1
    <3> PICK c : c = K
      OBVIOUS
    <3>1. c \in 0 .. K /\ b \in Blocks /\ b = BlockOf(Current) /\ fs = BlockFrames(b, buf)
      BY <1>1, <1>2 DEF OpenBlock
    <3>2. \A j \in DataIdx : (buf[j] = Absent) <=> (j >= c)
      BY <2>4
    <3>3. buf \in [DataIdx -> Absent .. MaxData]
      BY <1>3
    <3>4. words' = Append(words, Filled(buf)) /\ frame_idx' = 0
      BY <2>1
    <3>5. /\ Pos(Current, frame_idx)' = Pos(Current, c) + Len(fs)
          /\ \A l \in 1 .. Len(fs) :
               Genuine(fs[l])' /\ Pos(fs[l].nr, fs[l].idx) = Pos(Current, c) + l - 1
      BY ONLY TypeOK, <3>1, <3>2, <3>3, <3>4, CloseFacts
    <3> QED
      BY <3>5
  <2> PICK add : add = <<f>> \o fs
    OBVIOUS
  <2>10. /\ add \in Seq(Frame) /\ Len(add) = 1 + Len(fs) /\ Len(fs) \in Nat /\ add[1] = f
         /\ \A l \in 2 .. 1 + Len(fs) : add[l] = fs[l - 1]
    BY <1>8, <2>1, ConcatFacts
  <2>11. link' = link \o add
    BY <1>7, <1>8, <2>1
  <2>12. Pos(Current, frame_idx)' = Pos(Current, frame_idx) + Len(add)
    BY <2>8, <2>9, <2>10
  <2>13. ASSUME NEW l \in 1 .. Len(add)
         PROVE  Genuine(add[l])' /\ Pos(add[l].nr, add[l].idx) = Pos(Current, frame_idx) + l - 1
    <3> PICK g : g = add[l]
      OBVIOUS
    <3>1. CASE l = 1
      <4>1. Genuine(g)' /\ Pos(g.nr, g.idx) = Pos(n0, i) /\ Pos(n0, i) = Pos(n0, i) + l - 1
        BY <1>6, <1>9, <2>7, <2>8, <2>10, <3>1
      <4> QED
        BY <4>1
    <3>2. CASE l > 1
      <4> PICK k : k = l - 1
        OBVIOUS
      <4>1. k \in 1 .. Len(fs) /\ g = fs[k] /\ l \in Nat /\ l = k + 1
        BY <2>10, <3>2
      <4>2. Genuine(g)' /\ Pos(g.nr, g.idx) = Pos(n0, K) + k - 1
        BY <2>9, <4>1
      <4>3. Pos(n0, K) + k - 1 = Pos(n0, i) + l - 1
        BY <2>8, <4>1
      <4> QED
        BY <4>2, <4>3
    <3> QED
      BY <2>10, <3>1, <3>2
  <2> QED
    BY <1>1, <1>4, <2>5, <2>6, <2>10, <2>11, <2>12, <2>13, EncoderStep
<1> QED
  BY <1>2, <1>10, <1>11

(* The end of the timeout. *)
LEMMA ExpireInv ==
    ASSUME TypeOK, Inv, Expire
    PROVE  Inv' /\ Stays /\ StreamGrows
<1>1. TypeOK' /\ OpenBlock' /\ OpenBlock /\ PacketsDiffer
  BY TypeStep DEF Inv, Next
<1>2. /\ K \in Nat \ {0} /\ block_id \in Blocks /\ sent \in Nat /\ words \in Seq(Word)
      /\ Current = Len(words) + 1 /\ Len(words) \in Nat
  <2>1. K \in Nat \ {0} /\ MaxData \in Nat
    BY ConstantFacts
  <2>2. block_id \in Blocks /\ sent \in 0 .. MaxData /\ words \in Seq(Word)
    BY DEF TypeOK
  <2> QED
    BY <2>1, <2>2 DEF Current
<1> PICK n0 \in Nat \ {0} : n0 = Current
  BY <1>2
<1> PICK b \in Blocks : b = block_id
  BY <1>2
<1> PICK c : c = frame_idx
  OBVIOUS
<1> PICK buf : buf = enc[block_id]
  OBVIOUS
<1> PICK fs : fs = BlockFrames(block_id, buf)
  OBVIOUS
<1>3. /\ c \in 1 .. K - 1 /\ \A i \in DataIdx : (buf[i] = Absent) <=> (i >= c)
      /\ buf \in [DataIdx -> Absent .. MaxData] /\ Filled(buf) \in Word
      /\ fs \in Seq(Frame) /\ link' = link \o fs
      /\ words' = Append(words, Filled(buf)) /\ frame_idx' = 0
  BY <1>1, ExpireFacts
<1>4. sent' = sent /\ UNCHANGED <<decoder, burst>>
  BY DEF Expire
<1>5. /\ Current' = n0 + 1 /\ Len(words') = n0
      /\ \A n \in 1 .. Len(words) : words'[n] = words[n]
      /\ \A n \in 1 .. Current', j \in DataIdx : Known(n, j)' => n \in 1 .. n0
      /\ \A n \in 1 .. n0, j \in DataIdx :
           Known(n, j)' /\ At(n, j)' = IF n <= Len(words) THEN words[n][j] ELSE Filled(buf)[j]
  BY <1>2, <1>3, CloseKnown
<1>6. \A n \in 1 .. n0, j \in DataIdx :
        /\ n <= Len(words) => Known(n, j) /\ At(n, j) = words[n][j]
        /\ ~(n <= Len(words)) => n = n0 /\ At(n, j) = buf[j] /\ (Known(n, j) <=> j < c)
  BY KnownCases
<1>7. \A j \in DataIdx : /\ j < c => Filled(buf)[j] = buf[j]
                         /\ ~(j < c) => Filled(buf)[j] = Filler
  <2>1. \A j \in DataIdx : j < c <=> ~(j >= c)
    BY <1>2, <1>3 DEF DataIdx
  <2> QED
    BY <1>3, <2>1 DEF Filled
<1>8. EncoderGrows
  <2>1. ASSUME NEW n \in 1 .. n0, NEW j \in DataIdx, Known(n, j)
        PROVE  Known(n, j)' /\ At(n, j)' = At(n, j)
    BY <1>5, <1>6, <1>7, <2>1
  <2>2. Len(words) <= Len(words')
    BY <1>2, <1>5
  <2> QED
    BY <1>5, <2>1, <2>2 DEF EncoderGrows
<1>9. PacketsDiffer'
  <2>1. ASSUME NEW n \in 1 .. Current', NEW j \in DataIdx, Known(n, j)'
        PROVE  \/ n \in 1 .. n0 /\ Known(n, j) /\ At(n, j)' = At(n, j)
               \/ At(n, j)' = Filler
    <3>1. n \in 1 .. n0
      BY <1>5, <2>1
    <3> QED
      BY <1>5, <1>6, <1>7, <3>1
  <2>2. sent' >= sent
    BY <1>2, <1>4
  <2> QED
    BY <1>1, <2>1, <2>2, DifferStep
<1>10. /\ Pos(Current, frame_idx)' = Pos(Current, c) + Len(fs)
       /\ \A l \in 1 .. Len(fs) :
            Genuine(fs[l])' /\ Pos(fs[l].nr, fs[l].idx) = Pos(Current, c) + l - 1
  <2>1. c \in 0 .. K /\ b \in Blocks /\ b = BlockOf(Current) /\ fs = BlockFrames(b, buf)
    BY <1>1, <1>2, <1>3 DEF OpenBlock
  <2>2. \A j \in DataIdx : (buf[j] = Absent) <=> (j >= c)
    BY <1>3
  <2>3. buf \in [DataIdx -> Absent .. MaxData]
    BY <1>3
  <2>4. words' = Append(words, Filled(buf)) /\ frame_idx' = 0
    BY <1>3
  <2> QED
    BY ONLY TypeOK, <2>1, <2>2, <2>3, <2>4, CloseFacts
<1> QED
  BY <1>1, <1>3, <1>4, <1>8, <1>9, <1>10, EncoderStep

(* A tick of the timer. *)
LEMMA TickInv ==
    ASSUME TypeOK, Inv, Tick
    PROVE  Inv' /\ Stays /\ StreamGrows
<1>1. TypeOK' /\ OpenBlock' /\ OpenBlock
  BY TypeStep DEF Inv, Next
<1>2. UNCHANGED <<block_id, frame_idx, enc, sent, words, link, burst>> /\ UNCHANGED decoder
  BY DEF Tick
<1>3. PacketsDiffer'
  BY <1>2 DEF Inv, PacketsDiffer, Known, At, Current
<1>4. EncoderGrows
  BY <1>2 DEF EncoderGrows, Known, At, Current, TypeOK
<1>5. InStream'
  BY <1>2 DEF Inv, InStream, Genuine, Known, At, Current, HeadPos, Pos, W, BlockOf
<1>6. OutOnce'
  BY <1>2 DEF Inv, OutOnce, decoder
<1>7. ASSUME NEW n \in 1 .. Current, DecoderAt(n) PROVE DecoderAt(n)' /\ n \in 1 .. Current'
  BY <1>2, <1>7 DEF DecoderAt, BufferOf, Known, At, Current, LastTaken, HeadPos, Pos, W, BlockOf,
       decoder
<1>8. HeadPos' = HeadPos
  BY <1>2 DEF HeadPos, Current, Pos, W
<1> QED
  BY <1>1, <1>3, <1>4, <1>5, <1>6, <1>7, <1>8 DEF Inv, Stays, StreamGrows

-----------------------------------------------------------------------------
(* Steps of the link and of the decoder. *)

(* The first frame of the link is taken off. *)
LEMMA TakenFacts ==
    ASSUME TypeOK, Inv, link # << >>, link' = Tail(link), UNCHANGED encoder
    PROVE  /\ HeadPos \in Int /\ HeadPos' = HeadPos + 1
           /\ Head(link) \in Frame /\ Genuine(Head(link))
           /\ Pos(Head(link).nr, Head(link).idx) = HeadPos
           /\ Head(link).nr \in Nat \ {0}
           /\ Current' = Current /\ words' = words
           /\ InStream' /\ PacketsDiffer'
           /\ \A n, i : (Known(n, i)' <=> Known(n, i)) /\ At(n, i)' = At(n, i)
<1>1. /\ UNCHANGED <<block_id, frame_idx, enc, sent, words>>
      /\ link \in Seq(Frame) /\ Len(link) \in Nat \ {0} /\ Len(link') = Len(link) - 1
      /\ Head(link) = link[1] /\ Head(link) \in Frame
      /\ \A l \in 1 .. Len(link') : link'[l] = link[l + 1]
  <2>1. link \in Seq(Frame)
    BY DEF TypeOK
  <2> QED
    BY <2>1 DEF encoder
<1>2. HeadPos \in Int /\ HeadPos' = HeadPos + 1
  <2>1. frame_idx \in 0 .. K + H - 1 /\ Current \in Nat
    <3>1. K \in Nat /\ H \in Nat
      BY ConstantFacts
    <3>2. frame_idx \in DataIdx /\ words \in Seq(Word)
      BY DEF TypeOK
    <3> QED
      BY <3>1, <3>2 DEF DataIdx, Current
  <2>2. Pos(Current, frame_idx) \in Nat
    BY <2>1, PosOrder
  <2>3. Pos(Current, frame_idx)' = Pos(Current, frame_idx)
    BY <1>1 DEF Pos, Current, W
  <2> QED
    BY <1>1, <2>2, <2>3 DEF HeadPos
<1>3. \A n, i : (Known(n, i)' <=> Known(n, i)) /\ At(n, i)' = At(n, i)
  BY <1>1 DEF Known, At, Current
<1>4. Genuine(Head(link)) /\ Pos(Head(link).nr, Head(link).idx) = HeadPos
  <2> PICK f : f = link[1]
    OBVIOUS
  <2>1. Genuine(f) /\ Pos(f.nr, f.idx) = HeadPos + 1 - 1
    BY <1>1 DEF Inv, InStream
  <2> QED
    BY <1>1, <1>2, <2>1
<1>5. PacketsDiffer'
  BY <1>1 DEF Inv, PacketsDiffer, Known, At, Current
<1>6. InStream'
  <2> SUFFICES ASSUME NEW l \in 1 .. Len(link'), NEW f, f = link'[l]
               PROVE  Genuine(f)' /\ Pos(f.nr, f.idx) = HeadPos' + l - 1
    BY DEF InStream, Genuine, Known, At, BlockOf, Pos, W
  <2>1. l + 1 \in 1 .. Len(link) /\ f = link[l + 1] /\ l \in Int
    BY <1>1
  <2>2. Genuine(f) /\ Pos(f.nr, f.idx) = HeadPos + (l + 1) - 1
    BY <2>1 DEF Inv, InStream
  <2>3. Genuine(f)'
    BY <1>1, <2>2 DEF Genuine, Known, At, Current, BlockOf
  <2> QED
    BY <1>2, <2>1, <2>2, <2>3
<1>7. Head(link).nr \in Nat \ {0}
  BY <1>4, <1>1 DEF Genuine, Frame
<1> QED
  BY <1>1, <1>2, <1>3, <1>4, <1>5, <1>6, <1>7 DEF Current

(* A frame is lost. *)
LEMMA LoseInv ==
    ASSUME TypeOK, Inv, Lose
    PROVE  Inv' /\ Stays
<1>1. /\ link # << >> /\ link' = Tail(link) /\ UNCHANGED encoder /\ UNCHANGED decoder
      /\ burst' = burst + 1
  BY DEF Lose
<1>2. OpenBlock'
  BY TypeStep DEF Inv, Next
<1>3. /\ HeadPos \in Int /\ HeadPos' = HeadPos + 1 /\ Current' = Current /\ words' = words
      /\ InStream' /\ PacketsDiffer'
      /\ \A n, i : (Known(n, i)' <=> Known(n, i)) /\ At(n, i)' = At(n, i)
  BY <1>1, TakenFacts
<1>4. LastTaken' = LastTaken
  <2>1. burst \in Int
    BY ConstantFacts DEF TypeOK
  <2> QED
    BY <1>1, <1>3, <2>1 DEF LastTaken
<1>5. OutOnce'
  BY <1>1 DEF Inv, OutOnce, decoder
<1>6. ASSUME NEW n \in 1 .. Current, DecoderAt(n) PROVE DecoderAt(n)' /\ n \in 1 .. Current'
  BY <1>1, <1>3, <1>4, <1>6 DEF DecoderAt, BufferOf, Pos, W, BlockOf, decoder
<1> QED
  BY <1>2, <1>3, <1>5, <1>6 DEF Inv, Stays

(* The decoder skips a frame of a block that it has forwarded. *)
LEMMA SkipInv ==
    ASSUME TypeOK, Inv, Skip
    PROVE  Inv' /\ Stays
<1>1. /\ link # << >> /\ link' = Tail(link) /\ UNCHANGED encoder /\ UNCHANGED decoder
      /\ burst' = 0 /\ forwarded
  BY DEF Skip, TakeFrame
<1>2. OpenBlock'
  BY TypeStep DEF Inv, Next
<1>3. /\ HeadPos \in Int /\ HeadPos' = HeadPos + 1 /\ Current' = Current /\ words' = words
      /\ InStream' /\ PacketsDiffer'
      /\ \A n, i : (Known(n, i)' <=> Known(n, i)) /\ At(n, i)' = At(n, i)
  BY <1>1, TakenFacts
<1>4. LastTaken' = HeadPos /\ LastTaken = HeadPos - burst - 1 /\ burst \in Nat
  <2>1. burst \in Nat
    BY ConstantFacts DEF TypeOK
  <2> QED
    BY <1>1, <1>3, <2>1 DEF LastTaken
<1>5. OutOnce'
  BY <1>1 DEF Inv, OutOnce, decoder
<1>6. ASSUME NEW n \in 1 .. Current, DecoderAt(n) PROVE DecoderAt(n)' /\ n \in 1 .. Current'
  <2>1. Pos(n, last_idx) <= LastTaken
    BY <1>1, <1>6 DEF DecoderAt
  <2>2. Pos(n, last_idx) \in Nat
    <3>1. n \in Nat /\ last_idx \in 0 .. K + H - 1
      BY DEF TypeOK, Current
    <3> QED
      BY <3>1, PosOrder
  <2>3. Pos(n, last_idx) <= LastTaken'
    BY <1>3, <1>4, <2>1, <2>2
  <2>4. Pos(n, last_idx)' = Pos(n, last_idx) /\ BlockOf(n)' = BlockOf(n)
    BY <1>1 DEF Pos, W, BlockOf, decoder
  <2> QED
    BY <1>1, <1>3, <1>6, <2>3, <2>4 DEF DecoderAt, decoder
<1> QED
  BY <1>2, <1>3, <1>5, <1>6 DEF Inv, Stays

(* Two sequences without a common element. *)
LEMMA ConcatOnce ==
    ASSUME NEW S, NEW s \in Seq(S), NEW t \in Seq(S),
           \A i, j \in 1 .. Len(s) : i # j => s[i] # s[j],
           \A i, j \in 1 .. Len(t) : i # j => t[i] # t[j],
           \A i \in 1 .. Len(s), j \in 1 .. Len(t) : s[i] # t[j]
    PROVE  \A i, j \in 1 .. Len(s \o t) : i # j => (s \o t)[i] # (s \o t)[j]
<1> SUFFICES ASSUME NEW i \in 1 .. Len(s \o t), NEW j \in 1 .. Len(s \o t), i # j
             PROVE  (s \o t)[i] # (s \o t)[j]
  OBVIOUS
<1>1. Len(s) \in Nat /\ Len(t) \in Nat /\ Len(s \o t) = Len(s) + Len(t)
  BY ConcatFacts
<1>2. ASSUME NEW k \in 1 .. Len(s \o t)
      PROVE  \/ k \in 1 .. Len(s) /\ (s \o t)[k] = s[k]
             \/ k - Len(s) \in 1 .. Len(t) /\ (s \o t)[k] = t[k - Len(s)]
  <2>1. k \in 1 .. Len(s) \/ (k \in Len(s) + 1 .. Len(s) + Len(t) /\ k - Len(s) \in 1 .. Len(t))
    BY <1>1
  <2> QED
    BY <2>1, ConcatFacts
<1>3. i - Len(s) # j - Len(s)
  BY <1>1
<1> QED
  BY <1>2, <1>3

(* A buffer holds only packets of block n, with indices less than x. *)
Held(n, x, buf) ==
    /\ \A i \in DataIdx : \/ buf.data[i] = Absent
                          \/ i < x /\ Known(n, i) /\ buf.data[i] = At(n, i)
    /\ \A i \in ParityIdx : \/ buf.parity[i] = NoWord
                            \/ i < x /\ n <= Len(words) /\ buf.parity[i] = words[n]

(* A frame of the block fills a free slot, and what can be decoded is      *)
(* decoded right.                                                          *)
LEMMA InsertHeld ==
    ASSUME TypeOK, OpenBlock, PacketsDiffer,
           NEW f \in Frame, Genuine(f), NEW old \in Buffer, Held(f.nr, f.idx, old),
           NEW new, new = Insert(old, f)
    PROVE  /\ new \in Buffer /\ Held(f.nr, f.idx + 1, new) /\ Inserts(old, f)
           /\ \A i \in DataIdx : i # f.idx => new.data[i] = old.data[i]
           /\ \A i \in ParityIdx : i # f.idx => new.parity[i] = old.parity[i]
           /\ f.idx \in DataIdx => new.data[f.idx] = f.data /\ f.data # Absent
           /\ f.idx \in ParityIdx => new.parity[f.idx] # NoWord
           /\ CanDecode(new) =>
                \A i \in Missing(new) : Known(f.nr, i) /\ Solve(new, i) = At(f.nr, i)
<1> PICK n : n = f.nr
  OBVIOUS
<1>0. /\ \A i \in DataIdx : \/ old.data[i] = Absent
                            \/ i < f.idx /\ Known(n, i) /\ old.data[i] = At(n, i)
      /\ \A i \in ParityIdx : \/ old.parity[i] = NoWord
                              \/ i < f.idx /\ n <= Len(words) /\ old.parity[i] = words[n]
  BY DEF Held
<1>1. /\ f.idx \in Nat /\ n \in 1 .. Current /\ n \in Nat \ {0} /\ Current = Len(words) + 1
      /\ f.idx \in DataIdx => Known(n, f.idx) /\ f.data = At(n, f.idx)
      /\ f.idx \in ParityIdx => n <= Len(words) /\ f.word = words[n]
      /\ f.idx \in DataIdx \/ f.idx \in ParityIdx
      /\ DataIdx \subseteq Nat /\ ParityIdx \subseteq Nat /\ 0 \in DataIdx
      /\ words \in Seq(Word) /\ sent \in Nat
  <2>1. K \in Nat \ {0} /\ H \in Nat /\ MaxData \in Nat
    BY ConstantFacts
  <2>2. f.idx \in 0 .. K + H - 1 /\ f.nr \in Nat
    BY DEF Frame
  <2>3. words \in Seq(Word) /\ sent \in 0 .. MaxData
    BY DEF TypeOK
  <2> QED
    BY <2>1, <2>2, <2>3 DEF Genuine, DataIdx, ParityIdx, Current
<1>2. /\ new \in Buffer
      /\ \A i \in DataIdx : new.data[i] =
           IF i = f.idx /\ old.data[i] = Absent THEN f.data ELSE old.data[i]
      /\ \A i \in ParityIdx : new.parity[i] =
           IF i = f.idx /\ old.parity[i] = NoWord THEN f.word ELSE old.parity[i]
  BY InsertFacts
<1>3. \A i \in DataIdx : i # f.idx => new.data[i] = old.data[i]
  BY <1>2
<1>4. \A i \in ParityIdx : i # f.idx => new.parity[i] = old.parity[i]
  BY <1>2
<1>5. ASSUME f.idx \in DataIdx
      PROVE  old.data[f.idx] = Absent /\ new.data[f.idx] = f.data /\ f.data # Absent
  <2>1. old.data[f.idx] = Absent
    BY <1>0, <1>1, <1>5
  <2>2. At(n, f.idx) \in 0 .. sent
    BY <1>1, <1>5, KnownSent
  <2> QED
    BY <1>1, <1>2, <1>5, <2>1, <2>2 DEF Absent
<1>6. ASSUME f.idx \in ParityIdx
      PROVE  old.parity[f.idx] = NoWord /\ new.parity[f.idx] = f.word /\ f.word # NoWord
  <2>1. old.parity[f.idx] = NoWord
    BY <1>0, <1>1, <1>6
  <2>2. f.word \in Word
    BY <1>1, <1>6
  <2>3. DOMAIN f.word = DataIdx
    BY <2>2 DEF Word
  <2>4. DOMAIN NoWord = {}
    BY DEF NoWord
  <2> QED
    BY <1>1, <1>2, <1>6, <2>1, <2>3, <2>4
<1>7. Inserts(old, f)
  BY <1>1, <1>5, <1>6 DEF Inserts
<1>8. Held(n, f.idx + 1, new)
  <2>1. \A i \in Nat : (i < f.idx \/ i = f.idx) => i < f.idx + 1
    BY <1>1
  <2>2. ASSUME NEW i \in DataIdx
        PROVE  \/ new.data[i] = Absent
               \/ i < f.idx + 1 /\ Known(n, i) /\ new.data[i] = At(n, i)
    <3>1. i \in Nat
      BY <1>1
    <3> QED
      BY <1>0, <1>1, <1>2, <2>1, <3>1
  <2>3. ASSUME NEW i \in ParityIdx
        PROVE  \/ new.parity[i] = NoWord
               \/ i < f.idx + 1 /\ n <= Len(words) /\ new.parity[i] = words[n]
    <3>1. i \in Nat
      BY <1>1
    <3> QED
      BY <1>0, <1>1, <1>2, <2>1, <3>1
  <2> QED
    BY <2>2, <2>3 DEF Held
<1>9. ASSUME CanDecode(new), NEW i \in Missing(new)
      PROVE  Known(n, i) /\ Solve(new, i) = At(n, i)
  <2> PICK j \in Parities(new) :
             Solve(new, i) = IF Consistent(new, new.parity[j]) THEN new.parity[j][i] ELSE Garbage
    BY <1>2, <1>9, SolveFacts
  <2>1. i \in DataIdx
    BY DEF Missing
  <2>2. n <= Len(words) /\ new.parity[j] = words[n]
    BY <1>8 DEF Parities, Held
  <2>3. \A d \in DataIdx : Known(n, d) /\ At(n, d) = words[n][d]
    BY <2>2 DEF Known, At
  <2>4. Consistent(new, words[n])
    BY <1>8, <2>3 DEF Consistent, Parities, Missing, Held
  <2> QED
    BY <2>1, <2>2, <2>3, <2>4
<1> QED
  BY <1>2, <1>3, <1>4, <1>5, <1>6, <1>7, <1>8, <1>9

(* What has been delivered is from blocks up to n, and what is from block  *)
(* n is in the buffer.                                                     *)
Traced(n, buf) ==
    \A l \in 1 .. Len(out) : out[l] # Filler /\ \E k \in 1 .. n, i \in DataIdx :
        Known(k, i) /\ out[l] = At(k, i) /\ (k = n => buf.data[i] # Absent)

(* The same of a sequence s, as long as the buffer is not decoded. *)
Delivered(n, buf, s) ==
    \A l \in 1 .. Len(s) : s[l] # Filler /\ \E k \in 1 .. n, i \in DataIdx :
        /\ Known(k, i) /\ s[l] = At(k, i)
        /\ k = n /\ ~CanDecode(buf) => buf.data[i] # Absent

(* No packet is in a sequence twice. *)
Once(s) == \A i, j \in 1 .. Len(s) : i # j => s[i] # s[j]

(* What the decoder forwards upon a frame of block f.nr, when its buffer   *)
(* holds only packets of that block, and among the packets of that block   *)
(* it has forwarded only those in the buffer: packets of the stream, none  *)
(* of them a second time.                                                  *)
LEMMA DeliveryFacts ==
    ASSUME TypeOK, OpenBlock, PacketsDiffer, OutOnce,
           NEW f \in Frame, Genuine(f), NEW old \in Buffer,
           Held(f.nr, f.idx, old), Traced(f.nr, old),
           NEW new, new = Insert(old, f),
           NEW rec, rec = << >> \/ (CanDecode(new) /\ rec = Recovered(new)),
           NEW all, all = (out \o Passed(f)) \o rec
    PROVE  Delivered(f.nr, new, all) /\ Once(all) /\ Held(f.nr, f.idx + 1, new)
<1> PICK G : G = Garbage .. MaxData
  OBVIOUS
<1> PICK n : n = f.nr
  OBVIOUS
<1>1. \A l \in 1 .. Len(out) : out[l] # Filler /\ \E k \in 1 .. n, i \in DataIdx :
          Known(k, i) /\ out[l] = At(k, i) /\ (k = n => old.data[i] # Absent)
  BY DEF Traced
<1>2. /\ f.idx \in Nat /\ n \in 1 .. Current /\ Current \in Nat
      /\ f.idx \in DataIdx => Known(n, f.idx) /\ f.data = At(n, f.idx)
      /\ f.idx \in ParityIdx => n <= Len(words) /\ f.word = words[n]
      /\ n \in 1 .. n /\ DataIdx \subseteq Nat /\ ParityIdx \subseteq Nat
  <2>1. K \in Nat /\ H \in Nat
    BY ConstantFacts
  <2>2. f.idx \in 0 .. K + H - 1 /\ f.nr \in Nat
    BY DEF Frame
  <2>3. Current \in Nat
    BY DEF TypeOK, Current
  <2> QED
    BY <2>1, <2>2, <2>3 DEF Genuine, DataIdx, ParityIdx
<1>3. /\ new \in Buffer /\ Held(n, f.idx + 1, new) /\ Inserts(old, f)
      /\ \A i \in DataIdx : i # f.idx => new.data[i] = old.data[i]
      /\ f.idx \in DataIdx => new.data[f.idx] = f.data /\ f.data # Absent
      /\ CanDecode(new) => \A i \in Missing(new) : Known(n, i) /\ Solve(new, i) = At(n, i)
  BY InsertHeld
<1>4. /\ out \in Seq(G) /\ Passed(f) \in Seq(G) /\ rec \in Seq(G)
      /\ out \o Passed(f) \in Seq(G)
  <2>1. out \in Seq(G)
    BY DEF TypeOK
  <2>2. f.data \in G
    BY ConstantFacts DEF Frame, Garbage, Absent
  <2>3. <<f.data>> \in Seq(G) /\ << >> \in Seq(G)
    BY <2>2
  <2>4. Passed(f) \in Seq(G)
    BY <2>3 DEF Passed
  <2>5. rec \in Seq(G)
    <3>1. CanDecode(new) => Recovered(new) \in Seq(G)
      BY <1>3, RecoveredFacts
    <3> QED
      BY <2>3, <3>1
  <2> QED
    BY <2>1, <2>4, <2>5, ConcatFacts
<1>5. \A i \in DataIdx : /\ old.data[i] # Absent => new.data[i] # Absent
                         /\ i = f.idx => new.data[i] # Absent /\ old.data[i] = Absent
  BY <1>3 DEF Inserts
\* The packet that is passed on.
<1>6. ASSUME NEW l \in 1 .. Len(Passed(f))
      PROVE  /\ l = 1 /\ f.idx \in DataIdx /\ Known(n, f.idx) /\ Passed(f)[l] = At(n, f.idx)
             /\ At(n, f.idx) # Filler
  <2>1. CASE f.idx \in DataIdx /\ f.data # Filler
    <3>1. Passed(f) = <<f.data>>
      BY <2>1 DEF Passed
    <3> QED
      BY <1>2, <1>6, <2>1, <3>1
  <2>2. CASE ~(f.idx \in DataIdx /\ f.data # Filler)
    <3>1. Passed(f) = << >>
      BY <2>2 DEF Passed
    <3> QED
      BY <1>6, <3>1
  <2> QED
    BY <2>1, <2>2
\* The packets that are recovered.
<1>7. \E at \in [1 .. Len(rec) -> DataIdx] :
         /\ \A l \in 1 .. Len(rec) : /\ Known(n, at[l]) /\ rec[l] = At(n, at[l]) /\ rec[l] # Filler
                                     /\ new.data[at[l]] = Absent /\ CanDecode(new)
         /\ \A l, m \in 1 .. Len(rec) : l # m => at[l] # at[m]
  <2>1. CASE rec = << >>
    <3>1. Len(rec) = 0 /\ 1 .. 0 = {}
      BY <2>1
    <3>2. [l \in 1 .. 0 |-> 0] \in [1 .. Len(rec) -> DataIdx]
      BY <3>1
    <3> QED
      BY <3>1, <3>2
  <2>2. CASE CanDecode(new) /\ rec = Recovered(new)
    <3>0. new \in Buffer
      BY <1>3
    <3> PICK at \in [1 .. Len(rec) -> Missing(new)] :
               /\ \A l \in 1 .. Len(rec) :
                    rec[l] = Solve(new, at[l]) /\ Solve(new, at[l]) # Filler
               /\ \A l, m \in 1 .. Len(rec) : l # m => at[l] # at[m]
      BY <2>2, <3>0, RecoveredFacts
    <3>1. Missing(new) \subseteq DataIdx /\ \A i \in Missing(new) : new.data[i] = Absent
      BY DEF Missing
    <3>2. at \in [1 .. Len(rec) -> DataIdx]
      BY <3>1
    <3>3. \A l \in 1 .. Len(rec) : at[l] \in Missing(new)
      OBVIOUS
    <3>4. \A l \in 1 .. Len(rec) : Known(n, at[l]) /\ rec[l] = At(n, at[l])
      BY <1>3, <2>2, <3>3
    <3>5. \A l \in 1 .. Len(rec) : /\ Known(n, at[l]) /\ rec[l] = At(n, at[l]) /\ rec[l] # Filler
                                   /\ new.data[at[l]] = Absent /\ CanDecode(new)
      BY <2>2, <3>1, <3>3, <3>4
    <3>6. \A l, m \in 1 .. Len(rec) : l # m => at[l] # at[m]
      OBVIOUS
    <3> QED
      BY <3>2, <3>5, <3>6
  <2> QED
    BY <2>1, <2>2
<1> PICK at \in [1 .. Len(rec) -> DataIdx] :
         /\ \A l \in 1 .. Len(rec) : /\ Known(n, at[l]) /\ rec[l] = At(n, at[l]) /\ rec[l] # Filler
                                     /\ new.data[at[l]] = Absent /\ CanDecode(new)
         /\ \A l, m \in 1 .. Len(rec) : l # m => at[l] # at[m]
  BY <1>7
\* Packets of the stream differ.
<1>8. ASSUME NEW k \in 1 .. n, NEW i \in DataIdx, NEW j \in DataIdx, Known(k, i), Known(n, j),
              At(k, i) = At(n, j), At(n, j) # Filler
       PROVE  k = n /\ i = j
  <2>1. k \in 1 .. Current
    BY <1>2
  <2> QED
    BY <1>2, <1>8, <2>1 DEF PacketsDiffer
<1>9. ASSUME NEW i \in DataIdx, NEW j \in DataIdx, i # j, Known(n, i), Known(n, j),
              At(n, j) # Filler
       PROVE  At(n, i) # At(n, j)
  <2>1. n \in 1 .. n
    BY <1>2
  <2> QED
    BY <1>8, <1>9, <2>1
<1>10. ASSUME NEW l \in 1 .. Len(out), NEW j \in DataIdx, Known(n, j), out[l] = At(n, j)
       PROVE  old.data[j] # Absent
  <2> PICK k \in 1 .. n, i \in DataIdx :
             Known(k, i) /\ out[l] = At(k, i) /\ (k = n => old.data[i] # Absent)
    BY <1>1, <1>10
  <2>1. out[l] # Filler
    BY <1>1, <1>10
  <2>2. Known(k, i) /\ Known(n, j) /\ At(k, i) = At(n, j) /\ At(n, j) # Filler
    BY <1>10, <2>1
  <2>3. k = n /\ i = j
    BY <1>8, <2>2
  <2> QED
    BY <2>3
<1>11. ASSUME NEW l \in 1 .. Len(out), NEW k \in 1 .. Len(Passed(f)) PROVE out[l] # Passed(f)[k]
  BY <1>5, <1>6, <1>10, <1>11
<1>12. ASSUME NEW l \in 1 .. Len(out), NEW k \in 1 .. Len(rec) PROVE out[l] # rec[k]
  <2>1. at[k] \in DataIdx /\ Known(n, at[k]) /\ rec[k] = At(n, at[k]) /\ new.data[at[k]] = Absent
    OBVIOUS
  <2>2. old.data[at[k]] = Absent
    BY <1>5, <2>1
  <2> QED
    BY <1>10, <2>1, <2>2
<1>13. ASSUME NEW l \in 1 .. Len(Passed(f)), NEW k \in 1 .. Len(rec) PROVE Passed(f)[l] # rec[k]
  <2>1. /\ at[k] \in DataIdx /\ Known(n, at[k]) /\ rec[k] = At(n, at[k])
        /\ new.data[at[k]] = Absent /\ rec[k] # Filler
    OBVIOUS
  <2>2. at[k] # f.idx
    BY <1>5, <2>1
  <2>3. f.idx \in DataIdx /\ Known(n, f.idx) /\ Passed(f)[l] = At(n, f.idx)
    BY <1>6
  <2>4. At(n, f.idx) # At(n, at[k])
    BY <1>9, <2>1, <2>2, <2>3
  <2> QED
    BY <2>1, <2>3, <2>4
<1>14. \A i, j \in 1 .. Len(rec) : i # j => rec[i] # rec[j]
  <2> SUFFICES ASSUME NEW i \in 1 .. Len(rec), NEW j \in 1 .. Len(rec), i # j PROVE rec[i] # rec[j]
    OBVIOUS
  <2>1. /\ at[i] \in DataIdx /\ at[j] \in DataIdx /\ at[i] # at[j] /\ rec[j] # Filler
        /\ Known(n, at[i]) /\ Known(n, at[j]) /\ rec[i] = At(n, at[i]) /\ rec[j] = At(n, at[j])
    OBVIOUS
  <2>2. At(n, at[i]) # At(n, at[j])
    BY <1>9, <2>1
  <2> QED
    BY <2>1, <2>2
<1>15. \A i, j \in 1 .. Len(out \o Passed(f)) :
          i # j => (out \o Passed(f))[i] # (out \o Passed(f))[j]
  <2>1. \A i, j \in 1 .. Len(Passed(f)) : i # j => Passed(f)[i] # Passed(f)[j]
    BY <1>6
  <2>2. \A i, j \in 1 .. Len(out) : i # j => out[i] # out[j]
    BY DEF OutOnce
  <2>3. \A i \in 1 .. Len(out), j \in 1 .. Len(Passed(f)) : out[i] # Passed(f)[j]
    BY <1>11
  <2>4. out \in Seq(G) /\ Passed(f) \in Seq(G)
    BY <1>4
  <2> QED
    BY ONLY <2>1, <2>2, <2>3, <2>4, ConcatOnce
<1> PICK pre : pre = out \o Passed(f)
  OBVIOUS
<1>16. ASSUME NEW l \in 1 .. Len(pre)
       PROVE  \/ \E k \in 1 .. Len(out) : pre[l] = out[k]
              \/ \E k \in 1 .. Len(Passed(f)) : pre[l] = Passed(f)[k]
  <2>1. Len(out) \in Nat /\ Len(Passed(f)) \in Nat /\ Len(pre) = Len(out) + Len(Passed(f))
    BY <1>4, ConcatFacts
  <2>2. \/ l \in 1 .. Len(out)
        \/ l \in Len(out) + 1 .. Len(out) + Len(Passed(f)) /\ l - Len(out) \in 1 .. Len(Passed(f))
    BY <2>1
  <2> QED
    BY <1>4, <2>2, ConcatFacts
<1>17. ASSUME NEW l \in 1 .. Len(all)
       PROVE  \/ \E k \in 1 .. Len(pre) : all[l] = pre[k]
              \/ \E k \in 1 .. Len(rec) : all[l] = rec[k]
  <2>1. Len(pre) \in Nat /\ Len(rec) \in Nat /\ Len(all) = Len(pre) + Len(rec)
    BY <1>4, ConcatFacts
  <2>2. \/ l \in 1 .. Len(pre)
        \/ l \in Len(pre) + 1 .. Len(pre) + Len(rec) /\ l - Len(pre) \in 1 .. Len(rec)
    BY <2>1
  <2>3. pre \in Seq(G) /\ rec \in Seq(G) /\ all = pre \o rec
    BY <1>4
  <2>4. l \in 1 .. Len(pre) => all[l] = pre[l]
    BY <2>3, ConcatFacts
  <2>5. l \in Len(pre) + 1 .. Len(pre) + Len(rec) => all[l] = rec[l - Len(pre)]
    BY <2>3, ConcatFacts
  <2> QED
    BY <2>2, <2>4, <2>5
<1>18. \A i, j \in 1 .. Len(all) : i # j => all[i] # all[j]
  <2>1. \A l \in 1 .. Len(pre), k \in 1 .. Len(rec) : pre[l] # rec[k]
    <3> SUFFICES ASSUME NEW l \in 1 .. Len(pre), NEW k \in 1 .. Len(rec) PROVE pre[l] # rec[k]
      OBVIOUS
    <3>1. CASE \E j \in 1 .. Len(out) : pre[l] = out[j]
      BY <1>12, <3>1
    <3>2. CASE \E j \in 1 .. Len(Passed(f)) : pre[l] = Passed(f)[j]
      BY <1>13, <3>2
    <3> QED
      BY <1>16, <3>1, <3>2
  <2>2. pre \in Seq(G) /\ rec \in Seq(G) /\ all = pre \o rec
    BY <1>4
  <2>3. \A i, j \in 1 .. Len(pre) : i # j => pre[i] # pre[j]
    BY <1>15
  <2>4. \A i, j \in 1 .. Len(pre \o rec) : i # j => (pre \o rec)[i] # (pre \o rec)[j]
    BY ONLY <1>14, <2>1, <2>2, <2>3, ConcatOnce
  <2> QED
    BY <2>2, <2>4
<1>19. ASSUME NEW l \in 1 .. Len(all)
       PROVE  all[l] # Filler /\ \E k \in 1 .. n, i \in DataIdx :
                 /\ Known(k, i) /\ all[l] = At(k, i)
                 /\ k = n /\ ~CanDecode(new) => new.data[i] # Absent
  <2>1. ASSUME NEW k \in 1 .. Len(out), all[l] = out[k]
        PROVE  all[l] # Filler /\ \E m \in 1 .. n, i \in DataIdx :
                 /\ Known(m, i) /\ all[l] = At(m, i)
                 /\ m = n /\ ~CanDecode(new) => new.data[i] # Absent
    <3>1. out[k] # Filler /\ \E m \in 1 .. n, i \in DataIdx :
             Known(m, i) /\ out[k] = At(m, i) /\ (m = n => old.data[i] # Absent)
      BY <1>1, <2>1
    <3> PICK m \in 1 .. n, i \in DataIdx :
               Known(m, i) /\ out[k] = At(m, i) /\ (m = n => old.data[i] # Absent)
      BY <3>1
    <3>2. m = n => new.data[i] # Absent
      BY <1>5
    <3> QED
      BY <2>1, <3>1, <3>2
  <2>2. ASSUME NEW k \in 1 .. Len(Passed(f)), all[l] = Passed(f)[k]
        PROVE  all[l] # Filler /\ \E m \in 1 .. n, i \in DataIdx :
                 /\ Known(m, i) /\ all[l] = At(m, i)
                 /\ m = n /\ ~CanDecode(new) => new.data[i] # Absent
    BY <1>2, <1>5, <1>6, <2>2
  <2>3. ASSUME NEW k \in 1 .. Len(rec), all[l] = rec[k]
        PROVE  all[l] # Filler /\ \E m \in 1 .. n, i \in DataIdx :
                 /\ Known(m, i) /\ all[l] = At(m, i)
                 /\ m = n /\ ~CanDecode(new) => new.data[i] # Absent
    <3>1. at[k] \in DataIdx
      OBVIOUS
    <3> QED
      BY <1>2, <2>3, <3>1
  <2>4. ASSUME NEW j \in 1 .. Len(pre), all[l] = pre[j]
        PROVE  all[l] # Filler /\ \E m \in 1 .. n, i \in DataIdx :
                 /\ Known(m, i) /\ all[l] = At(m, i)
                 /\ m = n /\ ~CanDecode(new) => new.data[i] # Absent
    <3>1. CASE \E k \in 1 .. Len(out) : pre[j] = out[k]
      BY <2>1, <2>4, <3>1
    <3>2. CASE \E k \in 1 .. Len(Passed(f)) : pre[j] = Passed(f)[k]
      BY <2>2, <2>4, <3>2
    <3> QED
      BY <1>16, <3>1, <3>2
  <2>5. CASE \E k \in 1 .. Len(pre) : all[l] = pre[k]
    BY <2>4, <2>5
  <2>6. CASE \E k \in 1 .. Len(rec) : all[l] = rec[k]
    BY <2>3, <2>6
  <2> QED
    BY <1>17, <2>5, <2>6
<1>20. Delivered(n, new, all)
  BY <1>19 DEF Delivered
<1> QED
  BY <1>3, <1>18, <1>20 DEF Once

(* The decoder takes a frame for one of its current block only if it is,   *)
(* and for the first of a new block only if nothing of that block has been *)
(* delivered: this is where the bound on bursts is needed.                 *)
LEMMA SameBlock ==
    ASSUME TypeOK, Inv, NEW n \in 1 .. Current, DecoderAt(n),
           NEW f \in Frame, Genuine(f), Pos(f.nr, f.idx) = HeadPos
    PROVE  /\ n <= f.nr
           /\ ~StartsBlock(f) /\ ~forwarded => f.nr = n /\ last_idx < f.idx
           /\ StartsBlock(f) => n < f.nr \/ (out = << >> /\ f.idx = 0)
<1>1. /\ n \in Nat \ {0} /\ f.nr \in Nat \ {0} /\ f.idx \in 0 .. K + H - 1
      /\ last_idx \in 0 .. K + H - 1 /\ f.block = BlockOf(f.nr) /\ last_block = BlockOf(n)
  <2>1. Current \in Nat
    BY DEF TypeOK, Current
  <2> QED
    BY <2>1 DEF TypeOK, Genuine, DecoderAt, Frame
<1>2. /\ burst \in Nat /\ burst < MaxBlock * W /\ MaxBlock * W \in Nat /\ W \in Nat
  <2>1. MaxBurst \in Nat /\ MaxBurst < MaxBlock * W /\ MaxBlock \in Nat /\ W \in Nat
    BY ConstantFacts
  <2>2. burst \in 0 .. MaxBurst
    BY DEF TypeOK
  <2>3. MaxBlock * W \in Nat
    BY <2>1
  <2> QED
    BY <2>1, <2>2, <2>3
<1> PICK M : M = MaxBlock * W
  OBVIOUS
<1> PICK p \in Nat : p = Pos(n, last_idx)
  BY <1>1, PosOrder
<1> PICK q \in Nat : q = Pos(f.nr, f.idx)
  BY <1>1, PosOrder
<1>3. LastTaken = q - burst - 1
  BY DEF LastTaken
<1>4. /\ p <= q
      /\ p < q \/ (out = << >> /\ last_idx = 0)
  <2>1. CASE p <= LastTaken
    BY <1>2, <1>3, <2>1
  <2>2. CASE n = 1 /\ last_idx = 0 /\ out = << >> /\ LastTaken = W - 1
    <3>1. p = W
      BY <1>2, <2>2 DEF Pos
    <3> QED
      BY <1>2, <1>3, <2>2, <3>1
  <2> QED
    BY <2>1, <2>2 DEF DecoderAt
<1>5. n <= f.nr /\ (n = f.nr => last_idx <= f.idx)
  BY <1>1, <1>4, PosOrder
<1>6. ASSUME ~StartsBlock(f), ~forwarded PROVE f.nr = n /\ last_idx < f.idx
  <2>1. f.block = last_block /\ last_idx < f.idx
    <3>1. f.idx \in Nat /\ last_idx \in Nat
      BY <1>1, ConstantFacts
    <3> QED
      BY <1>6, <3>1 DEF StartsBlock
  <2>2. LastTaken <= p
    BY <1>6 DEF DecoderAt
  <2> SUFFICES ASSUME n < f.nr PROVE FALSE
    BY <1>1, <1>5, <2>1
  <2>3. n + MaxBlock <= f.nr
    BY <1>1, <2>1, BlockFacts
  <2>4. p + M + f.idx - last_idx <= q
    BY <1>1, <2>3, PosOrder
  <2>5. f.idx \in Nat /\ last_idx \in Nat
    BY <1>1, ConstantFacts
  <2> QED
    BY <1>2, <1>3, <2>1, <2>2, <2>4, <2>5
<1>7. ASSUME StartsBlock(f) PROVE n < f.nr \/ (out = << >> /\ f.idx = 0)
  <2> SUFFICES ASSUME ~(n < f.nr) PROVE out = << >> /\ f.idx = 0
    OBVIOUS
  <2>1. n = f.nr
    BY <1>1, <1>5
  <2>2. f.idx <= last_idx
    BY <1>1, <1>7, <2>1 DEF StartsBlock
  <2>3. f.idx = last_idx
    BY <1>1, <1>5, <2>1, <2>2, ConstantFacts
  <2>4. p = q
    BY <2>1, <2>3
  <2> QED
    BY <1>4, <2>3, <2>4
<1> QED
  BY <1>5, <1>6, <1>7

(* Where a received frame goes: to the buffer of its own block, which      *)
(* holds only what came before it.                                         *)
LEMMA ReceiveFacts ==
    ASSUME TypeOK, Inv, Receive, NEW n \in 1 .. Current, DecoderAt(n), NEW f, f = Head(link),
           NEW old, old = IF StartsBlock(f) THEN EmptyBuffer ELSE dec[f.block]
    PROVE  /\ n <= f.nr /\ old \in Buffer /\ Held(f.nr, f.idx, old)
           /\ StartsBlock(f) => old = EmptyBuffer /\ (n < f.nr \/ (out = << >> /\ f.idx = 0))
           /\ ~StartsBlock(f) => f.nr = n /\ old = dec[last_block] /\ ~forwarded
<1>1. /\ link # << >> /\ link' = Tail(link) /\ UNCHANGED encoder /\ (StartsBlock(f) \/ ~forwarded)
  BY DEF Receive, TakeFrame
<1> PICK m : m = f.nr
  OBVIOUS
<1>3. f \in Frame /\ Genuine(f) /\ Pos(m, f.idx) = HeadPos
  BY <1>1, TakenFacts
<1>4. /\ n <= m
      /\ ~StartsBlock(f) /\ ~forwarded => m = n /\ last_idx < f.idx
      /\ StartsBlock(f) => n < m \/ (out = << >> /\ f.idx = 0)
  BY <1>3, SameBlock
<1>7. /\ f.block = BlockOf(m) /\ f.block \in Blocks
      /\ dec \in [Blocks -> Buffer] /\ f.idx \in 0 .. K + H - 1
      /\ last_idx \in 0 .. K + H - 1
  BY <1>3 DEF TypeOK, Genuine, Frame
<1>8. /\ EmptyBuffer \in Buffer
      /\ \A i \in DataIdx : EmptyBuffer.data[i] = Absent
      /\ \A i \in ParityIdx : EmptyBuffer.parity[i] = NoWord
  BY ConstantFacts DEF EmptyBuffer, Buffer, EmptyData, Absent
<1>9. old \in Buffer
  BY <1>7, <1>8
<1>10. ASSUME ~StartsBlock(f)
       PROVE  /\ m = n /\ last_idx < f.idx /\ old = dec[last_block] /\ ~forwarded
              /\ BufferOf(m, old)
  <2>1. m = n /\ last_idx < f.idx /\ ~forwarded
    BY <1>1, <1>4, <1>10
  <2>2. f.block = last_block
    BY <1>7, <2>1 DEF DecoderAt
  <2> QED
    BY <1>10, <2>1, <2>2 DEF DecoderAt
<1>11. Held(f.nr, f.idx, old)
  <2>1. CASE StartsBlock(f)
    <3>1. old = EmptyBuffer
      BY <2>1
    <3> QED
      BY <1>8, <3>1 DEF Held
  <2>2. CASE ~StartsBlock(f)
    <3>1. \A i \in 0 .. K + H - 1 : i <= last_idx => i < f.idx
      BY <1>7, <1>10, <2>2, ConstantFacts
    <3>2. DataIdx \subseteq 0 .. K + H - 1 /\ ParityIdx \subseteq 0 .. K + H - 1
      BY ConstantFacts DEF DataIdx, ParityIdx
    <3> QED
      BY <1>10, <2>2, <3>1, <3>2 DEF BufferOf, Held
  <2> QED
    BY <2>1, <2>2
<1> QED
  BY <1>4, <1>9, <1>10, <1>11

(* A received frame. *)
LEMMA ReceiveInv ==
    ASSUME TypeOK, Inv, Receive
    PROVE  Inv' /\ \E m : m = Head(link).nr /\ DecoderAt(m)'
<1>1. /\ link # << >> /\ link' = Tail(link) /\ UNCHANGED encoder /\ burst' = 0
  BY DEF Receive, TakeFrame
<1>2. OpenBlock' /\ TypeOK'
  BY TypeStep DEF Inv, Next
<1> PICK f : f = Head(link)
  OBVIOUS
<1> PICK m : m = f.nr
  OBVIOUS
<1>3. /\ HeadPos \in Int /\ HeadPos' = HeadPos + 1 /\ Current' = Current /\ words' = words
      /\ InStream' /\ PacketsDiffer' /\ m \in Nat \ {0}
      /\ f \in Frame /\ Genuine(f) /\ Pos(m, f.idx) = HeadPos
      /\ \A k, i : (Known(k, i)' <=> Known(k, i)) /\ At(k, i)' = At(k, i)
  BY <1>1, TakenFacts
<1> PICK n \in 1 .. Current : DecoderAt(n)
  BY DEF Inv
<1>4. /\ n <= m
      /\ ~StartsBlock(f) /\ ~forwarded => m = n /\ last_idx < f.idx
      /\ StartsBlock(f) => n < m \/ (out = << >> /\ f.idx = 0)
  BY <1>3, SameBlock
<1>5. LastTaken' = HeadPos
  BY <1>1, <1>3 DEF LastTaken
<1> PICK old : old = IF StartsBlock(f) THEN EmptyBuffer ELSE dec[f.block]
  OBVIOUS
<1> PICK new : new = Insert(old, f)
  OBVIOUS
<1> PICK rec : rec = IF CanDecode(new) /\ ~(~Inserts(old, f) /\ (StartsBlock(f) \/ nothing_to_decode))
                     THEN Recovered(new) ELSE << >>
  OBVIOUS
<1> PICK all : all = (out \o Passed(f)) \o rec
  OBVIOUS
<1>6. /\ StartsBlock(f) \/ ~forwarded
      /\ last_block' = f.block /\ last_idx' = f.idx /\ forwarded' = CanDecode(new)
      /\ dec' = [dec EXCEPT ![f.block] = IF CanDecode(new) THEN EmptyBuffer ELSE new]
      /\ out' = all
  BY DEF Receive
<1>7. /\ f.block = BlockOf(m) /\ f.block \in Blocks /\ m \in 1 .. Current
      /\ dec \in [Blocks -> Buffer] /\ n \in Nat \ {0} /\ f.idx \in 0 .. K + H - 1
      /\ last_idx \in 0 .. K + H - 1
  <2>1. Current \in Nat
    BY DEF TypeOK, Current
  <2>2. dec \in [Blocks -> Buffer] /\ last_idx \in 0 .. K + H - 1
    BY DEF TypeOK
  <2> QED
    BY <1>3, <2>1, <2>2 DEF Genuine, Frame
<1>8. /\ old \in Buffer /\ Held(f.nr, f.idx, old)
      /\ ~StartsBlock(f) => m = n /\ old = dec[last_block] /\ ~forwarded
  BY ReceiveFacts
<1>12. Traced(f.nr, old)
  <2> SUFFICES ASSUME NEW l \in 1 .. Len(out)
               PROVE  out[l] # Filler /\ \E k \in 1 .. f.nr, i \in DataIdx :
                        Known(k, i) /\ out[l] = At(k, i) /\ (k = f.nr => old.data[i] # Absent)
    BY DEF Traced
  <2> PICK k \in 1 .. n, i \in DataIdx :
             /\ Known(k, i) /\ out[l] = At(k, i)
             /\ k = n /\ ~forwarded => dec[last_block].data[i] # Absent
    BY DEF DecoderAt
  <2>1. k \in 1 .. f.nr /\ out[l] # Filler
    BY <1>3, <1>4, <1>7 DEF DecoderAt
  <2>2. CASE StartsBlock(f)
    <3>1. out # << >>
      OBVIOUS
    <3>2. k # f.nr
      BY <1>3, <1>4, <1>7, <2>2, <3>1
    <3> QED
      BY <2>1, <3>2
  <2>3. CASE ~StartsBlock(f)
    BY <1>8, <2>1, <2>3
  <2> QED
    BY <2>2, <2>3
<1>13. rec = << >> \/ (CanDecode(new) /\ rec = Recovered(new))
  OBVIOUS
<1>14. OpenBlock /\ PacketsDiffer /\ OutOnce
  BY DEF Inv
<1>15. Delivered(f.nr, new, all) /\ Once(all) /\ Held(f.nr, f.idx + 1, new)
  <2>1. new = Insert(old, f) /\ all = (out \o Passed(f)) \o rec
    OBVIOUS
  <2>2. f \in Frame /\ Genuine(f)
    BY <1>3
  <2> QED
    BY ONLY TypeOK, <1>8, <1>12, <1>13, <1>14, <2>1, <2>2, DeliveryFacts
<1>16. OutOnce'
  <2>1. \A i, j \in 1 .. Len(all) : i # j => all[i] # all[j]
    BY <1>15 DEF Once
  <2>2. out' = all
    BY <1>6
  <2> QED
    BY ONLY <2>1, <2>2 DEF OutOnce
<1>17. DecoderAt(m)'
  <2>1. Pos(m, f.idx) \in Nat
    BY <1>3, <1>7, PosOrder
  <2>2. Pos(m, last_idx)' = Pos(m, f.idx) /\ BlockOf(m)' = BlockOf(m)
    BY <1>6 DEF Pos, W, BlockOf
  <2>3. last_block' = BlockOf(m)' /\ Pos(m, last_idx)' = LastTaken'
    BY <1>3, <1>5, <1>6, <1>7, <2>2
  <2>4. dec'[last_block'] = IF CanDecode(new) THEN EmptyBuffer ELSE new
    BY <1>6, <1>7
  <2>5. ASSUME ~CanDecode(new) PROVE BufferOf(m, dec[last_block])'
    <3>1. dec'[last_block'] = new
      BY <2>4, <2>5
    <3>2. /\ \A i \in DataIdx : \/ new.data[i] = Absent
                                \/ i <= f.idx /\ Known(m, i)' /\ new.data[i] = At(m, i)'
          /\ \A i \in ParityIdx : \/ new.parity[i] = NoWord
                                  \/ i <= f.idx /\ m <= Len(words') /\ new.parity[i] = words'[m]
      <4>1. Held(m, f.idx + 1, new)
        BY <1>15
      <4>2. f.idx \in Nat /\ DataIdx \subseteq Nat /\ ParityIdx \subseteq Nat
        BY <1>7, ConstantFacts DEF DataIdx, ParityIdx
      <4>3. \A i \in Nat : i < f.idx + 1 => i <= f.idx
        BY <4>2
      <4> QED
        BY <1>3, <4>1, <4>2, <4>3 DEF Held
    <3> QED
      BY <1>6, <3>1, <3>2 DEF BufferOf
  <2>6. ASSUME NEW l \in 1 .. Len(out')
        PROVE  out'[l] # Filler /\ \E k \in 1 .. m, i \in DataIdx :
                 /\ Known(k, i)' /\ out'[l] = At(k, i)'
                 /\ k = m /\ ~forwarded' => dec'[last_block'].data[i] # Absent
    <3>1. l \in 1 .. Len(all) /\ out'[l] = all[l] /\ (~forwarded' => dec'[last_block'] = new)
      BY <1>6, <2>4, <2>6
    <3>2. all[l] # Filler /\ \E k \in 1 .. m, i \in DataIdx :
               /\ Known(k, i) /\ all[l] = At(k, i)
               /\ k = m /\ ~CanDecode(new) => new.data[i] # Absent
      <4>1. \A x \in 1 .. Len(all) : all[x] # Filler /\ \E k \in 1 .. m, i \in DataIdx :
               /\ Known(k, i) /\ all[x] = At(k, i)
               /\ k = m /\ ~CanDecode(new) => new.data[i] # Absent
        <5>1. m = f.nr
          OBVIOUS
        <5> QED
          BY ONLY <1>15, <5>1 DEF Delivered
      <4> QED
        BY <3>1, <4>1
    <3> PICK k \in 1 .. m, i \in DataIdx :
               /\ Known(k, i) /\ all[l] = At(k, i)
               /\ k = m /\ ~CanDecode(new) => new.data[i] # Absent
      BY <3>2
    <3>3. Known(k, i)' /\ At(k, i)' = At(k, i)
      BY <1>3
    <3>4. k = m /\ ~forwarded' => dec'[last_block'].data[i] # Absent
      BY <1>6, <3>1
    <3>5. out'[l] # Filler /\ out'[l] = At(k, i)'
      BY <3>1, <3>2, <3>3
    <3> QED
      BY <3>3, <3>4, <3>5
  <2>7. LastTaken' <= Pos(m, last_idx)' /\ Pos(m, last_idx)' <= LastTaken'
    BY <1>3, <1>5, <2>1, <2>3
  <2> QED
    BY <1>6, <2>3, <2>5, <2>6, <2>7 DEF DecoderAt
<1> QED
  BY <1>2, <1>3, <1>7, <1>16, <1>17 DEF Inv

-----------------------------------------------------------------------------
(* The channel. *)

(* Initially. *)
LEMMA InvInit == Init => Inv
<1> SUFFICES ASSUME Init PROVE Inv
  OBVIOUS
<1>1. TypeOK /\ OpenBlock
  BY TypeInit
<1>2. /\ words = << >> /\ link = << >> /\ out = << >> /\ frame_idx = 0 /\ burst = 0
      /\ last_block = 0 /\ last_idx = 0 /\ ~forwarded /\ dec = [b \in Blocks |-> EmptyBuffer]
      /\ Len(words) = 0 /\ Len(link) = 0 /\ Len(out) = 0 /\ Current = 1
  BY DEF Init, Current
<1>3. \A i \in DataIdx : ~Known(1, i)
  BY <1>2, ConstantFacts DEF Known, DataIdx
<1>4. PacketsDiffer
  <2>1. 1 .. Len(words) = {} /\ 1 .. Current = {1}
    BY <1>2
  <2> QED
    BY <1>3, <2>1 DEF PacketsDiffer
<1>5. InStream /\ OutOnce
  BY <1>2 DEF InStream, OutOnce
<1>6. DecoderAt(1)
  <2>1. W \in Nat \ {0} /\ Pos(1, 0) = W
    BY ConstantFacts DEF Pos
  <2>2. LastTaken = W - 1
    BY <1>2, <2>1 DEF LastTaken, HeadPos
  <2>3. last_block = BlockOf(1)
    BY <1>1, <1>2 DEF OpenBlock, Init
  <2>4. dec[last_block] = EmptyBuffer
    BY <1>2, ConstantFacts
  <2>5. BufferOf(1, EmptyBuffer)
    BY DEF BufferOf, EmptyBuffer, EmptyData
  <2> QED
    BY <1>2, <2>1, <2>2, <2>3, <2>4, <2>5 DEF DecoderAt
<1> QED
  BY <1>1, <1>2, <1>4, <1>5, <1>6 DEF Inv

(* Every step. *)
LEMMA InvStep ==
    ASSUME TypeOK, Inv, [Next]_vars
    PROVE  Inv'
<1>1. CASE UNCHANGED vars
  <2>1. /\ UNCHANGED <<block_id, frame_idx, enc, lastBlockId, timeout, sent, words, age, link, burst>>
        /\ UNCHANGED decoder
    BY <1>1 DEF vars, encoder
  <2>2. OpenBlock' /\ PacketsDiffer' /\ InStream'
    BY <2>1 DEF Inv, OpenBlock, PacketsDiffer, InStream, Genuine, Known, At, Current, HeadPos, Pos,
         W, BlockOf
  <2>3. OutOnce'
    BY <2>1 DEF Inv, OutOnce, decoder
  <2>4. ASSUME NEW n \in 1 .. Current, DecoderAt(n) PROVE DecoderAt(n)' /\ n \in 1 .. Current'
    BY <2>1, <2>4 DEF DecoderAt, BufferOf, Known, At, Current, LastTaken, HeadPos, Pos, W, BlockOf,
         decoder
  <2> QED
    BY <2>2, <2>3, <2>4 DEF Inv
<1> QED
  BY <1>1, SendInv, TickInv, ExpireInv, LoseInv, SkipInv, ReceiveInv DEF Next

(* Only packets that were sent are delivered. *)
OutSent == \A l \in 1 .. Len(out) : out[l] \in 1 .. sent

(* The invariant says so. *)
LEMMA InvSent ==
    ASSUME TypeOK, Inv
    PROVE  OutSent
<1> SUFFICES ASSUME NEW l \in 1 .. Len(out) PROVE out[l] \in 1 .. sent
  BY DEF OutSent
<1> PICK n \in 1 .. Current : DecoderAt(n)
  BY DEF Inv
<1> PICK m \in 1 .. n, i \in DataIdx : Known(m, i) /\ out[l] = At(m, i)
  BY DEF DecoderAt
<1>1. m \in 1 .. Current
  BY DEF TypeOK, Current
<1>2. At(m, i) \in 0 .. sent /\ sent \in Nat
  <2>1. OpenBlock /\ PacketsDiffer
    BY DEF Inv
  <2>2. sent \in Nat
    BY ConstantFacts DEF TypeOK
  <2> QED
    BY <1>1, <2>1, <2>2, KnownSent
<1>3. out[l] # Filler
  BY DEF DecoderAt
<1> QED
  BY <1>2, <1>3 DEF Filler

(* The boosters implement the channel, for every size of a block, every    *)
(* timeout and every pattern of losses with bursts up to LongestBurst: the *)
(* decoder delivers only packets that were sent, and none of them twice.   *)
THEOREM BoostersImplementChannel == Spec => ImplementsChannel
<1>1. Init => Channel!Init
  BY DEF Init, Channel!Init
<1>2. ASSUME TypeOK, OutOnce', OutSent', [Next]_vars PROVE [Channel!Next]_<<sent, out>>
  <2>1. CASE SendData
    BY <2>1 DEF SendData, decoder, Channel!Next, Channel!Send
  <2>2. CASE UNCHANGED <<sent, out>>
    BY <2>2
  <2>3. CASE Receive
    <3> PICK f : f = Head(link)
      OBVIOUS
    <3> PICK G : G = Garbage .. MaxData
      OBVIOUS
    <3>1. PICK old, new, rec :
              out' = (out \o Passed(f)) \o rec /\ (rec = << >> \/ (new \in Buffer /\ CanDecode(new) /\ rec = Recovered(new)))
      <4> PICK old : old = IF StartsBlock(f) THEN EmptyBuffer ELSE dec[f.block]
        OBVIOUS
      <4> PICK new : new = Insert(old, f)
        OBVIOUS
      <4>1. new \in Buffer
        <5>1. f \in Frame /\ dec \in [Blocks -> Buffer]
          <6>1. link \in Seq(Frame) /\ dec \in [Blocks -> Buffer]
            BY <1>2 DEF TypeOK
          <6>2. link # << >>
            BY <2>3 DEF Receive, TakeFrame
          <6> QED
            BY <6>1, <6>2
        <5>2. f.block \in Blocks
          BY <5>1 DEF Frame
        <5>3. EmptyBuffer \in Buffer
          BY ConstantFacts DEF EmptyBuffer, Buffer, EmptyData, Absent
        <5>4. old \in Buffer
          BY <5>1, <5>2, <5>3
        <5> QED
          BY <5>1, <5>4, InsertFacts
      <4>2. \E rec : /\ out' = (out \o Passed(f)) \o rec
                     /\ rec = << >> \/ (CanDecode(new) /\ rec = Recovered(new))
        BY <2>3 DEF Receive
      <4> QED
        BY <4>1, <4>2
    <3>2. out \in Seq(G) /\ Passed(f) \in Seq(G) /\ rec \in Seq(G)
      <4>1. f.data \in G
        <5>1. f \in Frame
          <6>1. link \in Seq(Frame)
            BY <1>2 DEF TypeOK
          <6>2. link # << >>
            BY <2>3 DEF Receive, TakeFrame
          <6> QED
            BY <6>1, <6>2
        <5> QED
          BY <5>1, ConstantFacts DEF Frame, Garbage, Absent
      <4>2. <<f.data>> \in Seq(G) /\ << >> \in Seq(G)
        BY <4>1
      <4>3. Passed(f) \in Seq(G)
        BY <4>2 DEF Passed
      <4>4. rec \in Seq(G)
        BY <3>1, <4>2, RecoveredFacts
      <4>5. out \in Seq(G)
        BY <1>2 DEF TypeOK
      <4> QED
        BY <4>3, <4>4, <4>5
    <3>3. /\ out' \in Seq(G) /\ Len(out) <= Len(out') /\ Len(out) \in Nat /\ Len(out') \in Nat
          /\ \A l \in 1 .. Len(out) : out'[l] = out[l]
      BY <3>1, <3>2
    <3>4. CASE Len(out') = Len(out)
      <4>1. out' = out
        BY <3>2, <3>3, <3>4
      <4> QED
        BY <2>3, <4>1 DEF Receive, TakeFrame, encoder
    <3>5. CASE Len(out) < Len(out')
      <4>1. SubSeq(out', 1, Len(out)) = out
        BY <3>2, <3>3
      <4>2. sent' = sent
        BY <2>3 DEF Receive, TakeFrame, encoder
      <4>3. \A l \in 1 .. Len(out') : out'[l] \in 1 .. sent
        BY <1>2, <4>2 DEF OutSent
      <4>4. \A i, j \in 1 .. Len(out') : i # j => out'[i] # out'[j]
        BY <1>2 DEF OutOnce
      <4> QED
        BY <3>5, <4>1, <4>2, <4>3, <4>4 DEF Channel!Next, Channel!Deliver
    <3> QED
      BY <3>3, <3>4, <3>5
  <2>4. CASE Tick \/ Expire \/ Lose \/ Skip \/ UNCHANGED vars
    BY <2>4 DEF Tick, Expire, Lose, Skip, TakeFrame, vars, encoder, decoder
  <2> QED
    BY <1>2, <2>1, <2>3, <2>4 DEF Next
<1>3. TypeOK /\ OpenBlock /\ [Next]_vars => TypeOK' /\ OpenBlock'
  BY TypeStep
<1>4. TypeOK /\ Inv /\ [Next]_vars => Inv'
  BY InvStep
<1>5. TypeOK /\ Inv => OutOnce /\ OutSent
  BY InvSent DEF Inv
<1> QED
  BY <1>1, <1>2, <1>3, <1>4, <1>5, TypeInit, InvInit, PTL DEF Spec, ImplementsChannel, Channel!Spec

-----------------------------------------------------------------------------
(* Losses. *)

(* Every block has a packet. *)
BlocksFilled == IF frame_idx = 0 THEN Len(words) <= sent ELSE Len(words) + 1 <= sent

(* The slots of block n that a buffer has not filled, although their       *)
(* frames have left the link.                                              *)
Hole(buf, i) == IF i \in DataIdx THEN buf.data[i] = Absent ELSE buf.parity[i] = NoWord
Holes(n, buf) == {i \in 0 .. K + H - 1 : Pos(n, i) < HeadPos /\ Hole(buf, i)}

(* The packet with index i of block n has been delivered. *)
InOut(n, i) == Known(n, i) /\ (At(n, i) # Filler => \E l \in 1 .. Len(out) : out[l] = At(n, i))

(* Of a block that the decoder has done with, more than H frames are lost, *)
(* or everything is delivered.                                             *)
Settled(m) == lost[m] > H \/ \A i \in DataIdx : InOut(m, i)

(* What is in the buffer for block n is delivered, what is not is lost. *)
Accounted(n, buf) ==
    /\ \A i \in DataIdx : buf.data[i] # Absent => InOut(n, i)
    /\ n <= MaxData => Cardinality(Holes(n, buf)) <= lost[n]

(* All frames of block m that have left the link are lost; or at least the *)
(* data frames, and the decoder takes the others for frames of its block n *)
(* because of their block number.                                          *)
Unseen(n, m) ==
    \/ HeadPos <= Pos(m, 0) + lost[m]
    \/ W <= lost[m]
    \/ H < K /\ forwarded /\ BlockOf(m) = BlockOf(n) /\ K <= lost[m] /\ Pos(m, last_idx) < HeadPos

(* The losses account for all that the decoder does not have, when it has  *)
(* received its last frame from block n.                                   *)
Repairs(n) ==
    /\ \A m \in 1 .. MaxData : m < n \/ (m = n /\ forwarded) => Settled(m)
    /\ ~forwarded => ~CanDecode(dec[last_block]) /\ Accounted(n, dec[last_block])
    /\ forwarded => last_idx >= K - 1 /\ (H < K \/ LastTaken <= Pos(n, K + H - 1))
    /\ \A m \in 1 .. MaxData : n < m => Unseen(n, m)

(* Each block has its first packet from the encoder's input. *)
LEMMA FilledInit == Init => BlocksFilled
  BY DEF Init, BlocksFilled

(* Only the encoder's steps touch these variables. *)
LEMMA FilledStep ==
    ASSUME TypeOK, OpenBlock, BlocksFilled, [Next]_vars
    PROVE  BlocksFilled'
<1>1. K \in Nat \ {0} /\ frame_idx \in 0 .. K - 1 /\ sent \in Nat /\ words \in Seq(Word) /\ Len(words) \in Nat
  <2>1. K \in Nat \ {0} /\ MaxData \in Nat
    BY ConstantFacts
  <2>2. frame_idx \in 0 .. K - 1 /\ sent \in 0 .. MaxData /\ words \in Seq(Word)
    BY DEF TypeOK, DataIdx
  <2> QED
    BY <2>1, <2>2
<1>2. CASE SendData
  <2>1. sent' = sent + 1
    BY <1>2 DEF SendData
  <2>2. CASE frame_idx' = frame_idx + 1 /\ words' = words
    BY <1>1, <2>1, <2>2 DEF BlocksFilled
  <2>3. CASE frame_idx = K - 1 /\ frame_idx' = 0 /\ \E w : words' = Append(words, w)
    <3>1. Len(words') = Len(words) + 1
      BY <1>1, <2>3
    <3> QED
      BY <1>1, <2>1, <2>3, <3>1 DEF BlocksFilled
  <2> QED
    BY <1>2, <2>2, <2>3, SendFacts
<1>3. CASE Expire
  <2>1. frame_idx \in 1 .. K - 1 /\ frame_idx' = 0 /\ \E w : words' = Append(words, w)
    BY <1>3, ExpireFacts
  <2>2. sent' = sent /\ Len(words') = Len(words) + 1
    BY <1>1, <1>3, <2>1 DEF Expire
  <2> QED
    BY <1>1, <2>1, <2>2 DEF BlocksFilled
<1>4. CASE UNCHANGED <<frame_idx, words, sent>>
  BY <1>4 DEF BlocksFilled
<1> QED
  BY <1>2, <1>3, <1>4 DEF Next, Tick, Lose, Skip, Receive, TakeFrame, encoder, vars

(* So that there are no more blocks than packets. *)
LEMMA FrameCounted ==
    ASSUME TypeOK, BlocksFilled, NEW f \in Frame, Genuine(f)
    PROVE  f.nr \in 1 .. MaxData
<1>1. K \in Nat \ {0} /\ H \in Nat \ {0} /\ MaxData \in Nat
  BY ConstantFacts
<1>2. frame_idx \in 0 .. K - 1 /\ sent \in 0 .. MaxData /\ Len(words) \in Nat /\ Current = Len(words) + 1
  BY DEF TypeOK, DataIdx, Current
<1>3. f.nr \in 1 .. Current /\ f.idx \in 0 .. K + H - 1
  BY DEF Genuine, Frame
<1>4. CASE f.nr <= Len(words)
  BY <1>1, <1>2, <1>3, <1>4 DEF BlocksFilled
<1>5. CASE ~(f.nr <= Len(words))
  <2>1. f.idx \notin ParityIdx
    BY <1>5 DEF Genuine
  <2>2. f.idx \in DataIdx
    BY <1>1, <1>3, <2>1 DEF DataIdx, ParityIdx
  <2>3. f.idx < frame_idx
    BY <1>5, <2>2 DEF Genuine, Known
  <2> QED
    BY <1>1, <1>2, <1>3, <2>3 DEF BlocksFilled
<1> QED
  BY <1>4, <1>5

(* The sets of holes are finite. *)
LEMMA HolesFinite ==
    ASSUME NEW n, NEW buf
    PROVE  IsFiniteSet(Holes(n, buf)) /\ Cardinality(Holes(n, buf)) \in Nat
<1>1. IsFiniteSet(0 .. K + H - 1)
  <2>1. 0 \in Int /\ K + H - 1 \in Int
    BY ConstantFacts
  <2> QED
    BY <2>1, FS_Interval
<1>2. Holes(n, buf) \in SUBSET (0 .. K + H - 1)
  BY DEF Holes
<1>3. IsFiniteSet(Holes(n, buf))
  BY <1>1, <1>2, FS_Subset
<1> QED
  BY <1>3, FS_CardinalityType

(* A buffer that cannot be decoded when all frames of the block have left  *)
(* the link has more than H holes.                                         *)
LEMMA TooManyHoles ==
    ASSUME NEW n \in Nat, NEW buf, ~CanDecode(buf), HeadPos \in Int, Pos(n, K + H - 1) < HeadPos
    PROVE  Cardinality(Holes(n, buf)) > H
<1>1. K \in Nat \ {0} /\ H \in Nat \ {0} /\ K + H - 1 \in 0 .. K + H - 1
  BY ConstantFacts
<1>2. \A i \in 0 .. K + H - 1 : Pos(n, i) < HeadPos
  <2> SUFFICES ASSUME NEW i \in 0 .. K + H - 1 PROVE Pos(n, i) < HeadPos
    OBVIOUS
  <2>1. Pos(n, i) <= Pos(n, K + H - 1)
    <3>1. n * W \in Nat
      BY ConstantFacts
    <3> QED
      BY <1>1, <3>1 DEF Pos
  <2>2. Pos(n, i) \in Nat /\ Pos(n, K + H - 1) \in Nat
    BY <1>1, PosOrder
  <2> QED
    BY <2>1, <2>2
<1> DEFINE none == ParityIdx \ Parities(buf)
<1>3. Holes(n, buf) = Missing(buf) \cup none
  <2>1. \A i : i \in 0 .. K + H - 1 <=> i \in DataIdx \/ i \in ParityIdx
    BY <1>1 DEF DataIdx, ParityIdx
  <2>2. \A i \in ParityIdx : i \notin DataIdx
    BY <1>1 DEF DataIdx, ParityIdx
  <2> QED
    BY <1>2, <2>1, <2>2 DEF Holes, Hole, Missing, Parities
<1>4. /\ IsFiniteSet(ParityIdx) /\ Cardinality(ParityIdx) = H
  <2>1. K \in Int /\ K + H - 1 \in Int /\ ~(K > K + H - 1) /\ (K + H - 1) - K + 1 = H
    BY <1>1
  <2> QED
    BY <2>1, FS_Interval DEF ParityIdx
<1>5. /\ IsFiniteSet(none)
      /\ Cardinality(none) = H - Cardinality(Parities(buf))
  <2>1. ParityIdx \cap Parities(buf) = Parities(buf)
    BY DEF Parities
  <2> QED
    BY <1>4, <2>1, FS_Difference
<1>6. /\ IsFiniteSet(Missing(buf)) /\ Cardinality(Missing(buf)) \in Nat
      /\ Cardinality(Parities(buf)) \in Nat
  BY IndexSets
<1>7. Missing(buf) \cap none = {}
  BY <1>1 DEF Missing, DataIdx, ParityIdx
<1> HIDE DEF none
<1>8. Cardinality(Missing(buf) \cup none) = Cardinality(Missing(buf)) + Cardinality(none)
  <2>1. Cardinality(Missing(buf) \cup none)
          = Cardinality(Missing(buf)) + Cardinality(none) - Cardinality(Missing(buf) \cap none)
    BY <1>5, <1>6, FS_Union
  <2>2. Cardinality(none) \in Nat
    BY <1>5, FS_CardinalityType
  <2> QED
    BY <1>6, <1>7, <2>1, <2>2, FS_EmptySet
<1> QED
  BY <1>1, <1>3, <1>5, <1>6, <1>8 DEF CanDecode

(* What has been delivered stays delivered. *)
LEMMA InOutStays ==
    ASSUME NEW n, NEW i, InOut(n, i), Known(n, i)', At(n, i)' = At(n, i),
           \A l \in 1 .. Len(out) : l \in 1 .. Len(out') /\ out'[l] = out[l]
    PROVE  InOut(n, i)'
  BY DEF InOut

(* The encoder extends the stream: the decoder does not notice. *)
LEMMA EncoderRepairs ==
    ASSUME TypeOK, StreamGrows, UNCHANGED <<decoder, burst, lost>>,
           NEW n \in 1 .. Current, Repairs(n)
    PROVE  Repairs(n)'
<1>1. /\ last_block' = last_block /\ last_idx' = last_idx /\ forwarded' = forwarded
      /\ out' = out /\ dec' = dec /\ lost' = lost /\ HeadPos' = HeadPos /\ LastTaken' = LastTaken
  BY DEF decoder, StreamGrows, LastTaken
<1>2. Current \in Nat /\ n \in Nat /\ MaxData \in Nat
  BY ConstantFacts DEF TypeOK, Current
<1>3. ASSUME NEW m \in 1 .. n, NEW i \in DataIdx, InOut(m, i) PROVE InOut(m, i)'
  <2>1. m \in 1 .. Current
    BY <1>2
  <2>2. Known(m, i)' /\ At(m, i)' = At(m, i)
    BY <1>3, <2>1 DEF InOut, StreamGrows, EncoderGrows
  <2> QED
    BY <1>1, <1>3, <2>2, InOutStays
<1>4. ASSUME NEW m \in 1 .. MaxData, m < n \/ (m = n /\ forwarded) PROVE Settled(m)'
  <2>1. m \in 1 .. n /\ Settled(m)
    BY <1>2, <1>4 DEF Repairs
  <2> QED
    BY <1>1, <1>3, <2>1 DEF Settled
<1> PICK buf : buf = dec[last_block]
  OBVIOUS
<1>5. ASSUME Accounted(n, buf) PROVE Accounted(n, buf)'
  <2>1. Holes(n, buf)' = Holes(n, buf)
    BY <1>1 DEF Holes, Pos, W
  <2>2. n \in 1 .. n
    BY <1>2
  <2> QED
    BY <1>1, <1>3, <1>5, <2>1, <2>2 DEF Accounted
<1>6. ~forwarded => ~CanDecode(buf) /\ Accounted(n, buf)'
  BY <1>5 DEF Repairs
<1>7. forwarded => last_idx >= K - 1 /\ (H < K \/ LastTaken' <= Pos(n, K + H - 1))
  BY <1>1 DEF Repairs
<1>8. ASSUME NEW m \in 1 .. MaxData, n < m PROVE Unseen(n, m)'
  <2>1. Unseen(n, m)
    BY <1>8 DEF Repairs
  <2> QED
    BY <1>1, <2>1 DEF Unseen, Pos, W, BlockOf
<1>9. dec'[last_block'] = buf
  BY <1>1
<1>10. ~forwarded' => ~CanDecode(dec[last_block])' /\ Accounted(n, dec[last_block])'
  BY <1>1, <1>6, <1>9 DEF Accounted, CanDecode, Missing, Parities, Holes, Hole
<1> QED
  BY <1>1, <1>4, <1>7, <1>8, <1>10 DEF Repairs, Pos, W

(* Blocks do not overlap. *)
LEMMA PosApart ==
    ASSUME NEW n \in Nat, NEW m \in Nat, n < m, NEW i \in 0 .. K + H - 1
    PROVE  /\ Pos(n, 0) \in Nat /\ Pos(m, 0) \in Nat /\ Pos(n, i) \in Nat /\ Pos(m, i) \in Nat
           /\ Pos(n, 0) + W <= Pos(m, i) /\ Pos(n, i) + 1 <= Pos(m, 0)
<1>1. K \in Nat \ {0} /\ H \in Nat \ {0} /\ W \in Nat \ {0} /\ W = K + H
  BY ConstantFacts
<1>2. (n + 1) * W <= m * W
  BY <1>1, MulMono
<1>3. n * W \in Nat /\ m * W \in Nat /\ (n + 1) * W = n * W + W
  BY <1>1
<1> QED
  BY <1>1, <1>2, <1>3 DEF Pos

(* The holes when the next frame leaves the link. *)
LEMMA HolesTaken ==
    ASSUME NEW n \in Nat, NEW buf, NEW f \in Frame, HeadPos \in Int,
           Pos(f.nr, f.idx) = HeadPos, HeadPos' = HeadPos + 1
    PROVE  Holes(n, buf)' = IF n = f.nr /\ Hole(buf, f.idx) THEN Holes(n, buf) \cup {f.idx}
                            ELSE Holes(n, buf)
<1>1. f.nr \in Nat /\ f.idx \in 0 .. K + H - 1
  BY DEF Frame
<1>2. \A i \in 0 .. K + H - 1 : /\ Pos(n, i) \in Nat
                                /\ Pos(n, i) = HeadPos <=> n = f.nr /\ i = f.idx
  <2> SUFFICES ASSUME NEW i \in 0 .. K + H - 1
               PROVE  Pos(n, i) \in Nat /\ (Pos(n, i) = HeadPos <=> n = f.nr /\ i = f.idx)
    OBVIOUS
  <2>1. n \in Nat /\ f.nr \in Nat /\ f.idx \in 0 .. K + H - 1 /\ i \in 0 .. K + H - 1
    BY <1>1
  <2>2. Pos(n, i) \in Nat
    BY ONLY <2>1, PosOrder
  <2>3. Pos(n, i) = Pos(f.nr, f.idx) => n = f.nr /\ i = f.idx
    BY ONLY <2>1, PosOrder
  <2> QED
    BY <2>2, <2>3
<1>3. \A i \in 0 .. K + H - 1 : Pos(n, i) < HeadPos + 1 <=> Pos(n, i) < HeadPos \/ (n = f.nr /\ i = f.idx)
  BY <1>2
<1>4. Holes(n, buf)' = {i \in 0 .. K + H - 1 : Pos(n, i) < HeadPos + 1 /\ Hole(buf, i)}
  BY DEF Holes, Hole, Pos, W
<1> QED
  BY <1>1, <1>3, <1>4 DEF Holes

(* When a frame of another block leaves the link, nothing changes for a    *)
(* block of which the decoder has seen no frame.                           *)
LEMMA UnseenTaken ==
    ASSUME NEW n \in Nat, NEW m \in Nat, NEW f \in Frame, f.nr # m, HeadPos \in Int,
           Pos(f.nr, f.idx) = HeadPos, HeadPos' = HeadPos + 1,
           lost[m] \in Nat, lost'[m] = lost[m], forwarded' = forwarded, last_idx' = last_idx,
           last_idx \in 0 .. K + H - 1, Unseen(n, m)
    PROVE  Unseen(n, m)'
<1>1. f.nr \in Nat /\ f.idx \in 0 .. K + H - 1 /\ W \in Nat /\ 0 \in 0 .. K + H - 1
  BY ConstantFacts DEF Frame
<1>2. Pos(m, 0) \in Nat /\ Pos(m, last_idx) \in Nat
  BY <1>1, PosOrder
<1>3. CASE HeadPos <= Pos(m, 0) + lost[m]
  <2>1. CASE m < f.nr
    <3>1. Pos(m, 0) + W <= HeadPos
      BY <1>1, <2>1, PosApart
    <3>2. W <= lost[m]
      BY <1>1, <1>2, <1>3, <3>1
    <3> QED
      BY <3>2 DEF Unseen, W
  <2>2. CASE f.nr < m
    <3>1. HeadPos + 1 <= Pos(m, 0)
      BY <1>1, <2>2, PosApart
    <3>2. HeadPos' <= Pos(m, 0) + lost'[m]
      BY <1>2, <3>1
    <3> QED
      BY <3>2 DEF Unseen, Pos, W
  <2> QED
    BY <1>1, <2>1, <2>2
<1>4. CASE W <= lost[m]
  BY <1>4 DEF Unseen, W
<1>5. CASE H < K /\ forwarded /\ BlockOf(m) = BlockOf(n) /\ K <= lost[m] /\ Pos(m, last_idx) < HeadPos
  <2>1. Pos(m, last_idx) < HeadPos'
    BY <1>2, <1>5
  <2> QED
    BY <1>5, <2>1 DEF Unseen, Pos, W, BlockOf
<1> QED
  BY <1>3, <1>4, <1>5 DEF Unseen

(* The link loses a frame of block f.nr. *)
LEMMA LoseRepairs ==
    ASSUME TypeOK, Inv, BlocksFilled, Lose, NEW n \in 1 .. Current, DecoderAt(n), Repairs(n)
    PROVE  Repairs(n)'
<1> PICK f : f = Head(link)
  OBVIOUS
<1>1. /\ link # << >> /\ link' = Tail(link) /\ UNCHANGED encoder
      /\ last_block' = last_block /\ last_idx' = last_idx /\ forwarded' = forwarded
      /\ out' = out /\ dec' = dec /\ burst' = burst + 1
      /\ lost' = [lost EXCEPT ![f.nr] = @ + 1]
  BY DEF Lose, decoder
<1>2. /\ HeadPos \in Int /\ HeadPos' = HeadPos + 1 /\ f \in Frame /\ Genuine(f)
      /\ Pos(f.nr, f.idx) = HeadPos
      /\ \A k, i : (Known(k, i)' <=> Known(k, i)) /\ At(k, i)' = At(k, i)
  BY <1>1, TakenFacts
<1>3. f.nr \in 1 .. MaxData /\ n <= f.nr
  BY <1>2, FrameCounted, SameBlock
<1>4. /\ MaxData \in Nat /\ n \in Nat /\ last_idx \in 0 .. K + H - 1 /\ burst \in Int
      /\ lost \in [1 .. MaxData -> Nat] /\ H \in Nat /\ W \in Nat /\ K \in Nat
  <2>1. MaxData \in Nat /\ H \in Nat /\ W \in Nat /\ K \in Nat /\ MaxBurst \in Nat
    BY ConstantFacts
  <2>2. last_idx \in 0 .. K + H - 1 /\ burst \in 0 .. MaxBurst /\ lost \in [1 .. MaxData -> Nat]
        /\ Current \in Nat
    BY DEF TypeOK, Current
  <2> QED
    BY <2>1, <2>2
<1>5. /\ lost'[f.nr] = lost[f.nr] + 1
      /\ \A m \in 1 .. MaxData : m # f.nr => lost'[m] = lost[m]
      /\ \A m \in 1 .. MaxData : lost[m] \in Nat /\ lost'[m] >= lost[m] /\ lost'[m] \in Nat
  BY <1>1, <1>3, <1>4
<1>6. \A m, i : InOut(m, i) => InOut(m, i)'
  BY <1>1, <1>2 DEF InOut
<1>7. ASSUME NEW m \in 1 .. MaxData, m < n \/ (m = n /\ forwarded) PROVE Settled(m)'
  <2>1. Settled(m)
    BY <1>7 DEF Repairs
  <2>2. lost[m] > H => lost'[m] > H
    BY <1>4, <1>5
  <2> QED
    BY <1>6, <2>1, <2>2 DEF Settled
<1> PICK buf : buf = dec[last_block]
  OBVIOUS
<1>8. ASSUME Accounted(n, buf) PROVE Accounted(n, buf)'
  <2> SUFFICES ASSUME n <= MaxData PROVE Cardinality(Holes(n, buf)') <= lost'[n]
    BY <1>6, <1>8 DEF Accounted
  <2>1. n \in 1 .. MaxData /\ Cardinality(Holes(n, buf)) <= lost[n]
    BY <1>4, <1>8 DEF Accounted
  <2>2. Holes(n, buf)' = IF n = f.nr /\ Hole(buf, f.idx) THEN Holes(n, buf) \cup {f.idx}
                         ELSE Holes(n, buf)
    BY <1>2, <1>4, HolesTaken
  <2>3. IsFiniteSet(Holes(n, buf)) /\ Cardinality(Holes(n, buf)) \in Nat
    BY HolesFinite
  <2>4. /\ Cardinality(Holes(n, buf) \cup {f.idx}) <= Cardinality(Holes(n, buf)) + 1
        /\ Cardinality(Holes(n, buf) \cup {f.idx}) \in Nat
    BY <2>3, FS_AddElement
  <2>5. CASE n = f.nr
    BY <1>5, <2>1, <2>2, <2>3, <2>4, <2>5
  <2>6. CASE n # f.nr
    BY <1>5, <2>1, <2>2, <2>3, <2>6
  <2> QED
    BY <2>5, <2>6
<1>9. ~forwarded' => ~CanDecode(dec[last_block])' /\ Accounted(n, dec[last_block])'
  <2>1. ~forwarded => ~CanDecode(buf) /\ Accounted(n, buf)'
    BY <1>8 DEF Repairs
  <2>2. dec'[last_block'] = buf
    BY <1>1
  <2> QED
    BY <1>1, <2>1, <2>2 DEF Accounted, CanDecode, Missing, Parities, Holes, Hole
<1>10. LastTaken' = LastTaken
  BY <1>1, <1>2, <1>4 DEF LastTaken
<1>11. forwarded' => last_idx' >= K - 1 /\ (H < K \/ LastTaken' <= Pos(n, K + H - 1))
  BY <1>1, <1>10 DEF Repairs
<1>12. ASSUME NEW m \in 1 .. MaxData, n < m PROVE Unseen(n, m)'
  <2>1. Unseen(n, m) /\ m \in Nat
    BY <1>12 DEF Repairs
  <2>2. CASE m # f.nr
    BY <1>1, <1>2, <1>4, <1>5, <2>1, <2>2, UnseenTaken
  <2>3. CASE m = f.nr
    <3>1. Pos(m, 0) \in Nat /\ Pos(m, last_idx) \in Nat
      BY <1>4, <2>1, ConstantFacts, PosOrder
    <3>2. CASE HeadPos <= Pos(m, 0) + lost[m]
      <4>1. HeadPos' <= Pos(m, 0) + lost'[m]
        BY <1>2, <1>5, <2>3, <3>1, <3>2
      <4> QED
        BY <4>1 DEF Unseen, Pos, W
    <3>3. CASE W <= lost[m]
      <4>1. W <= lost'[m]
        BY <1>4, <1>5, <3>3
      <4> QED
        BY <4>1 DEF Unseen, W
    <3>4. CASE H < K /\ forwarded /\ BlockOf(m) = BlockOf(n) /\ K <= lost[m] /\ Pos(m, last_idx) < HeadPos
      <4>1. K <= lost'[m] /\ Pos(m, last_idx) < HeadPos'
        BY <1>2, <1>4, <1>5, <3>1, <3>4
      <4> QED
        BY <1>1, <3>4, <4>1 DEF Unseen, Pos, W, BlockOf
    <3> QED
      BY <2>1, <3>2, <3>3, <3>4 DEF Unseen
  <2> QED
    BY <2>2, <2>3
<1> QED
  BY <1>1, <1>7, <1>9, <1>11, <1>12 DEF Repairs, Pos, W

(* With H >= K, bursts are bounded more strictly. *)
LEMMA ShortBurst ==
    ASSUME K <= H
    PROVE  MaxBurst \in Nat /\ MaxBurst < (MaxBlock * W - W) + K /\ MaxBlock * W \in Nat
<1>1. K \in Nat \ {0} /\ H \in Nat \ {0} /\ W \in Nat \ {0} /\ W = K + H
      /\ MaxBlock \in Nat \ {0} /\ MaxBurst \in Nat
  BY ConstantFacts
<1>2. (MaxBlock - 1) * W = MaxBlock * W - W /\ MaxBlock * W \in Nat
  BY <1>1
<1>3. LongestBurst = (MaxBlock - 1) * W + K - 1
  BY <1>1 DEF LongestBurst
<1>4. LongestBurst \in Int
  BY <1>1, <1>2, <1>3
<1>5. MaxBurst <= LongestBurst
  BY <1>4, FecAssumption
<1> QED
  BY <1>1, <1>2, <1>3, <1>5

(* The decoder skips a frame: with H >= K it is one of block n, otherwise  *)
(* it is a parity frame.                                                   *)
LEMMA SkipRepairs ==
    ASSUME TypeOK, Inv, BlocksFilled, Skip, NEW n \in 1 .. Current, DecoderAt(n), Repairs(n)
    PROVE  Repairs(n)'
<1> PICK f : f = Head(link)
  OBVIOUS
<1>1. /\ link # << >> /\ link' = Tail(link) /\ UNCHANGED encoder
      /\ last_block' = last_block /\ last_idx' = last_idx /\ forwarded' = forwarded
      /\ out' = out /\ dec' = dec /\ burst' = 0 /\ lost' = lost /\ forwarded /\ ~StartsBlock(f)
  BY DEF Skip, TakeFrame, decoder
<1>2. /\ HeadPos \in Int /\ HeadPos' = HeadPos + 1 /\ f \in Frame /\ Genuine(f)
      /\ Pos(f.nr, f.idx) = HeadPos
      /\ \A k, i : (Known(k, i)' <=> Known(k, i)) /\ At(k, i)' = At(k, i)
  BY <1>1, TakenFacts
<1>3. f.nr \in 1 .. MaxData /\ n <= f.nr
  BY <1>2, FrameCounted, SameBlock
<1>4. /\ MaxData \in Nat /\ n \in Nat \ {0} /\ last_idx \in 0 .. K + H - 1 /\ burst \in 0 .. MaxBurst
      /\ lost \in [1 .. MaxData -> Nat] /\ H \in Nat \ {0} /\ W \in Nat /\ K \in Nat \ {0}
      /\ f.idx \in 0 .. K + H - 1 /\ f.nr \in Nat \ {0} /\ W = K + H /\ MaxBurst \in Nat
  <2>1. MaxData \in Nat /\ H \in Nat \ {0} /\ W \in Nat /\ K \in Nat \ {0} /\ W = K + H /\ MaxBurst \in Nat
    BY ConstantFacts
  <2>2. last_idx \in 0 .. K + H - 1 /\ burst \in 0 .. MaxBurst /\ lost \in [1 .. MaxData -> Nat]
        /\ Current \in Nat
    BY DEF TypeOK, Current
  <2>3. f.idx \in 0 .. K + H - 1
    BY <1>2 DEF Frame
  <2> QED
    BY <1>3, <2>1, <2>2, <2>3
<1>5. BlockOf(f.nr) = BlockOf(n) /\ last_idx < f.idx /\ K <= f.idx
  <2>1. f.block = last_block /\ last_idx < f.idx
    BY <1>1, <1>4 DEF StartsBlock
  <2>2. last_idx >= K - 1
    BY <1>1 DEF Repairs
  <2> QED
    BY <1>2, <1>4, <2>1, <2>2 DEF Genuine, DecoderAt
<1>6. H < K \/ f.nr = n
  <2> SUFFICES ASSUME ~(H < K), n < f.nr PROVE FALSE
    BY <1>3, <1>4
  <2>1. n + MaxBlock <= f.nr
    BY <1>4, <1>5, BlockFacts
  <2> PICK M : M = MaxBlock * W
    OBVIOUS
  <2> PICK p : p = Pos(n, K + H - 1)
    OBVIOUS
  <2>2. K + H - 1 \in 0 .. K + H - 1
    BY <1>4
  <2>3. p + M + f.idx - (K + H - 1) <= HeadPos /\ p \in Nat
    BY <1>2, <1>4, <2>1, <2>2, PosOrder
  <2>4. HeadPos - burst - 1 <= p
    BY <1>1 DEF Repairs, LastTaken
  <2>5. MaxBurst < (M - W) + K /\ M \in Nat
    BY <1>4, ShortBurst
  <2>6. HeadPos \in Int /\ burst \in Int /\ burst <= MaxBurst /\ MaxBurst \in Int
    BY <1>2, <1>4
  <2>7. f.idx \in Int /\ K <= f.idx /\ K \in Int /\ H \in Int /\ W = K + H
    BY <1>4, <1>5
  <2> QED
    BY ONLY <2>3, <2>4, <2>5, <2>6, <2>7
<1>7. \A m, i : InOut(m, i) => InOut(m, i)'
  BY <1>1, <1>2 DEF InOut
<1>8. ASSUME NEW m \in 1 .. MaxData, m < n \/ (m = n /\ forwarded) PROVE Settled(m)'
  <2>1. Settled(m)
    BY <1>8 DEF Repairs
  <2> QED
    BY <1>1, <1>7, <2>1 DEF Settled
<1>9. H < K \/ LastTaken' <= Pos(n, K + H - 1)
  <2>1. LastTaken' = HeadPos
    BY <1>1, <1>2 DEF LastTaken
  <2>2. ASSUME f.nr = n PROVE HeadPos <= Pos(n, K + H - 1)
    <3>1. n * W \in Nat
      BY <1>4
    <3> QED
      BY <1>2, <1>4, <2>2, <3>1 DEF Pos
  <2> QED
    BY <1>6, <2>1, <2>2
<1>10. last_idx >= K - 1
  BY <1>1 DEF Repairs
<1>11. ASSUME NEW m \in 1 .. MaxData, n < m PROVE Unseen(n, m)'
  <2>1. Unseen(n, m) /\ m \in Nat /\ lost[m] \in Nat
    BY <1>4, <1>11 DEF Repairs
  <2>2. CASE m # f.nr
    BY <1>1, <1>2, <1>4, <2>1, <2>2, UnseenTaken
  <2>3. CASE m = f.nr
    <3>1. H < K
      BY <1>4, <1>6, <1>11, <2>3
    <3>2. m * W \in Nat
      BY <1>4, <2>1
    <3>3. Pos(m, last_idx) < HeadPos' /\ HeadPos = Pos(m, 0) + f.idx /\ Pos(m, 0) \in Nat
      <4>1. HeadPos \in Int /\ HeadPos' = HeadPos + 1 /\ HeadPos = m * W + f.idx
        BY <1>2, <2>3 DEF Pos
      <4>2. last_idx \in Nat /\ f.idx \in Nat /\ last_idx < f.idx
        BY <1>4, <1>5
      <4> QED
        BY ONLY <3>2, <4>1, <4>2 DEF Pos
    <3>4. K <= lost[m]
      BY <1>4, <1>5, <2>1, <3>3 DEF Unseen
    <3> QED
      BY <1>1, <1>5, <2>3, <3>1, <3>3, <3>4 DEF Unseen, Pos, W, BlockOf
  <2> QED
    BY <2>2, <2>3
<1> QED
  BY <1>1, <1>8, <1>9, <1>10, <1>11 DEF Repairs, Pos, W

(* A sequence s that extends what is delivered has the packets of block n  *)
(* that are in a buffer, and all of them if the buffer can be decoded.     *)
Covers(n, buf, s) ==
    /\ \A l \in 1 .. Len(out) : l \in 1 .. Len(s) /\ s[l] = out[l]
    /\ \A i \in DataIdx : buf.data[i] # Absent \/ CanDecode(buf) =>
         Known(n, i) /\ (At(n, i) # Filler => \E l \in 1 .. Len(s) : s[l] = At(n, i))

(* When the buffer's packets are delivered before a frame of the block is  *)
(* received, they are afterwards, and so is the whole block if it can be   *)
(* decoded.                                                                *)
LEMMA InsertDelivers ==
    ASSUME TypeOK, OpenBlock, PacketsDiffer,
           NEW f \in Frame, Genuine(f), NEW old \in Buffer, Held(f.nr, f.idx, old),
           Accounted(f.nr, old), NEW new, new = Insert(old, f),
           NEW rec, rec = IF CanDecode(new) THEN Recovered(new) ELSE << >>,
           NEW all, all = (out \o Passed(f)) \o rec
    PROVE  Covers(f.nr, new, all)
<1> PICK n : n = f.nr
  OBVIOUS
<1> PICK G : G = Garbage .. MaxData
  OBVIOUS
<1> PICK pre : pre = out \o Passed(f)
  OBVIOUS
<1>1. /\ new \in Buffer
      /\ \A i \in DataIdx : i # f.idx => new.data[i] = old.data[i]
      /\ CanDecode(new) => \A i \in Missing(new) : Known(n, i) /\ Solve(new, i) = At(n, i)
  BY InsertHeld
<1>2. f.idx \in DataIdx => Known(n, f.idx) /\ f.data = At(n, f.idx)
  BY DEF Genuine
<1>3. out \in Seq(G) /\ Passed(f) \in Seq(G) /\ rec \in Seq(G) /\ pre \in Seq(G)
  <2>1. out \in Seq(G)
    BY DEF TypeOK
  <2>2. f.data \in G
    BY ConstantFacts DEF Frame, Garbage, Absent
  <2>3. <<f.data>> \in Seq(G) /\ << >> \in Seq(G)
    BY <2>2
  <2>4. Passed(f) \in Seq(G)
    BY <2>3 DEF Passed
  <2>5. rec \in Seq(G)
    <3>1. CanDecode(new) => Recovered(new) \in Seq(G)
      BY <1>1, RecoveredFacts
    <3> QED
      BY <2>3, <3>1
  <2> QED
    BY <2>1, <2>4, <2>5, ConcatFacts
<1>4. /\ \A l \in 1 .. Len(out) : l \in 1 .. Len(pre) /\ pre[l] = out[l]
      /\ \A l \in 1 .. Len(Passed(f)) : Len(out) + l \in 1 .. Len(pre) /\ pre[Len(out) + l] = Passed(f)[l]
  BY <1>3
<1>5. /\ \A l \in 1 .. Len(pre) : l \in 1 .. Len(all) /\ all[l] = pre[l]
      /\ \A l \in 1 .. Len(rec) : Len(pre) + l \in 1 .. Len(all) /\ all[Len(pre) + l] = rec[l]
  <2>1. all = pre \o rec /\ Len(pre) \in Nat /\ Len(rec) \in Nat
    BY <1>3
  <2>2. Len(all) = Len(pre) + Len(rec)
    BY <1>3, <2>1, ConcatFacts
  <2>3. \A l \in 1 .. Len(pre) : all[l] = pre[l]
    BY <1>3, <2>1, ConcatFacts
  <2>4. \A l \in 1 .. Len(rec) : all[Len(pre) + l] = rec[l]
    BY <1>3, <2>1, ConcatFacts
  <2>5. \A l \in 1 .. Len(pre) : l \in 1 .. Len(all)
    BY ONLY <2>1, <2>2
  <2>6. \A l \in 1 .. Len(rec) : Len(pre) + l \in 1 .. Len(all)
    BY ONLY <2>1, <2>2
  <2> QED
    BY ONLY <2>3, <2>4, <2>5, <2>6
<1>6. \A l \in 1 .. Len(out) : l \in 1 .. Len(all) /\ all[l] = out[l]
  BY <1>4, <1>5
<1>7. ASSUME NEW i \in DataIdx, new.data[i] # Absent \/ CanDecode(new)
      PROVE  /\ Known(n, i)
             /\ At(n, i) # Filler => \E l \in 1 .. Len(all) : all[l] = At(n, i)
  <2>1. CASE i = f.idx
    <3>1. Known(n, i)
      BY <1>2, <2>1
    <3>2. ASSUME At(n, i) # Filler PROVE \E l \in 1 .. Len(all) : all[l] = At(n, i)
      <4>1. Passed(f) = <<At(n, i)>>
        BY <1>2, <2>1, <3>2 DEF Passed
      <4>2. 1 \in 1 .. Len(Passed(f)) /\ Passed(f)[1] = At(n, i)
        BY <4>1
      <4> PICK k : k = Len(out) + 1
        OBVIOUS
      <4>3. k \in 1 .. Len(pre) /\ pre[k] = At(n, i)
        BY <1>4, <4>2
      <4>4. k \in 1 .. Len(all) /\ all[k] = At(n, i)
        BY <1>5, <4>3
      <4> QED
        BY <4>4
    <3> QED
      BY <3>1, <3>2
  <2>2. CASE i # f.idx /\ new.data[i] # Absent
    <3>1. InOut(n, i)
      BY <1>1, <2>2 DEF Accounted
    <3> QED
      BY <1>6, <3>1 DEF InOut
  <2>3. CASE new.data[i] = Absent /\ CanDecode(new)
    <3>1. i \in Missing(new)
      BY <2>3 DEF Missing
    <3>2. Known(n, i) /\ Solve(new, i) = At(n, i)
      BY <1>1, <2>3, <3>1
    <3>3. ASSUME At(n, i) # Filler PROVE \E l \in 1 .. Len(all) : all[l] = At(n, i)
      <4>1. rec = Recovered(new)
        BY <2>3
      <4> PICK at \in [1 .. Len(rec) -> Missing(new)] :
                 /\ \A l \in 1 .. Len(rec) : rec[l] = Solve(new, at[l])
                 /\ \A j \in Missing(new) : Solve(new, j) # Filler =>
                     \E l \in 1 .. Len(rec) : at[l] = j
        BY <1>1, <2>3, <4>1, RecoveredFacts
      <4> PICK l \in 1 .. Len(rec) : at[l] = i
        BY <3>1, <3>2, <3>3
      <4>2. rec[l] = At(n, i)
        BY <3>2
      <4> PICK k : k = Len(pre) + l
        OBVIOUS
      <4>3. k \in 1 .. Len(all) /\ all[k] = At(n, i)
        BY <1>5, <4>2
      <4> QED
        BY <4>3
    <3> QED
      BY <3>2, <3>3
  <2> QED
    BY <1>7, <2>1, <2>2, <2>3
<1> QED
  BY <1>6, <1>7 DEF Covers

(* Decoding takes a frame from the last data packet on. *)
LEMMA DecodedLate ==
    ASSUME NEW n, NEW x \in Nat, NEW buf, Held(n, x + 1, buf), CanDecode(buf)
    PROVE  x >= K - 1
<1> SUFFICES ASSUME x < K - 1 PROVE FALSE
  BY ConstantFacts
<1>1. K \in Nat \ {0} /\ H \in Nat
  BY ConstantFacts
<1>2. K - 1 \in Missing(buf)
  <2>1. K - 1 \in DataIdx /\ ~(K - 1 < x + 1)
    BY <1>1 DEF DataIdx
  <2> PICK c : c = K - 1
    OBVIOUS
  <2>2. c \in DataIdx /\ ~(c < x + 1)
    BY <2>1
  <2>3. buf.data[c] = Absent
    BY <2>2 DEF Held
  <2> QED
    BY <2>2, <2>3 DEF Missing
<1>3. Parities(buf) = {}
  <2>1. \A i \in ParityIdx : ~(i < x + 1)
    BY <1>1 DEF ParityIdx
  <2> QED
    BY <2>1 DEF Held, Parities
<1>4. Cardinality(Parities(buf)) = 0
  BY <1>3, FS_EmptySet
<1>5. Cardinality(Missing(buf)) = 0
  BY <1>4, IndexSets DEF CanDecode
<1> QED
  BY <1>2, <1>5, IndexSets, FS_EmptySet

(* Before the decoder puts a frame into a buffer, what the buffer does not *)
(* have of the frame's block is lost.                                      *)
LEMMA AccountedBefore ==
    ASSUME TypeOK, Inv, BlocksFilled, Receive, NEW n \in 1 .. Current, DecoderAt(n), Repairs(n),
           NEW f, f = Head(link),
           NEW old, old = IF StartsBlock(f) THEN EmptyBuffer ELSE dec[f.block]
    PROVE  Accounted(f.nr, old)
<1>1. link # << >> /\ link' = Tail(link) /\ UNCHANGED encoder
  BY DEF Receive, TakeFrame
<1>2. HeadPos \in Int /\ f \in Frame /\ Genuine(f) /\ Pos(f.nr, f.idx) = HeadPos
  BY <1>1, TakenFacts
<1>3. /\ n <= f.nr
      /\ StartsBlock(f) => old = EmptyBuffer /\ (n < f.nr \/ f.idx = 0)
      /\ ~StartsBlock(f) => f.nr = n /\ old = dec[last_block] /\ ~forwarded
  BY ReceiveFacts
<1>4. CASE ~StartsBlock(f)
  BY <1>3, <1>4 DEF Repairs
<1>5. CASE StartsBlock(f)
  <2> PICK m : m = f.nr
    OBVIOUS
  <2>1. /\ \A i \in DataIdx : old.data[i] = Absent
        /\ \A i \in ParityIdx : old.parity[i] = NoWord
    BY <1>3, <1>5 DEF EmptyBuffer, EmptyData
  <2>2. /\ m \in 1 .. MaxData /\ m \in Nat /\ MaxData \in Nat /\ f.idx \in 0 .. K + H - 1
        /\ last_idx \in 0 .. K + H - 1 /\ K \in Nat \ {0} /\ H \in Nat \ {0} /\ W = K + H
        /\ lost[m] \in Nat
    <3>1. K \in Nat \ {0} /\ H \in Nat \ {0} /\ MaxData \in Nat /\ W = K + H
      BY ConstantFacts
    <3>2. lost \in [1 .. MaxData -> Nat] /\ last_idx \in 0 .. K + H - 1
      BY DEF TypeOK
    <3>3. m \in 1 .. MaxData
      BY <1>2, FrameCounted
    <3>4. f.idx \in 0 .. K + H - 1
      BY <1>2 DEF Frame
    <3> QED
      BY <3>1, <3>2, <3>3, <3>4
  <2>3. m * W \in Nat
    BY <2>2
  <2>4. Holes(m, old) = 0 .. f.idx - 1
    <3>1. \A i \in 0 .. K + H - 1 : Hole(old, i)
      <4>1. \A i \in 0 .. K + H - 1 : i \in DataIdx \/ i \in ParityIdx
        BY <2>2 DEF DataIdx, ParityIdx
      <4> QED
        BY <2>1, <4>1 DEF Hole
    <3>2. \A i \in 0 .. K + H - 1 : Pos(m, i) < HeadPos <=> i < f.idx
      BY <1>2, <2>2, <2>3 DEF Pos
    <3>3. \A i : i \in 0 .. f.idx - 1 <=> i \in 0 .. K + H - 1 /\ i < f.idx
      BY <2>2
    <3> QED
      BY <3>1, <3>2, <3>3 DEF Holes
  <2>5. Cardinality(Holes(m, old)) = f.idx
    <3>1. 0 \in Int /\ f.idx - 1 \in Int /\ f.idx \in Nat
      BY <2>2
    <3>2. Cardinality(0 .. f.idx - 1) = IF 0 > f.idx - 1 THEN 0 ELSE (f.idx - 1) - 0 + 1
      BY <3>1, FS_Interval
    <3> QED
      BY <2>4, <3>1, <3>2
  <2>6. f.idx <= lost[m]
    <3>1. CASE f.idx = 0
      BY <2>2, <3>1
    <3>2. CASE n < m
      <4>1. Unseen(n, m)
        BY <2>2, <3>2 DEF Repairs
      <4>2. HeadPos = Pos(m, 0) + f.idx /\ Pos(m, 0) \in Nat
        BY <1>2, <2>2, <2>3 DEF Pos
      <4>3. ASSUME BlockOf(m) = BlockOf(n), Pos(m, last_idx) < HeadPos PROVE FALSE
        <5>1. f.block = last_block
          BY <1>2, <4>3 DEF Genuine, DecoderAt
        <5>2. f.idx <= last_idx
          BY <1>5, <5>1 DEF StartsBlock
        <5> QED
          BY <1>2, <2>2, <2>3, <4>3, <5>2 DEF Pos
      <4>4. HeadPos <= Pos(m, 0) + lost[m] \/ W <= lost[m]
        BY <4>1, <4>3 DEF Unseen
      <4> QED
        BY <2>2, <4>2, <4>4
    <3> QED
      BY <1>3, <1>5, <3>1, <3>2
  <2> QED
    BY <2>1, <2>5, <2>6 DEF Accounted
<1> QED
  BY <1>4, <1>5

(* A block is settled when all of its frames have left the link. *)
LEMMA SettledWhenGone ==
    ASSUME TypeOK, NEW n \in 1 .. Current, Repairs(n), HeadPos \in Int,
           NEW k \in 1 .. MaxData, Pos(k, 0) + W <= HeadPos
    PROVE  Settled(k)
<1>1. /\ n \in Nat /\ k \in Nat /\ lost[k] \in Nat
      /\ H \in Nat /\ K \in Nat /\ W = K + H /\ MaxData \in Nat /\ K # 0
      /\ K + H - 1 \in 0 .. K + H - 1
  <2>1. H \in Nat /\ K \in Nat \ {0} /\ W = K + H /\ MaxData \in Nat
    BY ConstantFacts
  <2>2. lost \in [1 .. MaxData -> Nat] /\ Current \in Nat
    BY DEF TypeOK, Current
  <2> QED
    BY <2>1, <2>2
<1>2. /\ Pos(k, 0) + W <= HeadPos /\ Pos(k, K + H - 1) < HeadPos
      /\ Pos(k, 0) \in Nat /\ Pos(k, K + H - 1) \in Nat
  <2>1. k * W \in Nat
    BY <1>1
  <2> QED
    BY <1>1, <2>1 DEF Pos
<1>3. CASE k < n \/ (k = n /\ forwarded)
  BY <1>3 DEF Repairs
<1>4. CASE k = n /\ ~forwarded
  <2> PICK buf : buf = dec[last_block]
    OBVIOUS
  <2>1. ~CanDecode(buf) /\ Cardinality(Holes(k, buf)) <= lost[k]
    BY <1>1, <1>4 DEF Repairs, Accounted
  <2>2. Cardinality(Holes(k, buf)) > H
    BY <1>1, <1>2, <2>1, TooManyHoles
  <2>3. Cardinality(Holes(k, buf)) \in Nat
    BY HolesFinite
  <2> QED
    BY <1>1, <2>1, <2>2, <2>3 DEF Settled
<1>5. CASE n < k
  <2>1. Unseen(n, k)
    BY <1>5 DEF Repairs
  <2>2. lost[k] > H
    BY <1>1, <1>2, <2>1 DEF Unseen
  <2> QED
    BY <2>2 DEF Settled
<1> QED
  BY <1>1, <1>3, <1>4, <1>5

(* The decoder receives a frame of block m. *)
LEMMA ReceiveRepairs ==
    ASSUME TypeOK, Inv, BlocksFilled, Receive, NEW n \in 1 .. Current, DecoderAt(n), Repairs(n),
           NEW m, m = Head(link).nr
    PROVE  Repairs(m)'
<1> PICK f : f = Head(link)
  OBVIOUS
<1> PICK old : old = IF StartsBlock(f) THEN EmptyBuffer ELSE dec[f.block]
  OBVIOUS
<1> PICK new : new = Insert(old, f)
  OBVIOUS
<1>1. link # << >> /\ link' = Tail(link) /\ UNCHANGED encoder /\ burst' = 0 /\ lost' = lost
  BY DEF Receive, TakeFrame
<1>2. /\ HeadPos \in Int /\ HeadPos' = HeadPos + 1 /\ f \in Frame /\ Genuine(f)
      /\ Pos(m, f.idx) = HeadPos
      /\ \A k, i : (Known(k, i)' <=> Known(k, i)) /\ At(k, i)' = At(k, i)
  BY <1>1, TakenFacts
<1>3. n <= m /\ old \in Buffer /\ Held(f.nr, f.idx, old) /\ Accounted(f.nr, old)
  BY ReceiveFacts, AccountedBefore
<1>4. OpenBlock /\ PacketsDiffer
  BY DEF Inv
<1>5. /\ new \in Buffer /\ Held(f.nr, f.idx + 1, new) /\ Inserts(old, f)
      /\ \A i \in DataIdx : i # f.idx => new.data[i] = old.data[i]
      /\ \A i \in ParityIdx : i # f.idx => new.parity[i] = old.parity[i]
      /\ f.idx \in DataIdx => new.data[f.idx] # Absent
      /\ f.idx \in ParityIdx => new.parity[f.idx] # NoWord
  <2>1. new = Insert(old, f) /\ f \in Frame /\ Genuine(f)
    BY <1>2
  <2> QED
    BY <1>3, <1>4, <2>1, InsertHeld
<1> PICK rec : rec = IF CanDecode(new) THEN Recovered(new) ELSE << >>
  OBVIOUS
<1> PICK all : all = (out \o Passed(f)) \o rec
  OBVIOUS
<1>6. /\ \A l \in 1 .. Len(out) : l \in 1 .. Len(all) /\ all[l] = out[l]
      /\ \A i \in DataIdx : new.data[i] # Absent \/ CanDecode(new) =>
           /\ Known(m, i)
           /\ At(m, i) # Filler => \E l \in 1 .. Len(all) : all[l] = At(m, i)
  <2>1. new = Insert(old, f) /\ f \in Frame /\ Genuine(f)
    BY <1>2
  <2>2. rec = IF CanDecode(new) THEN Recovered(new) ELSE << >>
    OBVIOUS
  <2>3. all = (out \o Passed(f)) \o rec
    OBVIOUS
  <2>4. old \in Buffer /\ Held(f.nr, f.idx, old) /\ Accounted(f.nr, old)
    BY <1>3
  <2>5. Covers(f.nr, new, all)
    BY ONLY TypeOK, <1>4, <2>1, <2>2, <2>3, <2>4, InsertDelivers
  <2>6. m = f.nr
    OBVIOUS
  <2> QED
    BY ONLY <2>5, <2>6 DEF Covers
<1>7. /\ last_block' = f.block /\ last_idx' = f.idx /\ forwarded' = CanDecode(new)
      /\ dec' = [dec EXCEPT ![f.block] = IF CanDecode(new) THEN EmptyBuffer ELSE new]
      /\ out' = all
  BY <1>5 DEF Receive
<1>8. /\ m \in 1 .. MaxData /\ m \in Nat /\ n \in Nat /\ MaxData \in Nat
      /\ f.idx \in 0 .. K + H - 1 /\ f.idx \in Nat /\ f.block \in Blocks
      /\ K \in Nat \ {0} /\ H \in Nat \ {0} /\ W = K + H
      /\ lost \in [1 .. MaxData -> Nat] /\ dec \in [Blocks -> Buffer]
  <2>1. K \in Nat \ {0} /\ H \in Nat \ {0} /\ MaxData \in Nat /\ W = K + H
    BY ConstantFacts
  <2>2. lost \in [1 .. MaxData -> Nat] /\ dec \in [Blocks -> Buffer] /\ Current \in Nat
    BY DEF TypeOK, Current
  <2>3. m \in 1 .. MaxData
    BY <1>2, FrameCounted
  <2>4. f.idx \in 0 .. K + H - 1 /\ f.block \in Blocks
    BY <1>2 DEF Frame
  <2> QED
    BY <2>1, <2>2, <2>3, <2>4
<1>9. \A i \in DataIdx : new.data[i] # Absent \/ CanDecode(new) => InOut(m, i)'
  <2> SUFFICES ASSUME NEW i \in DataIdx, new.data[i] # Absent \/ CanDecode(new)
               PROVE  Known(m, i)' /\ (At(m, i)' # Filler =>
                                          \E l \in 1 .. Len(out') : out'[l] = At(m, i)')
    BY DEF InOut
  <2> QED
    BY <1>2, <1>6, <1>7
<1>10. ASSUME NEW k \in 1 .. MaxData, k < m \/ (k = m /\ forwarded') PROVE Settled(k)'
  <2>1. CASE k = m /\ forwarded'
    BY <1>7, <1>9, <2>1 DEF Settled
  <2>2. CASE k < m
    <3>1. Pos(k, 0) + W <= HeadPos
      <4>1. k \in Nat /\ m \in Nat /\ f.idx \in 0 .. K + H - 1
        BY <1>8
      <4>2. Pos(k, 0) + W <= Pos(m, f.idx)
        BY <2>2, <4>1, PosApart
      <4> QED
        BY <1>2, <4>2
    <3>2. Settled(k)
      BY <1>2, <3>1, SettledWhenGone
    <3>3. \A i \in DataIdx : InOut(k, i) => InOut(k, i)'
      <4> SUFFICES ASSUME NEW i \in DataIdx, InOut(k, i) PROVE InOut(k, i)'
        OBVIOUS
      <4>1. Known(k, i)' /\ At(k, i)' = At(k, i)
        BY <1>2 DEF InOut
      <4> QED
        BY <1>6, <1>7, <4>1, InOutStays
    <3> QED
      BY <1>1, <3>2, <3>3 DEF Settled
  <2> QED
    BY <1>10, <2>1, <2>2
<1>11. Accounted(m, new)'
  <2>1. ~Hole(new, f.idx)
    <3>1. f.idx \in DataIdx \/ f.idx \in ParityIdx
      BY <1>8 DEF DataIdx, ParityIdx
    <3> QED
      BY <1>5, <3>1 DEF Hole
  <2>2. Holes(m, new)' = Holes(m, new)
    BY <1>2, <1>8, <2>1, HolesTaken
  <2>3. Holes(m, new) \subseteq Holes(m, old)
    <3> SUFFICES ASSUME NEW i \in Holes(m, new) PROVE i \in Holes(m, old)
      OBVIOUS
    <3>1. i \in 0 .. K + H - 1 /\ Pos(m, i) < HeadPos /\ Hole(new, i)
      BY DEF Holes
    <3>2. i # f.idx
      BY <2>1, <3>1
    <3>3. i \in DataIdx \/ i \in ParityIdx
      BY <1>8, <3>1 DEF DataIdx, ParityIdx
    <3>4. Hole(old, i)
      BY <1>5, <3>1, <3>2, <3>3 DEF Hole
    <3> QED
      BY <3>1, <3>4 DEF Holes
  <2>4. Cardinality(Holes(m, new)) <= Cardinality(Holes(m, old)) /\ Cardinality(Holes(m, new)) \in Nat
        /\ Cardinality(Holes(m, old)) \in Nat
    BY <2>3, HolesFinite, FS_Subset
  <2>5. Cardinality(Holes(m, old)) <= lost[m]
    BY <1>3, <1>8 DEF Accounted
  <2>6. lost[m] \in Nat
    BY <1>8
  <2>7. Cardinality(Holes(m, new)') <= lost'[m]
    BY <1>1, <2>2, <2>4, <2>5, <2>6
  <2> QED
    BY <1>9, <2>7 DEF Accounted
<1>12. ~forwarded' => ~CanDecode(dec[last_block])' /\ Accounted(m, dec[last_block])'
  <2> SUFFICES ASSUME ~CanDecode(new)
               PROVE  ~CanDecode(dec[last_block])' /\ Accounted(m, dec[last_block])'
    BY <1>7
  <2>1. dec'[last_block'] = new
    BY <1>7, <1>8
  <2> QED
    BY <1>11, <2>1 DEF Accounted, CanDecode, Missing, Parities, Holes, Hole
<1>13. forwarded' => last_idx' >= K - 1 /\ (H < K \/ LastTaken' <= Pos(m, K + H - 1))
  <2>1. CanDecode(new) => f.idx >= K - 1
    BY <1>5, <1>8, DecodedLate
  <2>2. LastTaken' = HeadPos
    BY <1>1, <1>2 DEF LastTaken
  <2>3. m * W \in Nat
    BY <1>8
  <2>4. HeadPos <= Pos(m, K + H - 1)
    BY <1>2, <1>8, <2>3 DEF Pos
  <2> QED
    BY <1>7, <2>1, <2>2, <2>4
<1>14. ASSUME NEW k \in 1 .. MaxData, m < k PROVE Unseen(m, k)'
  <2>1. HeadPos + 1 <= Pos(k, 0) /\ Pos(k, 0) \in Nat /\ lost[k] \in Nat
    <3>1. k \in Nat /\ m \in Nat /\ f.idx \in 0 .. K + H - 1 /\ lost[k] \in Nat
      BY <1>8
    <3>2. Pos(m, f.idx) + 1 <= Pos(k, 0) /\ Pos(k, 0) \in Nat
      BY <1>14, <3>1, PosApart
    <3> QED
      BY <1>2, <3>1, <3>2
  <2>2. HeadPos' <= Pos(k, 0) + lost'[k]
    BY <1>1, <1>2, <2>1
  <2> QED
    BY <2>2 DEF Unseen, Pos, W
<1> QED
  BY <1>10, <1>12, <1>13, <1>14 DEF Repairs, Pos, W

(* The invariant about losses. *)
LossInv == BlocksFilled /\ \E n \in 1 .. Current : DecoderAt(n) /\ Repairs(n)

(* Nothing has been sent. *)
LEMMA LossInit ==
    ASSUME Init
    PROVE  LossInv
<1>1. /\ words = << >> /\ link = << >> /\ frame_idx = 0 /\ ~forwarded /\ last_block = 0
      /\ dec = [b \in Blocks |-> EmptyBuffer] /\ lost = [n \in 1 .. MaxData |-> 0]
      /\ Len(words) = 0 /\ Len(link) = 0 /\ Current = 1
  BY DEF Init, Current
<1>2. K \in Nat \ {0} /\ H \in Nat \ {0} /\ W \in Nat \ {0} /\ W = K + H /\ MaxData \in Nat /\ 0 \in Blocks
  BY ConstantFacts
<1>3. DecoderAt(1)
  <2>1. \E n \in 1 .. 1 : DecoderAt(n)
    BY <1>1, InvInit DEF Inv
  <2>2. \A n \in 1 .. 1 : n = 1
    OBVIOUS
  <2> QED
    BY <2>1, <2>2
<1>4. HeadPos = Pos(1, 0) /\ HeadPos = W
  BY <1>1, <1>2 DEF HeadPos, Pos
<1> PICK buf : buf = dec[last_block]
  OBVIOUS
<1>5. /\ \A i \in DataIdx : buf.data[i] = Absent
      /\ \A i \in ParityIdx : buf.parity[i] = NoWord
  BY <1>1, <1>2 DEF EmptyBuffer, EmptyData
<1>6. ~CanDecode(buf)
  <2>1. Parities(buf) = {} /\ 0 \in Missing(buf)
    BY <1>2, <1>5 DEF Parities, Missing, DataIdx
  <2>2. Cardinality(Parities(buf)) = 0 /\ Cardinality(Missing(buf)) # 0
    BY <2>1, FS_EmptySet, IndexSets
  <2> QED
    BY <2>2, IndexSets DEF CanDecode
<1>7. Accounted(1, buf)
  <2>1. Holes(1, buf) = {}
    BY <1>2, <1>4 DEF Holes, Pos
  <2>2. Cardinality(Holes(1, buf)) = 0
    BY <2>1, FS_EmptySet
  <2>3. 1 <= MaxData => lost[1] = 0
    BY <1>1, <1>2
  <2> QED
    BY <1>5, <2>2, <2>3 DEF Accounted
<1>8. ASSUME NEW m \in 1 .. MaxData, 1 < m PROVE Unseen(1, m)
  <2>1. lost[m] = 0 /\ 1 \in Nat /\ m \in Nat /\ 0 \in 0 .. K + H - 1
    BY <1>1, <1>2
  <2> PICK c : c = 1
    OBVIOUS
  <2>2. Pos(c, 0) + W <= Pos(m, 0) /\ Pos(c, 0) \in Nat /\ Pos(m, 0) \in Nat
    BY <1>8, <2>1, PosApart
  <2>3. HeadPos <= Pos(m, 0) + lost[m]
    BY <1>2, <1>4, <2>1, <2>2
  <2> QED
    BY <2>3 DEF Unseen
<1>9. Repairs(1)
  <2>1. \A m \in 1 .. MaxData : ~(m < 1)
    BY <1>2
  <2> QED
    BY <1>1, <1>6, <1>7, <1>8, <2>1 DEF Repairs
<1>10. 1 \in 1 .. Current
  BY <1>1
<1> QED
  BY <1>3, <1>9, <1>10, FilledInit DEF LossInv

(* Every step. *)
LEMMA LossStep ==
    ASSUME TypeOK, Inv, LossInv, [Next]_vars
    PROVE  LossInv'
<1>1. BlocksFilled /\ BlocksFilled'
  BY FilledStep DEF LossInv, Inv
<1> PICK n \in 1 .. Current : DecoderAt(n) /\ Repairs(n)
  BY DEF LossInv
<1>2. Current = Len(words) + 1 /\ Current' = Len(words') + 1 /\ Len(words) \in Nat /\ n \in Nat
  BY DEF TypeOK, Current
<1>3. CASE SendData \/ Tick \/ Expire
  <2>1. Stays /\ StreamGrows
    BY <1>3, SendInv, TickInv, ExpireInv
  <2>2. UNCHANGED <<decoder, burst, lost>>
    BY <1>3 DEF SendData, Tick, Expire
  <2>3. DecoderAt(n)' /\ Repairs(n)'
    BY <2>1, <2>2, EncoderRepairs DEF Stays
  <2>4. Len(words') \in Nat
    <3>1. TypeOK'
      BY <1>3, TypeStep DEF Inv, Next
    <3> QED
      BY <3>1 DEF TypeOK
  <2>5. n \in 1 .. Current'
    BY <1>2, <2>1, <2>4 DEF StreamGrows, EncoderGrows
  <2> QED
    BY <1>1, <2>3, <2>5 DEF LossInv
<1>4. CASE Lose \/ Skip
  <2>1. DecoderAt(n)'
    BY <1>4, LoseInv, SkipInv DEF Stays
  <2>2. Repairs(n)'
    BY <1>1, <1>4, LoseRepairs, SkipRepairs
  <2>3. Current' = Current
    BY <1>4 DEF Lose, Skip, TakeFrame, encoder, Current
  <2>4. n \in 1 .. Current'
    BY <2>3
  <2> QED
    BY <1>1, <2>1, <2>2, <2>4 DEF LossInv
<1>5. CASE Receive
  <2> PICK m : m = Head(link).nr
    OBVIOUS
  <2>1. DecoderAt(m)'
    BY <1>5, ReceiveInv
  <2>2. Repairs(m)'
    BY <1>1, <1>5, ReceiveRepairs
  <2>3. link # << >> /\ link' = Tail(link) /\ UNCHANGED encoder
    BY <1>5 DEF Receive, TakeFrame
  <2>4. Genuine(Head(link)) /\ Current' = Current
    BY <2>3, TakenFacts
  <2>5. m \in 1 .. Current'
    BY <2>4 DEF Genuine
  <2> QED
    BY <1>1, <2>1, <2>2, <2>5 DEF LossInv
<1>6. CASE UNCHANGED vars
  <2>1. /\ UNCHANGED <<block_id, frame_idx, enc, words, link, burst, lost>>
        /\ UNCHANGED decoder
    BY <1>6 DEF vars, encoder
  <2>2. DecoderAt(n)' /\ n \in 1 .. Current'
    BY <2>1 DEF DecoderAt, BufferOf, Known, At, Current, LastTaken, HeadPos, Pos, W, BlockOf, decoder
  <2>3. StreamGrows
    BY <2>1 DEF StreamGrows, EncoderGrows, Known, At, Current, HeadPos, Pos, W, TypeOK
  <2>4. UNCHANGED <<decoder, burst, lost>>
    BY <2>1
  <2>5. Repairs(n)'
    BY <2>3, <2>4, EncoderRepairs
  <2> QED
    BY <1>1, <2>2, <2>5 DEF LossInv
<1> QED
  BY <1>3, <1>4, <1>5, <1>6 DEF Next

(* All frames of a closed block that has none on the link are gone. *)
LEMMA GoneBlock ==
    ASSUME TypeOK, InStream, NEW n \in 1 .. Len(words), \A l \in 1 .. Len(link) : link[l].nr # n
    PROVE  HeadPos \in Int /\ Pos(n, 0) + W <= HeadPos
<1>1. /\ K \in Nat \ {0} /\ H \in Nat \ {0} /\ W = K + H /\ n \in Nat /\ Current \in Nat
      /\ n < Current /\ frame_idx \in 0 .. K + H - 1 /\ Len(link) \in Nat /\ link \in Seq(Frame)
  <2>1. K \in Nat \ {0} /\ H \in Nat \ {0} /\ W = K + H
    BY ConstantFacts
  <2>2. frame_idx \in 0 .. K - 1 /\ link \in Seq(Frame) /\ Len(words) \in Nat /\ Current = Len(words) + 1
    BY DEF TypeOK, DataIdx, Current
  <2> QED
    BY <2>1, <2>2
<1>2. /\ Pos(n, 0) + W <= Pos(Current, frame_idx) /\ Pos(n, 0) \in Nat
      /\ Pos(Current, frame_idx) \in Nat
  BY <1>1, PosApart
<1>3. HeadPos \in Int /\ HeadPos + Len(link) = Pos(Current, frame_idx)
  BY <1>1, <1>2 DEF HeadPos
<1>4. ASSUME HeadPos < Pos(n, 0) + W PROVE FALSE
  <2> PICK p : p = IF HeadPos < Pos(n, 0) THEN Pos(n, 0) ELSE HeadPos
    OBVIOUS
  <2> PICK l : l = p - HeadPos + 1
    OBVIOUS
  <2>1. p \in Int /\ Pos(n, 0) <= p /\ p < Pos(n, 0) + W /\ HeadPos <= p
    BY <1>1, <1>2, <1>3, <1>4
  <2>2. l \in 1 .. Len(link)
    BY <1>1, <1>2, <1>3, <2>1
  <2> PICK f : f = link[l]
    OBVIOUS
  <2>3. Pos(f.nr, f.idx) = p /\ f \in Frame
    <3>1. Pos(f.nr, f.idx) = HeadPos + l - 1
      BY <2>2 DEF InStream
    <3>2. f \in Frame
      BY <1>1, <2>2
    <3>3. HeadPos + l - 1 = p
      BY <1>3, <2>1
    <3> QED
      BY <3>1, <3>2, <3>3
  <2>4. f.nr \in Nat /\ f.idx \in 0 .. K + H - 1
    BY <2>3 DEF Frame
  <2>5. CASE f.nr < n
    <3>1. Pos(f.nr, f.idx) + 1 <= Pos(n, 0) /\ Pos(f.nr, f.idx) \in Nat
      BY <1>1, <2>4, <2>5, PosApart
    <3> QED
      BY <1>2, <2>1, <2>3, <3>1
  <2>6. CASE n < f.nr
    <3>1. Pos(n, 0) + W <= Pos(f.nr, f.idx)
      BY <1>1, <2>4, <2>6, PosApart
    <3> QED
      BY <1>1, <1>2, <2>1, <2>3, <3>1
  <2>7. CASE f.nr = n
    BY <2>2, <2>7
  <2>8. f.nr < n \/ n < f.nr \/ f.nr = n
    BY <1>1, <2>4
  <2> QED
    BY <2>5, <2>6, <2>7, <2>8
<1> QED
  BY <1>1, <1>2, <1>3, <1>4

(* For every size of a block, every timeout and every pattern of losses    *)
(* with bursts up to LongestBurst: of a block that loses at most H of its  *)
(* frames, every packet is delivered, although the decoder forgets a block *)
(* as soon as it sees a frame of another, skips frames of blocks that it   *)
(* has forwarded, and may take frames of a later block for those.          *)
THEOREM LossesRepaired == Spec => []LossesAreRecovered
<1>1. TypeOK /\ Inv /\ LossInv => LossesAreRecovered
  <2> SUFFICES ASSUME TypeOK, Inv, LossInv, NEW n \in 1 .. Len(words),
                      \A l \in 1 .. Len(link) : link[l].nr # n, lost[n] <= H,
                      NEW i \in DataIdx, words[n][i] # Filler
               PROVE  \E j \in 1 .. Len(out) : out[j] = words[n][i]
    BY DEF LossesAreRecovered
  <2> PICK d \in 1 .. Current : DecoderAt(d) /\ Repairs(d)
    BY DEF LossInv
  <2>1. HeadPos \in Int /\ Pos(n, 0) + W <= HeadPos
    BY GoneBlock DEF Inv
  <2>2. n \in 1 .. MaxData /\ lost[n] \in Nat /\ H \in Nat /\ n <= Len(words)
    <3>1. MaxData \in Nat /\ H \in Nat
      BY ConstantFacts
    <3>2. Len(words) \in Nat /\ sent \in 0 .. MaxData /\ lost \in [1 .. MaxData -> Nat]
      BY DEF TypeOK
    <3>3. Len(words) <= sent
      BY <3>1, <3>2 DEF LossInv, BlocksFilled
    <3> QED
      BY <3>1, <3>2, <3>3
  <2>3. Settled(n)
    BY <2>1, <2>2, SettledWhenGone
  <2>4. InOut(n, i)
    BY <2>2, <2>3 DEF Settled
  <2>5. At(n, i) = words[n][i]
    BY <2>2 DEF At
  <2> QED
    BY <2>4, <2>5 DEF InOut
<1>2. TypeOK /\ OpenBlock /\ [Next]_vars => TypeOK' /\ OpenBlock'
  BY TypeStep
<1>3. TypeOK /\ Inv /\ [Next]_vars => Inv'
  BY InvStep
<1>4. TypeOK /\ Inv /\ LossInv /\ [Next]_vars => LossInv'
  BY LossStep
<1>5. Init => TypeOK /\ OpenBlock /\ Inv /\ LossInv
  BY TypeInit, InvInit, LossInit
<1> QED
  BY <1>1, <1>2, <1>3, <1>4, <1>5, PTL DEF Spec
=============================================================================
