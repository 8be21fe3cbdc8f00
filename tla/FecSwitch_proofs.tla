-------------------------- MODULE FecSwitch_proofs --------------------------
(***************************************************************************)
(* Proofs about the FEC boosters in the software switch, for any table of  *)
(* parameters and any changes of it, any number of packets, blocks and     *)
(* frames on the link, and, where it matters, any losses in bursts that    *)
(* are not too long.                                                       *)
(***************************************************************************)
EXTENDS FecSwitch, Ordered_proofs, TLAPS

-----------------------------------------------------------------------------
(* Types, together with FilledInOrder: a parity packet is computed from    *)
(* packets because no slot below frame_idx is empty.                       *)

Numbers == 1 .. MaxData
Outputs == -MaxData .. MaxData
ClosedBlock == [h : Nat, data : SUBSET Nat]
LinkFrame == {f \in Frame : f.nr \in Numbers}

EncoderTyped ==
    /\ encoder_params \in Params /\ block_id \in Blocks /\ frame_idx \in Slots
    /\ enc \in [Blocks -> [Slots -> Absent .. MaxData]]
    /\ sent \in 0 .. MaxData
    /\ home \in Seq(Nat) /\ Len(home) = sent
    /\ closed \in Seq(ClosedBlock) /\ Len(closed) <= sent

DecoderTyped ==
    /\ decoder_params \in Params
    /\ dec \in [Blocks -> [Slots -> Content]]
    /\ last_block \in Blocks \cup {-1} /\ packet_idx \in Slots /\ forwarded \in BOOLEAN
    /\ out \in Seq(Outputs)

LinkTyped ==
    /\ link \in Seq(LinkFrame)
    /\ burst \in 0 .. MaxBurst
    /\ lost \in [Numbers -> Nat]
    /\ changes \in 0 .. MaxChanges

Typed == EncoderTyped /\ DecoderTyped /\ LinkTyped /\ FilledInOrder

(* The parameters, and the slots that they use. *)
LEMMA ParamFacts ==
    ASSUME NEW p \in Params
    PROVE  /\ p.k \in Nat \ {0} /\ p.h \in Nat \ {0} /\ p = [k |-> p.k, h |-> p.h]
           /\ NbSlots \in Nat /\ p.k + p.h <= NbSlots
           /\ DataIdx(p) \subseteq Slots /\ ParityIdx(p) \subseteq Slots
           /\ MaxBlock \in Nat /\ MaxBlock > 1 /\ MaxData \in Nat
           /\ MaxBurst \in Nat /\ MaxChanges \in Nat /\ LinkCap \in Nat
<1>1. p \in [k : Nat \ {0}, h : Nat \ {0}] /\ p.k + p.h <= NbSlots /\ NbSlots \in Nat
  BY FecSwitchAssumption
<1>2. p.k \in Nat \ {0} /\ p.h \in Nat \ {0} /\ p = [k |-> p.k, h |-> p.h]
  BY <1>1
<1>3. DataIdx(p) \subseteq Slots /\ ParityIdx(p) \subseteq Slots
  BY <1>1, <1>2 DEF DataIdx, ParityIdx, Slots, Size
<1> QED
  BY <1>1, <1>2, <1>3, FecSwitchAssumption

(* The index starts again at the last slot of a block, and otherwise grows *)
(* by one or falls; it only falls to 0 from beyond the first slot.         *)
LEMMA NextIdxFacts ==
    ASSUME NEW k \in Nat \ {0}, frame_idx \in Nat
    PROVE  /\ NextIdx(k) \in 0 .. k - 1 /\ NextIdx(k) <= frame_idx + 1
           /\ Completes(k) => NextIdx(k) = 0
           /\ NextIdx(k) = 0 /\ ~Completes(k) => frame_idx > 0
           /\ frame_idx < k /\ ~Completes(k) => NextIdx(k) = frame_idx + 1
<1>1. (frame_idx + 1) % k \in 0 .. k - 1
  OBVIOUS
<1>2. (frame_idx + 1) % k <= frame_idx + 1
  OBVIOUS
<1>3. frame_idx + 1 = k => (frame_idx + 1) % k = 0
  OBVIOUS
<1>4. frame_idx + 1 < k => (frame_idx + 1) % k = frame_idx + 1
  OBVIOUS
<1>5. frame_idx = 0 /\ frame_idx + 1 # k => (frame_idx + 1) % k # 0
  <2> SUFFICES ASSUME frame_idx = 0, frame_idx + 1 # k PROVE (frame_idx + 1) % k # 0
    OBVIOUS
  <2>1. frame_idx + 1 < k /\ frame_idx + 1 = 1
    OBVIOUS
  <2> QED
    BY <2>1, <1>4
<1> QED
  BY <1>1, <1>2, <1>3, <1>4, <1>5 DEF NextIdx, Completes

(* What the encoder puts on the link. *)
LinkSend(k, h, content, word) ==
    LET c == IF Completes(k) THEN h ELSE 0 IN
    /\ Len(link') = Len(link) + 1 + c
    /\ \A i \in 1 .. Len(link) : link'[i] = link[i]
    /\ link'[Len(link) + 1] = NewFrame(frame_idx, content)
    /\ \A j \in 1 .. c : link'[Len(link) + 1 + j] =
            NewFrame(k + j - 1, [data |-> Absent, word |-> word])

(* A sequence r that is a, then x, then b. *)
Extended(T, a, x, b, r) ==
    /\ r \in Seq(T)
    /\ Len(r) = Len(a) + 1 + Len(b)
    /\ \A i \in 1 .. Len(a) : r[i] = a[i]
    /\ r[Len(a) + 1] = x
    /\ \A j \in 1 .. Len(b) : r[Len(a) + 1 + j] = b[j]

(* A frame and parity frames, appended to the link. *)
LEMMA AppendFacts ==
    ASSUME NEW T, NEW a \in Seq(T), NEW x \in T, NEW b \in Seq(T)
    PROVE  Extended(T, a, x, b, a \o <<x>> \o b)
<1>1. PICK c : c = a \o <<x>>
  OBVIOUS
<1>2. c \in Seq(T)
  <2>1. <<x>> \in Seq(T)
    OBVIOUS
  <2> QED
    BY <2>1, <1>1
<1>3. Len(c) = Len(a) + 1 /\ c[Len(a) + 1] = x /\ \A i \in 1 .. Len(a) : c[i] = a[i]
  BY <1>1
<1>4. PICK r : r = c \o b
  OBVIOUS
<1>5. r \in Seq(T) /\ Len(r) = Len(c) + Len(b)
  BY ONLY <1>2, <1>4, b \in Seq(T)
<1>6. \A i \in 1 .. Len(c) : r[i] = c[i]
  BY ONLY <1>2, <1>4, b \in Seq(T)
<1>7. \A j \in 1 .. Len(b) : r[Len(c) + j] = b[j]
  BY ONLY <1>2, <1>4, b \in Seq(T)
<1>8. Extended(T, a, x, b, r)
  <2>1. Len(a) \in Nat /\ Len(b) \in Nat /\ Len(c) \in Nat
    BY <1>2
  <2>2. Len(r) = Len(a) + 1 + Len(b)
    BY ONLY <2>1, <1>3, <1>5
  <2>3. \A i \in 1 .. Len(a) : r[i] = a[i]
    BY ONLY <2>1, <1>3, <1>6
  <2>4. r[Len(a) + 1] = x
    BY ONLY <2>1, <1>3, <1>6
  <2>5. \A j \in 1 .. Len(b) : r[Len(a) + 1 + j] = b[j]
    BY ONLY <2>1, <1>3, <1>7
  <2> QED
    BY ONLY <1>5, <2>2, <2>3, <2>4, <2>5 DEF Extended
<1>9. r = a \o <<x>> \o b
  BY ONLY <1>1, <1>4
<1> QED
  BY ONLY <1>8, <1>9

(* What the encoder computes and sends is well typed. *)
LEMMA SendFacts ==
    ASSUME Typed, SendData
    PROVE  \E word \in Seq(Numbers) :
             LET k == encoder_params.k
                 h == encoder_params.h
                 content == [data |-> sent + 1, word |-> NoWord]
             IN
             /\ link' \in Seq(LinkFrame)
             /\ LinkSend(k, h, content, word)
             /\ Completes(k) =>
                  /\ Len(word) = k
                  /\ \A m \in 1 .. k - 1 : word[m] = enc[block_id][m - 1]
                  /\ word[k] = sent + 1
<1> DEFINE k == encoder_params.k
           h == encoder_params.h
           buf == [enc[block_id] EXCEPT ![frame_idx] = sent + 1]
           content == [data |-> sent + 1, word |-> NoWord]
<1>1. /\ encoder_params \in Params /\ block_id \in Blocks /\ frame_idx \in Slots
      /\ enc \in [Blocks -> [Slots -> Absent .. MaxData]] /\ sent \in Nat /\ sent < MaxData
      /\ Len(closed) \in Nat /\ Len(closed) <= sent /\ link \in Seq(LinkFrame)
  BY DEF Typed, EncoderTyped, LinkTyped, SendData
<1>2. /\ k \in Nat \ {0} /\ h \in Nat \ {0} /\ k + h <= NbSlots /\ NbSlots \in Nat /\ MaxData \in Nat
  BY <1>1, ParamFacts
<1>3. Current \in Numbers
  BY <1>1, <1>2 DEF Current, Numbers
<1>4. ASSUME NEW i \in Slots, NEW c \in Content PROVE NewFrame(i, c) \in LinkFrame
  BY <1>1, <1>3, <1>4 DEF NewFrame, LinkFrame, Frame, Numbers
<1>5. content \in Content
  <2>1. sent + 1 \in Absent .. MaxData /\ NoWord \in Seq(1 .. MaxData)
    BY <1>1, <1>2 DEF Absent, NoWord
  <2> QED
    BY <2>1 DEF Content
<1>6. NewFrame(frame_idx, content) \in LinkFrame
  BY <1>1, <1>4, <1>5
<1>7. CASE Completes(k)
  <2>1. frame_idx = k - 1
    BY <1>7 DEF Completes
  <2>2. ASSUME NEW m \in 1 .. k
        PROVE  /\ buf[m - 1] \in Numbers
               /\ m < k => buf[m - 1] = enc[block_id][m - 1]
               /\ m = k => buf[m - 1] = sent + 1
    <3>1. m - 1 \in Slots /\ enc[block_id] \in [Slots -> Absent .. MaxData]
      BY <1>1, <1>2 DEF Slots
    <3>2. CASE m = k
      BY <3>1, <3>2, <2>1, <1>1, <1>2 DEF Numbers
    <3>3. CASE m < k
      <4>1. m - 1 # frame_idx /\ m - 1 \in 0 .. frame_idx - 1
        BY <3>3, <2>1, <1>2
      <4>2. enc[block_id][m - 1] # Absent
        BY <4>1 DEF Typed, FilledInOrder
      <4>3. buf[m - 1] = enc[block_id][m - 1]
        BY <4>1, <3>1
      <4> QED
        BY <4>2, <4>3, <3>1, <1>2, <3>3 DEF Numbers, Absent
    <3> QED
      BY <3>2, <3>3, <1>2
  <2> DEFINE w == [m \in 1 .. k |-> buf[m - 1]]
             pf == ParityFrames(buf)
  <2>3. w \in Seq(Numbers) /\ Len(w) = k /\ \A m \in 1 .. k : w[m] = buf[m - 1]
    BY <2>2, <1>2
  <2> HIDE DEF buf
  <2>4. [data |-> Absent, word |-> w] \in Content
    BY <2>3, <1>2 DEF Content, Absent, Numbers
  <2>5. pf = [n \in 1 .. h |-> NewFrame(k + n - 1, [data |-> Absent, word |-> w])]
    BY DEF ParityFrames
  <2>6. ASSUME NEW n \in 1 .. h PROVE NewFrame(k + n - 1, [data |-> Absent, word |-> w]) \in LinkFrame
    <3>1. k + n - 1 \in Slots
      BY <1>2 DEF Slots
    <3> HIDE DEF w
    <3> QED
      BY <3>1, <2>4, <1>4
  <2> HIDE DEF w
  <2>7. pf \in Seq(LinkFrame) /\ Len(pf) = h
        /\ \A n \in 1 .. h : pf[n] = NewFrame(k + n - 1, [data |-> Absent, word |-> w])
    BY <2>5, <2>6, <1>2
  <2>8. link' = link \o <<NewFrame(frame_idx, content)>> \o pf
    BY <1>7 DEF SendData, buf
  <2> HIDE DEF pf, content
  <2>9. /\ link' \in Seq(LinkFrame) /\ Len(link') = Len(link) + 1 + Len(pf)
        /\ \A i \in 1 .. Len(link) : link'[i] = link[i]
        /\ link'[Len(link) + 1] = NewFrame(frame_idx, content)
        /\ \A j \in 1 .. Len(pf) : link'[Len(link) + 1 + j] = pf[j]
    <3>1. Extended(LinkFrame, link, NewFrame(frame_idx, content), pf, link')
      BY ONLY <2>7, <2>8, <1>1, <1>6, AppendFacts
    <3> QED
      BY ONLY <3>1 DEF Extended
  <2>10. LinkSend(k, h, content, w)
    BY <2>7, <2>9, <1>7, <1>2 DEF LinkSend
  <2>11. Len(w) = k /\ w[k] = sent + 1 /\ \A m \in 1 .. k - 1 : w[m] = enc[block_id][m - 1]
    BY <2>2, <2>3, <1>2
  <2>12. w \in Seq(Numbers)
    BY <2>3
  <2> QED
    BY <2>9, <2>10, <2>11, <2>12 DEF content
<1>8. CASE ~Completes(k)
  <2>1. link' = link \o <<NewFrame(frame_idx, content)>> \o << >>
    BY <1>8 DEF SendData
  <2>2. << >> \in Seq(LinkFrame) /\ Len(<< >>) = 0 /\ << >> \in Seq(Numbers)
    OBVIOUS
  <2> HIDE DEF content
  <2>3. /\ link' \in Seq(LinkFrame) /\ Len(link') = Len(link) + 1 + 0
        /\ \A i \in 1 .. Len(link) : link'[i] = link[i]
        /\ link'[Len(link) + 1] = NewFrame(frame_idx, content)
    <3>1. Extended(LinkFrame, link, NewFrame(frame_idx, content), << >>, link')
      BY ONLY <2>1, <2>2, <1>1, <1>6, AppendFacts
    <3> QED
      BY ONLY <3>1, <2>2 DEF Extended
  <2>4. LinkSend(k, h, content, << >>)
    BY <2>3, <1>8 DEF LinkSend
  <2> WITNESS << >> \in Seq(Numbers)
  <2> QED
    BY <2>3, <2>4, <1>8 DEF content
<1> QED
  BY <1>7, <1>8

(* The next slots are full. *)
LEMMA SendFills ==
    ASSUME Typed, SendData
    PROVE  FilledInOrder' /\ enc' \in [Blocks -> [Slots -> Absent .. MaxData]]
<1> DEFINE k == encoder_params.k
           buf == [enc[block_id] EXCEPT ![frame_idx] = sent + 1]
<1>1. /\ encoder_params \in Params /\ block_id \in Blocks /\ frame_idx \in Slots
      /\ enc \in [Blocks -> [Slots -> Absent .. MaxData]] /\ sent \in Nat /\ sent < MaxData
      /\ FilledInOrder
  BY DEF Typed, EncoderTyped, SendData
<1>2. k \in Nat \ {0} /\ NbSlots \in Nat /\ MaxData \in Nat /\ frame_idx \in Nat
  BY <1>1, ParamFacts DEF Slots
<1>3. /\ frame_idx' = NextIdx(k)
      /\ block_id' = IF NextIdx(k) = 0 THEN (block_id + 1) % MaxBlock ELSE block_id
      /\ enc' = [enc EXCEPT ![block_id] =
                   IF Completes(k) THEN [i \in Slots |-> Absent] ELSE buf]
  BY DEF SendData
<1>4. /\ NextIdx(k) \in Nat /\ NextIdx(k) <= frame_idx + 1 /\ (Completes(k) => NextIdx(k) = 0)
  BY <1>2, NextIdxFacts
<1>5. buf \in [Slots -> Absent .. MaxData] /\ [i \in Slots |-> Absent] \in [Slots -> Absent .. MaxData]
  BY <1>1, <1>2 DEF Absent
<1>6. enc' \in [Blocks -> [Slots -> Absent .. MaxData]]
  BY <1>1, <1>3, <1>5
<1>7. ASSUME NEW i \in 0 .. frame_idx' - 1 PROVE enc'[block_id'][i] # Absent
  <2>1. NextIdx(k) # 0 /\ ~Completes(k) /\ i \in 0 .. frame_idx /\ block_id' = block_id
    BY <1>2, <1>3, <1>4, <1>7
  <2>2. enc'[block_id'] = buf /\ i \in Slots
    BY <2>1, <1>1, <1>2, <1>3 DEF Slots
  <2>3. CASE i = frame_idx
    BY <2>2, <2>3, <1>1, <1>2 DEF Absent
  <2>4. CASE i # frame_idx
    <3>1. i \in 0 .. frame_idx - 1 /\ buf[i] = enc[block_id][i]
      BY <2>1, <2>2, <2>4, <1>1, <1>2
    <3> QED
      BY <3>1, <2>2, <1>1 DEF FilledInOrder
  <2> QED
    BY <2>3, <2>4
<1> QED
  BY <1>6, <1>7 DEF FilledInOrder

(* A packet taken by the encoder keeps the types. *)
LEMMA SendTyped ==
    ASSUME Typed, SendData
    PROVE  Typed'
<1> DEFINE k == encoder_params.k
<1>1. /\ encoder_params \in Params /\ block_id \in Blocks /\ frame_idx \in Slots
      /\ sent \in Nat /\ sent < MaxData
      /\ home \in Seq(Nat) /\ Len(home) = sent
      /\ closed \in Seq(ClosedBlock) /\ Len(closed) <= sent
  BY DEF Typed, EncoderTyped, SendData
<1>2. k \in Nat \ {0} /\ encoder_params.h \in Nat \ {0} /\ k + encoder_params.h <= NbSlots
      /\ NbSlots \in Nat /\ MaxData \in Nat /\ frame_idx \in Nat
      /\ MaxBlock \in Nat \ {0}
  BY <1>1, ParamFacts DEF Slots
<1>3. NextIdx(k) \in 0 .. k - 1
  BY <1>2, NextIdxFacts
<1>4. frame_idx' \in Slots /\ sent' \in 0 .. MaxData
  BY <1>1, <1>2, <1>3 DEF SendData, Slots
<1>5. block_id' \in Blocks
  <2>1. block_id + 1 \in Nat
    BY <1>1, <1>2 DEF Blocks
  <2>2. (block_id + 1) % MaxBlock \in 0 .. MaxBlock - 1
    BY <2>1, <1>2
  <2> QED
    BY <2>2, <1>1 DEF SendData, Blocks
<1>6. home' \in Seq(Nat) /\ Len(home') = sent'
  <2>1. Current \in Nat
    BY <1>1 DEF Current
  <2> QED
    BY <2>1, <1>1 DEF SendData
<1>7. closed' \in Seq(ClosedBlock) /\ Len(closed') <= sent'
  <2> DEFINE c == [h |-> encoder_params.h, data |-> {v \in 1 .. sent + 1 : home'[v] = Current}]
  <2>1. c \in ClosedBlock
    BY <1>1, <1>2 DEF ClosedBlock
  <2>2. closed' = Append(closed, c) \/ closed' = closed
    BY DEF SendData
  <2> HIDE DEF c
  <2>3. sent' = sent + 1 /\ Len(closed) \in Nat
    BY <1>1 DEF SendData
  <2> QED
    BY <2>1, <2>2, <2>3, <1>1
<1>8. EncoderTyped'
  <2>1. encoder_params' = encoder_params
    BY DEF SendData
  <2> QED
    BY <2>1, <1>1, <1>4, <1>5, <1>6, <1>7, SendFills DEF EncoderTyped
<1>9. DecoderTyped'
  BY DEF SendData, Typed, DecoderTyped, decoder
<1>10. LinkTyped'
  <2>1. link' \in Seq(LinkFrame)
    BY SendFacts
  <2> QED
    BY <2>1 DEF SendData, Typed, LinkTyped
<1> QED
  BY <1>8, <1>9, <1>10, SendFills DEF Typed

(* What the decoder puts out after a frame: what it generates, by cases.   *)
(* Nothing; the missing packets, from the words of the parity packets; or  *)
(* garbage.                                                                *)
Generated(buf, nr, r) ==
    \/ Missing(buf) = {} /\ r = << >>
    \/ /\ Missing(buf) # {} /\ Solvable(buf)
       /\ \E j \in Parities(buf) : Word(buf) = buf[j].word
       /\ Len(r) \in Nat
       /\ \E o : /\ \A n \in 1 .. Len(r) : o[n] \in Missing(buf) /\ r[n] = Word(buf)[o[n] + 1]
                 /\ \A n, l \in 1 .. Len(r) : n < l => o[n] < o[l]
                 /\ \A x \in Missing(buf) : \E n \in 1 .. Len(r) : o[n] = x
    \/ /\ Missing(buf) # {} /\ ~Solvable(buf)
       /\ \A n \in 1 .. Len(r) : r[n] = -nr

(* Decoding a block generates one of these, and with the right types.      *)
LEMMA RecoveredFacts ==
    ASSUME decoder_params \in Params, NEW buf \in [Slots -> Content], can_decode(buf),
           NEW nr \in Numbers, NEW r \in Recovered(buf, nr)
    PROVE  Generated(buf, nr, r) /\ r \in Seq(Outputs)
<1> DEFINE k == decoder_params.k
           M == Missing(buf)
           ord == InOrder(M)
<1>1. k \in Nat \ {0} /\ MaxData \in Nat /\ NbSlots \in Nat
      /\ DataIdx(decoder_params) \subseteq Slots /\ ParityIdx(decoder_params) \subseteq Slots
  BY ParamFacts
<1>2. nr \in Nat /\ nr <= MaxData /\ nr > 0
  BY <1>1 DEF Numbers
<1>3. M \subseteq DataIdx(decoder_params) /\ M \subseteq Int /\ IsFiniteSet(M)
  <2>1. M \subseteq DataIdx(decoder_params) /\ DataIdx(decoder_params) \subseteq Int
    BY <1>1 DEF Missing, DataIdx
  <2>2. IsFiniteSet(DataIdx(decoder_params))
    BY <1>1, FS_Interval DEF DataIdx
  <2> QED
    BY <2>1, <2>2, FS_Subset
<1>4. /\ ord \in Seq(M) /\ Len(ord) = Cardinality(M) /\ Cardinality(M) \in Nat
      /\ \A n \in 1 .. Len(ord) : ord[n] \in M
      /\ \A n, l \in 1 .. Len(ord) : n < l => ord[n] < ord[l]
      /\ \A x \in M : \E n \in 1 .. Len(ord) : ord[n] = x
  BY <1>3, InOrderFacts
<1>5. CASE M = {}
  BY <1>5 DEF Recovered, Generated
<1>6. CASE M # {} /\ Solvable(buf)
  <2>1. \E j \in Parities(buf) : Word(buf) = buf[j].word
    <3>1. Cardinality(M) # 0
      BY <1>3, <1>6, FS_EmptySet
    <3>2. Parities(buf) # {}
      <4> SUFFICES ASSUME Parities(buf) = {} PROVE FALSE
        OBVIOUS
      <4>1. Cardinality(Parities(buf)) = 0
        BY FS_EmptySet
      <4> QED
        BY <4>1, <3>1, <1>4 DEF can_decode
    <3> QED
      BY <3>2 DEF Word
  <2>2. Word(buf) \in Seq(1 .. MaxData) /\ Len(Word(buf)) = k
    <3>1. PICK j \in Parities(buf) : Word(buf) = buf[j].word
      BY <2>1
    <3>2. j \in Slots
      BY <3>1, <1>1 DEF Parities
    <3>3. buf[j] \in Content
      BY <3>2
    <3> QED
      BY <3>1, <3>3, <1>6 DEF Content, Solvable
  <2>3. r = [n \in 1 .. Len(ord) |-> Word(buf)[ord[n] + 1]]
    BY <1>6 DEF Recovered
  <2>4. ASSUME NEW n \in 1 .. Len(ord) PROVE Word(buf)[ord[n] + 1] \in Outputs
    <3>1. ord[n] \in 0 .. k - 1
      BY <1>3, <1>4 DEF DataIdx
    <3>2. PICK x : x = ord[n]
      OBVIOUS
    <3>3. x + 1 \in 1 .. Len(Word(buf))
      BY <3>1, <3>2, <2>2, <1>1
    <3>4. Word(buf)[x + 1] \in 1 .. MaxData
      <4>1. PICK w \in Seq(Numbers) : w = Word(buf)
        BY <2>2 DEF Numbers
      <4>2. PICK y \in 1 .. Len(w) : y = x + 1
        BY <3>3, <4>1
      <4>3. w[y] \in Numbers
        BY ONLY w \in Seq(Numbers), y \in 1 .. Len(w)
      <4> QED
        BY <4>1, <4>2, <4>3 DEF Numbers
    <3> QED
      BY <3>2, <3>4, <1>1 DEF Outputs
  <2> HIDE DEF ord
  <2>5. r \in Seq(Outputs) /\ Len(r) = Len(ord) /\ \A n \in 1 .. Len(ord) : r[n] = Word(buf)[ord[n] + 1]
    BY <2>3, <2>4, <1>4
  <2>6. \E o : /\ \A n \in 1 .. Len(r) : o[n] \in M /\ r[n] = Word(buf)[o[n] + 1]
               /\ \A n, l \in 1 .. Len(r) : n < l => o[n] < o[l]
               /\ \A x \in M : \E n \in 1 .. Len(r) : o[n] = x
    BY <2>5, <1>4
  <2>7. Len(r) \in Nat
    BY <2>5
  <2> QED
    BY <2>1, <2>5, <2>6, <2>7, <1>6 DEF Generated
<1>7. CASE M # {} /\ ~Solvable(buf)
  <2>1. PICK c \in 0 .. Len(ord) : r = [n \in 1 .. c |-> -nr]
    BY <1>7 DEF Recovered
  <2>2. -nr \in Outputs
    BY <1>1, <1>2 DEF Outputs
  <2>3. c \in Nat
    BY <1>4
  <2>4. r \in Seq(Outputs) /\ Len(r) = c /\ \A n \in 1 .. c : r[n] = -nr
    BY <2>1, <2>2, <2>3
  <2> QED
    BY <2>4, <1>7 DEF Generated
<1> QED
  BY <1>5, <1>6, <1>7

(* What the program forwards of a frame itself. *)
LEMMA PassedTyped ==
    ASSUME NEW f \in LinkFrame, MaxData \in Nat
    PROVE  Passed(f) \in Seq(Outputs)
<1>1. f.nr \in Numbers /\ f.content.data \in Absent .. MaxData
  BY DEF LinkFrame, Frame, Content
<1>2. -f.nr \in Outputs /\ f.content.data \in Outputs
  BY <1>1 DEF Numbers, Outputs, Absent
<1> QED
  BY <1>2 DEF Passed

(* A frame off the link. *)
LEMMA LinkTail ==
    ASSUME link \in Seq(LinkFrame), link # << >>, link' = Tail(link)
    PROVE  /\ link' \in Seq(LinkFrame) /\ Len(link) \in Nat /\ Len(link) > 0
           /\ Len(link') = Len(link) - 1 /\ Head(link) = link[1] /\ Head(link) \in LinkFrame
           /\ \A i \in 1 .. Len(link) - 1 : link'[i] = link[i + 1]
<1>1. Len(link) \in Nat /\ Len(link) > 0
  OBVIOUS
<1>2. /\ link' \in Seq(LinkFrame) /\ Len(link') = Len(link) - 1
      /\ Head(link) = link[1]
  OBVIOUS
<1>3. Head(link) \in LinkFrame
  OBVIOUS
<1>4. \A i \in 1 .. Len(link) - 1 : link'[i] = link[i + 1]
  OBVIOUS
<1> QED
  BY <1>1, <1>2, <1>3, <1>4

(* What the decoder does with a frame f, with the buffer new that it has   *)
(* after inserting the frame.                                              *)
Inserted(f, new) ==
    /\ new \in [Slots -> Content]
    /\ new[f.idx] = f.content
    /\ StartsBlock(f) => \A i \in Slots : i # f.idx => new[i] = NoContent
    /\ ~StartsBlock(f) => \A i \in Slots : i # f.idx => new[i] = dec[last_block][i]
    /\ last_block' = f.block /\ packet_idx' = f.idx /\ forwarded' = can_decode(new)
    /\ dec' \in [Blocks -> [Slots -> Content]]
    /\ ~forwarded' => dec'[last_block'] = new

(* Receive, and what is put out. *)
LEMMA ReceiveFacts ==
    ASSUME Typed, Receive
    PROVE  \E f \in LinkFrame, new \in [Slots -> Content], r \in Seq(Outputs) :
             /\ TakeFrame(f) /\ f = link[1]
             /\ StartsBlock(f) \/ ~forwarded
             /\ Inserted(f, new)
             /\ out' = out \o Passed(f) \o r
             /\ can_decode(new) => Generated(new, f.nr, r)
             /\ ~can_decode(new) => r = << >>
<1>1. PICK f : f = Head(link)
  OBVIOUS
<1> DEFINE old == IF StartsBlock(f) THEN [i \in Slots |-> NoContent] ELSE dec[f.block]
           n == [old EXCEPT ![f.idx] = f.content]
<1>2. /\ TakeFrame(f)
      /\ StartsBlock(f) \/ ~forwarded
      /\ last_block' = f.block /\ packet_idx' = f.idx /\ forwarded' = can_decode(n)
      /\ dec' = [dec EXCEPT ![f.block] = IF can_decode(n) THEN [i \in Slots |-> NoContent] ELSE n]
      /\ \E r \in (IF can_decode(n) THEN Recovered(n, f.nr) ELSE {<< >>}) :
           out' = out \o Passed(f) \o r
  BY <1>1 DEF Receive
<1>3. /\ link \in Seq(LinkFrame) /\ link # << >> /\ dec \in [Blocks -> [Slots -> Content]]
      /\ decoder_params \in Params
  BY <1>2 DEF Typed, LinkTyped, DecoderTyped, TakeFrame
<1>4. f \in LinkFrame /\ f = link[1]
  BY <1>1, <1>3
<1>5. /\ f.block \in Blocks /\ f.idx \in Slots /\ f.content \in Content /\ f.nr \in Numbers
  BY <1>4 DEF LinkFrame, Frame
<1>6. NoContent \in Content
  <2>1. MaxData \in Nat
    BY <1>3, ParamFacts
  <2> QED
    BY <2>1 DEF NoContent, Content, Absent, NoWord
<1>7. old \in [Slots -> Content]
  BY <1>3, <1>5, <1>6
<1>8. n \in [Slots -> Content] /\ n[f.idx] = f.content
      /\ \A i \in Slots : i # f.idx => n[i] = old[i]
  <2> HIDE DEF old
  <2> QED
    BY <1>5, <1>7
<1>9. PICK new : new = n
  OBVIOUS
<1>10. Inserted(f, new)
  <2>1. StartsBlock(f) => \A i \in Slots : i # f.idx => new[i] = NoContent
    BY <1>8, <1>9
  <2>2. ~StartsBlock(f) => \A i \in Slots : i # f.idx => new[i] = dec[last_block][i]
    <3>1. ~StartsBlock(f) => f.block = last_block
      BY DEF StartsBlock
    <3> QED
      BY <3>1, <1>8, <1>9
  <2> HIDE DEF n
  <2>3. dec' \in [Blocks -> [Slots -> Content]]
    <3>1. [i \in Slots |-> NoContent] \in [Slots -> Content]
      BY <1>6
    <3> QED
      BY <3>1, <1>2, <1>3, <1>8
  <2>4. ~forwarded' => dec'[last_block'] = new
    BY <1>2, <1>3, <1>5, <1>9
  <2> QED
    BY <2>1, <2>2, <2>3, <2>4, <1>2, <1>8, <1>9 DEF Inserted
<1> HIDE DEF n
<1>11. PICK r \in (IF can_decode(new) THEN Recovered(new, f.nr) ELSE {<< >>}) :
           out' = out \o Passed(f) \o r
  BY <1>2, <1>9
<1>12. r \in Seq(Outputs) /\ (can_decode(new) => Generated(new, f.nr, r))
       /\ (~can_decode(new) => r = << >>)
  <2>1. CASE can_decode(new)
    <3>1. r \in Recovered(new, f.nr) /\ new \in [Slots -> Content]
      BY <2>1, <1>8, <1>9, <1>11
    <3>2. Generated(new, f.nr, r) /\ r \in Seq(Outputs)
      BY ONLY <3>1, <2>1, <1>3, <1>5, RecoveredFacts
    <3> QED
      BY <3>2, <2>1
  <2>2. CASE ~can_decode(new)
    BY <2>2, <1>11
  <2> QED
    BY <2>1, <2>2
<1>13. new \in [Slots -> Content]
  BY <1>8, <1>9
<1> QED
  BY <1>2, <1>4, <1>10, <1>11, <1>12, <1>13

(* A frame taken by the decoder keeps the types. *)
LEMMA TakeTyped ==
    ASSUME Typed, NEW f, TakeFrame(f), DecoderTyped'
    PROVE  Typed'
<1>1. EncoderTyped'
  BY DEF Typed, EncoderTyped, TakeFrame, encoder
<1>2. FilledInOrder'
  BY DEF Typed, FilledInOrder, TakeFrame, encoder
<1>3. MaxBurst \in Nat
  BY ParamFacts DEF Typed, EncoderTyped
<1>4. link' \in Seq(LinkFrame)
  BY LinkTail DEF Typed, LinkTyped, TakeFrame
<1>5. LinkTyped'
  BY <1>3, <1>4 DEF Typed, LinkTyped, TakeFrame
<1> QED
  BY <1>1, <1>2, <1>5 DEF Typed

(* Every step keeps the types. *)
LEMMA TypedStep ==
    ASSUME Typed, [Next]_vars
    PROVE  Typed'
<1>1. CASE SendData
  BY <1>1, SendTyped
<1>2. ASSUME NEW p \in Params, ChangeEncoder(p) \/ ChangeDecoder(p) PROVE Typed'
  <2>1. MaxChanges \in Nat
    BY ParamFacts
  <2>2. EncoderTyped'
    BY <1>2 DEF ChangeEncoder, ChangeDecoder, encoder, Typed, EncoderTyped
  <2>3. DecoderTyped'
    BY <1>2 DEF ChangeEncoder, ChangeDecoder, decoder, Typed, DecoderTyped
  <2>4. LinkTyped'
    BY <1>2, <2>1 DEF ChangeEncoder, ChangeDecoder, Typed, LinkTyped
  <2>5. FilledInOrder'
    BY <1>2 DEF ChangeEncoder, ChangeDecoder, encoder, Typed, FilledInOrder
  <2> QED
    BY <2>2, <2>3, <2>4, <2>5 DEF Typed
<1>3. CASE Lose
  <2>1. EncoderTyped'
    BY <1>3 DEF Lose, encoder, Typed, EncoderTyped
  <2>2. DecoderTyped'
    BY <1>3 DEF Lose, decoder, Typed, DecoderTyped
  <2>3. MaxBurst \in Nat
    BY ParamFacts DEF Typed, EncoderTyped
  <2>4. link' \in Seq(LinkFrame) /\ Head(link) \in LinkFrame
    BY <1>3, LinkTail DEF Typed, LinkTyped, Lose
  <2>5. Head(link).nr \in Numbers
    BY <2>4 DEF LinkFrame
  <2>6. lost' \in [Numbers -> Nat]
    BY <1>3, <2>5 DEF Lose, Typed, LinkTyped
  <2>7. LinkTyped'
    BY <1>3, <2>3, <2>4, <2>6 DEF Lose, Typed, LinkTyped
  <2>8. FilledInOrder'
    BY <1>3 DEF Lose, encoder, Typed, FilledInOrder
  <2> QED
    BY <2>1, <2>2, <2>7, <2>8 DEF Typed
<1>4. CASE Skip
  <2>1. PICK f : f = Head(link)
    OBVIOUS
  <2>2. TakeFrame(f) /\ out' = out \o Passed(f)
    BY <1>4, <2>1 DEF Skip
  <2>3. f \in LinkFrame /\ MaxData \in Nat
    BY <2>1, <2>2, LinkTail, ParamFacts DEF TakeFrame, Typed, LinkTyped, EncoderTyped
  <2>4. Passed(f) \in Seq(Outputs) /\ out \in Seq(Outputs)
    BY <2>3, PassedTyped DEF Typed, DecoderTyped
  <2>5. out' \in Seq(Outputs)
    BY ONLY <2>2, <2>4
  <2>6. DecoderTyped'
    BY <1>4, <2>2, <2>5 DEF Skip, TakeFrame, Typed, DecoderTyped
  <2> QED
    BY <2>2, <2>6, TakeTyped
<1>5. CASE Receive
  <2>1. PICK f \in LinkFrame, new \in [Slots -> Content], r \in Seq(Outputs) :
             /\ TakeFrame(f) /\ Inserted(f, new)
             /\ out' = out \o Passed(f) \o r
    BY <1>5, ReceiveFacts
  <2>2. MaxData \in Nat
    BY ParamFacts DEF Typed, EncoderTyped
  <2>3. Passed(f) \in Seq(Outputs) /\ out \in Seq(Outputs)
    BY <2>2, PassedTyped DEF Typed, DecoderTyped
  <2>4. PICK p \in Seq(Outputs) : p = Passed(f)
    BY <2>3
  <2>5. out \o p \in Seq(Outputs)
    BY <2>3
  <2>6. (out \o p) \o r \in Seq(Outputs)
    BY ONLY <2>5, r \in Seq(Outputs)
  <2>7. out' \in Seq(Outputs)
    BY <2>1, <2>4, <2>6
  <2>8. f.block \in Blocks /\ f.idx \in Slots
    BY DEF LinkFrame, Frame
  <2>9. forwarded' \in BOOLEAN
    BY <2>1 DEF Inserted, can_decode
  <2>10. DecoderTyped'
    BY <2>1, <2>7, <2>8, <2>9 DEF Inserted, TakeFrame, Typed, DecoderTyped
  <2> QED
    BY <2>1, <2>10, TakeTyped
<1>6. CASE UNCHANGED vars
  BY <1>6 DEF vars, encoder, decoder, Typed, EncoderTyped, DecoderTyped, LinkTyped, FilledInOrder
<1> QED
  BY <1>1, <1>2, <1>3, <1>4, <1>5, <1>6 DEF Next

(* The boosters start with the types. *)
LEMMA TypedInit ==
    ASSUME Init
    PROVE  Typed
<1>1. /\ encoder_params \in Params /\ decoder_params \in Params
  BY DEF Init
<1>2. /\ NbSlots \in Nat /\ NbSlots > 0 /\ MaxBlock \in Nat /\ MaxBlock > 1 /\ MaxData \in Nat
      /\ MaxBurst \in Nat /\ MaxChanges \in Nat
  BY <1>1, ParamFacts
<1>3. EncoderTyped
  BY <1>1, <1>2 DEF Init, EncoderTyped, Blocks, Slots, Absent
<1>4. NoContent \in Content
  BY <1>2 DEF NoContent, Content, Absent, NoWord
<1>5. DecoderTyped
  <2>1. dec \in [Blocks -> [Slots -> Content]]
    BY <1>4 DEF Init
  <2>2. last_block \in Blocks \cup {-1} /\ packet_idx \in Slots
    BY <1>2 DEF Init, Slots
  <2>3. out \in Seq(Outputs)
    BY DEF Init
  <2>4. forwarded \in BOOLEAN
    BY DEF Init
  <2> QED
    BY <2>1, <2>2, <2>3, <2>4, <1>1 DEF DecoderTyped
<1>6. LinkTyped
  BY <1>2 DEF Init, LinkTyped, Numbers
<1>7. FilledInOrder
  BY DEF Init, FilledInOrder
<1> QED
  BY <1>3, <1>5, <1>6, <1>7 DEF Typed

(* The types and the order in which slots are filled are invariants. *)
LEMMA TypedAlways == Spec => []Typed
<1>1. Init => Typed
  BY TypedInit
<1>2. Typed /\ [Next]_vars => Typed'
  BY TypedStep
<1> QED
  BY <1>1, <1>2, PTL DEF Spec

(* TypeOK is an invariant of the FEC boosters in the switch: in particular *)
(* every index that the encoder or the decoder uses lies in the buffer of  *)
(* fecBooster.c, whatever the tables are changed to, and when.             *)
THEOREM SwitchFecTyped == Spec => []TypeOK
<1>1. Typed => TypeOK
  <2> SUFFICES ASSUME Typed PROVE TypeOK
    OBVIOUS
  <2>1. \A i \in 1 .. Len(link) : link[i] \in Frame
    BY DEF Typed, LinkTyped, LinkFrame
  <2>2. \A i \in 1 .. Len(out) : out[i] \in -MaxData .. MaxData
    <3>1. out \in Seq(Outputs)
      BY DEF Typed, DecoderTyped
    <3>2. \A i \in 1 .. Len(out) : out[i] \in Outputs
      BY ONLY <3>1
    <3> QED
      BY <3>2 DEF Outputs
  <2> QED
    BY <2>1, <2>2 DEF Typed, EncoderTyped, DecoderTyped, LinkTyped, TypeOK
<1> QED
  BY <1>1, TypedAlways, PTL

(* FilledInOrder is an invariant of the FEC boosters in the switch: the    *)
(* encoder never finds a slot of a block empty, for any changes of k.      *)
THEOREM SlotsFilledInOrder == Spec => []FilledInOrder
<1>1. Typed => FilledInOrder
  BY DEF Typed
<1> QED
  BY <1>1, TypedAlways, PTL

-----------------------------------------------------------------------------
(* The stream of frames.  The state is described with three unknowns: s[n] *)
(* packets precede block n, q[n] are the parameters that block n is sent   *)
(* with (if no change touches it), and m is the block that the decoder     *)
(* took the last frame of.                                                 *)

(* The frame at a place of the link; behind its last frame, the frame that *)
(* the encoder sends next.                                                 *)
NrAt(i) == IF i <= Len(link) THEN link[i].nr ELSE Current
IdxAt(i) == IF i <= Len(link) THEN link[i].idx ELSE frame_idx

(* What slot i of block n holds. *)
Expected(s, q, n, i) ==
    IF i < q[n].k THEN [data |-> s[n] + i + 1, word |-> NoWord]
    ELSE [data |-> Absent, word |-> [j \in 1 .. q[n].k |-> s[n] + j]]

(* A packet of block n; a content that consists of packets of block n. *)
Home(n, v) == v \in 1 .. sent /\ home[v] = n
OfBlock(n, c) ==
    /\ c # NoContent
    /\ c.data # Absent => Home(n, c.data)
    /\ \A j \in 1 .. Len(c.word) : Home(n, c.word[j])

(* The block that the encoder fills: only slots below frame_idx count, for *)
(* a block that ends without parity leaves its packets in the buffer.      *)
EncoderAt(s, q) ==
    /\ block_id = Len(closed) % MaxBlock
    /\ \A v \in 1 .. sent : home[v] \in 1 .. Current /\ (home[v] = Current <=> s[Current] < v)
    /\ \A i \in 0 .. frame_idx - 1 : Home(Current, enc[block_id][i])
    /\ s[Current] <= sent /\ (frame_idx = 0 => s[Current] = sent)
    /\ Current \notin touched /\ frame_idx > 0 =>
          /\ q[Current] = encoder_params /\ frame_idx < encoder_params.k
          /\ sent = s[Current] + frame_idx
          /\ \A i \in 0 .. frame_idx - 1 : enc[block_id][i] = s[Current] + i + 1

(* The blocks that it has closed. *)
BlocksClosed(s, q) ==
    \A n \in 1 .. Len(closed) : n \notin touched =>
        /\ closed[n].h = q[n].h /\ closed[n].data = s[n] + 1 .. s[n] + q[n].k
        /\ s[n] + q[n].k <= sent
        /\ \A v \in 1 .. sent : home[v] = n <=> v \in s[n] + 1 .. s[n] + q[n].k

(* The frames on the link, and their order. *)
FrameOK(s, q, f) ==
    /\ f.nr \in 1 .. Current /\ (f.nr = Current => frame_idx > 0)
    /\ f.block = (f.nr - 1) % MaxBlock
    /\ OfBlock(f.nr, f.content)
    /\ f.content.data = Absent => f.idx >= f.par.k
    /\ f.nr \notin touched =>
         f.par = q[f.nr] /\ f.idx < Size(q[f.nr]) /\ f.content = Expected(s, q, f.nr, f.idx)

FramesOK(s, q) == \A i \in 1 .. Len(link) : FrameOK(s, q, link[i])

Follows(q, n, i, n2, i2) ==
    \/ n2 = n /\ i2 <= i + 1 /\ (n \notin touched => i2 = i + 1)
    \/ n2 = n + 1 /\ i2 = 0 /\ i > 0 /\ (n \notin touched => i + 1 = Size(q[n]))

InSequence(q) ==
    /\ \A i \in 1 .. Len(link) : Follows(q, NrAt(i), IdxAt(i), NrAt(i + 1), IdxAt(i + 1))
    /\ \A i, j \in 1 .. Len(link) + 1 : i < j => NrAt(i) <= NrAt(j)
    /\ \A n \in NrAt(1) .. Len(closed) : \E i \in 1 .. Len(link) : NrAt(i) = n

StreamOK(s, q) == EncoderAt(s, q) /\ BlocksClosed(s, q) /\ FramesOK(s, q) /\ InSequence(q)

Streams(s, q) == s \in [Nat -> Nat] /\ q \in [Nat -> Params]

(* The parameters of the block that the encoder is about to fill. *)
Set(q) == Current \notin touched => q[Current] = encoder_params

-----------------------------------------------------------------------------
(* A packet enters the encoder: its frame takes the place behind the link, *)
(* parity frames may follow.                                               *)

(* The places on the link after the step. *)
PlacesSent(k, h, L, c) ==
    /\ c = (IF Completes(k) THEN h ELSE 0)
    /\ L = Len(link) /\ Len(link') = L + 1 + c
    /\ \A i \in 1 .. L + 1 : NrAt(i)' = NrAt(i) /\ IdxAt(i)' = IdxAt(i)
    /\ \A j \in 1 .. c : NrAt(L + 1 + j)' = Current /\ IdxAt(L + 1 + j)' = k + j - 1
    /\ NrAt(L + 2 + c)' = Current' /\ IdxAt(L + 2 + c)' = NextIdx(k)
    /\ Current' = (IF NextIdx(k) = 0 THEN Current + 1 ELSE Current)

(* SendData brings those places about. *)
LEMMA SendPlaces ==
    ASSUME Typed, SendData
    PROVE  \E L \in Nat, c \in Nat : PlacesSent(encoder_params.k, encoder_params.h, L, c)
<1>1. PICK k, h : k = encoder_params.k /\ h = encoder_params.h
  OBVIOUS
<1>2. k \in Nat \ {0} /\ h \in Nat \ {0}
  BY <1>1, ParamFacts DEF Typed, EncoderTyped
<1>3. PICK word : LinkSend(k, h, [data |-> sent + 1, word |-> NoWord], word)
  BY <1>1, SendFacts
<1>4. PICK L \in Nat : L = Len(link)
  BY DEF Typed, LinkTyped
<1>5. PICK c \in Nat : c = (IF Completes(k) THEN h ELSE 0)
  BY <1>2
<1>6. Len(link') = L + 1 + c
  BY <1>3, <1>4, <1>5 DEF LinkSend
<1>7. \A i \in 1 .. L : NrAt(i)' = NrAt(i) /\ IdxAt(i)' = IdxAt(i)
  <2> SUFFICES ASSUME NEW i \in 1 .. L PROVE NrAt(i)' = NrAt(i) /\ IdxAt(i)' = IdxAt(i)
    OBVIOUS
  <2>1. link'[i] = link[i] /\ i <= Len(link) /\ i <= Len(link')
    BY <1>3, <1>4, <1>6 DEF LinkSend
  <2> QED
    BY <2>1 DEF NrAt, IdxAt
<1>8. NrAt(L + 1)' = NrAt(L + 1) /\ IdxAt(L + 1)' = IdxAt(L + 1)
  <2>1. link'[L + 1] = NewFrame(frame_idx, [data |-> sent + 1, word |-> NoWord])
    BY <1>3, <1>4 DEF LinkSend
  <2>2. ~(L + 1 <= Len(link)) /\ L + 1 <= Len(link')
    BY <1>4, <1>6
  <2> QED
    BY <2>1, <2>2 DEF NrAt, IdxAt, NewFrame
<1>9. \A j \in 1 .. c : NrAt(L + 1 + j)' = Current /\ IdxAt(L + 1 + j)' = k + j - 1
  <2> SUFFICES ASSUME NEW j \in 1 .. c
               PROVE  NrAt(L + 1 + j)' = Current /\ IdxAt(L + 1 + j)' = k + j - 1
    OBVIOUS
  <2>1. link'[L + 1 + j] = NewFrame(k + j - 1, [data |-> Absent, word |-> word])
    BY <1>3, <1>4, <1>5 DEF LinkSend
  <2>2. L + 1 + j <= Len(link')
    BY <1>6
  <2> QED
    BY <2>1, <2>2 DEF NrAt, IdxAt, NewFrame
<1>10. NrAt(L + 2 + c)' = Current' /\ IdxAt(L + 2 + c)' = NextIdx(k)
  <2>1. ~(L + 2 + c <= Len(link'))
    BY <1>6
  <2>2. frame_idx' = NextIdx(k)
    BY <1>1 DEF SendData
  <2> QED
    BY <2>1, <2>2 DEF NrAt, IdxAt
<1>11. Current' = (IF NextIdx(k) = 0 THEN Current + 1 ELSE Current)
  <2> DEFINE cl == [h |-> encoder_params.h, data |-> {v \in 1 .. sent + 1 : home'[v] = Current}]
  <2>1. closed' = IF NextIdx(k) = 0 THEN Append(closed, cl) ELSE closed
    BY <1>1 DEF SendData
  <2>2. closed \in Seq(ClosedBlock)
    BY DEF Typed, EncoderTyped
  <2> HIDE DEF cl
  <2>3. NextIdx(k) = 0 => Len(closed') = Len(closed) + 1
    BY <2>1, <2>2
  <2> QED
    BY <2>1, <2>3, <2>2 DEF Current
<1>12. \A i \in 1 .. L + 1 : NrAt(i)' = NrAt(i) /\ IdxAt(i)' = IdxAt(i)
  <2> SUFFICES ASSUME NEW i \in 1 .. L + 1 PROVE NrAt(i)' = NrAt(i) /\ IdxAt(i)' = IdxAt(i)
    OBVIOUS
  <2>1. CASE i = L + 1
    BY <2>1, <1>8
  <2>2. CASE i \in 1 .. L
    BY <2>2, <1>7
  <2> QED
    BY <2>1, <2>2
<1>13. PlacesSent(k, h, L, c)
  BY <1>4, <1>5, <1>6, <1>9, <1>10, <1>11, <1>12 DEF PlacesSent
<1> QED
  BY <1>1, <1>13

(* The packet belongs to the current block. *)
LEMMA SendHome ==
    ASSUME Typed, SendData
    PROVE  /\ sent \in Nat /\ sent' = sent + 1 /\ Current \in Nat \ {0} /\ Current <= MaxData
           /\ \A v \in 1 .. sent : home'[v] = home[v]
           /\ home'[sent + 1] = Current
           /\ \A n, v : Home(n, v) => Home(n, v)'
<1>1. /\ sent \in Nat /\ sent < MaxData /\ home \in Seq(Nat) /\ Len(home) = sent
      /\ closed \in Seq(ClosedBlock) /\ Len(closed) <= sent
  BY DEF Typed, EncoderTyped, SendData
<1>2. sent' = sent + 1 /\ home' = Append(home, Current)
  BY DEF SendData
<1>3. Current \in Nat \ {0} /\ Current <= MaxData
  <2>1. Len(closed) \in Nat /\ MaxData \in Int
    BY <1>1, ParamFacts DEF Typed, EncoderTyped
  <2> QED
    BY <2>1, <1>1 DEF Current
<1>4. (\A v \in 1 .. sent : home'[v] = home[v]) /\ home'[sent + 1] = Current
  BY <1>1, <1>2, <1>3
<1>5. \A n, v : Home(n, v) => Home(n, v)'
  BY <1>1, <1>2, <1>4 DEF Home
<1> QED
  BY <1>1, <1>2, <1>3, <1>4, <1>5


(* The next block starts where this one ends. *)
NextStart(s, k) == IF NextIdx(k) = 0 THEN [s EXCEPT ![Current + 1] = sent + 1] ELSE s

(* The facts about the step that the lemmas below start from. *)
SendStep(s, q, t, k, h, N, fi, S) ==
    /\ k \in Nat \ {0} /\ h \in Nat \ {0} /\ N \in Nat \ {0} /\ fi \in Nat /\ S \in Nat
    /\ t \in [Nat -> Nat] /\ (\A n \in Nat : n <= N => t[n] = s[n])
    /\ encoder_params.k = k /\ encoder_params.h = h /\ Current = N /\ frame_idx = fi /\ sent = S
    /\ encoder_params' = encoder_params /\ touched' = touched
    /\ frame_idx' = NextIdx(k) /\ NextIdx(k) \in 0 .. k - 1 /\ NextIdx(k) <= fi + 1
    /\ Completes(k) <=> fi + 1 = k
    /\ Completes(k) => NextIdx(k) = 0
    /\ NextIdx(k) = 0 /\ ~Completes(k) => fi > 0
    /\ N \notin touched => /\ q[N] = encoder_params /\ fi < k /\ S = s[N] + fi
                           /\ (~Completes(k) => NextIdx(k) = fi + 1)
    /\ Current' = (IF NextIdx(k) = 0 THEN N + 1 ELSE N)
    /\ NextIdx(k) = 0 => t[N + 1] = S + 1
    /\ sent' = S + 1
    /\ \A v \in 1 .. S : home'[v] = home[v]
    /\ home'[S + 1] = N

(* Every packet taken by the encoder is such a step. *)
LEMMA SendIsStep ==
    ASSUME Typed, SendData, NEW s, NEW q, Streams(s, q), EncoderAt(s, q), Set(q)
    PROVE  \E t, k, h, N, fi, S : SendStep(s, q, t, k, h, N, fi, S)
<1>1. PICK k, h, N, fi, S : /\ k = encoder_params.k /\ h = encoder_params.h /\ N = Current
                            /\ fi = frame_idx /\ S = sent
  OBVIOUS
<1>2. k \in Nat \ {0} /\ h \in Nat \ {0}
  BY <1>1, ParamFacts DEF Typed, EncoderTyped
<1>3. fi \in Nat
  BY <1>1, ParamFacts DEF Typed, EncoderTyped, Slots
<1>4. /\ S \in Nat /\ sent' = S + 1 /\ N \in Nat \ {0}
      /\ \A v \in 1 .. S : home'[v] = home[v]
      /\ home'[S + 1] = N
  BY <1>1, SendHome
<1>5. /\ NextIdx(k) \in 0 .. k - 1 /\ NextIdx(k) <= fi + 1
      /\ Completes(k) => NextIdx(k) = 0
      /\ NextIdx(k) = 0 /\ ~Completes(k) => fi > 0
      /\ fi < k /\ ~Completes(k) => NextIdx(k) = fi + 1
  BY <1>1, <1>2, <1>3, NextIdxFacts
<1>6. Completes(k) <=> fi + 1 = k
  BY <1>1, <1>2, <1>3 DEF Completes
<1>7. encoder_params' = encoder_params /\ touched' = touched /\ frame_idx' = NextIdx(k)
  BY <1>1 DEF SendData
<1>8. N \notin touched => q[N] = encoder_params /\ fi < k /\ S = s[N] + fi
  <2>1. s[N] \in Nat
    BY <1>4 DEF Streams
  <2> QED
    BY <2>1, <1>1, <1>2, <1>3, <1>4 DEF EncoderAt, Set
<1>9. Current' = (IF NextIdx(k) = 0 THEN N + 1 ELSE N)
  BY <1>1, SendPlaces DEF PlacesSent
<1>10. PICK t : t = NextStart(s, k)
  OBVIOUS
<1>11. /\ t \in [Nat -> Nat] /\ (\A n \in Nat : n <= N => t[n] = s[n])
       /\ NextIdx(k) = 0 => t[N + 1] = S + 1
  <2>1. t = IF NextIdx(k) = 0 THEN [s EXCEPT ![N + 1] = S + 1] ELSE s
    BY <1>1, <1>10 DEF NextStart
  <2>2. s \in [Nat -> Nat] /\ N + 1 \in Nat /\ S + 1 \in Nat
    BY <1>4 DEF Streams
  <2> QED
    BY <2>1, <2>2, <1>4
<1>12. SendStep(s, q, t, k, h, N, fi, S)
  BY <1>1, <1>2, <1>3, <1>4, <1>5, <1>6, <1>7, <1>8, <1>9, <1>11 DEF SendStep
<1> QED
  BY <1>12

(* The encoder after the step. *)
LEMMA SendEncoder ==
    ASSUME Typed, SendData, NEW s, NEW q, NEW t, NEW k, NEW h, NEW N, NEW fi, NEW S,
           Streams(s, q), EncoderAt(s, q), SendStep(s, q, t, k, h, N, fi, S)
    PROVE  EncoderAt(t, q)'
<1> USE DEF SendStep
<1>1. s[N] \in Nat /\ s[N] <= S /\ (fi = 0 => s[N] = S) /\ t[N] = s[N]
  BY DEF Streams, EncoderAt
<1>2. block_id' = Len(closed') % MaxBlock
  <2>1. Len(closed) \in Nat /\ Len(closed) = N - 1 /\ Len(closed') = Current' - 1
    <3>1. closed \in Seq(ClosedBlock) /\ closed' \in Seq(ClosedBlock)
      BY SendTyped DEF Typed, EncoderTyped
    <3> QED
      BY <3>1 DEF Current
  <2>2. block_id = Len(closed) % MaxBlock
    BY DEF EncoderAt
  <2>3. block_id' = IF NextIdx(k) = 0 THEN (block_id + 1) % MaxBlock ELSE block_id
    BY DEF SendData
  <2>4. MaxBlock \in Nat \ {0}
    BY ParamFacts DEF Typed, EncoderTyped
  <2>5. ((Len(closed) % MaxBlock) + 1) % MaxBlock = (Len(closed) + 1) % MaxBlock
    BY <2>1, <2>4, ModSucc
  <2>6. CASE NextIdx(k) = 0
    <3>1. Len(closed') = Len(closed) + 1
      BY <2>1, <2>6
    <3> QED
      BY <3>1, <2>2, <2>3, <2>5, <2>6
  <2>7. CASE NextIdx(k) # 0
    <3>1. Len(closed') = Len(closed)
      BY <2>1, <2>7
    <3> QED
      BY <3>1, <2>2, <2>3, <2>7
  <2> QED
    BY <2>6, <2>7
<1>3. ASSUME NEW v \in 1 .. sent'
      PROVE  home'[v] \in 1 .. Current' /\ (home'[v] = Current' <=> t[Current'] < v)
  <2>1. CASE v = S + 1
    BY <2>1, <1>1
  <2>2. CASE v \in 1 .. S
    <3>1. home[v] \in 1 .. N /\ (home[v] = N <=> s[N] < v)
      BY <2>2 DEF EncoderAt
    <3> QED
      BY <3>1, <2>2, <1>1
  <2> QED
    BY <2>1, <2>2
<1>4. frame_idx' > 0 =>
        /\ Current' = N /\ ~Completes(k) /\ block_id' = block_id
        /\ \A i \in 0 .. frame_idx' - 1 :
              i \in 0 .. fi /\ enc'[block_id'][i] = IF i = fi THEN S + 1 ELSE enc[block_id][i]
  <2> SUFFICES ASSUME frame_idx' > 0
               PROVE  /\ Current' = N /\ ~Completes(k) /\ block_id' = block_id
                      /\ \A i \in 0 .. frame_idx' - 1 :
                           i \in 0 .. fi /\ enc'[block_id'][i] = IF i = fi THEN S + 1 ELSE enc[block_id][i]
    OBVIOUS
  <2>1. NextIdx(k) # 0 /\ ~Completes(k)
    OBVIOUS
  <2>2. block_id' = block_id /\ enc' = [enc EXCEPT ![block_id] = [enc[block_id] EXCEPT ![fi] = S + 1]]
    BY <2>1 DEF SendData
  <2>3. block_id \in Blocks /\ fi \in Slots /\ enc \in [Blocks -> [Slots -> Absent .. MaxData]]
    BY DEF Typed, EncoderTyped
  <2>4. enc'[block_id'] = [enc[block_id] EXCEPT ![fi] = S + 1] /\ enc[block_id] \in [Slots -> Absent .. MaxData]
    BY <2>2, <2>3
  <2>5. ASSUME NEW i \in 0 .. frame_idx' - 1
        PROVE  i \in 0 .. fi /\ enc'[block_id'][i] = IF i = fi THEN S + 1 ELSE enc[block_id][i]
    <3>1. i \in 0 .. fi
      OBVIOUS
    <3>2. i \in Slots
      <4>1. NbSlots \in Nat
        BY ParamFacts DEF Typed, EncoderTyped
      <4> QED
        BY <4>1, <3>1, <2>3 DEF Slots
    <3> QED
      BY <3>1, <3>2, <2>4
  <2> QED
    BY <2>1, <2>2, <2>5
<1>5. ASSUME NEW i \in 0 .. frame_idx' - 1 PROVE Home(Current, enc[block_id][i])'
  <2>1. frame_idx' > 0
    OBVIOUS
  <2>2. /\ Current' = N /\ i \in 0 .. fi
        /\ enc'[block_id'][i] = IF i = fi THEN S + 1 ELSE enc[block_id][i]
    BY <2>1, <1>4
  <2>3. CASE i = fi
    BY <2>2, <2>3 DEF Home
  <2>4. CASE i # fi
    <3>1. i \in 0 .. frame_idx - 1
      BY <2>2, <2>4
    <3>2. Home(N, enc[block_id][i])
      BY <3>1 DEF EncoderAt
    <3> QED
      BY <3>2, <2>2, <2>4 DEF Home
  <2> QED
    BY <2>3, <2>4
<1>6. t[Current'] <= sent' /\ (frame_idx' = 0 => t[Current'] = sent')
  BY <1>1
<1>7. Current' \notin touched' /\ frame_idx' > 0 =>
          /\ q[Current'] = encoder_params' /\ frame_idx' < encoder_params'.k
          /\ sent' = t[Current'] + frame_idx'
          /\ \A i \in 0 .. frame_idx' - 1 : enc'[block_id'][i] = t[Current'] + i + 1
  <2> SUFFICES ASSUME Current' \notin touched', frame_idx' > 0
               PROVE  /\ q[Current'] = encoder_params' /\ frame_idx' < encoder_params'.k
                      /\ sent' = t[Current'] + frame_idx'
                      /\ \A i \in 0 .. frame_idx' - 1 : enc'[block_id'][i] = t[Current'] + i + 1
    OBVIOUS
  <2>1. Current' = N /\ N \notin touched /\ ~Completes(k)
    BY <1>4
  <2>2. q[N] = encoder_params /\ fi < k /\ S = s[N] + fi /\ frame_idx' = fi + 1
    BY <2>1
  <2>3. frame_idx' < k
    OBVIOUS
  <2>4. ASSUME NEW i \in 0 .. frame_idx' - 1 PROVE enc'[block_id'][i] = t[N] + i + 1
    <3>1. i \in 0 .. fi /\ enc'[block_id'][i] = IF i = fi THEN S + 1 ELSE enc[block_id][i]
      BY <1>4
    <3>2. CASE i = fi
      BY <3>1, <3>2, <2>2, <1>1
    <3>3. CASE i # fi
      <4>1. i \in 0 .. frame_idx - 1 /\ frame_idx > 0
        BY <3>1, <3>3
      <4>2. enc[block_id][i] = s[N] + i + 1
        BY <4>1, <2>1 DEF EncoderAt
      <4> QED
        BY <4>2, <3>1, <3>3, <1>1
    <3> QED
      BY <3>2, <3>3
  <2> QED
    BY <2>1, <2>2, <2>3, <2>4, <1>1
<1> QED
  BY <1>2, <1>3, <1>5, <1>6, <1>7 DEF EncoderAt

(* The blocks closed after the step. *)
LEMMA SendClosed ==
    ASSUME Typed, SendData, NEW s, NEW q, NEW t, NEW k, NEW h, NEW N, NEW fi, NEW S,
           Streams(s, q), EncoderAt(s, q), BlocksClosed(s, q), SendStep(s, q, t, k, h, N, fi, S)
    PROVE  BlocksClosed(t, q)'
<1>0. /\ k \in Nat \ {0} /\ h \in Nat \ {0} /\ N \in Nat \ {0} /\ fi \in Nat /\ S \in Nat
      /\ (\A n \in Nat : n <= N => t[n] = s[n]) /\ touched' = touched
      /\ encoder_params.k = k /\ encoder_params.h = h /\ Current = N /\ frame_idx = fi /\ sent = S
      /\ N \notin touched /\ NextIdx(k) = 0 => q[N] = encoder_params /\ fi + 1 = k /\ S = s[N] + fi
      /\ sent' = S + 1 /\ home'[S + 1] = N
  BY DEF SendStep
<1>00. \A v \in 1 .. S : home'[v] = home[v]
  BY DEF SendStep
<1> DEFINE cl == [h |-> encoder_params.h, data |-> {v \in 1 .. sent + 1 : home'[v] = Current}]
<1>1. /\ closed' = IF NextIdx(k) = 0 THEN Append(closed, cl) ELSE closed
      /\ closed \in Seq(ClosedBlock) /\ Len(closed) = N - 1
  BY <1>0 DEF SendData, Typed, EncoderTyped, Current
<1>2. PICK d : d = cl
  OBVIOUS
<1>3. /\ d.h = h /\ d.data = {v \in 1 .. S + 1 : home'[v] = N} /\ d \in ClosedBlock
  BY <1>0, <1>2 DEF ClosedBlock
<1> HIDE DEF cl
<1>4. /\ \A n \in 1 .. N - 1 : closed'[n] = closed[n]
      /\ NextIdx(k) = 0 => Len(closed') = N /\ closed'[N] = d
      /\ NextIdx(k) # 0 => Len(closed') = N - 1
  BY <1>0, <1>1, <1>2, <1>3
<1> SUFFICES ASSUME NEW n \in 1 .. Len(closed'), n \notin touched
             PROVE  /\ closed'[n].h = q[n].h /\ closed'[n].data = t[n] + 1 .. t[n] + q[n].k
                    /\ t[n] + q[n].k <= sent'
                    /\ \A v \in 1 .. sent' : home'[v] = n <=> v \in t[n] + 1 .. t[n] + q[n].k
  BY <1>0 DEF BlocksClosed
<1>5. s[n] \in Nat /\ q[n].k \in Nat /\ t[n] = s[n]
  <2>1. n \in Nat /\ n <= N
    BY <1>0, <1>4
  <2> QED
    BY <2>1, <1>0, ParamFacts DEF Streams
<1>6. CASE n < N
  <2>1. n \in 1 .. Len(closed)
    BY <1>0, <1>1, <1>6
  <2>2. /\ closed[n].h = q[n].h /\ closed[n].data = s[n] + 1 .. s[n] + q[n].k
        /\ s[n] + q[n].k <= S
        /\ \A v \in 1 .. S : home[v] = n <=> v \in s[n] + 1 .. s[n] + q[n].k
    BY <1>0, <2>1 DEF BlocksClosed
  <2>3. closed'[n] = closed[n]
    BY <1>0, <1>4, <1>6
  <2>4. ASSUME NEW v \in 1 .. sent' PROVE home'[v] = n <=> v \in s[n] + 1 .. s[n] + q[n].k
    <3>1. CASE v = S + 1
      BY <1>0, <3>1, <2>2, <1>5, <1>6
    <3>2. CASE v \in 1 .. S
      BY <1>0, <1>00, <3>2, <2>2
    <3> QED
      BY <1>0, <3>1, <3>2
  <2> QED
    BY <1>0, <2>2, <2>3, <2>4, <1>5
<1>7. CASE n = N
  <2>1. NextIdx(k) = 0 /\ Len(closed') = N /\ closed'[N] = d
    BY <1>0, <1>4, <1>7
  <2>2. q[N] = encoder_params /\ fi + 1 = k /\ S = s[N] + fi
    BY <1>0, <2>1, <1>7
  <2>3. ASSUME NEW v \in 1 .. S + 1 PROVE home'[v] = N <=> v \in s[N] + 1 .. s[N] + k
    <3>1. CASE v = S + 1
      BY <1>0, <3>1, <2>2, <1>5, <1>7
    <3>2. CASE v \in 1 .. S
      <4>1. home[v] = N <=> s[N] < v
        BY <1>0, <3>2 DEF EncoderAt
      <4> QED
        BY <1>0, <1>00, <4>1, <3>2, <2>2, <1>5, <1>7
    <3> QED
      BY <1>0, <3>1, <3>2
  <2>4. S + 1 = s[N] + k /\ q[N].k = k /\ q[N].h = h
    BY <1>0, <2>2, <1>5, <1>7
  <2>5. d.data = s[N] + 1 .. s[N] + k
    <3>1. \A v \in s[N] + 1 .. s[N] + k : v \in 1 .. S + 1
      BY <1>0, <2>4, <1>5, <1>7
    <3> QED
      BY <1>0, <3>1, <2>3, <1>3
  <2>6. t[N] = s[N] /\ sent' = S + 1 /\ closed'[N].h = h
    BY <1>0, <1>3, <1>5, <1>7, <2>1
  <2>7. closed'[N].h = q[N].h /\ closed'[N].data = t[N] + 1 .. t[N] + q[N].k
    BY <2>1, <2>4, <2>5, <2>6
  <2>8. t[N] + q[N].k <= sent'
    BY <1>0, <2>4, <2>6
  <2>9. \A v \in 1 .. sent' : home'[v] = N <=> v \in t[N] + 1 .. t[N] + q[N].k
    BY <2>3, <2>4, <2>6
  <2> QED
    BY <1>7, <2>7, <2>8, <2>9
<1> QED
  BY <1>0, <1>4, <1>6, <1>7

(* A frame that was on the link is as before. *)
LEMMA SendOldFrame ==
    ASSUME Typed, SendData, NEW s, NEW q, NEW t, NEW k, NEW h, NEW N, NEW fi, NEW S,
           SendStep(s, q, t, k, h, N, fi, S), NEW f \in LinkFrame, FrameOK(s, q, f)
    PROVE  FrameOK(t, q, f)'
<1> USE DEF SendStep
<1>1. f.nr \in 1 .. N /\ (f.nr = N => fi > 0)
  BY DEF FrameOK
<1>2. f.nr \in 1 .. Current' /\ (f.nr = Current' => frame_idx' > 0)
  BY <1>1
<1>3. t[f.nr] = s[f.nr]
  BY <1>1
<1>4. \A n, v : Home(n, v) => Home(n, v)'
  BY DEF Home
<1>5. OfBlock(f.nr, f.content)'
  BY <1>4 DEF FrameOK, OfBlock
<1>6. Expected(t, q, f.nr, f.idx) = Expected(s, q, f.nr, f.idx)
  BY <1>3 DEF Expected
<1> QED
  BY <1>2, <1>5, <1>6 DEF FrameOK

(* The frames that are sent. *)
LEMMA SendNewFrames ==
    ASSUME Typed, SendData, NEW s, NEW q, NEW t, NEW k, NEW h, NEW N, NEW fi, NEW S,
           Streams(s, q), EncoderAt(s, q), SendStep(s, q, t, k, h, N, fi, S)
    PROVE  /\ \A f : f = NewFrame(fi, [data |-> S + 1, word |-> NoWord]) => FrameOK(t, q, f)'
           /\ \A word, j, f :
                 /\ Completes(k) /\ j \in 1 .. h /\ word \in Seq(Numbers) /\ Len(word) = k
                 /\ \A m \in 1 .. k - 1 : word[m] = enc[block_id][m - 1]
                 /\ word[k] = S + 1
                 /\ f = NewFrame(k + j - 1, [data |-> Absent, word |-> word])
                 => FrameOK(t, q, f)'
<1> USE DEF SendStep
<1>1. N \in 1 .. Current' /\ (N = Current' => frame_idx' > 0)
  OBVIOUS
<1>2. block_id = (N - 1) % MaxBlock
  <2>1. Len(closed) = N - 1
    BY DEF Typed, EncoderTyped, Current
  <2> QED
    BY <2>1 DEF EncoderAt
<1>3. s[N] \in Nat /\ t[N] = s[N]
  BY DEF Streams
<1>4. ASSUME NEW f, f = NewFrame(fi, [data |-> S + 1, word |-> NoWord]) PROVE FrameOK(t, q, f)'
  <2>1. /\ f.nr = N /\ f.par = encoder_params /\ f.block = block_id /\ f.idx = fi
        /\ f.content = [data |-> S + 1, word |-> NoWord]
    BY <1>4 DEF NewFrame
  <2>2. OfBlock(N, f.content)'
    <3>1. f.content.data = S + 1 /\ f.content.word = << >> /\ f.content # NoContent
      BY <2>1 DEF NoContent, Absent, NoWord
    <3>2. Home(N, S + 1)'
      BY DEF Home
    <3> QED
      BY <3>1, <3>2 DEF OfBlock
  <2>3. N \notin touched' => f.par = q[N] /\ fi < Size(q[N]) /\ f.content = Expected(t, q, N, fi)
    <3> SUFFICES ASSUME N \notin touched
                 PROVE  f.par = q[N] /\ fi < Size(q[N]) /\ f.content = Expected(t, q, N, fi)
      OBVIOUS
    <3>1. q[N] = encoder_params /\ fi < q[N].k /\ S = s[N] + fi
      OBVIOUS
    <3>2. fi < Size(q[N])
      BY <3>1 DEF Size
    <3>3. t[N] + fi + 1 = S + 1
      BY <3>1, <1>3
    <3> QED
      BY <3>1, <3>2, <3>3, <2>1 DEF Expected
  <2>4. f.content.data # Absent
    BY <2>1 DEF Absent
  <2> QED
    BY <2>1, <2>2, <2>3, <2>4, <1>1, <1>2 DEF FrameOK
<1>5. ASSUME NEW word, NEW j, NEW f,
                 /\ Completes(k) /\ j \in 1 .. h /\ word \in Seq(Numbers) /\ Len(word) = k
                 /\ \A m \in 1 .. k - 1 : word[m] = enc[block_id][m - 1]
                 /\ word[k] = S + 1
                 /\ f = NewFrame(k + j - 1, [data |-> Absent, word |-> word])
      PROVE FrameOK(t, q, f)'
  <2>1. /\ f.nr = N /\ f.par = encoder_params /\ f.block = block_id /\ f.idx = k + j - 1
        /\ f.content = [data |-> Absent, word |-> word]
    BY <1>5 DEF NewFrame
  <2>2. fi + 1 = k
    BY <1>5
  <2>3. ASSUME NEW m \in 1 .. k PROVE Home(N, word[m])'
    <3>1. CASE m = k
      BY <3>1, <1>5 DEF Home
    <3>2. CASE m \in 1 .. k - 1
      <4>1. m - 1 \in 0 .. frame_idx - 1
        BY <3>2, <2>2
      <4>2. Home(N, enc[block_id][m - 1])
        BY <4>1 DEF EncoderAt
      <4>3. word[m] = enc[block_id][m - 1]
        BY <3>2, <1>5
      <4> QED
        BY <4>2, <4>3 DEF Home
    <3> QED
      BY <3>1, <3>2
  <2>4. f.content # NoContent
    <3>1. word # << >>
      BY <1>5
    <3>2. f.content.word # NoContent.word
      BY <3>1, <2>1 DEF NoContent, NoWord
    <3> QED
      BY <3>2
  <2>5. OfBlock(N, f.content)'
    <3>1. f.content.data = Absent /\ f.content.word = word
      BY <2>1
    <3> QED
      BY <3>1, <2>3, <2>4, <1>5 DEF OfBlock
  <2>6. N \notin touched' => f.par = q[N] /\ k + j - 1 < Size(q[N])
                             /\ f.content = Expected(t, q, N, k + j - 1)
    <3> SUFFICES ASSUME N \notin touched
                 PROVE  f.par = q[N] /\ k + j - 1 < Size(q[N])
                        /\ f.content = Expected(t, q, N, k + j - 1)
      OBVIOUS
    <3>1. q[N] = encoder_params /\ S = s[N] + fi
      OBVIOUS
    <3>2. ASSUME NEW m \in 1 .. k PROVE word[m] = s[N] + m
      <4>1. CASE m = k
        <5>1. word[m] = S + 1 /\ S = s[N] + fi /\ fi + 1 = m /\ fi \in Nat /\ S \in Nat
          BY <4>1, <3>1, <2>2, <1>5
        <5> QED
          BY ONLY <5>1, <1>3, m \in 1 .. k
      <4>2. CASE m \in 1 .. k - 1
        <5>1. m - 1 \in 0 .. frame_idx - 1 /\ frame_idx > 0
          BY <4>2, <2>2
        <5>2. enc[block_id][m - 1] = s[N] + (m - 1) + 1
          BY <5>1 DEF EncoderAt
        <5> QED
          <6>1. word[m] = s[N] + (m - 1) + 1
            BY <5>2, <4>2, <1>5
          <6> QED
            BY ONLY <6>1, <1>3, <4>2
      <4> QED
        BY <4>1, <4>2
    <3>3. word = [m \in 1 .. k |-> s[N] + m]
      <4>1. word = [m \in 1 .. k |-> word[m]]
        BY <1>5
      <4> QED
        BY <4>1, <3>2
    <3>4. k + j - 1 < k + h /\ ~(k + j - 1 < k)
      BY <1>5
    <3>5. Expected(t, q, N, k + j - 1) = [data |-> Absent, word |-> [m \in 1 .. k |-> s[N] + m]]
      BY <3>1, <3>4, <1>3 DEF Expected
    <3> QED
      BY <3>1, <3>3, <3>4, <3>5, <2>1 DEF Size
  <2>7. f.idx >= f.par.k
    <3>1. f.par.k = k /\ f.idx = k + j - 1 /\ j \in 1 .. h /\ k \in Nat
      BY <2>1, <1>5
    <3> QED
      BY ONLY <3>1
  <2> QED
    BY <2>1, <2>5, <2>6, <2>7, <1>1, <1>2 DEF FrameOK
<1> QED
  BY <1>4, <1>5

(* The link after the step. *)
LEMMA SendFrames ==
    ASSUME Typed, SendData, NEW s, NEW q, NEW t, NEW k, NEW h, NEW N, NEW fi, NEW S,
           Streams(s, q), EncoderAt(s, q), FramesOK(s, q), SendStep(s, q, t, k, h, N, fi, S)
    PROVE  FramesOK(t, q)'
<1>1. PICK word \in Seq(Numbers) :
             /\ LinkSend(k, h, [data |-> S + 1, word |-> NoWord], word)
             /\ Completes(k) =>
                  /\ Len(word) = k
                  /\ \A m \in 1 .. k - 1 : word[m] = enc[block_id][m - 1]
                  /\ word[k] = S + 1
  BY SendFacts DEF SendStep
<1>2. PICK L \in Nat : L = Len(link)
  BY DEF Typed, LinkTyped
<1>3. link \in Seq(LinkFrame) /\ frame_idx = fi /\ h \in Nat
  BY DEF Typed, LinkTyped, SendStep
<1> SUFFICES ASSUME NEW i \in 1 .. Len(link') PROVE FrameOK(t, q, link[i])'
  BY DEF FramesOK
<1>4. CASE i \in 1 .. L
  <2>1. PICK f \in LinkFrame : f = link[i]
    BY <1>2, <1>3, <1>4
  <2>2. FrameOK(s, q, f) /\ link'[i] = f
    BY <2>1, <1>1, <1>2, <1>4 DEF FramesOK, LinkSend
  <2>3. FrameOK(t, q, f)'
    BY <2>2, SendOldFrame
  <2> QED
    BY <2>2, <2>3
<1>5. CASE i = L + 1
  <2>1. PICK f : f = NewFrame(fi, [data |-> S + 1, word |-> NoWord])
    OBVIOUS
  <2>2. link'[i] = f
    BY <2>1, <1>1, <1>2, <1>3, <1>5 DEF LinkSend
  <2>3. FrameOK(t, q, f)'
    BY <2>1, SendNewFrames
  <2> QED
    BY <2>2, <2>3
<1>6. CASE i > L + 1
  <2>1. PICK j : j = i - (L + 1)
    OBVIOUS
  <2>2. Completes(k) /\ j \in 1 .. h /\ i = L + 1 + j
    BY <2>1, <1>1, <1>2, <1>3, <1>6 DEF LinkSend
  <2>3. PICK f : f = NewFrame(k + j - 1, [data |-> Absent, word |-> word])
    OBVIOUS
  <2>4. link'[i] = f
    BY <2>2, <2>3, <1>1, <1>2 DEF LinkSend
  <2>5. FrameOK(t, q, f)'
    BY <2>2, <2>3, <1>1, SendNewFrames
  <2> QED
    BY <2>4, <2>5
<1> QED
  BY <1>2, <1>4, <1>5, <1>6

(* The order of the frames after the step. *)
LEMMA SendOrder ==
    ASSUME Typed, SendData, NEW s, NEW q, NEW t, NEW k, NEW h, NEW N, NEW fi, NEW S,
           FramesOK(s, q), InSequence(q), SendStep(s, q, t, k, h, N, fi, S)
    PROVE  InSequence(q)'
<1>0. /\ k \in Nat \ {0} /\ h \in Nat \ {0} /\ N \in Nat \ {0} /\ fi \in Nat
      /\ touched' = touched /\ Current = N /\ frame_idx = fi
      /\ encoder_params.k = k /\ encoder_params.h = h
      /\ NextIdx(k) \in 0 .. k - 1 /\ NextIdx(k) <= fi + 1
      /\ Completes(k) <=> fi + 1 = k
      /\ Completes(k) => NextIdx(k) = 0
      /\ NextIdx(k) = 0 /\ ~Completes(k) => fi > 0
      /\ N \notin touched => /\ q[N] = encoder_params
                             /\ (~Completes(k) => NextIdx(k) = fi + 1)
      /\ Current' = (IF NextIdx(k) = 0 THEN N + 1 ELSE N)
  BY DEF SendStep
<1>1. PICK L \in Nat, c \in Nat : PlacesSent(k, h, L, c)
  BY <1>0, SendPlaces
<1>2. /\ c = (IF Completes(k) THEN h ELSE 0)
      /\ L = Len(link) /\ Len(link') = L + 1 + c
      /\ \A i \in 1 .. L + 1 : NrAt(i)' = NrAt(i) /\ IdxAt(i)' = IdxAt(i)
      /\ \A j \in 1 .. c : NrAt(L + 1 + j)' = N /\ IdxAt(L + 1 + j)' = k + j - 1
      /\ NrAt(L + 2 + c)' = Current' /\ IdxAt(L + 2 + c)' = NextIdx(k)
  BY <1>0, <1>1 DEF PlacesSent
<1>3. NrAt(L + 1) = N /\ IdxAt(L + 1) = fi
  BY <1>0, <1>2 DEF NrAt, IdxAt
<1>4. \A i \in 1 .. L + 1 : NrAt(i) \in Nat /\ NrAt(i) <= N
  <2> SUFFICES ASSUME NEW i \in 1 .. L + 1 PROVE NrAt(i) \in Nat /\ NrAt(i) <= N
    OBVIOUS
  <2>1. CASE i = L + 1
    BY <2>1, <1>0, <1>3
  <2>2. CASE i \in 1 .. L
    <3>1. NrAt(i) = link[i].nr /\ link[i].nr \in 1 .. Current
      BY <2>2, <1>2 DEF NrAt, FramesOK, FrameOK
    <3> QED
      BY <3>1, <1>0
  <2> QED
    BY <2>1, <2>2
<1>5. ASSUME NEW i \in 1 .. L + 1 + c
      PROVE  Follows(q, NrAt(i)', IdxAt(i)', NrAt(i + 1)', IdxAt(i + 1)')
  <2>1. CASE i \in 1 .. L
    <3>1. Follows(q, NrAt(i), IdxAt(i), NrAt(i + 1), IdxAt(i + 1))
      BY <2>1, <1>2 DEF InSequence
    <3>2. i \in 1 .. L + 1 /\ i + 1 \in 1 .. L + 1
      BY <2>1
    <3>3. NrAt(i)' = NrAt(i) /\ IdxAt(i)' = IdxAt(i) /\ NrAt(i + 1)' = NrAt(i + 1) /\ IdxAt(i + 1)' = IdxAt(i + 1)
      BY <3>2, <1>2
    <3> QED
      BY <3>1, <3>3
  <2>2. CASE i = L + 1 /\ c = 0
    <3>1. NrAt(i)' = N /\ IdxAt(i)' = fi /\ NrAt(i + 1)' = Current' /\ IdxAt(i + 1)' = NextIdx(k)
      <4>1. i \in 1 .. L + 1 /\ i + 1 = L + 2 + c
        BY <2>2
      <4> QED
        BY <4>1, <2>2, <1>2, <1>3
    <3>2. ~Completes(k)
      BY <2>2, <1>0, <1>2
    <3> QED
      BY <3>1, <3>2, <1>0 DEF Follows
  <2>3. CASE i = L + 1 /\ c > 0
    <3>1. NrAt(i)' = N /\ IdxAt(i)' = fi /\ NrAt(i + 1)' = N /\ IdxAt(i + 1)' = k
      <4>1. i \in 1 .. L + 1 /\ 1 \in 1 .. c /\ i + 1 = L + 1 + 1
        BY <2>3
      <4>2. NrAt(L + 1 + 1)' = N /\ IdxAt(L + 1 + 1)' = k + 1 - 1
        BY <4>1, <1>2
      <4> QED
        BY <4>1, <4>2, <2>3, <1>0, <1>2, <1>3
    <3>2. fi + 1 = k
      BY <2>3, <1>0, <1>2
    <3> QED
      BY <3>1, <3>2, <1>0 DEF Follows
  <2>4. CASE i > L + 1 /\ i < L + 1 + c
    <3>1. PICK j \in 1 .. c : i = L + 1 + j /\ j < c
      <4>1. i - (L + 1) \in 1 .. c /\ i = L + 1 + (i - (L + 1)) /\ i - (L + 1) < c
        BY <2>4
      <4> QED
        BY <4>1
    <3>2. j + 1 \in 1 .. c /\ i + 1 = L + 1 + (j + 1)
      BY <3>1
    <3>3. NrAt(i)' = N /\ IdxAt(i)' = k + j - 1 /\ NrAt(i + 1)' = N /\ IdxAt(i + 1)' = k + (j + 1) - 1
      BY <3>1, <3>2, <1>2
    <3> QED
      BY <3>3, <1>0 DEF Follows
  <2>5. CASE i = L + 1 + c /\ c > 0
    <3>1. c \in 1 .. c /\ c = h /\ i + 1 = L + 2 + c
      BY <2>5, <1>2
    <3>2. NrAt(i)' = N /\ IdxAt(i)' = k + h - 1 /\ NrAt(i + 1)' = Current' /\ IdxAt(i + 1)' = NextIdx(k)
      BY <3>1, <2>5, <1>2
    <3>3. Completes(k)
      BY <2>5, <1>2
    <3>4. N \notin touched => k + h - 1 + 1 = Size(q[N])
      BY <1>0 DEF Size
    <3> QED
      BY <3>2, <3>3, <3>4, <1>0 DEF Follows
  <2> QED
    BY <2>1, <2>2, <2>3, <2>4, <2>5
<1>6. ASSUME NEW i \in 1 .. L + 2 + c
      PROVE  /\ i <= L + 1 => NrAt(i)' = NrAt(i)
             /\ i > L + 1 => NrAt(i)' \in {N, Current'}
             /\ i < L + 2 + c => NrAt(i)' \in Nat /\ NrAt(i)' <= N
  <2>1. CASE i <= L + 1
    BY <2>1, <1>2, <1>4
  <2>2. CASE i > L + 1 /\ i < L + 2 + c
    <3>1. i - (L + 1) \in 1 .. c /\ i = L + 1 + (i - (L + 1))
      BY <2>2
    <3>2. NrAt(i)' = N
      BY <3>1, <1>2
    <3> QED
      BY <3>2, <2>2, <1>0
  <2>3. CASE i = L + 2 + c
    BY <2>3, <1>2
  <2> QED
    BY <2>1, <2>2, <2>3
<1>7. ASSUME NEW i \in 1 .. L + 2 + c, NEW j \in 1 .. L + 2 + c, i < j
      PROVE  NrAt(i)' <= NrAt(j)'
  <2>1. CASE j <= L + 1
    <3>1. NrAt(i) <= NrAt(j)
      BY <2>1, <1>2, <1>7 DEF InSequence
    <3> QED
      BY <3>1, <2>1, <1>6, <1>7
  <2>2. CASE j > L + 1
    <3>1. NrAt(i)' \in Nat /\ NrAt(i)' <= N /\ NrAt(j)' \in {N, Current'}
      BY <2>2, <1>6, <1>7
    <3>2. Current' \in Nat /\ N <= Current'
      BY <1>0
    <3> QED
      BY <3>1, <3>2, <1>0
  <2> QED
    BY <2>1, <2>2
<1>8. ASSUME NEW n \in NrAt(1)' .. Len(closed') PROVE \E i \in 1 .. L + 1 + c : NrAt(i)' = n
  <2>1. Len(closed) = N - 1 /\ Len(closed') = Current' - 1
    <3>1. closed \in Seq(ClosedBlock) /\ closed' \in Seq(ClosedBlock)
      BY SendTyped DEF Typed, EncoderTyped
    <3> QED
      BY <3>1, <1>0 DEF Current
  <2>2. NrAt(1)' = NrAt(1) /\ NrAt(1) \in Nat
    <3>1. 1 \in 1 .. L + 1
      OBVIOUS
    <3> QED
      BY <3>1, <1>2, <1>4
  <2>3. CASE n = N
    <3>1. L + 1 \in 1 .. L + 1 /\ L + 1 \in 1 .. L + 1 + c
      OBVIOUS
    <3>2. NrAt(L + 1)' = N
      BY <3>1, <1>2, <1>3
    <3> QED
      BY <3>1, <3>2, <2>3
  <2>4. CASE n # N
    <3>1. n \in NrAt(1) .. Len(closed)
      BY <2>1, <2>2, <2>4, <1>0
    <3>2. PICK i \in 1 .. L : NrAt(i) = n
      BY <3>1, <1>2 DEF InSequence
    <3>3. NrAt(i)' = n /\ i \in 1 .. L + 1 + c
      <4>1. i \in 1 .. L + 1 /\ i \in 1 .. L + 1 + c
        OBVIOUS
      <4> QED
        BY <4>1, <3>2, <1>2
    <3> QED
      BY <3>3
  <2> QED
    BY <2>3, <2>4
<1> QED
  <2>1. Len(link') = L + 1 + c /\ Len(link') + 1 = L + 2 + c
    BY <1>2
  <2>2. \A i \in 1 .. Len(link') : Follows(q, NrAt(i), IdxAt(i), NrAt(i + 1), IdxAt(i + 1))'
    <3> SUFFICES ASSUME NEW i \in 1 .. Len(link')
                 PROVE  Follows(q, NrAt(i), IdxAt(i), NrAt(i + 1), IdxAt(i + 1))'
      OBVIOUS
    <3>1. Follows(q, NrAt(i)', IdxAt(i)', NrAt(i + 1)', IdxAt(i + 1)')
      BY <2>1, <1>5
    <3> QED
      BY <3>1, <1>0 DEF Follows
  <2>3. \A i, j \in 1 .. Len(link') + 1 : i < j => NrAt(i)' <= NrAt(j)'
    BY <2>1, <1>7
  <2>4. \A n \in NrAt(1)' .. Len(closed') : \E i \in 1 .. Len(link') : NrAt(i)' = n
    BY <2>1, <1>8
  <2> QED
    BY <2>2, <2>3, <2>4 DEF InSequence

(* The stream after the step, and what the decoder side needs of it. *)
LEMMA SendStream ==
    ASSUME Typed, SendData, NEW s, NEW q, Streams(s, q), StreamOK(s, q), Set(q)
    PROVE  \E t : /\ Streams(t, q) /\ StreamOK(t, q)'
                  /\ \A n \in Nat : n <= Current => t[n] = s[n]
<1>1. PICK t, k, h, N, fi, S : SendStep(s, q, t, k, h, N, fi, S)
  BY SendIsStep DEF StreamOK
<1>2. EncoderAt(t, q)'
  BY <1>1, SendEncoder DEF StreamOK
<1>3. BlocksClosed(t, q)'
  BY <1>1, SendClosed DEF StreamOK
<1>4. FramesOK(t, q)'
  BY <1>1, SendFrames DEF StreamOK
<1>5. InSequence(q)'
  BY <1>1, SendOrder DEF StreamOK
<1>6. Streams(t, q) /\ \A n \in Nat : n <= Current => t[n] = s[n]
  BY <1>1 DEF SendStep, Streams
<1> QED
  BY <1>2, <1>3, <1>4, <1>5, <1>6 DEF StreamOK

-----------------------------------------------------------------------------
(* The decoder. *)

(* It took its last frame from block m (0: from none).  What is lost since *)
(* is at least two frames of each block between m and the next frame.      *)
DecoderAt(m) ==
    /\ m \in Nat /\ m <= NrAt(1) /\ (m = Current => frame_idx > 0)
    /\ last_block = IF m = 0 THEN -1 ELSE (m - 1) % MaxBlock
    /\ m < NrAt(1) => burst >= 2 * (NrAt(1) - m - 1) + IdxAt(1)
    /\ m > 0 /\ m \notin touched /\ m = NrAt(1) => packet_idx < IdxAt(1)

Filled(buf, D) == {i \in D : buf[i] # NoContent}
Empty(buf, D) == {i \in D : buf[i] = NoContent}
Holds(s, q, n, buf, last) ==
    \A i \in Slots : buf[i] # NoContent => i <= last /\ buf[i] = Expected(s, q, n, i)
Undecided(p, buf) == Cardinality(Empty(buf, DataIdx(p))) > Cardinality(Filled(buf, ParityIdx(p)))

(* The buffer of a block that is not decoded yet: only frames of block m,  *)
(* and too few of them.                                                    *)
BufferOK(s, q, m) ==
    m > 0 /\ ~forwarded =>
        /\ \A i \in Slots : dec[last_block][i] # NoContent => OfBlock(m, dec[last_block][i])
        /\ m \notin touched => /\ Holds(s, q, m, dec[last_block], packet_idx)
                               /\ Undecided(q[m], dec[last_block])

Delivered(v) == \E j \in 1 .. Len(out) : out[j] = v

(* What was put out: of block m, all data packets or those in the buffer;  *)
(* of an earlier block, all, unless too many of its frames were lost.      *)
Settled(s, q, m) ==
    \A n \in 1 .. m - 1 : n \notin touched /\ lost[n] <= q[n].h =>
        \A i \in DataIdx(q[n]) : Delivered(s[n] + i + 1)

PutOut(s, q, m) ==
    m > 0 /\ m \notin touched =>
        IF forwarded
        THEN packet_idx >= q[m].k - 1 /\ \A i \in DataIdx(q[m]) : Delivered(s[m] + i + 1)
        ELSE \A i \in DataIdx(q[m]) : dec[last_block][i] # NoContent <=> Delivered(s[m] + i + 1)

OnlyTaken(m) == \A i \in 1 .. Len(out) : out[i] > 0 => out[i] <= sent /\ home[out[i]] <= m

(* The frames lost: all those of a later block that have left the link,    *)
(* and those of block m whose slots are empty.                             *)
Place(q, n) == IF n < NrAt(1) THEN Size(q[n]) ELSE IF n = NrAt(1) THEN IdxAt(1) ELSE 0

Unseen(q, m) == \A n \in Numbers : n > m /\ n \notin touched => lost[n] = Place(q, n)

Accounted(q, m) ==
    m > 0 /\ m \notin touched /\ ~forwarded =>
        lost[m] = Cardinality(Empty(dec[last_block], 0 .. Place(q, m) - 1))

ReceivedOK(s, q, m) ==
    /\ DecoderAt(m) /\ BufferOK(s, q, m) /\ OnlyTaken(m) /\ PutOut(s, q, m) /\ Settled(s, q, m)
    /\ Unseen(q, m) /\ Accounted(q, m)

StreamInv(s, q, m) == Streams(s, q) /\ StreamOK(s, q) /\ ReceivedOK(s, q, m)

(* The next frame is of a block that was begun, or the current one. *)
LEMMA NextPlace ==
    ASSUME Typed, NEW s, NEW q, StreamOK(s, q)
    PROVE  /\ NrAt(1) \in Nat \ {0} /\ NrAt(1) <= Current /\ IdxAt(1) \in Nat
           /\ Current \in Nat \ {0} /\ Len(link) \in Nat /\ frame_idx \in Nat
           /\ Len(closed) = Current - 1
<1>1. Len(link) \in Nat /\ link \in Seq(LinkFrame)
  BY DEF Typed, LinkTyped
<1>2. Current \in Nat \ {0} /\ Len(closed) = Current - 1
  BY DEF Typed, EncoderTyped, Current
<1>3. NbSlots \in Nat
  BY ParamFacts DEF Typed, EncoderTyped
<1>4. frame_idx \in Nat
  BY <1>3 DEF Typed, EncoderTyped, Slots
<1>5. CASE 1 <= Len(link)
  <2>1. link[1] \in LinkFrame /\ FrameOK(s, q, link[1])
    BY <1>1, <1>5 DEF StreamOK, FramesOK
  <2>2. link[1].idx \in Nat
    BY <2>1, <1>3 DEF LinkFrame, Frame, Slots
  <2>3. NrAt(1) = link[1].nr /\ IdxAt(1) = link[1].idx
    BY <1>5 DEF NrAt, IdxAt
  <2>4. link[1].nr \in 1 .. Current
    BY <2>1 DEF FrameOK
  <2> QED
    BY <2>2, <2>3, <2>4, <1>1, <1>2, <1>4
<1>6. CASE ~(1 <= Len(link))
  BY <1>1, <1>2, <1>4, <1>6 DEF NrAt, IdxAt
<1> QED
  BY <1>5, <1>6

(* The parameters of a block are those of its first packet: before it, any *)
(* will do.                                                                *)
LEMMA Reparam ==
    ASSUME Typed, NEW s, NEW q, NEW m, StreamInv(s, q, m)
    PROVE  \E p : StreamInv(s, p, m) /\ Set(p)
<1>1. CASE frame_idx # 0
  <2>1. frame_idx > 0
    BY <1>1, NextPlace DEF StreamInv
  <2>2. Set(q)
    BY <2>1 DEF StreamInv, StreamOK, EncoderAt, Set
  <2> QED
    BY <2>2
<1>2. CASE frame_idx = 0
  <2>1. PICK N \in Nat \ {0} : N = Current
    BY NextPlace DEF StreamInv
  <2>2. PICK p : p = [q EXCEPT ![N] = encoder_params]
    OBVIOUS
  <2>3. /\ q \in [Nat -> Params] /\ s \in [Nat -> Nat] /\ encoder_params \in Params
    BY DEF StreamInv, Streams, Typed, EncoderTyped
  <2>4. p \in [Nat -> Params] /\ p[N] = encoder_params /\ \A n \in Nat : n # N => p[n] = q[n]
    BY <2>2, <2>3
  <2>5. NrAt(1) \in Nat /\ NrAt(1) <= N /\ Len(closed) = N - 1 /\ Len(link) \in Nat
    BY <2>1, NextPlace DEF StreamInv
  <2>6. m \in Nat /\ m < N
    BY <2>1, <2>5, <1>2 DEF StreamInv, ReceivedOK, DecoderAt
  <2>7. \A n \in Nat : n < N => p[n] = q[n]
    BY <2>1, <2>4
  <2>8. EncoderAt(s, p)
    BY <1>2 DEF StreamInv, StreamOK, EncoderAt
  <2>9. BlocksClosed(s, p)
    <3>1. \A n \in 1 .. Len(closed) : p[n] = q[n]
      BY <2>5, <2>7
    <3> QED
      BY <3>1 DEF StreamInv, StreamOK, BlocksClosed
  <2>10. \A i \in 1 .. Len(link) : link[i].nr \in Nat /\ link[i].nr < N
    <3> SUFFICES ASSUME NEW i \in 1 .. Len(link) PROVE link[i].nr \in Nat /\ link[i].nr < N
      OBVIOUS
    <3>1. link[i].nr \in 1 .. N /\ (link[i].nr = N => frame_idx > 0)
      BY <2>1 DEF StreamInv, StreamOK, FramesOK, FrameOK
    <3> QED
      BY <3>1, <1>2
  <2>11. FramesOK(s, p)
    <3> SUFFICES ASSUME NEW i \in 1 .. Len(link) PROVE FrameOK(s, p, link[i])
      BY DEF FramesOK
    <3>1. FrameOK(s, q, link[i])
      BY DEF StreamInv, StreamOK, FramesOK
    <3>2. p[link[i].nr] = q[link[i].nr]
      BY <2>7, <2>10
    <3> QED
      BY <3>1, <3>2 DEF FrameOK, Expected
  <2>12. InSequence(p)
    <3>1. InSequence(q)
      BY DEF StreamInv, StreamOK
    <3>2. ASSUME NEW i \in 1 .. Len(link)
          PROVE  Follows(p, NrAt(i), IdxAt(i), NrAt(i + 1), IdxAt(i + 1))
      <4>1. Follows(q, NrAt(i), IdxAt(i), NrAt(i + 1), IdxAt(i + 1))
        BY <3>1 DEF InSequence
      <4>2. NrAt(i) = link[i].nr
        BY <2>5 DEF NrAt
      <4>3. p[NrAt(i)] = q[NrAt(i)]
        BY <4>2, <2>7, <2>10
      <4> QED
        BY <4>1, <4>3 DEF Follows
    <3> QED
      BY <3>1, <3>2 DEF InSequence
  <2>13. StreamOK(s, p) /\ Streams(s, p)
    BY <2>3, <2>4, <2>8, <2>9, <2>11, <2>12 DEF StreamOK, Streams
  <2>14. p[m] = q[m]
    BY <2>6, <2>7
  <2>15. BufferOK(s, p, m) /\ PutOut(s, p, m)
    <3>1. \A i : Expected(s, p, m, i) = Expected(s, q, m, i)
      BY <2>14 DEF Expected
    <3> QED
      BY <3>1, <2>14 DEF StreamInv, ReceivedOK, BufferOK, PutOut, Holds
  <2>16. Settled(s, p, m)
    <3>1. \A n \in 1 .. m - 1 : p[n] = q[n]
      BY <2>6, <2>7
    <3> QED
      BY <3>1 DEF StreamInv, ReceivedOK, Settled
  <2>17. \A n \in Nat : Place(p, n) = Place(q, n)
    BY <2>1, <2>5, <2>7 DEF Place
  <2>18. Unseen(p, m) /\ Accounted(p, m)
    <3>1. \A n \in Numbers : Place(p, n) = Place(q, n)
      BY <2>17 DEF Numbers
    <3>2. Place(p, m) = Place(q, m)
      BY <2>6, <2>17
    <3> QED
      BY <3>1, <3>2 DEF StreamInv, ReceivedOK, Unseen, Accounted
  <2>19. StreamInv(s, p, m)
    BY <2>13, <2>15, <2>16, <2>18 DEF StreamInv, ReceivedOK
  <2>20. Set(p)
    BY <2>1, <2>4 DEF Set
  <2> QED
    BY <2>19, <2>20
<1> QED
  BY <1>1, <1>2

(* A packet enters the encoder: the decoder sees no difference. *)
LEMMA SendKeeps ==
    ASSUME Typed, SendData, NEW s, NEW q, NEW m, StreamInv(s, q, m)
    PROVE  \E t, p : StreamInv(t, p, m)'
<1>1. PICK p : StreamInv(s, p, m) /\ Set(p)
  BY Reparam
<1>2. PICK t : /\ Streams(t, p) /\ StreamOK(t, p)'
               /\ \A n \in Nat : n <= Current => t[n] = s[n]
  BY <1>1, SendStream DEF StreamInv
<1>3. PICK N \in Nat \ {0} : N = Current
  BY <1>1, NextPlace DEF StreamInv
<1>4. /\ NrAt(1) \in Nat /\ NrAt(1) <= N /\ IdxAt(1) \in Nat
  BY <1>1, <1>3, NextPlace DEF StreamInv
<1>5. /\ NrAt(1)' = NrAt(1) /\ IdxAt(1)' = IdxAt(1)
      /\ N <= Current' /\ (Current' = N => frame_idx' # 0) /\ Current' \in Nat
  <2>1. PICK L \in Nat, c \in Nat : PlacesSent(encoder_params.k, encoder_params.h, L, c)
    BY SendPlaces
  <2>2. 1 \in 1 .. L + 1
    OBVIOUS
  <2>3. frame_idx' = NextIdx(encoder_params.k)
    BY DEF SendData
  <2> QED
    BY <2>1, <2>2, <2>3, <1>3 DEF PlacesSent
<1>6. frame_idx' \in Nat
  BY SendTyped, ParamFacts DEF Typed, EncoderTyped, Slots
<1>7. /\ last_block' = last_block /\ packet_idx' = packet_idx /\ forwarded' = forwarded
      /\ dec' = dec /\ out' = out /\ burst' = burst /\ lost' = lost /\ touched' = touched
  BY DEF SendData, decoder
<1>8. m \in Nat /\ m <= N
  BY <1>1, <1>3, <1>4 DEF StreamInv, ReceivedOK, DecoderAt
<1>9. t[m] = s[m] /\ \A n \in 1 .. m - 1 : t[n] = s[n]
  BY <1>2, <1>3, <1>8
<1>10. DecoderAt(m)'
  BY <1>1, <1>3, <1>5, <1>6, <1>7, <1>8 DEF StreamInv, ReceivedOK, DecoderAt
<1>11. \A n, v : Home(n, v) => Home(n, v)'
  BY SendHome
<1>12. BufferOK(t, p, m)'
  <2>1. \A i : Expected(t, p, m, i) = Expected(s, p, m, i)
    BY <1>9 DEF Expected
  <2>2. \A n, c : OfBlock(n, c) => OfBlock(n, c)'
    BY <1>11 DEF OfBlock
  <2> QED
    BY <1>1, <1>7, <2>1, <2>2 DEF StreamInv, ReceivedOK, BufferOK, Holds
<1>13. \A v : Delivered(v)' <=> Delivered(v)
  BY <1>7 DEF Delivered
<1>14. PutOut(t, p, m)' /\ Settled(t, p, m)'
  BY <1>1, <1>7, <1>9, <1>13 DEF StreamInv, ReceivedOK, PutOut, Settled
<1>15. OnlyTaken(m)'
  <2> SUFFICES ASSUME NEW i \in 1 .. Len(out), out[i] > 0
               PROVE  out[i] <= sent' /\ home'[out[i]] <= m
    BY <1>7 DEF OnlyTaken
  <2>1. out[i] <= sent /\ home[out[i]] <= m
    BY <1>1 DEF StreamInv, ReceivedOK, OnlyTaken
  <2>2. out[i] \in Int
    <3>1. out \in Seq(Outputs)
      BY DEF Typed, DecoderTyped
    <3>2. out[i] \in Outputs
      BY ONLY <3>1, i \in 1 .. Len(out)
    <3>3. MaxData \in Nat
      BY ParamFacts DEF Typed, EncoderTyped
    <3> QED
      BY <3>2, <3>3 DEF Outputs
  <2>3. sent \in Nat /\ sent' = sent + 1 /\ \A v \in 1 .. sent : home'[v] = home[v]
    BY SendHome
  <2> QED
    BY <2>1, <2>2, <2>3
<1>16. \A n : Place(p, n)' = Place(p, n)
  BY <1>5 DEF Place
<1>17. Unseen(p, m)' /\ Accounted(p, m)'
  BY <1>1, <1>7, <1>16 DEF StreamInv, ReceivedOK, Unseen, Accounted
<1>18. StreamInv(t, p, m)'
  BY <1>2, <1>10, <1>12, <1>14, <1>15, <1>17 DEF StreamInv, ReceivedOK, Streams
<1> QED
  BY <1>18

(* More blocks touched: less is said of them.  Nothing else changes but    *)
(* the parameters, and the current block is touched if it was begun.       *)
LEMMA ChangeKeeps ==
    ASSUME Typed, NEW p \in Params, ChangeEncoder(p) \/ ChangeDecoder(p),
           NEW s, NEW q, NEW m, StreamInv(s, q, m)
    PROVE  StreamInv(s, q, m)'
<1>1. /\ block_id' = block_id /\ frame_idx' = frame_idx /\ enc' = enc /\ sent' = sent
      /\ closed' = closed /\ home' = home /\ link' = link /\ burst' = burst /\ lost' = lost
      /\ dec' = dec /\ last_block' = last_block /\ packet_idx' = packet_idx
      /\ forwarded' = forwarded /\ out' = out
  BY DEF ChangeEncoder, ChangeDecoder, encoder, decoder
<1>2. /\ \A n : n \in touched => n \in touched'
      /\ encoder_params' # encoder_params /\ frame_idx # 0 => Current \in touched'
  BY DEF ChangeEncoder, ChangeDecoder
<1>3. /\ Current' = Current /\ (\A i : NrAt(i)' = NrAt(i)) /\ (\A i : IdxAt(i)' = IdxAt(i))
      /\ (\A n, v : Home(n, v)' <=> Home(n, v)) /\ (\A v : Delivered(v)' <=> Delivered(v))
  BY <1>1 DEF Current, NrAt, IdxAt, Home, Delivered
<1>4. \A n, c : OfBlock(n, c)' <=> OfBlock(n, c)
  BY <1>3 DEF OfBlock
<1>5. frame_idx > 0 => frame_idx # 0
  OBVIOUS
<1>6. EncoderAt(s, q)'
  <2>1. EncoderAt(s, q)
    BY DEF StreamInv, StreamOK
  <2>2. \A i \in 0 .. frame_idx - 1 : Home(Current, enc[block_id][i])'
    <3> SUFFICES ASSUME NEW i \in 0 .. frame_idx - 1 PROVE Home(Current, enc[block_id][i])'
      OBVIOUS
    <3>1. Home(Current, enc[block_id][i])
      BY <2>1 DEF EncoderAt
    <3> QED
      BY <3>1, <1>1, <1>3 DEF Home
  <2>3. Current \notin touched' /\ frame_idx > 0 =>
          /\ q[Current] = encoder_params' /\ frame_idx < encoder_params'.k
          /\ sent = s[Current] + frame_idx
          /\ \A i \in 0 .. frame_idx - 1 : enc[block_id][i] = s[Current] + i + 1
    BY <2>1, <1>2, <1>5 DEF EncoderAt
  <2> QED
    BY <2>1, <2>2, <2>3, <1>1, <1>3 DEF EncoderAt
<1>7. BlocksClosed(s, q)'
  BY <1>1, <1>2 DEF StreamInv, StreamOK, BlocksClosed
<1>8. FramesOK(s, q)'
  <2>1. \A f : FrameOK(s, q, f) => FrameOK(s, q, f)'
    BY <1>1, <1>2, <1>3, <1>4 DEF FrameOK
  <2> QED
    BY <2>1, <1>1 DEF StreamInv, StreamOK, FramesOK
<1>9. InSequence(q)'
  <2>1. InSequence(q)
    BY DEF StreamInv, StreamOK
  <2>2. ASSUME NEW i \in 1 .. Len(link)
        PROVE  Follows(q, NrAt(i), IdxAt(i), NrAt(i + 1), IdxAt(i + 1))'
    <3>1. Follows(q, NrAt(i), IdxAt(i), NrAt(i + 1), IdxAt(i + 1))
      BY <2>1 DEF InSequence
    <3> QED
      BY <3>1, <1>2, <1>3 DEF Follows
  <2> QED
    BY <2>1, <2>2, <1>1, <1>3 DEF InSequence
<1>10. DecoderAt(m)'
  BY <1>1, <1>2, <1>3 DEF StreamInv, ReceivedOK, DecoderAt
<1>11. BufferOK(s, q, m)'
  BY <1>1, <1>2, <1>4 DEF StreamInv, ReceivedOK, BufferOK
<1>12. OnlyTaken(m)'
  BY <1>1 DEF StreamInv, ReceivedOK, OnlyTaken
<1>13. PutOut(s, q, m)'
  BY <1>1, <1>2, <1>3 DEF StreamInv, ReceivedOK, PutOut
<1>14. Settled(s, q, m)'
  BY <1>1, <1>2, <1>3 DEF StreamInv, ReceivedOK, Settled
<1>15. \A n : Place(q, n)' = Place(q, n)
  BY <1>3 DEF Place
<1>16. Unseen(q, m)' /\ Accounted(q, m)'
  BY <1>1, <1>2, <1>15 DEF StreamInv, ReceivedOK, Unseen, Accounted
<1> QED
  BY <1>6, <1>7, <1>8, <1>9, <1>10, <1>11, <1>12, <1>13, <1>14, <1>16
     DEF StreamInv, StreamOK, ReceivedOK, Streams

-----------------------------------------------------------------------------
(* A frame leaves the link, lost or taken. *)
Leaves(f) ==
    /\ link # << >> /\ f = link[1] /\ link' = Tail(link)
    /\ encoder' = encoder /\ encoder_params' = encoder_params
    /\ \A n : n \in touched' => n \in touched \/ n = f.nr
    /\ \A n : n \in touched => n \in touched'

(* The places on the link after the step, and the frame that has left. *)
LEMMA LeavesPlaces ==
    ASSUME Typed, NEW f, Leaves(f)
    PROVE  /\ f \in LinkFrame /\ NrAt(1) = f.nr /\ IdxAt(1) = f.idx
           /\ Len(link) \in Nat /\ Len(link) > 0 /\ Len(link') = Len(link) - 1
           /\ \A i \in 1 .. Len(link') : link'[i] = link[i + 1]
           /\ \A i \in 1 .. Len(link) : NrAt(i)' = NrAt(i + 1) /\ IdxAt(i)' = IdxAt(i + 1)
           /\ Current' = Current /\ frame_idx' = frame_idx /\ closed' = closed
           /\ (\A n, v : Home(n, v)' <=> Home(n, v)) /\ (\A n, c : OfBlock(n, c)' <=> OfBlock(n, c))
<1>1. /\ block_id' = block_id /\ frame_idx' = frame_idx /\ enc' = enc /\ sent' = sent
      /\ closed' = closed /\ home' = home
  BY DEF Leaves, encoder
<1>2. /\ link \in Seq(LinkFrame) /\ Len(link) \in Nat /\ Len(link) > 0
      /\ Len(link') = Len(link) - 1 /\ f \in LinkFrame
      /\ \A i \in 1 .. Len(link) - 1 : link'[i] = link[i + 1]
  BY LinkTail DEF Typed, LinkTyped, Leaves
<1>3. NrAt(1) = f.nr /\ IdxAt(1) = f.idx
  BY <1>2 DEF NrAt, IdxAt, Leaves
<1>4. Current' = Current /\ (\A n, v : Home(n, v)' <=> Home(n, v))
  BY <1>1 DEF Current, Home
<1>5. ASSUME NEW i \in 1 .. Len(link) PROVE NrAt(i)' = NrAt(i + 1) /\ IdxAt(i)' = IdxAt(i + 1)
  <2>1. CASE i <= Len(link) - 1
    <3>1. link'[i] = link[i + 1] /\ i <= Len(link') /\ i + 1 <= Len(link)
      BY <2>1, <1>2
    <3> QED
      BY <3>1 DEF NrAt, IdxAt
  <2>2. CASE i = Len(link)
    <3>1. ~(i <= Len(link')) /\ ~(i + 1 <= Len(link))
      BY <2>2, <1>2
    <3> QED
      BY <3>1, <1>1, <1>4 DEF NrAt, IdxAt
  <2> QED
    BY <2>1, <2>2, <1>2
<1>6. \A n, c : OfBlock(n, c)' <=> OfBlock(n, c)
  BY <1>4 DEF OfBlock
<1> QED
  BY <1>1, <1>2, <1>3, <1>4, <1>5, <1>6

(* The stream after the step, and which frame comes next. *)
LEMMA LeavesKeeps ==
    ASSUME Typed, NEW f, Leaves(f), NEW s, NEW q, StreamOK(s, q)
    PROVE  /\ StreamOK(s, q)'
           /\ FrameOK(s, q, f)
           /\ Follows(q, f.nr, f.idx, NrAt(1)', IdxAt(1)')
<1>1. /\ block_id' = block_id /\ frame_idx' = frame_idx /\ enc' = enc /\ sent' = sent
      /\ closed' = closed /\ home' = home /\ encoder_params' = encoder_params
      /\ \A n : n \in touched => n \in touched'
  BY DEF Leaves, encoder
<1>2. /\ NrAt(1) = f.nr /\ IdxAt(1) = f.idx
      /\ Len(link) \in Nat /\ Len(link) > 0 /\ Len(link') = Len(link) - 1
      /\ \A i \in 1 .. Len(link') : link'[i] = link[i + 1]
      /\ \A i \in 1 .. Len(link) : NrAt(i)' = NrAt(i + 1) /\ IdxAt(i)' = IdxAt(i + 1)
      /\ Current' = Current
      /\ (\A n, v : Home(n, v)' <=> Home(n, v)) /\ (\A n, c : OfBlock(n, c)' <=> OfBlock(n, c))
  BY LeavesPlaces
<1>3. 1 \in 1 .. Len(link) /\ f = link[1]
  BY <1>2 DEF Leaves
<1>4. FrameOK(s, q, f)
  BY <1>3 DEF StreamOK, FramesOK
<1>5. Follows(q, f.nr, f.idx, NrAt(1)', IdxAt(1)')
  <2>1. Follows(q, NrAt(1), IdxAt(1), NrAt(1 + 1), IdxAt(1 + 1))
    BY <1>3 DEF StreamOK, InSequence
  <2> QED
    BY <2>1, <1>2, <1>3
<1>6. EncoderAt(s, q)'
  <2>1. EncoderAt(s, q)
    BY DEF StreamOK
  <2>2. \A i \in 0 .. frame_idx - 1 : Home(Current, enc[block_id][i])'
    <3> SUFFICES ASSUME NEW i \in 0 .. frame_idx - 1 PROVE Home(Current, enc[block_id][i])'
      OBVIOUS
    <3>1. Home(Current, enc[block_id][i])
      BY <2>1 DEF EncoderAt
    <3> QED
      BY <3>1, <1>1, <1>2 DEF Home
  <2> QED
    BY <2>1, <2>2, <1>1, <1>2 DEF EncoderAt
<1>7. BlocksClosed(s, q)'
  BY <1>1 DEF StreamOK, BlocksClosed
<1>8. FramesOK(s, q)'
  <2>1. \A g : FrameOK(s, q, g) => FrameOK(s, q, g)'
    BY <1>1, <1>2 DEF FrameOK
  <2> SUFFICES ASSUME NEW i \in 1 .. Len(link') PROVE FrameOK(s, q, link[i])'
    BY DEF FramesOK
  <2>2. PICK g : g = link[i + 1]
    OBVIOUS
  <2>3. i + 1 \in 1 .. Len(link) /\ link'[i] = g
    BY <2>2, <1>2
  <2>4. FrameOK(s, q, g)
    BY <2>2, <2>3 DEF StreamOK, FramesOK
  <2>5. FrameOK(s, q, g)'
    BY <2>1, <2>4
  <2> QED
    BY <2>3, <2>5
<1>9. InSequence(q)'
  <2>1. InSequence(q)
    BY DEF StreamOK
  <2>2. ASSUME NEW i \in 1 .. Len(link')
        PROVE  Follows(q, NrAt(i), IdxAt(i), NrAt(i + 1), IdxAt(i + 1))'
    <3>1. i \in 1 .. Len(link) /\ i + 1 \in 1 .. Len(link)
      BY <1>2
    <3>2. Follows(q, NrAt(i + 1), IdxAt(i + 1), NrAt(i + 1 + 1), IdxAt(i + 1 + 1))
      BY <2>1, <3>1 DEF InSequence
    <3> QED
      BY <3>1, <3>2, <1>1, <1>2 DEF Follows
  <2>3. ASSUME NEW i \in 1 .. Len(link') + 1, NEW j \in 1 .. Len(link') + 1, i < j
        PROVE  NrAt(i)' <= NrAt(j)'
    <3>1. i \in 1 .. Len(link) /\ j \in 1 .. Len(link)
      BY <1>2
    <3>2. i + 1 \in 1 .. Len(link) + 1 /\ j + 1 \in 1 .. Len(link) + 1 /\ i + 1 < j + 1
      BY <3>1, <2>3, <1>2
    <3>3. NrAt(i + 1) <= NrAt(j + 1)
      BY <2>1, <3>2 DEF InSequence
    <3> QED
      BY <3>1, <3>3, <1>2
  <2>4. ASSUME NEW n \in NrAt(1)' .. Len(closed') PROVE \E i \in 1 .. Len(link') : NrAt(i)' = n
    <3>1. NrAt(1)' \in {f.nr, f.nr + 1} /\ f.nr \in Nat /\ Current \in Nat /\ Len(closed) = Current - 1
      <4>1. NrAt(1) \in Nat /\ Current \in Nat /\ Len(closed) = Current - 1
        BY NextPlace
      <4> QED
        BY <4>1, <1>2, <1>5 DEF Follows
    <3>2. n \in NrAt(1) .. Len(closed)
      BY <3>1, <1>1, <1>2
    <3>3. PICK j \in 1 .. Len(link) : NrAt(j) = n
      BY <2>1, <3>2 DEF InSequence
    <3>4. CASE j > 1
      <4>1. PICK i : i = j - 1
        OBVIOUS
      <4>2. i \in 1 .. Len(link') /\ i \in 1 .. Len(link) /\ i + 1 = j
        BY <4>1, <3>4, <1>2
      <4> QED
        BY <4>2, <3>3, <1>2
    <3>5. CASE j = 1
      <4>1. n = f.nr /\ NrAt(1)' = n
        BY <3>1, <3>3, <3>5, <1>2
      <4>2. Len(link') > 0
        <5> SUFFICES ASSUME Len(link') = 0 PROVE FALSE
          BY <1>2
        <5>1. ~(1 <= Len(link'))
          OBVIOUS
        <5>2. NrAt(1)' = Current
          BY <5>1, <1>2 DEF NrAt
        <5> QED
          BY <5>2, <4>1, <3>1, <1>1
      <4>3. 1 \in 1 .. Len(link')
        BY <4>2, <1>2
      <4> QED
        BY <4>1, <4>3
    <3> QED
      BY <3>4, <3>5
  <2> QED
    BY <2>2, <2>3, <2>4 DEF InSequence
<1> QED
  BY <1>4, <1>5, <1>6, <1>7, <1>8, <1>9 DEF StreamOK

(* How the place of the next frame of a block changes. *)
LEMMA PlaceMoves ==
    ASSUME Typed, NEW f, Leaves(f), NEW s, NEW q, Streams(s, q), StreamOK(s, q)
    PROVE  /\ f.nr \in Nat \ {0} /\ f.nr \in Numbers /\ f.idx \in Nat /\ f.idx \in Slots
           /\ f.nr = NrAt(1) /\ f.idx = IdxAt(1)
           /\ Place(q, f.nr) = f.idx
           /\ f.nr \notin touched => Place(q, f.nr)' = f.idx + 1
           /\ \A n \in Nat : n # f.nr => Place(q, n)' = Place(q, n)
           /\ NrAt(1)' \in Nat /\ IdxAt(1)' \in Nat
           /\ \/ NrAt(1)' = f.nr /\ IdxAt(1)' <= f.idx + 1
                 /\ (f.nr \notin touched => IdxAt(1)' = f.idx + 1)
              \/ NrAt(1)' = f.nr + 1 /\ IdxAt(1)' = 0 /\ f.idx > 0
<1>1. f \in LinkFrame /\ f.nr = NrAt(1) /\ f.idx = IdxAt(1)
  BY LeavesPlaces
<1>2. NrAt(1) \in Nat \ {0} /\ IdxAt(1) \in Nat
  BY NextPlace
<1>3. Follows(q, f.nr, f.idx, NrAt(1)', IdxAt(1)')
  BY LeavesKeeps
<1>4. f.nr \in Numbers /\ f.idx \in Slots
  BY <1>1 DEF LinkFrame, Frame
<1>5. NrAt(1)' \in Nat /\ IdxAt(1)' \in Nat
  <2>1. Len(link) \in Nat /\ Len(link') = Len(link) - 1 /\ link \in Seq(LinkFrame) /\ Len(link) > 0
        /\ NrAt(1)' = NrAt(1 + 1) /\ IdxAt(1)' = IdxAt(1 + 1)
    <3>1. Len(link) \in Nat /\ Len(link) > 0 => 1 \in 1 .. Len(link)
      OBVIOUS
    <3> QED
      BY <3>1, LeavesPlaces DEF Typed, LinkTyped
  <2>2. CASE 2 <= Len(link)
    <3>1. link[2] \in LinkFrame
      BY <2>1, <2>2
    <3>2. NbSlots \in Nat
      BY ParamFacts DEF Typed, EncoderTyped
    <3>3. link[2].nr \in Nat /\ link[2].idx \in Nat
      BY <3>1, <3>2 DEF LinkFrame, Frame, Slots
    <3> QED
      BY <3>3, <2>1, <2>2 DEF NrAt, IdxAt
  <2>3. CASE ~(2 <= Len(link))
    BY <2>1, <2>3, NextPlace DEF NrAt, IdxAt
  <2> QED
    BY <2>2, <2>3
<1>6. Place(q, f.nr) = f.idx
  BY <1>1, <1>2 DEF Place
<1>7. f.nr \notin touched => Place(q, f.nr)' = f.idx + 1
  BY <1>1, <1>2, <1>3, <1>5 DEF Place, Follows
<1>8. ASSUME NEW n \in Nat, n # f.nr PROVE Place(q, n)' = Place(q, n)
  BY <1>1, <1>2, <1>3, <1>5, <1>8 DEF Place, Follows
<1>9. \/ NrAt(1)' = f.nr /\ IdxAt(1)' <= f.idx + 1
         /\ (f.nr \notin touched => IdxAt(1)' = f.idx + 1)
      \/ NrAt(1)' = f.nr + 1 /\ IdxAt(1)' = 0 /\ f.idx > 0
  BY <1>3 DEF Follows
<1> QED
  BY <1>1, <1>2, <1>4, <1>5, <1>6, <1>7, <1>8, <1>9

(* One more empty slot. *)
LEMMA EmptyGrows ==
    ASSUME NEW buf, NEW i \in Nat
    PROVE  /\ Cardinality(Empty(buf, 0 .. i - 1)) \in Nat
           /\ IsFiniteSet(Empty(buf, 0 .. i - 1))
           /\ buf[i] = NoContent =>
                Cardinality(Empty(buf, 0 .. (i + 1) - 1)) = Cardinality(Empty(buf, 0 .. i - 1)) + 1
           /\ buf[i] # NoContent => Empty(buf, 0 .. (i + 1) - 1) = Empty(buf, 0 .. i - 1)
<1>1. IsFiniteSet(0 .. i - 1)
  BY FS_Interval
<1>2. IsFiniteSet(Empty(buf, 0 .. i - 1))
  BY <1>1, FS_Subset DEF Empty
<1>3. Cardinality(Empty(buf, 0 .. i - 1)) \in Nat
  BY <1>2, FS_CardinalityType
<1>4. 0 .. (i + 1) - 1 = (0 .. i - 1) \cup {i} /\ i \notin 0 .. i - 1
  OBVIOUS
<1>5. CASE buf[i] = NoContent
  <2>1. Empty(buf, 0 .. (i + 1) - 1) = Empty(buf, 0 .. i - 1) \cup {i}
    BY <1>4, <1>5 DEF Empty
  <2>2. i \notin Empty(buf, 0 .. i - 1)
    BY <1>4 DEF Empty
  <2> QED
    BY <2>1, <2>2, <1>2, <1>3, <1>5, FS_AddElement
<1>6. CASE buf[i] # NoContent
  <2>1. Empty(buf, 0 .. (i + 1) - 1) = Empty(buf, 0 .. i - 1)
    BY <1>4, <1>6 DEF Empty
  <2> QED
    BY <2>1, <1>2, <1>3, <1>6
<1> QED
  BY <1>5, <1>6

(* A frame is lost. *)
LEMMA LoseKeeps ==
    ASSUME Typed, Lose, NEW s, NEW q, NEW m, StreamInv(s, q, m)
    PROVE  StreamInv(s, q, m)'
<1>1. PICK f : f = Head(link)
  OBVIOUS
<1>2. Leaves(f)
  <2>1. link # << >> /\ link \in Seq(LinkFrame)
    BY DEF Lose, Typed, LinkTyped
  <2>2. f = link[1]
    BY <2>1, <1>1
  <2>3. encoder' = encoder
    BY DEF Lose
  <2> QED
    BY <2>1, <2>2, <2>3 DEF Lose, Leaves
<1>3. StreamOK(s, q) /\ Streams(s, q)
  BY DEF StreamInv
<1>4. StreamOK(s, q)'
  BY <1>2, <1>3, LeavesKeeps
<1>5. /\ f.nr \in Nat \ {0} /\ f.nr \in Numbers /\ f.idx \in Nat /\ f.idx \in Slots
      /\ f.nr = NrAt(1) /\ f.idx = IdxAt(1)
      /\ Place(q, f.nr) = f.idx
      /\ f.nr \notin touched => Place(q, f.nr)' = f.idx + 1
      /\ \A n \in Nat : n # f.nr => Place(q, n)' = Place(q, n)
      /\ NrAt(1)' \in Nat /\ IdxAt(1)' \in Nat
      /\ \/ NrAt(1)' = f.nr /\ IdxAt(1)' <= f.idx + 1
            /\ (f.nr \notin touched => IdxAt(1)' = f.idx + 1)
         \/ NrAt(1)' = f.nr + 1 /\ IdxAt(1)' = 0 /\ f.idx > 0
  BY <1>2, <1>3, PlaceMoves
<1>6. /\ dec' = dec /\ last_block' = last_block /\ packet_idx' = packet_idx
      /\ forwarded' = forwarded /\ out' = out /\ touched' = touched /\ burst' = burst + 1
  BY DEF Lose, decoder
<1>7. lost' = [lost EXCEPT ![f.nr] = @ + 1] /\ lost \in [Numbers -> Nat]
  BY <1>1 DEF Lose, Typed, LinkTyped
<1>8. /\ Current' = Current /\ frame_idx' = frame_idx
      /\ (\A n, v : Home(n, v)' <=> Home(n, v)) /\ (\A n, c : OfBlock(n, c)' <=> OfBlock(n, c))
  BY <1>2, LeavesPlaces
<1>9. m \in Nat /\ m <= f.nr
  BY <1>5 DEF StreamInv, ReceivedOK, DecoderAt
<1>10. DecoderAt(m)'
  <2>1. burst \in Nat
    BY ParamFacts DEF Typed, EncoderTyped, LinkTyped
  <2>2. DecoderAt(m)
    BY DEF StreamInv, ReceivedOK
  <2>3. m <= NrAt(1)'
    BY <1>5, <1>9
  <2>4. m < f.nr => burst >= 2 * (f.nr - m - 1) + f.idx
    BY <2>2, <1>5 DEF DecoderAt
  <2>5. m < NrAt(1)' => burst + 1 >= 2 * (NrAt(1)' - m - 1) + IdxAt(1)'
    BY <2>1, <2>4, <1>5, <1>9
  <2>6. m > 0 /\ m \notin touched /\ m = NrAt(1)' => packet_idx < IdxAt(1)'
    <3> SUFFICES ASSUME m > 0, m \notin touched, m = NrAt(1)' PROVE packet_idx < IdxAt(1)'
      OBVIOUS
    <3>1. m = f.nr /\ IdxAt(1)' = f.idx + 1
      BY <1>5, <1>9
    <3>2. packet_idx < f.idx
      BY <3>1, <2>2, <1>5 DEF DecoderAt
    <3>3. packet_idx \in Nat
      BY ParamFacts DEF Typed, DecoderTyped, Slots
    <3> QED
      BY <3>1, <3>2, <3>3, <1>5
  <2> QED
    BY <2>2, <2>3, <2>5, <2>6, <1>6, <1>8 DEF DecoderAt
<1>11. BufferOK(s, q, m)'
  BY <1>6, <1>8 DEF StreamInv, ReceivedOK, BufferOK
<1>12. OnlyTaken(m)'
  <2>1. sent' = sent /\ home' = home
    BY DEF Lose, encoder
  <2> QED
    BY <2>1, <1>6 DEF StreamInv, ReceivedOK, OnlyTaken
<1>13. \A v : Delivered(v)' <=> Delivered(v)
  BY <1>6 DEF Delivered
<1>14. PutOut(s, q, m)'
  BY <1>6, <1>13 DEF StreamInv, ReceivedOK, PutOut
<1>15. Settled(s, q, m)'
  <2> SUFFICES ASSUME NEW n \in 1 .. m - 1, n \notin touched, lost'[n] <= q[n].h,
                      NEW i \in DataIdx(q[n])
               PROVE  Delivered(s[n] + i + 1)
    BY <1>6, <1>13 DEF Settled
  <2>1. lost'[n] = lost[n]
    BY <1>5, <1>7, <1>9 DEF Numbers
  <2> QED
    BY <2>1 DEF StreamInv, ReceivedOK, Settled
<1>16. Unseen(q, m)'
  <2> SUFFICES ASSUME NEW n \in Numbers, n > m, n \notin touched PROVE lost'[n] = Place(q, n)'
    BY <1>6 DEF Unseen
  <2>1. lost[n] = Place(q, n)
    BY DEF StreamInv, ReceivedOK, Unseen
  <2>2. n \in Nat
    BY DEF Numbers
  <2>3. CASE n = f.nr
    BY <2>1, <2>3, <1>5, <1>7
  <2>4. CASE n # f.nr
    BY <2>1, <2>2, <2>4, <1>5, <1>7
  <2> QED
    BY <2>3, <2>4
<1>17. Accounted(q, m)'
  <2> SUFFICES ASSUME m > 0, m \notin touched, ~forwarded
               PROVE  lost'[m] = Cardinality(Empty(dec[last_block], 0 .. Place(q, m)' - 1))
    BY <1>6 DEF Accounted
  <2>1. lost[m] = Cardinality(Empty(dec[last_block], 0 .. Place(q, m) - 1))
    BY DEF StreamInv, ReceivedOK, Accounted
  <2>2. CASE m = f.nr
    <3>1. dec[last_block][f.idx] = NoContent
      <4>1. packet_idx < f.idx
        BY <2>2, <1>5 DEF StreamInv, ReceivedOK, DecoderAt
      <4>2. Holds(s, q, m, dec[last_block], packet_idx)
        BY DEF StreamInv, ReceivedOK, BufferOK
      <4>3. packet_idx \in Nat
        BY ParamFacts DEF Typed, DecoderTyped, Slots
      <4> QED
        BY <4>1, <4>2, <4>3, <1>5 DEF Holds
    <3>2. PICK b : b = dec[last_block]
      OBVIOUS
    <3>3. /\ Cardinality(Empty(b, 0 .. f.idx - 1)) \in Nat
          /\ Cardinality(Empty(b, 0 .. (f.idx + 1) - 1)) = Cardinality(Empty(b, 0 .. f.idx - 1)) + 1
      BY <3>1, <3>2, <1>5, EmptyGrows
    <3>4. Place(q, m)' = f.idx + 1 /\ Place(q, m) = f.idx /\ lost'[m] = lost[m] + 1
      BY <2>2, <1>5, <1>7
    <3> QED
      BY <3>2, <3>3, <3>4, <2>1
  <2>3. CASE m # f.nr
    <3>1. Place(q, m)' = Place(q, m) /\ lost'[m] = lost[m]
      <4>1. m \in Numbers
        <5>1. MaxData \in Nat
          BY ParamFacts DEF Typed, EncoderTyped
        <5> QED
          BY <5>1, <1>5, <1>9 DEF Numbers
      <4> QED
        BY <4>1, <2>3, <1>5, <1>7, <1>9
    <3> QED
      BY <3>1, <2>1
  <2> QED
    BY <2>2, <2>3
<1> QED
  BY <1>3, <1>4, <1>10, <1>11, <1>12, <1>14, <1>15, <1>16, <1>17 DEF StreamInv, ReceivedOK, Streams

-----------------------------------------------------------------------------
(* The decoder takes a frame. *)

(* What the theorems about losses assume of the link: no burst is longer   *)
(* than the frames of MaxBlock - 1 blocks, of which a block has at least   *)
(* two.                                                                    *)
ShortBursts == MaxBurst <= 2 * (MaxBlock - 1)

(* A frame that does not start a block is of the block that the decoder    *)
(* took the last frame of: for a later block with the same number to come, *)
(* the burst would have to swallow all blocks between.                     *)
LEMMA SameBlock ==
    ASSUME ShortBursts, Typed, NEW s, NEW q, NEW m, StreamInv(s, q, m),
           NEW f, Leaves(f), ~StartsBlock(f)
    PROVE  m > 0 /\ f.nr = m
<1>1. f.block = last_block /\ f.idx > packet_idx
  <2>1. f.idx \in Nat /\ packet_idx \in Nat
    BY PlaceMoves, ParamFacts DEF StreamInv, Typed, DecoderTyped, Slots
  <2> QED
    BY <2>1 DEF StartsBlock
<1>2. f.nr \in Nat \ {0} /\ f.idx \in Nat /\ f.nr = NrAt(1) /\ f.idx = IdxAt(1)
  BY PlaceMoves DEF StreamInv
<1>3. FrameOK(s, q, f) /\ f \in LinkFrame
  BY LeavesKeeps, LeavesPlaces DEF StreamInv
<1>4. f.block = (f.nr - 1) % MaxBlock /\ f.block \in Blocks
  BY <1>3 DEF FrameOK, LinkFrame, Frame
<1>5. MaxBlock \in Nat \ {0} /\ MaxBurst \in Nat
  BY ParamFacts DEF Typed, EncoderTyped
<1>6. /\ m \in Nat /\ m <= f.nr
      /\ last_block = IF m = 0 THEN -1 ELSE (m - 1) % MaxBlock
      /\ m < f.nr => burst >= 2 * (f.nr - m - 1) + f.idx
  BY <1>2 DEF StreamInv, ReceivedOK, DecoderAt
<1>7. m > 0
  <2> SUFFICES ASSUME m = 0 PROVE FALSE
    BY <1>6
  <2>1. last_block = -1
    BY <1>6
  <2>2. -1 \in Blocks
    BY ONLY <2>1, <1>1, <1>4
  <2> QED
    BY ONLY <2>2, <1>5 DEF Blocks
<1>8. (m - 1) % MaxBlock = (f.nr - 1) % MaxBlock
  <2>1. m # 0
    BY ONLY <1>6, <1>7
  <2>2. last_block = (m - 1) % MaxBlock
    BY ONLY <2>1, <1>6
  <2> QED
    BY ONLY <2>2, <1>1, <1>4
<1>9. ASSUME m < f.nr PROVE FALSE
  <2>1. PICK a \in Nat, b \in Nat : a = m - 1 /\ b = f.nr - 1
    BY <1>2, <1>6, <1>7
  <2>2. a < b /\ a % MaxBlock = b % MaxBlock
    BY <2>1, <1>2, <1>6, <1>8, <1>9
  <2>3. a + MaxBlock <= b
    BY <2>2, <1>5, ModSame
  <2>4. burst \in Nat /\ burst <= MaxBurst /\ burst >= 2 * (f.nr - m - 1) + f.idx
    BY <1>5, <1>6, <1>9 DEF Typed, LinkTyped
  <2>5. packet_idx \in Nat
    BY ParamFacts DEF Typed, DecoderTyped, Slots
  <2> QED
    BY <2>1, <2>3, <2>4, <2>5, <1>1, <1>2, <1>5, <1>6 DEF ShortBursts
<1> QED
  BY <1>2, <1>6, <1>7, <1>9

(* The packets of a block that no change has touched. *)
LEMMA HomeRange ==
    ASSUME Typed, NEW s, NEW q, Streams(s, q), StreamOK(s, q),
           NEW n \in 1 .. Current, n \notin touched, n = Current => frame_idx > 0
    PROVE  /\ s[n] \in Nat /\ q[n] \in Params /\ q[n].k \in Nat \ {0} /\ q[n].h \in Nat \ {0}
           /\ \A i \in DataIdx(q[n]) : s[n] + i + 1 <= sent => home[s[n] + i + 1] = n
           /\ \A v : Home(n, v) => v \in s[n] + 1 .. s[n] + q[n].k
<1>1. n \in Nat /\ Current \in Nat /\ Len(closed) = Current - 1 /\ sent \in Nat
  BY NextPlace DEF Typed, EncoderTyped
<1>2. s[n] \in Nat /\ q[n] \in Params /\ q[n].k \in Nat \ {0} /\ q[n].h \in Nat \ {0}
  BY <1>1, ParamFacts DEF Streams
<1>3. \A v \in 1 .. sent : home[v] = n <=> v \in s[n] + 1 .. s[n] + q[n].k
  <2>1. CASE n < Current
    <3>1. n \in 1 .. Len(closed)
      BY <2>1, <1>1
    <3> QED
      BY <3>1 DEF StreamOK, BlocksClosed
  <2>2. CASE n = Current
    <3>1. q[n] = encoder_params /\ frame_idx < q[n].k /\ sent = s[n] + frame_idx
      BY <2>2 DEF StreamOK, EncoderAt
    <3>2. \A v \in 1 .. sent : home[v] = n <=> s[n] < v
      BY <2>2 DEF StreamOK, EncoderAt
    <3>3. frame_idx \in Nat
      BY NextPlace
    <3> QED
      BY <3>1, <3>2, <3>3, <1>1, <1>2
  <2> QED
    BY <2>1, <2>2, <1>1
<1>4. \A i \in DataIdx(q[n]) : s[n] + i + 1 <= sent => home[s[n] + i + 1] = n
  <2> SUFFICES ASSUME NEW i \in DataIdx(q[n]), s[n] + i + 1 <= sent PROVE home[s[n] + i + 1] = n
    OBVIOUS
  <2>1. PICK v \in 1 .. sent : v = s[n] + i + 1
    BY <1>1, <1>2 DEF DataIdx
  <2>2. v \in s[n] + 1 .. s[n] + q[n].k
    <3>1. PICK k, b \in Nat : k = q[n].k /\ b = s[n]
      BY <1>2
    <3>2. i \in 0 .. k - 1 /\ v = b + i + 1
      BY <3>1, <2>1 DEF DataIdx
    <3>3. v \in b + 1 .. b + k
      BY ONLY <3>2, k \in Nat, b \in Nat
    <3> QED
      BY <3>1, <3>3
  <2> QED
    BY <2>1, <2>2, <1>3
<1>5. \A v : Home(n, v) => v \in s[n] + 1 .. s[n] + q[n].k
  BY <1>3 DEF Home
<1> QED
  BY <1>2, <1>4, <1>5

(* A block that cannot be decoded has lost more frames than it has parity  *)
(* packets.                                                                *)
LEMMA UndecidedLost ==
    ASSUME NEW p \in Params, NEW buf, Undecided(p, buf)
    PROVE  Cardinality(Empty(buf, 0 .. Size(p) - 1)) > p.h
<1> DEFINE D == DataIdx(p)
           Q == ParityIdx(p)
           ED == Empty(buf, D)
           EQ == Empty(buf, Q)
           FQ == Filled(buf, Q)
<1>1. PICK k, h \in Nat \ {0} : k = p.k /\ h = p.h
  BY ParamFacts
<1>2. D = 0 .. k - 1 /\ Q = k .. k + h - 1 /\ Size(p) = k + h
  BY <1>1 DEF DataIdx, ParityIdx, Size
<1>3. IsFiniteSet(D) /\ IsFiniteSet(Q) /\ Cardinality(Q) = h
  <2>1. IsFiniteSet(0 .. k - 1)
    BY FS_Interval
  <2>2. IsFiniteSet(k .. k + h - 1) /\ Cardinality(k .. k + h - 1) = h
    <3>1. k \in Int /\ k + h - 1 \in Int /\ ~(k > k + h - 1) /\ (k + h - 1) - k + 1 = h
      OBVIOUS
    <3> QED
      BY <3>1, FS_Interval
  <2> QED
    BY <2>1, <2>2, <1>2
<1>4. IsFiniteSet(ED) /\ IsFiniteSet(EQ) /\ IsFiniteSet(FQ)
  BY <1>3, FS_Subset DEF Empty, Filled
<1>5. Cardinality(ED) \in Nat /\ Cardinality(EQ) \in Nat /\ Cardinality(FQ) \in Nat
  BY <1>4, FS_CardinalityType
<1>6. EQ \cup FQ = Q /\ EQ \cap FQ = {}
  BY DEF Empty, Filled
<1>7. Cardinality(EQ) + Cardinality(FQ) = h
  <2>1. Cardinality(EQ \cup FQ) = Cardinality(EQ) + Cardinality(FQ) - Cardinality(EQ \cap FQ)
    BY <1>4, FS_Union
  <2>2. Cardinality(EQ \cap FQ) = 0
    BY <1>6, FS_EmptySet
  <2>3. Cardinality(EQ \cup FQ) = h
    BY <1>3, <1>6
  <2>4. PICK a, b, c, d : /\ a = Cardinality(EQ \cup FQ) /\ b = Cardinality(EQ)
                          /\ c = Cardinality(FQ) /\ d = Cardinality(EQ \cap FQ)
    OBVIOUS
  <2>5. a = b + c - d /\ d = 0 /\ a = h /\ b \in Nat /\ c \in Nat
    BY ONLY <2>1, <2>2, <2>3, <2>4, <1>5
  <2>6. b + c = h
    BY ONLY <2>5, h \in Nat \ {0}
  <2> QED
    BY ONLY <2>4, <2>6
<1>8. Empty(buf, 0 .. Size(p) - 1) = ED \cup EQ /\ ED \cap EQ = {}
  <2>1. 0 .. Size(p) - 1 = D \cup Q /\ D \cap Q = {}
    BY <1>2
  <2> HIDE DEF D, Q
  <2> QED
    BY <2>1 DEF Empty
<1>9. Cardinality(ED \cup EQ) = Cardinality(ED) + Cardinality(EQ)
  <2>1. Cardinality(ED \cup EQ) = Cardinality(ED) + Cardinality(EQ) - Cardinality(ED \cap EQ)
    BY <1>4, FS_Union
  <2>2. Cardinality(ED \cap EQ) = 0
    BY <1>8, FS_EmptySet
  <2> HIDE DEF ED, EQ
  <2> QED
    BY <2>1, <2>2, <1>5
<1>10. Cardinality(ED) > Cardinality(FQ)
  BY DEF Undecided
<1>11. PICK a, b, c : a = Cardinality(ED) /\ b = Cardinality(EQ) /\ c = Cardinality(FQ)
  OBVIOUS
<1>12. a \in Nat /\ b \in Nat /\ c \in Nat /\ b + c = h /\ a > c
  BY ONLY <1>5, <1>7, <1>10, <1>11
<1>13. a + b > h
  BY ONLY <1>12, h \in Nat \ {0}
<1>14. Cardinality(Empty(buf, 0 .. Size(p) - 1)) = a + b
  BY ONLY <1>8, <1>9, <1>11
<1> QED
  BY ONLY <1>1, <1>13, <1>14

(* What every frame that the decoder takes leads to. *)
LEMMA TakeCommon ==
    ASSUME Typed, NEW f, TakeFrame(f), f = link[1], NEW s, NEW q, NEW m, StreamInv(s, q, m),
           \A v : Delivered(v) => Delivered(v)', last_block' = f.block,
           packet_idx' <= f.idx, packet_idx' \in Nat
    PROVE  /\ Leaves(f) /\ StreamOK(s, q)'
           /\ DecoderAt(f.nr)' /\ Unseen(q, f.nr)' /\ Settled(s, q, f.nr)'
<1>1. /\ encoder' = encoder /\ encoder_params' = encoder_params /\ lost' = lost /\ burst' = 0
      /\ link # << >> /\ link' = Tail(link)
  BY DEF TakeFrame
<1>2. Leaves(f)
  BY <1>1 DEF TakeFrame, Leaves
<1>3. StreamOK(s, q) /\ Streams(s, q)
  BY DEF StreamInv
<1>4. StreamOK(s, q)' /\ FrameOK(s, q, f)
  BY <1>2, <1>3, LeavesKeeps
<1>5. /\ f.nr \in Nat \ {0} /\ f.nr \in Numbers /\ f.idx \in Nat /\ f.nr = NrAt(1)
      /\ \A n \in Nat : n # f.nr => Place(q, n)' = Place(q, n)
      /\ NrAt(1)' \in Nat /\ IdxAt(1)' \in Nat
      /\ \/ NrAt(1)' = f.nr /\ IdxAt(1)' <= f.idx + 1
            /\ (f.nr \notin touched => IdxAt(1)' = f.idx + 1)
         \/ NrAt(1)' = f.nr + 1 /\ IdxAt(1)' = 0 /\ f.idx > 0
  BY <1>2, <1>3, PlaceMoves
<1>6. /\ Current' = Current /\ frame_idx' = frame_idx
  BY <1>2, LeavesPlaces
<1>7. \A n : n \in touched => n \in touched'
  BY <1>2 DEF Leaves
<1>8. m \in Nat /\ m <= f.nr
  BY <1>5 DEF StreamInv, ReceivedOK, DecoderAt
<1>9. DecoderAt(f.nr)'
  <2>1. f.nr = Current => frame_idx > 0
    BY <1>4 DEF FrameOK
  <2>2. last_block' = IF f.nr = 0 THEN -1 ELSE (f.nr - 1) % MaxBlock
    BY <1>4, <1>5 DEF FrameOK
  <2>3. f.nr <= NrAt(1)' /\ (f.nr < NrAt(1)' => 0 >= 2 * (NrAt(1)' - f.nr - 1) + IdxAt(1)')
    BY <1>5
  <2>4. f.nr \notin touched' /\ f.nr = NrAt(1)' => packet_idx' < IdxAt(1)'
    BY <1>5, <1>7
  <2> QED
    BY <2>1, <2>2, <2>3, <2>4, <1>1, <1>5, <1>6 DEF DecoderAt
<1>10. Unseen(q, f.nr)'
  <2> SUFFICES ASSUME NEW n \in Numbers, n > f.nr, n \notin touched' PROVE lost'[n] = Place(q, n)'
    BY DEF Unseen
  <2>1. n \in Nat
    BY DEF Numbers
  <2>2. n > m /\ n # f.nr
    BY <2>1, <1>5, <1>8
  <2>3. lost[n] = Place(q, n)
    BY <2>2, <1>7 DEF StreamInv, ReceivedOK, Unseen
  <2> QED
    BY <2>1, <2>2, <2>3, <1>1, <1>5
<1>11. Settled(s, q, f.nr)'
  <2> SUFFICES ASSUME NEW n \in 1 .. f.nr - 1, n \notin touched, lost[n] <= q[n].h,
                      NEW i \in DataIdx(q[n])
               PROVE  Delivered(s[n] + i + 1)
    BY <1>1, <1>7 DEF Settled
  <2>1. n \in Nat /\ n \in Numbers /\ n < NrAt(1)
    <3>1. MaxData \in Nat
      BY ParamFacts DEF Typed, EncoderTyped
    <3> QED
      BY <3>1, <1>5 DEF Numbers
  <2>2. Place(q, n) = Size(q[n])
    BY <2>1 DEF Place
  <2>3. q[n] \in Params
    BY <2>1, <1>3 DEF Streams
  <2>4. q[n].k \in Nat \ {0} /\ q[n].h \in Nat \ {0}
    BY <2>3, ParamFacts
  <2>5. CASE n < m
    <3>1. n \in 1 .. m - 1
      BY <2>1, <2>5, <1>8
    <3> QED
      BY <3>1 DEF StreamInv, ReceivedOK, Settled
  <2>6. CASE n > m
    <3>1. lost[n] = q[n].k + q[n].h
      BY <2>1, <2>2, <2>6 DEF StreamInv, ReceivedOK, Unseen, Size
    <3> QED
      BY <3>1, <2>4
  <2>7. CASE n = m /\ forwarded
    BY <2>7 DEF StreamInv, ReceivedOK, PutOut
  <2>8. CASE n = m /\ ~forwarded
    <3>1. PICK b : b = dec[last_block]
      OBVIOUS
    <3>2. Undecided(q[n], b)
      BY <2>8, <3>1 DEF StreamInv, ReceivedOK, BufferOK
    <3>3. lost[n] = Cardinality(Empty(b, 0 .. Size(q[n]) - 1))
      BY <2>2, <2>8, <3>1 DEF StreamInv, ReceivedOK, Accounted
    <3>4. Cardinality(Empty(b, 0 .. Size(q[n]) - 1)) > q[n].h
      BY <3>2, <2>3, UndecidedLost
    <3>5. lost[n] \in Nat
      BY <2>1 DEF Typed, LinkTyped
    <3> QED
      BY <3>3, <3>4, <3>5, <2>4
  <2> QED
    BY <2>1, <2>5, <2>6, <2>7, <2>8, <1>8
<1> QED
  BY <1>2, <1>4, <1>9, <1>10, <1>11

(* What the decoder puts out is added at the end. *)
LEMMA OutGrows ==
    ASSUME Typed, NEW e \in Seq(Outputs), out' = out \o e
    PROVE  /\ Len(out) \in Nat /\ Len(e) \in Nat /\ Len(out') = Len(out) + Len(e)
           /\ \A i \in 1 .. Len(out) : out'[i] = out[i]
           /\ \A j \in 1 .. Len(e) : out'[Len(out) + j] = e[j]
           /\ \A i \in 1 .. Len(out') : i > Len(out) =>
                 \E j \in 1 .. Len(e) : i = Len(out) + j
           /\ \A v : Delivered(v)' <=> Delivered(v) \/ \E j \in 1 .. Len(e) : e[j] = v
<1>1. out \in Seq(Outputs)
  BY DEF Typed, DecoderTyped
<1>2. Len(out) \in Nat /\ Len(e) \in Nat /\ Len(out') = Len(out) + Len(e)
  BY <1>1
<1>3. \A i \in 1 .. Len(out) : out'[i] = out[i]
  BY <1>1
<1>4. \A j \in 1 .. Len(e) : out'[Len(out) + j] = e[j]
  BY <1>1
<1>5. ASSUME NEW i \in 1 .. Len(out'), i > Len(out)
      PROVE  \E j \in 1 .. Len(e) : i = Len(out) + j
  <2>1. i - Len(out) \in 1 .. Len(e) /\ i = Len(out) + (i - Len(out))
    BY ONLY <1>2, <1>5
  <2> QED
    BY <2>1
<1>6. ASSUME NEW v PROVE Delivered(v)' <=> Delivered(v) \/ \E j \in 1 .. Len(e) : e[j] = v
  <2>1. ASSUME Delivered(v) PROVE Delivered(v)'
    <3>1. PICK i \in 1 .. Len(out) : out[i] = v
      BY <2>1 DEF Delivered
    <3>2. i \in 1 .. Len(out') /\ out'[i] = v
      BY ONLY <3>1, <1>2, <1>3
    <3> QED
      BY <3>2 DEF Delivered
  <2>2. ASSUME NEW j \in 1 .. Len(e), e[j] = v PROVE Delivered(v)'
    <3>1. Len(out) + j \in 1 .. Len(out') /\ out'[Len(out) + j] = v
      BY ONLY <2>2, <1>2, <1>4
    <3> QED
      BY <3>1 DEF Delivered
  <2>3. ASSUME Delivered(v)', ~Delivered(v) PROVE \E j \in 1 .. Len(e) : e[j] = v
    <3>1. PICK i \in 1 .. Len(out') : out'[i] = v
      BY <2>3 DEF Delivered
    <3>2. i > Len(out)
      <4> SUFFICES ASSUME ~(i > Len(out)) PROVE FALSE
        OBVIOUS
      <4>1. i \in 1 .. Len(out) /\ out[i] = v
        BY ONLY <3>1, <1>2, <1>3, ~(i > Len(out))
      <4> QED
        BY <4>1, <2>3 DEF Delivered
    <3>3. PICK j \in 1 .. Len(e) : i = Len(out) + j
      BY <3>2, <1>5
    <3> QED
      BY <3>1, <3>3, <1>4
  <2> QED
    BY <2>1, <2>2, <2>3
<1> QED
  BY <1>2, <1>3, <1>4, <1>5, <1>6

(* What may be put out when a frame of block N is taken: packets of that   *)
(* block, or garbage if it is touched; if it is not, nothing twice.        *)
Emitted(N, e) ==
    /\ \A j \in 1 .. Len(e) : e[j] > 0 => Home(N, e[j])
    /\ \A j \in 1 .. Len(e) : e[j] < 0 => e[j] = -N /\ N \in touched'
    /\ N \notin touched' => /\ \A j \in 1 .. Len(e) : ~Delivered(e[j])
                            /\ \A j, l \in 1 .. Len(e) : j < l => e[j] # e[l]

(* Such an output harms only the blocks touched. *)
LEMMA HarmStep ==
    ASSUME Typed, HarmIsConfined, NEW e \in Seq(Outputs), out' = out \o e, NEW N \in Nat,
           Emitted(N, e), NEW m, OnlyTaken(m), m \in Nat, m <= N,
           sent' = sent, home' = home, \A n : n \in touched => n \in touched'
    PROVE  HarmIsConfined' /\ OnlyTaken(N)'
<1>1. /\ Len(out) \in Nat /\ Len(e) \in Nat /\ Len(out') = Len(out) + Len(e)
      /\ \A i \in 1 .. Len(out) : out'[i] = out[i]
      /\ \A j \in 1 .. Len(e) : out'[Len(out) + j] = e[j]
      /\ \A i \in 1 .. Len(out') : i > Len(out) => \E j \in 1 .. Len(e) : i = Len(out) + j
  BY OutGrows
<1>2. ASSUME NEW i \in 1 .. Len(out')
      PROVE  \/ i \in 1 .. Len(out) /\ out'[i] = out[i]
             \/ \E j \in 1 .. Len(e) : i = Len(out) + j /\ out'[i] = e[j]
  <2>1. CASE i > Len(out)
    BY <2>1, <1>1
  <2>2. CASE ~(i > Len(out))
    BY ONLY <2>2, <1>1, i \in 1 .. Len(out')
  <2> QED
    BY <2>1, <2>2
<1>3. ASSUME NEW i \in 1 .. Len(out'), out'[i] < 0 PROVE -out'[i] \in touched'
  <2>1. CASE i \in 1 .. Len(out) /\ out'[i] = out[i]
    BY <2>1, <1>3 DEF HarmIsConfined
  <2>2. ASSUME NEW j \in 1 .. Len(e), out'[i] = e[j] PROVE -out'[i] \in touched'
    <3>1. e[j] = -N /\ N \in touched'
      BY <2>2, <1>3 DEF Emitted
    <3> QED
      BY <3>1, <2>2
  <2> QED
    BY <2>1, <2>2, <1>2
<1>4. ASSUME NEW i \in 1 .. Len(out'), NEW j \in 1 .. Len(out'), i < j, out'[i] = out'[j], out'[i] > 0
      PROVE  home[out'[i]] \in touched'
  <2>1. CASE j \in 1 .. Len(out) /\ out'[j] = out[j]
    <3>1. i \in 1 .. Len(out) /\ out'[i] = out[i] /\ i # j
      BY <2>1, <1>1, <1>4
    <3> QED
      BY <3>1, <2>1, <1>4 DEF HarmIsConfined
  <2>2. ASSUME NEW l \in 1 .. Len(e), j = Len(out) + l, out'[j] = e[l] PROVE home[out'[i]] \in touched'
    <3>1. home[out'[i]] = N
      BY <2>2, <1>4 DEF Emitted, Home
    <3>2. ASSUME N \notin touched' PROVE FALSE
      <4>1. ~Delivered(e[l]) /\ \A a, b \in 1 .. Len(e) : a < b => e[a] # e[b]
        BY <3>2 DEF Emitted
      <4>2. CASE i \in 1 .. Len(out) /\ out'[i] = out[i]
        BY <4>1, <4>2, <2>2, <1>4 DEF Delivered
      <4>3. ASSUME NEW a \in 1 .. Len(e), i = Len(out) + a, out'[i] = e[a] PROVE FALSE
        <5>1. a < l
          BY ONLY <4>3, <2>2, <1>1, <1>4
        <5> QED
          BY <5>1, <4>1, <4>3, <2>2, <1>4
      <4> QED
        BY <4>2, <4>3, <1>2
    <3> QED
      BY <3>1, <3>2
  <2> QED
    BY <2>1, <2>2, <1>2
<1>5. HarmIsConfined'
  <2>1. \A i \in 1 .. Len(out') : out'[i] < 0 => -out'[i] \in touched'
    BY <1>3
  <2>2. ASSUME NEW i \in 1 .. Len(out'), NEW j \in 1 .. Len(out'), i # j, out'[i] = out'[j], out'[i] > 0
        PROVE  home'[out'[i]] \in touched'
    <3>1. CASE i < j
      BY <3>1, <2>2, <1>4
    <3>2. CASE j < i
      BY <3>2, <2>2, <1>4
    <3> QED
      BY <3>1, <3>2, <2>2
  <2> QED
    BY <2>1, <2>2 DEF HarmIsConfined
<1>6. OnlyTaken(N)'
  <2> SUFFICES ASSUME NEW i \in 1 .. Len(out'), out'[i] > 0
               PROVE  out'[i] <= sent /\ home[out'[i]] <= N
    BY DEF OnlyTaken
  <2>1. CASE i \in 1 .. Len(out) /\ out'[i] = out[i]
    <3>1. out[i] <= sent /\ home[out[i]] <= m
      BY <2>1 DEF OnlyTaken
    <3>2. home[out[i]] \in Nat
      <4>1. out[i] \in Outputs /\ home \in Seq(Nat) /\ Len(home) = sent /\ sent \in Nat /\ MaxData \in Nat
        BY <2>1, ParamFacts DEF Typed, DecoderTyped, EncoderTyped
      <4>2. out[i] \in 1 .. sent
        BY <4>1, <3>1, <2>1 DEF Outputs
      <4> QED
        BY ONLY <4>1, <4>2
    <3> QED
      BY <3>1, <3>2, <2>1
  <2>2. ASSUME NEW j \in 1 .. Len(e), out'[i] = e[j] PROVE out'[i] <= sent /\ home[out'[i]] <= N
    <3>1. Home(N, e[j])
      BY <2>2 DEF Emitted
    <3>2. e[j] \in 1 .. sent /\ home[e[j]] = N /\ sent \in Nat
      BY <3>1 DEF Home, Typed, EncoderTyped
    <3> QED
      BY <3>2, <2>2
  <2> QED
    BY <2>1, <2>2, <1>2
<1> QED
  BY <1>5, <1>6

(* What the program forwards of the frame itself. *)
LEMMA PassedFacts ==
    ASSUME Typed, NEW f \in LinkFrame, TakeFrame(f), NEW s, NEW q, FrameOK(s, q, f)
    PROVE  /\ Passed(f) \in Seq(Outputs)
           /\ \/ Passed(f) = << >>
              \/ \E v : Passed(f) = <<v>> /\ v > 0 /\ Home(f.nr, v)
              \/ Passed(f) = <<-f.nr>> /\ f.nr \in touched'
<1>1. Passed(f) \in Seq(Outputs)
  BY PassedTyped, ParamFacts DEF Typed, EncoderTyped
<1>2. CASE f.idx >= decoder_params.k
  BY <1>1, <1>2 DEF Passed
<1>3. CASE ~(f.idx >= decoder_params.k) /\ f.content.data # Absent
  <2>1. Passed(f) = <<f.content.data>>
    BY <1>3 DEF Passed
  <2>2. Home(f.nr, f.content.data)
    BY <1>3 DEF FrameOK, OfBlock
  <2>3. f.content.data > 0
    BY <2>2 DEF Home, Typed, EncoderTyped
  <2> QED
    BY <2>1, <2>2, <2>3, <1>1
<1>4. CASE ~(f.idx >= decoder_params.k) /\ f.content.data = Absent
  <2>1. Passed(f) = <<-f.nr>>
    BY <1>4 DEF Passed
  <2>2. f.idx >= f.par.k
    BY <1>4 DEF FrameOK
  <2>3. f.par # decoder_params
    BY <2>2, <1>4
  <2>4. f.nr \in touched'
    BY <2>3 DEF TakeFrame
  <2> QED
    BY <2>1, <2>4, <1>1
<1> QED
  BY <1>2, <1>3, <1>4

(* The frame is skipped: its block was forwarded already. *)
LEMMA SkipKeeps ==
    ASSUME ShortBursts, Typed, HarmIsConfined, Skip, NEW s, NEW q, NEW m, StreamInv(s, q, m)
    PROVE  HarmIsConfined' /\ StreamInv(s, q, m)'
<1>1. PICK f : f = Head(link)
  OBVIOUS
<1>2. /\ TakeFrame(f) /\ ~StartsBlock(f) /\ forwarded /\ out' = out \o Passed(f)
      /\ dec' = dec /\ last_block' = last_block /\ packet_idx' = packet_idx /\ forwarded' = forwarded
  BY <1>1 DEF Skip
<1>3. /\ link # << >> /\ link \in Seq(LinkFrame)
  BY <1>2 DEF TakeFrame, Typed, LinkTyped
<1>4. f = link[1] /\ f \in LinkFrame
  BY <1>1, <1>3
<1>5. encoder' = encoder /\ encoder_params' = encoder_params
  BY <1>2 DEF TakeFrame
<1>6. Leaves(f)
  BY <1>2, <1>3, <1>4, <1>5 DEF TakeFrame, Leaves
<1>7. StreamOK(s, q) /\ Streams(s, q)
  BY DEF StreamInv
<1>8. FrameOK(s, q, f) /\ f.idx \in Nat /\ f.nr \in Nat
  BY <1>6, <1>7, LeavesKeeps, PlaceMoves
<1>9. m > 0 /\ f.nr = m
  BY <1>2, <1>6, SameBlock
<1>10. PICK e \in Seq(Outputs) : e = Passed(f)
  BY <1>2, <1>4, <1>8, PassedFacts
<1>11. \A v : Delivered(v) => Delivered(v)'
  BY <1>2, <1>10, OutGrows
<1>12. packet_idx \in Nat
  BY ParamFacts DEF Typed, DecoderTyped, Slots
<1>13. f.idx > packet_idx /\ f.block = last_block
  BY <1>2, <1>8, <1>12 DEF StartsBlock
<1>14. /\ StreamOK(s, q)' /\ DecoderAt(m)' /\ Unseen(q, m)' /\ Settled(s, q, m)'
  <2>1. last_block' = f.block /\ packet_idx' <= f.idx /\ packet_idx' \in Nat
    BY <1>2, <1>8, <1>12, <1>13
  <2>2. DecoderAt(f.nr)' /\ Unseen(q, f.nr)' /\ Settled(s, q, f.nr)' /\ StreamOK(s, q)'
    BY <2>1, <1>2, <1>4, <1>11, TakeCommon
  <2> QED
    BY <2>2, <1>9
<1>15. m \notin touched' => e = << >> /\ m \notin touched
  <2> SUFFICES ASSUME m \notin touched' PROVE e = << >> /\ m \notin touched
    OBVIOUS
  <2>1. m \notin touched /\ f.par = decoder_params
    BY <1>2, <1>9 DEF TakeFrame
  <2>2. q[m] = decoder_params
    BY <2>1, <1>8, <1>9 DEF FrameOK
  <2>3. packet_idx >= q[m].k - 1
    BY <2>1, <1>2, <1>9 DEF StreamInv, ReceivedOK, PutOut
  <2>4. q[m].k \in Nat
    BY <2>2, ParamFacts DEF Typed, DecoderTyped
  <2>5. f.idx >= decoder_params.k
    BY <2>2, <2>3, <2>4, <1>8, <1>12, <1>13
  <2> QED
    BY <2>1, <2>5, <1>10 DEF Passed
<1>16. Emitted(m, e)
  <2>1. CASE e = << >>
    BY <2>1 DEF Emitted
  <2>2. CASE e # << >>
    <3>1. m \in touched'
      BY <2>2, <1>15
    <3>2. CASE \E v : e = <<v>> /\ v > 0 /\ Home(m, v)
      <4>1. PICK v : e = <<v>> /\ v > 0 /\ Home(m, v)
        BY <3>2
      <4>2. v \in 1 .. sent /\ sent \in Nat
        BY <4>1 DEF Home, Typed, EncoderTyped
      <4>3. Len(e) = 1 /\ e[1] = v
        BY <4>1
      <4> QED
        BY <4>1, <4>2, <4>3, <3>1 DEF Emitted
    <3>3. CASE e = <<-m>>
      <4>1. Len(e) = 1 /\ e[1] = -m
        BY <3>3
      <4> QED
        BY <4>1, <3>1, <1>8, <1>9 DEF Emitted
    <3> QED
      BY <2>2, <3>2, <3>3, <1>2, <1>4, <1>8, <1>9, <1>10, PassedFacts
  <2> QED
    BY <2>1, <2>2
<1>17. HarmIsConfined' /\ OnlyTaken(m)'
  <2>1. sent' = sent /\ home' = home /\ \A n : n \in touched => n \in touched'
    BY <1>5, <1>6 DEF encoder, Leaves
  <2>2. OnlyTaken(m) /\ m \in Nat /\ m <= m
    BY <1>8, <1>9 DEF StreamInv, ReceivedOK
  <2>3. out' = out \o e
    BY <1>2, <1>10
  <2> QED
    BY <2>1, <2>2, <2>3, <1>16, HarmStep
<1>18. BufferOK(s, q, m)' /\ Accounted(q, m)'
  BY <1>2 DEF BufferOK, Accounted
<1>19. PutOut(s, q, m)'
  <2> SUFFICES ASSUME m \notin touched'
               PROVE  packet_idx' >= q[m].k - 1 /\ \A i \in DataIdx(q[m]) : Delivered(s[m] + i + 1)'
    BY <1>2 DEF PutOut
  <2>1. packet_idx >= q[m].k - 1 /\ \A i \in DataIdx(q[m]) : Delivered(s[m] + i + 1)
    BY <1>2, <1>9, <1>15 DEF StreamInv, ReceivedOK, PutOut
  <2> QED
    BY <2>1, <1>2, <1>11
<1>20. Streams(s, q)'
  BY <1>7 DEF Streams
<1> QED
  BY <1>14, <1>17, <1>18, <1>19, <1>20 DEF StreamInv, ReceivedOK

(* The buffer with the frame inserted, if no change has touched its block. *)
TakenOK(s, q, N, f, new) ==
    /\ N \notin touched /\ q[N] = decoder_params /\ f.idx < Size(q[N])
    /\ f.content = Expected(s, q, N, f.idx)
    /\ Holds(s, q, N, new, f.idx)
    /\ \A i \in DataIdx(q[N]) : i # f.idx => (new[i] # NoContent <=> Delivered(s[N] + i + 1))
    /\ f.idx \in DataIdx(q[N]) => ~Delivered(s[N] + f.idx + 1)
    /\ lost[N] = Cardinality(Empty(new, 0 .. f.idx - 1))

(* Nothing of a block was put out before a frame of it was taken. *)
LEMMA NothingYet ==
    ASSUME Typed, NEW s, NEW q, NEW m, Streams(s, q), StreamOK(s, q), OnlyTaken(m), m \in Nat,
           NEW n \in 1 .. Current, n \notin touched, n = Current => frame_idx > 0, m < n
    PROVE  \A i \in DataIdx(q[n]) : ~Delivered(s[n] + i + 1)
<1> SUFFICES ASSUME NEW i \in DataIdx(q[n]), NEW j \in 1 .. Len(out), out[j] = s[n] + i + 1
             PROVE  FALSE
  BY DEF Delivered
<1>1. s[n] \in Nat /\ q[n].k \in Nat
  BY HomeRange
<1>2. i \in Nat
  BY <1>1 DEF DataIdx
<1>3. out[j] > 0
  BY <1>1, <1>2
<1>4. out[j] <= sent /\ home[out[j]] <= m
  BY <1>3 DEF OnlyTaken
<1>5. home[out[j]] = n
  BY <1>4, HomeRange
<1>6. Current \in Nat
  BY NextPlace
<1> QED
  BY <1>4, <1>5, <1>6

(* The buffer holds frames of one block. *)
LEMMA TakenBuffer ==
    ASSUME ShortBursts, Typed, NEW s, NEW q, NEW m, StreamInv(s, q, m),
           NEW f, NEW new, TakeFrame(f), Leaves(f), StartsBlock(f) \/ ~forwarded, Inserted(f, new)
    PROVE  /\ \A i \in Slots : new[i] # NoContent => OfBlock(f.nr, new[i])
           /\ f.nr \notin touched' => TakenOK(s, q, f.nr, f, new)
<1>1. StreamOK(s, q) /\ Streams(s, q)
  BY DEF StreamInv
<1>2. FrameOK(s, q, f)
  BY <1>1, LeavesKeeps
<1>3. /\ f.nr \in Nat \ {0} /\ f.nr \in Numbers /\ f.idx \in Nat /\ f.idx \in Slots
      /\ f.nr = NrAt(1) /\ f.idx = IdxAt(1) /\ Place(q, f.nr) = f.idx
  BY <1>1, PlaceMoves
<1>4. OfBlock(f.nr, f.content) /\ new[f.idx] = f.content
  BY <1>2 DEF FrameOK, Inserted
<1>5. m \in Nat /\ m <= f.nr
  BY <1>3 DEF StreamInv, ReceivedOK, DecoderAt
<1>6. \A i \in Slots : new[i] # NoContent => OfBlock(f.nr, new[i])
  <2>1. CASE StartsBlock(f)
    BY <2>1, <1>4 DEF Inserted
  <2>2. CASE ~StartsBlock(f)
    <3>1. m > 0 /\ f.nr = m /\ ~forwarded
      BY <2>2, SameBlock
    <3>2. \A i \in Slots : dec[last_block][i] # NoContent => OfBlock(m, dec[last_block][i])
      BY <3>1 DEF StreamInv, ReceivedOK, BufferOK
    <3> QED
      BY <3>1, <3>2, <2>2, <1>4 DEF Inserted
  <2> QED
    BY <2>1, <2>2
<1>7. ASSUME f.nr \notin touched' PROVE TakenOK(s, q, f.nr, f, new)
  <2>1. f.nr \notin touched /\ f.par = decoder_params
    BY <1>7 DEF TakeFrame
  <2>2. q[f.nr] = decoder_params /\ f.idx < Size(q[f.nr]) /\ f.content = Expected(s, q, f.nr, f.idx)
    BY <2>1, <1>2 DEF FrameOK
  <2>3. f.nr \in 1 .. Current /\ (f.nr = Current => frame_idx > 0)
    BY <1>2 DEF FrameOK
  <2>4. DataIdx(q[f.nr]) \subseteq Slots
    BY <2>2, ParamFacts DEF Typed, DecoderTyped
  <2>5. CASE StartsBlock(f)
    <3>1. m < f.nr
      <4> SUFFICES ASSUME m = f.nr PROVE FALSE
        BY <1>3, <1>5
      <4>1. f.block = last_block
        BY <1>2, <1>3 DEF FrameOK, StreamInv, ReceivedOK, DecoderAt
      <4>2. packet_idx < f.idx
        BY <2>1, <1>3 DEF StreamInv, ReceivedOK, DecoderAt
      <4>3. packet_idx \in Nat
        BY ParamFacts DEF Typed, DecoderTyped, Slots
      <4> QED
        BY <4>1, <4>2, <4>3, <2>5, <1>3 DEF StartsBlock
    <3>2. \A i \in Slots : i # f.idx => new[i] = NoContent
      BY <2>5 DEF Inserted
    <3>3. \A i \in DataIdx(q[f.nr]) : ~Delivered(s[f.nr] + i + 1)
      <4>1. OnlyTaken(m)
        BY DEF StreamInv, ReceivedOK
      <4> QED
        BY <4>1, <3>1, <2>1, <2>3, <1>1, <1>5, NothingYet
    <3>4. Holds(s, q, f.nr, new, f.idx)
      BY <3>2, <2>2, <1>3, <1>4 DEF Holds
    <3>5. lost[f.nr] = f.idx
      BY <3>1, <2>1, <1>3 DEF StreamInv, ReceivedOK, Unseen
    <3>6. Cardinality(Empty(new, 0 .. f.idx - 1)) = f.idx
      <4>1. 0 .. f.idx - 1 \subseteq Slots /\ \A i \in 0 .. f.idx - 1 : i # f.idx
        <5>1. NbSlots \in Nat
          BY ParamFacts DEF Typed, EncoderTyped
        <5> QED
          BY <5>1, <1>3 DEF Slots
      <4>2. Empty(new, 0 .. f.idx - 1) = 0 .. f.idx - 1
        BY <4>1, <3>2 DEF Empty
      <4>3. Cardinality(0 .. f.idx - 1) = f.idx
        BY <1>3, FS_Interval
      <4> QED
        BY <4>2, <4>3
    <3> QED
      BY <3>2, <3>3, <3>4, <3>5, <3>6, <2>1, <2>2, <2>4 DEF TakenOK
  <2>6. CASE ~StartsBlock(f)
    <3>1. m > 0 /\ f.nr = m /\ ~forwarded
      BY <2>6, SameBlock
    <3>2. PICK b : b = dec[last_block]
      OBVIOUS
    <3>3. /\ Holds(s, q, m, b, packet_idx)
          /\ \A i \in DataIdx(q[m]) : b[i] # NoContent <=> Delivered(s[m] + i + 1)
          /\ lost[m] = Cardinality(Empty(b, 0 .. f.idx - 1))
          /\ packet_idx < f.idx
      BY <3>1, <3>2, <2>1, <1>3
         DEF StreamInv, ReceivedOK, BufferOK, PutOut, Accounted, DecoderAt
    <3>4. \A i \in Slots : i # f.idx => new[i] = b[i]
      BY <3>2, <2>6 DEF Inserted
    <3>5. packet_idx \in Nat /\ NbSlots \in Nat
      BY ParamFacts DEF Typed, DecoderTyped, Slots
    <3>6. Holds(s, q, m, new, f.idx)
      <4> SUFFICES ASSUME NEW i \in Slots, new[i] # NoContent
                   PROVE  i <= f.idx /\ new[i] = Expected(s, q, m, i)
        BY DEF Holds
      <4>1. CASE i = f.idx
        <5>1. i <= f.idx
          BY ONLY <4>1, <1>3
        <5>2. new[i] = Expected(s, q, m, i)
          BY ONLY <4>1, <3>1, <2>2, <1>4
        <5> QED
          BY <5>1, <5>2
      <4>2. CASE i # f.idx
        <5>1. b[i] # NoContent /\ new[i] = b[i]
          BY <4>2, <3>4
        <5>2. i <= packet_idx /\ b[i] = Expected(s, q, m, i)
          BY <5>1, <3>3 DEF Holds
        <5>3. i \in Nat
          BY <3>5 DEF Slots
        <5> QED
          BY <5>1, <5>2, <5>3, <3>3, <3>5, <1>3
      <4> QED
        BY <4>1, <4>2
    <3>7. b[f.idx] = NoContent
      BY <3>3, <3>5, <1>3 DEF Holds
    <3>8. Empty(new, 0 .. f.idx - 1) = Empty(b, 0 .. f.idx - 1)
      <4>1. \A i \in 0 .. f.idx - 1 : i \in Slots /\ i # f.idx
        BY <3>5, <1>3 DEF Slots
      <4> QED
        BY <4>1, <3>4 DEF Empty
    <3>9. \A i \in DataIdx(q[m]) : i # f.idx => (new[i] # NoContent <=> Delivered(s[m] + i + 1))
      BY <3>1, <3>3, <3>4, <2>4
    <3>10. f.idx \in DataIdx(q[m]) => ~Delivered(s[m] + f.idx + 1)
      BY <3>3, <3>7
    <3> QED
      BY <3>1, <3>3, <3>6, <3>8, <3>9, <3>10, <2>1, <2>2 DEF TakenOK
  <2> QED
    BY <2>5, <2>6
<1> QED
  BY <1>6, <1>7

(* What is put out for a block that no change has touched: the packet of   *)
(* the frame, and if the block is decoded, the packets that are missing.   *)
EmitOK(s, q, N, f, new, e) ==
    /\ \A j \in 1 .. Len(e) : \E i \in DataIdx(q[N]) :
          e[j] = s[N] + i + 1 /\ (i = f.idx \/ new[i] = NoContent)
    /\ \A j, l \in 1 .. Len(e) : j < l => e[j] # e[l]
    /\ f.idx \in DataIdx(q[N]) => \E j \in 1 .. Len(e) : e[j] = s[N] + f.idx + 1
    /\ can_decode(new) =>
          /\ f.idx >= q[N].k - 1
          /\ \A i \in DataIdx(q[N]) : new[i] = NoContent => \E j \in 1 .. Len(e) : e[j] = s[N] + i + 1
    /\ ~can_decode(new) => \A j \in 1 .. Len(e) : e[j] = s[N] + f.idx + 1

(* A buffer of frames of one block is solved: the words of the parity      *)
(* packets are the block.                                                  *)
LEMMA SolvedRight ==
    ASSUME decoder_params \in Params, NEW s, NEW q, NEW N, NEW new, NEW last,
           s[N] \in Nat, q[N] = decoder_params, Holds(s, q, N, new, last),
           Parities(new) # {}
    PROVE  /\ Solvable(new)
           /\ \A i \in DataIdx(q[N]) : Word(new)[i + 1] = s[N] + i + 1
           /\ \E j \in Slots : j >= q[N].k /\ j <= last
<1>1. PICK k \in Nat \ {0} : k = decoder_params.k
  BY ParamFacts
<1>2. /\ DataIdx(decoder_params) \subseteq Slots /\ ParityIdx(decoder_params) \subseteq Slots
      /\ DataIdx(decoder_params) = 0 .. k - 1 /\ \A j \in ParityIdx(decoder_params) : j \in Int /\ j >= k
  BY <1>1, ParamFacts DEF DataIdx, ParityIdx, Size
<1>3. PICK w : w = [j \in 1 .. k |-> s[N] + j]
  OBVIOUS
<1>4. ASSUME NEW j \in Parities(new) PROVE new[j].word = w /\ j \in Slots /\ j >= k /\ j <= last
  <2>1. j \in ParityIdx(decoder_params) /\ new[j] # NoContent
    BY DEF Parities
  <2>2. new[j] = Expected(s, q, N, j) /\ j \in Slots /\ j <= last
    BY <2>1, <1>2 DEF Holds
  <2>3. ~(j < k) /\ j >= k
    BY <2>1, <1>2
  <2>4. new[j] = [data |-> Absent, word |-> w]
    BY <2>2, <2>3, <1>1, <1>3 DEF Expected
  <2> QED
    BY <2>2, <2>3, <2>4
<1>5. Word(new) = w
  <2>1. (CHOOSE j \in Parities(new) : TRUE) \in Parities(new)
    OBVIOUS
  <2> QED
    BY <2>1, <1>4 DEF Word
<1>6. Len(w) = k /\ \A i \in 0 .. k - 1 : w[i + 1] = s[N] + i + 1
  <2>1. Len(w) = k
    BY <1>3
  <2>2. ASSUME NEW i \in 0 .. k - 1 PROVE w[i + 1] = s[N] + i + 1
    <3>1. i + 1 \in 1 .. k
      OBVIOUS
    <3>2. w[i + 1] = s[N] + (i + 1)
      BY <3>1, <1>3
    <3> QED
      BY <3>2
  <2> QED
    BY <2>1, <2>2
<1>7. ASSUME NEW i \in DataIdx(decoder_params) \ Missing(new) PROVE new[i].data = w[i + 1]
  <2>1. i \in Slots /\ new[i] # NoContent /\ i \in 0 .. k - 1
    BY <1>2 DEF Missing
  <2>2. new[i] = Expected(s, q, N, i) /\ i < k
    BY <2>1 DEF Holds
  <2>3. new[i] = [data |-> s[N] + i + 1, word |-> NoWord]
    BY <2>2, <1>1 DEF Expected
  <2>4. w[i + 1] = s[N] + i + 1
    BY <2>1, <1>6
  <2> QED
    BY <2>3, <2>4
<1>8. Solvable(new)
  BY <1>1, <1>4, <1>5, <1>6, <1>7 DEF Solvable
<1>9. PICK j \in Parities(new) : TRUE
  OBVIOUS
<1> QED
  BY <1>1, <1>2, <1>4, <1>5, <1>6, <1>8, <1>9

(* What is put out is right. *)
LEMMA EmitRight ==
    ASSUME Typed, NEW s, NEW q, NEW N, NEW f, NEW new, TakenOK(s, q, N, f, new),
           new \in [Slots -> Content], new[f.idx] = f.content,
           s[N] \in Nat, N \in Nat, f.idx \in Slots, NEW r \in Seq(Outputs), NEW e \in Seq(Outputs),
           can_decode(new) => Generated(new, N, r), ~can_decode(new) => r = << >>,
           e = Passed(f) \o r
    PROVE  EmitOK(s, q, N, f, new, e)
<1>1. decoder_params \in Params /\ q[N] = decoder_params
  BY DEF Typed, DecoderTyped, TakenOK
<1>2. PICK k \in Nat \ {0} : k = decoder_params.k
  BY <1>1, ParamFacts
<1>3. DataIdx(q[N]) = 0 .. k - 1 /\ DataIdx(q[N]) \subseteq Slots /\ f.idx \in Nat
  BY <1>1, <1>2, ParamFacts DEF DataIdx, Slots
<1>4. f.idx < k => Passed(f) = <<s[N] + f.idx + 1>> /\ f.content # NoContent
  <2> SUFFICES ASSUME f.idx < k PROVE Passed(f) = <<s[N] + f.idx + 1>> /\ f.content # NoContent
    OBVIOUS
  <2>1. f.content = [data |-> s[N] + f.idx + 1, word |-> NoWord]
    BY <1>1, <1>2 DEF TakenOK, Expected
  <2>2. f.content.data = s[N] + f.idx + 1 /\ s[N] + f.idx + 1 # 0
    BY <2>1, <1>3
  <2>3. f.content.data # Absent
    BY <2>2 DEF Absent
  <2>4. f.content # NoContent
    BY <2>3 DEF NoContent
  <2>5. ~(f.idx >= decoder_params.k)
    BY <1>2, <1>3
  <2> QED
    BY <2>2, <2>3, <2>4, <2>5 DEF Passed
<1>5. ~(f.idx < k) => Passed(f) = << >>
  BY <1>2, <1>3 DEF Passed
<1>6. Missing(new) = Empty(new, DataIdx(q[N]))
  BY <1>1 DEF Missing, Empty
<1>7. Holds(s, q, N, new, f.idx)
  BY DEF TakenOK
<1>8. CASE r = << >>
  <2>1. e = Passed(f)
    <3>1. Passed(f) \in Seq(Outputs) \/ Passed(f) = << >> \/ Passed(f) = <<s[N] + f.idx + 1>>
      BY <1>4, <1>5
    <3>2. CASE f.idx < k
      BY <3>2, <1>4, <1>8
    <3>3. CASE ~(f.idx < k)
      BY <3>3, <1>5, <1>8
    <3> QED
      BY <3>2, <3>3
  <2>2. \A j \in 1 .. Len(e) : j = 1 /\ f.idx < k /\ e[j] = s[N] + f.idx + 1
    <3>1. CASE f.idx < k
      <4>1. Len(e) = 1 /\ e[1] = s[N] + f.idx + 1
        BY <3>1, <2>1, <1>4
      <4> QED
        BY ONLY <4>1, <3>1
    <3>2. CASE ~(f.idx < k)
      BY <3>2, <2>1, <1>5
    <3> QED
      BY <3>1, <3>2
  <2>3. f.idx < k => Len(e) = 1 /\ e[1] = s[N] + f.idx + 1
    BY <2>1, <1>4
  <2>4. \A j \in 1 .. Len(e) : \E i \in DataIdx(q[N]) :
            e[j] = s[N] + i + 1 /\ (i = f.idx \/ new[i] = NoContent)
    <3> SUFFICES ASSUME NEW j \in 1 .. Len(e)
                 PROVE  \E i \in DataIdx(q[N]) :
                           e[j] = s[N] + i + 1 /\ (i = f.idx \/ new[i] = NoContent)
      OBVIOUS
    <3>1. f.idx < k /\ e[j] = s[N] + f.idx + 1
      BY <2>2
    <3>2. f.idx \in DataIdx(q[N])
      BY <3>1, <1>3
    <3> QED
      BY <3>1, <3>2
  <2>5. can_decode(new) =>
          /\ f.idx >= k - 1
          /\ \A i \in DataIdx(q[N]) : new[i] = NoContent => \E j \in 1 .. Len(e) : e[j] = s[N] + i + 1
    <3> SUFFICES ASSUME can_decode(new)
                 PROVE  f.idx >= k - 1 /\ \A i \in DataIdx(q[N]) : new[i] # NoContent
      OBVIOUS
    <3>1. Missing(new) = {}
      <4> SUFFICES ASSUME Missing(new) # {} PROVE FALSE
        OBVIOUS
      <4>1. Parities(new) # {}
        <5>1. IsFiniteSet(Missing(new))
          <6>1. IsFiniteSet(0 .. k - 1)
            BY FS_Interval
          <6> QED
            BY <6>1, <1>3, <1>6, FS_Subset DEF Empty
        <5>2. Cardinality(Missing(new)) \in Nat /\ Cardinality(Missing(new)) # 0
          BY <5>1, FS_CardinalityType, FS_EmptySet
        <5> SUFFICES ASSUME Parities(new) = {} PROVE FALSE
          OBVIOUS
        <5>3. Cardinality(Parities(new)) = 0
          BY FS_EmptySet
        <5> QED
          BY <5>2, <5>3 DEF can_decode
      <4>2. Solvable(new)
        BY <4>1, <1>1, <1>7, SolvedRight
      <4>3. \A x \in Missing(new) : \E n \in 1 .. Len(r) : TRUE
        BY <4>2 DEF Generated
      <4>4. Len(r) = 0
        BY <1>8
      <4> QED
        BY <4>3, <4>4
    <3>2. \A i \in DataIdx(q[N]) : new[i] # NoContent
      BY <3>1, <1>6 DEF Empty
    <3>3. k - 1 \in DataIdx(q[N]) /\ k - 1 \in Slots
      BY <1>3
    <3>4. k - 1 <= f.idx
      BY <3>2, <3>3, <1>7 DEF Holds
    <3> QED
      BY <3>2, <3>4, <1>2, <1>3
  <2>6. f.idx \in DataIdx(q[N]) => \E j \in 1 .. Len(e) : e[j] = s[N] + f.idx + 1
    BY <2>3, <1>3
  <2>7. \A j, l \in 1 .. Len(e) : j < l => e[j] # e[l]
    BY <2>2
  <2>8. \A j \in 1 .. Len(e) : e[j] = s[N] + f.idx + 1
    BY <2>2
  <2>9. q[N].k = k
    BY <1>1, <1>2
  <2> QED
    BY <2>4, <2>5, <2>6, <2>7, <2>8, <2>9 DEF EmitOK
<1>9. CASE r # << >>
  <2>1. can_decode(new) /\ Generated(new, N, r) /\ Missing(new) # {}
    BY <1>9 DEF Generated
  <2>2. Parities(new) # {}
    <3>1. IsFiniteSet(Missing(new))
      <4>1. IsFiniteSet(0 .. k - 1)
        BY FS_Interval
      <4> QED
        BY <4>1, <1>3, <1>6, FS_Subset DEF Empty
    <3>2. Cardinality(Missing(new)) \in Nat /\ Cardinality(Missing(new)) # 0
      BY <2>1, <3>1, FS_CardinalityType, FS_EmptySet
    <3> SUFFICES ASSUME Parities(new) = {} PROVE FALSE
      OBVIOUS
    <3>3. Cardinality(Parities(new)) = 0
      BY FS_EmptySet
    <3> QED
      BY <2>1, <3>2, <3>3 DEF can_decode
  <2>3. /\ Solvable(new)
        /\ \A i \in DataIdx(q[N]) : Word(new)[i + 1] = s[N] + i + 1
        /\ \E j \in Slots : j >= k /\ j <= f.idx
    BY <2>2, <1>1, <1>2, <1>7, SolvedRight
  <2>4. f.idx >= k
    <3>1. PICK j \in Slots : j >= k /\ j <= f.idx
      BY <2>3
    <3>2. j \in Nat
      BY <1>1, ParamFacts DEF Slots
    <3> QED
      BY <3>1, <3>2, <1>3
  <2>5. e = r
    BY <2>4, <1>3, <1>5
  <2>6. PICK o : /\ \A n \in 1 .. Len(r) : o[n] \in Missing(new) /\ r[n] = Word(new)[o[n] + 1]
                 /\ \A n, l \in 1 .. Len(r) : n < l => o[n] < o[l]
                 /\ \A x \in Missing(new) : \E n \in 1 .. Len(r) : o[n] = x
    BY <2>1, <2>3 DEF Generated
  <2>7. ASSUME NEW n \in 1 .. Len(r)
        PROVE  o[n] \in DataIdx(q[N]) /\ new[o[n]] = NoContent /\ r[n] = s[N] + o[n] + 1
    <3>1. o[n] \in DataIdx(q[N]) /\ new[o[n]] = NoContent
      BY <2>6, <1>6 DEF Empty
    <3> QED
      BY <3>1, <2>3, <2>6
  <2>8. ASSUME NEW n \in 1 .. Len(r), NEW l \in 1 .. Len(r), n < l PROVE r[n] # r[l]
    <3>0. o[n] \in Nat /\ o[l] \in Nat
      <4>1. o[n] \in DataIdx(q[N]) /\ o[l] \in DataIdx(q[N])
        BY <2>7
      <4> QED
        BY ONLY <4>1, <1>3, k \in Nat \ {0}
    <3>1. PICK a, b \in Nat : a = o[n] /\ b = o[l]
      BY <3>0
    <3>2. a < b /\ r[n] = s[N] + a + 1 /\ r[l] = s[N] + b + 1
      BY <3>1, <2>6, <2>7, <2>8
    <3> QED
      BY ONLY <3>2, a \in Nat, b \in Nat, s[N] \in Nat
  <2>9. ASSUME NEW i \in DataIdx(q[N]), new[i] = NoContent
        PROVE  \E n \in 1 .. Len(r) : r[n] = s[N] + i + 1
    <3>1. i \in Missing(new)
      BY <2>9, <1>6 DEF Empty
    <3>2. PICK n \in 1 .. Len(r) : o[n] = i
      BY <3>1, <2>6
    <3> QED
      BY <3>2, <2>7
  <2>10. f.idx \notin DataIdx(q[N]) /\ f.idx >= q[N].k - 1
    BY <2>4, <1>1, <1>2, <1>3
  <2> QED
    BY <2>1, <2>5, <2>7, <2>8, <2>9, <2>10 DEF EmitOK
<1> QED
  BY <1>8, <1>9

(* What is generated are packets of the block, or garbage. *)
LEMMA GeneratedHome ==
    ASSUME Typed, NEW new, NEW n, NEW r, Generated(new, n, r),
           \A i \in Slots : new[i] # NoContent => OfBlock(n, new[i]),
           NEW j \in 1 .. Len(r)
    PROVE  r[j] = -n \/ Home(n, r[j])
<1>1. CASE Missing(new) = {} /\ r = << >>
  BY <1>1
<1>2. CASE /\ Missing(new) # {} /\ ~Solvable(new)
           /\ \A l \in 1 .. Len(r) : r[l] = -n
  BY <1>2
<1>3. ASSUME Missing(new) # {}, Solvable(new),
             \E l \in Parities(new) : Word(new) = new[l].word,
             \E o : \A l \in 1 .. Len(r) : o[l] \in Missing(new) /\ r[l] = Word(new)[o[l] + 1]
      PROVE  Home(n, r[j])
  <2>1. PICK o : \A l \in 1 .. Len(r) : o[l] \in Missing(new) /\ r[l] = Word(new)[o[l] + 1]
    BY <1>3
  <2>2. PICK i : i = o[j]
    OBVIOUS
  <2>3. i \in Missing(new) /\ r[j] = Word(new)[i + 1]
    BY ONLY <2>1, <2>2, j \in 1 .. Len(r)
  <2>4. PICK k \in Nat \ {0} : k = decoder_params.k
    BY ParamFacts DEF Typed, DecoderTyped
  <2>5. i + 1 \in 1 .. Len(Word(new))
    BY <1>3, <2>3, <2>4 DEF Missing, DataIdx, Solvable
  <2>6. PICK l \in Parities(new) : Word(new) = new[l].word
    BY <1>3
  <2>7. ParityIdx(decoder_params) \subseteq Slots
    BY ParamFacts DEF Typed, DecoderTyped
  <2>8. l \in Slots /\ new[l] # NoContent
    BY <2>6, <2>7 DEF Parities
  <2>9. OfBlock(n, new[l])
    BY <2>8
  <2> QED
    BY <2>3, <2>5, <2>6, <2>9 DEF OfBlock
<1>4. \/ Missing(new) = {} /\ r = << >>
      \/ /\ Missing(new) # {} /\ ~Solvable(new)
         /\ \A l \in 1 .. Len(r) : r[l] = -n
      \/ /\ Missing(new) # {} /\ Solvable(new)
         /\ \E l \in Parities(new) : Word(new) = new[l].word
         /\ \E o : /\ \A l \in 1 .. Len(r) : o[l] \in Missing(new) /\ r[l] = Word(new)[o[l] + 1]
                   /\ \A a, b \in 1 .. Len(r) : a < b => o[a] < o[b]
                   /\ \A x \in Missing(new) : \E a \in 1 .. Len(r) : o[a] = x
  BY Zenon DEF Generated
<1> QED
  <2>1. (\E o : /\ \A l \in 1 .. Len(r) : o[l] \in Missing(new) /\ r[l] = Word(new)[o[l] + 1]
                /\ \A a, b \in 1 .. Len(r) : a < b => o[a] < o[b]
                /\ \A x \in Missing(new) : \E a \in 1 .. Len(r) : o[a] = x)
        => \E o : \A l \in 1 .. Len(r) : o[l] \in Missing(new) /\ r[l] = Word(new)[o[l] + 1]
    BY Zenon
  <2> QED
    BY <2>1, <1>1, <1>2, <1>3, <1>4, Zenon

(* The outputs harm only the blocks touched. *)
LEMMA ReceiveEmits ==
    ASSUME Typed, NEW f \in LinkFrame, TakeFrame(f), NEW s, NEW q, NEW new, NEW r \in Seq(Outputs),
           Streams(s, q), StreamOK(s, q), FrameOK(s, q, f), NEW e \in Seq(Outputs), e = Passed(f) \o r,
           f.nr \in Nat, \A n : n \in touched => n \in touched',
           new \in [Slots -> Content],
           \A i \in Slots : new[i] # NoContent => OfBlock(f.nr, new[i]),
           can_decode(new) => Generated(new, f.nr, r), ~can_decode(new) => r = << >>,
           f.nr \notin touched' => TakenOK(s, q, f.nr, f, new) /\ EmitOK(s, q, f.nr, f, new, e)
    PROVE  Emitted(f.nr, e)
<1>1. PICK p \in Seq(Outputs) : p = Passed(f)
  BY PassedFacts
<1>2. /\ Len(e) = Len(p) + Len(r) /\ Len(p) \in Nat /\ Len(r) \in Nat
      /\ \A j \in 1 .. Len(e) : \/ j \in 1 .. Len(p) /\ e[j] = p[j]
                                \/ j - Len(p) \in 1 .. Len(r) /\ e[j] = r[j - Len(p)]
  <2>1. Len(e) = Len(p) + Len(r) /\ Len(p) \in Nat /\ Len(r) \in Nat /\ e = p \o r
    BY <1>1
  <2> QED
    BY <2>1
<1>3. CASE f.nr \notin touched'
  <2>1. /\ TakenOK(s, q, f.nr, f, new) /\ EmitOK(s, q, f.nr, f, new, e)
        /\ f.nr \notin touched /\ f.nr \in 1 .. Current /\ (f.nr = Current => frame_idx > 0)
    BY <1>3 DEF FrameOK
  <2>2. s[f.nr] \in Nat /\ q[f.nr].k \in Nat
    BY <2>1, HomeRange
  <2>3. ASSUME NEW j \in 1 .. Len(e)
        PROVE  e[j] > 0 /\ ~(e[j] < 0) /\ ~Delivered(e[j])
    <3>1. PICK i \in DataIdx(q[f.nr]) : e[j] = s[f.nr] + i + 1 /\ (i = f.idx \/ new[i] = NoContent)
      BY <2>1 DEF EmitOK
    <3>2. i \in Nat
      BY <2>2 DEF DataIdx
    <3>3. e[j] > 0 /\ ~(e[j] < 0)
      BY ONLY <3>1, <3>2, <2>2
    <3>4. ~Delivered(s[f.nr] + i + 1)
      BY <3>1, <2>1 DEF TakenOK
    <3> QED
      BY <3>1, <3>3, <3>4
  <2>4. ASSUME NEW j \in 1 .. Len(e) PROVE Home(f.nr, e[j])
    <3>1. CASE j \in 1 .. Len(p) /\ e[j] = p[j]
      <4>1. CASE p = << >>
        BY <3>1, <4>1
      <4>2. ASSUME NEW v, p = <<v>>, Home(f.nr, v) PROVE Home(f.nr, e[j])
        BY <3>1, <4>2
      <4> QED
        BY <4>1, <4>2, <1>1, <1>3, PassedFacts
    <3>2. CASE j - Len(p) \in 1 .. Len(r) /\ e[j] = r[j - Len(p)]
      <4>1. PICK n \in 1 .. Len(r) : e[j] = r[n]
        BY <3>2
      <4>2. can_decode(new) /\ Generated(new, f.nr, r)
        BY <4>1
      <4>3. e[j] # -f.nr
        BY <2>3
      <4> QED
        BY <4>1, <4>2, <4>3, GeneratedHome
    <3> QED
      BY <3>1, <3>2, <1>2
  <2> QED
    BY <2>1, <2>3, <2>4, <1>3 DEF Emitted, EmitOK
<1>4. CASE f.nr \in touched'
  <2>1. ASSUME NEW j \in 1 .. Len(e)
        PROVE  (e[j] > 0 => Home(f.nr, e[j])) /\ (e[j] < 0 => e[j] = -f.nr)
    <3>1. CASE j \in 1 .. Len(p) /\ e[j] = p[j]
      <4>1. CASE p = << >>
        BY <3>1, <4>1
      <4>2. ASSUME NEW v, p = <<v>>, v > 0, Home(f.nr, v)
            PROVE  (e[j] > 0 => Home(f.nr, e[j])) /\ (e[j] < 0 => e[j] = -f.nr)
        <5>1. e[j] = v
          BY <3>1, <4>2
        <5>2. v \in Nat
          BY <4>2 DEF Home
        <5> QED
          BY <5>1, <5>2, <4>2
      <4>3. CASE p = <<-f.nr>>
        <5>1. e[j] = -f.nr
          BY <3>1, <4>3
        <5> QED
          BY <5>1
      <4> QED
        BY <4>1, <4>2, <4>3, <1>1, PassedFacts
    <3>2. CASE j - Len(p) \in 1 .. Len(r) /\ e[j] = r[j - Len(p)]
      <4>1. PICK n \in 1 .. Len(r) : e[j] = r[n]
        BY <3>2
      <4>2. can_decode(new) /\ Generated(new, f.nr, r)
        BY <4>1
      <4>3. CASE e[j] = -f.nr
        BY <4>3
      <4>4. CASE Home(f.nr, e[j])
        <5>1. e[j] \in Nat
          BY <4>4 DEF Home
        <5> QED
          BY <5>1, <4>4
      <4>5. e[j] = -f.nr \/ Home(f.nr, e[j])
        BY <4>1, <4>2, GeneratedHome
      <4> QED
        BY <4>3, <4>4, <4>5
    <3> QED
      BY <3>1, <3>2, <1>2
  <2> QED
    BY <2>1, <1>4 DEF Emitted
<1> QED
  BY <1>3, <1>4

(* The places of a block's data frames and of its parities are finitely     *)
(* many.                                                                    *)
LEMMA IdxFinite ==
    ASSUME NEW p \in Params
    PROVE  IsFiniteSet(DataIdx(p)) /\ IsFiniteSet(ParityIdx(p))
<1>1. PICK k, h \in Nat \ {0} : k = p.k /\ h = p.h
  BY ParamFacts
<1>2. DataIdx(p) = 0 .. k - 1 /\ ParityIdx(p) = k .. k + h - 1
  BY <1>1 DEF DataIdx, ParityIdx, Size
<1>3. IsFiniteSet(0 .. k - 1)
  BY FS_Interval
<1>4. IsFiniteSet(k .. k + h - 1)
  BY FS_Interval
<1> QED
  BY <1>2, <1>3, <1>4

(* A block that no change has touched, after the frame. *)
LEMMA ReceiveUntouched ==
    ASSUME Typed, NEW s, NEW q, NEW N, NEW f, NEW new, NEW e \in Seq(Outputs), out' = out \o e,
           TakenOK(s, q, N, f, new), EmitOK(s, q, N, f, new, e), Inserted(f, new),
           new[f.idx] # NoContent, s[N] \in Nat, f.idx \in Nat, lost' = lost,
           Place(q, N)' = f.idx + 1
    PROVE  /\ ~forwarded' => Holds(s, q, N, new, packet_idx') /\ Undecided(q[N], new)
           /\ PutOut(s, q, N)'
           /\ Accounted(q, N)'
<1>1. /\ packet_idx' = f.idx /\ forwarded' = can_decode(new)
      /\ ~forwarded' => dec'[last_block'] = new
  BY DEF Inserted
<1>2. PICK k \in Nat \ {0} : k = q[N].k
  BY ParamFacts DEF TakenOK, Typed, DecoderTyped
<1>3. q[N] \in Params /\ q[N] = decoder_params /\ DataIdx(q[N]) = 0 .. k - 1
  BY <1>2 DEF TakenOK, Typed, DecoderTyped, DataIdx
<1>4. ~forwarded' => Holds(s, q, N, new, packet_idx') /\ Undecided(q[N], new)
  <2> SUFFICES ASSUME ~forwarded' PROVE Undecided(q[N], new)
    BY <1>1 DEF TakenOK
  <2>1. Missing(new) = Empty(new, DataIdx(q[N])) /\ Parities(new) = Filled(new, ParityIdx(q[N]))
    BY <1>3 DEF Missing, Parities, Empty, Filled
  <2>2. Cardinality(Missing(new)) \in Nat /\ Cardinality(Parities(new)) \in Nat
    <3>1. IsFiniteSet(DataIdx(q[N])) /\ IsFiniteSet(ParityIdx(q[N]))
      BY <1>3, IdxFinite
    <3>2. Missing(new) \subseteq DataIdx(q[N]) /\ Parities(new) \subseteq ParityIdx(q[N])
      BY <1>3 DEF Missing, Parities
    <3> QED
      BY <3>1, <3>2, FS_Subset, FS_CardinalityType
  <2>3. ~(Cardinality(Missing(new)) <= Cardinality(Parities(new)))
    BY <1>1 DEF can_decode
  <2> QED
    BY <2>1, <2>2, <2>3 DEF Undecided
<1>5. \A v : Delivered(v)' <=> Delivered(v) \/ \E j \in 1 .. Len(e) : e[j] = v
  BY OutGrows
<1>6. PutOut(s, q, N)'
  <2>1. CASE forwarded'
    <3>1. can_decode(new)
      BY <2>1, <1>1
    <3>2. packet_idx' >= q[N].k - 1
      BY <3>1, <1>1 DEF EmitOK
    <3>3. ASSUME NEW i \in DataIdx(q[N]) PROVE Delivered(s[N] + i + 1)'
      <4>1. CASE i = f.idx
        BY <4>1, <1>5 DEF EmitOK
      <4>2. CASE i # f.idx /\ new[i] # NoContent
        <5>1. Delivered(s[N] + i + 1)
          BY <4>2 DEF TakenOK
        <5> QED
          BY <5>1, <1>5
      <4>3. CASE new[i] = NoContent
        <5>1. \E j \in 1 .. Len(e) : e[j] = s[N] + i + 1
          BY <4>3, <3>1 DEF EmitOK
        <5> QED
          BY <5>1, <1>5
      <4> QED
        BY <4>1, <4>2, <4>3
    <3> QED
      BY <2>1, <3>2, <3>3 DEF PutOut
  <2>2. CASE ~forwarded'
    <3>1. dec'[last_block'] = new /\ ~can_decode(new)
      BY <2>2, <1>1
    <3>2. ASSUME NEW i \in DataIdx(q[N]) PROVE new[i] # NoContent <=> Delivered(s[N] + i + 1)'
      <4>1. CASE i = f.idx
        <5>1. \E j \in 1 .. Len(e) : e[j] = s[N] + i + 1
          BY <4>1 DEF EmitOK
        <5> QED
          BY <5>1, <4>1, <1>5
      <4>2. CASE i # f.idx
        <5>1. new[i] # NoContent <=> Delivered(s[N] + i + 1)
          BY <4>2 DEF TakenOK
        <5>2. ASSUME NEW j \in 1 .. Len(e) PROVE e[j] # s[N] + i + 1
          <6>1. e[j] = s[N] + f.idx + 1
            BY <3>1 DEF EmitOK
          <6>2. i \in Nat
            BY <1>3
          <6> QED
            BY ONLY <6>1, <6>2, <4>2, s[N] \in Nat, f.idx \in Nat
        <5> QED
          BY <5>1, <5>2, <1>5
      <4> QED
        BY <4>1, <4>2
    <3> QED
      BY <2>2, <3>1, <3>2 DEF PutOut
  <2> QED
    BY <2>1, <2>2
<1>7. Accounted(q, N)'
  <2> SUFFICES ASSUME ~forwarded'
               PROVE  lost[N] = Cardinality(Empty(new, 0 .. (f.idx + 1) - 1))
    BY <1>1 DEF Accounted
  <2>1. Empty(new, 0 .. (f.idx + 1) - 1) = Empty(new, 0 .. f.idx - 1)
    BY EmptyGrows
  <2> QED
    BY <2>1 DEF TakenOK
<1> QED
  BY <1>4, <1>6, <1>7

(* A frame is received. *)
LEMMA ReceiveKeeps ==
    ASSUME ShortBursts, Typed, HarmIsConfined, Receive, NEW s, NEW q, NEW m, StreamInv(s, q, m)
    PROVE  HarmIsConfined' /\ \E n : StreamInv(s, q, n)'
<1>1. PICK f \in LinkFrame, new \in [Slots -> Content], r \in Seq(Outputs) :
             /\ TakeFrame(f) /\ f = link[1]
             /\ StartsBlock(f) \/ ~forwarded
             /\ Inserted(f, new)
             /\ out' = out \o Passed(f) \o r
             /\ can_decode(new) => Generated(new, f.nr, r)
             /\ ~can_decode(new) => r = << >>
  BY ReceiveFacts
<1>2. encoder' = encoder /\ encoder_params' = encoder_params /\ lost' = lost
  BY <1>1 DEF TakeFrame
<1>3. Leaves(f)
  BY <1>1, <1>2 DEF TakeFrame, Leaves
<1>4. StreamOK(s, q) /\ Streams(s, q)
  BY DEF StreamInv
<1>5. FrameOK(s, q, f)
  BY <1>3, <1>4, LeavesKeeps
<1>6. /\ f.nr \in Nat \ {0} /\ f.idx \in Nat /\ f.idx \in Slots /\ f.nr = NrAt(1)
      /\ f.nr \notin touched => Place(q, f.nr)' = f.idx + 1
  BY <1>3, <1>4, PlaceMoves
<1>7. PICK p \in Seq(Outputs) : p = Passed(f)
  BY <1>1, <1>5, PassedFacts
<1>8. PICK e \in Seq(Outputs) : e = p \o r
  <2>1. p \o r \in Seq(Outputs)
    OBVIOUS
  <2> QED
    BY <2>1
<1>9. out' = out \o e
  <2>1. out \in Seq(Outputs)
    BY DEF Typed, DecoderTyped
  <2>2. (out \o p) \o r = out \o (p \o r)
    BY <2>1
  <2> QED
    BY <2>2, <1>1, <1>7, <1>8
<1>10. \A v : Delivered(v) => Delivered(v)'
  BY <1>9, OutGrows
<1>11. /\ StreamOK(s, q)' /\ DecoderAt(f.nr)' /\ Unseen(q, f.nr)' /\ Settled(s, q, f.nr)'
  <2>1. last_block' = f.block /\ packet_idx' <= f.idx /\ packet_idx' \in Nat
    BY <1>1, <1>6 DEF Inserted
  <2> QED
    BY <2>1, <1>1, <1>10, TakeCommon
<1>12. /\ \A i \in Slots : new[i] # NoContent => OfBlock(f.nr, new[i])
       /\ f.nr \notin touched' => TakenOK(s, q, f.nr, f, new)
  BY <1>1, <1>3, TakenBuffer
<1>13. s[f.nr] \in Nat
  BY <1>4, <1>6 DEF Streams
<1>14. new[f.idx] = f.content /\ f.content # NoContent
  BY <1>1, <1>5 DEF Inserted, FrameOK, OfBlock
<1>15. f.nr \notin touched' => EmitOK(s, q, f.nr, f, new, e)
  BY <1>1, <1>6, <1>7, <1>8, <1>12, <1>13, <1>14, EmitRight
<1>16. Emitted(f.nr, e)
  <2>1. \A n : n \in touched => n \in touched'
    BY <1>3 DEF Leaves
  <2> QED
    BY <2>1, <1>1, <1>4, <1>5, <1>6, <1>7, <1>8, <1>12, <1>15, ReceiveEmits
<1>17. HarmIsConfined' /\ OnlyTaken(f.nr)'
  <2>1. sent' = sent /\ home' = home /\ \A n : n \in touched => n \in touched'
    BY <1>2, <1>3 DEF encoder, Leaves
  <2>2. OnlyTaken(m) /\ m \in Nat /\ m <= f.nr
    BY <1>6 DEF StreamInv, ReceivedOK, DecoderAt
  <2> QED
    BY <2>1, <2>2, <1>6, <1>9, <1>16, HarmStep
<1>18. f.nr \notin touched' =>
           /\ ~forwarded' => Holds(s, q, f.nr, new, packet_idx') /\ Undecided(q[f.nr], new)
           /\ PutOut(s, q, f.nr)'
           /\ Accounted(q, f.nr)'
  <2> SUFFICES ASSUME f.nr \notin touched'
               PROVE  /\ ~forwarded' => Holds(s, q, f.nr, new, packet_idx') /\ Undecided(q[f.nr], new)
                      /\ PutOut(s, q, f.nr)'
                      /\ Accounted(q, f.nr)'
    OBVIOUS
  <2>1. Place(q, f.nr)' = f.idx + 1
    BY <1>6, <1>12 DEF TakenOK
  <2> QED
    BY <2>1, <1>1, <1>2, <1>6, <1>9, <1>12, <1>13, <1>14, <1>15, ReceiveUntouched
<1>19. PutOut(s, q, f.nr)' /\ Accounted(q, f.nr)'
  <2>1. CASE f.nr \in touched'
    BY <2>1 DEF PutOut, Accounted
  <2> QED
    BY <2>1, <1>18
<1>20. BufferOK(s, q, f.nr)'
  <2> SUFFICES ASSUME ~forwarded'
               PROVE  /\ \A i \in Slots : new[i] # NoContent => OfBlock(f.nr, new[i])'
                      /\ f.nr \notin touched' => /\ Holds(s, q, f.nr, new, packet_idx')
                                                 /\ Undecided(q[f.nr], new)
    <3>1. ~forwarded' => dec'[last_block'] = new
      BY <1>1 DEF Inserted
    <3> QED
      BY <3>1 DEF BufferOK
  <2>1. \A n, c : OfBlock(n, c)' <=> OfBlock(n, c)
    BY <1>3, LeavesPlaces
  <2> QED
    BY <2>1, <1>12, <1>18
<1>21. Streams(s, q)'
  BY <1>4 DEF Streams
<1>22. StreamInv(s, q, f.nr)'
  BY <1>11, <1>17, <1>19, <1>20, <1>21 DEF StreamInv, ReceivedOK
<1> QED
  BY <1>17, <1>22

-----------------------------------------------------------------------------
(* The invariant. *)
SwitchFecInv == Typed /\ HarmIsConfined /\ \E s, q, m : StreamInv(s, q, m)

(* It holds at the start. *)
LEMMA InvInit ==
    ASSUME Init
    PROVE  SwitchFecInv
<1>1. Typed
  BY TypedInit
<1>2. PICK s : s = [n \in Nat |-> 0]
  OBVIOUS
<1>3. PICK q : q = [n \in Nat |-> encoder_params]
  OBVIOUS
<1>4. Streams(s, q)
  BY <1>2, <1>3 DEF Streams, Init
<1>5. /\ link = << >> /\ closed = << >> /\ out = << >> /\ home = << >> /\ sent = 0 /\ frame_idx = 0
      /\ block_id = 0 /\ last_block = -1 /\ burst = 0 /\ lost = [n \in 1 .. MaxData |-> 0]
  BY DEF Init
<1>6. Len(link) = 0 /\ Len(closed) = 0 /\ Len(out) = 0 /\ Current = 1
  BY <1>5 DEF Current
<1>7. NrAt(1) = 1 /\ IdxAt(1) = 0
  BY <1>5, <1>6 DEF NrAt, IdxAt
<1>8. EncoderAt(s, q)
  <2>1. MaxBlock \in Nat \ {0} /\ 0 % MaxBlock = 0
    <3>1. MaxBlock \in Nat \ {0}
      BY FecSwitchAssumption
    <3> QED
      BY <3>1
  <2>2. s[1] = 0
    BY <1>2
  <2> QED
    BY <2>1, <2>2, <1>5, <1>6 DEF EncoderAt
<1>9. BlocksClosed(s, q) /\ FramesOK(s, q)
  BY <1>6 DEF BlocksClosed, FramesOK
<1>10. InSequence(q)
  BY <1>6, <1>7 DEF InSequence
<1>11. DecoderAt(0)
  BY <1>5, <1>6, <1>7 DEF DecoderAt
<1>12. BufferOK(s, q, 0) /\ OnlyTaken(0) /\ PutOut(s, q, 0) /\ Settled(s, q, 0) /\ Accounted(q, 0)
  BY <1>6 DEF BufferOK, OnlyTaken, PutOut, Settled, Accounted
<1>13. Unseen(q, 0)
  BY <1>5, <1>7 DEF Unseen, Place, Numbers
<1>14. HarmIsConfined
  BY <1>6 DEF HarmIsConfined
<1>15. StreamInv(s, q, 0)
  BY <1>4, <1>8, <1>9, <1>10, <1>11, <1>12, <1>13 DEF StreamInv, StreamOK, ReceivedOK
<1> QED
  BY <1>1, <1>14, <1>15 DEF SwitchFecInv

(* Every step keeps it. *)
LEMMA InvStep ==
    ASSUME ShortBursts, SwitchFecInv, [Next]_vars
    PROVE  SwitchFecInv'
<1>1. Typed /\ HarmIsConfined
  BY DEF SwitchFecInv
<1>2. Typed'
  BY <1>1, TypedStep
<1>3. PICK s, q, m : StreamInv(s, q, m)
  BY DEF SwitchFecInv
<1>4. CASE SendData
  <2>1. \E t, p : StreamInv(t, p, m)'
    BY <1>1, <1>3, <1>4, SendKeeps
  <2>2. HarmIsConfined'
    <3>1. out' = out /\ touched' = touched
      BY <1>4 DEF SendData, decoder
    <3>2. \A v \in 1 .. sent : home'[v] = home[v]
      BY <1>1, <1>4, SendHome
    <3>3. \A i \in 1 .. Len(out) : out[i] > 0 => out[i] \in 1 .. sent
      <4> SUFFICES ASSUME NEW i \in 1 .. Len(out), out[i] > 0 PROVE out[i] \in 1 .. sent
        OBVIOUS
      <4>1. out[i] <= sent
        BY <1>3 DEF StreamInv, ReceivedOK, OnlyTaken
      <4>2. out \in Seq(Outputs) /\ sent \in Nat /\ MaxData \in Nat
        BY <1>1, ParamFacts DEF Typed, DecoderTyped, EncoderTyped
      <4>3. out[i] \in Outputs
        BY ONLY <4>2, i \in 1 .. Len(out)
      <4> QED
        BY <4>1, <4>2, <4>3 DEF Outputs
    <3> QED
      BY <3>1, <3>2, <3>3, <1>1 DEF HarmIsConfined
  <2> QED
    BY <2>1, <2>2, <1>2 DEF SwitchFecInv
<1>5. ASSUME NEW p \in Params, ChangeEncoder(p) \/ ChangeDecoder(p) PROVE SwitchFecInv'
  <2>1. StreamInv(s, q, m)'
    BY <1>1, <1>3, <1>5, ChangeKeeps
  <2>2. HarmIsConfined'
    BY <1>1, <1>5 DEF ChangeEncoder, ChangeDecoder, encoder, decoder, HarmIsConfined
  <2> QED
    BY <2>1, <2>2, <1>2 DEF SwitchFecInv
<1>6. CASE Lose
  <2>1. StreamInv(s, q, m)'
    BY <1>1, <1>3, <1>6, LoseKeeps
  <2>2. HarmIsConfined'
    BY <1>1, <1>6 DEF Lose, encoder, decoder, HarmIsConfined
  <2> QED
    BY <2>1, <2>2, <1>2 DEF SwitchFecInv
<1>7. CASE Skip
  <2>1. HarmIsConfined' /\ StreamInv(s, q, m)'
    BY <1>1, <1>3, <1>7, SkipKeeps
  <2> QED
    BY <2>1, <1>2 DEF SwitchFecInv
<1>8. CASE Receive
  <2>1. HarmIsConfined' /\ \E n : StreamInv(s, q, n)'
    BY <1>1, <1>3, <1>8, ReceiveKeeps
  <2> QED
    BY <2>1, <1>2 DEF SwitchFecInv
<1>9. CASE UNCHANGED vars
  <2>1. HarmIsConfined'
    BY <1>1, <1>9 DEF vars, encoder, decoder, HarmIsConfined
  <2>2. StreamInv(s, q, m)'
    <3>1. StreamOK(s, q)' <=> StreamOK(s, q)
      BY <1>9 DEF vars, encoder, decoder, StreamOK, EncoderAt, BlocksClosed, FramesOK, InSequence,
           FrameOK, Follows, NrAt, IdxAt, Current, OfBlock, Home
    <3>2. ReceivedOK(s, q, m)' <=> ReceivedOK(s, q, m)
      BY <1>9 DEF vars, encoder, decoder, ReceivedOK, DecoderAt, BufferOK, OnlyTaken, PutOut, Settled,
           Unseen, Accounted, NrAt, IdxAt, Current, OfBlock, Home, Place, Delivered
    <3> QED
      BY <3>1, <3>2, <1>3 DEF StreamInv, Streams
  <2> QED
    BY <2>1, <2>2, <1>2 DEF SwitchFecInv
<1> QED
  BY <1>4, <1>5, <1>6, <1>7, <1>8, <1>9 DEF Next

(* What it says of a block whose frames have passed the link. *)
LEMMA InvRecovers ==
    ASSUME SwitchFecInv
    PROVE  LossesAreRecovered
<1> SUFFICES ASSUME NEW n \in 1 .. Len(closed), \A i \in 1 .. Len(link) : link[i].nr # n,
                    lost[n] <= closed[n].h, n \notin touched, NEW v \in closed[n].data
             PROVE  \E j \in 1 .. Len(out) : out[j] = v
  BY DEF LossesAreRecovered
<1>1. PICK s, q, m : StreamInv(s, q, m)
  BY DEF SwitchFecInv
<1>2. Typed /\ StreamOK(s, q) /\ Streams(s, q)
  BY <1>1 DEF SwitchFecInv, StreamInv
<1>3. /\ NrAt(1) \in Nat /\ NrAt(1) <= Current /\ Current \in Nat /\ Len(link) \in Nat
      /\ Len(closed) = Current - 1
  BY <1>2, NextPlace
<1>4. n \in Nat /\ q[n] \in Params /\ s[n] \in Nat
  BY <1>2, <1>3 DEF Streams
<1>5. PICK k, h \in Nat \ {0} : k = q[n].k /\ h = q[n].h
  BY <1>4, ParamFacts
<1>6. closed[n].h = h /\ closed[n].data = s[n] + 1 .. s[n] + k
  BY <1>2, <1>5 DEF StreamOK, BlocksClosed
<1>7. PICK i \in DataIdx(q[n]) : v = s[n] + i + 1
  <2>1. PICK b \in Nat : b = s[n]
    BY <1>4
  <2>2. v \in b + 1 .. b + k
    BY <1>6, <2>1
  <2>3. v - b - 1 \in 0 .. k - 1 /\ v = b + (v - b - 1) + 1
    BY <2>2
  <2>4. DataIdx(q[n]) = 0 .. k - 1
    BY <1>5 DEF DataIdx
  <2> QED
    BY <2>1, <2>3, <2>4
<1>8. n < NrAt(1)
  <2> SUFFICES ASSUME n >= NrAt(1) PROVE FALSE
    BY <1>3, <1>4
  <2>1. n \in NrAt(1) .. Len(closed)
    BY <1>3, <1>4
  <2>2. PICK j \in 1 .. Len(link) : NrAt(j) = n
    BY <2>1, <1>2 DEF StreamOK, InSequence
  <2>3. NrAt(j) = link[j].nr
    BY <1>3 DEF NrAt
  <2> QED
    BY <2>2, <2>3
<1>9. Place(q, n) = Size(q[n])
  BY <1>8 DEF Place
<1>10. n \in Numbers
  <2>1. Len(closed) <= sent /\ sent \in 0 .. MaxData /\ MaxData \in Nat
    BY <1>2, ParamFacts DEF Typed, EncoderTyped
  <2> QED
    BY <2>1, <1>3 DEF Numbers
<1>11. lost[n] \in Nat /\ m \in Nat
  BY <1>1, <1>2, <1>10 DEF Typed, LinkTyped, StreamInv, ReceivedOK, DecoderAt
<1>12. CASE n > m
  <2>1. lost[n] = k + h
    BY <1>1, <1>5, <1>9, <1>10, <1>12 DEF StreamInv, ReceivedOK, Unseen, Size
  <2> QED
    BY <2>1, <1>5, <1>6
<1>13. CASE n < m
  <2>1. n \in 1 .. m - 1 /\ lost[n] <= q[n].h
    BY <1>4, <1>5, <1>6, <1>11, <1>13
  <2>2. Delivered(s[n] + i + 1)
    BY <2>1, <1>1 DEF StreamInv, ReceivedOK, Settled
  <2> QED
    BY <2>2, <1>7 DEF Delivered
<1>14. CASE n = m /\ forwarded
  <2>1. Delivered(s[n] + i + 1)
    BY <1>1, <1>14 DEF StreamInv, ReceivedOK, PutOut
  <2> QED
    BY <2>1, <1>7 DEF Delivered
<1>15. CASE n = m /\ ~forwarded
  <2>1. PICK b : b = dec[last_block]
    OBVIOUS
  <2>2. Undecided(q[n], b) /\ lost[n] = Cardinality(Empty(b, 0 .. Size(q[n]) - 1))
    BY <2>1, <1>1, <1>9, <1>15 DEF StreamInv, ReceivedOK, BufferOK, Accounted
  <2>3. lost[n] > h
    BY <2>2, <1>4, <1>5, UndecidedLost
  <2> QED
    BY <2>3, <1>5, <1>6, <1>11
<1> QED
  BY <1>4, <1>11, <1>12, <1>13, <1>14, <1>15

(* The invariant holds, if bursts are short. *)
LEMMA InvAlways ==
    ASSUME ShortBursts
    PROVE  Spec => []SwitchFecInv
<1>1. Init => SwitchFecInv
  BY InvInit
<1>2. SwitchFecInv /\ [Next]_vars => SwitchFecInv'
  BY InvStep
<1> QED
  BY <1>1, <1>2, PTL DEF Spec

(* HarmIsConfined is an invariant of the FEC boosters in the switch, if no *)
(* burst of losses is longer than MaxBlock - 1 blocks of two frames: a     *)
(* change of k or h, at either side and at any time, corrupts or repeats   *)
(* only packets of the blocks that it touches.                             *)
THEOREM ChangesAreConfined ==
    ASSUME ShortBursts
    PROVE  Spec => []HarmIsConfined
<1>1. SwitchFecInv => HarmIsConfined
  BY DEF SwitchFecInv
<1> QED
  BY <1>1, InvAlways, PTL

(* LossesAreRecovered is an invariant of the FEC boosters in the switch,   *)
(* if bursts are short: a block that no change touches is delivered in     *)
(* full when no more of its frames are lost than it has parity packets.    *)
THEOREM SwitchRecoversLosses ==
    ASSUME ShortBursts
    PROVE  Spec => []LossesAreRecovered
<1>1. SwitchFecInv => LossesAreRecovered
  BY InvRecovers
<1> QED
  BY <1>1, InvAlways, PTL
=============================================================================
