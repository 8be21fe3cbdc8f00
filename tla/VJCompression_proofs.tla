------------------------ MODULE VJCompression_proofs ------------------------
(***************************************************************************)
(* Proofs about header compression, for any flows, slots and hash, any     *)
(* numbers, any losses and any number of frames on the link.               *)
(***************************************************************************)
EXTENDS VJCompression, TLAPS

-----------------------------------------------------------------------------
(* Types. *)

(* A TCP packet has its fields. *)
LEMMA PacketFacts ==
    ASSUME NEW p \in Packet, p.kind = "tcp"
    PROVE  /\ p \in TcpPacket
           /\ p.flow \in Flows /\ SlotOf[p.flow] \in Slots
           /\ p.fixed \in FixedOf[p.flow] /\ p.fixed \in Fixed
           /\ p.seq \in Numbers /\ p.ack \in Numbers
           /\ HeaderOf(p) \in Header
<1>1. p \in TcpPacket
  BY DEF Packet
<1> QED
  BY <1>1, VJAssumption DEF TcpPacket, HeaderOf, Header

(* Frames are of one of two forms. *)
LEMMA FrameFacts ==
    ASSUME NEW f \in Frame
    PROVE  /\ f.form \in {"plain", "compressed"}
           /\ f.form = "plain" => f.orig \in Packet
           /\ f.form = "compressed" =>
                /\ f.slot \in Slots /\ f.orig \in TcpPacket
                /\ f.seq \in Numbers \cup {Omitted} /\ f.ack \in Numbers \cup {Omitted}
BY DEF Frame

(* The first frame of the link, and the others. *)
LEMMA LinkFacts ==
    ASSUME TypeOK, link # << >>
    PROVE  /\ Head(link) = link[1] /\ link[1] \in Frame
           /\ Len(link) \in Nat \ {0} /\ Len(Tail(link)) = Len(link) - 1
           /\ Tail(link) \in Seq(Frame)
           /\ \A n \in 1 .. Len(link) - 1 : Tail(link)[n] = link[n + 1]
BY DEF TypeOK

(* What the compressor sends is a frame. *)
LEMMA SentTyped ==
    ASSUME TypeOK, NEW p \in Packet
    PROVE  /\ Plain(p) \in Frame
           /\ p.kind = "tcp" => buildCompressedHeader(p) \in Frame
<1>1. Plain(p) \in Frame
  BY DEF Plain, Frame
<1>2. ASSUME p.kind = "tcp" PROVE buildCompressedHeader(p) \in Frame
  BY <1>2, PacketFacts DEF buildCompressedHeader, Change, Frame
<1> QED
  BY <1>1, <1>2

(* Every step keeps the types. *)
LEMMA StepTyped == TypeOK /\ [Next]_vars => TypeOK'
<1> SUFFICES ASSUME TypeOK, [Next]_vars PROVE TypeOK'
  OBVIOUS
<1>1. ASSUME NEW p \in Packet, CompressOther(p) PROVE TypeOK'
  BY <1>1, SentTyped DEF CompressOther, Forward, TypeOK
<1>2. ASSUME NEW p \in Packet, Compress(p) PROVE TypeOK'
  <2>1. compressorCache' \in [Slots -> Header]
    BY <1>2, PacketFacts DEF Compress, TypeOK
  <2>2. link' \in Seq(Frame)
    BY <1>2, SentTyped DEF Compress, Forward, TypeOK
  <2> QED
    BY <1>2, <2>1, <2>2 DEF Compress, Forward, TypeOK
<1>3. CASE Lose
  <2>1. link[1] \in Frame /\ link' \in Seq(Frame) /\ Head(link) = link[1]
    BY <1>3, LinkFacts DEF Lose
  <2>2. stale' \in [Slots -> SUBSET Fields]
    <3>1. CASE link[1].form = "plain" /\ link[1].orig.kind # "tcp"
      BY <1>3, <2>1, <3>1 DEF Lose, TypeOK
    <3>2. CASE link[1].form = "plain" /\ link[1].orig.kind = "tcp"
      BY <1>3, <2>1, <3>2, FrameFacts, PacketFacts DEF Lose, TypeOK
    <3>3. CASE link[1].form = "compressed"
      BY <1>3, <2>1, <3>3, FrameFacts DEF Lose, TypeOK, Fields
    <3> QED
      BY <2>1, <3>1, <3>2, <3>3, FrameFacts
  <2> QED
    BY <1>3, <2>1, <2>2 DEF Lose, TypeOK
<1>4. CASE DecompressPlain
  <2> DEFINE p == link[1].orig
  <2>1. link[1] \in Frame /\ link' \in Seq(Frame) /\ Head(link) = link[1]
    BY <1>4, LinkFacts DEF DecompressPlain
  <2>2. p \in Packet
    BY <1>4, <2>1, FrameFacts DEF DecompressPlain
  <2>3. CASE p.kind = "tcp"
    <3>1. HeaderOf(p) \in Header /\ SlotOf[p.flow] \in Slots
      BY <2>2, <2>3, PacketFacts
    <3>2. decompressorCache' \in [Slots -> Header]
      BY <1>4, <2>1, <2>3, <3>1 DEF DecompressPlain, TypeOK
    <3>3. stale' \in [Slots -> SUBSET Fields]
      BY <1>4, <2>1, <2>3, <3>1 DEF DecompressPlain, TypeOK
    <3> QED
      BY <1>4, <2>1, <3>2, <3>3 DEF DecompressPlain, TypeOK
  <2>4. CASE p.kind # "tcp"
    BY <1>4, <2>1, <2>4 DEF DecompressPlain, TypeOK
  <2> QED
    BY <2>3, <2>4
<1>5. CASE Decompress
  <2>1. link[1] \in Frame /\ link' \in Seq(Frame) /\ Head(link) = link[1]
    BY <1>5, LinkFacts DEF Decompress
  <2>2. /\ link[1].form = "compressed" /\ link[1].slot \in Slots
        /\ link[1].seq \in Numbers \cup {Omitted} /\ link[1].ack \in Numbers \cup {Omitted}
    BY <1>5, <2>1, FrameFacts DEF Decompress
  <2>3. buildDecompressedHeaders(link[1]) \in Header
    <3> DEFINE last == decompressorCache[link[1].slot]
    <3>1. last \in Header
      BY <2>2 DEF TypeOK
    <3>2. /\ Value(link[1].seq, last.seq) \in Numbers \cup {Zero}
          /\ Value(link[1].ack, last.ack) \in Numbers \cup {Zero}
      BY <2>2, <3>1 DEF Value, Header
    <3>3. buildDecompressedHeaders(link[1]) =
            [last EXCEPT !.seq = Value(link[1].seq, last.seq),
                         !.ack = Value(link[1].ack, last.ack)]
      BY <3>1 DEF buildDecompressedHeaders, Header
    <3> QED
      BY <3>1, <3>2, <3>3 DEF Header
  <2>4. decompressorCache' \in [Slots -> Header]
    BY <1>5, <2>1, <2>2, <2>3 DEF Decompress, TypeOK
  <2>5. stale' \in [Slots -> SUBSET Fields]
    BY <1>5, <2>1, <2>2 DEF Decompress, TypeOK
  <2> QED
    BY <1>5, <2>1, <2>4, <2>5 DEF Decompress, TypeOK
<1>6. CASE UNCHANGED vars
  BY <1>6 DEF vars, TypeOK
<1> QED
  BY <1>1, <1>2, <1>3, <1>4, <1>5, <1>6 DEF Next

(* The initial state is well typed. *)
LEMMA InitTyped == Init => TypeOK
<1> SUFFICES ASSUME Init PROVE TypeOK
  OBVIOUS
<1>1. EmptyHeader \in Header
  BY DEF EmptyHeader, Header, Fixed
<1>2. compressorCache \in [Slots -> Header] /\ decompressorCache \in [Slots -> Header]
  BY <1>1 DEF Init
<1>3. link \in Seq(Frame)
  BY DEF Init
<1>4. stale \in [Slots -> SUBSET Fields]
  BY DEF Init
<1> QED
  BY <1>2, <1>3, <1>4 DEF TypeOK

(* The caches, the frames on the link and what was lost are well typed.    *)
THEOREM VJTyped == Spec => []TypeOK
BY InitTyped, StepTyped, PTL DEF Spec

-----------------------------------------------------------------------------
(* What the frames on the link do to a field of a slot. *)

(* The frame carries the field of the slot. *)
Carries(f, i, x) ==
    \/ f.form = "plain" /\ f.orig.kind = "tcp" /\ SlotOf[f.orig.flow] = i
    \/ /\ f.form = "compressed" /\ f.slot = i
       /\ (x = "seq" /\ f.seq # Omitted) \/ (x = "ack" /\ f.ack # Omitted)

(* Two headers agree on a field. *)
Agree(g, h, x) ==
    CASE x = "context" -> g.flow = h.flow /\ g.fixed = h.fixed
      [] x = "seq" -> g.seq = h.seq
      [] x = "ack" -> g.ack = h.ack

(* When the decompressor, with cache dec and stale fields old, has taken   *)
(* the first n - 1 frames of lnk, it has field x of header h in slot i,    *)
(* unless x is stale: the last of these frames that carries x has it from  *)
(* h, and if none does, the decompressor has it already.                   *)
Restored(lnk, dec, old, i, x, n, h) ==
    /\ \A m \in 1 .. n - 1 :
         Carries(lnk[m], i, x) /\ (\A l \in m + 1 .. n - 1 : ~Carries(lnk[l], i, x))
            => Agree(lnk[m].orig, h, x)
    /\ (\A m \in 1 .. n - 1 : ~Carries(lnk[m], i, x))
            => x \in old[i] \/ Agree(dec[i], h, x)

(* A compressed frame carries what its packet has. *)
Faithful(f) ==
    f.form = "compressed" =>
        /\ f.slot = SlotOf[f.orig.flow]
        /\ f.seq \in {Omitted, f.orig.seq} /\ f.ack \in {Omitted, f.orig.ack}

(* What a frame leaves out is what the decompressor will have when the     *)
(* frame arrives; what the compressor has is what the decompressor will    *)
(* have when all frames have arrived.                                      *)
InStep ==
    /\ \A n \in 1 .. Len(link) :
        /\ Faithful(link[n])
        /\ link[n].form = "compressed" =>
             \A x \in Fields : ~Carries(link[n], link[n].slot, x) =>
                Restored(link, decompressorCache, stale, link[n].slot, x, n, link[n].orig)
    /\ \A i \in Slots, x \in Fields :
        Restored(link, decompressorCache, stale, i, x, Len(link) + 1, compressorCache[i])

(* The fields taken for fixed are those of the flow. *)
CacheOfFlow ==
    \A i \in Slots : LET h == compressorCache[i] IN
        h.flow # NoFlow => h.flow \in Flows /\ h.fixed \in FixedOf[h.flow]

(* The packets of a flow do not differ in a field taken for fixed: the     *)
(* compressor relies on it without a check.                                *)
FixedFieldsAreFixed == \A f \in Flows : \A a, b \in FixedOf[f] : a = b

(* Agreement is transitive, and total agreement is equality. *)
LEMMA AgreeFacts ==
    ASSUME NEW g, NEW h, NEW j, NEW x \in Fields
    PROVE  /\ Agree(g, h, x) /\ Agree(h, j, x) => Agree(g, j, x)
           /\ Agree(g, h, x) => Agree(h, g, x)
           /\ Agree(g, g, x)
BY DEF Agree, Fields

(* A frame that is sent does not change what those before it do. *)
LEMMA RestoredBefore ==
    ASSUME NEW lnk \in Seq(Frame), NEW f \in Frame, NEW dec, NEW old,
           NEW i, NEW x, NEW h, NEW n \in 1 .. Len(lnk) + 1,
           Restored(lnk, dec, old, i, x, n, h)
    PROVE  Restored(Append(lnk, f), dec, old, i, x, n, h)
<1>1. \A m \in 1 .. n - 1 : Append(lnk, f)[m] = lnk[m]
  OBVIOUS
<1>2. n \in Int /\ Len(lnk) \in Nat
  OBVIOUS
<1> QED
  BY <1>1, <1>2 DEF Restored

(* The frame itself decides the fields that it carries. *)
LEMMA RestoredAfter ==
    ASSUME NEW lnk \in Seq(Frame), NEW f \in Frame, NEW dec, NEW old,
           NEW i, NEW x, NEW h, NEW N, N = Len(lnk) + 1,
           Carries(f, i, x) => Agree(f.orig, h, x),
           ~Carries(f, i, x) => Restored(lnk, dec, old, i, x, N, h)
    PROVE  Restored(Append(lnk, f), dec, old, i, x, N + 1, h)
<1> DEFINE new == Append(lnk, f)
<1>1. /\ N \in Nat /\ new[N] = f /\ (N + 1) - 1 = N
      /\ \A m \in 1 .. N - 1 : new[m] = lnk[m]
      /\ 1 .. N = (1 .. N - 1) \cup {N}
  OBVIOUS
<1> HIDE DEF new
<1>2. CASE Carries(f, i, x)
  <2>1. ASSUME NEW m \in 1 .. N, \A l \in m + 1 .. N : ~Carries(new[l], i, x)
        PROVE  m = N
    BY <1>1, <1>2, <2>1
  <2> QED
    BY <1>1, <1>2, <2>1 DEF Restored, new
<1>3. CASE ~Carries(f, i, x)
  <2>1. Restored(lnk, dec, old, i, x, N, h)
    BY <1>3
  <2>2. ASSUME NEW m \in 1 .. N, Carries(new[m], i, x),
               \A l \in m + 1 .. N : ~Carries(new[l], i, x)
        PROVE  Agree(new[m].orig, h, x)
    <3>1. m \in 1 .. N - 1
      BY <1>1, <1>3, <2>2
    <3>2. \A l \in m + 1 .. N - 1 : ~Carries(lnk[l], i, x)
      BY <1>1, <2>2, <3>1
    <3> QED
      BY <1>1, <2>1, <2>2, <3>1, <3>2 DEF Restored
  <2>3. ASSUME \A m \in 1 .. N : ~Carries(new[m], i, x)
        PROVE  x \in old[i] \/ Agree(dec[i], h, x)
    BY <1>1, <2>1, <2>3 DEF Restored
  <2> QED
    BY <1>1, <2>2, <2>3 DEF Restored, new
<1> QED
  BY <1>2, <1>3

(* The first frame leaves the link: what it carries is then in the         *)
(* decompressor, or stale.                                                 *)
LEMMA RestoredTail ==
    ASSUME NEW lnk \in Seq(Frame), lnk # << >>, NEW dec, NEW old, NEW dec2, NEW old2,
           NEW i, NEW x \in Fields, NEW h,
           Carries(lnk[1], i, x) => x \in old2[i] \/ Agree(dec2[i], lnk[1].orig, x),
           ~Carries(lnk[1], i, x) => /\ x \in old[i] => x \in old2[i]
                                     /\ Agree(dec2[i], dec[i], x),
           NEW n \in 2 .. Len(lnk) + 1,
           Restored(lnk, dec, old, i, x, n, h)
    PROVE  Restored(Tail(lnk), dec2, old2, i, x, n - 1, h)
<1> DEFINE new == Tail(lnk)
<1>1. /\ n \in Int /\ Len(lnk) \in Nat \ {0} /\ (n - 1) - 1 = n - 2
      /\ \A m \in 1 .. n - 2 : new[m] = lnk[m + 1] /\ m + 1 \in 1 .. n - 1
  OBVIOUS
<1> HIDE DEF new
<1>2. ASSUME NEW m \in 1 .. n - 2, Carries(new[m], i, x),
             \A l \in m + 1 .. n - 2 : ~Carries(new[l], i, x)
      PROVE  Agree(new[m].orig, h, x)
  <2>1. ASSUME NEW l \in m + 2 .. n - 1 PROVE ~Carries(lnk[l], i, x)
    <3>1. l - 1 \in m + 1 .. n - 2 /\ l - 1 \in 1 .. n - 2 /\ (l - 1) + 1 = l
      BY <1>1
    <3> QED
      BY <1>1, <1>2, <3>1
  <2>2. (m + 1) + 1 = m + 2
    OBVIOUS
  <2> QED
    BY <1>1, <1>2, <2>1, <2>2 DEF Restored
<1>3. ASSUME \A m \in 1 .. n - 2 : ~Carries(new[m], i, x)
      PROVE  x \in old2[i] \/ Agree(dec2[i], h, x)
  <2>1. ASSUME NEW l \in 2 .. n - 1 PROVE ~Carries(lnk[l], i, x)
    <3>1. l - 1 \in 1 .. n - 2 /\ (l - 1) + 1 = l
      BY <1>1
    <3> QED
      BY <1>1, <1>3, <3>1
  <2>2. CASE Carries(lnk[1], i, x)
    <3>1. 1 \in 1 .. n - 1 /\ 1 + 1 = 2
      BY <1>1
    <3>2. Agree(lnk[1].orig, h, x)
      BY <2>1, <2>2, <3>1 DEF Restored
    <3> QED
      BY <2>2, <3>2, AgreeFacts
  <2>3. CASE ~Carries(lnk[1], i, x)
    <3>1. \A l \in 1 .. n - 1 : ~Carries(lnk[l], i, x)
      BY <1>1, <2>1, <2>3
    <3>2. x \in old[i] \/ Agree(dec[i], h, x)
      BY <3>1 DEF Restored
    <3> QED
      BY <2>3, <3>2, AgreeFacts
  <2> QED
    BY <2>2, <2>3
<1> QED
  BY <1>1, <1>2, <1>3 DEF Restored, new

-----------------------------------------------------------------------------
(* Steps. *)

(* Sending a frame: the frame is in step, and so is the new cache. *)
LEMMA SentInStep ==
    ASSUME TypeOK, InStep, NEW f \in Frame, link' = Append(link, f),
           UNCHANGED <<decompressorCache, stale>>,
           Faithful(f),
           f.form = "compressed" =>
             \A x \in Fields : ~Carries(f, f.slot, x) => Agree(compressorCache[f.slot], f.orig, x),
           \A i \in Slots, x \in Fields :
             /\ Carries(f, i, x) => Agree(f.orig, compressorCache'[i], x)
             /\ ~Carries(f, i, x) => Agree(compressorCache[i], compressorCache'[i], x)
    PROVE  InStep'
<1> DEFINE R(lnk, i, x, n, h) == Restored(lnk, decompressorCache, stale, i, x, n, h)
           C == compressorCache'
<1>1. PICK N : N = Len(link) + 1
  OBVIOUS
<1>2. /\ N \in Nat \ {0} /\ Len(link') = N /\ link'[N] = f /\ link \in Seq(Frame)
      /\ \A m \in 1 .. N - 1 : link'[m] = link[m] /\ m \in 1 .. Len(link) /\ link[m] \in Frame
      /\ 1 .. N - 1 \subseteq 1 .. Len(link) + 1 /\ N \in 1 .. Len(link) + 1
  BY <1>1 DEF TypeOK
<1>3. ASSUME NEW i \in Slots, NEW x \in Fields, NEW h, Agree(compressorCache[i], h, x)
      PROVE  R(link, i, x, N, h)
  <2>1. R(link, i, x, N, compressorCache[i])
    BY <1>1 DEF InStep
  <2>2. \A g : Agree(g, compressorCache[i], x) => Agree(g, h, x)
    BY <1>3, AgreeFacts
  <2> QED
    BY <2>1, <2>2 DEF Restored
<1>4. ASSUME NEW n \in 1 .. N, link'[n].form = "compressed", NEW x \in Fields,
             ~Carries(link'[n], link'[n].slot, x)
      PROVE  R(link', link'[n].slot, x, n, link'[n].orig)
  <2>1. R(link, link'[n].slot, x, n, link'[n].orig)
    <3>1. CASE n = N
      <4>1. f.slot \in Slots
        BY <1>2, <1>4, <3>1, FrameFacts
      <4> QED
        BY <1>2, <1>3, <1>4, <3>1, <4>1
    <3>2. CASE n # N
      <4>1. n \in 1 .. N - 1
        BY <1>2, <3>2
      <4> QED
        BY <1>2, <1>4, <4>1 DEF InStep
    <3> QED
      BY <3>1, <3>2
  <2>2. n \in 1 .. Len(link) + 1
    BY <1>2
  <2> QED
    BY <1>2, <2>1, <2>2, RestoredBefore
<1>5. \A n \in 1 .. N : Faithful(link'[n])
  BY <1>2 DEF InStep
<1>6. ASSUME NEW i \in Slots, NEW x \in Fields PROVE R(link', i, x, N + 1, C[i])
  <2>1. ~Carries(f, i, x) => R(link, i, x, N, C[i])
    BY <1>3
  <2>2. Carries(f, i, x) => Agree(f.orig, C[i], x)
    OBVIOUS
  <2> HIDE DEF C
  <2> QED
    BY <1>1, <1>2, <2>1, <2>2, RestoredAfter
<1> QED
  BY <1>2, <1>4, <1>5, <1>6 DEF InStep

(* Taking the first frame from the link. *)
LEMMA TakenInStep ==
    ASSUME TypeOK, InStep, link # << >>, link' = Tail(link), UNCHANGED compressorCache,
           \A i \in Slots, x \in Fields :
             /\ Carries(link[1], i, x) =>
                  x \in stale'[i] \/ Agree(decompressorCache'[i], link[1].orig, x)
             /\ ~Carries(link[1], i, x) =>
                  /\ x \in stale[i] => x \in stale'[i]
                  /\ Agree(decompressorCache'[i], decompressorCache[i], x)
    PROVE  InStep'
<1> DEFINE Old(i, x, n, h) == Restored(link, decompressorCache, stale, i, x, n, h)
           New(i, x, n, h) == Restored(link', decompressorCache', stale', i, x, n, h)
<1>1. /\ Len(link) \in Nat \ {0} /\ Len(link') = Len(link) - 1 /\ link \in Seq(Frame)
      /\ \A n \in 1 .. Len(link') : /\ link'[n] = link[n + 1] /\ link[n + 1] \in Frame
                                    /\ n + 1 \in 1 .. Len(link) /\ n + 1 \in 2 .. Len(link) + 1
                                    /\ (n + 1) - 1 = n
  BY LinkFacts DEF TypeOK
<1>2. ASSUME NEW i \in Slots, NEW x \in Fields, NEW n \in 2 .. Len(link) + 1, NEW h,
             Old(i, x, n, h)
      PROVE  New(i, x, n - 1, h)
  BY <1>1, <1>2, RestoredTail
<1>3. ASSUME NEW n \in 1 .. Len(link'), link'[n].form = "compressed", NEW x \in Fields,
             ~Carries(link'[n], link'[n].slot, x)
      PROVE  New(link'[n].slot, x, n, link'[n].orig)
  <2>1. link'[n].slot \in Slots
    BY <1>1, <1>3, FrameFacts
  <2>2. Old(link'[n].slot, x, n + 1, link'[n].orig)
    BY <1>1, <1>3 DEF InStep
  <2> HIDE DEF Old, New
  <2> QED
    BY <1>1, <1>2, <2>1, <2>2
<1>4. ASSUME NEW i \in Slots, NEW x \in Fields
      PROVE  New(i, x, Len(link') + 1, compressorCache'[i])
  <2>1. Old(i, x, Len(link) + 1, compressorCache'[i])
    BY DEF InStep
  <2>2. Len(link) + 1 \in 2 .. Len(link) + 1 /\ (Len(link) + 1) - 1 = Len(link') + 1
    BY <1>1
  <2> HIDE DEF Old, New
  <2> QED
    BY <1>2, <2>1, <2>2
<1>5. \A n \in 1 .. Len(link') : Faithful(link'[n])
  BY <1>1 DEF InStep
<1> QED
  BY <1>3, <1>4, <1>5 DEF InStep

(* At the start nothing is on the link and both caches are empty. *)
LEMMA InitInStep == Init => InStep /\ CacheOfFlow
<1> SUFFICES ASSUME Init PROVE InStep /\ CacheOfFlow
  OBVIOUS
<1>1. Len(link) = 0 /\ 1 .. 0 = {} /\ (0 + 1) - 1 = 0
  BY DEF Init
<1>2. \A i \in Slots : compressorCache[i] = EmptyHeader /\ decompressorCache[i] = EmptyHeader
  BY DEF Init
<1>3. ASSUME NEW i \in Slots, NEW x \in Fields
      PROVE  Restored(link, decompressorCache, stale, i, x, Len(link) + 1, compressorCache[i])
  <2>1. Agree(decompressorCache[i], compressorCache[i], x)
    BY <1>2, AgreeFacts
  <2> QED
    BY <1>1, <2>1 DEF Restored
<1>4. InStep
  BY <1>1, <1>3 DEF InStep
<1>5. CacheOfFlow
  BY <1>2 DEF CacheOfFlow, EmptyHeader
<1> QED
  BY <1>4, <1>5

(* The compressor caches headers of packets only. *)
LEMMA CacheOfFlowStep == TypeOK /\ CacheOfFlow /\ [Next]_vars => CacheOfFlow'
<1> SUFFICES ASSUME TypeOK, CacheOfFlow, [Next]_vars PROVE CacheOfFlow'
  OBVIOUS
<1>1. ASSUME NEW p \in Packet, Compress(p) PROVE CacheOfFlow'
  <2>1. p.flow \in Flows /\ p.fixed \in FixedOf[p.flow] /\ SlotOf[p.flow] \in Slots
    BY <1>1, PacketFacts DEF Compress
  <2>2. \A i \in Slots : compressorCache'[i] = IF i = SlotOf[p.flow] THEN HeaderOf(p)
                                               ELSE compressorCache[i]
    BY <1>1 DEF Compress, TypeOK
  <2>3. HeaderOf(p).flow = p.flow /\ HeaderOf(p).fixed = p.fixed
    BY DEF HeaderOf
  <2> QED
    BY <2>1, <2>2, <2>3 DEF CacheOfFlow
<1>2. CASE UNCHANGED compressorCache
  BY <1>2 DEF CacheOfFlow
<1> QED
  BY <1>1, <1>2 DEF Next, CompressOther, Lose, DecompressPlain, Decompress, vars

(* The header of a packet agrees with the packet. *)
LEMMA HeaderAgrees ==
    ASSUME NEW p, NEW x \in Fields
    PROVE  Agree(p, HeaderOf(p), x) /\ Agree(HeaderOf(p), p, x)
BY DEF Agree, HeaderOf, Fields

(* Compressing a packet keeps the sides in step: what is left out of its   *)
(* header is what the cache has.                                           *)
LEMMA CompressInStep ==
    ASSUME TypeOK, InStep, CacheOfFlow, FixedFieldsAreFixed, NEW p \in Packet, Compress(p)
    PROVE  InStep'
<1> DEFINE s == SlotOf[p.flow]
           f == IF checkCache(p) THEN buildCompressedHeader(p) ELSE Plain(p)
           last == compressorCache[s]
<1>1. /\ p.kind = "tcp" /\ s \in Slots /\ p.flow \in Flows /\ p.fixed \in FixedOf[p.flow]
      /\ p.seq \in Numbers /\ p.ack \in Numbers
  BY PacketFacts DEF Compress
<1>2. f \in Frame /\ link' = Append(link, f) /\ UNCHANGED <<decompressorCache, stale>>
  BY <1>1, SentTyped DEF Compress, Forward
<1>3. \A i \in Slots : compressorCache'[i] = IF i = s THEN HeaderOf(p) ELSE compressorCache[i]
  BY <1>1 DEF Compress, TypeOK
<1>4. \A i \in Slots, x \in Fields : Agree(compressorCache[i], compressorCache[i], x)
  BY AgreeFacts
<1>5. CASE ~checkCache(p)
  <2>1. f.form = "plain" /\ f.orig = p
    BY <1>5 DEF Plain
  <2>2. \A i \in Slots, x \in Fields : Carries(f, i, x) <=> i = s
    BY <1>1, <2>1 DEF Carries
  <2>3. Faithful(f)
    BY <2>1 DEF Faithful
  <2> HIDE DEF f, s
  <2> QED
    BY <1>2, <1>3, <1>4, <2>1, <2>2, <2>3, HeaderAgrees, SentInStep
<1>6. CASE checkCache(p)
  <2>1. /\ f.form = "compressed" /\ f.orig = p /\ f.slot = s
        /\ f.seq = Change(last.seq, p.seq) /\ f.ack = Change(last.ack, p.ack)
    BY <1>6 DEF buildCompressedHeader
  <2>2. Faithful(f)
    BY <2>1 DEF Faithful, Change
  <2>3. Agree(last, p, "context")
    <3>1. last.flow = p.flow
      BY <1>6 DEF checkCache
    <3>2. last.fixed = p.fixed
      BY <1>1, <3>1, VJAssumption DEF CacheOfFlow, FixedFieldsAreFixed
    <3> QED
      BY <3>1, <3>2 DEF Agree
  <2>4. ASSUME NEW x \in Fields, ~Carries(f, s, x) PROVE Agree(last, p, x)
    <3>1. CASE x = "seq"
      <4>1. f.seq = Omitted
        BY <2>1, <2>4, <3>1 DEF Carries
      <4>2. p.seq # Omitted
        BY <1>1, VJAssumption DEF Omitted
      <4>3. last.seq = p.seq
        BY <2>1, <4>1, <4>2 DEF Change
      <4> QED
        BY <3>1, <4>3 DEF Agree
    <3>2. CASE x = "ack"
      <4>1. f.ack = Omitted
        BY <2>1, <2>4, <3>2 DEF Carries
      <4>2. p.ack # Omitted
        BY <1>1, VJAssumption DEF Omitted
      <4>3. last.ack = p.ack
        BY <2>1, <4>1, <4>2 DEF Change
      <4> QED
        BY <3>2, <4>3 DEF Agree
    <3> QED
      BY <2>3, <3>1, <3>2 DEF Fields
  <2>5. ASSUME NEW i \in Slots, NEW x \in Fields
        PROVE  /\ Carries(f, i, x) => Agree(f.orig, compressorCache'[i], x)
               /\ ~Carries(f, i, x) => Agree(compressorCache[i], compressorCache'[i], x)
    <3>1. CASE i = s
      <4>1. compressorCache'[i] = HeaderOf(p) /\ f.orig = p /\ compressorCache[i] = last
        BY <1>3, <2>1, <3>1
      <4>2. ~Carries(f, i, x) => Agree(last, p, x)
        BY <2>4, <3>1
      <4> HIDE DEF f, last, s
      <4> QED
        BY <4>1, <4>2, HeaderAgrees, AgreeFacts
    <3>2. CASE i # s
      <4>1. ~Carries(f, i, x)
        BY <2>1, <3>2 DEF Carries
      <4> HIDE DEF f, s
      <4> QED
        BY <1>3, <1>4, <3>2, <4>1
    <3> QED
      BY <3>1, <3>2
  <2>6. f.form = "compressed" =>
          \A x \in Fields : ~Carries(f, f.slot, x) => Agree(compressorCache[f.slot], f.orig, x)
    <3> HIDE DEF f, s
    <3> QED
      BY <2>1, <2>4
  <2> HIDE DEF f
  <2> QED
    BY <1>2, <2>2, <2>5, <2>6, SentInStep
<1> QED
  BY <1>5, <1>6

(* Other packets change no cache. *)
LEMMA CompressOtherInStep ==
    ASSUME TypeOK, InStep, NEW p \in Packet, CompressOther(p)
    PROVE  InStep'
<1> DEFINE f == Plain(p)
<1>1. f \in Frame /\ link' = Append(link, f)
  BY SentTyped DEF CompressOther, Forward
<1>2. UNCHANGED <<compressorCache, decompressorCache, stale>>
  BY DEF CompressOther, Forward
<1>3. f.form = "plain" /\ f.orig = p /\ p.kind # "tcp"
  BY DEF Plain, CompressOther
<1>4. \A i \in Slots, x \in Fields : ~Carries(f, i, x)
  BY <1>3 DEF Carries
<1>5. \A i \in Slots, x \in Fields : Agree(compressorCache[i], compressorCache'[i], x)
  BY <1>2, AgreeFacts
<1>6. Faithful(f)
  BY <1>3 DEF Faithful
<1> HIDE DEF f
<1> QED
  BY <1>1, <1>2, <1>3, <1>4, <1>5, <1>6, SentInStep

(* A frame is lost: what it carries becomes stale. *)
LEMMA LoseInStep ==
    ASSUME TypeOK, InStep, Lose
    PROVE  InStep'
<1> DEFINE f == link[1]
<1>1. link # << >> /\ link' = Tail(link) /\ UNCHANGED <<compressorCache, decompressorCache>>
  BY DEF Lose
<1>2. Head(link) = f /\ f \in Frame
  BY <1>1, LinkFacts
<1>3. ASSUME NEW i \in Slots, NEW x \in Fields
      PROVE  /\ Carries(f, i, x) => x \in stale'[i]
             /\ x \in stale[i] => x \in stale'[i]
  <2>1. CASE f.form = "plain" /\ f.orig.kind # "tcp"
    BY <1>2, <2>1 DEF Lose, Carries
  <2>2. CASE f.form = "plain" /\ f.orig.kind = "tcp"
    <3>1. stale' = [stale EXCEPT ![SlotOf[f.orig.flow]] = Fields]
      BY <1>2, <2>2 DEF Lose
    <3> QED
      BY <2>2, <3>1 DEF Carries, TypeOK
  <2>3. CASE f.form = "compressed"
    <3>1. stale' = [stale EXCEPT ![f.slot] = @ \cup (IF f.seq = Omitted THEN {} ELSE {"seq"})
                                               \cup (IF f.ack = Omitted THEN {} ELSE {"ack"})]
      BY <1>2, <2>3 DEF Lose
    <3> QED
      BY <2>3, <3>1 DEF Carries, TypeOK
  <2> QED
    BY <1>2, <2>1, <2>2, <2>3, FrameFacts
<1>4. \A i \in Slots, x \in Fields : Agree(decompressorCache'[i], decompressorCache[i], x)
  BY <1>1, AgreeFacts
<1> HIDE DEF f
<1>5. f = link[1]
  BY DEF f
<1> QED
  BY <1>1, <1>3, <1>4, <1>5, TakenInStep

(* A frame that is not compressed sets a slot anew. *)
LEMMA DecompressPlainInStep ==
    ASSUME TypeOK, InStep, DecompressPlain
    PROVE  InStep'
<1> DEFINE f == link[1]
           p == link[1].orig
           s == SlotOf[p.flow]
<1>1. /\ link # << >> /\ link' = Tail(link) /\ UNCHANGED compressorCache
      /\ Head(link).form = "plain"
  BY DEF DecompressPlain
<1>2. Head(link) = f /\ f \in Frame /\ f.form = "plain" /\ p \in Packet
  BY <1>1, LinkFacts, FrameFacts
<1>3. \A i \in Slots, x \in Fields : Agree(decompressorCache[i], decompressorCache[i], x)
  BY AgreeFacts
<1>4. CASE p.kind # "tcp"
  <2>1. UNCHANGED <<decompressorCache, stale>>
    BY <1>2, <1>4 DEF DecompressPlain
  <2>2. \A i \in Slots, x \in Fields : ~Carries(f, i, x)
    BY <1>2, <1>4 DEF Carries
  <2> QED
    BY <1>1, <1>3, <2>1, <2>2, TakenInStep
<1>5. CASE p.kind = "tcp"
  <2>1. \A i \in Slots, x \in Fields : Carries(f, i, x) <=> i = s
    BY <1>2, <1>5 DEF Carries
  <2>2. s \in Slots
    BY <1>2, <1>5, PacketFacts
  <2>3. \A i \in Slots : /\ decompressorCache'[i] = IF i = s THEN HeaderOf(p)
                                                    ELSE decompressorCache[i]
                         /\ i # s => stale'[i] = stale[i]
    BY <1>2, <1>5, <2>2 DEF DecompressPlain, TypeOK
  <2>4. \A i \in Slots, x \in Fields :
          /\ Carries(f, i, x) => Agree(decompressorCache'[i], p, x)
          /\ ~Carries(f, i, x) => /\ x \in stale[i] => x \in stale'[i]
                                  /\ Agree(decompressorCache'[i], decompressorCache[i], x)
    <3> HIDE DEF f, p, s
    <3> QED
      BY <1>3, <2>1, <2>3, HeaderAgrees
  <2> QED
    BY <1>1, <2>4, TakenInStep
<1> QED
  BY <1>4, <1>5

(* A compressed frame sets the fields that it carries. *)
LEMMA DecompressInStep ==
    ASSUME TypeOK, InStep, Decompress
    PROVE  InStep'
<1> DEFINE f == link[1]
           s == link[1].slot
           last == decompressorCache[s]
           h == buildDecompressedHeaders(f)
<1>1. /\ link # << >> /\ link' = Tail(link) /\ UNCHANGED compressorCache
      /\ Head(link) = f /\ f \in Frame /\ f.form = "compressed" /\ s \in Slots
  BY LinkFacts, FrameFacts DEF Decompress
<1>2. Faithful(f)
  <2>1. 1 \in 1 .. Len(link)
    BY <1>1, LinkFacts
  <2> QED
    BY <2>1 DEF InStep
<1>3. /\ h.flow = last.flow /\ h.fixed = last.fixed
      /\ h.seq = Value(f.seq, last.seq) /\ h.ack = Value(f.ack, last.ack)
  BY <1>1 DEF buildDecompressedHeaders, TypeOK, Header
<1>4. ASSUME NEW i \in Slots, NEW x \in Fields
      PROVE  /\ Carries(f, i, x) => Agree(decompressorCache'[i], f.orig, x)
             /\ ~Carries(f, i, x) => /\ x \in stale[i] => x \in stale'[i]
                                     /\ Agree(decompressorCache'[i], decompressorCache[i], x)
  <2>1. CASE i = s
    <3>1. decompressorCache'[i] = h /\ decompressorCache[i] = last
      BY <1>1, <2>1 DEF Decompress, TypeOK
    <3>2. stale'[i] = stale[i] \ ((IF f.seq = Omitted THEN {} ELSE {"seq"})
                                   \cup (IF f.ack = Omitted THEN {} ELSE {"ack"}))
      BY <1>1, <2>1 DEF Decompress, TypeOK
    <3>3. ~Carries(f, i, x) /\ x \in stale[i] => x \in stale'[i]
      BY <1>1, <2>1, <3>2 DEF Carries
    <3> HIDE DEF h, last
    <3>4. CASE x = "context"
      <4>1. ~Carries(f, i, x) /\ Agree(h, last, x)
        BY <1>1, <1>3, <3>4 DEF Carries, Agree
      <4> QED
        BY <3>1, <3>3, <4>1
    <3>5. CASE x = "seq"
      <4>1. Carries(f, i, x) <=> f.seq # Omitted
        BY <1>1, <2>1, <3>5 DEF Carries
      <4>2. /\ f.seq # Omitted => Agree(h, f.orig, x)
            /\ f.seq = Omitted => Agree(h, last, x)
        BY <1>1, <1>2, <1>3, <3>5 DEF Value, Agree, Faithful
      <4> QED
        BY <3>1, <3>3, <4>1, <4>2
    <3>6. CASE x = "ack"
      <4>1. Carries(f, i, x) <=> f.ack # Omitted
        BY <1>1, <2>1, <3>6 DEF Carries
      <4>2. /\ f.ack # Omitted => Agree(h, f.orig, x)
            /\ f.ack = Omitted => Agree(h, last, x)
        BY <1>1, <1>2, <1>3, <3>6 DEF Value, Agree, Faithful
      <4> QED
        BY <3>1, <3>3, <4>1, <4>2
    <3> QED
      BY <3>4, <3>5, <3>6 DEF Fields
  <2>2. CASE i # s
    <3>1. decompressorCache'[i] = decompressorCache[i] /\ stale'[i] = stale[i]
      BY <1>1, <2>2 DEF Decompress, TypeOK
    <3>2. ~Carries(f, i, x)
      BY <1>1, <2>2 DEF Carries
    <3> QED
      BY <3>1, <3>2, AgreeFacts
  <2> QED
    BY <2>1, <2>2
<1>5. link # << >> /\ link' = Tail(link) /\ UNCHANGED compressorCache
  BY <1>1
<1> QED
  BY <1>4, <1>5, TakenInStep

(* The sides stay in step. *)
LEMMA StepInStep ==
    ASSUME FixedFieldsAreFixed, TypeOK, InStep, CacheOfFlow, [Next]_vars
    PROVE  InStep'
<1>1. CASE UNCHANGED vars
  BY <1>1 DEF vars, InStep
<1> QED
  BY <1>1, CompressInStep, CompressOtherInStep, LoseInStep, DecompressPlainInStep,
     DecompressInStep DEF Next

-----------------------------------------------------------------------------
(* When the sides are in step, the fields that are restored are right. *)
LEMMA InStepFields == TypeOK /\ InStep => FieldsAreRight
<1> DEFINE f == link[1]
           s == link[1].slot
           last == decompressorCache[s]
           h == buildDecompressedHeaders(f)
<1> SUFFICES ASSUME TypeOK, InStep, link # << >>, Head(link).form = "compressed"
             PROVE  /\ "context" \notin stale[s] => h.flow = f.orig.flow /\ h.fixed = f.orig.fixed
                    /\ "seq" \notin stale[s] \/ f.seq # Omitted => h.seq = f.orig.seq
                    /\ "ack" \notin stale[s] \/ f.ack # Omitted => h.ack = f.orig.ack
  BY LinkFacts DEF FieldsAreRight
<1>1. f \in Frame /\ f.form = "compressed" /\ s \in Slots /\ 1 \in 1 .. Len(link)
  BY LinkFacts, FrameFacts
<1>2. /\ h.flow = last.flow /\ h.fixed = last.fixed
      /\ h.seq = Value(f.seq, last.seq) /\ h.ack = Value(f.ack, last.ack)
  BY <1>1 DEF buildDecompressedHeaders, TypeOK, Header
<1>3. Faithful(f)
  BY <1>1 DEF InStep
<1>4. ASSUME NEW x \in Fields, ~Carries(f, s, x), x \notin stale[s]
      PROVE  Agree(last, f.orig, x)
  <2>1. Restored(link, decompressorCache, stale, s, x, 1, f.orig)
    BY <1>1, <1>4 DEF InStep
  <2>2. 1 .. 1 - 1 = {}
    OBVIOUS
  <2> QED
    BY <1>4, <2>1, <2>2 DEF Restored
<1>5. "context" \notin stale[s] => h.flow = f.orig.flow /\ h.fixed = f.orig.fixed
  BY <1>1, <1>2, <1>4 DEF Carries, Agree, Fields
<1>6. "seq" \notin stale[s] \/ f.seq # Omitted => h.seq = f.orig.seq
  BY <1>1, <1>2, <1>3, <1>4 DEF Carries, Agree, Fields, Value, Faithful
<1>7. "ack" \notin stale[s] \/ f.ack # Omitted => h.ack = f.orig.ack
  BY <1>1, <1>2, <1>3, <1>4 DEF Carries, Agree, Fields, Value, Faithful
<1> QED
  BY <1>5, <1>6, <1>7

(* When nothing is on the link, what the compressor has is what the        *)
(* decompressor has.                                                       *)
LEMMA InStepCaches == TypeOK /\ InStep => CachesAgree
<1> SUFFICES ASSUME TypeOK, InStep, link = << >>, NEW i \in Slots, stale[i] = {}
             PROVE  compressorCache[i] = decompressorCache[i]
  BY DEF CachesAgree
<1>1. Len(link) + 1 = 1 /\ 1 .. 1 - 1 = {}
  OBVIOUS
<1>2. ASSUME NEW x \in Fields PROVE Agree(decompressorCache[i], compressorCache[i], x)
  BY <1>1 DEF InStep, Restored
<1>3. compressorCache[i] \in Header /\ decompressorCache[i] \in Header
  BY DEF TypeOK
<1>4. /\ compressorCache[i].flow = decompressorCache[i].flow
      /\ compressorCache[i].fixed = decompressorCache[i].fixed
      /\ compressorCache[i].seq = decompressorCache[i].seq
      /\ compressorCache[i].ack = decompressorCache[i].ack
  BY <1>2 DEF Agree, Fields
<1> QED
  BY <1>3, <1>4 DEF Header

(* If the packets of a flow do not differ in the fields taken for fixed,   *)
(* every field that the decompressor restores is right, unless the last    *)
(* frame that changed it in its slot was lost.                             *)
THEOREM FieldsRestored ==
    ASSUME FixedFieldsAreFixed
    PROVE  Spec => []FieldsAreRight
<1>1. Init => TypeOK /\ InStep /\ CacheOfFlow
  BY InitTyped, InitInStep
<1>2. TypeOK /\ InStep /\ CacheOfFlow /\ [Next]_vars => (TypeOK /\ InStep /\ CacheOfFlow)'
  BY StepTyped, StepInStep, CacheOfFlowStep
<1>3. TypeOK /\ InStep => FieldsAreRight
  BY InStepFields
<1> QED
  BY <1>1, <1>2, <1>3, PTL DEF Spec

(* Under the same condition, the caches of the two sides agree when all    *)
(* frames have arrived, on every slot of which no change was lost.         *)
THEOREM CachesInStep ==
    ASSUME FixedFieldsAreFixed
    PROVE  Spec => []CachesAgree
<1>1. Init => TypeOK /\ InStep /\ CacheOfFlow
  BY InitTyped, InitInStep
<1>2. TypeOK /\ InStep /\ CacheOfFlow /\ [Next]_vars => (TypeOK /\ InStep /\ CacheOfFlow)'
  BY StepTyped, StepInStep, CacheOfFlowStep
<1>3. TypeOK /\ InStep => CachesAgree
  BY InStepCaches
<1> QED
  BY <1>1, <1>2, <1>3, PTL DEF Spec
=============================================================================
