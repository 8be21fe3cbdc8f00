---------------------------- MODULE VJCompression ----------------------------
(***************************************************************************)
(* Header compression (vjCompression.cpp): the compressor, a link that     *)
(* keeps the order of frames and may lose them, and the decompressor.      *)
(*                                                                         *)
(* Both sides keep one header per slot of a cache, and flows share slots.  *)
(* The compressor sends the first packet of a flow as it is; of the ones   *)
(* that follow it leaves out the fields it takes for fixed, and the        *)
(* sequence and acknowledgement numbers when they have not changed.        *)
(*                                                                         *)
(* The fields that every compressed header carries, the payload, and the   *)
(* IP checksum, which is computed anew, are left out.                      *)
(***************************************************************************)
EXTENDS Integers, Sequences

CONSTANTS
    Flows,      \* addresses and ports of TCP connections
    NoFlow,     \* the addresses of an empty slot
    Slots,
    SlotOf,     \* the slot of a flow: its source address modulo CACHE_SZ
    FixedOf,    \* the values of version, tos, ttl... that a flow's packets have
    Numbers,    \* sequence and acknowledgement numbers
    InSwitch,   \* whether the booster is an extern of the switch, or uses pcap
    LinkCap,    \* bound: frames on the link
    Lossy       \* whether the link loses frames

Zero == 0       \* the other fields of an empty slot
Omitted == -1   \* a number that a header does not carry

ASSUME VJAssumption ==
    /\ NoFlow \notin Flows /\ SlotOf \in [Flows -> Slots]
    /\ DOMAIN FixedOf = Flows /\ Numbers \subseteq Nat
    /\ InSwitch \in BOOLEAN /\ Lossy \in BOOLEAN /\ LinkCap \in Nat

Fixed == (UNION {FixedOf[f] : f \in Flows}) \cup {Zero}

(* TCP packets of at least 100 bytes. *)
TcpPacket ==
    {p \in [kind : {"tcp"}, flow : Flows, fixed : Fixed, seq : Numbers, ack : Numbers] :
        p.fixed \in FixedOf[p.flow]}

(* "short": shorter than 100 bytes, or not IP; "udp": IP, but not TCP. *)
Packet == TcpPacket \cup {[kind |-> k] : k \in {"short", "udp"}}

Header == [flow : Flows \cup {NoFlow}, fixed : Fixed, seq : Numbers \cup {Zero},
           ack : Numbers \cup {Zero}]

(* orig is the packet that a compressed frame stands for: history. *)
Frame ==
    [form : {"plain"}, orig : Packet]
    \cup [form : {"compressed"}, slot : Slots, seq : Numbers \cup {Omitted},
          ack : Numbers \cup {Omitted}, orig : TcpPacket]

VARIABLES
    compressorCache, decompressorCache, link,
    stale   \* history: for each slot, the fields whose last change was lost

vars == <<compressorCache, decompressorCache, link, stale>>

Fields == {"context", "seq", "ack"}

TypeOK ==
    /\ compressorCache \in [Slots -> Header]
    /\ decompressorCache \in [Slots -> Header]
    /\ link \in Seq(Frame)
    /\ stale \in [Slots -> SUBSET Fields]

EmptyHeader == [flow |-> NoFlow, fixed |-> Zero, seq |-> Zero, ack |-> Zero]

Init ==
    /\ compressorCache = [i \in Slots |-> EmptyHeader]
    /\ decompressorCache = [i \in Slots |-> EmptyHeader]
    /\ link = << >>
    /\ stale = [i \in Slots |-> {}]

HeaderOf(p) == [flow |-> p.flow, fixed |-> p.fixed, seq |-> p.seq, ack |-> p.ack]

-----------------------------------------------------------------------------
(* Compressor. *)

\* mutant: connections of the same slot are not told apart
anyHit(p) == compressorCache[SlotOf[p.flow]].flow # NoFlow
checkCache(p) == compressorCache[SlotOf[p.flow]].flow = p.flow

Change(last, new) == IF last = new THEN Omitted ELSE new

buildCompressedHeader(p) ==
    LET last == compressorCache[SlotOf[p.flow]] IN
    [form |-> "compressed", slot |-> SlotOf[p.flow],
     seq |-> Change(last.seq, p.seq), ack |-> Change(last.ack, p.ack), orig |-> p]

Plain(p) == [form |-> "plain", orig |-> p]

Forward(f) ==
    /\ Len(link) < LinkCap
    /\ link' = Append(link, f)
    /\ UNCHANGED <<decompressorCache, stale>>

(* Packets that are not compressed, and do not touch the cache. *)
CompressOther(p) ==
    /\ p.kind # "tcp"
    /\ Forward(Plain(p))
    /\ UNCHANGED compressorCache

\* mutant: the header of the last packet is kept
CompressNoUpdate(p) ==
    /\ p.kind = "tcp"
    /\ Forward(IF checkCache(p) THEN buildCompressedHeader(p) ELSE Plain(p))
    /\ compressorCache' = IF checkCache(p) THEN compressorCache
                          ELSE [compressorCache EXCEPT ![SlotOf[p.flow]] = HeaderOf(p)]
Compress(p) ==
    /\ p.kind = "tcp"
    /\ Forward(IF checkCache(p) THEN buildCompressedHeader(p) ELSE Plain(p))
    /\ compressorCache' = [compressorCache EXCEPT ![SlotOf[p.flow]] = HeaderOf(p)]

-----------------------------------------------------------------------------
(* The link. *)

Lose ==
    LET f == Head(link) IN
    /\ Lossy /\ link # << >>
    /\ link' = Tail(link)
    /\ stale' =
         CASE f.form = "plain" /\ f.orig.kind # "tcp" -> stale
           [] f.form = "plain" /\ f.orig.kind = "tcp" ->
                [stale EXCEPT ![SlotOf[f.orig.flow]] = Fields]
           [] f.form = "compressed" ->
                [stale EXCEPT ![f.slot] = @ \cup (IF f.seq = Omitted THEN {} ELSE {"seq"})
                                            \cup (IF f.ack = Omitted THEN {} ELSE {"ack"})]
    /\ UNCHANGED <<compressorCache, decompressorCache>>

-----------------------------------------------------------------------------
(* Decompressor. *)

\* mutant: a number that is not carried is not taken from the cache
ValueCarried(carried, last) == carried
Value(carried, last) == IF carried = Omitted THEN last ELSE carried

(* The headers of the packet that a compressed frame is turned into. *)
buildDecompressedHeaders(f) ==
    LET last == decompressorCache[f.slot] IN
    [last EXCEPT !.seq = Value(f.seq, @), !.ack = Value(f.ack, @)]

(* The packets that leave the decompressor for a frame that is not         *)
(* compressed.  decompress() does not forward an IP packet that is not     *)
(* TCP; the extern of the switch then lets the packet itself pass.         *)
Emitted(p) == IF p.kind = "udp" /\ ~InSwitch THEN << >> ELSE <<p>>

DecompressPlain ==
    LET p == Head(link).orig IN
    /\ link # << >> /\ Head(link).form = "plain"
    /\ link' = Tail(link)
    /\ IF p.kind = "tcp"
       THEN /\ decompressorCache' = [decompressorCache EXCEPT ![SlotOf[p.flow]] = HeaderOf(p)]
            /\ stale' = [stale EXCEPT ![SlotOf[p.flow]] = {}]
       ELSE UNCHANGED <<decompressorCache, stale>>
    /\ UNCHANGED compressorCache

Decompress ==
    LET f == Head(link) IN
    /\ link # << >> /\ f.form = "compressed"
    /\ link' = Tail(link)
    /\ decompressorCache' = [decompressorCache EXCEPT ![f.slot] = buildDecompressedHeaders(f)]
    /\ stale' = [stale EXCEPT ![f.slot] = @ \ ((IF f.seq = Omitted THEN {} ELSE {"seq"})
                                          \cup (IF f.ack = Omitted THEN {} ELSE {"ack"}))]
    /\ UNCHANGED compressorCache

-----------------------------------------------------------------------------
Next ==
    \/ \E p \in Packet : CompressOther(p) \/ Compress(p)
    \/ Lose
    \/ DecompressPlain
    \/ Decompress

Spec == Init /\ [][Next]_vars

-----------------------------------------------------------------------------
(* Each header field that the decompressor restores is right, unless the   *)
(* last frame that changed that field in that slot was lost: collisions of *)
(* flows, repeated numbers and losses of other fields do no harm, and a    *)
(* frame that carries a field repairs it.                                  *)
FieldsAreRight ==
    link # << >> /\ Head(link).form = "compressed" =>
        LET f == Head(link)
            h == buildDecompressedHeaders(f)
        IN  /\ "context" \notin stale[f.slot] =>
                 h.flow = f.orig.flow /\ h.fixed = f.orig.fixed
            /\ "seq" \notin stale[f.slot] \/ f.seq # Omitted => h.seq = f.orig.seq
            /\ "ack" \notin stale[f.slot] \/ f.ack # Omitted => h.ack = f.orig.ack

(* When all frames have arrived, the caches of the two sides agree on      *)
(* every slot of which no change was lost.                                 *)
CachesAgree ==
    link = << >> =>
        \A i \in Slots : stale[i] = {} => compressorCache[i] = decompressorCache[i]

(* "Check to ensure output == input" (vjCompressor/README.md): without     *)
(* losses every packet leaves the decompressor as it entered the           *)
(* compressor.  Does not hold when a connection's packets differ in a      *)
(* field taken for fixed (see the run vj_fixed), nor for UDP between pcap  *)
(* interfaces (see Emitted).                                               *)
OutputIsInput ==
    link # << >> =>
        LET f == Head(link) IN
        IF f.form = "plain" THEN Emitted(f.orig) = <<f.orig>>
        ELSE buildDecompressedHeaders(f) = HeaderOf(f.orig)

=============================================================================
