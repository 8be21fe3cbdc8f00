----------------------- MODULE MemcachedCache_proofs -----------------------
(***************************************************************************)
(* Proofs about the Memcached booster, for any keys, slots and hash, any   *)
(* number of requests and losses.                                          *)
(***************************************************************************)
EXTENDS MemcachedCache, TLAPS

-----------------------------------------------------------------------------
(* The cache. *)

(* What a packet makes of an entry that is well formed is well formed; if  *)
(* the packet leaves the cache, the entry is the old one, or has the key   *)
(* and the value of the packet.                                            *)
LEMMA OutcomeFacts ==
    ASSUME TypeOK,
           NEW cmd \in {"set", "get", "delete", "value"}, NEW k \in Keys, NEW v \in Value,
           NEW o \in Memcore(cmd, k, v)
    PROVE  /\ o.entry \in Entry
           /\ Output_packets(o.pkt) \in {"reply", "forward"} =>
                \/ o.entry = Slot(k)
                \/ o.entry.KEY = k /\ o.entry.DATA = v
<1>1. Slot(k) \in Entry
  BY McdAssumption DEF TypeOK, Slot
<1>2. PICK q \in Process_Key(cmd, k) : o = Parse_Data(q, v)
  BY DEF Memcore
<1>3. CASE cmd \in {"set", "value"}
  <2>1. q = [pkt |-> cmd, entry |-> [Slot(k) EXCEPT !.VALID = TRUE, !.KEY = k]]
    BY <1>2, <1>3 DEF Process_Key, Outcome
  <2>2. o = [pkt |-> cmd, entry |-> [Slot(k) EXCEPT !.VALID = TRUE, !.KEY = k, !.DATA = v]]
    BY <1>1, <1>2, <1>3, <2>1 DEF Parse_Data, Entry
  <2> QED
    BY <1>1, <2>2 DEF Entry
<1>4. CASE cmd = "get"
  <2>1. q.entry = Slot(k) /\ q.pkt \in {"get", "get_miss", "get_collision"}
    BY <1>2, <1>4 DEF Process_Key, Outcome
  <2>2. o = q
    BY <1>2, <2>1 DEF Parse_Data
  <2> QED
    BY <1>1, <2>1, <2>2
<1>5. CASE cmd = "delete"
  <2>1. \/ q.entry = Slot(k) /\ q.pkt \in {"delete", "get_collision"}
        \/ q.entry = [Slot(k) EXCEPT !.KEY = k] /\ q.pkt = "delete"
    BY <1>2, <1>5 DEF Process_Key, Outcome
  <2>2. o = q
    BY <1>2, <2>1 DEF Parse_Data
  <2>3. [Slot(k) EXCEPT !.KEY = k] \in Entry
    BY <1>1 DEF Entry
  <2> QED
    BY <1>1, <2>1, <2>2, <2>3 DEF Output_packets
<1> QED
  BY <1>3, <1>4, <1>5

-----------------------------------------------------------------------------
(* Types. *)

(* The initial state is well typed. *)
LEMMA InitTyped == Init => TypeOK
<1> SUFFICES ASSUME Init PROVE TypeOK
  OBVIOUS
<1>1. 0 \in Version /\ issued \in Version /\ losses \in 0 .. MaxLoss /\ open \subseteq 1 .. issued
  BY McdAssumption DEF Init, Version
<1>2. Memory \in [Slots -> Entry]
  <2>1. [VALID |-> FALSE, KEY |-> NoKey, DATA |-> NoKey] \in Entry
    BY DEF Entry
  <2> QED
    BY <2>1 DEF Init
<1>3. store \in [Keys -> [nr : Version, present : BOOLEAN]] /\ acked \in [Keys -> Version]
  BY <1>1 DEF Init
<1>4. up \in Seq(Request) /\ down \in Seq(Reply)
  BY DEF Init
<1>5. hung \in BOOLEAN /\ raced \in [Keys -> BOOLEAN] /\ lost \in [Keys -> BOOLEAN]
  BY DEF Init
<1> QED
  BY <1>1, <1>2, <1>3, <1>4, <1>5 DEF TypeOK

(* Every step keeps the types: numbers stay below MaxRequests. *)
LEMMA StepTyped == TypeOK /\ [Next]_vars => TypeOK'
<1> SUFFICES ASSUME TypeOK, [Next]_vars PROVE TypeOK'
  OBVIOUS
<1> USE McdAssumption
<1>1. ASSUME NEW k \in Keys, NEW cmd \in {"set", "get", "delete"}, NEW out, Send(cmd, k, out)
      PROVE  /\ Memory' \in [Slots -> Entry]
             /\ issued' = issued + 1 /\ issued' \in Version \ {0}
             /\ down' \in Seq(Reply) /\ store' = store /\ losses' = losses /\ acked' = acked
             /\ open \cup {issued + 1} \subseteq 1 .. issued'
  <2>1. NewValue(k) \in Value
    BY <1>1 DEF TypeOK, Send, NewValue, Value, Version
  <2>2. PICK o \in Memcore(cmd, k, NewValue(k)) : Memory' = [Memory EXCEPT ![SlotOf[k]] = o.entry]
    BY <1>1 DEF Send
  <2>3. o.entry \in Entry
    BY <2>1, OutcomeFacts
  <2> QED
    BY <1>1, <2>2, <2>3 DEF TypeOK, Send, Version
<1>2. ASSUME NEW k \in Keys, SendHit(k) PROVE TypeOK'
  BY <1>1, <1>2 DEF TypeOK, SendHit, Version
<1>3. ASSUME NEW k \in Keys, NEW cmd \in {"set", "get", "delete"}, SendForwarded(cmd, k)
      PROVE TypeOK'
  <2>1. /\ Memory' \in [Slots -> Entry] /\ issued' = issued + 1 /\ issued' \in Version \ {0}
        /\ down' \in Seq(Reply) /\ store' = store /\ losses' = losses /\ acked' = acked
        /\ open' \subseteq 1 .. issued'
    BY <1>1, <1>3 DEF SendForwarded
  <2>2. up' \in Seq(Request)
    BY <1>3, <2>1 DEF TypeOK, SendForwarded, NewRequest, Request
  <2>3. ReadUnderWay(k) \in BOOLEAN
    BY DEF ReadUnderWay
  <2>4. raced' \in [Keys -> BOOLEAN] /\ lost' \in [Keys -> BOOLEAN] /\ hung' \in BOOLEAN
    BY <1>3, <2>3, Zenon DEF TypeOK, SendForwarded
  <2> QED
    BY <2>1, <2>2, <2>4 DEF TypeOK
<1>4. ASSUME NEW k \in Keys, SendStuck("delete", k) PROVE TypeOK'
  BY <1>1, <1>4 DEF TypeOK, SendStuck, Version
<1>5. CASE Serve
  <2> DEFINE r == Head(up)
  <2>1. up # << >> /\ r \in Request /\ Tail(up) \in Seq(Request)
    BY <1>5 DEF Serve, TypeOK
  <2>2. store' \in [Keys -> [nr : Version, present : BOOLEAN]]
    BY <1>5, <2>1 DEF Serve, TypeOK, Request
  <2>3. /\ Answer(r, "STORED", r.nr) \in Reply
        /\ Answer(r, "DELETED", r.nr) \in Reply
        /\ Answer(r, "VALUE", store[r.key].nr) \in Reply
        /\ Answer(r, "END", store[r.key].nr) \in Reply
    BY <2>1 DEF TypeOK, Answer, Reply, Request
  <2>4. down' \in Seq(Reply)
    BY <1>5, <2>1, <2>3 DEF Serve, TypeOK, Request
  <2> QED
    BY <1>5, <2>1, <2>2, <2>4 DEF Serve, TypeOK
<1>6. CASE LoseRequest
  <2>1. up # << >> /\ Head(up) \in Request /\ Tail(up) \in Seq(Request)
    BY <1>6 DEF LoseRequest, TypeOK
  <2> QED
    BY <1>6, <2>1 DEF LoseRequest, TypeOK, Request
<1>7. CASE LoseReply
  BY <1>7 DEF LoseReply, TypeOK
<1>8. ASSUME down # << >>, Deliver(Head(down)), Memory' \in [Slots -> Entry] PROVE TypeOK'
  <2>1. Head(down) \in Reply /\ Tail(down) \in Seq(Reply)
    BY <1>8 DEF TypeOK
  <2> QED
    BY <1>8, <2>1 DEF Deliver, TypeOK, Reply
<1>9. CASE ReceiveValue
  <2> DEFINE r == Head(down)
             v == [key |-> r.key, nr |-> r.version]
  <2>1. r \in Reply
    BY <1>9 DEF ReceiveValue, TypeOK
  <2>2. r.key \in Keys /\ v \in Value
    BY <2>1 DEF Reply, Value
  <2>3. PICK o \in Memcore("value", r.key, v) :
          Memory' = [Memory EXCEPT ![SlotOf[r.key]] = o.entry]
    BY <1>9 DEF ReceiveValue
  <2>4. o.entry \in Entry
    BY <2>2, OutcomeFacts
  <2>5. Memory' \in [Slots -> Entry]
    BY <2>2, <2>3, <2>4 DEF TypeOK
  <2> QED
    BY <1>8, <1>9, <2>5 DEF ReceiveValue
<1>10. CASE ReceiveOther
  BY <1>8, <1>10 DEF ReceiveOther, TypeOK
<1>11. CASE UNCHANGED vars
  BY <1>11 DEF vars, TypeOK
<1> QED
  BY <1>2, <1>3, <1>4, <1>5, <1>6, <1>7, <1>9, <1>10, <1>11 DEF Next

(* Whatever is sent, lost and answered: the cache holds only well formed   *)
(* entries, and all packets, versions and histories keep their types.      *)
THEOREM CacheTyped == Spec => []TypeOK
<1>1. TypeOK /\ [Next]_vars => TypeOK'
  BY StepTyped
<1> QED
  BY <1>1, InitTyped, PTL DEF Spec

-----------------------------------------------------------------------------
(* The values of the cache. *)

(* An entry has a value of its key, as long as the booster is not hung: a  *)
(* DELETE may have changed the key of an entry, but then it has no output. *)
EntriesMatch ==
    ~hung => \A i \in Slots : Memory[i].VALID => Memory[i].DATA.key = Memory[i].KEY

(* A packet that leaves the cache keeps entries matched. *)
LEMMA StepMatches ==
    ASSUME TypeOK, EntriesMatch, ~hung,
           NEW cmd \in {"set", "get", "delete", "value"}, NEW k \in Keys, NEW v \in Value,
           v.key = k,
           NEW o \in Memcore(cmd, k, v), Output_packets(o.pkt) \in {"reply", "forward"},
           Memory' = [Memory EXCEPT ![SlotOf[k]] = o.entry]
    PROVE  EntriesMatch'
<1>1. o.entry = Slot(k) \/ (o.entry.KEY = k /\ o.entry.DATA = v)
  BY OutcomeFacts
<1>2. SlotOf[k] \in Slots
  BY McdAssumption
<1>3. o.entry.VALID => o.entry.DATA.key = o.entry.KEY
  BY <1>1, <1>2 DEF EntriesMatch, Slot
<1> QED
  BY <1>2, <1>3 DEF EntriesMatch, TypeOK

(* Every step keeps entries matched, or hangs the booster. *)
LEMMA NextMatches == TypeOK /\ EntriesMatch /\ [Next]_vars => EntriesMatch'
<1> SUFFICES ASSUME TypeOK, EntriesMatch, [Next]_vars PROVE EntriesMatch'
  OBVIOUS
<1>1. ASSUME NEW k \in Keys, NEW cmd \in {"set", "get", "delete"},
             NEW out \in {"reply", "forward"}, Send(cmd, k, out)
      PROVE  EntriesMatch'
  <2>1. NewValue(k) \in Value /\ NewValue(k).key = k
    BY <1>1, McdAssumption DEF TypeOK, Send, NewValue, Value, Version
  <2>2. PICK o \in Memcore(cmd, k, NewValue(k)) :
          Output_packets(o.pkt) = out /\ Memory' = [Memory EXCEPT ![SlotOf[k]] = o.entry]
    BY <1>1 DEF Send
  <2> QED
    BY <1>1, <2>1, <2>2, StepMatches DEF Send
<1>2. ASSUME NEW k \in Keys, SendHit(k) PROVE EntriesMatch'
  BY <1>1, <1>2 DEF SendHit
<1>3. ASSUME NEW k \in Keys, NEW cmd \in {"set", "get", "delete"}, SendForwarded(cmd, k)
      PROVE  EntriesMatch'
  BY <1>1, <1>3 DEF SendForwarded
<1>4. ASSUME NEW k \in Keys, SendStuck("delete", k) PROVE EntriesMatch'
  BY <1>4 DEF SendStuck, EntriesMatch
<1>5. CASE ReceiveValue
  <2> DEFINE r == Head(down)
             v == [key |-> r.key, nr |-> r.version]
  <2>1. r \in Reply
    BY <1>5 DEF ReceiveValue, TypeOK
  <2>2. r.key \in Keys /\ v \in Value /\ v.key = r.key
    BY <2>1 DEF Reply, Value
  <2>3. PICK o \in Memcore("value", r.key, v) :
          /\ Output_packets(o.pkt) = "forward"
          /\ Memory' = [Memory EXCEPT ![SlotOf[r.key]] = o.entry]
    BY <1>5 DEF ReceiveValue
  <2> QED
    BY <1>5, <2>2, <2>3, StepMatches DEF ReceiveValue, Deliver
<1>6. CASE Serve \/ LoseRequest \/ LoseReply \/ ReceiveOther \/ UNCHANGED vars
  BY <1>6 DEF Serve, LoseRequest, LoseReply, ReceiveOther, Deliver, vars, EntriesMatch
<1> QED
  BY <1>2, <1>3, <1>4, <1>5, <1>6 DEF Next

(* The cache has an entry of the key. *)
Held(k) == ~hung /\ Slot(k).VALID /\ Slot(k).KEY = k

(* What the cache would answer is the data of an entry of the key.         *)
LEMMA CachedFacts ==
    ASSUME NEW k \in Keys, NEW v \in Cached(k)
    PROVE  Held(k) /\ v = Slot(k).DATA
<1>1. ~hung
  BY DEF Cached
<1>2. PICK p \in Memcore("get", k, NoKey) : Output_packets(p.pkt) = "reply" /\ v = p.entry.DATA
  BY <1>1 DEF Cached
<1>3. PICK q \in Process_Key("get", k) : p = Parse_Data(q, NoKey)
  BY <1>2 DEF Memcore
<1>4. q = [pkt |-> IF ~Slot(k).VALID THEN "get_miss"
                   ELSE IF Slot(k).KEY # k THEN "get_collision" ELSE "get",
           entry |-> Slot(k)]
  BY <1>3 DEF Process_Key, Outcome
<1>5. p = q
  BY <1>3, <1>4 DEF Parse_Data
<1>6. Slot(k).VALID /\ Slot(k).KEY = k
  BY <1>2, <1>4, <1>5 DEF Output_packets
<1> QED
  BY <1>1, <1>2, <1>4, <1>5, <1>6 DEF Held

(* Matched entries give answers of the key that was asked for. *)
LEMMA MatchingAnswers == TypeOK /\ EntriesMatch => ValueOfTheKey
<1> SUFFICES ASSUME TypeOK, EntriesMatch, NEW k \in Keys, NEW v \in Cached(k)
             PROVE  v.key = k
  BY DEF ValueOfTheKey
<1>1. Held(k) /\ v = Slot(k).DATA
  BY CachedFacts
<1> QED
  BY <1>1, McdAssumption DEF EntriesMatch, Held, Slot

(* A GET is never answered with a value of another key, however requests   *)
(* and replies of keys that share a slot interleave.                       *)
THEOREM AnswersAreOfTheKey == Spec => []ValueOfTheKey
<1>1. Init => EntriesMatch
  BY DEF Init, EntriesMatch
<1>2. TypeOK /\ EntriesMatch /\ [Next]_vars => EntriesMatch'
  BY NextMatches
<1>3. TypeOK /\ EntriesMatch => ValueOfTheKey
  BY MatchingAnswers
<1> QED
  BY <1>1, <1>2, <1>3, CacheTyped, PTL DEF Spec

-----------------------------------------------------------------------------
(* Packets under way, as sets. *)

Elems(s) == {s[i] : i \in 1 .. Len(s)}

(* A packet that is sent joins those under way. *)
LEMMA ElemsAppend ==
    ASSUME NEW S, NEW s \in Seq(S), NEW e \in S
    PROVE  Elems(Append(s, e)) = Elems(s) \cup {e}
<1>1. Len(Append(s, e)) = Len(s) + 1 /\ Len(s) \in Nat
  OBVIOUS
<1>2. \A i \in 1 .. Len(s) : Append(s, e)[i] = s[i]
  OBVIOUS
<1>3. Append(s, e)[Len(s) + 1] = e
  OBVIOUS
<1>4. ASSUME NEW x \in Elems(Append(s, e)) PROVE x \in Elems(s) \cup {e}
  <2>1. PICK i \in 1 .. Len(s) + 1 : x = Append(s, e)[i]
    BY <1>1 DEF Elems
  <2> QED
    BY <1>1, <1>2, <1>3, <2>1 DEF Elems
<1>5. ASSUME NEW x \in Elems(s) PROVE x \in Elems(Append(s, e))
  BY <1>1, <1>2 DEF Elems
<1>6. e \in Elems(Append(s, e))
  BY <1>1, <1>3 DEF Elems
<1> QED
  BY <1>4, <1>5, <1>6

(* The first packet leaves those under way. *)
LEMMA ElemsTail ==
    ASSUME NEW S, NEW s \in Seq(S), s # << >>
    PROVE  /\ Head(s) \in S /\ Tail(s) \in Seq(S)
           /\ Elems(s) = Elems(Tail(s)) \cup {Head(s)}
<1>1. /\ Len(s) \in Nat \ {0} /\ Len(Tail(s)) = Len(s) - 1
      /\ Head(s) = s[1] /\ Head(s) \in S /\ Tail(s) \in Seq(S)
  OBVIOUS
<1>2. \A i \in 1 .. Len(s) - 1 : Tail(s)[i] = s[i + 1]
  OBVIOUS
<1>3. ASSUME NEW x \in Elems(s) PROVE x \in Elems(Tail(s)) \cup {Head(s)}
  <2>1. PICK i \in 1 .. Len(s) : x = s[i]
    BY DEF Elems
  <2>2. CASE i = 1
    BY <1>1, <2>1, <2>2
  <2>3. CASE i # 1
    <3>1. i - 1 \in 1 .. Len(s) - 1 /\ Tail(s)[i - 1] = x
      BY <1>1, <1>2, <2>1, <2>3
    <3> QED
      BY <1>1, <3>1 DEF Elems
  <2> QED
    BY <2>2, <2>3
<1>4. ASSUME NEW x \in Elems(Tail(s)) PROVE x \in Elems(s)
  <2>1. PICK i \in 1 .. Len(s) - 1 : x = s[i + 1]
    BY <1>1, <1>2 DEF Elems
  <2> QED
    BY <1>1, <2>1 DEF Elems
<1>5. Head(s) \in Elems(s)
  BY <1>1 DEF Elems
<1> QED
  BY <1>1, <1>3, <1>4, <1>5

(* Requests travel in the order of their numbers; the server has at most   *)
(* the writes that have left the queue, and clients know of no later one.  *)
Ordered == \A i, j \in 1 .. Len(up) : i < j => up[i].nr < up[j].nr

Numbered ==
    /\ Ordered
    /\ \A r \in Elems(up) : r.nr <= issued /\ (r.cmd # "get" => r.nr > store[r.key].nr)
    /\ \A k \in Keys : acked[k] <= store[k].nr /\ store[k].nr <= issued
    /\ \A r \in Elems(down) :
        /\ r.version <= store[r.key].nr
        /\ r.cmd \in {"STORED", "DELETED"} => r.nr = r.version

(* A request with the largest number keeps the queue ordered. *)
LEMMA OrderedAppend ==
    ASSUME TypeOK, Ordered, NEW e \in Request, \A r \in Elems(up) : r.nr < e.nr,
           up' = Append(up, e)
    PROVE  Ordered'
<1>1. Len(up') = Len(up) + 1 /\ Len(up) \in Nat /\ up'[Len(up) + 1] = e
  BY DEF TypeOK
<1>2. \A i \in 1 .. Len(up) : up'[i] = up[i] /\ up[i] \in Elems(up)
  BY DEF TypeOK, Elems
<1> QED
  BY <1>1, <1>2 DEF Ordered

(* Removing the first request keeps the queue ordered; it had the least number. *)
LEMMA OrderedTail ==
    ASSUME TypeOK, Ordered, up # << >>, up' = Tail(up)
    PROVE  Ordered' /\ \A r \in Elems(up') : Head(up).nr < r.nr
<1>1. Len(up) \in Nat \ {0} /\ Len(up') = Len(up) - 1 /\ Head(up) = up[1]
  BY DEF TypeOK
<1>2. \A i \in 1 .. Len(up) - 1 : up'[i] = up[i + 1]
  BY DEF TypeOK
<1>3. Ordered'
  BY <1>1, <1>2 DEF Ordered
<1>4. ASSUME NEW r \in Elems(up') PROVE up[1].nr < r.nr
  <2>1. PICK i \in 1 .. Len(up) - 1 : r = up[i + 1]
    BY <1>1, <1>2 DEF Elems
  <2> QED
    BY <1>1, <2>1 DEF Ordered
<1> QED
  BY <1>1, <1>3, <1>4

(* Packets on their way to the server are requests. *)
LEMMA UpTyped == TypeOK => \A r \in Elems(up) : r \in Request
BY DEF TypeOK, Elems

(* Packets on their way back are replies. *)
LEMMA DownTyped == TypeOK => \A r \in Elems(down) : r \in Reply
BY DEF TypeOK, Elems

(* The first request of the queue is served: it has the smallest number.   *)
LEMMA ServeFacts ==
    ASSUME TypeOK, Numbered, Serve
    PROVE  \E r \in Request, a \in Reply :
             /\ r = Head(up) /\ r \in Elems(up)
             /\ Elems(up) = Elems(up') \cup {r}
             /\ \A q \in Elems(up') : r.nr < q.nr
             /\ Elems(down') = Elems(down) \cup {a}
             /\ a.key = r.key /\ a.nr = r.nr
             /\ r.cmd = "get" => /\ store' = store /\ a.version = store[r.key].nr
                                 /\ a.cmd \in {"VALUE", "END"}
                                 /\ a.cmd = "VALUE" => store[r.key].present
             /\ r.cmd # "get" => /\ store' = [store EXCEPT ![r.key] =
                                      [nr |-> r.nr, present |-> r.cmd = "set"]]
                                 /\ a.version = r.nr /\ a.cmd \in {"STORED", "DELETED"}
             /\ UNCHANGED <<Memory, hung, issued, acked, raced, lost>>
<1> DEFINE r == Head(up)
           IsAnswer(a) ==
             /\ a.key = r.key /\ a.nr = r.nr
             /\ r.cmd = "get" => /\ a.version = store[r.key].nr /\ a.cmd \in {"VALUE", "END"}
                                 /\ a.cmd = "VALUE" => store[r.key].present
             /\ r.cmd # "get" => a.version = r.nr /\ a.cmd \in {"STORED", "DELETED"}
<1>1. up # << >> /\ up' = Tail(up)
  BY DEF Serve
<1>2. r \in Request /\ Elems(up) = Elems(up') \cup {r}
  BY <1>1, ElemsTail DEF TypeOK
<1>3. r.cmd \in {"set", "get", "delete"} /\ r.key \in Keys /\ r.nr \in Version \ {0}
  BY <1>2 DEF Request
<1>4. \E a \in Reply : down' = Append(down, a) /\ IsAnswer(a)
  <2>1. CASE r.cmd = "set"
    <3>1. down' = Append(down, Answer(r, "STORED", r.nr))
      BY <2>1 DEF Serve
    <3>2. Answer(r, "STORED", r.nr) \in Reply /\ IsAnswer(Answer(r, "STORED", r.nr))
      BY <1>3, <2>1 DEF Answer, Reply
    <3> QED
      BY <3>1, <3>2
  <2>2. CASE r.cmd = "delete"
    <3>1. down' = Append(down, Answer(r, "DELETED", r.nr))
      BY <2>2 DEF Serve
    <3>2. Answer(r, "DELETED", r.nr) \in Reply /\ IsAnswer(Answer(r, "DELETED", r.nr))
      BY <1>3, <2>2 DEF Answer, Reply
    <3> QED
      BY <3>1, <3>2
  <2>3. CASE r.cmd = "get" /\ store[r.key].present
    <3>1. down' = Append(down, Answer(r, "VALUE", store[r.key].nr))
      BY <2>3 DEF Serve
    <3>2. Answer(r, "VALUE", store[r.key].nr) \in Reply
      BY <1>3 DEF Answer, Reply, TypeOK
    <3>3. IsAnswer(Answer(r, "VALUE", store[r.key].nr))
      BY <2>3 DEF Answer
    <3> QED
      BY <3>1, <3>2, <3>3
  <2>4. CASE r.cmd = "get" /\ ~store[r.key].present
    <3>1. down' = Append(down, Answer(r, "END", store[r.key].nr))
      BY <2>4 DEF Serve
    <3>2. Answer(r, "END", store[r.key].nr) \in Reply
      BY <1>3 DEF Answer, Reply, TypeOK
    <3>3. IsAnswer(Answer(r, "END", store[r.key].nr))
      BY <2>4 DEF Answer
    <3> QED
      BY <3>1, <3>2, <3>3
  <2> QED
    BY <1>3, <2>1, <2>2, <2>3, <2>4
<1>5. PICK a \in Reply : down' = Append(down, a) /\ IsAnswer(a)
  BY <1>4
<1>6. Elems(down') = Elems(down) \cup {a}
  BY <1>5, ElemsAppend DEF TypeOK
<1>7. \A q \in Elems(up') : r.nr < q.nr
  BY <1>1, OrderedTail DEF Numbered
<1>8. /\ r.cmd = "get" => store' = store
      /\ r.cmd # "get" => store' = [store EXCEPT ![r.key] =
                                     [nr |-> r.nr, present |-> r.cmd = "set"]]
      /\ UNCHANGED <<Memory, hung, issued, acked, raced, lost>>
  BY DEF Serve
<1>9. r = Head(up) /\ r \in Elems(up)
  BY <1>2
<1> HIDE DEF r
<1> QED
  BY <1>2, <1>5, <1>6, <1>7, <1>8, <1>9

(* A forwarded request has the largest number. *)
LEMMA SendFacts ==
    ASSUME TypeOK, Numbered, NEW k \in Keys, NEW cmd \in {"set", "get", "delete"},
           SendForwarded(cmd, k)
    PROVE  \E r \in Request :
             /\ r.key = k /\ r.cmd = cmd /\ r.nr = issued + 1
             /\ Elems(up') = Elems(up) \cup {r}
             /\ Ordered' /\ issued' = issued + 1
             /\ UNCHANGED <<hung, down, store, acked>>
<1> DEFINE r == NewRequest(cmd, k)
<1>1. r \in Request /\ r.key = k /\ r.cmd = cmd /\ r.nr = issued + 1
  BY McdAssumption DEF SendForwarded, Send, NewRequest, Request, Version, TypeOK
<1>2. up' = Append(up, r) /\ issued' = issued + 1 /\ UNCHANGED <<hung, down, store, acked>>
  BY DEF SendForwarded, Send
<1>3. Elems(up') = Elems(up) \cup {r}
  BY <1>1, <1>2, ElemsAppend DEF TypeOK
<1>4. \A q \in Elems(up) : q.nr < r.nr
  BY <1>1, UpTyped DEF Numbered, Request, Version, TypeOK
<1>5. Ordered'
  BY <1>1, <1>2, <1>4, OrderedAppend DEF Numbered
<1> HIDE DEF r
<1> QED
  BY <1>1, <1>2, <1>3, <1>5

(* A lost request was the first of the queue. *)
LEMMA LoseRequestFacts ==
    ASSUME TypeOK, Numbered, LoseRequest
    PROVE  \E r \in Request :
             /\ Elems(up) = Elems(up') \cup {r}
             /\ Ordered'
             /\ lost' = IF r.cmd = "get" THEN lost ELSE [lost EXCEPT ![r.key] = TRUE]
             /\ UNCHANGED <<Memory, hung, issued, down, store, acked, raced>>
<1>1. up # << >> /\ up' = Tail(up)
  BY DEF LoseRequest
<1>2. Head(up) \in Request /\ Elems(up) = Elems(up') \cup {Head(up)}
  BY <1>1, ElemsTail DEF TypeOK
<1>3. Ordered'
  BY <1>1, OrderedTail DEF Numbered
<1> QED
  BY <1>2, <1>3 DEF LoseRequest

(* A reply that is delivered was the first of its queue. *)
LEMMA DeliverFacts ==
    ASSUME TypeOK, down # << >>, Deliver(Head(down))
    PROVE  \E r \in Reply :
             /\ r = Head(down)
             /\ Elems(down) = Elems(down') \cup {r}
             /\ acked' = IF r.cmd \in {"STORED", "DELETED"}
                         THEN [acked EXCEPT ![r.key] = r.nr] ELSE acked
             /\ ~hung /\ UNCHANGED <<hung, issued, up, store, raced, lost>>
<1>1. Head(down) \in Reply /\ Elems(down) = Elems(Tail(down)) \cup {Head(down)}
  BY ElemsTail DEF TypeOK
<1> QED
  BY <1>1 DEF Deliver

(* A lost reply changes only the replies under way. *)
LEMMA LoseReplyFacts ==
    ASSUME TypeOK, LoseReply
    PROVE  /\ Elems(down') \subseteq Elems(down)
           /\ UNCHANGED <<Memory, hung, issued, up, store, acked, raced, lost>>
BY ElemsTail DEF LoseReply, TypeOK

(* Every step keeps the numbering. *)
LEMMA NumberedStep == TypeOK /\ Numbered /\ [Next]_vars => Numbered'
<1> SUFFICES ASSUME TypeOK, Numbered, [Next]_vars PROVE Numbered'
  OBVIOUS
<1> DEFINE UpNumbered ==
             \A r \in Elems(up) : r.nr <= issued /\ (r.cmd # "get" => r.nr > store[r.key].nr)
           StoreNumbered ==
             \A k \in Keys : acked[k] <= store[k].nr /\ store[k].nr <= issued
           DownNumbered ==
             \A r \in Elems(down) :
               /\ r.version <= store[r.key].nr
               /\ r.cmd \in {"STORED", "DELETED"} => r.nr = r.version
<1>1. Ordered /\ UpNumbered /\ StoreNumbered /\ DownNumbered
  BY DEF Numbered
<1>2. \A r \in Elems(up) : r.nr \in Int /\ r.key \in Keys
  BY UpTyped DEF Request, Version
<1>3. \A r \in Elems(down) : r.nr \in Int /\ r.version \in Int /\ r.key \in Keys
  BY DownTyped DEF Reply, Version
<1>4. /\ issued \in Int
      /\ \A k \in Keys : store[k].nr \in Int /\ acked[k] \in Int
  BY DEF TypeOK, Version
<1>5. ASSUME issued' = issued + 1, UNCHANGED <<up, down, store, acked>> PROVE Numbered'
  <2>1. Ordered'
    BY <1>1, <1>5 DEF Ordered
  <2>2. UpNumbered' /\ StoreNumbered' /\ DownNumbered'
    BY <1>1, <1>2, <1>3, <1>4, <1>5
  <2> QED
    BY <2>1, <2>2 DEF Numbered
<1>6. ASSUME NEW k \in Keys, SendHit(k) PROVE Numbered'
  BY <1>5, <1>6 DEF SendHit, Send
<1>7. ASSUME NEW k \in Keys, SendStuck("delete", k) PROVE Numbered'
  BY <1>5, <1>7 DEF SendStuck, Send
<1>8. ASSUME NEW k \in Keys, NEW cmd \in {"set", "get", "delete"}, SendForwarded(cmd, k)
      PROVE  Numbered'
  <2>1. PICK r \in Request :
             /\ r.key = k /\ r.cmd = cmd /\ r.nr = issued + 1
             /\ Elems(up') = Elems(up) \cup {r}
             /\ Ordered' /\ issued' = issued + 1
             /\ UNCHANGED <<hung, down, store, acked>>
    BY <1>8, SendFacts
  <2>2. UpNumbered'
    BY <1>1, <1>2, <1>4, <2>1
  <2>3. StoreNumbered' /\ DownNumbered'
    BY <1>1, <1>3, <1>4, <2>1
  <2> QED
    BY <2>1, <2>2, <2>3 DEF Numbered
<1>9. CASE Serve
  <2>1. PICK r \in Request, a \in Reply :
             /\ r = Head(up) /\ r \in Elems(up)
             /\ Elems(up) = Elems(up') \cup {r}
             /\ \A q \in Elems(up') : r.nr < q.nr
             /\ Elems(down') = Elems(down) \cup {a}
             /\ a.key = r.key /\ a.nr = r.nr
             /\ r.cmd = "get" => /\ store' = store /\ a.version = store[r.key].nr
                                 /\ a.cmd \in {"VALUE", "END"}
                                 /\ a.cmd = "VALUE" => store[r.key].present
             /\ r.cmd # "get" => /\ store' = [store EXCEPT ![r.key] =
                                      [nr |-> r.nr, present |-> r.cmd = "set"]]
                                 /\ a.version = r.nr /\ a.cmd \in {"STORED", "DELETED"}
             /\ UNCHANGED <<Memory, hung, issued, acked, raced, lost>>
    BY <1>9, ServeFacts
  <2>2. Ordered'
    BY <1>1, <1>9, OrderedTail DEF Serve
  <2>3. CASE r.cmd = "get"
    <3>1. UpNumbered' /\ StoreNumbered'
      BY <1>1, <2>1, <2>3
    <3>2. DownNumbered'
      BY <1>1, <1>2, <1>4, <2>1, <2>3
    <3> QED
      BY <2>2, <3>1, <3>2 DEF Numbered
  <2>4. CASE r.cmd # "get"
    <3>1. /\ store'[r.key].nr = r.nr /\ r.nr > store[r.key].nr /\ r.nr <= issued /\ r.key \in Keys
          /\ \A k \in Keys : k # r.key => store'[k] = store[k]
      BY <1>1, <1>2, <2>1, <2>4 DEF TypeOK
    <3>2. UpNumbered'
      BY <1>1, <1>2, <1>4, <2>1, <3>1
    <3>3. StoreNumbered'
      BY <1>1, <1>2, <1>4, <2>1, <3>1
    <3>4. DownNumbered'
      BY <1>1, <1>2, <1>3, <1>4, <2>1, <2>4, <3>1
    <3> QED
      BY <2>2, <3>2, <3>3, <3>4 DEF Numbered
  <2> QED
    BY <2>3, <2>4
<1>10. CASE LoseRequest
  <2>1. PICK r \in Request :
             /\ Elems(up) = Elems(up') \cup {r}
             /\ Ordered'
             /\ UNCHANGED <<Memory, hung, issued, down, store, acked, raced>>
    BY <1>10, LoseRequestFacts
  <2> QED
    BY <1>1, <2>1 DEF Numbered
<1>11. CASE LoseReply
  <2>1. /\ Elems(down') \subseteq Elems(down)
        /\ UNCHANGED <<issued, up, store, acked>>
    BY <1>11, LoseReplyFacts
  <2>2. Ordered'
    BY <1>1, <2>1 DEF Ordered
  <2> QED
    BY <1>1, <2>1, <2>2 DEF Numbered
<1>12. CASE ReceiveValue \/ ReceiveOther
  <2>1. down # << >> /\ Deliver(Head(down))
    BY <1>12 DEF ReceiveValue, ReceiveOther
  <2>2. PICK r \in Reply :
             /\ Elems(down) = Elems(down') \cup {r}
             /\ acked' = IF r.cmd \in {"STORED", "DELETED"}
                         THEN [acked EXCEPT ![r.key] = r.nr] ELSE acked
             /\ UNCHANGED <<hung, issued, up, store, raced, lost>>
    BY <2>1, DeliverFacts
  <2>3. Ordered'
    BY <1>1, <2>2 DEF Ordered
  <2>4. StoreNumbered'
    BY <1>1, <1>3, <1>4, <2>2 DEF TypeOK
  <2> QED
    BY <1>1, <2>2, <2>3, <2>4 DEF Numbered
<1>13. CASE UNCHANGED vars
  <2>1. UNCHANGED <<issued, up, down, store, acked>>
    BY <1>13 DEF vars
  <2>2. Ordered'
    BY <1>1, <2>1 DEF Ordered
  <2> QED
    BY <1>1, <2>1, <2>2 DEF Numbered
<1> QED
  BY <1>6, <1>7, <1>8, <1>9, <1>10, <1>11, <1>12, <1>13 DEF Next

-----------------------------------------------------------------------------
(* Coherence. *)

(* Unless the last write of a key overtook a read: reads under way left    *)
(* after the writes under way, and a VALUE on its way back is what the     *)
(* server has, with no write on its way.                                   *)
ReadsInOrder(k) ==
    /\ \A r, w \in Elems(up) :
        r.key = k /\ w.key = k /\ r.cmd = "get" /\ w.cmd # "get" => w.nr < r.nr
    /\ \A r \in Elems(down) : r.key = k /\ r.cmd = "VALUE" =>
        /\ store[k].present /\ r.version = store[k].nr
        /\ \A w \in Elems(up) : w.key = k => w.cmd = "get"

(* The entry is at least as new as the server's value and every write on   *)
(* its way there; if no write was lost, it is one of them.                 *)
Fresh(k) ==
    /\ Slot(k).DATA.nr >= store[k].nr
    /\ \A w \in Elems(up) : w.key = k /\ w.cmd # "get" => Slot(k).DATA.nr >= w.nr
    /\ ~lost[k] =>
        \/ \E w \in Elems(up) : w.key = k /\ w.cmd = "set" /\ w.nr = Slot(k).DATA.nr
        \/ store[k].present /\ Slot(k).DATA.nr = store[k].nr

KeyCoherent(k) == ReadsInOrder(k) /\ (Held(k) => Fresh(k))

Coherent == \A k \in Keys : ~raced[k] => KeyCoherent(k)

(* What a packet that leaves the cache has done to the slot of its key.    *)
LEMMA EntryFacts ==
    ASSUME TypeOK,
           NEW cmd \in {"set", "get", "delete", "value"}, NEW k \in Keys, NEW v \in Value,
           NEW o \in Memcore(cmd, k, v)
    PROVE  /\ cmd \in {"set", "value"} => o.entry.KEY = k /\ o.entry.DATA = v
           /\ cmd = "get" => o.entry = Slot(k)
           /\ cmd = "delete" /\ Output_packets(o.pkt) = "forward" =>
                o.entry = Slot(k) /\ Slot(k).KEY # k
<1>1. Slot(k) \in Entry
  BY McdAssumption DEF TypeOK, Slot
<1>2. PICK q \in Process_Key(cmd, k) : o = Parse_Data(q, v)
  BY DEF Memcore
<1>3. CASE cmd \in {"set", "value"}
  <2>1. q = [pkt |-> cmd, entry |-> [Slot(k) EXCEPT !.VALID = TRUE, !.KEY = k]]
    BY <1>2, <1>3 DEF Process_Key, Outcome
  <2>2. o = [pkt |-> cmd, entry |-> [Slot(k) EXCEPT !.VALID = TRUE, !.KEY = k, !.DATA = v]]
    BY <1>1, <1>2, <1>3, <2>1 DEF Parse_Data, Entry
  <2> QED
    BY <1>1, <1>3, <2>2 DEF Entry
<1>4. CASE cmd = "get"
  <2>1. q.entry = Slot(k) /\ q.pkt \in {"get", "get_miss", "get_collision"}
    BY <1>2, <1>4 DEF Process_Key, Outcome
  <2>2. o = q
    BY <1>2, <2>1 DEF Parse_Data
  <2> QED
    BY <1>4, <2>1, <2>2
<1>5. CASE cmd = "delete"
  <2>1. \/ q.pkt = "delete"
        \/ q.pkt = "get_collision" /\ q.entry = Slot(k) /\ Slot(k).KEY # k
    BY <1>2, <1>5 DEF Process_Key, Outcome
  <2>2. o = q
    BY <1>2, <2>1 DEF Parse_Data
  <2>3. q.pkt = "delete" => Output_packets(q.pkt) # "forward"
    BY DEF Output_packets
  <2> QED
    BY <1>5, <2>1, <2>2, <2>3
<1> QED
  BY <1>3, <1>4, <1>5

(* A write to the slot of a key leaves every other key with the entry it   *)
(* had, or without one.                                                    *)
LEMMA SlotWritten ==
    ASSUME TypeOK, NEW k \in Keys, NEW e, e = Slot(k) \/ e.KEY = k,
           Memory' = [Memory EXCEPT ![SlotOf[k]] = e], UNCHANGED hung
    PROVE  /\ Slot(k)' = e
           /\ \A j \in Keys : j # k /\ Held(j)' => Held(j) /\ Slot(j)' = Slot(j)
           /\ e = Slot(k) => \A j \in Keys : Held(j)' => Held(j) /\ Slot(j)' = Slot(j)
<1>1. SlotOf[k] \in Slots /\ \A j \in Keys : SlotOf[j] \in Slots
  BY McdAssumption
<1>2. Slot(k)' = e
  BY <1>1 DEF TypeOK, Slot
<1>3. ASSUME NEW j \in Keys, SlotOf[j] # SlotOf[k] PROVE Slot(j)' = Slot(j)
  BY <1>1, <1>3 DEF TypeOK, Slot
<1>4. ASSUME NEW j \in Keys, SlotOf[j] = SlotOf[k] PROVE Slot(j)' = e /\ Slot(j) = Slot(k)
  BY <1>2, <1>4 DEF Slot
<1>5. ASSUME NEW j \in Keys, Slot(j)' = Slot(j), Held(j)' PROVE Held(j)
  BY <1>5 DEF Held
<1>6. ASSUME NEW j \in Keys, Held(j)' PROVE Slot(j)'.KEY = j
  BY <1>6 DEF Held
<1> QED
  BY <1>2, <1>3, <1>4, <1>5, <1>6

(* A step keeps a key coherent if it adds no packet of the key, and takes  *)
(* no write of the key from the way to the server unless it counts as lost. *)
LEMMA Frame ==
    ASSUME NEW k \in Keys, KeyCoherent(k),
           \A r \in Elems(up') : r.key = k => r \in Elems(up),
           \A r \in Elems(down') : r.key = k /\ r.cmd = "VALUE" => r \in Elems(down),
           store'[k] = store[k],
           \/ lost'[k]
           \/ /\ lost'[k] = lost[k]
              /\ \A r \in Elems(up) : r.key = k /\ r.cmd = "set" => r \in Elems(up'),
           Held(k)' => Held(k) /\ Slot(k)' = Slot(k)
    PROVE  KeyCoherent(k)'
<1>1. ReadsInOrder(k)'
  BY DEF KeyCoherent, ReadsInOrder
<1>2. ASSUME Held(k)' PROVE Fresh(k)'
  <2>1. Fresh(k) /\ Slot(k)' = Slot(k)
    BY <1>2 DEF KeyCoherent
  <2> QED
    BY <2>1 DEF Fresh
<1> QED
  BY <1>1, <1>2 DEF KeyCoherent

(* A request that is forwarded: a write finds no read under way, or counts *)
(* as one that has overtaken a read.                                       *)
LEMMA ForwardCoherent ==
    ASSUME TypeOK, Numbered, Coherent,
           NEW k \in Keys, NEW cmd \in {"set", "get", "delete"}, SendForwarded(cmd, k)
    PROVE  Coherent'
<1>1. PICK r \in Request :
        /\ r.key = k /\ r.cmd = cmd /\ r.nr = issued + 1
        /\ Elems(up') = Elems(up) \cup {r}
        /\ UNCHANGED <<hung, down, store>>
  BY SendFacts
<1>2. NewValue(k) \in Value /\ NewValue(k).nr = issued + 1
  BY McdAssumption DEF SendForwarded, Send, NewValue, Value, Version, TypeOK
<1>3. PICK o \in Memcore(cmd, k, NewValue(k)) :
        /\ Output_packets(o.pkt) = "forward"
        /\ Memory' = [Memory EXCEPT ![SlotOf[k]] = o.entry]
  BY DEF SendForwarded, Send
<1>4. /\ cmd = "set" => o.entry.KEY = k /\ o.entry.DATA = NewValue(k)
      /\ cmd = "get" => o.entry = Slot(k)
      /\ cmd = "delete" => o.entry = Slot(k) /\ Slot(k).KEY # k
  BY <1>2, <1>3, EntryFacts
<1>5. o.entry = Slot(k) \/ o.entry.KEY = k
  BY <1>4
<1>6. /\ Slot(k)' = o.entry
      /\ \A j \in Keys : j # k /\ Held(j)' => Held(j) /\ Slot(j)' = Slot(j)
      /\ o.entry = Slot(k) => \A j \in Keys : Held(j)' => Held(j) /\ Slot(j)' = Slot(j)
  BY <1>1, <1>3, <1>5, SlotWritten
<1>7. \A q \in Elems(up) : q.nr \in Int /\ q.nr < r.nr
  BY <1>1, UpTyped DEF Numbered, Request, Version, TypeOK
<1>8. ASSUME NEW j \in Keys, j # k, ~raced'[j] PROVE KeyCoherent(j)'
  <2>1. raced'[j] = raced[j] /\ lost'[j] = lost[j]
    BY <1>8 DEF SendForwarded, TypeOK
  <2>2. KeyCoherent(j)
    BY <1>8, <2>1 DEF Coherent
  <2> QED
    BY <1>1, <1>6, <1>8, <2>1, <2>2, Frame
<1>9. ASSUME cmd = "get", ~raced'[k] PROVE KeyCoherent(k)'
  <2>1. raced'[k] = raced[k] /\ lost' = lost
    BY <1>9 DEF SendForwarded
  <2>2. KeyCoherent(k)
    BY <1>9, <2>1 DEF Coherent
  <2>3. ReadsInOrder(k)'
    BY <1>1, <1>7, <1>9, <2>2 DEF KeyCoherent, ReadsInOrder
  <2>4. ASSUME Held(k)' PROVE Fresh(k)'
    <3>1. Fresh(k) /\ Slot(k)' = Slot(k)
      BY <1>4, <1>6, <1>9, <2>2, <2>4 DEF KeyCoherent
    <3> QED
      BY <1>1, <1>9, <2>1, <3>1 DEF Fresh
  <2> QED
    BY <2>3, <2>4 DEF KeyCoherent
<1>10. ASSUME cmd # "get", ~raced'[k] PROVE KeyCoherent(k)'
  <2>1. ~ReadUnderWay(k)
    BY <1>10 DEF SendForwarded, TypeOK
  <2>2. /\ \A q \in Elems(up) : q.key = k => q.cmd # "get"
        /\ \A q \in Elems(down) : q.key = k => q.cmd # "VALUE"
    BY <2>1 DEF ReadUnderWay, Elems
  <2>3. ReadsInOrder(k)'
    BY <1>1, <1>10, <2>2 DEF ReadsInOrder
  <2>4. ASSUME Held(k)' PROVE Fresh(k)'
    <3>1. Slot(k)'.KEY = k
      BY <2>4 DEF Held
    <3>2. cmd = "set" /\ Slot(k)'.DATA.nr = r.nr
      BY <1>1, <1>2, <1>4, <1>6, <1>10, <3>1
    <3>3. r.nr >= store[k].nr /\ r.nr \in Int
      BY <1>1 DEF Numbered, TypeOK, Version
    <3>4. \A w \in Elems(up') : r.nr >= w.nr
      BY <1>1, <1>7, <3>3
    <3> QED
      BY <1>1, <3>2, <3>3, <3>4 DEF Fresh
  <2> QED
    BY <2>3, <2>4 DEF KeyCoherent
<1> QED
  BY <1>8, <1>9, <1>10 DEF Coherent

(* The server takes the oldest request: a read finds no write left, and a  *)
(* write no VALUE on its way back.                                         *)
LEMMA ServeCoherent ==
    ASSUME TypeOK, Numbered, Coherent, Serve
    PROVE  Coherent'
<1>1. PICK r \in Request, a \in Reply :
        /\ r = Head(up) /\ r \in Elems(up)
        /\ Elems(up) = Elems(up') \cup {r}
        /\ \A q \in Elems(up') : r.nr < q.nr
        /\ Elems(down') = Elems(down) \cup {a}
        /\ a.key = r.key /\ a.nr = r.nr
        /\ r.cmd = "get" => /\ store' = store /\ a.version = store[r.key].nr
                            /\ a.cmd \in {"VALUE", "END"}
                            /\ a.cmd = "VALUE" => store[r.key].present
        /\ r.cmd # "get" => /\ store' = [store EXCEPT ![r.key] =
                                 [nr |-> r.nr, present |-> r.cmd = "set"]]
                            /\ a.version = r.nr /\ a.cmd \in {"STORED", "DELETED"}
        /\ UNCHANGED <<Memory, hung, issued, acked, raced, lost>>
  BY ServeFacts
<1>2. r.key \in Keys /\ r.nr \in Int /\ \A q \in Elems(up) : q.nr \in Int
  BY <1>1, UpTyped DEF Request, Version
<1>3. \A j \in Keys : Slot(j)' = Slot(j) /\ (Held(j)' => Held(j))
  BY <1>1 DEF Slot, Held
<1>4. ASSUME NEW j \in Keys, j # r.key, ~raced'[j] PROVE KeyCoherent(j)'
  <2>1. KeyCoherent(j)
    BY <1>1, <1>4 DEF Coherent
  <2>2. store'[j] = store[j]
    BY <1>1, <1>4 DEF TypeOK
  <2> QED
    BY <1>1, <1>3, <1>4, <2>1, <2>2, Frame
<1>5. ASSUME r.cmd = "get", ~raced'[r.key] PROVE KeyCoherent(r.key)'
  <2>1. KeyCoherent(r.key)
    BY <1>1, <1>2, <1>5 DEF Coherent
  <2>2. \A w \in Elems(up') : w.key = r.key => w.cmd = "get"
    <3> SUFFICES ASSUME NEW w \in Elems(up'), w.key = r.key, w.cmd # "get" PROVE FALSE
      OBVIOUS
    <3>1. w \in Elems(up) /\ r.nr < w.nr
      BY <1>1
    <3>2. w.nr < r.nr
      BY <1>1, <1>5, <2>1, <3>1 DEF KeyCoherent, ReadsInOrder
    <3> QED
      BY <1>2, <3>1, <3>2
  <2>3. ReadsInOrder(r.key)'
    BY <1>1, <1>5, <2>1, <2>2 DEF KeyCoherent, ReadsInOrder
  <2>4. ASSUME Held(r.key)' PROVE Fresh(r.key)'
    <3>1. Fresh(r.key) /\ Slot(r.key)' = Slot(r.key)
      BY <1>2, <1>3, <2>1, <2>4 DEF KeyCoherent
    <3> QED
      BY <1>1, <1>5, <3>1 DEF Fresh
  <2> QED
    BY <2>3, <2>4 DEF KeyCoherent
<1>6. ASSUME r.cmd # "get", ~raced'[r.key] PROVE KeyCoherent(r.key)'
  <2>1. KeyCoherent(r.key)
    BY <1>1, <1>2, <1>6 DEF Coherent
  <2>2. store'[r.key] = [nr |-> r.nr, present |-> r.cmd = "set"] /\ r.nr > store[r.key].nr
    BY <1>1, <1>2, <1>6 DEF Numbered, TypeOK
  <2>3. \A q \in Elems(down') : q.key = r.key => q.cmd # "VALUE"
    BY <1>1, <1>6, <2>1 DEF KeyCoherent, ReadsInOrder
  <2>4. ReadsInOrder(r.key)'
    BY <1>1, <2>1, <2>3 DEF KeyCoherent, ReadsInOrder
  <2>5. ASSUME Held(r.key)' PROVE Fresh(r.key)'
    <3>1. Fresh(r.key) /\ Slot(r.key)' = Slot(r.key)
      BY <1>2, <1>3, <2>1, <2>5 DEF KeyCoherent
    <3> DEFINE n == Slot(r.key).DATA.nr
    <3>2. /\ n >= r.nr
          /\ \A w \in Elems(up') : w.key = r.key /\ w.cmd # "get" => n >= w.nr
      BY <1>1, <1>6, <3>1 DEF Fresh
    <3>3. ASSUME ~lost[r.key]
          PROVE  \/ \E w \in Elems(up') : w.key = r.key /\ w.cmd = "set" /\ w.nr = n
                 \/ r.cmd = "set" /\ n = r.nr
      <4>1. n # store[r.key].nr
        BY <1>2, <2>2, <3>2 DEF TypeOK, Version
      <4> QED
        BY <1>1, <3>1, <3>3, <4>1 DEF Fresh
    <3>4. store'[r.key].nr = r.nr /\ store'[r.key].present = (r.cmd = "set")
      BY <2>2
    <3>5. Slot(r.key)'.DATA.nr = n /\ lost'[r.key] = lost[r.key]
      BY <1>1, <3>1
    <3> HIDE DEF n
    <3> QED
      BY <3>2, <3>3, <3>4, <3>5 DEF Fresh
  <2> QED
    BY <2>4, <2>5 DEF KeyCoherent
<1> QED
  BY <1>4, <1>5, <1>6 DEF Coherent

(* A VALUE is saved: it is what the server has.                            *)
LEMMA ReceiveValueCoherent ==
    ASSUME TypeOK, Numbered, Coherent, ReceiveValue
    PROVE  Coherent'
<1>1. PICK r \in Reply :
        /\ r = Head(down)
        /\ Elems(down) = Elems(down') \cup {r}
        /\ ~hung /\ UNCHANGED <<hung, up, store, raced, lost>>
  BY DeliverFacts DEF ReceiveValue
<1> DEFINE v == [key |-> r.key, nr |-> r.version]
<1>2. r.key \in Keys /\ v \in Value
  BY DEF Reply, Value
<1>3. PICK o \in Memcore("value", r.key, v) : Memory' = [Memory EXCEPT ![SlotOf[r.key]] = o.entry]
  BY <1>1 DEF ReceiveValue
<1>4. o.entry.KEY = r.key /\ o.entry.DATA = v
  BY <1>2, <1>3, EntryFacts
<1>5. /\ Slot(r.key)' = o.entry
      /\ \A j \in Keys : j # r.key /\ Held(j)' => Held(j) /\ Slot(j)' = Slot(j)
  BY <1>1, <1>2, <1>3, <1>4, SlotWritten
<1>6. ASSUME NEW j \in Keys, j # r.key, ~raced'[j] PROVE KeyCoherent(j)'
  <2>1. KeyCoherent(j)
    BY <1>1, <1>6 DEF Coherent
  <2> QED
    BY <1>1, <1>5, <1>6, <2>1, Frame
<1>7. ASSUME ~raced'[r.key] PROVE KeyCoherent(r.key)'
  <2>1. KeyCoherent(r.key)
    BY <1>1, <1>2, <1>7 DEF Coherent
  <2>2. /\ store[r.key].present /\ r.version = store[r.key].nr
        /\ \A w \in Elems(up) : w.key = r.key => w.cmd = "get"
    BY <1>1, <2>1 DEF KeyCoherent, ReadsInOrder, ReceiveValue
  <2>3. ReadsInOrder(r.key)'
    BY <1>1, <2>1 DEF KeyCoherent, ReadsInOrder
  <2>4. Slot(r.key)'.DATA.nr = store[r.key].nr /\ store[r.key].nr \in Int
    BY <1>2, <1>4, <1>5, <2>2 DEF TypeOK, Version
  <2>5. Fresh(r.key)'
    BY <1>1, <2>2, <2>4 DEF Fresh
  <2> QED
    BY <2>3, <2>5 DEF KeyCoherent
<1> QED
  BY <1>6, <1>7 DEF Coherent

(* Every step keeps every key coherent. *)
LEMMA StepCoherent == TypeOK /\ Numbered /\ Coherent /\ [Next]_vars => Coherent'
<1> SUFFICES ASSUME TypeOK, Numbered, Coherent, [Next]_vars PROVE Coherent'
  OBVIOUS
<1>1. ASSUME NEW k \in Keys, SendHit(k) PROVE Coherent'
  <2>1. NewValue(k) \in Value
    BY <1>1, McdAssumption DEF SendHit, Send, NewValue, Value, Version, TypeOK
  <2>2. PICK o \in Memcore("get", k, NewValue(k)) :
          Memory' = [Memory EXCEPT ![SlotOf[k]] = o.entry]
    BY <1>1 DEF SendHit, Send
  <2>3. o.entry = Slot(k)
    BY <2>1, <2>2, EntryFacts
  <2>4. UNCHANGED <<hung, up, down, store, raced, lost>>
    BY <1>1 DEF SendHit, Send
  <2>5. \A j \in Keys : Held(j)' => Held(j) /\ Slot(j)' = Slot(j)
    BY <2>2, <2>3, <2>4, SlotWritten
  <2>6. ASSUME NEW j \in Keys, KeyCoherent(j) PROVE KeyCoherent(j)'
    BY <2>4, <2>5, <2>6, Frame
  <2> QED
    BY <2>4, <2>6 DEF Coherent
<1>2. ASSUME NEW k \in Keys, SendStuck("delete", k) PROVE Coherent'
  <2>1. hung' /\ UNCHANGED <<up, down, store, raced, lost>>
    BY <1>2 DEF SendStuck, Send
  <2>2. \A j \in Keys : ~Held(j)'
    BY <2>1 DEF Held
  <2>3. ASSUME NEW j \in Keys, KeyCoherent(j) PROVE KeyCoherent(j)'
    BY <2>1, <2>2, <2>3, Frame
  <2> QED
    BY <2>1, <2>3 DEF Coherent
<1>3. CASE LoseRequest
  <2>1. PICK r \in Request :
          /\ Elems(up) = Elems(up') \cup {r}
          /\ lost' = IF r.cmd = "get" THEN lost ELSE [lost EXCEPT ![r.key] = TRUE]
          /\ UNCHANGED <<Memory, hung, down, store, raced>>
    BY <1>3, LoseRequestFacts
  <2>2. \A j \in Keys : Held(j)' => Held(j) /\ Slot(j)' = Slot(j)
    BY <2>1 DEF Held, Slot
  <2>3. ASSUME NEW j \in Keys, KeyCoherent(j) PROVE KeyCoherent(j)'
    <3>1. \/ lost'[j]
          \/ lost'[j] = lost[j] /\ (r.cmd = "get" \/ r.key # j)
      BY <2>1 DEF TypeOK
    <3>2. \/ lost'[j]
          \/ /\ lost'[j] = lost[j]
             /\ \A q \in Elems(up) : q.key = j /\ q.cmd = "set" => q \in Elems(up')
      BY <2>1, <3>1
    <3> QED
      BY <2>1, <2>2, <2>3, <3>2, Frame
  <2> QED
    BY <2>1, <2>3 DEF Coherent
<1>4. ASSUME Elems(down') \subseteq Elems(down), UNCHANGED <<Memory, hung, up, store, raced, lost>>
      PROVE  Coherent'
  <2>1. \A j \in Keys : Held(j)' => Held(j) /\ Slot(j)' = Slot(j)
    BY <1>4 DEF Held, Slot
  <2>2. ASSUME NEW j \in Keys, KeyCoherent(j) PROVE KeyCoherent(j)'
    BY <1>4, <2>1, <2>2, Frame
  <2> QED
    BY <1>4, <2>2 DEF Coherent
<1>5. CASE LoseReply
  BY <1>4, <1>5, LoseReplyFacts
<1>6. CASE ReceiveOther
  <2>1. Elems(down') \subseteq Elems(down) /\ UNCHANGED <<hung, up, store, raced, lost>>
    BY <1>6, DeliverFacts DEF ReceiveOther
  <2> QED
    BY <1>4, <1>6, <2>1 DEF ReceiveOther
<1>7. CASE UNCHANGED vars
  BY <1>4, <1>7 DEF vars
<1>8. ASSUME NEW k \in Keys, NEW cmd \in {"set", "get", "delete"}, SendForwarded(cmd, k)
      PROVE  Coherent'
  BY <1>8, ForwardCoherent
<1> QED
  BY <1>1, <1>2, <1>3, <1>5, <1>6, <1>7, <1>8, ServeCoherent, ReceiveValueCoherent DEF Next

(* Nothing is under way and the cache is empty at first. *)
LEMMA InitCoherent == Init => Numbered /\ Coherent
<1> SUFFICES ASSUME Init PROVE Numbered /\ Coherent
  OBVIOUS
<1>1. Elems(up) = {} /\ Elems(down) = {} /\ Len(up) = 0
  BY DEF Init, Elems
<1>2. Numbered
  BY <1>1 DEF Init, Numbered, Ordered
<1>3. \A k \in Keys : ~Held(k)
  BY McdAssumption DEF Init, Held, Slot
<1> QED
  BY <1>1, <1>2, <1>3 DEF Coherent, KeyCoherent, ReadsInOrder

(* The invariant of the theorems on coherence. *)
LEMMA AlwaysCoherent == Spec => [](TypeOK /\ Numbered /\ Coherent)
BY InitCoherent, NumberedStep, StepCoherent, CacheTyped, PTL DEF Spec

(* A client that knows a write to be done does not read an older value     *)
(* from the cache, whatever was lost, unless the last write overtook a     *)
(* read.                                                                   *)
THEOREM CacheNeverStale == Spec => []NeverStale
<1>1. TypeOK /\ Numbered /\ Coherent => NeverStale
  <2> SUFFICES ASSUME TypeOK, Numbered, Coherent,
                      NEW k \in Keys, ~raced[k], NEW v \in Cached(k)
               PROVE  v.nr >= acked[k]
    BY DEF NeverStale
  <2>1. Held(k) /\ v = Slot(k).DATA
    BY CachedFacts
  <2>2. v.nr >= store[k].nr
    BY <2>1 DEF Coherent, KeyCoherent, Fresh
  <2>3. Slot(k) \in Entry /\ Slot(k).VALID = TRUE
    <3>1. Slot(k) \in Entry
      BY McdAssumption DEF TypeOK, Slot
    <3> QED
      BY <2>1, <3>1 DEF Held, Entry
  <2>4. v \in Value
    BY <2>1, <2>3 DEF Entry
  <2>5. v.nr \in Int
    BY <2>4 DEF Value, Version
  <2> QED
    BY <2>2, <2>5 DEF Numbered, TypeOK, Version
<1> QED
  BY <1>1, AlwaysCoherent, PTL

(* When no packet of a key is under way, the cache answers what the server *)
(* has, unless the last write was lost or overtook a read.                 *)
THEOREM CacheCoherent == Spec => []CoherentWhenQuiet
<1>1. TypeOK /\ Numbered /\ Coherent => CoherentWhenQuiet
  <2> SUFFICES ASSUME TypeOK, Numbered, Coherent, NEW k \in Keys,
                      Quiet(k), ~raced[k], ~lost[k], NEW v \in Cached(k)
               PROVE  store[k].present /\ v.nr = store[k].nr
    BY DEF CoherentWhenQuiet
  <2>1. Held(k) /\ v = Slot(k).DATA
    BY CachedFacts
  <2>2. \A w \in Elems(up) : w.key # k
    BY DEF Quiet, Elems
  <2> QED
    BY <2>1, <2>2 DEF Coherent, KeyCoherent, Fresh
<1> QED
  BY <1>1, AlwaysCoherent, PTL
=============================================================================
