--------------------------- MODULE MemcachedCache ---------------------------
(***************************************************************************)
(* The Memcached booster as an extern of the software switch: clients, the *)
(* in-network cache that their requests and the server's replies pass      *)
(* through, and the server.                                                *)
(*                                                                         *)
(* The cache (MemHLS.cpp) has one entry per slot, and keys share slots.    *)
(* SET requests and VALUE replies overwrite the slot of their key; a GET   *)
(* whose key the slot holds is answered, everything else travels on.       *)
(* Nothing ties an entry to the order in which the server serves requests. *)
(*                                                                         *)
(* Requests and replies are UDP packets.  A request is processed by the    *)
(* cache as soon as it is sent, and its number is the version that a SET   *)
(* or DELETE writes; a value is its key and version.  Any number of        *)
(* requests may be open.  Other commands and replies, which Parse_CMD lets *)
(* pass, change no state and are left out.                                 *)
(***************************************************************************)
EXTENDS Integers, Sequences

CONSTANTS
    Keys,
    NoKey,        \* the key of an empty slot
    Slots,        \* indices of Memory
    SlotOf,       \* the hash of a key
    MaxRequests,  \* bound: requests sent
    MaxLoss       \* bound: packets lost between the cache and the server

ASSUME McdAssumption ==
    /\ NoKey \notin Keys /\ SlotOf \in [Keys -> Slots]
    /\ MaxRequests \in Nat /\ MaxLoss \in Nat

VARIABLES
    Memory,   \* the cache
    hung,     \* whether call_memcached() waits for an output that never comes
    issued,   \* how many requests have been sent
    open,     \* the requests that a client waits for
    up, down, \* packets on their way to and from the server
    store,    \* the server
    losses,
    \* history, for each key:
    acked,    \* the last write that a client knows to be done
    raced,    \* whether reads were under way when the last write was sent
    lost      \* whether a write was lost since the last one was sent

vars == <<Memory, hung, issued, open, up, down, store, losses, acked, raced, lost>>

Version == 0 .. MaxRequests
Value == [key : Keys, nr : Version]
(* A valid entry has a key and data. *)
Entry == [VALID : {TRUE}, KEY : Keys, DATA : Value] \cup
         [VALID : {FALSE}, KEY : Keys \cup {NoKey}, DATA : {NoKey}]
Request == [nr : Version \ {0}, cmd : {"set", "get", "delete"}, key : Keys]
Reply == [nr : Version \ {0}, cmd : {"STORED", "VALUE", "END", "DELETED"}, key : Keys,
          version : Version]

TypeOK ==
    /\ Memory \in [Slots -> Entry]
    /\ hung \in BOOLEAN
    /\ issued \in Version
    /\ open \subseteq 1 .. issued
    /\ up \in Seq(Request) /\ down \in Seq(Reply)
    /\ store \in [Keys -> [nr : Version, present : BOOLEAN]]
    /\ losses \in 0 .. MaxLoss
    /\ acked \in [Keys -> Version]
    /\ raced \in [Keys -> BOOLEAN] /\ lost \in [Keys -> BOOLEAN]

(* The server has version 0 of every key, the cache is empty. *)
Init ==
    /\ Memory = [i \in Slots |-> [VALID |-> FALSE, KEY |-> NoKey, DATA |-> NoKey]]
    /\ hung = FALSE
    /\ issued = 0
    /\ open = {}
    /\ up = << >> /\ down = << >>
    /\ store = [k \in Keys |-> [nr |-> 0, present |-> TRUE]]
    /\ losses = 0
    /\ acked = [k \in Keys |-> 0]
    /\ raced = [k \in Keys |-> FALSE] /\ lost = [k \in Keys |-> FALSE]

-----------------------------------------------------------------------------
(* The cache: what Memcore() makes of a packet.  An outcome is what the    *)
(* packet has become, and the entry of its key's slot.                     *)

Outcome(pkt, entry) == [pkt |-> pkt, entry |-> entry]

(* What Memory[index] is for a key: the hash selects the slot. *)
Slot(k) == Memory[SlotOf[k]]

\* mutant: keys of the same slot are not told apart
Process_Key_NoCompare(pkt, k) ==
    IF pkt = "get" /\ Slot(k).VALID THEN {Outcome("get", Slot(k))}
    ELSE IF pkt = "get" THEN {Outcome("get_miss", Slot(k))}
    ELSE {Outcome(pkt, [Slot(k) EXCEPT !.VALID = TRUE, !.KEY = k])}
(* Keys are compared word by word.  That is exact: the last word of a key   *)
(* is padded with zeros, or followed by a word of zeros.                   *)
(* For a DELETE the code leaves the variable State uninitialised: the key  *)
(* may be saved, or compared, or neither.                                  *)
Process_Key(pkt, k) ==
    CASE pkt \in {"set", "value"} ->
           {Outcome(pkt, [Slot(k) EXCEPT !.VALID = TRUE, !.KEY = k])}
      [] pkt = "get" ->
           {Outcome(IF ~Slot(k).VALID THEN "get_miss"
                    ELSE IF Slot(k).KEY # k THEN "get_collision" ELSE "get", Slot(k))}
      [] pkt = "delete" ->
           {Outcome("delete", [Slot(k) EXCEPT !.KEY = k]),
            Outcome(IF Slot(k).KEY # k THEN "get_collision" ELSE "delete", Slot(k)),
            Outcome("delete", Slot(k))}

\* mutants: the data of a SET is not saved; not saved over other data
Parse_Data_ValueOnly(o, v) == IF o.pkt = "value" THEN [o EXCEPT !.entry.DATA = v] ELSE o
Parse_Data_Keep(o, v) ==
    IF o.pkt = "value" \/ (o.pkt = "set" /\ o.entry.DATA = NoKey)
    THEN [o EXCEPT !.entry.DATA = v] ELSE o
Parse_Data(o, v) == IF o.pkt \in {"set", "value"} THEN [o EXCEPT !.entry.DATA = v] ELSE o

Memcore(pkt, k, v) == {Parse_Data(o, v) : o \in Process_Key(pkt, k)}

\* mutant: a VALUE is saved, but not passed on to the client
Output_packets_NoValue(pkt) ==
    IF pkt = "get" THEN "reply"
    ELSE IF pkt \in {"get_miss", "get_collision", "set"} THEN "forward" ELSE "none"
(* Output_packets: a hit is answered, and a packet that is still a DELETE  *)
(* produces no output at all.                                              *)
Output_packets(pkt) ==
    CASE pkt = "get" -> "reply"
      [] pkt \in {"get_miss", "get_collision", "value", "set"} -> "forward"
      [] pkt = "delete" -> "none"

-----------------------------------------------------------------------------
(* Requests. *)

NewRequest(cmd, k) == [nr |-> issued + 1, cmd |-> cmd, key |-> k]
NewValue(k) == [key |-> k, nr |-> issued + 1]

(* A read of the key is between the cache and the server, or on its way    *)
(* back with a value.                                                      *)
ReadUnderWay(k) ==
    \/ \E i \in 1 .. Len(up) : up[i].cmd = "get" /\ up[i].key = k
    \/ \E i \in 1 .. Len(down) : down[i].cmd = "VALUE" /\ down[i].key = k

Send(cmd, k, out) ==
    /\ ~hung /\ issued < MaxRequests
    /\ \E o \in Memcore(cmd, k, NewValue(k)) :
        /\ Output_packets(o.pkt) = out
        /\ Memory' = [Memory EXCEPT ![SlotOf[k]] = o.entry]
    /\ issued' = issued + 1
    /\ UNCHANGED <<down, store, losses, acked>>

(* A GET that the cache answers; the request is not forwarded. *)
SendHit(k) ==
    /\ Send("get", k, "reply")
    /\ UNCHANGED <<hung, open, up, raced, lost>>

(* A request that travels on to the server. *)
SendForwarded(cmd, k) ==
    /\ Send(cmd, k, "forward")
    /\ open' = open \cup {issued + 1}
    /\ up' = Append(up, NewRequest(cmd, k))
    /\ IF cmd = "get" THEN UNCHANGED <<raced, lost>>
       ELSE /\ raced' = [raced EXCEPT ![k] = ReadUnderWay(k)]
            /\ lost' = [lost EXCEPT ![k] = FALSE]
    /\ UNCHANGED hung

(* call_memcached() reads an output of Memcore() that was not written, and *)
(* does not return: the switch's ingress thread is stuck.                  *)
SendStuck(cmd, k) ==
    /\ Send(cmd, k, "none")
    /\ open' = open \cup {issued + 1}
    /\ hung' = TRUE
    /\ UNCHANGED <<up, raced, lost>>

-----------------------------------------------------------------------------
(* The server and the path to it. *)

Answer(r, cmd, version) ==
    [nr |-> r.nr, cmd |-> cmd, key |-> r.key, version |-> version]

Serve ==
    LET r == Head(up) IN
    /\ up # << >>
    /\ up' = Tail(up)
    /\ store' = IF r.cmd = "get" THEN store
                ELSE [store EXCEPT ![r.key] = [nr |-> r.nr, present |-> r.cmd = "set"]]
    /\ down' = Append(down,
         CASE r.cmd = "set" -> Answer(r, "STORED", r.nr)
           [] r.cmd = "delete" -> Answer(r, "DELETED", r.nr)
           [] r.cmd = "get" -> Answer(r, IF store[r.key].present THEN "VALUE" ELSE "END",
                                      store[r.key].nr))
    /\ UNCHANGED <<Memory, hung, issued, open, losses, acked, raced, lost>>

LoseRequest ==
    /\ up # << >> /\ losses < MaxLoss
    /\ up' = Tail(up)
    /\ losses' = losses + 1
    /\ lost' = IF Head(up).cmd = "get" THEN lost ELSE [lost EXCEPT ![Head(up).key] = TRUE]
    /\ UNCHANGED <<Memory, hung, issued, open, down, store, acked, raced>>

LoseReply ==
    /\ down # << >> /\ losses < MaxLoss
    /\ down' = Tail(down)
    /\ losses' = losses + 1
    /\ UNCHANGED <<Memory, hung, issued, open, up, store, acked, raced, lost>>

-----------------------------------------------------------------------------
(* Replies pass through the cache on their way to the client. *)

Deliver(r) ==
    /\ ~hung
    /\ down' = Tail(down)
    /\ open' = open \ {r.nr}
    /\ acked' = IF r.cmd \in {"STORED", "DELETED"}
                THEN [acked EXCEPT ![r.key] = r.nr] ELSE acked
    /\ UNCHANGED <<hung, issued, up, store, losses, raced, lost>>

ReceiveValue ==
    LET r == Head(down) IN
    /\ down # << >> /\ r.cmd = "VALUE"
    /\ \E o \in Memcore("value", r.key, [key |-> r.key, nr |-> r.version]) :
        /\ Output_packets(o.pkt) = "forward"
        /\ Memory' = [Memory EXCEPT ![SlotOf[r.key]] = o.entry]
    /\ Deliver(r)

(* STORED, DELETED and END are no commands of Parse_CMD: they pass. *)
ReceiveOther ==
    /\ down # << >> /\ Head(down).cmd # "VALUE"
    /\ Deliver(Head(down))
    /\ UNCHANGED Memory

-----------------------------------------------------------------------------
Next ==
    \/ \E k \in Keys :
        \/ SendHit(k)
        \/ \E cmd \in {"set", "get", "delete"} : SendForwarded(cmd, k)
        \/ SendStuck("delete", k)
    \/ Serve
    \/ LoseRequest
    \/ LoseReply
    \/ ReceiveValue
    \/ ReceiveOther

Spec == Init /\ [][Next]_vars

(* The server answers what arrives, and the switch processes replies. *)
FairSpec == Spec /\ WF_vars(Serve) /\ WF_vars(ReceiveValue \/ ReceiveOther)

-----------------------------------------------------------------------------
(* What the cache would answer to a GET of the key now: at most one value. *)
Cached(k) ==
    IF hung THEN {}
    ELSE {o.entry.DATA : o \in {p \in Memcore("get", k, NoKey) : Output_packets(p.pkt) = "reply"}}

Quiet(k) ==
    /\ \A i \in 1 .. Len(up) : up[i].key # k
    /\ \A i \in 1 .. Len(down) : down[i].key # k

(* The cache answers with a value of the key that was asked for, although  *)
(* keys share slots and a GET, its VALUE and SETs of other keys interleave. *)
ValueOfTheKey == \A k \in Keys : \A v \in Cached(k) : v.key = k

(* Coherence: when no packet of a key is under way, what the cache would   *)
(* answer is what the server has, with two exceptions only: a write was    *)
(* lost after it passed the cache, or the last one overtook a read whose   *)
(* VALUE, older than the write, has replaced it in the cache.              *)
CoherentWhenQuiet ==
    \A k \in Keys : Quiet(k) /\ ~raced[k] /\ ~lost[k] =>
        \A v \in Cached(k) : store[k].present /\ v.nr = store[k].nr

(* A client that knows a write to be done does not read an older value     *)
(* from the cache, whatever was lost and sent again, unless the last write *)
(* overtook a read.                                                        *)
NeverStale ==
    \A k \in Keys : ~raced[k] => \A v \in Cached(k) : v.nr >= acked[k]

(* A client gets an answer to every request, also when keys collide, if    *)
(* nothing was lost and no DELETE has hung the booster.                    *)
EveryRequestAnswered ==
    \A n \in 1 .. MaxRequests : n \in open ~> (n \notin open \/ hung \/ losses > 0)

=============================================================================
