------------------------------ MODULE FecRules ------------------------------
(***************************************************************************)
(* The configuration of the FEC boosters (fecBoosterApi.c): the table of   *)
(* traffic classes, the default class, the switch that enables tagging,    *)
(* and the table of rules that give a port and protocol a class, with the  *)
(* commands of the rule files and the classification of packets.           *)
(*                                                                         *)
(* A command that is refused (the code returns -1) changes nothing and is  *)
(* a stuttering step.  Class numbers are below TCLASS_MAX: the check for   *)
(* them is off by one, and class TCLASS_MAX lies outside of the array.     *)
(***************************************************************************)
EXTENDS Integers

CONSTANTS
    Keys,        \* pairs of a port and a protocol, as the commands take them
    ZeroKey,     \* port 0 and UDP: an unused slot, or a packet that is cut off
    Classes,     \* traffic class numbers
    Params,      \* the k, h and t of a class
    TCLASS_NULL, \* no class
    NoRule, NoKey, NoParams,
    MAX_RULES,
    FirstBytes,  \* the first bytes behind the Ethernet header to consider
    MaxDeletes   \* bound: rules deleted

ASSUME RulesAssumption ==
    /\ MAX_RULES \in Nat /\ MaxDeletes \in Nat
    /\ ZeroKey \notin Keys /\ NoKey \notin Keys \cup {ZeroKey}
    /\ TCLASS_NULL \notin Classes /\ NoRule \notin Classes \cup {TCLASS_NULL}
    /\ NoParams \notin Params
    /\ FirstBytes \subseteq 0 .. 255

Slots == 0 .. MAX_RULES - 1
TClass == Classes \cup {TCLASS_NULL}
RuleEntry == [key : Keys \cup {ZeroKey}, tclass : TClass \cup {NoRule}, active : BOOLEAN]

VARIABLES
    rules, default_tclass, wharf_enabled,
    tclasses,    \* the class table, NoParams where a class is not active
    fec_params,  \* the parameters that fecBooster.c holds
    defined,     \* history: the classes that were ever defined
    deletes      \* history: how many rules were deleted

vars == <<rules, default_tclass, wharf_enabled, tclasses, fec_params, defined, deletes>>

TypeOK ==
    /\ rules \in [Slots -> RuleEntry]
    /\ \A i \in Slots : rules[i].active => rules[i].key \in Keys /\ rules[i].tclass \in TClass
    /\ default_tclass \in TClass /\ wharf_enabled \in BOOLEAN
    /\ tclasses \in [Classes -> Params \cup {NoParams}]
    /\ fec_params \in [Classes -> Params \cup {NoParams}]
    /\ defined \subseteq Classes /\ deletes \in 0 .. MaxDeletes

Init ==
    /\ rules = [i \in Slots |-> [key |-> ZeroKey, tclass |-> NoRule, active |-> FALSE]]
    /\ default_tclass = TCLASS_NULL /\ wharf_enabled = FALSE
    /\ tclasses = [c \in Classes |-> NoParams]
    /\ fec_params = [c \in Classes |-> NoParams]
    /\ defined = {} /\ deletes = 0

-----------------------------------------------------------------------------
(* Classes. *)

\* mutant: a class that is not defined is accepted
AnyClass(c) == TRUE
valid_tclass(c) == c # TCLASS_NULL => tclasses[c] # NoParams

wharf_set_tclass(c, p) ==
    /\ tclasses' = [tclasses EXCEPT ![c] = p]
    /\ fec_params' = [fec_params EXCEPT ![c] = p]
    /\ defined' = defined \cup {c}
    /\ UNCHANGED <<rules, default_tclass, wharf_enabled, deletes>>

(* The rules that name the class, the default and fecBooster.c stay. *)
wharf_delete_tclass(c) ==
    /\ tclasses' = [tclasses EXCEPT ![c] = NoParams]
    /\ UNCHANGED <<rules, default_tclass, wharf_enabled, fec_params, defined, deletes>>

wharf_set_default_class(c) ==
    /\ valid_tclass(c)
    /\ default_tclass' = c
    /\ UNCHANGED <<rules, wharf_enabled, tclasses, fec_params, defined, deletes>>

wharf_set_enabled(b) ==
    /\ wharf_enabled' = b
    /\ UNCHANGED <<rules, default_tclass, tclasses, fec_params, defined, deletes>>

-----------------------------------------------------------------------------
(* Rules. *)

rules_equal(i, k) == rules[i].key = k

First(i, P(_)) == P(i) /\ \A j \in Slots : j < i => ~P(j)

(* The slot that a SET takes: the first one that has the key or is free.   *)
\* mutant: the last one
IsLastSlotFor(i, k) ==
    LET Candidate(j) == rules_equal(j, k) \/ ~rules[j].active
    IN  Candidate(i) /\ \A j \in Slots : j > i => ~Candidate(j)
\* mutant: the first free one
IsFreeSlot(i, k) == First(i, LAMBDA j : ~rules[j].active)
IsSlotFor(i, k) == First(i, LAMBDA j : rules_equal(j, k) \/ ~rules[j].active)

wharf_set_rule(c, k) ==
    /\ valid_tclass(c)
    /\ \E i \in Slots :
         /\ IsSlotFor(i, k)
         /\ rules' = [rules EXCEPT ![i] = [key |-> k, tclass |-> c, active |-> TRUE]]
    /\ UNCHANGED <<default_tclass, wharf_enabled, tclasses, fec_params, defined, deletes>>

(* The command DEL checks the class too, with parse_rule_opts(). *)
IsRule(i, c, k) ==
    First(i, LAMBDA j : rules_equal(j, k) /\ rules[j].active /\ rules[j].tclass = c)

\* mutant: the rule loses its class and stays active
delete_rule_class(c, k) ==
    /\ deletes < MaxDeletes
    /\ deletes' = deletes + 1
    /\ \E i \in Slots :
         /\ IsRule(i, c, k)
         /\ rules' = [rules EXCEPT ![i].tclass = NoRule]
    /\ UNCHANGED <<default_tclass, wharf_enabled, tclasses, fec_params, defined>>

wharf_delete_rule(c, k) ==
    /\ deletes < MaxDeletes
    /\ deletes' = deletes + 1
    /\ valid_tclass(c)
    /\ \E i \in Slots :
         /\ IsRule(i, c, k)
         /\ rules' = [rules EXCEPT ![i].active = FALSE]
    /\ UNCHANGED <<default_tclass, wharf_enabled, tclasses, fec_params, defined>>

(* The class of the rule that the first slot with the key holds. *)
IsMatch(i, k) == First(i, LAMBDA j : rules_equal(j, k))

Lookup(k) ==
    IF \E i \in Slots : IsMatch(i, k) /\ rules[i].active
    THEN rules[CHOOSE i \in Slots : IsMatch(i, k)].tclass
    ELSE NoRule

wharf_query_rule(k) ==
    IF ~wharf_enabled THEN TCLASS_NULL
    ELSE IF Lookup(k) = NoRule THEN default_tclass
    ELSE Lookup(k)

-----------------------------------------------------------------------------
(* Packets: the first byte of what follows the Ethernet header, and the    *)
(* port and protocol, NoKey for a protocol other than TCP and UDP.         *)

Packet == [byte : FirstBytes, key : Keys \cup {ZeroKey, NoKey}]

(* IS_IPV4(bits): (bits & 0x4) && !(bits & !0x4F). *)
is_ipv4(p) == (p.byte \div 4) % 2 = 1

wharf_query_packet(p) ==
    IF ~is_ipv4(p) \/ p.key = NoKey
    THEN default_tclass
    ELSE wharf_query_rule(p.key)

-----------------------------------------------------------------------------
Next ==
    \/ \E c \in Classes, p \in Params : wharf_set_tclass(c, p)
    \/ \E c \in Classes : wharf_delete_tclass(c)
    \/ \E c \in TClass : wharf_set_default_class(c)
    \/ \E b \in BOOLEAN : wharf_set_enabled(b)
    \/ \E c \in TClass, k \in Keys : wharf_set_rule(c, k)
    \/ \E c \in TClass, k \in Keys : wharf_delete_rule(c, k)

Spec == Init /\ [][Next]_vars

-----------------------------------------------------------------------------
(* A SET that succeeds decides the class of its port and protocol at once, *)
(* whatever was set, replaced and deleted before: no older entry of the    *)
(* table, which may hold several for a key, hides the new one.             *)
SetWins ==
    [][\A c \in TClass, k \in Keys : wharf_set_rule(c, k) => Lookup(k)' = c]_vars

(* As long as at most one rule is deleted, the table of slots behaves like *)
(* a map from ports and protocols to classes: a command changes the rule   *)
(* it names and no other, although a slot that is reused leaves a second   *)
(* entry for its new key further down in the table.                        *)
Table == INSTANCE FecRuleTable WITH
            rule <- [k \in Keys |-> Lookup(k)], Classes <- TClass
ImplementsTable == Table!Spec

(* "NOTE: Class ID must have been previously defined" (readme.md): no      *)
(* packet is ever given a class that was not, by a rule or by default.     *)
OnlyDefinedClasses ==
    \A p \in Packet : wharf_query_packet(p) \in defined \cup {TCLASS_NULL}

(* A rule that was deleted does not come back until it is set again: DEL   *)
(* "Removes the rule associated associated with the given parameters"      *)
(* (readme.md).  Does not hold: see the run rules_resurrected.             *)
DeletedStaysDeleted ==
    [][\A k \in Keys : Lookup(k) = NoRule /\ Lookup(k)' # NoRule =>
          \E c \in TClass : wharf_set_rule(c, k)]_vars

=============================================================================
