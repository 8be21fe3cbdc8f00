--------------------------- MODULE FecRules_proofs ---------------------------
(* Proofs about the rules of the FEC boosters, for tables of any size. *)
EXTENDS FecRules, TLAPS

(* The initial tables have their types. *)
LEMMA InitTyped == Init => TypeOK
<1> SUFFICES ASSUME Init PROVE TypeOK
  OBVIOUS
<1>1. [key |-> ZeroKey, tclass |-> NoRule, active |-> FALSE] \in RuleEntry
  BY DEF RuleEntry
<1>2. rules \in [Slots -> RuleEntry] /\ \A i \in Slots : ~rules[i].active
  BY <1>1 DEF Init
<1>3. default_tclass \in TClass /\ wharf_enabled \in BOOLEAN
  BY DEF Init, TClass
<1>4. tclasses \in [Classes -> Params \cup {NoParams}]
  BY DEF Init
<1>5. fec_params \in [Classes -> Params \cup {NoParams}]
  BY DEF Init
<1>6. defined \subseteq Classes /\ deletes \in 0 .. MaxDeletes
  BY RulesAssumption DEF Init
<1> QED
  BY <1>2, <1>3, <1>4, <1>5, <1>6 DEF TypeOK

(* Every command keeps the types of the tables, and the key and the class  *)
(* of an active rule.                                                      *)
LEMMA StepTyped == TypeOK /\ [Next]_vars => TypeOK'
<1> SUFFICES ASSUME TypeOK, [Next]_vars PROVE TypeOK'
  OBVIOUS
<1>1. ASSUME NEW c \in Classes, NEW p \in Params, wharf_set_tclass(c, p) PROVE TypeOK'
  BY <1>1 DEF TypeOK, wharf_set_tclass
<1>2. ASSUME NEW c \in Classes, wharf_delete_tclass(c) PROVE TypeOK'
  BY <1>2 DEF TypeOK, wharf_delete_tclass
<1>3. ASSUME NEW c \in TClass, wharf_set_default_class(c) PROVE TypeOK'
  BY <1>3 DEF TypeOK, wharf_set_default_class
<1>4. ASSUME NEW b \in BOOLEAN, wharf_set_enabled(b) PROVE TypeOK'
  BY <1>4 DEF TypeOK, wharf_set_enabled
<1>5. ASSUME NEW c \in TClass, NEW k \in Keys, wharf_set_rule(c, k) PROVE TypeOK'
  <2>1. PICK i \in Slots :
          rules' = [rules EXCEPT ![i] = [key |-> k, tclass |-> c, active |-> TRUE]]
    BY <1>5 DEF wharf_set_rule
  <2>2. [key |-> k, tclass |-> c, active |-> TRUE] \in RuleEntry
    BY DEF RuleEntry
  <2> QED
    BY <1>5, <2>1, <2>2 DEF TypeOK, wharf_set_rule
<1>6. ASSUME NEW c \in TClass, NEW k \in Keys, wharf_delete_rule(c, k) PROVE TypeOK'
  <2>1. PICK i \in Slots : rules' = [rules EXCEPT ![i].active = FALSE]
    BY <1>6 DEF wharf_delete_rule
  <2>2. rules' \in [Slots -> RuleEntry]
    BY <2>1 DEF TypeOK, RuleEntry
  <2>3. \A j \in Slots : rules'[j].active =>
            rules'[j].key \in Keys /\ rules'[j].tclass \in TClass
    BY <2>1 DEF TypeOK, RuleEntry
  <2>4. deletes' \in 0 .. MaxDeletes
    BY <1>6, RulesAssumption DEF TypeOK, wharf_delete_rule
  <2> QED
    BY <1>6, <2>2, <2>3, <2>4 DEF TypeOK, wharf_delete_rule
<1>7. ASSUME UNCHANGED vars PROVE TypeOK'
  BY <1>7 DEF TypeOK, vars
<1> QED
  BY <1>1, <1>2, <1>3, <1>4, <1>5, <1>6, <1>7 DEF Next

(* Whatever commands a rule file holds, an active rule names a port and    *)
(* protocol that SET accepts, and a class.                                 *)
THEOREM RulesTyped == Spec => []TypeOK
  BY InitTyped, StepTyped, PTL DEF Spec

(* The slot that a SET takes is the first one with its key afterwards: no  *)
(* slot before it has the key, for the search would have stopped there.    *)
LEMMA SetTakesFirstMatch ==
    ASSUME TypeOK, NEW c \in TClass, NEW k \in Keys, wharf_set_rule(c, k)
    PROVE  Lookup(k)' = c
<1>1. PICK i \in Slots :
        /\ IsSlotFor(i, k)
        /\ rules' = [rules EXCEPT ![i] = [key |-> k, tclass |-> c, active |-> TRUE]]
  BY DEF wharf_set_rule
<1>2. rules'[i].key = k /\ rules'[i].tclass = c /\ rules'[i].active
  BY <1>1 DEF TypeOK
<1>3. \A j \in Slots : j < i => rules'[j].key # k
  BY <1>1 DEF TypeOK, IsSlotFor, First, rules_equal, Slots
<1>4. \A j \in Slots : IsMatch(j, k)' <=> j = i
  BY <1>2, <1>3 DEF IsMatch, First, rules_equal, Slots
<1>5. (CHOOSE j \in Slots : IsMatch(j, k)') = i
  BY <1>4
<1> QED
  BY <1>2, <1>4, <1>5 DEF Lookup

(* After a SET that succeeds, its port and protocol have the class that it *)
(* named, for every number of slots, keys and classes, and after any       *)
(* history of commands.                                                    *)
THEOREM SetDecides == Spec => SetWins
<1>1. TypeOK /\ [Next]_vars =>
        [\A c \in TClass, k \in Keys : wharf_set_rule(c, k) => Lookup(k)' = c]_vars
  BY SetTakesFirstMatch
<1> QED
  BY <1>1, RulesTyped, PTL DEF Spec, SetWins

-----------------------------------------------------------------------------
(* Classes. *)

(* The classes that the tables name are classes that were defined. *)
NamesDefined ==
    /\ \A i \in Slots : rules[i].active => rules[i].tclass \in defined \cup {TCLASS_NULL}
    /\ default_tclass \in defined \cup {TCLASS_NULL}
    /\ \A c \in Classes : tclasses[c] # NoParams => c \in defined

(* Only one slot is the first one with a key. *)
LEMMA MatchIsUnique ==
    ASSUME NEW k, NEW i \in Slots, IsMatch(i, k)
    PROVE  Lookup(k) = IF rules[i].active THEN rules[i].tclass ELSE NoRule
<1>1. \A j \in Slots : IsMatch(j, k) <=> j = i
  BY DEF IsMatch, First, Slots
<1>2. (CHOOSE j \in Slots : IsMatch(j, k)) = i
  BY <1>1
<1> QED
  BY <1>1, <1>2 DEF Lookup

(* Commands name a class only while it is in the table of classes. *)
LEMMA NamesDefinedStep == TypeOK /\ NamesDefined /\ [Next]_vars => NamesDefined'
<1> SUFFICES ASSUME TypeOK, NamesDefined, [Next]_vars PROVE NamesDefined'
  OBVIOUS
<1>1. ASSUME NEW c \in Classes, NEW p \in Params, wharf_set_tclass(c, p) PROVE NamesDefined'
  BY <1>1 DEF TypeOK, NamesDefined, wharf_set_tclass
<1>2. ASSUME NEW c \in Classes, wharf_delete_tclass(c) PROVE NamesDefined'
  BY <1>2 DEF TypeOK, NamesDefined, wharf_delete_tclass
<1>3. ASSUME NEW c \in TClass, wharf_set_default_class(c) PROVE NamesDefined'
  BY <1>3 DEF TypeOK, NamesDefined, wharf_set_default_class, valid_tclass, TClass
<1>4. ASSUME NEW b \in BOOLEAN, wharf_set_enabled(b) PROVE NamesDefined'
  BY <1>4 DEF TypeOK, NamesDefined, wharf_set_enabled
<1>5. ASSUME NEW c \in TClass, NEW k \in Keys, wharf_set_rule(c, k) PROVE NamesDefined'
  <2>1. PICK i \in Slots :
          rules' = [rules EXCEPT ![i] = [key |-> k, tclass |-> c, active |-> TRUE]]
    BY <1>5 DEF wharf_set_rule
  <2>2. c \in defined \cup {TCLASS_NULL}
    BY <1>5 DEF NamesDefined, wharf_set_rule, valid_tclass, TClass
  <2> QED
    BY <1>5, <2>1, <2>2 DEF TypeOK, NamesDefined, wharf_set_rule
<1>6. ASSUME NEW c \in TClass, NEW k \in Keys, wharf_delete_rule(c, k) PROVE NamesDefined'
  <2>1. PICK i \in Slots : rules' = [rules EXCEPT ![i].active = FALSE]
    BY <1>6 DEF wharf_delete_rule
  <2>2. \A j \in Slots : rules'[j].active =>
            rules[j].active /\ rules'[j].tclass = rules[j].tclass
    BY <2>1 DEF TypeOK, RuleEntry
  <2> QED
    BY <1>6, <2>2 DEF NamesDefined, wharf_delete_rule
<1>7. ASSUME UNCHANGED vars PROVE NamesDefined'
  BY <1>7 DEF NamesDefined, vars
<1> QED
  BY <1>1, <1>2, <1>3, <1>4, <1>5, <1>6, <1>7 DEF Next

(* A packet gets the class of an active rule, the default or none. *)
LEMMA QueryNamesDefined == NamesDefined => OnlyDefinedClasses
<1> SUFFICES ASSUME NamesDefined, NEW p \in Packet
             PROVE  wharf_query_packet(p) \in defined \cup {TCLASS_NULL}
  BY DEF OnlyDefinedClasses
<1>1. ASSUME NEW k PROVE Lookup(k) \in defined \cup {TCLASS_NULL, NoRule}
  <2>1. CASE \E i \in Slots : IsMatch(i, k) /\ rules[i].active
    <3>1. PICK i \in Slots : IsMatch(i, k) /\ rules[i].active
      BY <2>1
    <3> QED
      BY <3>1, MatchIsUnique DEF NamesDefined
  <2>2. CASE ~ \E i \in Slots : IsMatch(i, k) /\ rules[i].active
    BY <2>2 DEF Lookup
  <2> QED
    BY <2>1, <2>2
<1>2. default_tclass \in defined \cup {TCLASS_NULL}
  BY DEF NamesDefined
<1> QED
  BY <1>1, <1>2 DEF wharf_query_packet, wharf_query_rule

(* Whatever is set, replaced and deleted, and in whatever order, no packet *)
(* is given a class that was never defined.                                *)
THEOREM ClassesAreDefined == Spec => []OnlyDefinedClasses
<1>1. Init => NamesDefined
  BY DEF Init, NamesDefined
<1> QED
  BY <1>1, InitTyped, StepTyped, NamesDefinedStep, QueryNamesDefined, PTL DEF Spec

-----------------------------------------------------------------------------
(* The table of slots as a map. *)

(* As long as no rule was deleted, the active slots come first and have    *)
(* different keys.  The slot of a deleted rule is the first free one, and  *)
(* no other slot has its key.                                              *)
SlotsAreMap ==
    /\ \A i \in Slots : ~rules[i].active /\ rules[i].key # ZeroKey =>
         /\ deletes > 0
         /\ \A j \in Slots : j # i => rules[j].key # rules[i].key
         /\ \A j \in Slots : j < i => rules[j].active
    /\ deletes = 0 => \A i, j \in Slots : rules[j].active /\ i < j =>
         rules[i].active /\ rules[i].key # rules[j].key

(* SET takes a free slot, or one that has its key. *)
LEMMA SetSlot ==
    ASSUME TypeOK, NEW c \in TClass, NEW k \in Keys, wharf_set_rule(c, k)
    PROVE  \E i \in Slots :
             /\ rules[i].key = k \/ ~rules[i].active
             /\ \A j \in Slots : j < i => rules[j].key # k /\ rules[j].active
             /\ rules'[i].key = k /\ rules'[i].active /\ rules'[i].tclass = c
             /\ \A j \in Slots : j # i => rules'[j] = rules[j]
<1>1. PICK i \in Slots :
        /\ IsSlotFor(i, k)
        /\ rules' = [rules EXCEPT ![i] = [key |-> k, tclass |-> c, active |-> TRUE]]
  BY DEF wharf_set_rule
<1>2. /\ rules[i].key = k \/ ~rules[i].active
      /\ \A j \in Slots : j < i => rules[j].key # k /\ rules[j].active
  BY <1>1 DEF IsSlotFor, First, rules_equal
<1>3. /\ rules'[i].key = k /\ rules'[i].active /\ rules'[i].tclass = c
      /\ \A j \in Slots : j # i => rules'[j] = rules[j]
  BY <1>1 DEF TypeOK
<1> QED
  BY <1>2, <1>3

(* DEL frees the slot of a rule, which keeps its key. *)
LEMMA DeletedSlot ==
    ASSUME TypeOK, NEW c \in TClass, NEW k \in Keys, wharf_delete_rule(c, k)
    PROVE  \E i \in Slots :
             /\ rules[i].key = k /\ rules[i].active /\ rules[i].tclass = c
             /\ rules'[i].key = k /\ ~rules'[i].active
             /\ \A j \in Slots : j # i => rules'[j] = rules[j]
<1>1. PICK i \in Slots : /\ IsRule(i, c, k)
                         /\ rules' = [rules EXCEPT ![i].active = FALSE]
  BY DEF wharf_delete_rule
<1>2. rules[i].key = k /\ rules[i].active /\ rules[i].tclass = c
  BY <1>1 DEF IsRule, First, rules_equal
<1>3. /\ rules'[i].key = k /\ ~rules'[i].active
      /\ \A j \in Slots : j # i => rules'[j] = rules[j]
  BY <1>1, <1>2 DEF TypeOK, RuleEntry
<1> QED
  BY <1>2, <1>3

(* The slots stay a map until a second rule is deleted. *)
LEMMA SlotsAreMapStep ==
    ASSUME MaxDeletes <= 1, TypeOK, SlotsAreMap, [Next]_vars
    PROVE  SlotsAreMap'
<1>1. ASSUME NEW c \in TClass, NEW k \in Keys, wharf_set_rule(c, k) PROVE SlotsAreMap'
  <2>1. deletes' = deletes
    BY <1>1 DEF wharf_set_rule
  <2>2. PICK s \in Slots :
          /\ rules[s].key = k \/ ~rules[s].active
          /\ \A j \in Slots : j < s => rules[j].key # k /\ rules[j].active
          /\ rules'[s].key = k /\ rules'[s].active /\ rules'[s].tclass = c
          /\ \A j \in Slots : j # s => rules'[j] = rules[j]
    BY <1>1, SetSlot
  <2>3. ASSUME NEW i \in Slots, ~rules'[i].active, rules'[i].key # ZeroKey
        PROVE  /\ deletes' > 0
               /\ \A j \in Slots : j # i => rules'[j].key # rules'[i].key
               /\ \A j \in Slots : j < i => rules'[j].active
    <3>1. i # s /\ rules'[i] = rules[i]
      BY <2>2, <2>3
    <3>2. /\ deletes > 0
          /\ \A j \in Slots : j # i => rules[j].key # rules[i].key
          /\ \A j \in Slots : j < i => rules[j].active
      BY <2>3, <3>1 DEF SlotsAreMap
    <3>3. rules[i].key # k
      BY <2>2, <3>1, <3>2 DEF Slots
    <3> QED
      BY <2>1, <2>2, <3>1, <3>2, <3>3
  <2>4. ASSUME deletes' = 0, NEW i \in Slots, NEW j \in Slots, rules'[j].active, i < j
        PROVE  rules'[i].active /\ rules'[i].key # rules'[j].key
    <3>1. \A l \in Slots : ~rules[l].active => rules[l].key = ZeroKey
      BY <2>1, <2>4 DEF SlotsAreMap
    <3>2. CASE j = s
      BY <2>2, <2>4, <3>2 DEF Slots
    <3>3. CASE j # s
      <4>1. rules[j].active /\ rules[i].active /\ rules[i].key # rules[j].key
        BY <2>1, <2>2, <2>4, <3>3 DEF SlotsAreMap
      <4>2. CASE i # s
        BY <2>2, <3>3, <4>1, <4>2
      <4>3. CASE i = s
        BY <2>2, <3>3, <4>1, <4>3
      <4> QED
        BY <4>2, <4>3
    <3> QED
      BY <3>2, <3>3
  <2> QED
    BY <2>3, <2>4 DEF SlotsAreMap
<1>2. ASSUME NEW c \in TClass, NEW k \in Keys, wharf_delete_rule(c, k) PROVE SlotsAreMap'
  <2>1. deletes = 0 /\ deletes' = 1
    BY <1>2, RulesAssumption DEF wharf_delete_rule, TypeOK
  <2>2. PICK s \in Slots :
          /\ rules[s].key = k /\ rules[s].active /\ rules[s].tclass = c
          /\ rules'[s].key = k /\ ~rules'[s].active
          /\ \A j \in Slots : j # s => rules'[j] = rules[j]
    BY <1>2, DeletedSlot
  <2>3. k # ZeroKey
    BY RulesAssumption
  <2>4. \A i \in Slots : ~rules[i].active => rules[i].key = ZeroKey
    BY <2>1 DEF SlotsAreMap
  <2>5. \A i, j \in Slots : rules[j].active /\ i < j =>
          rules[i].active /\ rules[i].key # rules[j].key
    BY <2>1 DEF SlotsAreMap
  <2>6. ASSUME NEW i \in Slots, ~rules'[i].active, rules'[i].key # ZeroKey
        PROVE  /\ \A j \in Slots : j # i => rules'[j].key # rules'[i].key
               /\ \A j \in Slots : j < i => rules'[j].active
    <3>1. i = s
      BY <2>2, <2>4, <2>6
    <3>2. \A j \in Slots : j # s => rules[j].key # k
      BY <2>2, <2>3, <2>4, <2>5 DEF Slots
    <3>3. \A j \in Slots : j < s => rules[j].active /\ j # s
      BY <2>2, <2>5 DEF Slots
    <3> QED
      BY <2>2, <3>1, <3>2, <3>3
  <2> QED
    BY <2>1, <2>6 DEF SlotsAreMap
<1>3. CASE UNCHANGED <<rules, deletes>>
  BY <1>3 DEF SlotsAreMap
<1> QED
  BY <1>1, <1>2, <1>3
     DEF Next, vars, wharf_set_tclass, wharf_delete_tclass, wharf_set_default_class,
         wharf_set_enabled

(* Slots that do not have the key, before and after, do not count. *)
LEMMA LookupUnchanged ==
    ASSUME NEW k, NEW s \in Slots, rules[s].key # k, rules'[s].key # k,
           \A j \in Slots : j # s => rules'[j] = rules[j]
    PROVE  Lookup(k)' = Lookup(k)
<1>1. \A j \in Slots : (rules'[j].key = k) <=> (rules[j].key = k)
  OBVIOUS
<1>2. \A j \in Slots : IsMatch(j, k)' <=> IsMatch(j, k)
  BY <1>1 DEF IsMatch, First, rules_equal
<1>3. \A j \in Slots : IsMatch(j, k) => rules'[j] = rules[j]
  BY DEF IsMatch, First, rules_equal
<1>4. CASE \E i \in Slots : IsMatch(i, k)
  <2>1. PICK i \in Slots : IsMatch(i, k)
    BY <1>4
  <2>2. \A j \in Slots : IsMatch(j, k) <=> j = i
    BY <2>1 DEF IsMatch, First, Slots
  <2>3. (CHOOSE j \in Slots : IsMatch(j, k)) = i /\ (CHOOSE j \in Slots : IsMatch(j, k)') = i
    BY <1>2, <2>2
  <2> QED
    BY <1>2, <1>3, <2>1, <2>2, <2>3 DEF Lookup
<1>5. CASE ~ \E i \in Slots : IsMatch(i, k)
  BY <1>2, <1>5 DEF Lookup
<1> QED
  BY <1>4, <1>5

(* A SET changes the rule it names and no other: the slot that it takes    *)
(* over from a deleted rule is the only one with that rule's key.          *)
LEMMA SetRefines ==
    ASSUME TypeOK, SlotsAreMap, NEW c \in TClass, NEW k \in Keys, wharf_set_rule(c, k),
           NEW m \in Keys, m # k
    PROVE  Lookup(m)' = Lookup(m)
<1>1. PICK s \in Slots :
        /\ rules[s].key = k \/ ~rules[s].active
        /\ \A j \in Slots : j < s => rules[j].key # k /\ rules[j].active
        /\ rules'[s].key = k /\ rules'[s].active /\ rules'[s].tclass = c
        /\ \A j \in Slots : j # s => rules'[j] = rules[j]
  BY SetSlot
<1>2. CASE rules[s].key # m
  BY <1>1, <1>2, LookupUnchanged
<1>3. CASE rules[s].key = m
  <2>1. ~rules[s].active /\ rules[s].key # ZeroKey
    BY <1>1, <1>3, RulesAssumption
  <2>2. \A j \in Slots : j # s => rules[j].key # m
    BY <1>3, <2>1 DEF SlotsAreMap
  <2>3. Lookup(m) = NoRule
    <3>1. IsMatch(s, m)
      BY <1>3, <2>2 DEF IsMatch, First, rules_equal, Slots
    <3> QED
      BY <2>1, <3>1, MatchIsUnique
  <2>4. \A j \in Slots : rules'[j].key # m
    BY <1>1, <2>2
  <2>5. Lookup(m)' = NoRule
    BY <2>4 DEF Lookup, IsMatch, First, rules_equal
  <2> QED
    BY <2>3, <2>5
<1> QED
  BY <1>2, <1>3

(* The first DEL takes its rule away and leaves the others. *)
LEMMA DeleteRefines ==
    ASSUME TypeOK, SlotsAreMap, deletes = 0,
           NEW c \in TClass, NEW k \in Keys, wharf_delete_rule(c, k)
    PROVE  /\ Lookup(k) = c /\ Lookup(k)' = NoRule
           /\ \A m \in Keys : m # k => Lookup(m)' = Lookup(m)
<1>1. PICK s \in Slots :
        /\ rules[s].key = k /\ rules[s].active /\ rules[s].tclass = c
        /\ rules'[s].key = k /\ ~rules'[s].active
        /\ \A j \in Slots : j # s => rules'[j] = rules[j]
  BY DeletedSlot
<1>2. \A j \in Slots : j < s => rules[j].key # k
  BY <1>1 DEF SlotsAreMap
<1>3. IsMatch(s, k)
  BY <1>1, <1>2 DEF IsMatch, First, rules_equal
<1>4. Lookup(k) = c
  BY <1>1, <1>3, MatchIsUnique
<1>5. \A j \in Slots : IsMatch(j, k)' <=> j = s
  BY <1>1, <1>2 DEF IsMatch, First, rules_equal, Slots
<1>6. Lookup(k)' = NoRule
  BY <1>1, <1>5 DEF Lookup
<1>7. ASSUME NEW m \in Keys, m # k PROVE Lookup(m)' = Lookup(m)
  BY <1>1, <1>7, LookupUnchanged
<1> QED
  BY <1>4, <1>6, <1>7

(* The map that the slots stand for. *)
Rules == [k \in Keys |-> Lookup(k)]

(* Every command is a step of the map, or leaves it alone. *)
LEMMA StepRefines ==
    ASSUME MaxDeletes <= 1, TypeOK, SlotsAreMap, [Next]_vars
    PROVE  Table!Next \/ Rules' = Rules
<1>1. ASSUME NEW c \in TClass, NEW k \in Keys, wharf_set_rule(c, k) PROVE Table!Next
  <2>1. Lookup(k)' = c /\ \A m \in Keys : m # k => Lookup(m)' = Lookup(m)
    BY <1>1, SetTakesFirstMatch, SetRefines
  <2>2. Table!Set(k, c)
    BY <2>1 DEF Table!Set
  <2> QED
    BY <2>2 DEF Table!Next
<1>2. ASSUME NEW c \in TClass, NEW k \in Keys, wharf_delete_rule(c, k) PROVE Table!Next
  <2>1. deletes = 0
    BY <1>2, RulesAssumption DEF wharf_delete_rule, TypeOK
  <2>2. /\ Lookup(k) = c /\ Lookup(k)' = NoRule
        /\ \A m \in Keys : m # k => Lookup(m)' = Lookup(m)
    BY <1>2, <2>1, DeleteRefines
  <2>3. c # NoRule
    BY RulesAssumption DEF TClass
  <2>4. Table!Delete(k)
    BY <2>2, <2>3 DEF Table!Delete
  <2> QED
    BY <2>4 DEF Table!Next
<1>3. ASSUME UNCHANGED rules PROVE Rules' = Rules
  BY <1>3 DEF Rules, Lookup, IsMatch, First, rules_equal
<1> QED
  BY <1>1, <1>2, <1>3
     DEF Next, vars, wharf_set_tclass, wharf_delete_tclass, wharf_set_default_class,
         wharf_set_enabled

(* If at most one rule is ever deleted, the table of slots behaves like a  *)
(* map from ports and protocols to classes, for any number of slots, keys  *)
(* and classes, and whatever slots are used again.                         *)
THEOREM SlotsImplementTable ==
    ASSUME MaxDeletes <= 1
    PROVE  Spec => ImplementsTable
<1>1. ASSUME Init PROVE SlotsAreMap /\ Table!Init
  <2>1. \A i \in Slots : rules[i].key = ZeroKey /\ ~rules[i].active
    BY <1>1 DEF Init
  <2>2. SlotsAreMap
    BY <2>1 DEF SlotsAreMap
  <2>3. ASSUME NEW k \in Keys PROVE Lookup(k) = NoRule
    <3>1. \A i \in Slots : rules[i].key # k
      BY <2>1, RulesAssumption
    <3> QED
      BY <3>1 DEF Lookup, IsMatch, First, rules_equal
  <2>4. Table!Init
    BY <2>3 DEF Table!Init
  <2> QED
    BY <2>2, <2>4
<1>2. TypeOK /\ SlotsAreMap /\ [Next]_vars => SlotsAreMap'
  BY SlotsAreMapStep
<1>3. TypeOK /\ SlotsAreMap /\ [Next]_vars => [Table!Next]_Rules
  BY StepRefines
<1> QED
  BY <1>1, <1>2, <1>3, InitTyped, StepTyped, PTL DEF Spec, ImplementsTable, Table!Spec, Rules
=============================================================================
