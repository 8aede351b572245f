-------------------------- MODULE ForwardingProofs --------------------------
(***************************************************************************)
(* Theorems about Forwarding, for any uplinks with ids of six bits, any    *)
(* configurations and any number of packets under way.                     *)
(*                                                                         *)
(* The argument.  The guards of plan.rs are always installed and each      *)
(* precedes the rules of the next class, so the class of a packet's field  *)
(* tells which tables it can be routed by (Deciding): a packet with a path *)
(* value only by that path's table or by main, a probe not even by main,   *)
(* and so on.  The field is a byte and rules compare its bits under masks; *)
(* the first lemmas say what a match tells about the value.  A packet      *)
(* keeps the field that it entered with, and the assigned path of a        *)
(* connection never changes, so a packet that entered after the assignment *)
(* can be told to have the value of the path however many steps of the     *)
(* daemon lie between its marking, its routing and its leaving: this is    *)
(* PacketOK, which makes the invariant inductive.                          *)
(***************************************************************************)
EXTENDS Forwarding, WellFoundedInduction, TLAPS

USE ZenonT(60)

-----------------------------------------------------------------------------
(* Marks and rules.                                                        *)

\* Which bits a value has, and that a remainder of 2 is a bit.
HasBits(v) ==
  /\ Bits[v] \subseteq 0..7
  /\ 0 \in Bits[v] <=> v % 2 = 1
  /\ 1 \in Bits[v] <=> (v \div 2) % 2 = 1
  /\ 2 \in Bits[v] <=> (v \div 4) % 2 = 1
  /\ 3 \in Bits[v] <=> (v \div 8) % 2 = 1
  /\ 4 \in Bits[v] <=> (v \div 16) % 2 = 1
  /\ 5 \in Bits[v] <=> (v \div 32) % 2 = 1
  /\ 6 \in Bits[v] <=> (v \div 64) % 2 = 1
  /\ 7 \in Bits[v] <=> (v \div 128) % 2 = 1

\* The bits of a value of the field, each by its division.
LEMMA BitsOf ==
  ASSUME NEW v \in 0..255
  PROVE  HasBits(v)
<1>1. Bits[v] = {k \in 0..7 : (v \div 2^k) % 2 = 1}
  BY DEF Bits
<1>2. 2^0 = 1 /\ 2^1 = 2 /\ 2^2 = 4 /\ 2^3 = 8 /\ 2^4 = 16 /\ 2^5 = 32 /\ 2^6 = 64 /\ 2^7 = 128
  BY SMTT(60)
<1>3. v \div 1 = v
  BY SMTT(60)
<1> QED BY <1>1, <1>2, <1>3, SMTT(60) DEF HasBits

\* A value from its bits, the highest first.
LEMMA BitByBit ==
  ASSUME NEW v \in Nat, v <= 255
  PROVE  /\ v \div 128 = (v \div 128) % 2
         /\ v \div 64 = 2 * (v \div 128) + ((v \div 64) % 2)
         /\ v \div 32 = 2 * (v \div 64) + ((v \div 32) % 2)
         /\ v \div 16 = 2 * (v \div 32) + ((v \div 16) % 2)
         /\ v \div 8 = 2 * (v \div 16) + ((v \div 8) % 2)
         /\ v \div 4 = 2 * (v \div 8) + ((v \div 4) % 2)
         /\ v \div 2 = 2 * (v \div 4) + ((v \div 2) % 2)
         /\ v = 2 * (v \div 2) + (v % 2)
<1>1. v \div 128 = (v \div 128) % 2
  BY SMTT(60)
<1>2. v \div 64 = 2 * (v \div 128) + ((v \div 64) % 2)
  BY SMTT(60)
<1>3. v \div 32 = 2 * (v \div 64) + ((v \div 32) % 2)
  BY SMTT(60)
<1>4. v \div 16 = 2 * (v \div 32) + ((v \div 16) % 2)
  BY SMTT(60)
<1>5. v \div 8 = 2 * (v \div 16) + ((v \div 8) % 2)
  BY SMTT(60)
<1>6. v \div 4 = 2 * (v \div 8) + ((v \div 4) % 2)
  BY SMTT(60)
<1>7. v \div 2 = 2 * (v \div 4) + ((v \div 2) % 2)
  BY SMTT(60)
<1>8. v = 2 * (v \div 2) + (v % 2)
  BY SMTT(60)
<1> QED BY <1>1, <1>2, <1>3, <1>4, <1>5, <1>6, <1>7, <1>8

\* The same remainders, the same value.
LEMMA BitsDetermine ==
  ASSUME NEW v \in Nat, NEW w \in Nat, v <= 255, w <= 255,
         v % 2 = w % 2, (v \div 2) % 2 = (w \div 2) % 2,
         (v \div 4) % 2 = (w \div 4) % 2, (v \div 8) % 2 = (w \div 8) % 2,
         (v \div 16) % 2 = (w \div 16) % 2, (v \div 32) % 2 = (w \div 32) % 2,
         (v \div 64) % 2 = (w \div 64) % 2, (v \div 128) % 2 = (w \div 128) % 2
  PROVE  v = w
<1>1. v \div 128 = w \div 128
  BY SMTT(60)
<1>2. v \div 64 = w \div 64
  BY <1>1, BitByBit, SMTT(60)
<1>3. v \div 32 = w \div 32
  BY <1>2, BitByBit, SMTT(60)
<1>4. v \div 16 = w \div 16
  BY <1>3, BitByBit, SMTT(60)
<1>5. v \div 8 = w \div 8
  BY <1>4, BitByBit, SMTT(60)
<1>6. v \div 4 = w \div 4
  BY <1>5, BitByBit, SMTT(60)
<1>7. v \div 2 = w \div 2
  BY <1>6, BitByBit, SMTT(60)
<1> QED BY <1>7, BitByBit, SMTT(60)

\* Two values with the same bits are the same value.
LEMMA BitsDiffer ==
  ASSUME NEW v \in 0..255, NEW w \in 0..255, Bits[v] = Bits[w]
  PROVE  v = w
<1>1. /\ v % 2 = w % 2 /\ (v \div 2) % 2 = (w \div 2) % 2 
      /\ (v \div 4) % 2 = (w \div 4) % 2 /\ (v \div 8) % 2 = (w \div 8) % 2
      /\ (v \div 16) % 2 = (w \div 16) % 2 /\ (v \div 32) % 2 = (w \div 32) % 2
      /\ (v \div 64) % 2 = (w \div 64) % 2 /\ (v \div 128) % 2 = (w \div 128) % 2
  <2>1. HasBits(v) /\ HasBits(w)
    BY BitsOf
  <2> QED BY <2>1, SMTT(60) DEF HasBits
<1>2. v \in Nat /\ v <= 255 /\ w \in Nat /\ w <= 255
  BY SMTT(60)
<1> QED BY <1>1, <1>2, BitsDetermine, SMTT(60)

\* The two high bits are the class of a value.
LEMMA HighBitsOf ==
  ASSUME NEW v \in 0..255
  PROVE  /\ v < 64 => Bits[v] \cap HighBits = {}
         /\ v >= 64 /\ v < 128 => Bits[v] \cap HighBits = {6}
         /\ v >= 128 /\ v < 192 => Bits[v] \cap HighBits = {7}
         /\ v >= 192 => Bits[v] \cap HighBits = {6, 7}
<1>1. /\ v < 64 => (v \div 64) % 2 = 0 /\ (v \div 128) % 2 = 0
      /\ v >= 64 /\ v < 128 => (v \div 64) % 2 = 1 /\ (v \div 128) % 2 = 0
      /\ v >= 128 /\ v < 192 => (v \div 64) % 2 = 0 /\ (v \div 128) % 2 = 1
      /\ v >= 192 => (v \div 64) % 2 = 1 /\ (v \div 128) % 2 = 1
  BY SMTT(60)
<1>2. HasBits(v)
  BY BitsOf
<1>3. /\ 6 \in Bits[v] <=> (v \div 64) % 2 = 1
      /\ 7 \in Bits[v] <=> (v \div 128) % 2 = 1
  BY <1>2 DEF HasBits
<1>4. /\ v < 64 => ~(6 \in Bits[v]) /\ ~(7 \in Bits[v])
      /\ v >= 64 /\ v < 128 => 6 \in Bits[v] /\ ~(7 \in Bits[v])
      /\ v >= 128 /\ v < 192 => ~(6 \in Bits[v]) /\ 7 \in Bits[v]
      /\ v >= 192 => 6 \in Bits[v] /\ 7 \in Bits[v]
  BY <1>1, <1>3, SMTT(60)
<1> QED BY <1>4, SMTT(60) DEF HighBits

\* A path value has at least one of the six low bits: some path guard matches it.
LEMMA PathHasBit ==
  ASSUME NEW u \in 1..63
  PROVE  \E k \in 0..5 : Bits[u] \cap (HighBits \cup {k}) = {k}
<1>1. \E k \in 0..5 : k \in Bits[u]
  <2>1. u % 2 = 1 \/ (u \div 2) % 2 = 1 \/ (u \div 4) % 2 = 1 \/ (u \div 8) % 2 = 1 \/ (u \div 16) % 2 = 1 \/ (u \div 32) % 2 = 1
    BY SMTT(60)
  <2>2. HasBits(u)
    BY BitsOf, SMTT(60)
  <2> QED BY <2>1, <2>2, SMTT(60) DEF HasBits
<1>2. Bits[u] \cap HighBits = {}
  BY HighBitsOf, SMTT(60)
<1> QED BY <1>1, <1>2

\* A packet without a mark has no bits.
LEMMA BitsOfZero == Bits[0] = {}
<1>1. Bits[0] \subseteq 0..7 /\ \A k \in 0..7 : ~(k \in Bits[0])
  <2>1. 0 % 2 = 0 /\ 0 \div 2 = 0 /\ 0 \div 4 = 0 /\ 0 \div 8 = 0 /\ 0 \div 16 = 0 /\ 0 \div 32 = 0 /\ 0 \div 64 = 0 /\ 0 \div 128 = 0
    BY SMTT(60)
  <2>2. HasBits(0)
    BY BitsOf, SMTT(60)
  <2> QED BY <2>1, <2>2, SMTT(60) DEF HasBits
<1> QED BY <1>1

-----------------------------------------------------------------------------
(* Rules.                                                                  *)

\* The field values of the classes, per uplink (mark.rs).
LEMMA Values ==
  ASSUME NEW u \in UplinkIds
  PROVE  /\ FieldValue("path", u) = u
         /\ FieldValue("probe", u) = 64 + u
         /\ FieldValue("balance", u) = 128 + u
         /\ FieldValue("block", u) = 192 + u
         /\ ClassBits("probe") = 64 /\ ClassBits("block") = 192
BY SMTT(60) DEF FieldValue, ClassBits, UplinkIds

\* The value of a policy has the high bit, so it is no path's and no probe's.
LEMMA PolicyValues ==
  ASSUME NEW u \in UplinkIds, NEW fallback \in {"balance", "block"}
  PROVE  FieldValue(fallback, u) \in 0..255 /\ FieldValue(fallback, u) >= 128
BY Values, SMTT(60) DEF UplinkIds

\* The bits of the classes that guards compare.
LEMMA ClassValues ==
  /\ Bits[ClassBits("probe")] = {6}
  /\ Bits[ClassBits("block")] = {6, 7}
<1>1. 64 \in 0..255 /\ 192 \in 0..255 /\ ClassBits("probe") = 64 /\ ClassBits("block") = 192
  BY SMTT(60) DEF ClassBits
<1>2. HasBits(64) /\ HasBits(192)
  BY BitsOf, SMTT(60)
<1>3. Bits[64] \subseteq 0..7 /\ Bits[64] \cap 0..7 = {6}
  <2>1. /\ ~(0 \in Bits[64]) /\ ~(1 \in Bits[64]) /\ ~(2 \in Bits[64]) /\ ~(3 \in Bits[64])
        /\ ~(4 \in Bits[64]) /\ ~(5 \in Bits[64]) /\ 6 \in Bits[64] /\ ~(7 \in Bits[64])
    BY <1>2, SMTT(60) DEF HasBits
  <2> QED BY <1>2, <2>1, SMTT(60) DEF HasBits
<1>4. Bits[192] \subseteq 0..7 /\ Bits[192] \cap 0..7 = {6, 7}
  <2>1. /\ ~(0 \in Bits[192]) /\ ~(1 \in Bits[192]) /\ ~(2 \in Bits[192]) /\ ~(3 \in Bits[192])
        /\ ~(4 \in Bits[192]) /\ ~(5 \in Bits[192]) /\ 6 \in Bits[192] /\ 7 \in Bits[192]
    BY <1>2, SMTT(60) DEF HasBits
  <2> QED BY <1>2, <2>1, SMTT(60) DEF HasBits
<1> QED BY <1>1, <1>3, <1>4, SMTT(60)

Is(r, priority, mask, mark, from, lookup) ==
  /\ r.priority = PriorityBase + priority
  /\ r.mask = mask /\ r.mark = mark /\ r.from = from /\ r.table = lookup

Kernel ==
  /\ ruled \subseteq Ids /\ addressed \subseteq Ids /\ covered \in {0} \cup Ids
  /\ installed \in [Tables -> SUBSET Ids]
  /\ \A p \in Purposes, u \in Ids : installed[Table(p, u)] \subseteq {u}

\* What each rule does.
RuleOf(r) ==
  \/ \E u \in ruled :
       \/ Is(r, u, AllBits, Bits[64 + u], 0, Table("path", u))
       \/ Is(r, 200 + u, AllBits, Bits[u], 0, Table("path", u))
       \/ Is(r, 300 + u, AllBits, Bits[128 + u], 0, Table("balance", u))
       \/ Is(r, 400 + u, AllBits, Bits[192 + u], 0, Table("block", u))
  \/ \E u \in addressed :
       \/ Is(r, 500 + u, AllBits, {}, u, Table("path", u))
       \/ Is(r, 564, AllBits, {}, u, None)
  \/ Is(r, 64, HighBits, {6}, 0, None)
  \/ \E k \in 0..5 : Is(r, 264, HighBits \cup {k}, {k}, 0, None)
  \/ Is(r, 464, HighBits, {6, 7}, 0, None)
  \/ Is(r, 100, {}, {}, 0, Main)
  \/ Is(r, 600, {}, {}, 0, Table("balancing", 0))
  \/ Is(r, 699, {}, {}, 0, None)

\* An accepted priority base is a number.
LEMMA BaseIsNat == PriorityBase \in Nat
BY ForwardingAssumption, BoundsAssumption, SMTT(60) DEF accepts_priority_base

\* The four lookup rules of an uplink, with their priorities relative to the base.
LEMMA LookupRulesAre ==
  ASSUME NEW u \in UplinkIds, NEW r \in LookupRules(u)
  PROVE  \/ Is(r, u, AllBits, Bits[64 + u], 0, Table("path", u))
         \/ Is(r, 200 + u, AllBits, Bits[u], 0, Table("path", u))
         \/ Is(r, 300 + u, AllBits, Bits[128 + u], 0, Table("balance", u))
         \/ Is(r, 400 + u, AllBits, Bits[192 + u], 0, Table("block", u))
<1>1. CASE r = Rule("probe", u, AllBits, Bits[FieldValue("probe", u)], 0, Table("path", u))
  BY <1>1, BaseIsNat, Values, SMTT(60) DEF Rule, Priority, Is, UplinkIds
<1>2. CASE r = Rule("path", u, AllBits, Bits[FieldValue("path", u)], 0, Table("path", u))
  BY <1>2, BaseIsNat, Values, SMTT(60) DEF Rule, Priority, Is, UplinkIds
<1>3. CASE r = Rule("balance", u, AllBits, Bits[FieldValue("balance", u)], 0, Table("balance", u))
  BY <1>3, BaseIsNat, Values, SMTT(60) DEF Rule, Priority, Is, UplinkIds
<1>4. CASE r = Rule("block", u, AllBits, Bits[FieldValue("block", u)], 0, Table("block", u))
  BY <1>4, BaseIsNat, Values, SMTT(60) DEF Rule, Priority, Is, UplinkIds
<1> QED BY <1>1, <1>2, <1>3, <1>4, SMTT(60) DEF LookupRules

\* The source rule of an uplink's address and its guard.
LEMMA SourceRulesAre ==
  ASSUME NEW u \in UplinkIds, NEW r \in source_rules(u)
  PROVE  \/ Is(r, 500 + u, AllBits, {}, u, Table("path", u))
         \/ Is(r, 564, AllBits, {}, u, None)
<1>1. Is(Rule("source", u, AllBits, {}, u, Table("path", u)), 500 + u, AllBits, {}, u, Table("path", u))
  BY BaseIsNat, SMTT(60) DEF Rule, Priority, Is, UplinkIds
<1>2. Is(Rule("source guard", 0, AllBits, {}, u, None), 564, AllBits, {}, u, None)
  BY BaseIsNat, SMTT(60) DEF Rule, Priority, Is
<1> QED BY <1>1, <1>2 DEF source_rules

\* The path guards: one for each low bit, all at one priority.
LEMMA PathGuardsAre ==
  ASSUME NEW k \in 0..5
  PROVE  Is(Rule("path guard", 0, HighBits \cup {k}, {k}, 0, None), 264, HighBits \cup {k}, {k}, 0, None)
BY BaseIsNat, SMTT(60) DEF Rule, Priority, Is

\* The rules that do not depend on uplinks.
LEMMA OtherRulesAre ==
  /\ Is(Rule("probe guard", 0, HighBits, Bits[ClassBits("probe")], 0, None), 64, HighBits, {6}, 0, None)
  /\ Is(Rule("block guard", 0, HighBits, Bits[ClassBits("block")], 0, None), 464, HighBits, {6, 7}, 0, None)
  /\ Is(Rule("main bypass", 0, {}, {}, 0, Main), 100, {}, {}, 0, Main)
  /\ Is(Rule("balancing", 0, {}, {}, 0, Table("balancing", 0)), 600, {}, {}, 0, Table("balancing", 0))
  /\ Is(Rule("final guard", 0, {}, {}, 0, None), 699, {}, {}, 0, None)
BY BaseIsNat, ClassValues, SMTT(60) DEF Rule, Priority, Is

\* Every installed rule is one of these, with these priorities.
LEMMA RulesAre ==
  ASSUME Kernel, NEW r \in rules
  PROVE  RuleOf(r)
<1>1. CASE \E u \in ruled : r \in LookupRules(u)
  <2>1. PICK u \in ruled : r \in LookupRules(u)
    BY <1>1
  <2>2. u \in UplinkIds
    BY ForwardingAssumption DEF Kernel
  <2>3. \/ Is(r, u, AllBits, Bits[64 + u], 0, Table("path", u))
        \/ Is(r, 200 + u, AllBits, Bits[u], 0, Table("path", u))
        \/ Is(r, 300 + u, AllBits, Bits[128 + u], 0, Table("balance", u))
        \/ Is(r, 400 + u, AllBits, Bits[192 + u], 0, Table("block", u))
    BY <2>1, <2>2, LookupRulesAre
  <2> QED BY <2>3 DEF RuleOf
<1>2. CASE \E u \in addressed : r \in source_rules(u)
  <2>1. PICK u \in addressed : r \in source_rules(u)
    BY <1>2
  <2>2. u \in UplinkIds
    BY ForwardingAssumption DEF Kernel
  <2>3. \/ Is(r, 500 + u, AllBits, {}, u, Table("path", u))
        \/ Is(r, 564, AllBits, {}, u, None)
    BY <2>1, <2>2, SourceRulesAre
  <2> QED BY <2>3 DEF RuleOf
<1>3. CASE r \in PathGuards
  <2>1. \E k \in 0..5 : Is(r, 264, HighBits \cup {k}, {k}, 0, None)
    BY <1>3, PathGuardsAre DEF PathGuards
  <2> QED BY <2>1 DEF RuleOf
<1>4. CASE r = Rule("probe guard", 0, HighBits, Bits[ClassBits("probe")], 0, None)
  <2>1. Is(r, 64, HighBits, {6}, 0, None)
    BY <1>4, OtherRulesAre
  <2> QED BY <2>1 DEF RuleOf
<1>5. CASE r = Rule("block guard", 0, HighBits, Bits[ClassBits("block")], 0, None)
  <2>1. Is(r, 464, HighBits, {6, 7}, 0, None)
    BY <1>5, OtherRulesAre
  <2> QED BY <2>1 DEF RuleOf
<1>6. CASE r \in LastRules
  <2>1. \/ Is(r, 600, {}, {}, 0, Table("balancing", 0))
        \/ Is(r, 699, {}, {}, 0, None)
    BY <1>6, OtherRulesAre DEF LastRules
  <2> QED BY <2>1 DEF RuleOf
<1>7. CASE r = Rule("main bypass", 0, {}, {}, 0, Main)
  <2>1. Is(r, 100, {}, {}, 0, Main)
    BY <1>7, OtherRulesAre
  <2> QED BY <2>1 DEF RuleOf
<1>8. r \in UNION {LookupRules(u) : u \in ruled} => \E u \in ruled : r \in LookupRules(u)
  OBVIOUS
<1>9. r \in UNION {source_rules(u) : u \in addressed} => \E u \in addressed : r \in source_rules(u)
  OBVIOUS
<1> QED BY <1>1, <1>2, <1>3, <1>4, <1>5, <1>6, <1>7, <1>8, <1>9 DEF rules, Guards

-----------------------------------------------------------------------------
(* Routing decisions.                                                      *)

\* A nonempty set of rules has one with the lowest priority.
LEMMA FirstExists ==
  ASSUME NEW S, S # {}, \A r \in S : r.priority \in Nat
  PROVE  \E r \in S : \A q \in S : r.priority <= q.priority
<1> DEFINE T == {r.priority : r \in S}
<1>1. T \subseteq Nat /\ T # {}
  OBVIOUS
<1> DEFINE R == OpToRel(<, Nat)
<1>a. IsWellFoundedOn(R, Nat)
  BY NatLessThanWellFounded
<1>b. \A x, y \in Nat : y < x => <<y, x>> \in R
  BY DEF OpToRel
<1> HIDE DEF R, T
<1>2. PICK x \in T : \A y \in T : ~(<<y, x>> \in R)
  BY <1>1, <1>a, WFMin
<1>3. \A y \in T : x <= y
  <2> SUFFICES ASSUME NEW y \in T, ~(x <= y) PROVE FALSE
    OBVIOUS
  <2>1. x \in Nat /\ y \in Nat /\ y < x
    BY <1>1, SMTT(60)
  <2> QED BY <1>2, <1>b, <2>1
<1> QED BY <1>3 DEF T

\* Priorities are numbers.
LEMMA PriorityIsNat ==
  ASSUME Kernel, NEW r \in rules
  PROVE  r.priority \in Nat
<1>1. RuleOf(r)
  BY RulesAre
<1>2. \A u \in ruled \cup addressed : u \in Nat
  BY ForwardingAssumption, SMTT(60) DEF Kernel, UplinkIds
<1> QED BY <1>1, <1>2, BaseIsNat, SMTT(60) DEF RuleOf, Is

\* The rule r decides on the way w.
Gives(r, w) ==
  IF r.table = None THEN w = [via |-> "rejected", to |-> 0]
  ELSE \E u \in Nexthops(r.table) : w = [via |-> r.table.purpose, to |-> u]

\* What Routes gives is given by a deciding rule, and no deciding rule precedes that
\* one.
LEMMA RoutesBy ==
  ASSUME Kernel, NEW field, NEW from, NEW g \in rules, Decides(g, field, from),
         NEW w \in Routes(field, from)
  PROVE  \E r \in rules : /\ Decides(r, field, from) /\ r.priority <= g.priority
                          /\ \A q \in rules : Decides(q, field, from) => r.priority <= q.priority
                          /\ Gives(r, w)
<1> DEFINE deciding == {r \in rules : Decides(r, field, from)}
           first == CHOOSE r \in deciding : \A q \in deciding : r.priority <= q.priority
<1>1. g \in deciding
  OBVIOUS
<1>2. \E r \in deciding : \A q \in deciding : r.priority <= q.priority
  <2>1. deciding # {} /\ \A r \in deciding : r.priority \in Nat
    BY <1>1, PriorityIsNat
  <2> HIDE DEF deciding
  <2> QED BY <2>1, FirstExists
<1>3. first \in deciding /\ \A q \in deciding : first.priority <= q.priority
  <2> HIDE DEF deciding
  <2> QED BY <1>2
<1>4. Gives(first, w)
  <2>1. w \in IF deciding = {} THEN {[via |-> "default", to |-> 0]}
              ELSE IF first.table = None THEN {[via |-> "rejected", to |-> 0]}
              ELSE {[via |-> first.table.purpose, to |-> u] : u \in Nexthops(first.table)}
    BY DEF Routes
  <2>2. deciding # {}
    BY <1>1
  <2> HIDE DEF first, deciding
  <2> QED BY <2>1, <2>2 DEF Gives
<1> HIDE DEF first
<1> QED BY <1>1, <1>3, <1>4

\* The guards and the last rules are always installed.
LEMMA StaticRules ==
  /\ \E r \in rules : Is(r, 64, HighBits, {6}, 0, None)
  /\ \A k \in 0..5 : \E r \in rules : Is(r, 264, HighBits \cup {k}, {k}, 0, None)
  /\ \E r \in rules : Is(r, 464, HighBits, {6, 7}, 0, None)
  /\ \E r \in rules : Is(r, 699, {}, {}, 0, None)
<1>1. /\ Rule("probe guard", 0, HighBits, Bits[ClassBits("probe")], 0, None) \in rules
      /\ Rule("block guard", 0, HighBits, Bits[ClassBits("block")], 0, None) \in rules
      /\ Rule("final guard", 0, {}, {}, 0, None) \in rules
  BY DEF rules, Guards, LastRules
<1>2. \A k \in 0..5 : Rule("path guard", 0, HighBits \cup {k}, {k}, 0, None) \in rules
  BY DEF rules, Guards, PathGuards
<1>3. \E r \in rules : Is(r, 64, HighBits, {6}, 0, None)
  BY <1>1, OtherRulesAre
<1>4. \E r \in rules : Is(r, 464, HighBits, {6, 7}, 0, None)
  BY <1>1, OtherRulesAre
<1>5. \E r \in rules : Is(r, 699, {}, {}, 0, None)
  BY <1>1, OtherRulesAre
<1>6. \A k \in 0..5 : \E r \in rules : Is(r, 264, HighBits \cup {k}, {k}, 0, None)
  BY <1>2, PathGuardsAre
<1> QED BY <1>3, <1>4, <1>5, <1>6

\* The purpose and the id of a table.
LEMMA Purpose ==
  /\ None.purpose = "none" /\ Main.purpose = "main"
  /\ \A p, u : Table(p, u).purpose = p /\ Table(p, u).id = u
BY DEF None, Main, Table

\* What a rule's mask and mark tell about a value that it matches.
Marked(r, v, from) ==
  /\ r.from \in {0, from}
  /\ \A w \in 0..255 : r.mask = AllBits /\ r.mark = Bits[w] => v = w
  /\ r.mask = AllBits /\ r.mark = {} => v = 0
  /\ r.mask = HighBits /\ r.mark = {6} => v \in 64..127
  /\ r.mask = HighBits /\ r.mark = {6, 7} => v \in 192..255
  /\ \A k \in 0..5 : r.mask = HighBits \cup {k} /\ r.mark = {k} => v \in 1..63

\* What a matching rule says of the value that it matches.
LEMMA Marks ==
  ASSUME NEW v \in 0..255, NEW r, NEW from, Decides(r, v, from)
  PROVE  Marked(r, v, from)
<1>1. r.from \in {0, from} /\ Bits[v] \cap r.mask = r.mark
  BY DEF Decides
<1>2. Bits[v] \cap AllBits = Bits[v]
  BY BitsOf DEF HasBits, AllBits
<1>3. ASSUME NEW w \in 0..255, r.mask = AllBits, r.mark = Bits[w]
      PROVE  v = w
  <2>1. Bits[v] = Bits[w]
    BY <1>1, <1>2, <1>3
  <2> QED BY <2>1, BitsDiffer
<1>4. r.mask = AllBits /\ r.mark = {} => v = 0
  BY <1>3, BitsOfZero, SMTT(60)
<1>5. /\ r.mask = HighBits /\ r.mark = {6} => v \in 64..127
      /\ r.mask = HighBits /\ r.mark = {6, 7} => v \in 192..255
  <2>1. r.mask = HighBits => r.mark = Bits[v] \cap HighBits
    BY <1>1
  <2>2. {6} # {6, 7} /\ {6} # {7} /\ {6} # {} /\ {7} # {6, 7} /\ {} # {6, 7}
    BY SMTT(60)
  <2>3. /\ v < 64 => Bits[v] \cap HighBits = {}
        /\ v >= 64 /\ v < 128 => Bits[v] \cap HighBits = {6}
        /\ v >= 128 /\ v < 192 => Bits[v] \cap HighBits = {7}
        /\ v >= 192 => Bits[v] \cap HighBits = {6, 7}
    BY HighBitsOf
  <2>4. v < 64 \/ v \in 64..127 \/ (v >= 128 /\ v < 192) \/ v \in 192..255
    BY SMTT(60)
  <2>5. v \in 64..127 => v >= 64 /\ v < 128
    BY SMTT(60)
  <2>6. v \in 192..255 => v >= 192
    BY SMTT(60)
  <2> QED BY <2>1, <2>2, <2>3, <2>4, <2>5, <2>6, SMTT(60)
<1>6. ASSUME NEW k \in 0..5, r.mask = HighBits \cup {k}, r.mark = {k}
      PROVE  v \in 1..63
  <2>1. Bits[v] \cap HighBits = {} /\ k \in Bits[v]
    BY <1>1, <1>6, SMTT(60) DEF HighBits
  <2>2. {6} # {} /\ {7} # {} /\ {6, 7} # {}
    OBVIOUS
  <2>3. v < 64
    BY <2>1, <2>2, HighBitsOf, SMTT(60)
  <2>4. v # 0
    BY <2>1, BitsOfZero
  <2> QED BY <2>3, <2>4, SMTT(60)
<1>7. \A w \in 0..255 : r.mask = AllBits /\ r.mark = Bits[w] => v = w
  BY <1>3
<1>8. \A k \in 0..5 : r.mask = HighBits \cup {k} /\ r.mark = {k} => v \in 1..63
  BY <1>6
<1> QED BY <1>1, <1>4, <1>5, <1>7, <1>8 DEF Marked

\* The rules that decide on a value, by their place in the order.
Deciding(r, v, from) ==
  \/ \E u \in ruled :
       \/ v = 64 + u /\ r.priority = PriorityBase + u /\ r.table = Table("path", u)
       \/ v = u /\ r.priority = PriorityBase + (200 + u) /\ r.table = Table("path", u)
       \/ v = 128 + u /\ r.priority = PriorityBase + (300 + u) /\ r.table = Table("balance", u)
       \/ v = 192 + u /\ r.priority = PriorityBase + (400 + u) /\ r.table = Table("block", u)
  \/ \E u \in addressed :
       /\ v = 0 /\ from = u
       /\ \/ r.priority = PriorityBase + (500 + u) /\ r.table = Table("path", u)
          \/ r.priority = PriorityBase + 564 /\ r.table = None
  \/ v \in 64..127 /\ r.priority = PriorityBase + 64 /\ r.table = None
  \/ v \in 1..63 /\ r.priority = PriorityBase + 264 /\ r.table = None
  \/ v \in 192..255 /\ r.priority = PriorityBase + 464 /\ r.table = None
  \/ r.priority = PriorityBase + 100 /\ r.table = Main
  \/ r.priority = PriorityBase + 600 /\ r.table = Table("balancing", 0)
  \/ r.priority = PriorityBase + 699 /\ r.table = None

\* The rules that can decide a packet, by the value of its field.
LEMMA DecidingRules ==
  ASSUME Kernel, NEW v \in 0..255, NEW from, NEW r \in rules, Decides(r, v, from)
  PROVE  Deciding(r, v, from)
<1>1. \A u \in ruled \cup addressed :
        u \in 1..63 /\ u # 0 /\ u \in 0..255 /\ 64 + u \in 0..255 /\ 128 + u \in 0..255 /\ 192 + u \in 0..255
  BY ForwardingAssumption, SMTT(60) DEF Kernel, UplinkIds
<1>2. RuleOf(r)
  BY RulesAre
<1>3. Marked(r, v, from)
  BY Marks
<1>4. ASSUME NEW u \in ruled,
             \/ Is(r, u, AllBits, Bits[64 + u], 0, Table("path", u))
             \/ Is(r, 200 + u, AllBits, Bits[u], 0, Table("path", u))
             \/ Is(r, 300 + u, AllBits, Bits[128 + u], 0, Table("balance", u))
             \/ Is(r, 400 + u, AllBits, Bits[192 + u], 0, Table("block", u))
      PROVE  Deciding(r, v, from)
  <2>0. u \in 0..255 /\ 64 + u \in 0..255 /\ 128 + u \in 0..255 /\ 192 + u \in 0..255
    BY <1>1, SMTT(60)
  <2>1. CASE Is(r, u, AllBits, Bits[64 + u], 0, Table("path", u))
    <3>1. r.mask = AllBits /\ r.mark = Bits[64 + u]
      BY <2>1 DEF Is
    <3>2. v = 64 + u
      BY <1>3, <2>0, <3>1 DEF Marked
    <3>3. r.priority = PriorityBase + u /\ r.table = Table("path", u)
      BY <2>1 DEF Is
    <3> QED BY <3>2, <3>3 DEF Deciding
  <2>2. CASE Is(r, 200 + u, AllBits, Bits[u], 0, Table("path", u))
    <3>1. r.mask = AllBits /\ r.mark = Bits[u]
      BY <2>2 DEF Is
    <3>2. v = u
      BY <1>3, <2>0, <3>1 DEF Marked
    <3>3. r.priority = PriorityBase + (200 + u) /\ r.table = Table("path", u)
      BY <2>2 DEF Is
    <3> QED BY <3>2, <3>3 DEF Deciding
  <2>3. CASE Is(r, 300 + u, AllBits, Bits[128 + u], 0, Table("balance", u))
    <3>1. r.mask = AllBits /\ r.mark = Bits[128 + u]
      BY <2>3 DEF Is
    <3>2. v = 128 + u
      BY <1>3, <2>0, <3>1 DEF Marked
    <3>3. r.priority = PriorityBase + (300 + u) /\ r.table = Table("balance", u)
      BY <2>3 DEF Is
    <3> QED BY <3>2, <3>3 DEF Deciding
  <2>4. CASE Is(r, 400 + u, AllBits, Bits[192 + u], 0, Table("block", u))
    <3>1. r.mask = AllBits /\ r.mark = Bits[192 + u]
      BY <2>4 DEF Is
    <3>2. v = 192 + u
      BY <1>3, <2>0, <3>1 DEF Marked
    <3>3. r.priority = PriorityBase + (400 + u) /\ r.table = Table("block", u)
      BY <2>4 DEF Is
    <3> QED BY <3>2, <3>3 DEF Deciding
  <2> QED BY <1>4, <2>1, <2>2, <2>3, <2>4, SMTT(60)
<1>5. ASSUME NEW u \in addressed,
             \/ Is(r, 500 + u, AllBits, {}, u, Table("path", u))
             \/ Is(r, 564, AllBits, {}, u, None)
      PROVE  Deciding(r, v, from)
  <2>0. u # 0
    BY <1>1, SMTT(60)
  <2>1. CASE Is(r, 500 + u, AllBits, {}, u, Table("path", u))
    <3>1. r.mask = AllBits /\ r.mark = {} /\ r.from = u
      BY <2>1 DEF Is
    <3>2. v = 0 /\ from = u
      BY <1>3, <2>0, <3>1 DEF Marked
    <3>3. r.priority = PriorityBase + (500 + u) /\ r.table = Table("path", u)
      BY <2>1 DEF Is
    <3> QED BY <3>2, <3>3 DEF Deciding
  <2>2. CASE Is(r, 564, AllBits, {}, u, None)
    <3>0. r.mask = AllBits /\ r.mark = {} /\ r.from = u
      BY <2>2 DEF Is
    <3>1. v = 0 /\ from = u
      BY <1>3, <2>0, <3>0 DEF Marked
    <3>2. r.priority = PriorityBase + 564 /\ r.table = None
      BY <2>2 DEF Is
    <3> QED BY <3>1, <3>2, SMTT(60) DEF Deciding
  <2> QED BY <1>5, <2>1, <2>2, SMTT(60)
<1>6. ASSUME NEW k \in 0..5, Is(r, 264, HighBits \cup {k}, {k}, 0, None)
      PROVE  Deciding(r, v, from)
  <2>1. v \in 1..63
    BY <1>3, <1>6, SMTT(60) DEF Is, Marked
  <2>2. r.priority = PriorityBase + 264 /\ r.table = None
    BY <1>6 DEF Is
  <2> QED BY <2>1, <2>2 DEF Deciding
<1>7. CASE Is(r, 64, HighBits, {6}, 0, None)
  <2>1. r.mask = HighBits /\ r.mark = {6}
    BY <1>7 DEF Is
  <2>2. v \in 64..127
    BY <1>3, <2>1 DEF Marked
  <2>3. r.priority = PriorityBase + 64 /\ r.table = None
    BY <1>7 DEF Is
  <2> QED BY <2>2, <2>3 DEF Deciding
<1>8. CASE Is(r, 464, HighBits, {6, 7}, 0, None)
  <2>1. r.mask = HighBits /\ r.mark = {6, 7}
    BY <1>8 DEF Is
  <2>2. v \in 192..255
    BY <1>3, <2>1 DEF Marked
  <2>3. r.priority = PriorityBase + 464 /\ r.table = None
    BY <1>8 DEF Is
  <2> QED BY <2>2, <2>3 DEF Deciding
<1>9. CASE \/ Is(r, 100, {}, {}, 0, Main)
           \/ Is(r, 600, {}, {}, 0, Table("balancing", 0))
           \/ Is(r, 699, {}, {}, 0, None)
  <2>1. CASE Is(r, 100, {}, {}, 0, Main)
    <3>1. r.priority = PriorityBase + 100 /\ r.table = Main
      BY <2>1 DEF Is
    <3> QED BY <3>1 DEF Deciding
  <2>2. CASE Is(r, 600, {}, {}, 0, Table("balancing", 0))
    <3>1. r.priority = PriorityBase + 600 /\ r.table = Table("balancing", 0)
      BY <2>2 DEF Is
    <3> QED BY <3>1 DEF Deciding
  <2>3. CASE Is(r, 699, {}, {}, 0, None)
    <3>1. r.priority = PriorityBase + 699 /\ r.table = None
      BY <2>3 DEF Is
    <3> QED BY <3>1 DEF Deciding
  <2> QED BY <1>9, <2>1, <2>2, <2>3
<1> HIDE DEF Is, Deciding
<1> QED BY <1>2, <1>4, <1>5, <1>6, <1>7, <1>8, <1>9, SMTT(60) DEF RuleOf

\* None of the tables with routes is the one of a rule that rejects.
LEMMA TablesDiffer ==
  /\ Main # None /\ Main.purpose = "main"
  /\ \A u : \A p \in Purposes \cup {"balancing"} : Table(p, u) # None /\ Table(p, u) # Main /\ Table(p, u).purpose = p
BY DEF None, Main, Table, Purposes

\* Ids fit in the six low bits.
LEMMA UplinksAre ==
  ASSUME Kernel
  PROVE  /\ \A u \in Ids : u \in 1..63 /\ u \in UplinkIds
         /\ \A u \in ruled \cup addressed : u \in Ids /\ u \in 1..63
BY ForwardingAssumption DEF Kernel, UplinkIds

\* Main's route, if there is one, is an uplink's.
LEMMA MainHops ==
  ASSUME Kernel, NEW u \in Nexthops(Main)
  PROVE  u \in Ids /\ u = covered
BY DEF Nexthops, Kernel

\* A table of an uplink leads through that uplink only.
LEMMA TableHops ==
  ASSUME Kernel, NEW p \in Purposes, NEW id \in Ids, NEW u \in Nexthops(Table(p, id))
  PROVE  u = id /\ u \in installed[Table(p, id)]
<1>1. Table(p, id) # Main
  BY TablesDiffer
<1> QED BY <1>1 DEF Nexthops, Kernel

\* The balancing table leads through uplinks.
LEMMA BalancingHops ==
  ASSUME Kernel, NEW u \in Nexthops(Table("balancing", 0))
  PROVE  u \in Ids /\ u \in installed[Table("balancing", 0)]
<1>1. Table("balancing", 0) # Main /\ Table("balancing", 0) \in Tables
  BY TablesDiffer, SMTT(60) DEF Tables, Table
<1> QED BY <1>1 DEF Nexthops, Kernel

Rejected == [via |-> "rejected", to |-> 0]

\* The ways of any packet: an uplink, or none.
LEMMA AnyRoutes ==
  ASSUME Kernel, NEW v \in 0..255, NEW from, NEW w \in Routes(v, from)
  PROVE  \/ w = Rejected
         \/ /\ w.via \in Purposes \cup {"balancing", "main"} /\ w.to \in Ids
            /\ w = [via |-> w.via, to |-> w.to]
<1>1. PICK g \in rules : Is(g, 699, {}, {}, 0, None)
  BY StaticRules, SMTT(60)
<1>2. Decides(g, v, from)
  BY <1>1, SMTT(60) DEF Decides, Is
<1>3. PICK r \in rules : Decides(r, v, from) /\ Gives(r, w)
  BY <1>2, RoutesBy
<1>4. Deciding(r, v, from)
  BY <1>3, DecidingRules
<1>5. \/ r.table = None \/ r.table = Main \/ r.table = Table("balancing", 0)
      \/ \E p \in Purposes, id \in Ids : r.table = Table(p, id)
  BY <1>4, UplinksAre, SMTT(60) DEF Deciding, Purposes
<1>6. CASE r.table = None
  BY <1>3, <1>6 DEF Gives, Rejected
<1>7. CASE r.table # None
  <2>1. PICK u \in Nexthops(r.table) : w = [via |-> r.table.purpose, to |-> u]
    BY <1>3, <1>7 DEF Gives
  <2>2. w.via = r.table.purpose /\ w.to = u
    BY <2>1
  <2>3. CASE r.table = Main
    BY <2>1, <2>2, <2>3, MainHops, TablesDiffer
  <2>4. CASE r.table = Table("balancing", 0)
    BY <2>1, <2>2, <2>4, BalancingHops, TablesDiffer, SMTT(60)
  <2>5. CASE \E p \in Purposes, id \in Ids : r.table = Table(p, id)
    BY <2>1, <2>2, <2>5, TableHops, TablesDiffer, SMTT(60)
  <2> QED BY <1>5, <1>7, <2>3, <2>4, <2>5
<1> QED BY <1>6, <1>7

\* A packet with the value of a path: through the path, by main, or rejected.
LEMMA PathRoutes ==
  ASSUME Kernel, NEW v \in Ids, NEW from, NEW w \in Routes(v, from)
  PROVE  w = Rejected \/ w.via = "main" \/ w.to = v
<1>1. v \in 1..63 /\ v \in 0..255
  BY UplinksAre, SMTT(60)
<1>2. PICK k \in 0..5 : Bits[v] \cap (HighBits \cup {k}) = {k}
  BY <1>1, PathHasBit
<1>3. PICK g \in rules : Is(g, 264, HighBits \cup {k}, {k}, 0, None)
  <2>1. \A i \in 0..5 : \E g \in rules : Is(g, 264, HighBits \cup {i}, {i}, 0, None)
    BY StaticRules
  <2> QED BY <2>1
<1>4. Decides(g, v, from) /\ g.priority = PriorityBase + 264
  BY <1>2, <1>3 DEF Decides, Is
<1>5. PICK r \in rules : Decides(r, v, from) /\ r.priority <= g.priority /\ Gives(r, w)
  BY <1>4, RoutesBy, SMTT(60)
<1>6. Deciding(r, v, from)
  BY <1>1, <1>5, DecidingRules
<1>7. r.table = None \/ r.table = Main \/ r.table = Table("path", v)
  BY <1>1, <1>4, <1>5, <1>6, UplinksAre, BaseIsNat, SMTT(60) DEF Deciding
<1> QED BY <1>5, <1>7, TablesDiffer, TableHops, SMTT(60) DEF Gives, Rejected, Purposes

\* A packet with the value of a policy that blocks.
LEMMA BlockRoutes ==
  ASSUME Kernel, NEW v \in Ids, NEW from, NEW w \in Routes(192 + v, from)
  PROVE  w = Rejected \/ w.via = "main" \/ w.to = v
<1>1. v \in 1..63 /\ 192 + v \in 0..255 /\ 192 + v >= 192
  BY UplinksAre, SMTT(60)
<1>2. Bits[192 + v] \cap HighBits = {6, 7}
  BY <1>1, HighBitsOf, SMTT(60)
<1>3. PICK g \in rules : Is(g, 464, HighBits, {6, 7}, 0, None)
  BY StaticRules
<1>4. Decides(g, 192 + v, from) /\ g.priority = PriorityBase + 464
  BY <1>2, <1>3, SMTT(60) DEF Decides, Is
<1>5. PICK r \in rules : Decides(r, 192 + v, from) /\ r.priority <= g.priority /\ Gives(r, w)
  BY <1>4, RoutesBy, SMTT(60)
<1>6. Deciding(r, 192 + v, from)
  BY <1>1, <1>5, DecidingRules, SMTT(60)
<1>7. r.table = None \/ r.table = Main \/ r.table = Table("block", v)
  BY <1>1, <1>4, <1>5, <1>6, UplinksAre, BaseIsNat, SMTT(60) DEF Deciding
<1> QED BY <1>5, <1>7, TablesDiffer, TableHops, SMTT(60) DEF Gives, Rejected, Purposes

\* A packet with the value of a probe: not even by main.
LEMMA ProbeRoutes ==
  ASSUME Kernel, NEW v \in Ids, NEW from, NEW w \in Routes(64 + v, from)
  PROVE  w = Rejected \/ (w.via = "path" /\ w.to = v)
<1>1. v \in 1..63 /\ 64 + v \in 0..255 /\ 64 + v >= 64 /\ 64 + v < 128
  BY UplinksAre, SMTT(60)
<1>2. Bits[64 + v] \cap HighBits = {6}
  BY <1>1, HighBitsOf
<1>3. PICK g \in rules : Is(g, 64, HighBits, {6}, 0, None)
  BY StaticRules
<1>4. Decides(g, 64 + v, from) /\ g.priority = PriorityBase + 64
  BY <1>2, <1>3 DEF Decides, Is
<1>5. PICK r \in rules : Decides(r, 64 + v, from) /\ r.priority <= g.priority /\ Gives(r, w)
  BY <1>4, RoutesBy
<1>6. Deciding(r, 64 + v, from)
  BY <1>1, <1>5, DecidingRules
<1>7. r.table = None \/ r.table = Table("path", v)
  BY <1>1, <1>4, <1>5, <1>6, UplinksAre, BaseIsNat, SMTT(60) DEF Deciding
<1> QED BY <1>5, <1>7, TablesDiffer, TableHops, SMTT(60) DEF Gives, Rejected, Purposes

\* A packet of a connection without a path or an address: by the balancing table or
\* a policy's.
LEMMA NewRoutes ==
  ASSUME Kernel, NEW v \in 0..255, v = 0 \/ v >= 128, NEW w \in Routes(v, 0)
  PROVE  \/ w = Rejected \/ covered # 0
         \/ w.to \in installed[Table("balancing", 0)]
         \/ \E p \in {"balance", "block"}, u \in Ids : w.to = u /\ u \in installed[Table(p, u)]
<1>1. PICK g \in rules : Is(g, 699, {}, {}, 0, None)
  BY StaticRules
<1>2. Decides(g, v, 0)
  BY <1>1, SMTT(60) DEF Decides, Is
<1>3. PICK r \in rules : Decides(r, v, 0) /\ Gives(r, w)
  BY <1>2, RoutesBy
<1>4. Deciding(r, v, 0)
  BY <1>3, DecidingRules
<1>5. \/ r.table = None \/ r.table = Main \/ r.table = Table("balancing", 0)
      \/ \E p \in {"balance", "block"}, id \in Ids : r.table = Table(p, id)
  BY <1>4, UplinksAre, SMTT(60) DEF Deciding
<1>6. CASE r.table = None
  BY <1>3, <1>6 DEF Gives, Rejected
<1>7. CASE r.table # None
  <2>1. PICK u \in Nexthops(r.table) : w = [via |-> r.table.purpose, to |-> u]
    BY <1>3, <1>7 DEF Gives
  <2>2. w.via = r.table.purpose /\ w.to = u
    BY <2>1
  <2>3. CASE r.table = Main
    BY <2>1, <2>3 DEF Nexthops
  <2>4. CASE r.table = Table("balancing", 0)
    BY <2>1, <2>2, <2>4, BalancingHops
  <2>5. CASE \E p \in {"balance", "block"}, id \in Ids : r.table = Table(p, id)
    <3>1. PICK p \in {"balance", "block"}, id \in Ids : r.table = Table(p, id)
      BY <2>5
    <3>2. p \in Purposes
      BY DEF Purposes
    <3> QED BY <2>1, <2>2, <3>1, <3>2, TableHops, SMTT(60)
  <2> QED BY <1>5, <1>7, <2>3, <2>4, <2>5
<1> QED BY <1>6, <1>7

\* A packet with the value of a path whose rule and route are installed.
LEMMA ServedRoutes ==
  ASSUME Kernel, NEW v \in ruled, NEW from, NEW w \in Routes(v, from),
         covered = 0, installed[Table("path", v)] # {}
  PROVE  w.to = v
<1>1. v \in Ids /\ v \in 1..63 /\ v \in 0..255 /\ v \in UplinkIds
  BY UplinksAre, SMTT(60)
<1>2. Rule("path", v, AllBits, Bits[FieldValue("path", v)], 0, Table("path", v)) \in rules
  <2>1. Rule("path", v, AllBits, Bits[FieldValue("path", v)], 0, Table("path", v)) \in LookupRules(v)
    BY DEF LookupRules
  <2> QED BY <2>1 DEF rules
<1>3. PICK g \in rules : Is(g, 200 + v, AllBits, Bits[v], 0, Table("path", v))
  <2>1. Is(Rule("path", v, AllBits, Bits[FieldValue("path", v)], 0, Table("path", v)),
           200 + v, AllBits, Bits[v], 0, Table("path", v))
    BY <1>1, BaseIsNat, Values, SMTT(60) DEF Rule, Priority, Is
  <2> QED BY <1>2, <2>1
<1>4. Decides(g, v, from) /\ g.priority = PriorityBase + (200 + v)
  <2>1. Bits[v] \cap AllBits = Bits[v]
    BY <1>1, BitsOf DEF HasBits, AllBits
  <2>2. Nexthops(Table("path", v)) # {}
    BY TablesDiffer DEF Nexthops, Purposes
  <2> QED BY <1>3, <2>1, <2>2, SMTT(60) DEF Decides, Is
<1>5. PICK r \in rules : Decides(r, v, from) /\ r.priority <= g.priority /\ Gives(r, w)
  BY <1>4, RoutesBy, SMTT(60)
<1>6. Deciding(r, v, from)
  BY <1>1, <1>5, DecidingRules
<1>7. r.table = Main \/ r.table = Table("path", v)
  <2>1. r.priority <= PriorityBase + (200 + v) /\ 200 + v < 264
    BY <1>1, <1>4, <1>5, SMTT(60)
  <2>2. \A u \in ruled : v # 64 + u /\ v # 128 + u /\ v # 192 + u
    BY <1>1, UplinksAre, SMTT(60)
  <2>3. v # 0 /\ ~(v \in 64..127) /\ ~(v \in 192..255)
    BY <1>1, SMTT(60)
  <2>4. /\ r.priority # PriorityBase + 264 /\ r.priority # PriorityBase + 600
        /\ r.priority # PriorityBase + 699
    BY <1>1, <2>1, BaseIsNat, SMTT(60)
  <2> QED BY <1>6, <2>2, <2>3, <2>4, SMTT(60) DEF Deciding
<1>8. r.table # Main
  BY <1>5, TablesDiffer DEF Decides, Nexthops
<1>9. Table("path", v) # None /\ "path" \in Purposes
  BY TablesDiffer DEF Purposes
<1>10. PICK u \in Nexthops(Table("path", v)) : w = [via |-> r.table.purpose, to |-> u]
  BY <1>5, <1>7, <1>8, <1>9 DEF Gives
<1> QED BY <1>1, <1>9, <1>10, TableHops

-----------------------------------------------------------------------------
(* The inductive invariant.                                                *)

\* The State task's paths and its active set are of the running configuration.
Selected ==
  /\ kind \in Kinds /\ config \in Configs /\ nft \in Configs
  /\ paths \in [Ids -> PathStates]
  /\ \A u \in Ids \ config.uplinks : paths[u] = "absent"
  /\ active \subseteq {u \in config.uplinks : paths[u] \in {"down", "up"}}

Vias == Purposes \cup {"none", "rejected", "balancing", "main"}

\* A packet under way, by what it got when it entered and where it was routed.
PacketOK(p, path, k) ==
  /\ p \in [at : {Free, Early, Pinned, Bypassed}, field : 0..255, to : {0} \cup Ids, via : Vias]
  /\ p.at = Free => p = NoPacket
  /\ p.via \in {"none", "rejected"} => p.to = 0
  /\ p.via \notin {"none", "rejected"} => p.to \in Ids
  /\ p.at = Pinned => path # 0 /\ p.field = path /\ (p.via \in {"none", "rejected"} \/ p.to = path)
  /\ \A u \in Ids : p.field = 192 + u => p.via \in {"none", "rejected", "main"} \/ p.to = u
  /\ k.from = "probe" /\ p.at # Free =>
       p.field = 64 + k.uplink /\ (p.via \in {"none", "rejected"} \/ p.to = k.uplink)
  /\ k.from \in {"lan", "router"} /\ p.at = Early => p.field = 0 \/ p.field >= 128

Marking ==
  /\ ct \in {0} \cup Ids
  /\ kind.from = "probe" => ct = 0
  /\ DOMAIN packet = Slots
  /\ \A s \in Slots : PacketOK(packet[s], ct, kind)

IInv == Kernel /\ Selected /\ Marking

\* A connection that gets its path while packets of it are under way: none of them
\* was marked with a path (nft.rs, the postrouting chain).
LEMMA PathAssigned ==
  ASSUME NEW p, NEW k, NEW u, PacketOK(p, 0, k)
  PROVE  PacketOK(p, u, k)
<1>1. p.at # Pinned
  BY DEF PacketOK
<1> QED BY <1>1, SMTT(60) DEF PacketOK

\* select.rs: the active set has configured uplinks only, none of them drained or
\* without a path.
LEMMA ActiveSet ==
  ASSUME NEW c \in Configs, NEW states \in [Ids -> PathStates], NEW previous
  PROVE  active_set(c, states, previous) \subseteq {u \in c.uplinks : states[u] \in {"down", "up"}}
BY ConfigsAssumption DEF active_set, Eligible

\* The kinds of connections, with their uplink where they have one.
LEMMA KindsAre ==
  ASSUME NEW k \in Kinds
  PROVE  /\ k.from \in {"lan", "router", "in", "served", "bound", "probe"}
         /\ k.from \in {"in", "served", "bound", "probe"} => k.uplink \in Ids
         /\ k.from \in {"lan", "router"} => k.uplink = 0
BY KindsAssumption

\* The uplinks and the policy of a configuration.
LEMMA ConfigsAre ==
  ASSUME NEW c \in Configs
  PROVE  /\ c.uplinks \subseteq Ids
         /\ c.policy.uplink \in {0} \cup Ids /\ c.policy.fallback \in {"balance", "block"}
BY ConfigsAssumption

\* The tables of an uplink have its next hop or none.
Routed(hops) ==
  /\ hops \in [Tables -> SUBSET Ids]
  /\ \A p \in Purposes, u \in Ids : hops[Table(p, u)] \subseteq {u}

\* The tables: three of each uplink and the balancing table.
LEMMA TablesAre ==
  /\ \A p \in Purposes, u \in Ids : Table(p, u) \in Tables
  /\ Table("balancing", 0) \in Tables
  /\ \A t \in Tables : t.purpose # "balancing" => t.id \in Ids /\ t.purpose \in Purposes
<1>1. \A p \in Purposes, u \in Ids : Table(p, u) \in Tables
  BY SMTT(60) DEF Tables, Table
<1>2. Table("balancing", 0) \in Tables
  BY SMTT(60) DEF Tables, Table
<1>3. ASSUME NEW t \in Tables, t.purpose # "balancing"
      PROVE  t.id \in Ids /\ t.purpose \in Purposes
  <2>1. PICK p \in Purposes, u \in Ids : t = [purpose |-> p, id |-> u]
    BY <1>3, SMTT(60) DEF Tables
  <2> QED BY <2>1
<1> QED BY <1>1, <1>2, <1>3

\* A plan routes every uplink's tables through that uplink.
LEMMA PlanRouted ==
  ASSUME Selected
  PROVE  Routed(plan)
<1>1. active \subseteq Ids
  BY ConfigsAre DEF Selected
<1>2. \A t \in Tables :
        /\ t.purpose = "balancing" => plan[t] = active
        /\ t.purpose # "balancing" => plan[t] \in {{t.id}, {}}
  BY DEF plan
<1>3. plan = [t \in Tables |-> plan[t]]
  BY DEF plan
<1>4. \A t \in Tables : plan[t] \in SUBSET Ids
  <2> SUFFICES ASSUME NEW t \in Tables PROVE plan[t] \in SUBSET Ids
    OBVIOUS
  <2>1. t.purpose # "balancing" => t.id \in Ids
    BY TablesAre
  <2>2. CASE t.purpose = "balancing"
    <3>1. plan[t] = active
      BY <1>2, <2>2
    <3> QED BY <1>1, <3>1
  <2>3. CASE t.purpose # "balancing"
    <3>1. plan[t] = {t.id} \/ plan[t] = {}
      BY <1>2, <2>3
    <3> QED BY <2>1, <2>3, <3>1
  <2> QED BY <2>2, <2>3
<1>5. \A p \in Purposes, u \in Ids : plan[Table(p, u)] \subseteq {u}
  <2> SUFFICES ASSUME NEW p \in Purposes, NEW u \in Ids PROVE plan[Table(p, u)] \subseteq {u}
    OBVIOUS
  <2>1. Table(p, u) \in Tables /\ Table(p, u).purpose = p /\ p # "balancing" /\ Table(p, u).id = u
    BY TablesAre, Purpose, SMTT(60) DEF Purposes
  <2>2. plan[Table(p, u)] \in {{u}, {}}
    BY <1>2, <2>1
  <2> QED BY <2>2
<1> HIDE DEF plan
<1> QED BY <1>3, <1>4, <1>5 DEF Routed

\* So do the routes of a pass before the nftables step.
LEMMA BeforeRouted ==
  ASSUME Kernel, Selected
  PROVE  Routed(before)
<1>1. Routed(plan) /\ Routed(installed)
  BY PlanRouted DEF Kernel, Routed
<1>2. \A t \in Tables : before[t] \in {plan[t] \cap nft.uplinks, plan[t], installed[t]}
  BY DEF before
<1>3. before = [t \in Tables |-> before[t]]
  BY DEF before
<1>4. \A t \in Tables : before[t] \subseteq plan[t] \/ before[t] = installed[t]
  <2> SUFFICES ASSUME NEW t \in Tables PROVE before[t] \subseteq plan[t] \/ before[t] = installed[t]
    OBVIOUS
  <2> QED BY <1>2
<1> HIDE DEF plan, before
<1>5. \A t \in Tables : before[t] \in SUBSET Ids
  BY <1>1, <1>4 DEF Routed
<1>6. \A p \in Purposes, u \in Ids : before[Table(p, u)] \subseteq {u}
  BY <1>1, <1>4, TablesAre DEF Routed
<1> QED BY <1>3, <1>5, <1>6 DEF Routed

\* A free slot satisfies the invariant of packets, whatever the connection.
LEMMA FreshPacket ==
  \A path, k : PacketOK(NoPacket, path, k)
BY ForwardingAssumption, SMTT(60) DEF PacketOK, NoPacket, Vias, UplinkIds

\* The invariant holds at first.
LEMMA Initial ==
  Init => IInv
<1> SUFFICES ASSUME Init PROVE IInv
  OBVIOUS
<1>1. Selected
  BY ActiveSet DEF Init, Selected
<1>2. Kernel
  <2>1. Routed(installed)
    BY <1>1, PlanRouted DEF Init
  <2> QED BY <1>1, <2>1, ConfigsAre DEF Init, Kernel, Routed, Addressed, Selected
<1>3. Marking
  BY FreshPacket DEF Init, Marking
<1> QED BY <1>1, <1>2, <1>3 DEF IInv

\* Steps that leave the connection and its packets alone.
LEMMA MarkingKept ==
  ASSUME Marking, UNCHANGED <<kind, ct, packet>>
  PROVE  Marking'
BY DEF Marking

\* Steps of packets leave daemon and kernel alone.
LEMMA NetworkKept ==
  ASSUME Kernel, Selected, UNCHANGED <<kind, daemon, kernel>>
  PROVE  Kernel' /\ Selected'
BY DEF Kernel, Selected, daemon, kernel

\* A change of a path keeps the invariant: the active set follows it.
LEMMA ObserveStep ==
  ASSUME IInv, NEW u \in config.uplinks, NEW state \in PathStates, Observe(u, state)
  PROVE  IInv'
<1>1. Selected'
  <2>1. u \in Ids
    BY ConfigsAre DEF IInv, Selected
  <2>2. paths' \in [Ids -> PathStates] /\ \A v \in Ids \ config.uplinks : paths'[v] = "absent"
    BY <2>1 DEF IInv, Selected, Observe
  <2>3. active' \subseteq {v \in config.uplinks : paths'[v] \in {"down", "up"}}
    <3>1. config \in Configs /\ active' = active_set(config, paths', active)
      BY DEF IInv, Selected, Observe
    <3> QED BY <2>2, <3>1, ActiveSet
  <2>4. UNCHANGED <<kind, config, nft>>
    BY DEF Observe, kernel
  <2> QED BY <2>2, <2>3, <2>4 DEF IInv, Selected
<1>2. Kernel'
  BY DEF IInv, Kernel, Observe, kernel
<1>3. Marking'
  BY MarkingKept DEF IInv, Observe
<1> QED BY <1>1, <1>2, <1>3 DEF IInv

\* A reload keeps it, with packets under way under the values of the old configuration.
LEMMA ReloadStep ==
  ASSUME IInv, NEW c \in Configs, Reload(c)
  PROVE  IInv'
<1>1. Selected'
  <2>2. paths' \in [Ids -> PathStates] /\ \A v \in Ids \ c.uplinks : paths'[v] = "absent"
    BY DEF IInv, Selected, Reload, PathStates
  <2>3. active' \subseteq {v \in c.uplinks : paths'[v] \in {"down", "up"}}
    BY <2>2, ActiveSet, SMTT(60) DEF Reload
  <2> QED BY <2>2, <2>3 DEF IInv, Selected, Reload, kernel
<1>2. Kernel'
  BY DEF IInv, Kernel, Reload, kernel
<1>3. Marking'
  BY MarkingKept DEF IInv, Reload
<1> QED BY <1>1, <1>2, <1>3 DEF IInv

\* The three phases of a pass keep it.
LEMMA PassStep ==
  ASSUME IInv, Prepare \/ Replace \/ Complete
  PROVE  IInv'
<1>1. Selected'
  BY DEF IInv, Selected, Prepare, Replace, Complete, daemon
<1>2. Marking'
  BY MarkingKept DEF IInv, Prepare, Replace, Complete
<1>3. Routed(plan) /\ Routed(before) /\ Routed(installed)
  BY PlanRouted, BeforeRouted DEF IInv, Kernel, Routed
<1>4. config.uplinks \subseteq Ids /\ Addressed \subseteq Ids
  BY ConfigsAre DEF IInv, Selected, Addressed
<1> HIDE DEF plan, before
<1>5. Kernel'
  <2>1. Routed(installed')
    BY <1>3 DEF Prepare, Replace, Complete
  <2>2. ruled' \subseteq Ids /\ addressed' \subseteq Ids /\ covered' \in {0} \cup Ids
    BY <1>4 DEF IInv, Kernel, Prepare, Replace, Complete
  <2> QED BY <2>1, <2>2 DEF Kernel, Routed
<1> QED BY <1>1, <1>2, <1>5 DEF IInv

\* So do changes of main by other programs.
LEMMA MainStep ==
  ASSUME IInv, NEW u \in {0} \cup Ids, MainChanges(u)
  PROVE  IInv'
<1>1. Selected'
  BY DEF IInv, Selected, MainChanges, daemon
<1>2. Kernel'
  BY DEF IInv, Kernel, MainChanges
<1>3. Marking'
  BY MarkingKept DEF IInv, MainChanges
<1> QED BY <1>1, <1>2, <1>3 DEF IInv

\* The chains recognise the value of a probe.
LEMMA ProbeValues ==
  /\ ~IsProbe(0)
  /\ \A u \in Ids : IsProbe(64 + u)
<1>1. Bits[ClassBits("probe")] = {6}
  BY ClassValues
<1>2. ~IsProbe(0)
  BY <1>1, BitsOfZero DEF IsProbe
<1>3. ASSUME NEW u \in Ids PROVE IsProbe(64 + u)
  <2>1. 64 + u \in 0..255 /\ 64 + u >= 64 /\ 64 + u < 128
    BY ForwardingAssumption, SMTT(60) DEF UplinkIds
  <2>2. Bits[64 + u] \cap HighBits = {6}
    BY <2>1, HighBitsOf
  <2> QED BY <1>1, <2>2 DEF IsProbe
<1> QED BY <1>2, <1>3

\* A connection that comes in is assigned its uplink, before any packet is pinned.
LEMMA ArriveStep ==
  ASSUME IInv, Arrive
  PROVE  IInv'
<1>1. Selected' /\ Kernel'
  BY NetworkKept DEF IInv, Arrive
<1>2. kind.from \in {"in", "served"} /\ kind.uplink \in Ids
  BY KindsAre DEF IInv, Selected, Arrive, Inbound
<1>3. ct = 0 /\ ct' = kind.uplink /\ UNCHANGED <<kind, packet>>
  <2>1. Assigned(kind.uplink) = kind.uplink
    BY <1>2, Values, ForwardingAssumption, SMTT(60) DEF Assigned
  <2> QED BY <2>1 DEF Arrive
<1>4. Marking'
  BY <1>2, <1>3, SMTT(60) DEF IInv, Marking, PacketOK
<1> QED BY <1>1, <1>4 DEF IInv

\* The field that a packet gets when it enters.
LEMMA FieldsAre ==
  ASSUME Selected, Marking
  PROVE  LET field == IF Local THEN Output(Mark) ELSE Prerouting IN
         /\ field \in 0..255
         /\ ct # 0 => field = ct
         /\ kind.from = "probe" => field = 64 + kind.uplink
         /\ kind.from \in {"lan", "router"} /\ ct = 0 => field = 0 \/ field >= 128
<1> DEFINE field == IF Local THEN Output(Mark) ELSE Prerouting
<1>1. kind \in Kinds /\ nft \in Configs /\ ct \in 0..63
  BY ForwardingAssumption, SMTT(60) DEF Selected, Marking, UplinkIds
<1>2. policy \in 0..255 /\ (policy = 0 \/ policy >= 128)
  <2>1. CASE nft.policy.uplink = 0
    BY <2>1, SMTT(60) DEF policy
  <2>2. CASE nft.policy.uplink # 0
    <3>1. nft.policy.uplink \in UplinkIds /\ nft.policy.fallback \in {"balance", "block"}
      BY <1>1, <2>2, ConfigsAre, ForwardingAssumption
    <3>2. policy = FieldValue(nft.policy.fallback, nft.policy.uplink)
      BY <2>2 DEF policy
    <3> QED BY <3>1, <3>2, PolicyValues
  <2> QED BY <2>1, <2>2
<1>3. CASE kind.from = "probe"
  <2>1. kind.uplink \in Ids /\ kind.uplink \in UplinkIds /\ ct = 0
    BY <1>1, <1>3, KindsAre, ForwardingAssumption DEF Marking
  <2>2. Local /\ Mark = 64 + kind.uplink
    BY <1>3, <2>1, Values DEF Local, Mark
  <2>3. field = 64 + kind.uplink
    BY <2>1, <2>2, ProbeValues DEF Output
  <2> QED BY <1>3, <2>1, <2>3, SMTT(60) DEF UplinkIds
<1>4. CASE kind.from # "probe" /\ Local
  <2>1. field = ct
    BY <1>4, ProbeValues DEF Output, Mark, Restored
  <2> QED BY <1>1, <1>4, <2>1, SMTT(60)
<1>5. CASE ~Local
  <2>1. kind.from # "router" /\ kind.from # "probe" /\ field = Prerouting
    BY <1>5 DEF Local
  <2>2. Prerouting = ct \/ (ct = 0 /\ Prerouting \in {0, policy})
    BY DEF Prerouting, Restored
  <2> QED BY <1>1, <1>2, <2>1, <2>2, SMTT(60)
<1> QED BY <1>3, <1>4, <1>5

\* A packet enters with the field of the connection's path, of its policy or of its
\* probe.
LEMMA EnterStep ==
  ASSUME IInv, NEW s \in Slots, Enter(s)
  PROVE  IInv'
<1>1. Selected' /\ Kernel' /\ UNCHANGED <<kind, ct>>
  BY NetworkKept DEF IInv, Enter
<1> DEFINE field == IF Local THEN Output(Mark) ELSE Prerouting
<1>2. /\ field \in 0..255
      /\ ct # 0 => field = ct
      /\ kind.from = "probe" => field = 64 + kind.uplink
      /\ kind.from \in {"lan", "router"} /\ ct = 0 => field = 0 \/ field >= 128
  BY FieldsAre DEF IInv
<1>3. packet' = [packet EXCEPT ![s] = [at |-> IF ct = 0 THEN Early ELSE Pinned, field |-> field, to |-> 0, via |-> "none"]]
  BY DEF Enter
<1> HIDE DEF field
<1>4. PacketOK([at |-> IF ct = 0 THEN Early ELSE Pinned, field |-> field, to |-> 0, via |-> "none"], ct, kind)
  BY <1>2, ForwardingAssumption DEF PacketOK, Vias
<1>5. Marking'
  BY <1>1, <1>3, <1>4 DEF IInv, Marking
<1> QED BY <1>1, <1>5 DEF IInv

\* A packet is routed: each class by its own lemma on Routes.
LEMMA RouteStep ==
  ASSUME IInv, NEW s \in Slots, Route(s)
  PROVE  IInv'
<1>1. Selected' /\ Kernel' /\ UNCHANGED <<kind, ct>>
  BY NetworkKept DEF IInv, Route
<1> DEFINE p == packet[s]
<1>2. PacketOK(p, ct, kind) /\ p.at # Free /\ p.via = "none"
  BY DEF IInv, Marking, Route
<1>3. p.field \in 0..255
  BY <1>2 DEF PacketOK
<1>4. PICK w \in Routes(p.field, Source) :
        packet' = [packet EXCEPT ![s] =
          [at |-> IF w.via = "main" THEN Bypassed ELSE p.at, field |-> p.field, to |-> w.to, via |-> w.via]]
  BY DEF Route
<1> DEFINE q == [at |-> IF w.via = "main" THEN Bypassed ELSE p.at, field |-> p.field, to |-> w.to, via |-> w.via]
<1>5. packet' = [packet EXCEPT ![s] = q]
  BY <1>4
<1>6. \/ w.via = "rejected" /\ w.to = 0
      \/ w.via \in Purposes \cup {"balancing", "main"} /\ w.to \in Ids
  <2>1. w = Rejected \/ (w.via \in Purposes \cup {"balancing", "main"} /\ w.to \in Ids)
    BY <1>3, AnyRoutes DEF IInv
  <2> QED BY <2>1, SMTT(60) DEF Rejected
<1>7. p.field \in Ids => w.via \in {"rejected", "main"} \/ w.to = p.field
  BY PathRoutes, SMTT(60) DEF IInv, Rejected
<1>8. \A u \in Ids : p.field = 192 + u => w.via \in {"rejected", "main"} \/ w.to = u
  BY BlockRoutes, SMTT(60) DEF IInv, Rejected
<1>9. \A u \in Ids : p.field = 64 + u => w.via = "rejected" \/ (w.via = "path" /\ w.to = u)
  BY ProbeRoutes, SMTT(60) DEF IInv, Rejected
<1>10. ct \in {0} \cup Ids /\ kind \in Kinds
  BY DEF IInv, Marking, Selected
<1>11. PacketOK(q, ct, kind)
  <2>1. q \in [at : {Free, Early, Pinned, Bypassed}, field : 0..255, to : {0} \cup Ids, via : Vias]
    BY <1>2, <1>3, <1>6 DEF PacketOK, Vias
  <2>2. q.at # Free
    BY <1>2, ForwardingAssumption
  <2>3. q.at = Pinned => ct # 0 /\ q.field = ct /\ (q.via = "rejected" \/ q.to = ct)
    <3> SUFFICES ASSUME q.at = Pinned PROVE ct # 0 /\ p.field = ct /\ (w.via = "rejected" \/ w.to = ct)
      OBVIOUS
    <3>1. w.via # "main" /\ p.at = Pinned
      BY ForwardingAssumption
    <3>2. ct # 0 /\ p.field = ct
      BY <1>2, <3>1 DEF PacketOK
    <3> QED BY <1>7, <1>10, <3>1, <3>2
  <2>4. kind.from = "probe" => q.field = 64 + kind.uplink /\ (q.via = "rejected" \/ q.to = kind.uplink)
    <3> SUFFICES ASSUME kind.from = "probe"
                 PROVE  p.field = 64 + kind.uplink /\ (w.via = "rejected" \/ w.to = kind.uplink)
      OBVIOUS
    <3>1. p.field = 64 + kind.uplink
      BY <1>2 DEF PacketOK
    <3>2. kind.uplink \in Ids
      BY <1>10, KindsAre
    <3> QED BY <1>9, <3>1, <3>2
  <2>5. kind.from \in {"lan", "router"} /\ q.at = Early => q.field = 0 \/ q.field >= 128
    BY <1>2, ForwardingAssumption DEF PacketOK
  <2>6. q.via # "none" /\ (q.via = "rejected" => q.to = 0) /\ (q.via # "rejected" => q.to \in Ids)
    BY <1>6, ForwardingAssumption DEF Purposes, UplinkIds
  <2>7. \A u \in Ids : q.field = 192 + u => q.via \in {"rejected", "main"} \/ q.to = u
    BY <1>8, SMTT(60)
  <2> HIDE DEF q
  <2> QED BY <2>1, <2>2, <2>3, <2>4, <2>5, <2>6, <2>7, SMTT(60) DEF PacketOK
<1> HIDE DEF q
<1>12. Marking'
  BY <1>1, <1>5, <1>11 DEF IInv, Marking
<1> QED BY <1>1, <1>12 DEF IInv

\* The refinement mapping of a step on one slot.
LEMMA AtUpdated ==
  ASSUME NEW S, NEW f, NEW g, NEW s \in S, NEW a,
         \A t \in S : g[t].at = IF t = s THEN a ELSE f[t].at
  PROVE  [t \in S |-> g[t].at] = [[t \in S |-> f[t].at] EXCEPT ![s] = a]
OBVIOUS

\* A packet leaves: the invariant is kept, also for the others under way when this one
\* assigns the path, and the step is Pinning's Leave or Reject.
LEMMA LeaveStep ==
  ASSUME IInv, NEW s \in Slots, Leave(s)
  PROVE  /\ IInv'
         /\ P!Leave(s, packet[s].to) \/ P!Reject(s)
         /\ packet[s].via = "rejected" => P!Reject(s)
         /\ packet[s].via # "rejected" => packet[s].to \in Ids
<1>1. Selected' /\ Kernel' /\ UNCHANGED kind
  BY NetworkKept DEF IInv, Leave
<1> DEFINE p == packet[s]
<1>2. PacketOK(p, ct, kind) /\ p.via # "none" /\ packet' = [packet EXCEPT ![s] = NoPacket] /\ out' = p.to
  BY DEF IInv, Marking, Leave
<1>3. p.at # Free
  <2>1. p.at = Free => p = NoPacket
    BY <1>2 DEF PacketOK
  <2>2. NoPacket.via = "none"
    BY DEF NoPacket
  <2> QED BY <1>2, <2>1, <2>2
<1>4. \/ UNCHANGED ct
      \/ ct = 0 /\ ct' = p.to /\ p.to \in Ids /\ kind.from # "probe" /\ p.via # "rejected"
  <2>1. CASE UNCHANGED ct
    BY <2>1
  <2>2. CASE p.via # "rejected" /\ Assigns(p.field, p.to) /\ ct' = Assigned(p.to)
    <3>1. p.to \in Ids /\ p.to \in UplinkIds
      BY <1>2, <2>2, ForwardingAssumption DEF PacketOK
    <3>2. ct = 0 /\ ~IsProbe(p.field)
      BY <2>2 DEF Assigns
    <3>3. ct' = p.to
      BY <2>2, <3>1, Values, SMTT(60) DEF Assigned
    <3>4. kind.from # "probe"
      <4> SUFFICES ASSUME kind.from = "probe" PROVE FALSE
        OBVIOUS
      <4>1. p.field = 64 + kind.uplink /\ kind.uplink \in Ids
        BY <1>2, <1>3, KindsAre DEF PacketOK, IInv, Selected
      <4> QED BY <3>2, <4>1, ProbeValues
    <3> QED BY <2>2, <3>1, <3>2, <3>3, <3>4
  <2> QED BY <2>1, <2>2 DEF Leave
<1>5. Marking'
  <2>1. ct' \in {0} \cup Ids /\ (kind'.from = "probe" => ct' = 0) /\ DOMAIN packet' = Slots
    BY <1>1, <1>2, <1>4 DEF IInv, Marking
  <2>2. ASSUME NEW t \in Slots PROVE PacketOK(packet'[t], ct', kind')
    <3>1. CASE t = s
      <4>1. packet'[t] = NoPacket
        BY <1>2, <3>1 DEF IInv, Marking
      <4> QED BY <4>1, FreshPacket
    <3>2. CASE t # s
      <4>1. packet'[t] = packet[t] /\ PacketOK(packet[t], ct, kind)
        BY <1>2, <3>2 DEF IInv, Marking
      <4>2. CASE UNCHANGED ct
        BY <1>1, <4>1, <4>2
      <4>3. CASE ct = 0 /\ ct' \in Ids /\ kind.from # "probe"
        BY <1>1, <4>1, <4>3, PathAssigned
      <4> QED BY <1>4, <4>2, <4>3
    <3> QED BY <3>1, <3>2
  <2> QED BY <2>1, <2>2 DEF Marking
<1> DEFINE ats == [t \in Slots |-> packet[t].at]
<1>6. ats' = [ats EXCEPT ![s] = Free] /\ ats[s] = p.at
  <2>1. \A t \in Slots : packet'[t].at = IF t = s THEN Free ELSE packet[t].at
    BY <1>2 DEF IInv, Marking, NoPacket
  <2>2. [t \in Slots |-> packet'[t].at] = [ats EXCEPT ![s] = Free]
    BY <2>1, AtUpdated
  <2> QED BY <2>2
<1>7. p.via = "rejected" => P!Reject(s)
  <2> SUFFICES ASSUME p.via = "rejected" PROVE P!Reject(s)
    OBVIOUS
  <2>1. p.to = 0 /\ UNCHANGED ct
    BY <1>2, <1>4 DEF PacketOK
  <2> QED BY <1>2, <1>3, <1>6, <2>1 DEF P!Reject
<1>8. p.via # "rejected" => p.to \in Ids /\ P!Leave(s, p.to)
  <2> SUFFICES ASSUME p.via # "rejected" PROVE p.to \in Ids /\ P!Leave(s, p.to)
    OBVIOUS
  <2>1. p.to \in Ids /\ (p.at = Pinned => p.to = ct)
    BY <1>2, SMTT(60) DEF PacketOK
  <2> QED BY <1>2, <1>3, <1>4, <1>6, <2>1 DEF P!Leave
<1> QED BY <1>1, <1>5, <1>7, <1>8 DEF IInv

-----------------------------------------------------------------------------
(* Theorems.                                                               *)

\* Every step keeps the invariant.
LEMMA StepKeeps ==
  ASSUME IInv, [Next]_vars
  PROVE  IInv'
<1>1. CASE UNCHANGED vars
  <2>1. UNCHANGED <<kind, daemon, kernel, ct, packet>>
    BY <1>1 DEF vars, daemon, kernel
  <2> QED BY <2>1, NetworkKept, MarkingKept DEF IInv
<1>2. CASE Daemon
  BY <1>2, ObserveStep, ReloadStep, PassStep DEF Daemon
<1>3. CASE Arrive
  BY <1>3, ArriveStep
<1>4. ASSUME NEW u \in {0} \cup Ids, MainChanges(u) PROVE IInv'
  BY <1>4, MainStep
<1>5. ASSUME NEW s \in Slots, Enter(s) \/ Route(s) \/ Leave(s) PROVE IInv'
  BY <1>5, EnterStep, RouteStep, LeaveStep
<1> QED BY <1>1, <1>2, <1>3, <1>4, <1>5 DEF Next

\* The invariant of the rules, the active set and the packets under way holds for any
\* uplinks, configurations and number of packets.
THEOREM Invariance == Spec => []IInv
<1>1. IInv /\ [Next]_vars => IInv'
  BY StepKeeps
<1> QED BY Initial, <1>1, PTL DEF Spec

\* Fields, egresses, active set and assigned path stay in their ranges (nft.rs,
\* plan.rs).
THEOREM TypeCorrect == Spec => []TypeOK
<1>1. IInv => TypeOK
  <2> SUFFICES ASSUME IInv PROVE TypeOK
    OBVIOUS
  <2>1. active \subseteq Ids /\ ruled \subseteq Ids /\ covered \in {0} \cup Ids /\ ct \in {0} \cup Ids
    BY ConfigsAre DEF IInv, Kernel, Selected, Marking
  <2>2. ASSUME NEW s \in Slots
        PROVE  packet[s].field \in 0..255 /\ packet[s].to \in {0} \cup Ids
    <3>1. packet[s] \in [at : {Free, Early, Pinned, Bypassed}, field : 0..255, to : {0} \cup Ids, via : Vias]
      BY DEF IInv, Marking, PacketOK
    <3> QED BY <3>1
  <2> QED BY <2>1, <2>2 DEF TypeOK
<1> QED BY Invariance, <1>1, PTL

\* FR-POL-1: a packet of a policy that blocks leaves through the policy's uplink or is
\* rejected, by the block guard of plan.rs, also while a reload removes the policy or
\* the uplink.
THEOREM Blocks == Spec => []BlockHolds
<1>1. ASSUME IInv PROVE BlockHolds
  <2>1. \A u \in Ids : FieldValue("block", u) = 192 + u
    BY Values, ForwardingAssumption, SMTT(60)
  <2> QED BY <1>1, <2>1, SMTT(60) DEF IInv, Marking, PacketOK, BlockHolds
<1> QED BY Invariance, <1>1, PTL

\* INV-6: probes leave through their uplink, even past main, and never assign a path to
\* their connection (nft.rs, chain postrouting).
THEOREM Probing == Spec => []ProbesStay
<1>1. ASSUME IInv PROVE ProbesStay
  <2> SUFFICES ASSUME kind.from = "probe", NEW s \in Slots
               PROVE  ct = 0 /\ (packet[s].via \in {"none", "rejected"} \/ packet[s].to = kind.uplink)
    BY <1>1 DEF ProbesStay, IInv, Marking
  <2>1. PacketOK(packet[s], ct, kind) /\ ct = 0
    BY <1>1 DEF IInv, Marking
  <2> QED BY <2>1, SMTT(60) DEF PacketOK, NoPacket
<1> QED BY Invariance, <1>1, PTL

\* INV-2, INV-5: the marks, rules and routes implement Pinning. A packet that enters
\* after the assignment leaves through the assigned path or is rejected, for any number
\* of packets under way and whatever passes and reloads come between its steps.
THEOREM Refinement == Spec => ImplementsPinning
<1> DEFINE ats == [t \in Slots |-> packet[t].at]
<1>1. Init => P!PInit
  <2> SUFFICES ASSUME Init PROVE P!PInit
    OBVIOUS
  <2>1. ats = [s \in Slots |-> Free]
    BY DEF Init, NoPacket
  <2> QED BY <2>1 DEF Init, P!PInit
<1>2. ASSUME IInv, [Next]_vars PROVE [P!PNext]_(P!pvars)
  <2>1. CASE UNCHANGED <<ct, packet, out>>
    BY <2>1 DEF P!pvars
  <2>2. CASE UNCHANGED vars \/ Daemon \/ \E u \in {0} \cup Ids : MainChanges(u)
    <3>1. UNCHANGED <<ct, packet, out>>
      BY <2>2 DEF vars, Daemon, Observe, Reload, Prepare, Replace, Complete, MainChanges
    <3> QED BY <2>1, <3>1
  <2>3. CASE Arrive
    <3>1. kind.uplink \in Ids /\ kind.uplink \in UplinkIds
      BY <1>2, <2>3, KindsAre, ForwardingAssumption DEF IInv, Selected, Arrive, Inbound
    <3>2. ct = 0 /\ ct' = kind.uplink /\ UNCHANGED <<packet, out>>
      BY <2>3, <3>1, Values, SMTT(60) DEF Arrive, Assigned
    <3>3. P!Arrive(kind.uplink)
      BY <3>2 DEF P!Arrive
    <3> QED BY <3>1, <3>3 DEF P!PNext
  <2>4. ASSUME NEW s \in Slots, Enter(s) PROVE P!PNext
    <3>1. packet[s].at = Free /\ UNCHANGED <<ct, out>>
      BY <2>4 DEF Enter
    <3>2. \A t \in Slots : packet'[t].at = IF t = s THEN (IF ct = 0 THEN Early ELSE Pinned) ELSE packet[t].at
      BY <1>2, <2>4 DEF Enter, IInv, Marking
    <3>3. ats' = [ats EXCEPT ![s] = IF ct = 0 THEN Early ELSE Pinned] /\ ats[s] = packet[s].at
      <4>1. [t \in Slots |-> packet'[t].at] = [ats EXCEPT ![s] = IF ct = 0 THEN Early ELSE Pinned]
        BY <3>2, AtUpdated
      <4> QED BY <4>1
    <3>4. P!Enter(s)
      BY <3>1, <3>3 DEF P!Enter
    <3> QED BY <3>4 DEF P!PNext
  <2>5. ASSUME NEW s \in Slots, Route(s) PROVE P!PNext \/ UNCHANGED P!pvars
    <3>1. /\ packet[s].at # Free /\ packet[s].via = "none" /\ UNCHANGED <<ct, out>>
          /\ PacketOK(packet[s], ct, kind)
      BY <1>2, <2>5 DEF Route, IInv, Marking
    <3>2. \/ \A t \in Slots : packet'[t].at = IF t = s THEN Bypassed ELSE packet[t].at
          \/ \A t \in Slots : packet'[t].at = packet[t].at
      BY <1>2, <2>5, SMTT(60) DEF Route, IInv, Marking
    <3>3. CASE \A t \in Slots : packet'[t].at = packet[t].at
      <4>1. [t \in Slots |-> packet'[t].at] = ats
        BY <3>3
      <4> QED BY <3>1, <4>1 DEF P!pvars
    <3>4. CASE \A t \in Slots : packet'[t].at = IF t = s THEN Bypassed ELSE packet[t].at
      <4>1. [t \in Slots |-> packet'[t].at] = [ats EXCEPT ![s] = Bypassed]
        BY <3>4, AtUpdated
      <4>2. CASE packet[s].at \in {Early, Pinned}
        <5>1. ats[s] \in {Early, Pinned} /\ ats' = [ats EXCEPT ![s] = Bypassed]
          BY <4>1, <4>2
        <5>2. P!Bypass(s)
          BY <3>1, <5>1 DEF P!Bypass
        <5> QED BY <5>2 DEF P!PNext
      <4>3. CASE packet[s].at = Bypassed
        <5>1. \A t \in Slots : packet'[t].at = packet[t].at
          BY <3>4, <4>3
        <5> QED BY <3>3, <5>1
      <4> QED BY <3>1, <4>2, <4>3 DEF PacketOK
    <3> QED BY <3>2, <3>3, <3>4
  <2>6. ASSUME NEW s \in Slots, Leave(s) PROVE P!PNext
    <3>1. P!Reject(s) \/ (packet[s].to \in Ids /\ P!Leave(s, packet[s].to))
      BY <1>2, <2>6, LeaveStep
    <3>2. P!Reject(s) \/ \E u \in Ids : P!Leave(s, u)
      BY <3>1 DEF P!Leave
    <3> QED BY <3>2 DEF P!PNext
  <2> QED BY <1>2, <2>2, <2>3, <2>4, <2>5, <2>6 DEF Next
<1> QED BY Invariance, <1>1, <1>2, PTL DEF Spec, ImplementsPinning, P!PSpec

\* Only its lookup routes a packet.
LEMMA RoutedBy ==
  ASSUME IInv, Next, NEW s \in Slots, packet[s].via = "none", packet'[s].via # "none"
  PROVE  Route(s)
<1>1. packet' # packet
  OBVIOUS
<1>2. ~ Daemon /\ ~ Arrive /\ \A u \in {0} \cup Ids : ~ MainChanges(u)
  BY <1>1 DEF Daemon, Observe, Reload, Prepare, Replace, Complete, MainChanges, Arrive
<1>3. PICK t \in Slots : Enter(t) \/ Route(t) \/ Leave(t)
  BY <1>2 DEF Next
<1>4. \E p : packet' = [packet EXCEPT ![t] = p] /\ (p.via = "none" \/ Route(t))
  BY <1>3, SMTT(60) DEF Enter, Route, Leave, NoPacket
<1>5. DOMAIN packet = Slots
  BY DEF IInv, Marking
<1> QED BY <1>4, <1>5

\* A routed packet leaves as one of the routes of its field says (plan.rs).
LEMMA RouteTakes ==
  ASSUME IInv, NEW s \in Slots, Route(s)
  PROVE  \E w \in Routes(packet[s].field, Source) : packet'[s].to = w.to /\ packet'[s].via = w.via
<1>1. DOMAIN packet = Slots
  BY DEF IInv, Marking
<1>2. PICK w \in Routes(packet[s].field, Source) :
        packet' = [packet EXCEPT ![s] =
          [at |-> IF w.via = "main" THEN Bypassed ELSE packet[s].at, field |-> packet[s].field,
           to |-> w.to, via |-> w.via]]
  BY DEF Route
<1>3. packet'[s] = [at |-> IF w.via = "main" THEN Bypassed ELSE packet[s].at,
                    field |-> packet[s].field, to |-> w.to, via |-> w.via]
  BY <1>1, <1>2
<1> QED BY <1>3, SMTT(60)

\* INV-5: a packet of an assigned path is served, not rejected, while the path has a
\* gateway and is installed, drained and unhealthy paths included (plan.rs).
THEOREM Serving == Spec => ReadyPathServes
<1> DEFINE A == \A s \in Slots :
                  LET u == packet[s].field IN
                  ( /\ u \in ruled /\ covered = 0
                    /\ HasPath(u) /\ installed = plan
                    /\ packet[s].via = "none" /\ packet'[s].via # "none")
                  => packet'[s].to = u
<1>1. ASSUME IInv, [Next]_vars PROVE [A]_vars
  <2> SUFFICES ASSUME Next, NEW s \in Slots, packet[s].field \in ruled, covered = 0,
                      HasPath(packet[s].field), installed = plan,
                      packet[s].via = "none", packet'[s].via # "none"
               PROVE  packet'[s].to = packet[s].field
    BY <1>1
  <2> DEFINE u == packet[s].field
  <2>1. Route(s)
    BY <1>1, RoutedBy
  <2>2. PICK w \in Routes(u, Source) : packet'[s].to = w.to
    BY <1>1, <2>1, RouteTakes
  <2>3. u \in Ids /\ u \in config.uplinks
    BY <1>1 DEF IInv, Kernel, Selected, HasPath
  <2>4. Table("path", u) \in Tables /\ Table("path", u).purpose = "path" /\ Table("path", u).id = u
    BY <2>3, TablesAre, Purpose, SMTT(60) DEF Purposes
  <2>5. plan[Table("path", u)] = {u}
    BY <2>3, <2>4 DEF plan, HasRoute, HasPath
  <2> QED BY <1>1, <2>2, <2>5, ServedRoutes DEF IInv
<1> QED BY Invariance, <1>1, PTL DEF Spec, ReadyPathServes

\* FR-SEL-3: once the routes are installed no packet of a new connection goes to a
\* drained uplink, neither by the balancing table nor by a policy's (select.rs,
\* plan.rs).
THEOREM Draining == Spec => DrainTakesNone
<1> DEFINE A == \A s \in Slots :
                  ( /\ kind.from \in {"lan", "router"} /\ packet[s].at = Early /\ ct = 0
                    /\ installed = plan /\ covered = 0
                    /\ packet[s].via = "none" /\ packet'[s].via \notin {"none", "rejected"})
                  => paths[packet'[s].to] # "drained"
<1>1. ASSUME IInv, [Next]_vars PROVE [A]_vars
  <2> SUFFICES ASSUME Next, NEW s \in Slots, kind.from \in {"lan", "router"}, packet[s].at = Early, ct = 0,
                      installed = plan, covered = 0,
                      packet[s].via = "none", packet'[s].via \notin {"none", "rejected"}
               PROVE  paths[packet'[s].to] # "drained"
    BY <1>1
  <2>1. Route(s)
    BY <1>1, RoutedBy
  <2>2. Source = 0
    BY <1>1, KindsAre DEF Source, Local, IInv, Selected
  <2>3. PICK w \in Routes(packet[s].field, 0) : packet'[s].to = w.to /\ packet'[s].via = w.via
    BY <1>1, <2>1, <2>2, RouteTakes
  <2>4. packet[s].field \in 0..255 /\ (packet[s].field = 0 \/ packet[s].field >= 128)
    <3>1. PacketOK(packet[s], ct, kind)
      BY <1>1 DEF IInv, Marking
    <3> QED BY <3>1 DEF PacketOK
  <2>5. w # Rejected
    BY <2>3, SMTT(60) DEF Rejected
  <2>6. \/ w.to \in plan[Table("balancing", 0)]
        \/ \E p \in {"balance", "block"}, u \in Ids : w.to = u /\ u \in plan[Table(p, u)]
    <3>1. Kernel
      BY <1>1 DEF IInv
    <3> QED BY <2>3, <2>4, <2>5, <3>1, NewRoutes
  <2>7. plan[Table("balancing", 0)] = active
    BY TablesAre, Purpose DEF plan
  <2>8. ASSUME NEW p \in {"balance", "block"}, NEW u \in Ids, u \in plan[Table(p, u)]
        PROVE  paths[u] = "up"
    <3>1. Table(p, u) \in Tables /\ Table(p, u).purpose = p /\ Table(p, u).id = u
      BY TablesAre, Purpose, SMTT(60) DEF Purposes
    <3>2. HasRoute(u, p)
      BY <2>8, <3>1 DEF plan
    <3> QED BY <3>2 DEF HasRoute
  <2>9. \A u \in active : paths[u] \in {"down", "up"}
    BY <1>1 DEF IInv, Selected
  <2> QED BY <2>3, <2>6, <2>7, <2>8, <2>9
<1> QED BY Invariance, <1>1, PTL DEF Spec, DrainTakesNone
=============================================================================
