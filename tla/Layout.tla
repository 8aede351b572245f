------------------------------- MODULE Layout -------------------------------
(***************************************************************************)
(* The numbers of PolyWAN: which tables, rule priorities and values of the *)
(* mark's field an uplink has (plan.rs, model.rs), and which bases the     *)
(* validation accepts (config/validate.rs).                                *)
(***************************************************************************)
EXTENDS Naturals

CONSTANTS
  MaxTable,     \* the largest table id, 4 294 967 294
  MaxPriority   \* the last rule priority before the main table's, 32 765

\* The bounds of the code: table ids are u32, and rule 32766 looks up main.
ASSUME BoundsAssumption == MaxTable \in Nat /\ MaxPriority \in Nat

UplinkIds == 1..63
Reserved == {253, 254, 255}

balancing_table(base) == base
path_table(base, id) == base + id
policy_balance_table(base, id) == base + 64 + id
policy_block_table(base, id) == base + 128 + id
tables(base) == base..(base + 191)

priorities(base) == base..(base + 699)

\* The tables of the uplinks, by purpose.
UplinkTable(base, purpose, id) ==
  CASE purpose = "path" -> path_table(base, id)
    [] purpose = "balance" -> policy_balance_table(base, id)
    [] purpose = "block" -> policy_block_table(base, id)

Purposes == {"path", "balance", "block"}

\* The value of the field: a class in the two high bits, an id in the others.
Classes == {"path", "probe", "balance", "block"}

ClassBits(class) ==
  CASE class = "path" -> 0 [] class = "probe" -> 64 [] class = "balance" -> 128 [] class = "block" -> 192

FieldValue(class, id) == ClassBits(class) + id

\* The priorities of the static rules, in the order of the kernel.
Priority(base, rule, id) ==
  CASE rule = "probe" -> base + id
    [] rule = "probe guard" -> base + 64
    [] rule = "main bypass" -> base + 100
    [] rule = "path" -> base + 200 + id
    [] rule = "path guard" -> base + 264
    [] rule = "balance" -> base + 300 + id
    [] rule = "block" -> base + 400 + id
    [] rule = "block guard" -> base + 464
    [] rule = "source" -> base + 500 + id
    [] rule = "source guard" -> base + 564
    [] rule = "balancing" -> base + 600
    [] rule = "final guard" -> base + 699

\* Mutant: a base whose range ends within the reserved tables passes.
accepts_table_base_first(base) == base \in 1..(MaxTable - 191) /\ base \notin Reserved

\* routing.table_base
accepts_table_base(base) ==
  /\ base \in 1..(MaxTable - 191)
  /\ 253 \notin tables(base) /\ 255 \notin tables(base)

\* routing.rule_priority_base
accepts_priority_base(base) == base \in 1..(MaxPriority - 699)

\* routing.discovery_tables
accepts_discovery_table(base, t) == t >= 1 /\ t # 255 /\ t \notin tables(base)
=============================================================================
