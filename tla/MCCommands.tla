----------------------------- MODULE MCCommands -----------------------------
(* Commands on small instances. *)
EXTENDS Commands

\* A reload removes uplink b, or restores it.
RemovingConfigs == {{<<1, "a">>, <<2, "b">>}, {<<1, "a">>}}

Order(action, n) == [action |-> action, name |-> n, force |-> FALSE]

Drains == {Order("drain", "a"), Order("drain", "b"), Order("undrain", "b")}

\* The id of b goes to another name, or b gets another id and a is removed.
ReusingConfigs ==
    {{<<1, "a">>, <<2, "b">>}, {<<1, "a">>, <<2, "c">>}, {<<3, "b">>}}

AllKinds ==
    [action : {"drain", "undrain", "forget"}, name : {"b"}, force : {FALSE}]
      \cup {[action |-> "reload"]}
=============================================================================
