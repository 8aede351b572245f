---------------------------- MODULE MCReconcile ----------------------------
(* Reconcile on small instances. *)
EXTENDS Reconcile

\* A reload moves the path of uplink 1 to another interface.
MovedConfigs == {{<<1, "a">>}, {<<1, "b">>}}

\* The family ends or begins; the path moves while another one takes its
\* interface, or comes back alone.
FamilyConfigs == {{}, {<<1, "a">>}, {<<1, "b">>, <<2, "a">>}}
=============================================================================
