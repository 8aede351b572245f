----------------------------- MODULE MCSysctls -----------------------------
EXTENDS Sysctls

MCFiles ==
  {[families |-> {"v4", "v6"}, interfaces |-> {"w"}, manage |-> TRUE],
   [families |-> {"v4"}, interfaces |-> {"w"}, manage |-> TRUE],
   [families |-> {"v4", "v6"}, interfaces |-> {"w"}, manage |-> FALSE]}
============================================================================
