------------------------------- MODULE Pinning ------------------------------
(***************************************************************************)
(* What the marks promise to a tracked connection (SPEC.md INV-2, INV-5):  *)
(* once a path is assigned to it, every packet that enters afterwards      *)
(* leaves through that path or is rejected, for the whole life of the      *)
(* connection.  The assignment is made by its first packet: by the uplink  *)
(* that it came in or went out through.  Destinations that the main table  *)
(* covers are exempt (INV-1).                                              *)
(***************************************************************************)
EXTENDS Naturals

CONSTANTS Ids, Slots, Free, Early, Pinned, Bypassed

VARIABLES
  path,     \* 0, or the path of the connection
  packets,  \* under way, by when they entered and how they leave
  out       \* the uplink that the last packet left through, 0 if it was rejected

pvars == <<path, packets, out>>

PInit == path = 0 /\ packets = [s \in Slots |-> Free] /\ out = 0

\* A packet enters, before or after the assignment.
Enter(s) ==
  /\ packets[s] = Free
  /\ packets' = [packets EXCEPT ![s] = IF path = 0 THEN Early ELSE Pinned]
  /\ UNCHANGED <<path, out>>

\* A packet comes in through u and assigns it.
Arrive(u) == path = 0 /\ path' = u /\ UNCHANGED <<packets, out>>

\* The main table covers the destination.
Bypass(s) ==
  /\ packets[s] \in {Early, Pinned}
  /\ packets' = [packets EXCEPT ![s] = Bypassed]
  /\ UNCHANGED <<path, out>>

\* A packet leaves through u.
Leave(s, u) ==
  /\ packets[s] # Free
  /\ packets[s] = Pinned => u = path
  /\ packets' = [packets EXCEPT ![s] = Free]
  /\ out' = u
  /\ \/ path = 0 /\ path' = u
     \/ UNCHANGED path

Reject(s) ==
  /\ packets[s] # Free
  /\ packets' = [packets EXCEPT ![s] = Free]
  /\ out' = 0
  /\ UNCHANGED path

PNext ==
  \/ \E u \in Ids : Arrive(u)
  \/ \E s \in Slots : Enter(s) \/ Bypass(s) \/ Reject(s) \/ \E u \in Ids : Leave(s, u)

PSpec == PInit /\ [][PNext]_pvars
=============================================================================
