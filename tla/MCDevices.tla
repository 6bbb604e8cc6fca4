----------------------------- MODULE MCDevices -----------------------------
(* Instances of Devices for TLC.                                           *)
EXTENDS DevicesProperties, TLC

\* Pointers, bus addresses and threads are interchangeable.
Symmetric == Permutations(Handles) \cup Permutations(Addrs) \cup Permutations(Clients)

\* The table follows the bus, whatever fails on the way: who is gone for good loses its
\* id, and who stays gets one and keeps it once libusb stops failing.
TableFollowsTheBus == GoneIsUnlisted /\ PresentIsListed
=============================================================================
