----------------------------- MODULE MCJournal -----------------------------
(* Instances of Journal for TLC.                                           *)
EXTENDS Journal, TLC

CONSTANTS t1, t2, dhcp, address, route

\* Linux: key 1 is the address of the interface, key 2 its connected route.
LinuxConfigs == {(1 :> address) @@ (2 :> route)}
LinuxNeeds == 2 :> {1}
=============================================================================
