---------------------------- MODULE MachineSlot ----------------------------
(***************************************************************************)
(* What the privileged service promises the machine: at most one user at a *)
(* time holds the VPN, it is granted only on a network nobody has touched  *)
(* or may still touch, and whatever a tunnel leaves behind closes the      *)
(* service to new users until it is known to be repaired.                  *)
(*                                                                         *)
(* Module Daemon implements this specification.                            *)
(***************************************************************************)
CONSTANTS Users, Nobody

VARIABLES
    holder,   \* the user the VPN is granted to
    phase,    \* "idle", "reserved" (nothing runs yet) or "tunnel"
    dirty,    \* network changes are pending, or a process that makes them is alive
    blocked   \* the service refuses to grant the VPN

slotVars == <<holder, phase, dirty, blocked>>

SlotTypeOK ==
    /\ holder \in Users \cup {Nobody}
    /\ phase \in {"idle", "reserved", "tunnel"}
    /\ dirty \in BOOLEAN /\ blocked \in BOOLEAN

SlotInit ==
    /\ holder = Nobody /\ phase = "idle"
    /\ dirty \in BOOLEAN /\ blocked \in BOOLEAN
    /\ dirty => blocked

Grant(u) ==
    /\ phase = "idle" /\ ~blocked /\ ~dirty
    /\ holder' = u /\ phase' = "reserved"
    /\ UNCHANGED <<dirty, blocked>>

Withdraw ==
    /\ phase = "reserved"
    /\ holder' = Nobody /\ phase' = "idle"
    /\ UNCHANGED <<dirty, blocked>>

Begin ==
    /\ phase = "reserved"
    /\ phase' = "tunnel"
    /\ UNCHANGED <<holder, dirty, blocked>>

\* The tunnel configures the network, or its changes are undone.
Mutate ==
    /\ phase = "tunnel"
    /\ dirty' \in BOOLEAN
    /\ UNCHANGED <<holder, phase, blocked>>

\* A tunnel ends; what it leaves behind closes the service.
Release ==
    /\ phase = "tunnel"
    /\ holder' = Nobody /\ phase' = "idle"
    /\ blocked' \in BOOLEAN /\ (dirty => blocked')
    /\ UNCHANGED dirty

\* While the service is closed, abandoned processes and repairs run.
Repair ==
    /\ phase = "idle" /\ blocked
    /\ dirty' \in BOOLEAN
    /\ UNCHANGED <<holder, phase, blocked>>

Reopen ==
    /\ phase = "idle" /\ ~dirty
    /\ blocked' = FALSE
    /\ UNCHANGED <<holder, phase, dirty>>

SlotNext ==
    \/ \E u \in Users : Grant(u)
    \/ Withdraw \/ Begin \/ Mutate \/ Release \/ Repair \/ Reopen

SlotSpec == SlotInit /\ [][SlotNext]_slotVars
=============================================================================
