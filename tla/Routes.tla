------------------------------- MODULE Routes -------------------------------
(***************************************************************************)
(* The route policy of crates/net/src/routes.rs, for one address family.   *)
(*                                                                         *)
(* tunnel_routes takes the included prefixes one by one and keeps the      *)
(* largest; bypass_routes takes the interface's addresses one by one.  The *)
(* order of the result and the expansion limit of 4096 routes are left     *)
(* out: a valid configuration has at most 256 entries of each kind and     *)
(* expands to less than 4096.                                              *)
(***************************************************************************)
EXTENDS RoutePolicy, FiniteSets

SE == INSTANCE SequencesExt

CONSTANTS
    MaxIncludes, MaxExcludes, MaxAddresses,   \* entries of a configuration (256)
    MaxEntries,     \* includes and addresses together
    Peers           \* possible transport peers

\* Without the unspecified and the broadcast address.
Unicast == 1..(Power[Width] - 2)

ASSUME PeerAssumption  == Peers \subseteq Unicast
ASSUME EntryAssumption ==
    /\ MaxIncludes \in Nat /\ MaxExcludes \in Nat
    /\ MaxAddresses \in Nat \ {0} /\ MaxEntries \in Nat \ {0}

VARIABLE rest    \* addresses the loop of bypass_routes has still to take

vars == <<config, todo, normalized, rest, bypass, stage>>

TypeOK ==
    /\ todo \in Seq(Networks) /\ normalized \subseteq Networks
    /\ rest \subseteq config.addresses /\ bypass \subseteq Networks
    /\ stage \in {"includes", "addresses", "planned"}

----------------------------------------------------------------------------
(* A valid configuration                                                   *)

UpTo(n, S) == {Range(s) : s \in SE!SeqOf(S, n)}

AddressLists == UpTo(MaxAddresses, [address : Unicast, prefix : 0..Width]) \ {{}}
IncludeLists == SE!SeqOf(Prefixes, MaxIncludes)

\* Bound: an exclusion is written without host bits, which are cleared before the
\* policy looks at it; an include is written with any.
ExcludeLists == UpTo(MaxExcludes, Networks)

\* A configuration that NetworkConfig::validate accepts: no address is the
\* peer, and the subnet, if there is one, has an address in it.
Valid(c) ==
    \E addresses \in AddressLists, peer \in Peers :
        /\ \A a \in addresses : a.address # peer
        /\ \E subnet \in {<<>>} \cup {<<n>> : n \in Networks} :
             /\ subnet # <<>> => \E a \in addresses : Contains(subnet[1], HostRoute(a.address))
             /\ \E includes \in IncludeLists, excludes \in ExcludeLists, full \in BOOLEAN :
                  /\ Len(includes) + Cardinality(addresses) <= MaxEntries
                  /\ c = [addresses |-> addresses, transport_peer |-> peer, subnet |-> subnet,
                          split_includes |-> includes, split_excludes |-> excludes, full_tunnel |-> full]

Init ==
    /\ Valid(config)
    /\ todo = Includes(config) /\ normalized = {}
    /\ rest = config.addresses /\ bypass = Excludes(config)
    /\ stage = "includes"

----------------------------------------------------------------------------
(* tunnel_routes                                                           *)

\* A prefix that is covered is skipped, one that covers others replaces them.
Absorb(routes, p) ==
    IF \E r \in routes : Contains(r, p)
      THEN routes ELSE {r \in routes : ~Contains(p, r)} \cup {p}

\* A default route is installed as its halves and never replaces the physical one.
AbsorbHalves(routes, p) ==
    IF p.prefix = 0 THEN Absorb(Absorb(routes, Lower(p)), Upper(p)) ELSE Absorb(routes, p)

TakeInclude ==
    /\ stage = "includes" /\ todo # <<>> /\ todo' = Tail(todo)
    /\ normalized' = AbsorbHalves(normalized, Head(todo))
    /\ UNCHANGED <<config, rest, bypass, stage>>

\* An exclusion, or the transport peer, takes the whole prefix.
Covered(p) == \E e \in Excludes(config) \cup {HostRoute(config.transport_peer)} : Contains(e, p)

RetainIncludes ==
    /\ stage = "includes" /\ todo = <<>> /\ stage' = "addresses"
    /\ normalized' = {p \in normalized : ~Covered(p)}
    /\ UNCHANGED <<config, todo, rest, bypass>>

----------------------------------------------------------------------------
(* bypass_routes                                                           *)

\* The children of an excluded connected prefix outrank the route that the
\* kernel makes for the address.
TakeAddress ==
    /\ stage = "addresses"
    /\ \E a \in rest :
         /\ rest' = rest \ {a}
         /\ bypass' = IF a.prefix # Width /\ \E e \in Excludes(config) : Contains(e, Normalize(a))
                        THEN bypass \cup Children(Normalize(a)) ELSE bypass
    /\ UNCHANGED <<config, todo, normalized, stage>>

\* Fault: the host routes are dropped only if the address is a host address.
RetainBypassHosts ==
    /\ stage = "addresses" /\ rest = {} /\ stage' = "planned"
    /\ bypass' = bypass \ config.addresses
    /\ UNCHANGED <<config, todo, normalized, rest>>

\* A local address remains local.
RetainBypass ==
    /\ stage = "addresses" /\ rest = {} /\ stage' = "planned"
    /\ bypass' = {b \in bypass : \A a \in config.addresses : b # HostRoute(a.address)}
    /\ UNCHANGED <<config, todo, normalized, rest>>

----------------------------------------------------------------------------
Next == TakeInclude \/ RetainIncludes \/ TakeAddress \/ RetainBypass

Spec == Init /\ [][Next]_vars
=============================================================================
