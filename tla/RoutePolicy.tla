---------------------------- MODULE RoutePolicy -----------------------------
(***************************************************************************)
(* What a route plan is about: prefixes, the configuration, the routing    *)
(* table that plan of crates/net/src/unix/linux.rs makes of a policy, the  *)
(* kernel's lookup in it, and where each address should go.  Routes has    *)
(* the loops of crates/net/src/routes.rs that compute the policy.          *)
(*                                                                         *)
(* One address family, with addresses of Width bits (contains keeps the    *)
(* two families apart).                                                    *)
(***************************************************************************)
EXTENDS Naturals, Sequences, Functions

CONSTANT Width          \* bits of an address (32 or 128)

ASSUME WidthAssumption == Width \in Nat \ {0, 1}

VARIABLES
    config,      \* NetworkConfig
    todo,        \* includes the loop of tunnel_routes has still to take
    normalized,  \* its result so far
    bypass,      \* the result of bypass_routes so far
    stage        \* "includes", "addresses" or "planned"

----------------------------------------------------------------------------
(* Prefixes                                                                *)

Power[n \in Nat] == IF n = 0 THEN 1 ELSE 2 * Power[n - 1]

\* How many addresses share their first k bits.
Size == [k \in 0..Width |-> Power[Width - k]]

Hosts == 0..(Power[Width] - 1)

Prefixes == [address : Hosts, prefix : 0..Width]
HostRoute(d) == [address |-> d, prefix |-> Width]

\* The bits below the prefix are cleared.
Normalize(p) == [p EXCEPT !.address = (@ \div Size[p.prefix]) * Size[p.prefix]]

Networks == {p \in Prefixes : Normalize(p) = p}

Contains(outer, inner) ==
    /\ outer.prefix <= inner.prefix
    /\ Normalize([inner EXCEPT !.prefix = outer.prefix]).address = outer.address

\* The two prefixes of the next length.
Lower(p) == [address |-> p.address, prefix |-> p.prefix + 1]
Upper(p) == [address |-> p.address + Size[p.prefix + 1], prefix |-> p.prefix + 1]
Children(p) == {Lower(p), Upper(p)}

\* The addresses of a set of prefixes, by arithmetic on the addresses alone.
Addresses(routes) ==
    UNION {{d \in Hosts : d \div Size[r.prefix] = r.address \div Size[r.prefix]} : r \in routes}

----------------------------------------------------------------------------
(* The configuration                                                       *)

Everything == [address |-> 0, prefix |-> 0]

\* split_includes, then the subnet, then the default route of a full tunnel.
Includes(c) ==
    [i \in 1..Len(c.split_includes) |-> Normalize(c.split_includes[i])]
    \o [i \in 1..Len(c.subnet) |-> Normalize(c.subnet[i])]
    \o (IF c.full_tunnel THEN <<Everything>> ELSE <<>>)

Excludes(c) == {Normalize(e) : e \in c.split_excludes}

----------------------------------------------------------------------------
(* The table                                                               *)

\* plan: the peer's host route and the bypasses lead to the physical network,
\* the connected prefixes and the policy's routes into the tunnel, and each
\* address has its local route.  One table, as on macOS; Linux looks up the
\* local routes first.
Table ==
    [physical |-> {HostRoute(config.transport_peer)} \cup bypass,
     tunnel   |-> {Normalize(a) : a \in {b \in config.addresses : b.prefix # Width}}
                  \cup {p \in normalized : \A a \in config.addresses : Normalize(a) # p},
     local    |-> {HostRoute(a.address) : a \in config.addresses}]

Ways == {"physical", "tunnel", "local"}

\* External: the kernel's longest-prefix lookup, all ways of the best length.
Matches(way, d) == {r \in Table[way] : Contains(r, HostRoute(d))}
Lookup(d) ==
    {way \in Ways : \E r \in Matches(way, d) :
        \A other \in Ways : \A s \in Matches(other, d) : s.prefix <= r.prefix}

----------------------------------------------------------------------------
(* The promise                                                             *)

\* What the routes should do: a local address is local (a route into the tunnel
\* of the same length does not matter, it is the same interface); the transport
\* peer and every excluded address use the physical network, also inside an
\* include, an equal include and a connected prefix; what is included or connected
\* uses the tunnel; anything else is left to the routes of the machine.
Wanted(d) ==
    LET included == Range(config.split_includes) \cup Range(config.subnet) \cup config.addresses
    IN IF d \in {a.address : a \in config.addresses} THEN {"local"} \cup (Lookup(d) \cap {"tunnel"})
       ELSE IF d = config.transport_peer \/ d \in Addresses(config.split_excludes) THEN {"physical"}
       ELSE IF config.full_tunnel \/ d \in Addresses(included) THEN {"tunnel"}
       ELSE {}

\* The longest-prefix lookup in the planned table does that for every address:
\* no route of the policy outranks a bypass, and no bypass takes more than it
\* should, at every relationship between the prefixes.
PolicyHonoured == stage = "planned" => \A d \in Hosts : Lookup(d) = Wanted(d)

\* The loop loses nothing and keeps nothing twice, in whatever order the
\* includes come: what is left to take and what was kept have the included
\* addresses, and no kept prefix lies in another (a longer one could outrank a
\* bypass).
LosesNothing ==
    stage = "includes" =>
        /\ Addresses(normalized) \cup Addresses(Range(todo)) = Addresses(Range(Includes(config)))
        /\ \A p, q \in normalized : Addresses({p}) \cap Addresses({q}) # {} => p = q

\* From the first include to the kernel's lookup: the loop keeps the policy's
\* addresses and the finished table sends each where the policy wants it.
PlanFaithful == PolicyHonoured /\ LosesNothing
=============================================================================
