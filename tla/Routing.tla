------------------------------- MODULE Routing -------------------------------
(***************************************************************************)
(* The routing of a router of the fabric: the IPv6 tries its tables are     *)
(* kept in, the lookup through the neighbour table, the VRF of the source   *)
(* MAC and the group, and the choice of an output port by the static route  *)
(* of a packet or by weighted hashing (WCMP).  A table is filled route by   *)
(* route when the router starts; the lookups are pure and are checked in    *)
(* every table that can be built.                                          *)
(***************************************************************************)
EXTENDS Integers, Sequences, SequencesExt, FiniteSetsExt

CONSTANTS
  Width,        \* bits of an address
  Vrfs,         \* VRF ids in the configuration, DefaultVrf possibly among them
  DefaultVrf,   \* kDefaultVrfId
  MacToVrf,     \* src_mac_to_vrf_map_: a function on some of the source MACs
  Macs,         \* source MACs of packets
  Groups,       \* group id -> sequence of [weight, port], its output options
  GroupIds,     \* group ids the routes name, with or without a group
  NeighbourPorts,\* output ports of routes of the neighbour table
  HashBits,     \* width of the hash value, a multiple of 8
  MaxRoutes     \* bound on the routes of a configuration

VARIABLES
  ndv6,         \* ndv6_ip_table_
  vrfs,         \* vrf id -> its trie, once it has a route
  flows         \* ghost: the routes inserted, in order

vars == <<ndv6, vrfs, flows>>

Bits == {0, 1}
Addresses == [1..Width -> Bits]
Paths == UNION {[1..n -> Bits] : n \in 0..Width}
NdV6 == "ndv6"
Nothing == [port |-> -1, reason |-> "no route"]

\* A trie: its nodes by the path of bits that leads to them, and the data some
\* of them hold.
EmptyTrie == [nodes |-> {<<>>}, data |-> <<>>]

IsTrie(t) == t.nodes \subseteq Paths /\ DOMAIN t.data \subseteq t.nodes

TypeOK ==
  /\ IsTrie(ndv6) /\ \A v \in DOMAIN vrfs : IsTrie(vrfs[v])
  /\ DOMAIN vrfs \subseteq Vrfs
  /\ Len(flows) <= MaxRoutes
-----------------------------------------------------------------------------
(* The trie. *)

Upto(bits, n) == SubSeq(bits, 1, n)

\* A plausible bug: a node is created only at the end of the walk.
InsertLeaf(trie, prefix, value) ==
  IF prefix \in DOMAIN trie.data THEN trie
  ELSE [nodes |-> trie.nodes \cup {prefix}, data |-> (prefix :> value) @@ trie.data]

\* The walk follows the bits under the mask through the nodes that exist and
\* creates the rest; a node that has data keeps it, and an error is returned.
Insert(trie, prefix, value) ==
  IF prefix \in DOMAIN trie.data THEN trie
  ELSE [nodes |-> trie.nodes \cup {Upto(prefix, n) : n \in 0..Len(prefix)},
        data  |-> (prefix :> value) @@ trie.data]

\* How far the walk of an address gets: to the first missing child.
Depth(trie, address) ==
  Max({n \in 0..Len(address) : \A m \in 0..n : Upto(address, m) \in trie.nodes})

\* The last data met on the walk, or none.
FindLongest(trie, address) ==
  LET met == {n \in 0..Depth(trie, address) : Upto(address, n) \in DOMAIN trie.data}
  IN IF met = {} THEN {} ELSE {trie.data[Upto(address, Max(met))]}
-----------------------------------------------------------------------------
(* The table is read from the configuration. *)

Init == ndv6 = EmptyTrie /\ vrfs = <<>> /\ flows = <<>>

\* kDefaultWeightForNdv6OutputPort
Neighbour(port) == [weight |-> 1, port |-> port]

\* A route of the neighbour table: its port joins the options of its prefix.
InsertNeighbour(prefix, port) ==
  /\ Len(flows) < MaxRoutes
  /\ ndv6' = [Insert(ndv6, prefix, <<>>) EXCEPT !.data[prefix] = Append(@, Neighbour(port))]
  /\ flows' = Append(flows, [table |-> NdV6, prefix |-> prefix, value |-> port])
  /\ UNCHANGED vrfs

\* A route of a VRF; the VRF exists once it has one.
InsertFlow(vrf, prefix, group) ==
  /\ Len(flows) < MaxRoutes
  /\ LET trie == IF vrf \in DOMAIN vrfs THEN vrfs[vrf] ELSE EmptyTrie IN
     vrfs' = (vrf :> Insert(trie, prefix, group)) @@ vrfs
  /\ flows' = Append(flows, [table |-> vrf, prefix |-> prefix, value |-> group])
  /\ UNCHANGED ndv6

Next ==
  \E prefix \in Paths :
    \/ \E port \in NeighbourPorts : InsertNeighbour(prefix, port)
    \/ \E vrf \in Vrfs, group \in GroupIds : InsertFlow(vrf, prefix, group)
-----------------------------------------------------------------------------
(* Weighted choice of a port. *)

\* RotateLeftBits on HashBits bits.
RotateLeftBits(value, count) ==
  ((value * 2^count) % 2^HashBits) + value \div 2^(HashBits - count)

\* The rotations of 0, 4, 16, 8 and 12 bits of 32, in proportion.
Turn(stage, uplink) ==
  CASE stage = 1 -> 0
    [] stage = 2 -> IF uplink THEN HashBits \div 8 ELSE HashBits \div 2
    [] stage = 3 -> IF uplink THEN HashBits \div 4 ELSE (3 * HashBits) \div 8

HashValueRotation(hash, stage, uplink) == RotateLeftBits(hash, Turn(stage, uplink))

WeightSum(options) == FoldLeft(LAMBDA sum, o : sum + o.weight, 0, options)
PrefixSum(options, n) == WeightSum(SubSeq(options, 1, n))

\* A plausible bug: an option also takes the value equal to its weight.
PickInclusive(options, value) ==
  options[Min({n \in 1..Len(options) : value <= PrefixSum(options, n)})].port

\* The loop takes weights off the value until it is below the next one.
Pick(options, value) ==
  options[Min({n \in 1..Len(options) : value < PrefixSum(options, n)})].port

SelectOutputPort(options, hash, stage, uplink) ==
  Pick(options, HashValueRotation(hash, stage, uplink) % WeightSum(options))
-----------------------------------------------------------------------------
(* The pipeline. *)

\* The VRF of a packet: the default one when no MAC is mapped.
VrfOf(mac) ==
  IF MacToVrf = <<>> THEN {DefaultVrf}
  ELSE IF mac \in DOMAIN MacToVrf THEN {MacToVrf[mac]} ELSE {}

\* A plausible bug: the neighbour table is consulted only when the VRF has
\* no route.
OutputOptionsVrfFirst(address, mac) ==
  LET groups == UNION {FindLongest(vrfs[v], address) : v \in VrfOf(mac) \cap DOMAIN vrfs}
  IN IF groups \cap DOMAIN Groups # {} THEN {Groups[g] : g \in groups \cap DOMAIN Groups}
     ELSE FindLongest(ndv6, address)

\* GetOutputOptionsAndModifyPacket: the set of the one list of options, empty
\* on any of the errors (no VRF, no route, no group).
OutputOptions(address, mac) ==
  LET neighbours == FindLongest(ndv6, address)
      groups == UNION {FindLongest(vrfs[v], address) : v \in VrfOf(mac) \cap DOMAIN vrfs}
  IN IF neighbours # {}
     THEN neighbours
     ELSE {Groups[g] : g \in groups \cap DOMAIN Groups}

\* The port of a packet.  A static route, once the table has a match, decides,
\* and its index moves to the next hop's entry.
GetOutputPort(packet, stage) ==
  LET options == OutputOptions(packet.address, packet.mac)
  IN IF options = {} THEN Nothing
     ELSE IF packet.static # <<>>
     THEN [port |-> packet.static[packet.index + 1], reason |-> "static"]
     ELSE [port |-> SelectOutputPort(CHOOSE o \in options : TRUE, packet.hash, stage,
                                     packet.mac = "up"), reason |-> "table"]

\* RoutePacket: a packet whose hop limit is used up, or without a route, is
\* deleted.
RouteOf(packet, stage) ==
  IF packet.ttl = 0 THEN [port |-> -1, reason |-> "ttl"] ELSE GetOutputPort(packet, stage)
-----------------------------------------------------------------------------
(* Properties. *)

\* The routes of a table that match an address, and the first given of the
\* longest.
Matching(table, address) ==
  {n \in 1..Len(flows) :
     flows[n].table = table /\ IsPrefix(flows[n].prefix, address)}
Longest(table, address) ==
  LET m == Matching(table, address)
      longest == Max({Len(flows[n].prefix) : n \in m})
      best == SetToSortSeq({n \in m : Len(flows[n].prefix) = longest}, <)
  IN IF m = {} THEN {}
     ELSE IF table = NdV6 THEN {[i \in DOMAIN best |-> Neighbour(flows[best[i]].value)]}
     ELSE {flows[best[1]].value}

\* The trie answers the longest prefix among the routes inserted so far, in
\* whatever order they came: of a VRF the first one given when a prefix is given
\* twice, of the neighbours all of them (IPTable::insert, find_longest).
LongestPrefixMatch ==
  \A a \in Addresses :
    /\ FindLongest(ndv6, a) = Longest(NdV6, a)
    /\ \A v \in DOMAIN vrfs : FindLongest(vrfs[v], a) = Longest(v, a)

\* A packet the tables have a route for gets a port of that route, whatever
\* its hash: the neighbours' before any group's, and each port as often as its
\* weight says (SelectOutputPort's "Scheme 1").  A static route decides only for
\* a packet the tables know (GetOutputPort).
RoutedAsConfigured ==
  \A a \in Addresses, m \in Macs, stage \in 1..3 :
    LET near == Longest(NdV6, a)
        groups == UNION {Longest(v, a) : v \in VrfOf(m)} \cap DOMAIN Groups
        options == IF near # {} THEN near ELSE {Groups[g] : g \in groups}
        Sent(hash, ttl, static) ==
          RouteOf([address |-> a, mac |-> m, hash |-> hash, ttl |-> ttl,
                   static |-> static, index |-> 1], stage).port
        Hash(h) == RotateLeftBits(h, HashBits - Turn(stage, m = "up"))
    IN /\ Sent(0, 0, <<6, 7>>) = -1
       /\ Sent(1, 1, <<6, 7>>) = IF options = {} THEN -1 ELSE 7
       /\ options = {} => Sent(1, 1, <<>>) = -1
       /\ \A o \in options : \A port \in {x.port : x \in Range(o)} :
            Cardinality({h \in 0..(WeightSum(o) - 1) : Sent(Hash(h), 1, <<>>) = port})
              = WeightSum(SelectSeq(o, LAMBDA x : x.port = port))
=============================================================================
