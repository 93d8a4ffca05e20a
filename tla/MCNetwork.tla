------------------------------ MODULE MCNetwork ------------------------------
(***************************************************************************)
(* Two routers and three hosts.  Addresses have four bits: 0-3 is the      *)
(* network of host a, 4-7 that of host b, 8-11 the link between the        *)
(* routers with host c on it, 12-15 is nowhere and each router sends it to *)
(* the other.  Router r1 has a longer route for 4-5 by way of host c.      *)
(***************************************************************************)
EXTENDS NetworkSystem

CONSTANT RoutePrefix     \* the prefix r1 is given for 4-5, of 3 bits

MCHosts == {"a", "b", "c"}
MCRouters == {"r1", "r2"}
MCIps == [a |-> <<2>>, b |-> <<5>>, c |-> <<10>>, r1 |-> <<8, 1>>, r2 |-> <<9, 4>>]
MCHostNextHop == [a |-> 1, b |-> 4, c |-> 9]
MCRoutes ==
    [r1 |-> <<RouteEntry(0, 0, {9}, 0), RouteEntry(8, 2, {}, 0), RouteEntry(0, 2, {}, 1),
              RouteEntry(RoutePrefix, 3, {10}, 0)>>,
     r2 |-> <<RouteEntry(0, 0, {8}, 0), RouteEntry(8, 2, {}, 0), RouteEntry(4, 2, {}, 1)>>]
MCLinks == << << <<"r1", 1>>, <<"r2", 1>>, <<"c", 1>> >>,
              << <<"r1", 2>>, <<"a", 1>> >>, << <<"r2", 2>>, <<"b", 1>> >> >>
===============================================================================
