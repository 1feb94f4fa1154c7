----------------------------- MODULE MCPublicIP -----------------------------
(* Over IPv4 two addresses, of which one may be cut to the other and to no *)
(* address; no way to the server over IPv6.                                *)
EXTENDS PublicIP, TLC

MCAddresses == ("tcp4" :> {"203.0.113.17", "203.0.113.1"}) @@ ("tcp6" :> {""})
MCCuts      == ("203.0.113.17" :> {"203.0.113.1", "203.0."}) @@ ("203.0.113.1" :> {})
MCParseIP   == MCAddresses["tcp4"]
=============================================================================
