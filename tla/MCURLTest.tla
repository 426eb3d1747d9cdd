----------------------------- MODULE MCURLTest -----------------------------
(* Instances of URLTest for TLC: two plain outbounds, and g, a group whose   *)
(* selected outbound is b, so that they share a history.  a has no UDP.     *)
EXTENDS URLTest

MCOutbounds == <<"a", "b", "g">>
MCNetworks == <<"tcp", "udp">>
MCSupports == [o \in {"a", "b", "g"} |-> IF o = "a" THEN {"tcp"} ELSE {"tcp", "udp"}]
MCRealTag == [o \in {"a", "b", "g"} |-> IF o = "g" THEN "b" ELSE o]
MCDelays == {1, 3, 5}
=============================================================================
