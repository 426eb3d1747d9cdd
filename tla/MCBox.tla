------------------------------- MODULE MCBox -------------------------------
(* Instances of Box for TLC: any part may fail in a box with a rule-set and   *)
(* simple outbounds; and every dependency graph of three outbounds, one of   *)
(* them missing, in a box without.                                          *)
EXTENDS Box

MCList == <<"a", "b", "c">>
MCContents == {"1", "2", "bad"}
MCEtags == [c \in MCContents |-> c]

Chain == [t \in Tags |-> CASE t = "a" -> <<"b">> [] OTHER -> <<>>]

(* The order of a list only chooses among the causes the linter may name.   *)
Rank(t) == CHOOSE i \in 1..4 : <<"x", "a", "b", "c">>[i] = t
Ordered == {s \in Lists : \A i, j \in DOMAIN s : i < j => Rank(s[i]) < Rank(s[j])}

MCInit ==
    /\ \/ /\ ruled = TRUE /\ faulty = Parts /\ deps = Chain
          /\ \/ target = Len(start) /\ faults = MaxFaults
             \/ target = Len(preStart) /\ faults = 1
       \/ ruled = FALSE /\ faulty = {"outbound"} /\ deps \in [Tags -> Ordered]
          /\ faults = 1 /\ server = "1" /\ target = Len(preStart)
    /\ Init

MCSpec == MCInit /\ [][Next]_vars /\ Fairness
=============================================================================
