---------------------------- MODULE MCDNSClient ----------------------------
(* An instance of DNSClient for TLC.                                        *)
EXTENDS DNSClient

CONSTANTS name, server, local, remote

Rq(q, t, cached, checked) == [q |-> q, t |-> t, cached |-> cached, checked |-> checked]
Ans(rcode, ttl, pass) == [rcode |-> rcode, ttl |-> ttl, pass |-> pass]

(* To dial the server remote, its name is looked up with the server local,   *)
(* or with itself, which the loop check finds.                              *)
MCNeeds ==
    [t \in Servers |-> IF t = remote THEN {[q |-> server, t |-> local], [q |-> server, t |-> remote]}
                       ELSE {}]

MCRequests == {Rq(name, remote, TRUE, TRUE), Rq(name, remote, FALSE, FALSE)}

MCAnswers == {Ans("success", TRUE, TRUE), Ans("success", FALSE, FALSE)}
=============================================================================
