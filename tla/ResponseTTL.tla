---------------------------- MODULE ResponseTTL ----------------------------
(***************************************************************************)
(* The times to live of a DNS response, from the server to the answers out  *)
(* of the cache (dns/client.go: extractNegativeTTL, the end of Exchange,     *)
(* storeCache, loadResponse).  A response is the times to live of its        *)
(* sections answer, ns and extra, and minttl, the minimum field of the SOA   *)
(* record if the first record of the authority section is one.  A time is    *)
(* counted in parts of a second.                                            *)
(***************************************************************************)
LOCAL INSTANCE Naturals
LOCAL INSTANCE Sequences
LOCAL INSTANCE SequencesExt

CONSTANTS
    Parts,      \* parts of a second
    Width,      \* bits of a time to live: 32 in the code, fewer for TLC's integers
    None

Uint32 == 2^Width

Records(r) == r.answer \o r.ns \o r.extra

Least(a, b) == IF a < b THEN a ELSE b

extractNegativeTTL(r) == Least(r.ns[1], r.minttl)

(* Mutant: a record with time to live 0 counts as the least one.            *)
MutSmaller(least, ttl) == IF least = 0 \/ ttl < least THEN ttl ELSE least

(* The step of the loops over the records.                                  *)
Smaller(least, ttl) == IF least = 0 \/ (ttl > 0 /\ ttl < least) THEN ttl ELSE least

LoopTTL(records) == FoldLeft(Smaller, 0, records)

NegativeTTL(r) ==
    IF r.answer = <<>> /\ r.minttl # None THEN extractNegativeTTL(r) ELSE 0

ComputedTTL(r, rewrite) ==
    IF rewrite # None THEN rewrite
    ELSE IF NegativeTTL(r) # 0 THEN NegativeTTL(r) ELSE LoopTTL(Records(r))

Each(r, TTL(_)) ==
    [r EXCEPT !.answer = [i \in DOMAIN @ |-> TTL(@[i])],
              !.ns = [i \in DOMAIN @ |-> TTL(@[i])],
              !.extra = [i \in DOMAIN @ |-> TTL(@[i])]]

(* The end of Exchange: every record gets the time to live.                 *)
WithTTL(r, timeToLive) == Each(r, LAMBDA ttl : timeToLive)

(* Mutant: the time left is rounded up.                                     *)
MutNowTTL(expireAt, clock) == (expireAt - clock + Parts - 1) \div Parts

(* Seconds() truncated to an integer.                                       *)
NowTTL(expireAt, clock) == (expireAt - clock) \div Parts

(* loadResponse: each time to live less the time that has passed, as uint32. *)
Aged(r, expireAt, clock) ==
    LET originTTL == LoopTTL(Records(r))
        nowTTL == NowTTL(expireAt, clock)
        duration == (originTTL + Uint32 - nowTTL) % Uint32
    IN  Each(r, LAMBDA ttl : IF originTTL > 0 THEN (ttl + Uint32 - duration) % Uint32
                             ELSE nowTTL)
=============================================================================
