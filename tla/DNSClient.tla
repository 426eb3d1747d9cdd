----------------------------- MODULE DNSClient -----------------------------
(***************************************************************************)
(* The DNS client (dns/client.go): its cache, the lock per question that    *)
(* makes concurrent exchanges share one answer, the cache of rejected       *)
(* responses, and the lookup of a server's own address that an exchange may *)
(* cause while it holds its lock.  How long an entry of the cache lives is  *)
(* left open here; module ResponseTTL has the arithmetic.                   *)
(*                                                                          *)
(* An exchange is a goroutine in Client.Exchange.  A request is a record    *)
(*   q : the question          t : the server (transport)                   *)
(*   cached : the cache may be used (a simple request, caching enabled)     *)
(*   checked : there is a responseChecker (a rule with an address filter)   *)
(* and an answer of a server                                                *)
(*   rcode : "success", "nxdomain" or "servfail"                            *)
(*   ttl : is timeToLive positive          pass : the check's result        *)
(***************************************************************************)
EXTENDS Naturals, FiniteSets

CONSTANTS
    Exchanges,      \* goroutines
    Questions,
    Servers,
    Requests,       \* what the router asks of the client
    Needs,          \* [Servers -> SUBSET [q, t]]: the lookup that dialing a server makes
    Answers,        \* what servers answer
    Independent,    \* Client.independentCache
    DisableExpire,  \* Client.disableExpire
    None

ASSUME DNSClientConstants ==
    /\ None \notin Exchanges /\ None \notin Servers
    /\ Requests \subseteq [q : Questions, t : Servers, cached : BOOLEAN, checked : BOOLEAN]
    /\ Needs \in [Servers -> SUBSET [q : Questions, t : Servers]]
    /\ Answers \subseteq [rcode : {"success", "nxdomain", "servfail"}, ttl : BOOLEAN,
                          pass : BOOLEAN]
    /\ Independent \in BOOLEAN /\ DisableExpire \in BOOLEAN

VARIABLES
    cache,      \* Client.cache or transportCache: a response's rcode per key, None if absent
    lock,       \* Client.cacheLock or transportCacheLock: who closes the channel of a question
    rdrc,       \* pairs <<t, q>> the RDRC store knows as rejected
    pc,         \* where each exchange is
    call        \* what it is about: its request, the transport tag in its context, the
                \* exchange whose dialer waits for it (None for the router's), the owner
                \* of the channel it waits on, and what it returns: an rcode or "error"

vars == <<cache, lock, rdrc, pc, call>>

Keys == IF Independent THEN Questions \X Servers ELSE Questions \X {None}
Key(q, t) == <<q, IF Independent THEN t ELSE None>>
Lookups == [q : Questions, t : Servers, cached : {TRUE}, checked : {FALSE}]
Pcs == {"idle", "lookup", "lock", "wait", "load", "check", "dial", "nested", "upstream",
        "unlock", "close", "returned"}
Rcodes == {"success", "nxdomain", "servfail"}
Results == Rcodes \union {"error"}

Init ==
    /\ cache = [k \in Keys |-> None]
    /\ lock = [q \in Questions |-> None]
    /\ rdrc = {}
    /\ pc = [e \in Exchanges |-> "idle"]
    /\ call = [e \in Exchanges |-> None]

At(e, from, to) == pc[e] = from /\ pc' = [pc EXCEPT ![e] = to]

Returns(e, result) == call' = [call EXCEPT ![e].result = result]

Called(r, tag, caller) ==
    [req |-> r, tag |-> tag, caller |-> caller, waitOn |-> None, result |-> None]

-----------------------------------------------------------------------------
(* Exchange is called by the router.  The early answers to a malformed       *)
(* message and to a family the strategy excludes touch no state.            *)
Exchange(e, r) ==
    /\ At(e, "idle", IF r.cached THEN "lock" ELSE "check")
    /\ call' = [call EXCEPT ![e] = Called(r, None, None)]
    /\ UNCHANGED <<cache, lock, rdrc>>

(* cacheLock.LoadOrStore: the first exchange of a question owns its channel, *)
(* the others wait until it is closed.                                      *)
LoadOrStore(e) ==
    LET q == call[e].req.q IN
    \/ /\ At(e, "lock", "load")
       /\ lock[q] = None
       /\ lock' = [lock EXCEPT ![q] = e]
       /\ UNCHANGED <<cache, rdrc, call>>
    \/ /\ At(e, "lock", "wait")
       /\ lock[q] # None
       /\ call' = [call EXCEPT ![e].waitOn = lock[q]]
       /\ UNCHANGED <<cache, lock, rdrc>>

(* loadResponse: an entry within its lifetime answers, and one that has      *)
(* outlived it is removed.                                                  *)
Hit(e) ==
    LET k == Key(call[e].req.q, call[e].req.t) IN
    cache[k] # None /\ Returns(e, cache[k]) /\ UNCHANGED cache

Miss(e) ==
    LET k == Key(call[e].req.q, call[e].req.t) IN
    /\ cache[k] = None \/ ~DisableExpire
    /\ cache' = [cache EXCEPT ![k] = None]
    /\ UNCHANGED call

Load(e) ==
    /\ \/ At(e, "load", "unlock") /\ Hit(e)
       \/ At(e, "load", "check") /\ Miss(e)
    /\ UNCHANGED <<lock, rdrc>>

(* lookupToExchange asks the cache first, without the lock.                 *)
QuestionCache(e) ==
    /\ \/ At(e, "lookup", "unlock") /\ Hit(e)
       \/ At(e, "lookup", "lock") /\ Miss(e)
    /\ UNCHANGED <<lock, rdrc>>

KnownRejected(r) == r.cached /\ r.checked /\ <<r.t, r.q>> \in rdrc

(* The loop check, then the cache of rejected responses.                    *)
Check(e) ==
    LET r == call[e].req
        loop == call[e].tag = r.t IN
    /\ \/ /\ At(e, "check", "unlock") /\ loop
          /\ Returns(e, "error")
       \/ /\ At(e, "check", "unlock") /\ ~loop /\ KnownRejected(r)
          /\ Returns(e, "error")
       \/ /\ At(e, "check", "dial") /\ ~loop /\ ~KnownRejected(r)
          /\ UNCHANGED call
    /\ UNCHANGED <<cache, lock, rdrc>>

-----------------------------------------------------------------------------
(* transport.Exchange.  A server with an open connection is asked at once;   *)
(* to dial one whose address is a name, its dialer looks the name up with    *)
(* the context of the exchange.                                             *)
Dialed(e) ==
    /\ At(e, "dial", "upstream")
    /\ UNCHANGED <<cache, lock, rdrc, call>>

Lookup(e, c, n) ==
    /\ pc[e] = "dial" /\ pc[c] = "idle"
    /\ pc' = [pc EXCEPT ![e] = "nested", ![c] = "lookup"]
    /\ call' = [call EXCEPT ![c] =
                   Called([q |-> n.q, t |-> n.t, cached |-> TRUE, checked |-> FALSE],
                          call[e].req.t, e)]
    /\ UNCHANGED <<cache, lock, rdrc>>

LookupReturned(c) ==
    LET e == call[c].caller IN
    /\ pc[c] = "returned"
    /\ \/ /\ call[c].result = "success"
          /\ pc' = [pc EXCEPT ![c] = "idle", ![e] = "upstream"]
          /\ call' = [call EXCEPT ![c] = None]
       \/ /\ call[c].result # "success"
          /\ pc' = [pc EXCEPT ![c] = "idle", ![e] = "unlock"]
          /\ call' = [call EXCEPT ![c] = None, ![e].result = "error"]
    /\ UNCHANGED <<cache, lock, rdrc>>

(* The server does not answer, or the exchange times out.                   *)
Fails(e) ==
    /\ At(e, "upstream", "unlock")
    /\ Returns(e, "error")
    /\ UNCHANGED <<cache, lock, rdrc>>

Cacheable(e, a) == call[e].req.cached /\ a.rcode \in {"success", "nxdomain"}

(* responseChecker rejects: the rejection is saved, the response is not.    *)
Rejected(e, a) ==
    LET r == call[e].req IN
    /\ At(e, "upstream", "unlock")
    /\ r.checked /\ (a.rcode # "success" \/ ~a.pass)
    /\ Returns(e, "error")
    /\ rdrc' = IF Cacheable(e, a) THEN rdrc \union {<<r.t, r.q>>} ELSE rdrc
    /\ UNCHANGED <<cache, lock>>

StoreCache(e, a) ==
    cache' = IF a.ttl THEN [cache EXCEPT ![Key(call[e].req.q, call[e].req.t)] = a.rcode]
             ELSE cache

Answered(e, a) ==
    /\ At(e, "upstream", "unlock")
    /\ ~call[e].req.checked \/ (a.rcode = "success" /\ a.pass)
    /\ Returns(e, a.rcode)
    /\ IF Cacheable(e, a) THEN StoreCache(e, a) ELSE UNCHANGED cache
    /\ UNCHANGED <<lock, rdrc>>

-----------------------------------------------------------------------------
(* Exchange ends: its goroutine goes back to the router or to the dialer.    *)
Done(e) == IF call[e].caller = None THEN "idle" ELSE "returned"
Forget(e) == IF call[e].caller = None THEN [call EXCEPT ![e] = None] ELSE call

(* Mutant: an exchange that failed returns without its deferred call.       *)
MutUnlock(e) ==
    LET q == call[e].req.q IN
    \/ /\ At(e, "unlock", "close")
       /\ lock[q] = e /\ call[e].result # "error"
       /\ lock' = [lock EXCEPT ![q] = None]
       /\ UNCHANGED <<cache, rdrc, call>>
    \/ /\ At(e, "unlock", Done(e))
       /\ lock[q] # e \/ call[e].result = "error"
       /\ call' = Forget(e)
       /\ UNCHANGED <<cache, lock, rdrc>>

(* The deferred function of an owner forgets the channel and then closes it, *)
(* which lets everyone who waits on it go on.                               *)
Unlock(e) ==
    LET q == call[e].req.q IN
    \/ /\ At(e, "unlock", "close")
       /\ lock[q] = e
       /\ lock' = [lock EXCEPT ![q] = None]
       /\ UNCHANGED <<cache, rdrc, call>>
    \/ /\ At(e, "unlock", Done(e))
       /\ lock[q] # e
       /\ call' = Forget(e)
       /\ UNCHANGED <<cache, lock, rdrc>>

(* Mutant: only one of those who wait goes on.                              *)
MutCloseChannel(e) ==
    LET waiters == {x \in Exchanges : pc[x] = "wait" /\ call[x].waitOn = e} IN
    /\ pc[e] = "close"
    /\ IF waiters = {} THEN pc' = [pc EXCEPT ![e] = Done(e)]
       ELSE \E x \in waiters : pc' = [pc EXCEPT ![e] = Done(e), ![x] = "load"]
    /\ call' = Forget(e)
    /\ UNCHANGED <<cache, lock, rdrc>>

CloseChannel(e) ==
    /\ pc[e] = "close"
    /\ pc' = [x \in Exchanges |-> IF x = e THEN Done(e)
                                  ELSE IF pc[x] = "wait" /\ call[x].waitOn = e THEN "load"
                                  ELSE pc[x]]
    /\ call' = [x \in Exchanges |-> IF pc[x] = "wait" /\ call[x].waitOn = e
                                    THEN [call[x] EXCEPT !.waitOn = None] ELSE Forget(e)[x]]
    /\ UNCHANGED <<cache, lock, rdrc>>

-----------------------------------------------------------------------------
ClearCache ==
    /\ cache' = [k \in Keys |-> None]
    /\ UNCHANGED <<lock, rdrc, pc, call>>

(* The LRU evicts an entry; a rejection expires.                            *)
Evict(k) ==
    /\ cache[k] # None
    /\ cache' = [cache EXCEPT ![k] = None]
    /\ UNCHANGED <<lock, rdrc, pc, call>>

RDRCExpires(x) ==
    /\ x \in rdrc
    /\ rdrc' = rdrc \ {x}
    /\ UNCHANGED <<cache, lock, pc, call>>

Step(e) ==
    \/ LoadOrStore(e) \/ Load(e) \/ QuestionCache(e) \/ Check(e)
    \/ Dialed(e) \/ LookupReturned(e) \/ Fails(e) \/ Unlock(e) \/ CloseChannel(e)
    \/ \E a \in Answers : Rejected(e, a) \/ Answered(e, a)

Next ==
    \/ \E e \in Exchanges :
          \/ Step(e)
          \/ \E r \in Requests : Exchange(e, r)
          \/ pc[e] = "dial" /\ \E c \in Exchanges, n \in Needs[call[e].req.t] : Lookup(e, c, n)
    \/ ClearCache
    \/ \E k \in Keys : Evict(k)
    \/ \E x \in rdrc : RDRCExpires(x)

Spec == Init /\ [][Next]_vars

(* Goroutines run, and every exchange with a server is bounded by timeouts.  *)
FairSpec == Spec /\ \A e \in Exchanges : WF_vars(Step(e))

-----------------------------------------------------------------------------
Calls == [req : Requests \union Lookups, tag : Servers \union {None},
          caller : Exchanges \union {None}, waitOn : Exchanges \union {None},
          result : Results \union {None}]

TypeOK ==
    /\ cache \in [Keys -> Rcodes \union {None}]
    /\ lock \in [Questions -> Exchanges \union {None}]
    /\ rdrc \subseteq Servers \X Questions
    /\ pc \in [Exchanges -> Pcs]
    /\ call \in [Exchanges -> Calls \union {None}]
    /\ \A e \in Exchanges : pc[e] # "idle" => call[e] \in Calls

(* Between LoadOrStore and the deferred function.                           *)
Locked == {"load", "check", "dial", "nested", "upstream", "unlock"}

(* No exchange waits for a channel that nobody will close: its owner is      *)
(* still in Exchange, with the lock or about to close the channel, on every  *)
(* path through Exchange, early returns included, and also when a new owner  *)
(* takes the question between Delete and close (client.go:143-171).         *)
WaiterHasOwner ==
    \A e \in Exchanges : pc[e] = "wait" =>
        LET o == call[e].waitOn IN
        /\ o \in Exchanges /\ o # e
        /\ \/ pc[o] = "close"
           \/ lock[call[e].req.q] = o /\ pc[o] \in Locked

(* An owner is on its way to the unlock of the question it locked.          *)
OwnerIsInside ==
    \A q \in Questions : lock[q] # None => pc[lock[q]] \in Locked /\ call[lock[q]].req.q = q

(* A caller waits for one lookup at a time.                                 *)
CallerWaits ==
    \A c \in Exchanges :
        /\ pc[c] = "returned" => call[c].caller # None
        /\ pc[c] # "idle" /\ call[c].caller # None =>
              /\ pc[call[c].caller] = "nested"
              /\ \A d \in Exchanges : pc[d] # "idle" /\ call[d].caller = call[c].caller => d = c

(* The inductive invariant.                                                 *)
IndInv == TypeOK /\ OwnerIsInside /\ WaiterHasOwner /\ CallerWaits

(* Every exchange returns (client.go:112-306), provided that the router does *)
(* not ask a server for the name by which that server itself is found: such  *)
(* an exchange waits at client.go:147 for the channel it has to close.      *)
ExchangeReturns ==
    \A e \in Exchanges : pc[e] # "idle" ~> pc[e] = "idle"
=============================================================================
