-------------------------- MODULE DNSClientProofs --------------------------
(***************************************************************************)
(* Proofs about DNSClient: on every path through Exchange, whoever waits    *)
(* for the answer to a question waits for an exchange that will let it go   *)
(* on.                                                                      *)
(***************************************************************************)
EXTENDS DNSClient, TLAPS

LEMMA KeyInKeys ==
    ASSUME NEW q \in Questions, NEW t \in Servers
    PROVE  Key(q, t) \in Keys
  BY DNSClientConstants, Zenon DEF Key, Keys

LEMMA RequestFields ==
    ASSUME NEW r \in Requests \union Lookups
    PROVE  r.q \in Questions /\ r.t \in Servers /\ r.cached \in BOOLEAN /\ r.checked \in BOOLEAN
  BY DNSClientConstants, Zenon DEF Lookups

LEMMA InitIndInv == Init => IndInv
<1> SUFFICES ASSUME Init PROVE IndInv
  BY Zenon
<1>1. TypeOK
  BY Zenon DEF Init, TypeOK, Pcs
<1> QED
  BY <1>1, Zenon DEF Init, IndInv, OwnerIsInside, WaiterHasOwner, CallerWaits

(* A step of one goroutine between the lock and the unlock, or before the    *)
(* lock, that keeps what its call is about.                                 *)
LEMMA InnerStep ==
    ASSUME IndInv, TypeOK', NEW e \in Exchanges, NEW to \in Locked \union {"lock"},
           pc[e] \in (Locked \ {"nested"}) \union {"lookup"}, to # "nested",
           pc[e] \in Locked => to \in Locked,
           pc' = [pc EXCEPT ![e] = to], lock' = lock,
           \A x \in Exchanges : /\ call'[x].req = call[x].req
                                /\ call'[x].caller = call[x].caller
                                /\ call'[x].waitOn = call[x].waitOn
    PROVE  IndInv'
<1>1. /\ pc'[e] = to
      /\ \A x \in Exchanges \ {e} : pc'[x] = pc[x]
  BY Zenon DEF IndInv, TypeOK
<1>2. pc[e] \notin {"idle", "wait", "close", "nested"} /\ pc'[e] \notin {"idle", "wait",
"nested", "returned"}
  BY <1>1, Zenon DEF Locked
<1>3. WaiterHasOwner'
  BY <1>1, <1>2 DEF IndInv, WaiterHasOwner
<1>4. OwnerIsInside'
  BY <1>1 DEF OwnerIsInside, IndInv, TypeOK
<1>5. CallerWaits'
  <2>1. \A c \in Exchanges : pc'[c] = "idle" <=> pc[c] = "idle"
    BY <1>1, <1>2, Zenon
  <2>2. \A c \in Exchanges : /\ pc[c] = "nested" => pc'[c] = "nested"
                             /\ pc'[c] = "returned" => pc[c] = "returned"
    BY <1>1, <1>2, Zenon
  <2>3. \A c \in Exchanges : pc[c] # "idle" /\ call[c].caller # None => call[c].caller \in Exchanges
    BY Zenon DEF CallerWaits, IndInv, TypeOK, Calls
  <2> QED
    BY <2>1, <2>2, <2>3 DEF CallerWaits, IndInv
<1> QED
  BY <1>3, <1>4, <1>5, Zenon DEF IndInv

LEMMA ReturnsType ==
    ASSUME TypeOK, NEW e \in Exchanges, pc[e] # "idle", NEW r \in Results, Returns(e, r)
    PROVE  /\ call' \in [Exchanges -> Calls \union {None}]
           /\ call'[e] \in Calls
           /\ \A x \in Exchanges \ {e} : call'[x] = call[x]
           /\ \A x \in Exchanges : /\ call'[x].req = call[x].req
                                   /\ call'[x].caller = call[x].caller
                                   /\ call'[x].waitOn = call[x].waitOn
<1>2. call[e] \in Calls
  BY Zenon DEF TypeOK
<1>3. [call[e] EXCEPT !.result = r] \in Calls
  BY <1>2, Zenon DEF Calls
<1>4. call'[e] = [call[e] EXCEPT !.result = r]
  BY Zenon DEF Returns, TypeOK
<1>5. /\ call' \in [Exchanges -> Calls \union {None}]
      /\ \A x \in Exchanges \ {e} : call'[x] = call[x]
  BY <1>3, Zenon DEF Returns, TypeOK
<1> QED
  BY <1>2, <1>3, <1>4, <1>5, Zenon DEF Calls

LEMMA HitIndInv ==
    ASSUME IndInv, NEW e \in Exchanges, pc[e] \in {"load", "lookup"}, At(e, pc[e], "unlock"),
           Hit(e), UNCHANGED <<lock, rdrc>>
    PROVE  IndInv'
<1> DEFINE entry == cache[Key(call[e].req.q, call[e].req.t)]
<1>1. call[e].req.q \in Questions /\ call[e].req.t \in Servers
  BY RequestFields, Zenon DEF IndInv, TypeOK, Calls
<1>2. entry \in Results /\ Returns(e, entry)
  BY <1>1, KeyInKeys, Zenon DEF Hit, IndInv, TypeOK, Results
<1> HIDE DEF entry
<1>6. /\ call' \in [Exchanges -> Calls \union {None}]
      /\ call'[e] \in Calls
      /\ \A x \in Exchanges \ {e} : call'[x] = call[x]
      /\ \A x \in Exchanges : /\ call'[x].req = call[x].req
                              /\ call'[x].caller = call[x].caller
                              /\ call'[x].waitOn = call[x].waitOn
  BY <1>2, ReturnsType, Zenon DEF IndInv
<1>7. TypeOK'
  <2>1. cache' = cache
    BY Zenon DEF Hit
  <2>2. pc' \in [Exchanges -> Pcs]
    BY Zenon DEF At, IndInv, TypeOK, Pcs
  <2>3. \A x \in Exchanges : pc'[x] # "idle" => call'[x] \in Calls
    BY <1>6, Zenon DEF At, IndInv, TypeOK
  <2> QED
    BY <1>6, <2>1, <2>2, <2>3, Zenon DEF IndInv, TypeOK
<1> QED
  BY <1>6, <1>7, InnerStep, Zenon DEF At, Locked

LEMMA MissIndInv ==
    ASSUME IndInv, NEW e \in Exchanges, NEW to \in {"check", "lock"},
           pc[e] \in {"load", "lookup"}, pc[e] = "load" => to = "check",
           At(e, pc[e], to), Miss(e), UNCHANGED <<lock, rdrc>>
    PROVE  IndInv'
<1>1. cache' \in [Keys -> Rcodes \union {None}] /\ call' = call
  BY Zenon DEF Miss, IndInv, TypeOK
<1>2. TypeOK'
  BY <1>1, Zenon DEF At, IndInv, TypeOK, Pcs
<1> QED
  BY <1>1, <1>2, InnerStep, Zenon DEF At, Locked

LEMMA LoadIndInv ==
    ASSUME IndInv, NEW e \in Exchanges, Load(e) \/ QuestionCache(e)
    PROVE  IndInv'
<1>1. CASE Load(e)
  BY <1>1, HitIndInv, MissIndInv, Zenon DEF Load, At
<1>2. CASE QuestionCache(e)
  BY <1>2, HitIndInv, MissIndInv, Zenon DEF QuestionCache, At
<1> QED
  BY <1>1, <1>2, Zenon

(* A step that ends an exchange with a result.                              *)
LEMMA EndIndInv ==
    ASSUME IndInv, NEW e \in Exchanges, pc[e] \in {"check", "upstream"},
           pc' = [pc EXCEPT ![e] = "unlock"],
           NEW r \in Results, Returns(e, r), UNCHANGED lock,
           cache' \in [Keys -> Rcodes \union {None}], rdrc' \subseteq Servers \X Questions
    PROVE  IndInv'
<1>1. /\ call' \in [Exchanges -> Calls \union {None}]
      /\ call'[e] \in Calls
      /\ \A x \in Exchanges \ {e} : call'[x] = call[x]
      /\ \A x \in Exchanges : /\ call'[x].req = call[x].req
                              /\ call'[x].caller = call[x].caller
                              /\ call'[x].waitOn = call[x].waitOn
  BY ReturnsType, Zenon DEF IndInv
<1>2. TypeOK'
  <2>1. pc' \in [Exchanges -> Pcs]
    BY Zenon DEF IndInv, TypeOK, Pcs
  <2>2. \A x \in Exchanges : pc'[x] # "idle" => call'[x] \in Calls
    BY <1>1, Zenon DEF IndInv, TypeOK
  <2> QED
    BY <1>1, <2>1, <2>2, Zenon DEF IndInv, TypeOK
<1> QED
  BY <1>1, <1>2, InnerStep, Zenon DEF Locked

LEMMA CheckIndInv ==
    ASSUME IndInv, NEW e \in Exchanges, Check(e) \/ Dialed(e)
    PROVE  IndInv'
<1>1. CASE pc[e] \in {"check", "dial"} /\ pc' \in {[pc EXCEPT ![e] = "dial"],
[pc EXCEPT ![e] = "upstream"]}
           /\ UNCHANGED <<cache, lock, rdrc, call>>
  <2>1. TypeOK'
    BY <1>1, Zenon DEF IndInv, TypeOK, Pcs
  <2> QED
    BY <1>1, <2>1, InnerStep, Zenon DEF Locked
<1>2. CASE At(e, "check", "unlock") /\ Check(e)
  <2>1. /\ Returns(e, "error")
        /\ cache' \in [Keys -> Rcodes \union {None}] /\ rdrc' \subseteq Servers \X Questions
        /\ UNCHANGED lock
    BY <1>2, Zenon DEF Check, At, IndInv, TypeOK
  <2> QED
    BY <1>2, <2>1, EndIndInv, Zenon DEF At, Results
<1> QED
  BY <1>1, <1>2, Zenon DEF Check, Dialed, At

LEMMA AnswerIndInv ==
    ASSUME IndInv, NEW e \in Exchanges, NEW a \in Answers,
           Rejected(e, a) \/ Answered(e, a)
    PROVE  IndInv'
<1>1. call[e].req.q \in Questions /\ call[e].req.t \in Servers
  BY RequestFields, Zenon DEF Rejected, Answered, At, IndInv, TypeOK, Calls
<1>3. CASE Rejected(e, a)
  <2>1. rdrc' \subseteq Servers \X Questions
    BY <1>1, <1>3 DEF Rejected, IndInv, TypeOK
  <2> QED
    BY <1>3, <2>1, EndIndInv, Zenon DEF Rejected, At, Results, IndInv, TypeOK
<1>4. CASE Answered(e, a)
  <2>1. a.rcode \in Rcodes
    BY DNSClientConstants, Zenon DEF Rcodes
  <2>2. cache' \in [Keys -> Rcodes \union {None}]
    BY <1>1, <1>4, <2>1, KeyInKeys, Zenon DEF Answered, StoreCache, IndInv, TypeOK
  <2> QED
    BY <1>4, <2>1, <2>2, EndIndInv, Zenon DEF Answered, At, Results, IndInv, TypeOK
<1> QED
  BY <1>3, <1>4, Zenon

LEMMA BeginIndInv ==
    ASSUME IndInv, NEW e \in Exchanges, NEW r \in Requests, Exchange(e, r)
    PROVE  IndInv'
<1>1. Called(r, None, None) \in Calls
  BY Zenon DEF Called, Calls
<1>2. /\ pc[e] = "idle" /\ pc'[e] \in {"lock", "check"}
      /\ \A x \in Exchanges \ {e} : pc'[x] = pc[x] /\ call'[x] = call[x]
      /\ call'[e] = Called(r, None, None) /\ lock' = lock
  BY Zenon DEF Exchange, At, IndInv, TypeOK
<1>3. call'[e].caller = None
  BY <1>2 DEF Called
<1>4. TypeOK'
  BY <1>1, Zenon DEF Exchange, At, IndInv, TypeOK, Pcs
<1>5. WaiterHasOwner'
  BY <1>2 DEF IndInv, WaiterHasOwner, Locked
<1>6. \A q \in Questions : lock[q] # e
  BY <1>2, DNSClientConstants DEF IndInv, OwnerIsInside, Locked
<1>7. OwnerIsInside'
  BY <1>2, <1>6 DEF OwnerIsInside, IndInv, TypeOK
<1>8. CallerWaits'
  <2>1. \A c \in Exchanges : pc[c] # "idle" /\ call[c].caller # None => call[c].caller \in Exchanges
    BY Zenon DEF CallerWaits, IndInv, TypeOK, Calls
  <2> QED
    BY <1>2, <1>3, <2>1 DEF CallerWaits, IndInv
<1> QED
  BY <1>4, <1>5, <1>7, <1>8, Zenon DEF IndInv

LEMMA LookupIndInv ==
    ASSUME IndInv, NEW e \in Exchanges, NEW c \in Exchanges,
           pc[e] = "dial", NEW n \in Needs[call[e].req.t], Lookup(e, c, n)
    PROVE  IndInv'
<1> DEFINE k == Called([q |-> n.q, t |-> n.t, cached |-> TRUE, checked |-> FALSE],
                       call[e].req.t, e)
<1>1. k \in Calls
  <2>1. call[e].req.t \in Servers
    BY RequestFields, Zenon DEF IndInv, TypeOK, Calls
  <2>2. n.q \in Questions /\ n.t \in Servers
    BY <2>1, DNSClientConstants
  <2> QED
    BY <2>1, <2>2, Zenon DEF Called, Calls, Lookups
<1>2. /\ pc[c] = "idle" /\ pc'[e] = "nested" /\ pc'[c] = "lookup" /\ e # c
      /\ \A x \in Exchanges \ {e, c} : pc'[x] = pc[x]
      /\ \A x \in Exchanges \ {c} : call'[x] = call[x]
      /\ call'[c] = k /\ lock' = lock
  BY Zenon DEF Lookup, IndInv, TypeOK
<1>3. call'[c].caller = e
  BY <1>2 DEF Called
<1> HIDE DEF k
<1>4. TypeOK'
  <2>1. call' \in [Exchanges -> Calls \union {None}]
    BY <1>1, Zenon DEF Lookup, k, IndInv, TypeOK
  <2> QED
    BY <1>1, <1>2, <2>1, Zenon DEF Lookup, IndInv, TypeOK, Pcs
<1>5. WaiterHasOwner'
  BY <1>2 DEF IndInv, WaiterHasOwner, Locked
<1>6. \A q \in Questions : lock[q] # c
  BY <1>2, DNSClientConstants DEF IndInv, OwnerIsInside, Locked
<1>7. OwnerIsInside'
  BY <1>2, <1>6 DEF OwnerIsInside, IndInv, TypeOK, Locked
<1>8. CallerWaits'
  <2>1. \A d \in Exchanges : pc[d] # "idle" /\ call[d].caller # None =>
           /\ call[d].caller \in Exchanges
           /\ call[d].caller # e /\ call[d].caller # c
    BY <1>2, Zenon DEF CallerWaits, IndInv, TypeOK, Calls
  <2> QED
    BY <1>2, <1>3, <2>1, DNSClientConstants DEF CallerWaits, IndInv
<1> QED
  BY <1>4, <1>5, <1>7, <1>8, Zenon DEF IndInv

LEMMA LockIndInv ==
    ASSUME IndInv, NEW e \in Exchanges, LoadOrStore(e)
    PROVE  IndInv'
<1> DEFINE q == call[e].req.q
<1>1. q \in Questions /\ call[e] \in Calls
  BY RequestFields, Zenon DEF LoadOrStore, At, IndInv, TypeOK, Calls
<1>2. /\ pc[e] = "lock" /\ pc'[e] \in {"load", "wait"}
      /\ \A x \in Exchanges \ {e} : pc'[x] = pc[x]
  BY Zenon DEF LoadOrStore, At, IndInv, TypeOK
<1>3. \A p \in Questions : lock[p] # e
  BY <1>2, DNSClientConstants DEF IndInv, OwnerIsInside, Locked
<1>4. /\ call' \in [Exchanges -> Calls \union {None}] /\ call'[e] \in Calls
      /\ \A x \in Exchanges : call'[x].req = call[x].req /\ call'[x].caller = call[x].caller
      /\ \A x \in Exchanges \ {e} : call'[x] = call[x]
      /\ pc'[e] = "wait" => call'[e].waitOn = lock[q]
  <2>1. CASE UNCHANGED call /\ pc'[e] = "load"
    BY <1>1, <2>1, Zenon DEF IndInv, TypeOK
  <2>2. CASE call' = [call EXCEPT ![e].waitOn = lock[q]]
    <3>1. [call[e] EXCEPT !.waitOn = lock[q]] \in Calls
      BY <1>1, Zenon DEF Calls, IndInv, TypeOK
    <3>2. call' = [call EXCEPT ![e] = [call[e] EXCEPT !.waitOn = lock[q]]]
      BY <2>2, Zenon
    <3> QED
      BY <1>1, <3>1, <3>2, Zenon DEF Calls, IndInv, TypeOK
  <2> QED
    BY <1>2, <2>1, <2>2, Zenon DEF LoadOrStore, At, IndInv, TypeOK
<1>5. /\ lock' \in [Questions -> Exchanges \union {None}]
      /\ \/ lock[q] = None /\ pc'[e] = "load" /\ lock' = [lock EXCEPT ![q] = e]
         \/ lock[q] # None /\ pc'[e] = "wait" /\ lock' = lock
  BY <1>1, Zenon DEF LoadOrStore, At, IndInv, TypeOK
<1>6. TypeOK'
  <2>1. pc' \in [Exchanges -> Pcs]
    BY Zenon DEF LoadOrStore, At, IndInv, TypeOK, Pcs
  <2>2. \A x \in Exchanges : pc'[x] # "idle" => call'[x] \in Calls
    BY <1>2, <1>4, Zenon DEF IndInv, TypeOK
  <2> QED
    BY <1>4, <1>5, <2>1, <2>2, Zenon DEF LoadOrStore, IndInv, TypeOK
<1>7. OwnerIsInside'
  BY <1>1, <1>2, <1>3, <1>4, <1>5 DEF OwnerIsInside, IndInv, TypeOK, Locked
<1>8. WaiterHasOwner'
  <2> SUFFICES ASSUME NEW x \in Exchanges, pc'[x] = "wait"
               PROVE  LET o == call'[x].waitOn IN
                      /\ o \in Exchanges /\ o # x
                      /\ \/ pc'[o] = "close"
                         \/ lock'[call'[x].req.q] = o /\ pc'[o] \in Locked
    BY Zenon DEF WaiterHasOwner
  <2>1. CASE x = e
    <3>1. lock[q] # None /\ lock' = lock /\ call'[e].waitOn = lock[q]
      BY <1>4, <1>5, <2>1, Zenon
    <3>2. lock[q] \in Exchanges /\ lock[q] # e
      BY <1>1, <1>3, <3>1, Zenon DEF IndInv, TypeOK
    <3>3. pc'[lock[q]] \in Locked
      BY <1>1, <1>7, <3>1, Zenon DEF OwnerIsInside
    <3>4. call'[e].req.q = q
      BY <1>4, Zenon
    <3> QED
      BY <2>1, <3>1, <3>2, <3>3, <3>4, Zenon
  <2>2. CASE x # e
    <3>1. pc[x] = "wait" /\ call'[x] = call[x]
      BY <1>2, <1>4, <2>2, Zenon
    <3>2. call[x].req.q \in Questions
      BY <3>1, RequestFields, Zenon DEF IndInv, TypeOK, Calls
    <3> DEFINE o == call[x].waitOn
    <3>3. /\ o \in Exchanges /\ o # x
          /\ pc[o] = "close" \/ (lock[call[x].req.q] = o /\ pc[o] \in Locked)
      BY <3>1, Zenon DEF IndInv, WaiterHasOwner
    <3>4. pc'[o] = pc[o]
      BY <1>2, <3>3, Zenon DEF Locked
    <3>5. lock[call[x].req.q] = o => lock'[call[x].req.q] = o
      BY <1>1, <1>5, <3>2, <3>3, DNSClientConstants, Zenon DEF IndInv, TypeOK
    <3> QED
      BY <3>1, <3>3, <3>4, <3>5, Zenon
  <2> QED
    BY <2>1, <2>2, Zenon
<1>9. CallerWaits'
  <2>1. \A c \in Exchanges : pc[c] # "idle" /\ call[c].caller # None => call[c].caller \in Exchanges
    BY Zenon DEF CallerWaits, IndInv, TypeOK, Calls
  <2> QED
    BY <1>2, <1>4, <2>1 DEF CallerWaits, IndInv
<1> QED
  BY <1>6, <1>7, <1>8, <1>9, Zenon DEF IndInv

LEMMA LookupReturnedIndInv ==
    ASSUME IndInv, NEW c \in Exchanges, LookupReturned(c)
    PROVE  IndInv'
<1> DEFINE e == call[c].caller
           failed == [call[e] EXCEPT !.result = "error"]
<1>1. pc[c] = "returned" /\ e \in Exchanges /\ pc[e] = "nested" /\ e # c
  BY Zenon DEF LookupReturned, IndInv, TypeOK, Calls, CallerWaits
<1>2. call[e] \in Calls /\ failed \in Calls
  BY <1>1, Zenon DEF IndInv, TypeOK, Calls, Results
<1>3. /\ pc'[c] = "idle" /\ pc'[e] \in {"upstream", "unlock"}
      /\ \A x \in Exchanges \ {c, e} : pc'[x] = pc[x]
      /\ pc' \in [Exchanges -> Pcs]
  BY <1>1, Zenon DEF LookupReturned, IndInv, TypeOK, Pcs
<1>4. /\ call'[c] = None /\ call'[e] \in {call[e], failed}
      /\ \A x \in Exchanges \ {c, e} : call'[x] = call[x]
      /\ call' \in [Exchanges -> Calls \union {None}]
  <2>1. CASE call' = [call EXCEPT ![c] = None]
    BY <1>1, <2>1, Zenon DEF IndInv, TypeOK
  <2>2. CASE call' = [call EXCEPT ![c] = None,
                                  ![e].result = "error"]
    <3>1. call' = [call EXCEPT ![c] = None, ![e] = failed]
      BY <1>1, <2>2, Zenon DEF IndInv, TypeOK
    <3> QED
      BY <1>1, <1>2, <3>1, Zenon DEF IndInv, TypeOK
  <2> QED
    BY <2>1, <2>2, Zenon DEF LookupReturned
<1>5. call'[e].req = call[e].req /\ call'[e].caller = call[e].caller /\ call'[e] \in Calls
  BY <1>2, <1>4, Zenon DEF Calls
<1> HIDE DEF failed
<1>6. lock' = lock
  BY Zenon DEF LookupReturned
<1>7. TypeOK'
  <2>1. \A x \in Exchanges : pc'[x] # "idle" => call'[x] \in Calls
    BY <1>3, <1>4, <1>5, Zenon DEF IndInv, TypeOK
  <2> QED
    BY <1>3, <1>4, <1>6, <2>1, Zenon DEF LookupReturned, IndInv, TypeOK
<1>8. OwnerIsInside'
  BY <1>1, <1>3, <1>4, <1>5, <1>6 DEF IndInv, TypeOK, OwnerIsInside, Locked
<1>9. WaiterHasOwner'
  BY <1>1, <1>3, <1>4, <1>6 DEF IndInv, WaiterHasOwner, Locked
<1>10. CallerWaits'
  <2>1. \A d \in Exchanges : pc[d] # "idle" /\ call[d].caller # None => call[d].caller \in Exchanges
    BY Zenon DEF IndInv, TypeOK, Calls
  <2>2. \A d \in Exchanges \ {c} : pc[d] # "idle" => call[d].caller # e /\ call[d].caller # c
    BY <1>1, DNSClientConstants, Zenon DEF IndInv, CallerWaits
  <2> QED
    BY <1>1, <1>3, <1>4, <1>5, <2>1, <2>2 DEF IndInv, CallerWaits
<1> QED
  BY <1>7, <1>8, <1>9, <1>10, Zenon DEF IndInv

LEMMA UnlockIndInv ==
    ASSUME IndInv, NEW e \in Exchanges, Unlock(e)
    PROVE  IndInv'
<1> DEFINE q == call[e].req.q
<1>1. q \in Questions /\ call[e] \in Calls /\ pc[e] = "unlock"
  BY RequestFields, Zenon DEF Unlock, At, IndInv, TypeOK, Calls
<1>2. CASE At(e, "unlock", "close") /\ lock[q] = e /\ lock' = [lock EXCEPT ![q] = None]
           /\ UNCHANGED <<cache, rdrc, call>>
  <2>1. pc'[e] = "close" /\ \A x \in Exchanges \ {e} : pc'[x] = pc[x]
    BY <1>2, Zenon DEF At, IndInv, TypeOK
  <2>2. TypeOK'
    BY <1>1, <1>2, Zenon DEF At, IndInv, TypeOK, Pcs
  <2>3. OwnerIsInside'
    BY <1>1, <1>2, <2>1 DEF IndInv, TypeOK, OwnerIsInside
  <2>4. WaiterHasOwner'
    <3>1. \A x \in Exchanges : pc[x] = "wait" => call[x].req.q \in Questions
      BY RequestFields, Zenon DEF IndInv, TypeOK, Calls
    <3> QED
      BY <1>1, <1>2, <2>1, <3>1 DEF IndInv, TypeOK, WaiterHasOwner
  <2>5. CallerWaits'
    <3>1. \A d \in Exchanges : pc[d] # "idle" /\ call[d].caller # None => call[d].caller \in Exchanges
      BY Zenon DEF IndInv, TypeOK, Calls
    <3> QED
      BY <1>1, <1>2, <2>1, <3>1 DEF IndInv, CallerWaits
  <2> QED
    BY <2>2, <2>3, <2>4, <2>5, Zenon DEF IndInv
<1>3. CASE At(e, "unlock", Done(e)) /\ lock[q] # e /\ call' = Forget(e)
           /\ UNCHANGED <<cache, lock, rdrc>>
  <2>1. \A p \in Questions : lock[p] # e
    BY <1>1, <1>3, DNSClientConstants, Zenon DEF IndInv, OwnerIsInside
  <2>2. \A x \in Exchanges \ {e} : pc'[x] = pc[x] /\ call'[x] = call[x]
    BY <1>1, <1>3, Zenon DEF At, Forget, IndInv, TypeOK
  <2>3. \/ call[e].caller = None /\ pc'[e] = "idle"
        \/ call[e].caller # None /\ pc'[e] = "returned" /\ call'[e] = call[e]
    BY <1>1, <1>3, Zenon DEF At, Done, Forget, IndInv, TypeOK
  <2>4. TypeOK'
    <3>1. pc' \in [Exchanges -> Pcs] /\ call' \in [Exchanges -> Calls \union {None}]
      BY <1>1, <1>3, Zenon DEF At, Done, Forget, IndInv, TypeOK, Pcs
    <3> QED
      BY <1>1, <1>3, <2>2, <2>3, <3>1, Zenon DEF IndInv, TypeOK
  <2>5. OwnerIsInside'
    <3>1. lock' = lock
      BY <1>3, Zenon
    <3> QED
      BY <2>1, <2>2, <3>1 DEF IndInv, TypeOK, OwnerIsInside
  <2>6. WaiterHasOwner'
    <3>1. \A x \in Exchanges : pc[x] = "wait" => call[x].req.q \in Questions
      BY RequestFields, Zenon DEF IndInv, TypeOK, Calls
    <3>2. \A x \in Exchanges : pc[x] = "wait" => call[x].waitOn # e
      BY <1>1, <2>1, <3>1 DEF IndInv, WaiterHasOwner
    <3>3. lock' = lock /\ pc'[e] # "wait"
      BY <1>3, <2>3, Zenon
    <3> QED
      BY <2>2, <3>2, <3>3 DEF IndInv, WaiterHasOwner
  <2>7. CallerWaits'
    <3>1. \A d \in Exchanges : pc[d] # "idle" /\ call[d].caller # None =>
             call[d].caller \in Exchanges /\ call[d].caller # e
      BY <1>1, Zenon DEF IndInv, TypeOK, Calls, CallerWaits
    <3>2. \A d \in Exchanges : pc'[d] # "idle" => call'[d] = call[d] /\ pc[d] # "idle"
      BY <1>1, <2>2, <2>3, Zenon
    <3>3. \A d \in Exchanges : pc'[d] = "returned" => call[d].caller # None
      BY <2>2, <2>3, Zenon DEF IndInv, CallerWaits
    <3> QED
      BY <2>2, <3>1, <3>2, <3>3 DEF IndInv, CallerWaits
  <2> QED
    BY <2>4, <2>5, <2>6, <2>7, Zenon DEF IndInv
<1> QED
  BY <1>2, <1>3, Zenon DEF Unlock

LEMMA CloseChannelIndInv ==
    ASSUME IndInv, NEW e \in Exchanges, CloseChannel(e)
    PROVE  IndInv'
<1>1. pc[e] = "close" /\ call[e] \in Calls /\ lock' = lock
  BY Zenon DEF CloseChannel, IndInv, TypeOK
<1>2. \A x \in Exchanges \ {e} :
         \/ /\ pc[x] = "wait" /\ call[x].waitOn = e /\ pc'[x] = "load"
            /\ call'[x] = [call[x] EXCEPT !.waitOn = None]
         \/ /\ ~(pc[x] = "wait" /\ call[x].waitOn = e) /\ pc'[x] = pc[x]
            /\ call'[x] = call[x]
  BY <1>1, Zenon DEF CloseChannel, Forget, IndInv, TypeOK
<1>8. \A x \in Exchanges \ {e} :
         /\ pc[x] # "idle" => call'[x] \in Calls
         /\ pc[x] # "idle" => call'[x].req = call[x].req /\ call'[x].caller = call[x].caller
  <2> SUFFICES ASSUME NEW x \in Exchanges \ {e}, pc[x] # "idle"
               PROVE  /\ call'[x] \in Calls
                      /\ call'[x].req = call[x].req /\ call'[x].caller = call[x].caller
    BY Zenon
  <2>1. call[x] \in Calls
    BY Zenon DEF IndInv, TypeOK
  <2>2. CASE call'[x] = [call[x] EXCEPT !.waitOn = None]
    BY <2>1, <2>2, Zenon DEF Calls
  <2>3. CASE call'[x] = call[x]
    BY <2>1, <2>3, Zenon
  <2> QED
    BY <1>2, <2>2, <2>3, Zenon
<1>3. \/ call[e].caller = None /\ pc'[e] = "idle"
      \/ call[e].caller # None /\ pc'[e] = "returned" /\ call'[e] = call[e]
  BY <1>1, Zenon DEF CloseChannel, Done, Forget, IndInv, TypeOK
<1>4. TypeOK'
  <2>1. call' \in [Exchanges -> Calls \union {None}]
    <3>1. call'[e] \in Calls \union {None}
      BY <1>1, Zenon DEF CloseChannel, Forget, IndInv, TypeOK
    <3>2. \A x \in Exchanges \ {e} : call'[x] \in Calls \union {None}
      BY <1>2, <1>8, Zenon DEF IndInv, TypeOK
    <3>3. DOMAIN call' = Exchanges /\ call' = [x \in Exchanges |-> call'[x]]
      BY Zenon DEF CloseChannel
    <3> QED
      BY <3>1, <3>2, <3>3, Zenon
  <2>2. pc' \in [Exchanges -> Pcs]
    BY <1>1, Zenon DEF CloseChannel, Done, IndInv, TypeOK, Pcs
  <2>3. \A x \in Exchanges : pc'[x] # "idle" => call'[x] \in Calls
    BY <1>1, <1>2, <1>3, <1>8, Zenon DEF IndInv, TypeOK
  <2> QED
    BY <2>1, <2>2, <2>3, Zenon DEF CloseChannel, IndInv, TypeOK
<1>5. OwnerIsInside'
  <2>1. \A q \in Questions : lock[q] # e
    BY <1>1, DNSClientConstants DEF IndInv, OwnerIsInside, Locked
  <2>2. \A q \in Questions : lock[q] # None =>
           /\ lock[q] \in Exchanges \ {e}
           /\ pc[lock[q]] \in Locked /\ call[lock[q]].req.q = q
    BY <2>1, Zenon DEF IndInv, TypeOK, OwnerIsInside
  <2>3. \A x \in Exchanges \ {e} : pc[x] \in Locked => pc'[x] = pc[x] /\ call'[x] = call[x]
    BY <1>2, Zenon DEF Locked
  <2> QED
    BY <1>1, <2>2, <2>3, Zenon DEF OwnerIsInside
<1>6. WaiterHasOwner'
  <2>1. pc'[e] # "wait"
    BY <1>3, Zenon
  <2>2. \A x \in Exchanges : pc'[x] = "wait" =>
           x # e /\ pc[x] = "wait" /\ call[x].waitOn # e /\ call'[x] = call[x]
    BY <1>2, <2>1, Zenon
  <2>3. \A x \in Exchanges \ {e} : pc[x] # "wait" => pc'[x] = pc[x]
    BY <1>2, Zenon
  <2> QED
    BY <1>1, <2>2, <2>3 DEF IndInv, WaiterHasOwner, Locked
<1>7. CallerWaits'
  <2>1. \A d \in Exchanges : pc[d] # "idle" /\ call[d].caller # None =>
           call[d].caller \in Exchanges /\ call[d].caller # e
    BY <1>1, Zenon DEF IndInv, TypeOK, Calls, CallerWaits
  <2>2. \A d \in Exchanges : pc'[d] # "idle" => call'[d].caller = call[d].caller /\ pc[d] # "idle"
    BY <1>1, <1>2, <1>3, <1>8, Zenon
  <2>3. \A d \in Exchanges : pc'[d] = "returned" => call[d].caller # None
    BY <1>2, <1>3, Zenon DEF IndInv, CallerWaits
  <2>4. \A d \in Exchanges \ {e} : pc[d] = "nested" => pc'[d] = "nested"
    BY <1>2, Zenon
  <2> QED
    BY <2>1, <2>2, <2>3, <2>4 DEF IndInv, CallerWaits
<1> QED
  BY <1>4, <1>5, <1>6, <1>7, Zenon DEF IndInv

LEMMA CacheIndInv ==
    ASSUME IndInv, UNCHANGED <<lock, pc, call>>,
           cache' \in [Keys -> Rcodes \union {None}], rdrc' \subseteq Servers \X Questions
    PROVE  IndInv'
<1>1. TypeOK'
  BY Zenon DEF IndInv, TypeOK
<1> QED
  BY <1>1, Zenon DEF IndInv, OwnerIsInside, WaiterHasOwner, CallerWaits

LEMMA NextIndInv == IndInv /\ [Next]_vars => IndInv'
<1> SUFFICES ASSUME IndInv, [Next]_vars PROVE IndInv'
  BY Zenon
<1>1. ASSUME NEW e \in Exchanges, Step(e) PROVE IndInv'
  <2>1. CASE Fails(e)
    BY <2>1, EndIndInv, Zenon DEF Fails, At, Results, IndInv, TypeOK
  <2> QED
    BY <1>1, <2>1, LockIndInv, LoadIndInv, CheckIndInv, LookupReturnedIndInv, UnlockIndInv,
       CloseChannelIndInv, AnswerIndInv, Zenon DEF Step
<1>2. ASSUME NEW e \in Exchanges, NEW r \in Requests, Exchange(e, r) PROVE IndInv'
  BY <1>2, BeginIndInv, Zenon
<1>3. ASSUME NEW e \in Exchanges, NEW c \in Exchanges, pc[e] = "dial",
             NEW n \in Needs[call[e].req.t], Lookup(e, c, n)
      PROVE  IndInv'
  BY <1>3, LookupIndInv, Zenon
<1>4. CASE ClearCache \/ \E k \in Keys : Evict(k)
  BY <1>4, CacheIndInv, Zenon DEF ClearCache, Evict, IndInv, TypeOK
<1>5. CASE \E x \in rdrc : RDRCExpires(x)
  BY <1>5, CacheIndInv, Zenon DEF RDRCExpires, IndInv, TypeOK
<1>6. CASE UNCHANGED vars
  BY <1>6, CacheIndInv, Zenon DEF vars, IndInv, TypeOK
<1> QED
  BY <1>1, <1>2, <1>3, <1>4, <1>5, <1>6, Zenon DEF Next

(* The inductive invariant holds in every reachable state.                  *)
THEOREM IndInvHolds == Spec => []IndInv
  BY InitIndInv, NextIndInv, PTL DEF Spec

(* For any number of exchanges, questions and servers, and whatever the      *)
(* dialers look up: the owner of the channel a waiter waits on is in         *)
(* Exchange and has the channel still to close (dns/client.go:143-171).     *)
THEOREM WaiterHasOwnerHolds == Spec => []WaiterHasOwner
<1>1. IndInv => WaiterHasOwner
  BY Zenon DEF IndInv
<1> QED
  BY <1>1, IndInvHolds, PTL
=============================================================================
