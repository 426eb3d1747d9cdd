--------------------------- MODULE URLTestProofs ---------------------------
(***************************************************************************)
(* Proofs about the URL test group: the selection (module URLTest), for any  *)
(* outbounds, delays and connections, and the check loop (URLTestLoop), for  *)
(* any number of goroutines, any interval, idle timeout and number of uses.  *)
(***************************************************************************)
EXTENDS URLTest, URLTestLoop, WellFoundedInduction, TLAPS

(* The types the proofs need; a pass has chosen an outbound exactly if it has *)
(* a delay, which is none of those that are 0.                              *)
CheckTypes ==
    /\ history \in [Tags -> Delays \union {None}]
    /\ selected \in [Nets -> Outs \union {None}]
    /\ todo \subseteq Tags
    /\ pc = "select" =>
         /\ turn \in 1 .. Len(Networks)
         /\ pass \in [at : 1 .. Len(Outbounds) + 1, out : Outs \union {None},
                      delay : Delays \union {0}]
         /\ pass.delay = 0 <=> pass.out = None
         /\ was \in Delays \union {None}

(* A pass that began with the delay of the selected outbound keeps to it, or  *)
(* has found one that is better by more than the tolerance.                 *)
KeepsOrGains ==
    pc = "select" /\ was # None =>
        \/ pass.out = selected[Networks[turn]] /\ pass.delay = was
        \/ was > pass.delay + Tolerance /\ pass.delay # 0

CheckInv == CheckTypes /\ KeepsOrGains /\ WithinTolerance

Bound(x) == x \notin external \/ InterruptExternal

(* A connection that is dialed or open, and that an interruption would reach, *)
(* follows the selection or is about to be interrupted.                     *)
DialInv ==
    /\ pc \in {"idle", "test", "select", "interrupt"}
    /\ updated \in BOOLEAN
    /\ conn \in [Conns -> {"none", "dialing", "open", "closed"}]
    /\ via \in [Conns -> (Nets \X Outs) \union {None}]
    /\ pc \in {"idle", "test"} => ~updated
    /\ \A x \in Conns \ late : conn[x] \in {"dialing", "open"} /\ Bound(x) =>
         /\ via[x] \in Nets \X Outs
         /\ updated \/ via[x][2] = selected[via[x][1]]

-----------------------------------------------------------------------------
(* The numbers: no delay is 0, and none overflows with the tolerance.       *)
LEMMA DelayFacts ==
    /\ Len(Outbounds) \in Nat /\ Len(Networks) \in Nat \ {0}
    /\ 1 \in 1 .. Len(Networks)
    /\ \A i \in 1 .. Len(Outbounds) : Outbounds[i] \in Outs
    /\ \A i \in 1 .. Len(Networks) : Networks[i] \in Nets
    /\ \A d \in Delays : d \in Nat \ {0} /\ d # None /\ (d + Tolerance) % Wrap = d + Tolerance
    /\ Tolerance \in Nat
<1>1. Len(Outbounds) \in Nat /\ Len(Networks) \in Nat \ {0}
  BY URLTestConstants
<1>2. \A d \in Delays : d \in Nat \ {0} /\ d # None
  BY URLTestConstants
<1>3. ASSUME NEW d \in Delays PROVE (d + Tolerance) % Wrap = d + Tolerance
  <2>1. d \in 1 .. Wrap - 1 /\ d + Tolerance < Wrap /\ Tolerance \in Nat
    BY URLTestConstants
  <2>2. Wrap \in Nat
    BY URLTestConstants
  <2>. QED BY <2>1, <2>2
<1>. QED BY <1>1, <1>2, <1>3, URLTestConstants DEF Outs, Nets

(* Select begins at the first outbound, from the delay of the selected one    *)
(* (urltest.go:287-305).                                                    *)
LEMMA BeginPass ==
    ASSUME CheckTypes, NEW n \in Nets, Begin(n)
    PROVE  /\ pass' \in [at : 1 .. Len(Outbounds) + 1, out : Outs \union {None},
                         delay : Delays \union {0}]
           /\ pass'.at = 1
           /\ pass'.delay = 0 <=> pass'.out = None
           /\ was' \in Delays \union {None}
           /\ was' # None => pass'.out = selected[n] /\ pass'.delay = was'
<1>1. selected[n] \in Outs \union {None}
  BY DEF CheckTypes
<1>2. CASE selected[n] = None
  <2>1. was' = None /\ pass' = [at |-> 1, out |-> None, delay |-> 0]
    BY <1>2 DEF Begin
  <2>. QED BY <2>1, DelayFacts
<1>3. CASE selected[n] # None
  <2>1. RealTag[selected[n]] \in Tags /\ selected[n] \in Outs
    BY <1>1, <1>3 DEF Tags
  <2>2. history[RealTag[selected[n]]] \in Delays \union {None}
    BY <2>1 DEF CheckTypes
  <2>3. CASE history[RealTag[selected[n]]] = None
    <3>1. was' = None /\ pass' = [at |-> 1, out |-> None, delay |-> 0]
      BY <1>3, <2>3 DEF Begin
    <3>. QED BY <3>1, DelayFacts
  <2>4. CASE history[RealTag[selected[n]]] # None
    <3>1. was' \in Delays /\ pass' = [at |-> 1, out |-> selected[n], delay |-> was']
      BY <1>3, <2>2, <2>4 DEF Begin
    <3>. QED BY <2>1, <3>1, <1>3, DelayFacts
  <2>. QED BY <2>3, <2>4
<1>. QED BY <1>2, <1>3

(* One turn of the loop of Select (urltest.go:306-318).                     *)
LEMMA SelectNextKeeps ==
    ASSUME CheckInv, SelectNext
    PROVE  CheckInv'
<1>. DEFINE o == Outbounds[pass.at]
            d == history[RealTag[o]]
<1>1. /\ pc = "select" /\ pass.at \in 1 .. Len(Outbounds)
      /\ UNCHANGED <<history, selected, pc, todo, turn, was>>
      /\ pass' = IF Networks[turn] \notin Supports[o] \/ d = None THEN [pass EXCEPT !.at = @ + 1]
                 ELSE IF Better(pass.delay, d) THEN [at |-> pass.at + 1, out |-> o, delay |-> d]
                 ELSE [pass EXCEPT !.at = @ + 1]
  BY DEF SelectNext
<1>2. /\ turn \in 1 .. Len(Networks)
      /\ pass \in [at : 1 .. Len(Outbounds) + 1, out : Outs \union {None},
                   delay : Delays \union {0}]
      /\ pass.delay = 0 <=> pass.out = None
      /\ was \in Delays \union {None}
  BY <1>1 DEF CheckInv, CheckTypes
<1>3. o \in Outs /\ d \in Delays \union {None}
  <2>1. o \in Outs
    BY <1>1, DelayFacts
  <2>2. RealTag[o] \in Tags
    BY <2>1 DEF Tags
  <2>. QED BY <2>1, <2>2 DEF CheckInv, CheckTypes
<1>4. pass'.at = pass.at + 1 /\ pass'.at \in 1 .. Len(Outbounds) + 1
  BY <1>1, <1>2, DelayFacts
<1>5. CASE /\ pass'.out = pass.out /\ pass'.delay = pass.delay
           /\ pass' \in [at : 1 .. Len(Outbounds) + 1, out : Outs \union {None},
                         delay : Delays \union {0}]
           /\ \/ Networks[turn] \notin Supports[o] \/ d = None
              \/ d \in Delays /\ ~Better(pass.delay, d)
  <2>1. CheckTypes'
    BY <1>1, <1>2, <1>5 DEF CheckInv, CheckTypes
  <2>2. KeepsOrGains'
    BY <1>1, <1>5, Zenon DEF CheckInv, KeepsOrGains
  <2>3. Networks[turn] \in Supports[o] /\ d # None =>
            pass.out # None /\ pass.delay <= d + Tolerance
    BY <1>2, <1>3, <1>5, DelayFacts DEF Better
  <2>4. WithinTolerance'
    <3>. SUFFICES ASSUME NEW i \in 1 .. pass'.at - 1,
                         Networks[turn] \in Supports[Outbounds[i]],
                         history[RealTag[Outbounds[i]]] # None
                  PROVE  pass.out # None
                         /\ pass.delay <= history[RealTag[Outbounds[i]]] + Tolerance
      BY <1>1, <1>5 DEF WithinTolerance
    <3>1. i = pass.at \/ i \in 1 .. pass.at - 1
      BY <1>2, <1>4, DelayFacts
    <3>. QED BY <1>1, <2>3, <3>1 DEF CheckInv, WithinTolerance
  <2>. QED BY <2>1, <2>2, <2>4 DEF CheckInv
<1>6. CASE /\ d \in Delays /\ Better(pass.delay, d)
           /\ pass' = [at |-> pass.at + 1, out |-> o, delay |-> d]
  <2>1. CheckTypes'
    <3>1. pass' \in [at : 1 .. Len(Outbounds) + 1, out : Outs \union {None},
                     delay : Delays \union {0}]
      BY <1>3, <1>4, <1>6
    <3>2. pass'.delay # 0 /\ pass'.out # None
      BY <1>3, <1>6, DelayFacts, URLTestConstants
    <3>. QED BY <1>1, <1>2, <3>1, <3>2 DEF CheckInv, CheckTypes
  <2>2. pass.delay = 0 \/ pass.delay > d + Tolerance
    BY <1>6, DelayFacts DEF Better
  <2>3. pass'.out = o /\ pass'.delay = d /\ d \in Nat \ {0} /\ Tolerance \in Nat /\ o # None
    BY <1>3, <1>6, DelayFacts, URLTestConstants
  <2>4. pass.delay \in Nat
    BY <1>2, DelayFacts
  <2>5. KeepsOrGains'
    <3>. SUFFICES ASSUME was # None PROVE was > d + Tolerance
      BY <1>1, <2>3 DEF KeepsOrGains
    <3>1. was \in Nat \ {0} /\ pass.delay # 0 /\ (pass.delay = was \/ was > pass.delay + Tolerance)
      BY <1>1, <1>2, DelayFacts DEF CheckInv, KeepsOrGains
    <3>. QED BY <2>2, <2>3, <2>4, <3>1
  <2>6. WithinTolerance'
    <3>. SUFFICES ASSUME NEW i \in 1 .. pass'.at - 1,
                         Networks[turn] \in Supports[Outbounds[i]],
                         history[RealTag[Outbounds[i]]] # None
                  PROVE  d <= history[RealTag[Outbounds[i]]] + Tolerance
      BY <1>1, <2>3 DEF WithinTolerance
    <3>1. i = pass.at \/ i \in 1 .. pass.at - 1
      BY <1>2, <1>4, DelayFacts
    <3>2. CASE i = pass.at
      BY <2>3, <3>2
    <3>3. CASE i \in 1 .. pass.at - 1
      <4>1. pass.out # None /\ pass.delay <= history[RealTag[Outbounds[i]]] + Tolerance
        BY <1>1, <3>3 DEF CheckInv, WithinTolerance
      <4>2. Outbounds[i] \in Outs
        BY <1>2, <3>3, DelayFacts
      <4>3. RealTag[Outbounds[i]] \in Tags
        BY <4>2 DEF Tags
      <4>4. history[RealTag[Outbounds[i]]] \in Nat
        BY <4>3, DelayFacts DEF CheckInv, CheckTypes
      <4>5. pass.delay > d + Tolerance
        BY <1>2, <2>2, <4>1
      <4>. HIDE DEF d
      <4>. QED BY <2>3, <2>4, <4>1, <4>4, <4>5
    <3>. QED BY <3>1, <3>2, <3>3
  <2>. QED BY <2>1, <2>5, <2>6 DEF CheckInv
<1>7. [pass EXCEPT !.at = @ + 1].out = pass.out /\ [pass EXCEPT !.at = @ + 1].delay = pass.delay
  BY <1>2
<1>8. [pass EXCEPT !.at = @ + 1] \in [at : 1 .. Len(Outbounds) + 1, out : Outs \union {None},
                                      delay : Delays \union {0}]
  <2>1. pass.at + 1 \in 1 .. Len(Outbounds) + 1
    BY <1>1, DelayFacts
  <2>. QED BY <1>2, <2>1
<1>. QED BY <1>1, <1>3, <1>5, <1>6, <1>7, <1>8

(* A set of numbers has a least one.                                        *)
LEMMA LeastExists ==
    ASSUME NEW S \in SUBSET Nat, S # {}
    PROVE  \E k \in S : \A j \in S : k <= j
<1>1. PICK k \in S : \A j \in S : ~(<<j, k>> \in OpToRel(<, Nat))
  BY WFMin, NatLessThanWellFounded, Zenon
<1>2. ASSUME NEW j \in S PROVE k <= j
  <2>1. j \in Nat /\ k \in Nat /\ <<j, k>> \in Nat \X Nat /\ <<j, k>>[1] = j /\ <<j, k>>[2] = k
    BY Zenon
  <2>2. ~(j < k)
    BY <1>1, <2>1, Zenon DEF OpToRel
  <2>. QED BY <2>1, <2>2
<1>. QED BY <1>2, Zenon

(* Without a history Select returns an outbound of the group, or none         *)
(* (urltest.go:319-329).                                                    *)
LEMMA FirstIsOutbound ==
    ASSUME NEW n
    PROVE  First(n) \in Outs \union {None}
<1>. DEFINE able == {i \in 1 .. Len(Outbounds) : n \in Supports[Outbounds[i]]}
            least == CHOOSE i \in able : \A j \in able : i <= j
<1>1. CASE able = {}
  BY <1>1 DEF First
<1>2. CASE able # {}
  <2>1. able \in SUBSET Nat
    BY DelayFacts
  <2>2. \E i \in able : \A j \in able : i <= j
    <3>. HIDE DEF able
    <3>. QED BY <1>2, <2>1, LeastExists
  <2>3. least \in able
    <3>. HIDE DEF able
    <3>. QED BY <2>2
  <2>4. First(n) = Outbounds[least]
    BY <1>2 DEF First
  <2>. HIDE DEF least
  <2>. QED BY <2>3, <2>4, DelayFacts
<1>. QED BY <1>1, <1>2

(* Select returns, and performUpdateCheck goes on to the next network         *)
(* (urltest.go:412-425).                                                    *)
LEMMA UpdateKeeps ==
    ASSUME CheckInv, Update
    PROVE  CheckInv'
<1>. DEFINE n == Networks[turn]
            out == IF pass.out = None THEN First(n) ELSE pass.out
<1>1. /\ pc = "select" /\ UNCHANGED <<history, todo>>
      /\ selected' = IF Takes(n) THEN [selected EXCEPT ![n] = out] ELSE selected
      /\ IF turn < Len(Networks)
         THEN turn' = turn + 1 /\ Begin(Networks[turn + 1]) /\ UNCHANGED pc
         ELSE pc' = "interrupt"
  BY DEF Update
<1>2. turn \in 1 .. Len(Networks) /\ pass.out \in Outs \union {None} /\ CheckTypes
  BY <1>1 DEF CheckInv, CheckTypes
<1>3. selected' \in [Nets -> Outs \union {None}]
  <2>1. First(n) \in Outs \union {None}
    BY FirstIsOutbound
  <2>. QED BY <1>1, <1>2, <2>1, Zenon DEF CheckTypes
<1>4. CASE turn < Len(Networks)
  <2>1. /\ turn' = turn + 1 /\ Begin(Networks[turn + 1]) /\ pc' = "select"
        /\ turn' \in 1 .. Len(Networks) /\ Networks[turn + 1] \in Nets
        /\ Networks[turn + 1] # n
    <3>1. turn + 1 \in 1 .. Len(Networks) /\ turn + 1 # turn
      BY <1>2, <1>4, DelayFacts
    <3>. QED BY <1>1, <1>2, <1>4, <3>1, DelayFacts, URLTestConstants
  <2>2. selected'[Networks[turn + 1]] = selected[Networks[turn + 1]]
    BY <1>1, <1>2, <2>1 DEF CheckTypes
  <2>3. /\ pass' \in [at : 1 .. Len(Outbounds) + 1, out : Outs \union {None},
                      delay : Delays \union {0}]
        /\ pass'.at = 1
        /\ pass'.delay = 0 <=> pass'.out = None
        /\ was' \in Delays \union {None}
        /\ was' # None => pass'.out = selected[Networks[turn + 1]] /\ pass'.delay = was'
    BY <1>2, <2>1, BeginPass
  <2>4. CheckTypes'
    BY <1>1, <1>2, <1>3, <2>1, <2>3 DEF CheckTypes
  <2>5. KeepsOrGains'
    BY <2>1, <2>2, <2>3 DEF KeepsOrGains
  <2>6. WithinTolerance'
    BY <2>3 DEF WithinTolerance
  <2>. QED BY <2>4, <2>5, <2>6 DEF CheckInv
<1>5. CASE ~(turn < Len(Networks))
  <2>1. pc' = "interrupt"
    BY <1>1, <1>5
  <2>. QED BY <1>1, <1>2, <1>3, <2>1 DEF CheckInv, CheckTypes, KeepsOrGains, WithinTolerance
<1>. QED BY <1>4, <1>5

(* A history is only deleted while Select runs, so what is within the         *)
(* tolerance stays so (urltest.go:137-162, 387-406).                        *)
LEMMA HistoryKeeps ==
    ASSUME CheckInv, UNCHANGED <<selected, pc, turn, pass, was>>, todo' \subseteq todo,
           NEW t, NEW d \in Delays \union {None}, history' = [history EXCEPT ![t] = d],
           pc = "select" => d = None
    PROVE  CheckInv'
<1>1. \A u \in Tags : history'[u] \in {history[u], d}
  BY DEF CheckInv, CheckTypes
<1>2. history' \in [Tags -> Delays \union {None}]
  BY <1>1, Zenon DEF CheckInv, CheckTypes
<1>3. CheckTypes'
  BY <1>2 DEF CheckInv, CheckTypes
<1>4. KeepsOrGains'
  BY DEF CheckInv, KeepsOrGains
<1>5. WithinTolerance'
  <2>. SUFFICES ASSUME pc = "select", NEW i \in 1 .. pass.at - 1,
                       Networks[turn] \in Supports[Outbounds[i]],
                       history'[RealTag[Outbounds[i]]] # None
                PROVE  pass.out # None
                       /\ pass.delay <= history'[RealTag[Outbounds[i]]] + Tolerance
    BY DEF WithinTolerance
  <2>1. Outbounds[i] \in Outs
    BY DelayFacts DEF CheckInv, CheckTypes
  <2>2. RealTag[Outbounds[i]] \in Tags
    BY <2>1 DEF Tags
  <2>3. history'[RealTag[Outbounds[i]]] = history[RealTag[Outbounds[i]]]
    BY <1>1, <2>2
  <2>. QED BY <2>3 DEF CheckInv, WithinTolerance
<1>. QED BY <1>3, <1>4, <1>5 DEF CheckInv

(* CheckInv is inductive (urltest.go:287-429).                              *)
LEMMA CheckInvStep ==
    ASSUME CheckInv, [Next]_vars
    PROVE  CheckInv'
<1>1. CASE UNCHANGED <<history, selected, pc, todo, turn, pass, was>>
  BY <1>1 DEF CheckInv, CheckTypes, KeepsOrGains, WithinTolerance
<1>2. ASSUME NEW tags \in SUBSET {RealTag[o] : o \in Outs}, UrlTest(tags) PROVE CheckInv'
  <2>1. tags \subseteq Tags
    BY DEF Tags
  <2>. QED BY <1>2, <2>1 DEF UrlTest, CheckInv, CheckTypes, KeepsOrGains, WithinTolerance
<1>3. ASSUME NEW t \in todo, NEW d \in Delays \union {None}, Tested(t, d) PROVE CheckInv'
  <2>1. /\ pc # "select" /\ UNCHANGED <<selected, pc, turn, pass, was>> /\ todo' \subseteq todo
        /\ history' = [history EXCEPT ![t] = d]
    BY <1>3 DEF Tested
  <2>. QED BY <2>1, HistoryKeeps, Zenon
<1>4. CASE BatchWait
  <2>1. /\ pc' = "select" /\ turn' = 1 /\ Begin(Networks[1])
        /\ UNCHANGED <<history, selected, todo>>
    BY <1>4 DEF BatchWait
  <2>2. Networks[1] \in Nets /\ 1 \in 1 .. Len(Networks)
    BY DelayFacts
  <2>3. /\ pass' \in [at : 1 .. Len(Outbounds) + 1, out : Outs \union {None},
                      delay : Delays \union {0}]
        /\ pass'.at = 1
        /\ pass'.delay = 0 <=> pass'.out = None
        /\ was' \in Delays \union {None}
        /\ was' # None => pass'.out = selected[Networks[1]] /\ pass'.delay = was'
    BY <2>1, <2>2, BeginPass DEF CheckInv
  <2>4. CheckTypes'
    BY <2>1, <2>2, <2>3 DEF CheckInv, CheckTypes
  <2>5. KeepsOrGains'
    BY <2>1, <2>3 DEF KeepsOrGains
  <2>6. WithinTolerance'
    BY <2>3 DEF WithinTolerance
  <2>. QED BY <2>4, <2>5, <2>6 DEF CheckInv
<1>5. CASE Interrupt
  BY <1>5 DEF Interrupt, CheckInv, CheckTypes, KeepsOrGains, WithinTolerance
<1>6. ASSUME NEW x \in Conns, DialFailed(x) PROVE CheckInv'
  <2>1. /\ UNCHANGED <<selected, pc, turn, pass, was, todo>>
        /\ history' = [history EXCEPT ![via[x][2]] = None]
    BY <1>6 DEF DialFailed, Check
  <2>. QED BY <2>1, HistoryKeeps, Zenon
<1>7. ASSUME NEW x \in Conns,
             \/ Dialed(x) \/ ConnClose(x)
             \/ \E n \in Nets, o \in Outs, ext \in BOOLEAN : DialContext(x, n, o, ext)
      PROVE  CheckInv'
  BY <1>1, <1>7 DEF Dialed, ConnClose, DialContext, Check
<1>8. CASE UNCHANGED vars
  BY <1>1, <1>8 DEF vars
<1>. QED BY <1>2, <1>3, <1>4, <1>5, <1>6, <1>7, <1>8, SelectNextKeeps, UpdateKeeps DEF Next

(* The group starts without histories, selections and connections            *)
(* (urltest.go:214-250).                                                    *)
LEMMA CheckInvInit == Init => CheckInv
BY DEF Init, CheckInv, CheckTypes, KeepsOrGains, WithinTolerance

(* What a pass has chosen is within the tolerance of every outbound it has    *)
(* gone by, for any outbounds and delays whose sums stay below 2^16           *)
(* (urltest.go:306-318).                                                    *)
THEOREM WithinToleranceHolds == Spec => []WithinTolerance
<1>1. CheckInv /\ [Next]_vars => CheckInv'
  BY CheckInvStep
<1>2. CheckInv => WithinTolerance
  BY DEF CheckInv
<1>. QED BY <1>1, <1>2, CheckInvInit, PTL DEF Spec

(* A selection is given up only for a measured outbound that beats it by more *)
(* than the tolerance, or when its own delay was lost (urltest.go:412-429).  *)
THEOREM SwitchIsWorthItHolds == Spec => SwitchIsWorthIt
<1>. DEFINE Worth == \A n \in Nets : selected[n] # None /\ selected'[n] # selected[n] =>
                        /\ pass.out = selected'[n]
                        /\ was = None \/ was > pass.delay + Tolerance
<1>1. CheckInv /\ [Next]_vars => CheckInv'
  BY CheckInvStep
<1>2. ASSUME CheckInv, [Next]_vars PROVE [Worth]_vars
  <2>1. CASE Update
    <3>. SUFFICES ASSUME NEW n \in Nets, selected[n] # None, selected'[n] # selected[n]
                  PROVE  /\ pass.out = selected'[n]
                         /\ was = None \/ was > pass.delay + Tolerance
      OBVIOUS
    <3>1. /\ pc = "select" /\ Takes(Networks[turn])
          /\ selected' = [selected EXCEPT ![Networks[turn]] =
                            IF pass.out = None THEN First(Networks[turn]) ELSE pass.out]
      BY <2>1 DEF Update
    <3>2. n = Networks[turn]
      BY <1>2, <3>1 DEF CheckInv, CheckTypes
    <3>3. pass.out # None /\ pass.out # selected[n]
      BY <3>1, <3>2 DEF Takes
    <3>4. selected'[n] = pass.out
      BY <1>2, <3>1, <3>2, <3>3 DEF CheckInv, CheckTypes
    <3>. QED BY <1>2, <3>1, <3>2, <3>3, <3>4 DEF CheckInv, KeepsOrGains
  <2>2. CASE selected' = selected
    BY <2>2
  <2>3. Next => Update \/ selected' = selected
    BY DEF Next, UrlTest, Tested, BatchWait, SelectNext, Interrupt, Dialed, DialFailed, ConnClose,
           DialContext
  <2>. QED BY <1>2, <2>1, <2>2, <2>3
<1>3. CheckInv /\ [Next]_vars => [Worth]_vars
  BY <1>2
<1>. QED BY <1>1, <1>3, CheckInvInit, PTL DEF Spec, SwitchIsWorthIt

-----------------------------------------------------------------------------
(* DialInv is inductive (urltest.go:120-162, 412-429).                      *)
LEMMA DialInvStep ==
    ASSUME CheckInv, CheckInv', DialInv, [Next]_vars
    PROVE  DialInv'
<1>. USE DEF Bound
<1>0. selected \in [Nets -> Outs \union {None}]
  BY DEF CheckInv, CheckTypes
<1>1. CASE UNCHANGED <<selected, updated, conn, via, external, late>> /\ pc' \in {pc, "test"}
           /\ (pc' # pc => pc = "idle")
  BY <1>1 DEF DialInv
<1>2. ASSUME NEW tags, UrlTest(tags) PROVE DialInv'
  BY <1>1, <1>2 DEF UrlTest, Dials
<1>3. ASSUME NEW t, NEW d, Tested(t, d) PROVE DialInv'
  BY <1>1, <1>3 DEF Tested, Dials
<1>4. CASE SelectNext
  BY <1>1, <1>4 DEF SelectNext, Dials
<1>5. CASE BatchWait
  <2>1. /\ pc = "test" /\ pc' = "select" /\ updated' = FALSE
        /\ UNCHANGED <<selected, conn, via, external, late>>
    BY <1>5 DEF BatchWait, Dials
  <2>2. ~updated
    BY <2>1 DEF DialInv
  <2>. QED BY <2>1, <2>2, Zenon DEF DialInv
<1>6. CASE Update
  <2>. DEFINE n == Networks[turn]
              out == IF pass.out = None THEN First(n) ELSE pass.out
  <2>1. /\ pc = "select" /\ UNCHANGED <<conn, via, external, late>>
        /\ selected' = IF Takes(n) THEN [selected EXCEPT ![n] = out] ELSE selected
        /\ updated' = (updated \/ (Takes(n) /\ selected[n] # None))
        /\ pc' \in {"select", "interrupt"}
    BY <1>6 DEF Update, Dials
  <2>. HIDE DEF n, out
  <2>2. ASSUME NEW x \in Conns \ late, conn[x] \in {"dialing", "open"}, Bound(x)
        PROVE  via[x] \in Nets \X Outs /\ (updated' \/ via[x][2] = selected'[via[x][1]])
    <3>1. via[x] \in Nets \X Outs /\ (updated \/ via[x][2] = selected[via[x][1]])
      BY <2>2 DEF DialInv
    <3>2. via[x][1] \in Nets /\ via[x][2] \in Outs /\ via[x][2] # None
      BY <3>1, URLTestConstants
    <3>3. CASE updated
      BY <2>1, <3>1, <3>3, Zenon
    <3>4. CASE ~updated /\ Takes(n) /\ via[x][1] = n
      BY <2>1, <3>1, <3>2, <3>4, Zenon
    <3>5. CASE ~updated /\ ~(Takes(n) /\ via[x][1] = n)
      <4>1. selected'[via[x][1]] = selected[via[x][1]]
        BY <1>0, <2>1, <3>2, <3>5
      <4>. QED BY <3>1, <3>5, <4>1
    <3>. QED BY <3>3, <3>4, <3>5
  <2>3. updated' \in BOOLEAN /\ pc' \in {"idle", "test", "select", "interrupt"}
        /\ ~(pc' \in {"idle", "test"})
    BY <2>1
  <2>. QED BY <2>1, <2>2, <2>3 DEF DialInv
<1>7. CASE Interrupt
  <2>1. /\ pc' = "idle" /\ updated' = FALSE /\ UNCHANGED <<selected, via, external>>
        /\ late' = late \union {x \in Conns : updated /\ conn[x] = "dialing"}
        /\ conn' = [x \in Conns |-> IF updated /\ conn[x] = "open" /\ Bound(x)
                                    THEN "closed" ELSE conn[x]]
    BY <1>7 DEF Interrupt
  <2>2. conn' \in [Conns -> {"none", "dialing", "open", "closed"}]
    BY <2>1 DEF DialInv
  <2>3. ASSUME NEW x \in Conns \ late', conn'[x] \in {"dialing", "open"}, Bound(x)
        PROVE  via[x] \in Nets \X Outs /\ via[x][2] = selected[via[x][1]]
    <3>1. ~updated /\ conn[x] \in {"dialing", "open"} /\ x \notin late
      BY <2>1, <2>3 DEF DialInv
    <3>. QED BY <2>3, <3>1 DEF DialInv
  <2>. QED BY <2>1, <2>2, <2>3, Zenon DEF DialInv
<1>8. ASSUME NEW x \in Conns, NEW n \in Nets, NEW o \in Outs, NEW ext \in BOOLEAN,
             DialContext(x, n, o, ext)
      PROVE  DialInv'
  <2>1. /\ conn' = [conn EXCEPT ![x] = "dialing"] /\ via' = [via EXCEPT ![x] = <<n, o>>]
        /\ UNCHANGED <<selected, pc, updated>> /\ selected[n] \in {o, None}
        /\ (selected[n] = None => x \in late') /\ late \subseteq late'
        /\ \A y \in Conns \ {x} : y \in external' <=> y \in external
    BY <1>8 DEF DialContext, Check
  <2>2. ASSUME NEW y \in Conns \ late', conn'[y] \in {"dialing", "open"}, Bound(y)'
        PROVE  via'[y] \in Nets \X Outs /\ (updated \/ via'[y][2] = selected[via'[y][1]])
    <3>1. CASE y = x
      <4>1. via'[y] = <<n, o>> /\ selected[n] = o
        BY <2>1, <2>2, <3>1 DEF DialInv
      <4>. QED BY <4>1
    <3>2. CASE y # x
      <4>1. via'[y] = via[y] /\ conn'[y] = conn[y] /\ y \notin late /\ Bound(y)
        BY <2>1, <2>2, <3>2 DEF DialInv
      <4>. QED BY <2>2, <4>1 DEF DialInv
    <3>. QED BY <3>1, <3>2
  <2>3. /\ conn' \in [Conns -> {"none", "dialing", "open", "closed"}]
        /\ via' \in [Conns -> (Nets \X Outs) \union {None}]
    BY <2>1 DEF DialInv
  <2>. QED BY <2>1, <2>2, <2>3 DEF DialInv
<1>9. ASSUME NEW x \in Conns, Dialed(x) \/ DialFailed(x) \/ ConnClose(x) PROVE DialInv'
  <2>1. /\ conn[x] \in {"dialing", "open"}
        /\ conn' \in {[conn EXCEPT ![x] = "open"], [conn EXCEPT ![x] = "closed"]}
        /\ UNCHANGED <<selected, pc, updated, via, external, late>>
    BY <1>9 DEF Dialed, DialFailed, ConnClose, Check
  <2>2. /\ conn' \in [Conns -> {"none", "dialing", "open", "closed"}]
        /\ \A y \in Conns : conn'[y] \in {"dialing", "open"} => conn[y] \in {"dialing", "open"}
    BY <2>1 DEF DialInv
  <2>. QED BY <2>1, <2>2 DEF DialInv
<1>10. CASE UNCHANGED vars
  BY <1>1, <1>10 DEF vars
<1>. QED BY <1>2, <1>3, <1>4, <1>5, <1>6, <1>7, <1>8, <1>9, <1>10 DEF Next

(* After a check, a connection dialed with a selection, and not across an     *)
(* interruption, goes through the outbound selected for its network, for any  *)
(* number of connections (urltest.go:120-162, 412-429).                     *)
THEOREM ConnectionsFollowSelectionHolds == Spec => []ConnectionsFollowSelection
<1>1. Init => CheckInv /\ DialInv
  BY CheckInvInit, Zenon DEF Init, DialInv
<1>2. (CheckInv /\ DialInv) /\ [Next]_vars => (CheckInv /\ DialInv)'
  BY CheckInvStep, DialInvStep
<1>3. CheckInv /\ DialInv => ConnectionsFollowSelection
  BY DEF DialInv, Bound, ConnectionsFollowSelection
<1>. QED BY <1>1, <1>2, <1>3, PTL DEF Spec

-----------------------------------------------------------------------------
(* Every step of the group keeps its types (urltest.go:250-410).            *)
LEMMA LoopTypeOKStep == LoopTypeOK /\ [LoopsNext]_loopVars => LoopTypeOK'
<1> SUFFICES ASSUME LoopTypeOK, [LoopsNext]_loopVars PROVE LoopTypeOK'
    OBVIOUS
<1>0. 0 \in 0..Interval - 1 /\ 0 \in 0..IdleTimeout + 1
    BY URLTestLoopConstants
<1> USE URLTestLoopConstants, <1>0 DEF LoopTypeOK
<1>1. CASE Tick
    BY <1>1 DEF Tick
<1>2. CASE Close
    <2>1. CASE ticker
        BY <1>2, <2>1 DEF Close, Test
    <2>2. CASE ~ticker
        BY <1>2, <2>2 DEF Close, Test
    <2> QED
        BY <2>1, <2>2
<1>3. ASSUME NEW l \in Loops, Touch(l) PROVE LoopTypeOK'
    <2>1. CASE ticker
        BY <1>3, <2>1 DEF Touch, Test
    <2>2. CASE ~ticker
        <3>1. elapsed' \in 0..Interval - 1 /\ age' \in 0..IdleTimeout + 1 /\ touches' \in Nat
            BY <1>3, <2>2 DEF Touch
        <3>2. ticker' \in BOOLEAN /\ fired' \in BOOLEAN /\ stopped' \in BOOLEAN
            BY <1>3, <2>2, Zenon DEF Touch
        <3>3. loop' \in [Loops -> {"off", "begin", "wait", "ticked", "ending", "test"}]
            BY <1>3, <2>2 DEF Touch
        <3>4. UNCHANGED <<started, closed, checking, tester>>
            BY <1>3 DEF Touch
        <3> QED
            BY <3>1, <3>2, <3>3, <3>4
    <2> QED
        BY <2>1, <2>2
<1>4. ASSUME NEW l \in Loops, LoopBegin(l) PROVE LoopTypeOK'
    <2>1. CASE age > Interval /\ ~checking
        BY <1>4, <2>1 DEF LoopBegin, Test
    <2>2. CASE ~(age > Interval /\ ~checking)
        BY <1>4, <2>2 DEF LoopBegin, Test
    <2> QED
        BY <2>1, <2>2
<1>5. ASSUME NEW l \in Loops, LoopClosed(l) PROVE LoopTypeOK'
    BY <1>5 DEF LoopClosed
<1>6. ASSUME NEW l \in Loops, LoopTick(l) PROVE LoopTypeOK'
    BY <1>6, Zenon DEF LoopTick
<1>7. ASSUME NEW l \in Loops, LoopIdle(l) PROVE LoopTypeOK'
    <2>1. CASE age > IdleTimeout
        BY <1>7, <2>1 DEF LoopIdle, Test
    <2>2. CASE ~(age > IdleTimeout) /\ checking
        BY <1>7, <2>2 DEF LoopIdle, Test
    <2>3. CASE ~(age > IdleTimeout) /\ ~checking
        BY <1>7, <2>3 DEF LoopIdle, Test
    <2> QED
        BY <2>1, <2>2, <2>3
<1>8. ASSUME NEW l \in Loops, LoopEnd(l) PROVE LoopTypeOK'
    BY <1>8, Zenon DEF LoopEnd
<1>9. ASSUME NEW l \in Loops, LoopTested(l) PROVE LoopTypeOK'
    BY <1>9, Zenon DEF LoopTested
<1>10. ASSUME NEW t \in Testers, PostStart(t) PROVE LoopTypeOK'
    BY <1>10 DEF PostStart
<1>11. ASSUME NEW t \in Testers, Call(t) PROVE LoopTypeOK'
    BY <1>11 DEF Call
<1>12. ASSUME NEW t \in Testers, Called(t) PROVE LoopTypeOK'
    BY <1>12, Zenon DEF Called, Test
<1>13. ASSUME NEW t \in Testers, CallTested(t) PROVE LoopTypeOK'
    BY <1>13, Zenon DEF CallTested
<1>14. CASE UNCHANGED loopVars
    BY <1>14 DEF loopVars
<1> QED
    BY <1>1, <1>2, <1>3, <1>4, <1>5, <1>6, <1>7, <1>8, <1>9, <1>10, <1>11, <1>12, <1>13,
       <1>14 DEF LoopsNext, LoopNext

(* Every step of the group keeps LoopInv (urltest.go:250-410).               *)
LEMMA LoopInvStep == LoopInv /\ [LoopsNext]_loopVars => LoopInv'
<1> SUFFICES ASSUME LoopInv, [LoopsNext]_loopVars PROVE LoopInv'
    OBVIOUS
<1>0. LoopTypeOK /\ LoopTypeOK'
    BY LoopTypeOKStep DEF LoopInv
<1> USE URLTestLoopConstants, <1>0
<1>1. CASE Tick
    <2>1. Running' = Running
        BY <1>1 DEF Tick, Running, LoopTypeOK
    <2>2. Testing' = Testing
        BY <1>1 DEF Tick, Testing, LoopTypeOK
    <2> QED
        BY <1>1, <2>1, <2>2 DEF Tick, LoopInv, NoneBeforeStart, LoopOwnsTicker, OneTest,
           TickerHasLoop
<1>2. CASE Close
    <2>1. Running' = Running
        BY <1>2 DEF Close, Running, LoopTypeOK
    <2>2. Testing' = Testing
        BY <1>2 DEF Close, Testing, LoopTypeOK
    <2> QED
        BY <1>2, <2>1, <2>2 DEF Close, LoopInv, NoneBeforeStart, LoopOwnsTicker, OneTest,
           TickerHasLoop
<1>3. ASSUME NEW l \in Loops, Touch(l) PROVE LoopInv'
    <2>1. CASE ticker
        <3>1. Running' = Running
            BY <1>3, <2>1 DEF Touch, Running, LoopTypeOK
        <3>2. Testing' = Testing
            BY <1>3, <2>1 DEF Touch, Testing, LoopTypeOK
        <3> QED
            BY <1>3, <2>1, <3>1, <3>2 DEF Touch, LoopInv, NoneBeforeStart, LoopOwnsTicker,
               OneTest, TickerHasLoop
    <2>2. CASE ~ticker
        <3>1. Running' = Running \union {l}
            BY <1>3, <2>2 DEF Touch, Running, LoopTypeOK
        <3>2. Testing' = Testing
            BY <1>3, <2>2 DEF Touch, Testing, LoopTypeOK
        <3>3. l \notin Running
            BY <1>3, <2>2 DEF Touch, Running, Testing, LoopTypeOK
        <3> QED
            BY <1>3, <2>2, <3>1, <3>2, <3>3 DEF Touch, LoopInv, NoneBeforeStart, LoopOwnsTicker,
               OneTest, TickerHasLoop
    <2> QED
        BY <2>1, <2>2
<1>4. ASSUME NEW l \in Loops, LoopBegin(l) PROVE LoopInv'
    <2>1. CASE age > Interval /\ ~checking
        <3>1. Running' = Running
            BY <1>4, <2>1 DEF LoopBegin, Test, Running, LoopTypeOK
        <3>2. Testing' = Testing \union {l}
            BY <1>4, <2>1 DEF LoopBegin, Test, Testing, LoopTypeOK
        <3>3. l \in Running /\ l \notin Testing
            BY <1>4, <2>1 DEF LoopBegin, Running, Testing, LoopTypeOK
        <3> QED
            BY <1>4, <2>1, <3>1, <3>2, <3>3 DEF LoopBegin, Test, LoopInv, NoneBeforeStart,
               LoopOwnsTicker, OneTest, TickerHasLoop
    <2>2. CASE ~(age > Interval /\ ~checking)
        <3>1. Running' = Running
            BY <1>4, <2>2 DEF LoopBegin, Test, Running, LoopTypeOK
        <3>2. Testing' = Testing
            BY <1>4, <2>2 DEF LoopBegin, Test, Testing, LoopTypeOK
        <3>3. l \in Running /\ l \notin Testing
            BY <1>4, <2>2 DEF LoopBegin, Running, Testing, LoopTypeOK
        <3> QED
            BY <1>4, <2>2, <3>1, <3>2, <3>3 DEF LoopBegin, Test, LoopInv, NoneBeforeStart,
               LoopOwnsTicker, OneTest, TickerHasLoop
    <2> QED
        BY <2>1, <2>2
<1>5. ASSUME NEW l \in Loops, LoopClosed(l) PROVE LoopInv'
    <2>1. Running' = Running \ {l}
        BY <1>5 DEF LoopClosed, Running, LoopTypeOK
    <2>2. Testing' = Testing
        BY <1>5 DEF LoopClosed, Testing, LoopTypeOK
    <2>3. l \in Running /\ l \notin Testing
        BY <1>5 DEF LoopClosed, Running, Testing, LoopTypeOK
    <2> QED
        BY <1>5, <2>1, <2>2, <2>3 DEF LoopClosed, LoopInv, NoneBeforeStart, LoopOwnsTicker,
           OneTest, TickerHasLoop
<1>6. ASSUME NEW l \in Loops, LoopTick(l) PROVE LoopInv'
    <2>1. Running' = Running
        BY <1>6 DEF LoopTick, Running, LoopTypeOK
    <2>2. Testing' = Testing
        BY <1>6 DEF LoopTick, Testing, LoopTypeOK
    <2>3. l \in Running /\ l \notin Testing
        BY <1>6 DEF LoopTick, Running, Testing, LoopTypeOK
    <2> QED
        BY <1>6, <2>1, <2>2, <2>3 DEF LoopTick, LoopInv, NoneBeforeStart, LoopOwnsTicker, OneTest,
           TickerHasLoop
<1>7. ASSUME NEW l \in Loops, LoopIdle(l) PROVE LoopInv'
    <2>1. CASE age > IdleTimeout
        <3>1. Running' = Running
            BY <1>7, <2>1 DEF LoopIdle, Test, Running, LoopTypeOK
        <3>2. Testing' = Testing
            BY <1>7, <2>1 DEF LoopIdle, Test, Testing, LoopTypeOK
        <3>3. l \in Running /\ l \notin Testing
            BY <1>7, <2>1 DEF LoopIdle, Running, Testing, LoopTypeOK
        <3> QED
            BY <1>7, <2>1, <3>1, <3>2, <3>3 DEF LoopIdle, Test, LoopInv, NoneBeforeStart,
               LoopOwnsTicker, OneTest, TickerHasLoop
    <2>2. CASE ~(age > IdleTimeout) /\ checking
        <3>1. Running' = Running
            BY <1>7, <2>2 DEF LoopIdle, Test, Running, LoopTypeOK
        <3>2. Testing' = Testing
            BY <1>7, <2>2 DEF LoopIdle, Test, Testing, LoopTypeOK
        <3>3. l \in Running /\ l \notin Testing
            BY <1>7, <2>2 DEF LoopIdle, Running, Testing, LoopTypeOK
        <3> QED
            BY <1>7, <2>2, <3>1, <3>2, <3>3 DEF LoopIdle, Test, LoopInv, NoneBeforeStart,
               LoopOwnsTicker, OneTest, TickerHasLoop
    <2>3. CASE ~(age > IdleTimeout) /\ ~checking
        <3>1. Running' = Running
            BY <1>7, <2>3 DEF LoopIdle, Test, Running, LoopTypeOK
        <3>2. Testing' = Testing \union {l}
            BY <1>7, <2>3 DEF LoopIdle, Test, Testing, LoopTypeOK
        <3>3. l \in Running /\ l \notin Testing
            BY <1>7, <2>3 DEF LoopIdle, Running, Testing, LoopTypeOK
        <3> QED
            BY <1>7, <2>3, <3>1, <3>2, <3>3 DEF LoopIdle, Test, LoopInv, NoneBeforeStart,
               LoopOwnsTicker, OneTest, TickerHasLoop
    <2> QED
        BY <2>1, <2>2, <2>3
<1>8. ASSUME NEW l \in Loops, LoopEnd(l) PROVE LoopInv'
    <2>1. Running' = Running \ {l}
        BY <1>8 DEF LoopEnd, Running, LoopTypeOK
    <2>2. Testing' = Testing
        BY <1>8 DEF LoopEnd, Testing, LoopTypeOK
    <2>3. l \in Running /\ l \notin Testing
        BY <1>8 DEF LoopEnd, Running, Testing, LoopTypeOK
    <2> QED
        BY <1>8, <2>1, <2>2, <2>3 DEF LoopEnd, LoopInv, NoneBeforeStart, LoopOwnsTicker, OneTest,
           TickerHasLoop
<1>9. ASSUME NEW l \in Loops, LoopTested(l) PROVE LoopInv'
    <2>1. Running' = Running
        BY <1>9 DEF LoopTested, Running, LoopTypeOK
    <2>2. Testing' = Testing \ {l}
        BY <1>9 DEF LoopTested, Testing, LoopTypeOK
    <2>3. l \in Running /\ l \in Testing
        BY <1>9 DEF LoopTested, Running, Testing, LoopTypeOK
    <2> QED
        BY <1>9, <2>1, <2>2, <2>3 DEF LoopTested, LoopInv, NoneBeforeStart, LoopOwnsTicker,
           OneTest, TickerHasLoop
<1>10. ASSUME NEW t \in Testers, PostStart(t) PROVE LoopInv'
    <2>1. Running' = Running
        BY <1>10 DEF PostStart, Running, LoopTypeOK
    <2>2. Testing' = Testing
        BY <1>10 DEF PostStart, Testing, LoopTypeOK, LoopInv, NoneBeforeStart
    <2> QED
        BY <1>10, <2>1, <2>2 DEF PostStart, LoopInv, NoneBeforeStart, LoopOwnsTicker, OneTest,
           TickerHasLoop
<1>11. ASSUME NEW t \in Testers, Call(t) PROVE LoopInv'
    <2>1. Running' = Running
        BY <1>11 DEF Call, Running, LoopTypeOK
    <2>2. Testing' = Testing
        BY <1>11 DEF Call, Testing, LoopTypeOK
    <2>3. t \notin Testing
        BY <1>11 DEF Call, Running, Testing, LoopTypeOK
    <2> QED
        BY <1>11, <2>1, <2>2, <2>3 DEF Call, LoopInv, NoneBeforeStart, LoopOwnsTicker, OneTest,
           TickerHasLoop
<1>12. ASSUME NEW t \in Testers, Called(t) PROVE LoopInv'
    <2>1. CASE checking
        <3>1. Running' = Running
            BY <1>12, <2>1 DEF Called, Test, Running, LoopTypeOK
        <3>2. Testing' = Testing
            BY <1>12, <2>1 DEF Called, Test, Testing, LoopTypeOK
        <3>3. t \notin Testing
            BY <1>12, <2>1 DEF Called, Running, Testing, LoopTypeOK
        <3> QED
            BY <1>12, <2>1, <3>1, <3>2, <3>3 DEF Called, Test, LoopInv, NoneBeforeStart,
               LoopOwnsTicker, OneTest, TickerHasLoop
    <2>2. CASE ~checking
        <3>1. Running' = Running
            BY <1>12, <2>2 DEF Called, Test, Running, LoopTypeOK
        <3>2. Testing' = Testing \union {t}
            BY <1>12, <2>2 DEF Called, Test, Testing, LoopTypeOK
        <3>3. t \notin Testing
            BY <1>12, <2>2 DEF Called, Running, Testing, LoopTypeOK
        <3> QED
            BY <1>12, <2>2, <3>1, <3>2, <3>3 DEF Called, Test, LoopInv, NoneBeforeStart,
               LoopOwnsTicker, OneTest, TickerHasLoop
    <2> QED
        BY <2>1, <2>2
<1>13. ASSUME NEW t \in Testers, CallTested(t) PROVE LoopInv'
    <2>1. Running' = Running
        BY <1>13 DEF CallTested, Running, LoopTypeOK
    <2>2. Testing' = Testing \ {t}
        BY <1>13 DEF CallTested, Testing, LoopTypeOK
    <2>3. t \in Testing
        BY <1>13 DEF CallTested, Running, Testing, LoopTypeOK
    <2> QED
        BY <1>13, <2>1, <2>2, <2>3 DEF CallTested, LoopInv, NoneBeforeStart, LoopOwnsTicker,
           OneTest, TickerHasLoop
<1>14. CASE UNCHANGED loopVars
    BY <1>14 DEF loopVars, LoopInv, NoneBeforeStart, LoopOwnsTicker, OneTest, TickerHasLoop, Running,
       Testing
<1> QED
    BY <1>1, <1>2, <1>3, <1>4, <1>5, <1>6, <1>7, <1>8, <1>9, <1>10, <1>11, <1>12, <1>13,
       <1>14 DEF LoopsNext, LoopNext

(* The group keeps LoopInv in every behaviour (urltest.go:250-410).          *)
THEOREM LoopInvHolds == LoopSpec => []LoopInv
<1>1. LoopInit => LoopTypeOK
    <2>1. 0 \in 0..Interval - 1 /\ 0 \in 0..IdleTimeout + 1
        BY URLTestLoopConstants
    <2>2. LoopInit => age = 0 /\ elapsed = 0 /\ touches = 0
        BY DEF LoopInit
    <2>3. LoopInit => /\ age \in 0..IdleTimeout + 1 /\ elapsed \in 0..Interval - 1
                  /\ touches \in Nat
        BY <2>1, <2>2
    <2>4. LoopInit => /\ loop \in [Loops -> {"off", "begin", "wait", "ticked", "ending", "test"}]
                  /\ tester \in [Testers -> {"off", "call", "test"}]
        BY DEF LoopInit
    <2> QED
        BY <2>3, <2>4, Zenon DEF LoopInit, LoopTypeOK
<1>2. LoopInit => Running = {} /\ Testing = {}
    BY DEF LoopInit, Running, Testing
<1>3. LoopInit => LoopInv
    BY <1>1, <1>2 DEF LoopInit, LoopInv, NoneBeforeStart, LoopOwnsTicker, OneTest, TickerHasLoop
<1> QED
    BY <1>3, LoopInvStep, PTL DEF LoopSpec

(* One loop at most, and never without the ticker it reads without the lock; *)
(* one test at a time; and while the group is not closed, a ticker has a     *)
(* loop: for any number of goroutines (urltest.go:250-410).                 *)
THEOREM LoopIsSoundHolds == LoopSpec => []LoopIsSound
<1>1. LoopInv => LoopIsSound
    BY DEF LoopInv, LoopIsSound
<1> QED
    BY <1>1, LoopInvHolds, PTL
=============================================================================
