---------------------------- MODULE FakeIPProofs ----------------------------
(***************************************************************************)
(* TLAPS proofs about FakeIP, for any domains, ranges, range size and       *)
(* number of concurrent calls of Create.                                    *)
(***************************************************************************)
EXTENDS FakeIP, SequenceTheorems, TLAPS

LEMMA FirstIsOffset == First \in Offsets
  BY FakeIPConstants DEF First, Offsets

LEMMA NextOffsetType == \A i \in Offsets : NextOffset(i) \in Offsets
  BY FirstIsOffset DEF NextOffset

LEMMA InitIndInv == Init => IndInv
<1> SUFFICES ASSUME Init PROVE IndInv
  OBVIOUS
<1>1. TypeOK
  BY FirstIsOffset, FakeIPConstants, Zenon DEF Init, TypeOK
<1>2. MappingsAreInverse
  BY FakeIPConstants DEF Init, MappingsAreInverse, Addresses, Offsets
<1> QED
  BY <1>1, <1>2 DEF Init, IndInv

(* A reset leaves the mappings as they are or empties both.                 *)
LEMMA ResetKeepsInverse ==
    ASSUME TypeOK, MappingsAreInverse, FakeIPReset
    PROVE  /\ MappingsAreInverse'
           /\ buckets' \subseteq {"address"} \union Families
           /\ domainOf' \in [Addresses -> Domains \union {None}]
           /\ addressOf' \in [Families -> [Domains -> Addresses \union {None}]]
           /\ metadata' \in Metadata \union {None}
           /\ \A f \in Families, d \in Domains :
                 addressOf[f][d] = None => addressOf'[f][d] = None
<1>1. CASE buckets = {"address"} \union Families
  <2>1. /\ buckets' = {} /\ metadata' = None
        /\ domainOf' = [a \in Addresses |-> None]
        /\ addressOf' = [f \in Families |-> [d \in Domains |-> None]]
    BY <1>1 DEF FakeIPReset
  <2>2. MappingsAreInverse'
    BY <2>1, FakeIPConstants DEF MappingsAreInverse, Addresses, Offsets
  <2> QED
    BY <2>1, <2>2
<1>2. CASE buckets # {"address"} \union Families
  <2>1. UNCHANGED <<buckets, domainOf, addressOf, metadata>>
    BY <1>2 DEF FakeIPReset, disk
  <2>2. MappingsAreInverse'
    BY <2>1 DEF MappingsAreInverse
  <2> QED
    BY <2>1, <2>2 DEF TypeOK
<1> QED
  BY <1>1, <1>2

(* The transaction of FakeIPStore keeps the mappings inverse when the domain *)
(* has no address yet.                                                      *)
LEMMA StoreKeepsInverse ==
    ASSUME TypeOK, MappingsAreInverse,
           NEW d \in Domains, NEW f \in Families, NEW a \in Addresses, a[2] = f,
           addressOf[f][d] = None, FakeIPStore(d, f, a)
    PROVE  /\ MappingsAreInverse'
           /\ domainOf' \in [Addresses -> Domains \union {None}]
           /\ addressOf' \in [Families -> [Domains -> Addresses \union {None}]]
<1>1. /\ domainOf' \in [Addresses -> Domains \union {None}]
      /\ addressOf' \in [Families -> [Domains -> Addresses \union {None}]]
  BY DEF FakeIPStore, TypeOK
<1>2. ASSUME NEW b \in Addresses, NEW e \in Domains
      PROVE  domainOf'[b] = e <=> addressOf'[b[2]][e] = b
  <2>1. b[2] \in Families
    BY DEF Addresses
  <2>2. domainOf'[b] = IF b = a THEN d ELSE domainOf[b]
    BY DEF FakeIPStore, TypeOK
  <2>3. addressOf'[b[2]][e] = IF b[2] # f THEN addressOf[b[2]][e]
                              ELSE IF e = d THEN a
                              ELSE IF e = domainOf[a] THEN None ELSE addressOf[f][e]
    BY <2>1 DEF FakeIPStore, TypeOK
  <2>4. /\ domainOf[b] = e <=> addressOf[b[2]][e] = b
        /\ domainOf[b] = d <=> addressOf[b[2]][d] = b
        /\ domainOf[a] = e <=> addressOf[f][e] = a
    BY DEF MappingsAreInverse
  <2>5. None \notin Addresses
    BY FakeIPConstants DEF Addresses, Offsets
  <2>6. CASE b = a
    BY <2>2, <2>3, <2>4, <2>5, <2>6
  <2>7. CASE b # a /\ b[2] = f
    BY <2>2, <2>3, <2>4, <2>5, <2>7
  <2>8. CASE b # a /\ b[2] # f
    BY <2>2, <2>3, <2>4, <2>8
  <2> QED
    BY <2>6, <2>7, <2>8
<1> QED
  BY <1>1, <1>2 DEF MappingsAreInverse

-----------------------------------------------------------------------------
(* Steps that touch neither the mappings nor the creators.                  *)
LEMMA StartIndInv ==
    ASSUME IndInv, NEW r \in Ranges, StartResume(r) \/ StartFresh(r)
    PROVE  IndInv'
<1> USE DEF IndInv
<1>1. /\ UNCHANGED <<pc, want, answer, timer, armed, buckets, domainOf, addressOf>>
      /\ phase' \in {"running", "reset"} /\ range' = r /\ metadata' = None
  BY DEF StartResume, StartFresh
<1>2. current' \in [Families -> Offsets]
  <2>1. CASE StartResume(r)
    BY <2>1 DEF StartResume, Matches, TypeOK, Metadata
  <2>2. CASE StartFresh(r)
    BY <2>2, FirstIsOffset DEF StartFresh
  <2> QED
    BY <2>1, <2>2
<1>3. TypeOK'
  BY <1>1, <1>2 DEF TypeOK
<1> QED
  BY <1>1, <1>3 DEF MappingsAreInverse

LEMMA ResetStepIndInv ==
    ASSUME IndInv, StartReset \/ Flush
    PROVE  IndInv'
<1> USE DEF IndInv
<1>1. /\ FakeIPReset
      /\ UNCHANGED <<range, current, pc, want, answer, timer, armed>>
      /\ phase' \in {"running", "closed"}
  BY DEF StartReset, Flush, Up
<1>2. TypeOK' /\ MappingsAreInverse'
  BY <1>1, ResetKeepsInverse DEF TypeOK
<1>3. ASSUME NEW p \in Creators, pc'[p] = "store"
      PROVE  addressOf'[want'[p][2]][want'[p][1]] = None
  BY <1>1, <1>3, ResetKeepsInverse DEF TypeOK
<1> QED
  BY <1>1, <1>2, <1>3

LEMMA SaveIndInv ==
    ASSUME IndInv, TimerFires \/ Close \/ Exit
    PROVE  IndInv'
<1> USE DEF IndInv
<1>1. CASE TimerFires
  <2>1. TypeOK'
    BY <1>1, Zenon DEF TimerFires, TypeOK
  <2> QED
    BY <1>1, <2>1 DEF TimerFires, MappingsAreInverse
<1>2. CASE Close
  <2>1. metadata' \in Metadata
    BY <1>2 DEF Close, TypeOK, Metadata
  <2>2. TypeOK'
    BY <1>2, <2>1 DEF Close, TypeOK
  <2> QED
    BY <1>2, <2>2 DEF Close, MappingsAreInverse
<1>3. CASE Exit
  <2>1. TypeOK'
    BY <1>3, Zenon DEF Exit, TypeOK, disk
  <2> QED
    BY <1>3, <2>1 DEF Exit, MappingsAreInverse, disk
<1> QED
  BY <1>1, <1>2, <1>3

LEMMA CreateLoadIndInv ==
    ASSUME IndInv, NEW p \in Creators, NEW d \in Domains, NEW f \in Used, CreateLoad(p, d, f)
    PROVE  IndInv'
<1> USE DEF IndInv
<1>1. f \in Families
  BY FakeIPConstants
<1>2. TypeOK'
  <2>1. want' \in [Creators -> (Domains \X Families) \union {None}]
    BY <1>1 DEF CreateLoad, TypeOK
  <2>2. pc' \in [Creators -> {"idle", "missed", "store"}]
    BY DEF CreateLoad, TypeOK
  <2>3. answer' \in [Creators -> Addresses \union {None}]
    <3>1. addressOf[f][d] \in Addresses \union {None}
      BY <1>1 DEF TypeOK
    <3> QED
      BY <3>1 DEF CreateLoad, TypeOK
  <2> QED
    BY <2>1, <2>2, <2>3 DEF CreateLoad, TypeOK, disk
<1>3. MappingsAreInverse'
  BY DEF CreateLoad, MappingsAreInverse, disk
<1>4. pc'[p] # "idle" => want'[p] # None
  BY <1>1, FakeIPConstants DEF CreateLoad, TypeOK
<1>5. /\ pc[p] = "idle" /\ pc'[p] \in {"idle", "missed"} /\ addressOf' = addressOf
      /\ \A q \in Creators \ {p} : pc'[q] = pc[q] /\ want'[q] = want[q]
  BY DEF CreateLoad, TypeOK, disk
<1> QED
  BY <1>2, <1>3, <1>4, <1>5

LEMMA CreateLockedIndInv ==
    ASSUME IndInv, NEW p \in Creators, CreateFound(p) \/ CreateAllocate(p)
    PROVE  IndInv'
<1> USE DEF IndInv
<1>1. want[p] \in Domains \X Families
  BY DEF CreateFound, CreateAllocate, TypeOK
<1>2. CASE CreateFound(p)
  <2>1. TypeOK'
    BY <1>1, <1>2 DEF CreateFound, TypeOK, disk
  <2>2. MappingsAreInverse'
    BY <1>2 DEF CreateFound, MappingsAreInverse, disk
  <2> QED
    BY <1>2, <2>1, <2>2 DEF CreateFound, TypeOK, disk
<1>3. CASE CreateAllocate(p)
  <2>1. TypeOK'
    BY <1>1, <1>3, NextOffsetType DEF CreateAllocate, TypeOK, disk
  <2>2. MappingsAreInverse'
    BY <1>3 DEF CreateAllocate, MappingsAreInverse, disk
  <2>3. /\ addressOf[want[p][2]][want[p][1]] = None
        /\ \A q \in Creators : pc[q] # "store"
        /\ \A q \in Creators \ {p} : pc'[q] = pc[q]
        /\ UNCHANGED <<want, addressOf>>
    BY <1>3 DEF CreateAllocate, LockFree, TypeOK, disk
  <2> QED
    BY <1>1, <2>1, <2>2, <2>3, FakeIPConstants
<1> QED
  BY <1>2, <1>3

LEMMA CreateStoreIndInv ==
    ASSUME IndInv, NEW p \in Creators, CreateStore(p)
    PROVE  IndInv'
<1> USE DEF IndInv
<1> DEFINE d == want[p][1]
           f == want[p][2]
           a == <<range, f, current[f]>>
<1>1. d \in Domains /\ f \in Families
  BY DEF CreateStore, TypeOK
<1>2. a \in Addresses /\ a[2] = f
  BY <1>1 DEF TypeOK, Addresses
<1>3. FakeIPStore(d, f, a)
  BY DEF CreateStore
<1>4. /\ MappingsAreInverse'
      /\ domainOf' \in [Addresses -> Domains \union {None}]
      /\ addressOf' \in [Families -> [Domains -> Addresses \union {None}]]
  <2>1. addressOf[f][d] = None
    BY DEF CreateStore
  <2> QED
    BY <1>1, <1>2, <1>3, <2>1, StoreKeepsInverse
<1>5. TypeOK'
  <2>1. timer' \in Metadata \union {None} /\ armed' \in BOOLEAN
    BY DEF CreateStore, TypeOK, Metadata
  <2>2. buckets' \subseteq {"address"} \union Families /\ metadata' = metadata
    BY <1>1, <1>3, Zenon DEF FakeIPStore, TypeOK
  <2>3. answer' \in [Creators -> Addresses \union {None}]
    BY <1>2 DEF CreateStore, TypeOK
  <2> QED
    BY <1>4, <2>1, <2>2, <2>3 DEF CreateStore, TypeOK
<1>6. \A q \in Creators : pc'[q] # "store"
  BY DEF CreateStore, TypeOK
<1> QED
  BY <1>4, <1>5, <1>6 DEF CreateStore, TypeOK

LEMMA NextIndInv == IndInv /\ [Next]_vars => IndInv'
<1> SUFFICES ASSUME IndInv, [Next]_vars PROVE IndInv'
  OBVIOUS
<1>1. ASSUME NEW r \in Ranges, StartResume(r) \/ StartFresh(r) PROVE IndInv'
  BY <1>1, StartIndInv
<1>2. CASE StartReset \/ TimerFires \/ Flush \/ Close \/ Exit
  BY <1>2, ResetStepIndInv, SaveIndInv
<1>3. ASSUME NEW p \in Creators, NEW d \in Domains, NEW f \in Used, CreateLoad(p, d, f)
      PROVE  IndInv'
  BY <1>3, CreateLoadIndInv
<1>4. ASSUME NEW p \in Creators, CreateFound(p) \/ CreateAllocate(p) \/ CreateStore(p)
      PROVE  IndInv'
  BY <1>4, CreateLockedIndInv, CreateStoreIndInv
<1>5. CASE UNCHANGED vars
  BY <1>5 DEF vars, disk, IndInv, TypeOK, MappingsAreInverse
<1> QED
  BY <1>1, <1>2, <1>3, <1>4, <1>5 DEF Next

(* The inductive invariant holds in every reachable state.                   *)
THEOREM IndInvHolds == Spec => []IndInv
  BY InitIndInv, NextIndInv, PTL DEF Spec

(* The address-to-domain and domain-to-address buckets stay inverse, through *)
(* concurrent calls of Create, reuse of addresses, flushes, crashes and      *)
(* changes of the ranges (store.go:82-128, cachefile/fakeip.go:71-97).      *)
THEOREM MappingsAreInverseHolds == Spec => []MappingsAreInverse
<1>1. IndInv => MappingsAreInverse
  BY DEF IndInv
<1> QED
  BY <1>1, IndInvHolds, PTL

-----------------------------------------------------------------------------
(* A position in the range, also one that was saved.                        *)
Positions == First .. Size - 1
Places == Ranges \X Families \X Positions

(* The last addresses allocated, counted back from the current one, are       *)
(* consecutive positions of one round.                                      *)
Round(f) ==
    LET n == Len(recent[f]) IN
    /\ n < Usable
    /\ \A i \in 1 .. n :
         \/ recent[f][i][3] + (n - i) = current[f]
         \/ recent[f][i][3] + (n - i) = current[f] + Usable

RoundInv ==
    /\ current \in [Families -> Positions]
    /\ timer # None => timer.current \in [Families -> Positions]
    /\ metadata # None => metadata.current \in [Families -> Positions]
    /\ recent \in [Families -> Seq(Places)]
    /\ \A f \in Families : Round(f)

(* The list Remember makes.                                                 *)
Shifted(s, a) ==
    IF Len(Append(s, a)) < Usable THEN Append(s, a) ELSE Tail(Append(s, a))

(* t is the end of s followed by a.                                         *)
Continues(t, s, a) ==
    \A i \in 1 .. Len(t) :
       \/ i = Len(t) /\ t[i] = a
       \/ \E j \in 1 .. Len(s) : t[i] = s[j] /\ Len(s) - j + 1 = Len(t) - i

(* What Remember makes of the last addresses: the new one at the end, and the *)
(* oldest one gone when there are as many as a round has.                   *)
LEMMA RememberShifts ==
    ASSUME NEW S, NEW s \in Seq(S), NEW a \in S, Len(s) < Usable
    PROVE  /\ Shifted(s, a) \in Seq(S) /\ Len(Shifted(s, a)) < Usable
           /\ Continues(Shifted(s, a), s, a)
<1>. DEFINE t == Shifted(s, a)
<1>0. Usable \in Nat
  BY FakeIPConstants DEF Usable, First
<1>1. /\ Append(s, a) \in Seq(S) /\ Len(Append(s, a)) = Len(s) + 1 /\ Len(s) \in Nat
      /\ \A i \in 1 .. Len(s) : Append(s, a)[i] = s[i]
      /\ Append(s, a)[Len(s) + 1] = a
  BY AppendProperties
<1>. DEFINE u == Append(s, a)
<1>. HIDE DEF u
<1>2. CASE Len(u) < Usable
  <2>1. t = u
    BY <1>2 DEF u, Shifted
  <2>. HIDE DEF t
  <2>2. ASSUME NEW i \in 1 .. Len(t)
        PROVE  \/ i = Len(t) /\ t[i] = a
               \/ \E j \in 1 .. Len(s) : t[i] = s[j] /\ Len(s) - j + 1 = Len(t) - i
    <3>1. CASE i = Len(s) + 1
      BY <1>1, <2>1, <3>1 DEF u
    <3>2. CASE i # Len(s) + 1
      <4>1. i \in 1 .. Len(s) /\ t[i] = s[i] /\ Len(s) - i + 1 = Len(t) - i
        BY <1>1, <2>1, <3>2 DEF u
      <4>. QED BY <4>1
    <3>. QED BY <3>1, <3>2
  <2>3. t \in Seq(S) /\ Len(t) < Usable
    BY <1>1, <1>2, <2>1 DEF u
  <2>. QED BY <2>2, <2>3 DEF t, Continues
<1>3. CASE ~(Len(u) < Usable)
  <2>1. t = Tail(u) /\ u # <<>>
    BY <1>1, <1>3 DEF u, Shifted
  <2>. HIDE DEF t
  <2>2. t \in Seq(S) /\ Len(t) = Len(s) /\ \A i \in 1 .. Len(t) : t[i] = u[i + 1]
    BY <1>1, <2>1, HeadTailProperties DEF u
  <2>3. ASSUME NEW i \in 1 .. Len(t)
        PROVE  \/ i = Len(t) /\ t[i] = a
               \/ \E j \in 1 .. Len(s) : t[i] = s[j] /\ Len(s) - j + 1 = Len(t) - i
    <3>1. CASE i = Len(s)
      BY <1>1, <2>2, <3>1 DEF u
    <3>2. CASE i # Len(s)
      <4>1. i + 1 \in 1 .. Len(s) /\ t[i] = s[i + 1] /\ Len(s) - (i + 1) + 1 = Len(t) - i
        BY <1>1, <2>2, <3>2 DEF u
      <4>. QED BY <4>1
    <3>. QED BY <3>1, <3>2
  <2>. QED BY <2>2, <2>3 DEF t, Continues
<1>. QED BY <1>2, <1>3

(* The next position is one of the range, and none of the last ones           *)
(* (store.go:95-116).                                                       *)
LEMMA NextPosition ==
    ASSUME NEW c \in Positions
    PROVE  /\ NextOffset(c) \in Positions
           /\ NextOffset(c) = c + 1 \/ NextOffset(c) + Usable = c + 1
BY FakeIPConstants DEF Positions, NextOffset, Offsets, First, Usable

(* No address of the last round is the one that comes next: the positions    *)
(* between them are those of the round, and fewer than all.                  *)
LEMMA NextIsNotRecent ==
    ASSUME RoundInv, NEW f \in Families, NEW i \in 1 .. Len(recent[f])
    PROVE  recent[f][i][3] # NextOffset(current[f])
<1>1. current[f] \in Positions /\ recent[f] \in Seq(Places)
  BY DEF RoundInv
<1>2. recent[f][i][3] \in Positions /\ Len(recent[f]) \in Nat
  BY <1>1, ElementOfSeq DEF Places
<1>3. /\ Len(recent[f]) < Usable
      /\ \/ recent[f][i][3] + (Len(recent[f]) - i) = current[f]
         \/ recent[f][i][3] + (Len(recent[f]) - i) = current[f] + Usable
  BY DEF RoundInv, Round
<1>4. /\ NextOffset(current[f]) \in Positions
      /\ \/ NextOffset(current[f]) = current[f] + 1
         \/ NextOffset(current[f]) + Usable = current[f] + 1
  BY <1>1, NextPosition
<1>. DEFINE o == recent[f][i][3]
            k == Len(recent[f]) - i
            c == current[f]
            d == NextOffset(current[f])
<1>5. o \in 2 .. Size - 1 /\ c \in 2 .. Size - 1 /\ d \in 2 .. Size - 1 /\ Size \in Nat
  BY <1>1, <1>2, <1>4, FakeIPConstants DEF Positions, First
<1>6. k \in Nat /\ k + 1 < Size - 2
  BY <1>2, <1>3, FakeIPConstants DEF Usable, First
<1>7. /\ o + k = c \/ o + k = c + (Size - 2)
      /\ d = c + 1 \/ d + (Size - 2) = c + 1
  BY <1>3, <1>4 DEF Usable, First
<1>. HIDE DEF o, k, c, d
<1>8. o # d
  BY <1>5, <1>6, <1>7
<1>. QED BY <1>8 DEF o, d

(* The allocation takes the next position, and the round goes on              *)
(* (store.go:95-116).                                                       *)
LEMMA AllocateKeepsRound ==
    ASSUME IndInv, RoundInv, NEW p \in Creators, CreateAllocate(p)
    PROVE  RoundInv'
<1>0. PICK f \in Families : f = want[p][2]
  BY DEF IndInv, TypeOK, CreateAllocate
<1>1. f \in Families /\ range \in Ranges
  BY DEF IndInv, TypeOK
<1>. DEFINE c == NextOffset(current[f])
            a == <<range, f, c>>
<1>2. /\ current' = [current EXCEPT ![f] = c] /\ UNCHANGED <<timer, metadata>>
      /\ recent' = [recent EXCEPT ![f] = Shifted(recent[f], a)]
  BY <1>0 DEF CreateAllocate, Remember, Shifted, disk
<1>3. current[f] \in Positions /\ c \in Positions
      /\ (c = current[f] + 1 \/ c + Usable = current[f] + 1)
  BY <1>1, NextPosition DEF RoundInv
<1>4. a \in Places /\ a[3] = c
  BY <1>1, <1>3 DEF Places
<1>5. /\ recent[f] \in Seq(Places) /\ Len(recent[f]) < Usable
      /\ Usable \in Nat
  BY <1>1, FakeIPConstants DEF RoundInv, Round, Usable, First
<1>. HIDE DEF c, a
<1>6. recent'[f] = Shifted(recent[f], a)
  BY <1>1, <1>2 DEF RoundInv
<1>7. /\ recent'[f] \in Seq(Places) /\ Len(recent'[f]) < Usable
      /\ Continues(recent'[f], recent[f], a)
  BY <1>4, <1>5, <1>6, RememberShifts, Zenon
<1>8. \A g \in Families \ {f} : recent'[g] = recent[g] /\ current'[g] = current[g]
  BY <1>2 DEF RoundInv
<1>9. current'[f] = c
  BY <1>1, <1>2 DEF RoundInv
<1>10. ASSUME NEW i \in 1 .. Len(recent'[f])
       PROVE  \/ recent'[f][i][3] + (Len(recent'[f]) - i) = c
              \/ recent'[f][i][3] + (Len(recent'[f]) - i) = c + Usable
  <2>0. Len(recent'[f]) \in Nat /\ Len(recent[f]) \in Nat
    BY <1>5, <1>7
  <2>1. CASE i = Len(recent'[f]) /\ recent'[f][i] = a
    BY <1>3, <1>4, <2>0, <2>1 DEF Positions, First
  <2>2. ASSUME NEW j \in 1 .. Len(recent[f]), recent'[f][i] = recent[f][j],
               Len(recent[f]) - j + 1 = Len(recent'[f]) - i
        PROVE  \/ recent'[f][i][3] + (Len(recent'[f]) - i) = c
               \/ recent'[f][i][3] + (Len(recent'[f]) - i) = c + Usable
    <3>1. recent[f][j][3] \in Positions
      BY <1>5, ElementOfSeq DEF Places
    <3>2. \/ recent[f][j][3] + (Len(recent[f]) - j) = current[f]
          \/ recent[f][j][3] + (Len(recent[f]) - j) = current[f] + Usable
      BY <1>1 DEF RoundInv, Round
    <3>. DEFINE o == recent[f][j][3]
                k == Len(recent[f]) - j
    <3>4. o \in 2 .. Size - 1 /\ k \in Nat /\ k + 1 < Size - 2
      BY <1>5, <2>0, <3>1, FakeIPConstants DEF Positions, First, Usable
    <3>7. /\ current[f] \in 2 .. Size - 1 /\ c \in 2 .. Size - 1 /\ Size \in Nat
          /\ c = current[f] + 1 \/ c + (Size - 2) = current[f] + 1
      BY <1>3, FakeIPConstants DEF Positions, First, Usable
    <3>5. Len(recent'[f]) - i = k + 1 /\ recent'[f][i][3] = o
      BY <2>2
    <3>6. o + k = current[f] \/ o + k = current[f] + Usable
      BY <3>2
    <3>. HIDE DEF o, k
    <3>8. o + (k + 1) = c \/ o + (k + 1) = c + (Size - 2)
      BY <3>4, <3>6, <3>7 DEF Usable, First
    <3>. QED BY <3>5, <3>8 DEF Usable, First
  <2>. QED BY <1>7, <2>1, <2>2 DEF Continues
<1>11. \A g \in Families : Round(g)'
  <2>1. Round(f)'
    BY <1>7, <1>9, <1>10 DEF Round
  <2>2. ASSUME NEW g \in Families \ {f} PROVE Round(g)'
    BY <1>8, Zenon DEF RoundInv, Round
  <2>. QED BY <2>1, <2>2
<1>12. /\ current' \in [Families -> Positions]
       /\ recent' \in [Families -> Seq(Places)]
  <2>1. current' \in [Families -> Positions]
    BY <1>2, <1>3 DEF RoundInv
  <2>2. recent' = [recent EXCEPT ![f] = recent'[f]]
    BY <1>2, <1>6, Zenon
  <2>. QED BY <1>7, <2>1, <2>2 DEF RoundInv
<1>. QED BY <1>2, <1>11, <1>12 DEF RoundInv

(* RoundInv is inductive: a position is saved by the timer and by Close, and  *)
(* only the one that was current is resumed with what went before             *)
(* (store.go:40-80, cachefile/fakeip.go:18-69).                             *)
LEMMA RoundInvStep ==
    ASSUME IndInv, RoundInv, [Next]_vars
    PROVE  RoundInv'
<1>0. /\ [f \in Families |-> <<>>] \in [Families -> Seq(Places)]
      /\ recent' = [f \in Families |-> <<>>] => \A f \in Families : Round(f)'
      /\ First \in Positions
  <2>1. recent' = [f \in Families |-> <<>>] => \A f \in Families : Len(recent'[f]) = 0
    OBVIOUS
  <2>. QED BY <2>1, FakeIPConstants DEF Round, Usable, First, Positions
<1>1. CASE UNCHANGED <<current, recent>>
           /\ timer' \in {timer, None, [range |-> range, current |-> current]}
           /\ metadata' \in {metadata, timer, None, [range |-> range, current |-> current]}
  BY <1>1 DEF RoundInv, Round
<1>2. ASSUME NEW r \in Ranges, StartResume(r) PROVE RoundInv'
  <2>1. /\ metadata # None /\ current' = metadata.current /\ metadata' = None /\ timer' = timer
        /\ recent' = IF metadata = [range |-> range, current |-> current]
                     THEN recent ELSE [f \in Families |-> <<>>]
    BY <1>2 DEF StartResume, Matches
  <2>2. CASE metadata = [range |-> range, current |-> current]
    <3>1. current' = current /\ recent' = recent
      BY <2>1, <2>2
    <3>. QED BY <2>1, <3>1 DEF RoundInv, Round
  <2>3. CASE metadata # [range |-> range, current |-> current]
    BY <1>0, <2>1, <2>3 DEF RoundInv
  <2>. QED BY <2>2, <2>3
<1>3. ASSUME NEW r \in Ranges, StartFresh(r) PROVE RoundInv'
  <2>1. /\ current' = [f \in Families |-> First] /\ metadata' = None /\ timer' = timer
        /\ recent' = [f \in Families |-> <<>>]
    BY <1>3 DEF StartFresh
  <2>. QED BY <1>0, <2>1 DEF RoundInv
<1>4. CASE StartReset \/ Flush
  BY <1>1, <1>4 DEF StartReset, Flush, FakeIPReset, disk
<1>5. CASE TimerFires \/ Close \/ Exit
  BY <1>1, <1>5 DEF TimerFires, Close, Exit, disk
<1>6. ASSUME NEW p \in Creators,
             CreateFound(p) \/ CreateStore(p) \/ \E d \in Domains, f \in Used : CreateLoad(p, d, f)
      PROVE  RoundInv'
  <2>1. CASE CreateFound(p) \/ \E d \in Domains, f \in Used : CreateLoad(p, d, f)
    <3>1. UNCHANGED <<current, recent, timer, metadata>>
      BY <2>1 DEF CreateFound, CreateLoad, disk
    <3>. QED BY <1>1, <3>1
  <2>2. CASE CreateStore(p)
    <3>1. /\ UNCHANGED <<current, recent, metadata>>
          /\ timer' \in {timer, [range |-> range, current |-> current]}
      BY <2>2 DEF CreateStore, FakeIPStore
    <3>. QED BY <1>1, <3>1
  <2>. QED BY <1>6, <2>1, <2>2
<1>7. CASE UNCHANGED vars
  BY <1>1, <1>7 DEF vars, disk
<1>. QED BY <1>2, <1>3, <1>4, <1>5, <1>6, <1>7, AllocateKeepsRound DEF Next

(* An address is not taken from its domain before every other usable address  *)
(* of the range has been allocated, for a range of any size and any number of *)
(* concurrent calls, also across a restart that recovers the position         *)
(* (store.go:95-116).                                                       *)
THEOREM NoEarlyReuseHolds == Spec => NoEarlyReuse
<1>. DEFINE Fresh == \A p \in Creators :
                        pc[p] = "missed" /\ pc'[p] = "store" =>
                           LET f == want[p][2] IN
                           \A i \in 1 .. Len(recent[f]) :
                              recent[f][i] # <<range, f, current'[f]>>
<1>1. Init => RoundInv
  <2>. SUFFICES ASSUME Init PROVE RoundInv
    OBVIOUS
  <2>1. First \in Positions /\ 0 < Usable
    BY FakeIPConstants DEF First, Positions, Usable
  <2>2. \A f \in Families : recent[f] = <<>> /\ Len(recent[f]) = 0
    BY DEF Init
  <2>3. \A f \in Families : Round(f)
    BY <2>1, <2>2 DEF Round
  <2>. QED BY <2>1, <2>3 DEF Init, RoundInv
<1>2. (IndInv /\ RoundInv) /\ [Next]_vars => (IndInv /\ RoundInv)'
  BY NextIndInv, RoundInvStep
<1>3. ASSUME IndInv, RoundInv, [Next]_vars PROVE [Fresh]_vars
  <2>. SUFFICES ASSUME Next, NEW p \in Creators, pc[p] = "missed", pc'[p] = "store",
                       NEW i \in 1 .. Len(recent[want[p][2]])
                PROVE  recent[want[p][2]][i] # <<range, want[p][2], current'[want[p][2]]>>
    BY <1>3
  <2>1. CreateAllocate(p)
    BY <1>3, Zenon DEF Next, StartResume, StartFresh, StartReset, TimerFires, Flush, Close, Exit,
                CreateLoad, CreateFound, CreateAllocate, CreateStore, IndInv, TypeOK
  <2>2. want[p][2] \in Families
    BY <1>3 DEF IndInv, TypeOK
  <2>3. current'[want[p][2]] = NextOffset(current[want[p][2]])
    BY <1>3, <2>1, <2>2 DEF CreateAllocate, RoundInv
  <2>4. recent[want[p][2]][i][3] # NextOffset(current[want[p][2]])
    BY <1>3, <2>2, NextIsNotRecent
  <2>. QED BY <2>3, <2>4
<1>4. (IndInv /\ RoundInv) /\ [Next]_vars => [Fresh]_vars
  BY <1>3
<1>5. Init => IndInv
  BY InitIndInv
<1>. QED BY <1>1, <1>2, <1>4, <1>5, PTL DEF Spec, NoEarlyReuse
=============================================================================
