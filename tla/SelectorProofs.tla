--------------------------- MODULE SelectorProofs ---------------------------
(* Proofs about Selector, for any number of outbounds, callers and           *)
(* connections.                                                             *)
EXTENDS Selector, TLAPS

(* Every step of SelectOutbound, of a dial and of a restart keeps the types  *)
(* and what is known of the connections (selector.go:74-177).               *)
LEMMA FollowStep ==
    TypeOK /\ FollowInv /\ [Next]_vars => TypeOK' /\ FollowInv'
<1> DEFINE Inv == TypeOK /\ FollowInv
<1> SUFFICES ASSUME Inv, [Next]_vars PROVE Inv'
    OBVIOUS
<1> USE SelectorConstants DEF FollowInv, TypeOK
<1>1. CASE Start
    BY <1>1 DEF Start, StoredOrDefault
<1>2. CASE Restart
    BY <1>2, Zenon DEF Restart
<1>3. ASSUME NEW c \in Callers, NEW o \in Outbounds, SelectSwap(c, o) PROVE Inv'
    <2>1. CASE selected = o
        BY <1>3, <2>1 DEF SelectSwap
    <2>2. CASE selected # o
        <3>1. pc'[c] # "idle"
            BY <1>3, <2>2 DEF SelectSwap
        <3>2. TypeOK'
            BY <1>3, <2>2 DEF SelectSwap
        <3> QED
            BY <1>3, <3>1, <3>2 DEF SelectSwap
    <2> QED
        BY <2>1, <2>2
<1>4. ASSUME NEW c \in Callers, SelectStore(c) PROVE Inv'
    <2>1. TypeOK'
        BY <1>4, Zenon DEF SelectStore
    <2>2. pc'[c] # "idle"
        BY <1>4 DEF SelectStore
    <2> QED
        BY <1>4, <2>1, <2>2 DEF SelectStore
<1>5. ASSUME NEW c \in Callers, SelectInterrupt(c) PROVE Inv'
    <2> DEFINE hit == {x \in group : x \notin external \/ InterruptExternal}
    <2>1. /\ conn' = [x \in Conns |-> IF x \in hit THEN "closed" ELSE conn[x]]
          /\ group' = group \ hit
          /\ late' = late \union {x \in Conns : conn[x] \in {"dialing", "dialed"}}
          /\ UNCHANGED <<selected, stored, via, external>>
        BY <1>5 DEF SelectInterrupt
    <2>2. TypeOK'
        BY <1>5, <2>1 DEF SelectInterrupt
    <2>3. \A x \in group' : conn'[x] = "open"
        BY <2>1
    <2>4. selected' = None => \A x \in Conns : conn'[x] \in {"none", "closed"}
        BY <2>1
    <2>5. \A x \in Conns : ~ (/\ conn'[x] \in {"dialing", "dialed"} \/ x \in group'
                              /\ x \notin late'
                              /\ x \notin external' \/ InterruptExternal)
        BY <2>1
    <2> QED
        BY <2>2, <2>3, <2>4, <2>5
<1>6. ASSUME NEW x \in Conns, NEW ext \in BOOLEAN, DialContext(x, ext) PROVE Inv'
    BY <1>6 DEF DialContext
<1>7. ASSUME NEW x \in Conns, Dialed(x) PROVE Inv'
    BY <1>7 DEF Dialed
<1>8. ASSUME NEW x \in Conns, NewConn(x) PROVE Inv'
    BY <1>8 DEF NewConn
<1>9. ASSUME NEW x \in Conns, NewConnectionEx(x) PROVE Inv'
    BY <1>9 DEF NewConnectionEx
<1>10. ASSUME NEW x \in Conns, Close(x) PROVE Inv'
    BY <1>10 DEF Close
<1>11. CASE UNCHANGED vars
    BY <1>11 DEF vars
<1> QED
    BY <1>1, <1>2, <1>3, <1>4, <1>5, <1>6, <1>7, <1>8, <1>9, <1>10, <1>11 DEF Next

(* The same steps keep what is known of the stored selection                *)
(* (selector.go:74-105, 122-141).                                           *)
LEMMA StoreStep ==
    TypeOK /\ StoreInv /\ [Next]_vars => StoreInv'
<1> SUFFICES ASSUME TypeOK, StoreInv, [Next]_vars PROVE StoreInv'
    OBVIOUS
<1> USE SelectorConstants DEF StoreInv, TypeOK
<1>1. CASE Start
    <2>1. selected' = StoredOrDefault' /\ UNCHANGED <<pc, target, unsaved>>
        BY <1>1 DEF Start, StoredOrDefault
    <2>2. selected' # None /\ \A c \in Callers : pc'[c] = "idle"
        BY <1>1 DEF Start, StoredOrDefault
    <2> QED
        BY <2>1, <2>2
<1>2. CASE Restart
    BY <1>2 DEF Restart, StoredOrDefault
<1>3. ASSUME NEW c \in Callers, NEW o \in Outbounds, SelectSwap(c, o) PROVE StoreInv'
    <2>1. CASE selected = o
        BY <1>3, <2>1 DEF SelectSwap, StoredOrDefault
    <2>2. CASE selected # o /\ \E d \in Callers : pc[d] = "store"
        BY <1>3, <2>2, Zenon DEF SelectSwap
    <2>3. CASE selected # o /\ ~ \E d \in Callers : pc[d] = "store"
        <3>1. pc'[c] = "store" /\ target'[c] = o /\ selected' = o /\ o # None
            BY <1>3, <2>3 DEF SelectSwap
        <3>2. \A d \in Callers \ {c} : pc'[d] # "store"
            BY <1>3, <2>3 DEF SelectSwap
        <3> QED
            BY <3>1, <3>2
    <2> QED
        BY <2>1, <2>2, <2>3
<1>4. ASSUME NEW c \in Callers, SelectStore(c) PROVE StoreInv'
    <2> selected' = selected /\ selected # None
        BY <1>4 DEF SelectStore
    <2>1. CASE unsaved'
        BY <2>1
    <2>2. CASE ~unsaved'
        <3>1. ~unsaved /\ stored' = target[c] /\ selected' = selected /\ target' = target
            BY <1>4, <2>2 DEF SelectStore
        <3>2. target[c] = selected
            BY <1>4, <3>1 DEF SelectStore
        <3>3. \A d \in Callers : pc'[d] = "store" => pc[d] = "store"
            BY <1>4 DEF SelectStore
        <3>4. selected' # None => selected' = StoredOrDefault'
            BY <3>1, <3>2 DEF StoredOrDefault
        <3> QED
            BY <3>1, <3>3, <3>4
    <2> QED
        BY <2>1, <2>2
<1>5. ASSUME NEW c \in Callers, SelectInterrupt(c) PROVE StoreInv'
    <2>1. /\ selected' = selected /\ stored' = stored /\ unsaved' = unsaved
          /\ selected # None
          /\ \A d \in Callers : (pc'[d] = "store") = (pc[d] = "store")
          /\ \A d \in Callers : pc[d] = "store" => target'[d] = target[d]
        BY <1>5 DEF SelectInterrupt
    <2> QED
        BY <2>1 DEF StoredOrDefault
<1>6. CASE \E x \in Conns :
              \/ Dialed(x) \/ NewConn(x) \/ NewConnectionEx(x) \/ Close(x)
              \/ \E ext \in BOOLEAN : DialContext(x, ext)
    <2>1. UNCHANGED <<selected, stored, pc, target, unsaved>>
        BY <1>6 DEF Dialed, NewConn, NewConnectionEx, Close, DialContext
    <2> QED
        BY <2>1 DEF StoredOrDefault
<1>7. CASE UNCHANGED vars
    BY <1>7 DEF vars, StoredOrDefault
<1> QED
    BY <1>1, <1>2, <1>3, <1>4, <1>5, <1>6, <1>7 DEF Next

(* IndInv holds in every behaviour of the selector (selector.go:74-177).    *)
THEOREM IndInvHolds == Spec => []IndInv
<1>1. Init => IndInv
    BY SelectorConstants, Zenon DEF Init, IndInv, TypeOK, FollowInv, StoreInv
<1>2. IndInv /\ [Next]_vars => IndInv'
    BY FollowStep, StoreStep DEF IndInv
<1> QED
    BY <1>1, <1>2, PTL DEF Spec

(* After every SelectOutbound has returned, the connections of the group go  *)
(* through the selected outbound, for any number of concurrent selections    *)
(* and connections (selector.go:122-149, interrupt/group.go:25-52).         *)
THEOREM ConnectionsFollowSelectionHolds == Spec => []ConnectionsFollowSelection
<1>1. IndInv => ConnectionsFollowSelection
    BY DEF IndInv, TypeOK, FollowInv, ConnectionsFollowSelection, Quiet
<1> QED
    BY <1>1, IndInvHolds, PTL

(* After every SelectOutbound has returned, the cache file has the selected  *)
(* outbound, unless writes overlapped or failed (selector.go:122-141).      *)
THEOREM SelectionIsStoredHolds == Spec => []SelectionIsStored
<1>1. IndInv => SelectionIsStored
    BY DEF IndInv, TypeOK, StoreInv, SelectionIsStored, Quiet
<1> QED
    BY <1>1, IndInvHolds, PTL
=============================================================================
