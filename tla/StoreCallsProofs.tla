-------------------------- MODULE StoreCallsProofs --------------------------
(***************************************************************************)
(* What the closures of the write calls do to a snapshot.                  *)
(***************************************************************************)
EXTENDS StoreCalls, TLAPS

(* A call is a kind, a set of keys and a function from maps to maps.       *)
LEMMA CallType ==
    ASSUME NEW c \in WriteCalls \cup {NoCall}
    PROVE  /\ c.kind \in Kinds \cup {"none"}
           /\ c.keys \subseteq Keys
           /\ c.txn \in [Maps -> Maps]
<1>1. CASE c = NoCall
  BY <1>1 DEF NoCall
<1>2. CASE \E k \in Keys, v \in Values : c = SetCall(k, v)
  BY <1>2 DEF SetCall, Maps, Contents, Kinds
<1>3. CASE \E w \in UNION {[ks -> Values] : ks \in SUBSET Keys} : c = MsetCall(w)
  BY <1>3 DEF MsetCall, Maps, Contents, Kinds
<1>4. CASE \E k \in Keys, fn \in [Values -> Values], d \in Values : c = AtomicCall(k, fn, d)
  <2>1. PICK k \in Keys, fn \in [Values -> Values], d \in Values : c = AtomicCall(k, fn, d)
    BY <1>4
  <2>2. \A m \in Maps : Lookup(m, k, d) \in Values
    BY DEF Lookup, Maps, Contents
  <2>3. \A m \in Maps : [m EXCEPT ![k] = fn[Lookup(m, k, d)]] \in Maps
    BY <2>2 DEF Maps, Contents
  <2> QED
    BY <2>1, <2>3 DEF AtomicCall, Kinds
<1>5. CASE \E k \in Keys, e \in DeleteKinds : c = DeleteCall(k, e)
  BY <1>5 DEF DeleteCall, Maps, Contents, Kinds
<1>6. CASE c \in [kind : {"mutate"}, keys : {{}}, txn : [Maps -> Maps]]
  BY <1>6 DEF Kinds
<1> QED
  BY <1>1, <1>2, <1>3, <1>4, <1>5, <1>6 DEF WriteCalls

(* Only mutate() can change a key it does not announce.                    *)
LEMMA CallConfined ==
    ASSUME NEW c \in WriteCalls, c.kind # "mutate",
           NEW m \in Maps, NEW k \in Keys, k \notin c.keys
    PROVE  c.txn[m][k] = m[k]
<1>1. CASE \E l \in Keys, v \in Values : c = SetCall(l, v)
  BY <1>1 DEF SetCall, Maps
<1>2. CASE \E w \in UNION {[ks -> Values] : ks \in SUBSET Keys} : c = MsetCall(w)
  BY <1>2 DEF MsetCall, Maps
<1>3. CASE \E l \in Keys, fn \in [Values -> Values], d \in Values : c = AtomicCall(l, fn, d)
  BY <1>3 DEF AtomicCall, Maps
<1>4. CASE \E l \in Keys, e \in DeleteKinds : c = DeleteCall(l, e)
  BY <1>4 DEF DeleteCall, Maps
<1>5. CASE c \in [kind : {"mutate"}, keys : {{}}, txn : [Maps -> Maps]]
  BY <1>5
<1> QED
  BY <1>1, <1>2, <1>3, <1>4, <1>5 DEF WriteCalls

(* Deleting a key that is not there changes nothing.                       *)
LEMMA DeleteAbsent ==
    ASSUME NEW c \in WriteCalls, c.kind \in DeleteKinds,
           NEW m \in Maps, \A k \in c.keys : m[k] = Missing
    PROVE  c.txn[m] = m
<1>1. PICK k \in Keys, e \in DeleteKinds : c = DeleteCall(k, e)
  BY DEF WriteCalls, SetCall, MsetCall, AtomicCall, DeleteKinds
<1>2. m[k] = Missing
  BY <1>1 DEF DeleteCall
<1> QED
  BY <1>1, <1>2 DEF DeleteCall, Maps

(* Only mutate() and mset may be about other than one key.                 *)
LEMMA OneKey ==
    ASSUME NEW c \in WriteCalls, c.kind \in {"set", "atomic"} \cup DeleteKinds
    PROVE  \E k \in Keys : c.keys = {k}
BY DEF WriteCalls, SetCall, MsetCall, AtomicCall, DeleteCall, DeleteKinds

(* A call leaves a value under each of its keys, a delete leaves none.     *)
LEMMA CallStores ==
    ASSUME NEW c \in WriteCalls, c.kind # "mutate", NEW m \in Maps, NEW k \in c.keys
    PROVE  c.txn[m][k] = Missing <=> c.kind \in DeleteKinds
<1>1. ASSUME NEW l \in Keys, NEW v \in Values, c = SetCall(l, v)
      PROVE  c.txn[m][k] \in Values /\ c.kind \notin DeleteKinds
  BY <1>1 DEF SetCall, Maps, DeleteKinds
<1>2. ASSUME NEW w \in UNION {[ks -> Values] : ks \in SUBSET Keys}, c = MsetCall(w)
      PROVE  c.txn[m][k] \in Values /\ c.kind \notin DeleteKinds
  BY <1>2 DEF MsetCall, Maps, DeleteKinds
<1>3. ASSUME NEW l \in Keys, NEW fn \in [Values -> Values], NEW d \in Values,
             c = AtomicCall(l, fn, d)
      PROVE  c.txn[m][k] \in Values /\ c.kind \notin DeleteKinds
  <2>1. Lookup(m, l, d) \in Values
    BY DEF Lookup, Maps, Contents
  <2> QED
    BY <1>3, <2>1 DEF AtomicCall, Maps, DeleteKinds
<1>4. ASSUME NEW l \in Keys, NEW e \in DeleteKinds, c = DeleteCall(l, e)
      PROVE  c.txn[m][k] = Missing /\ c.kind \in DeleteKinds
  BY <1>4 DEF DeleteCall, Maps
<1>5. c \notin [kind : {"mutate"}, keys : {{}}, txn : [Maps -> Maps]]
  OBVIOUS
<1> QED
  BY <1>1, <1>2, <1>3, <1>4, <1>5, MissingIsNoValue DEF WriteCalls
=============================================================================
