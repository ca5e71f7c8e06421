--------------------------- MODULE BackendsProofs ---------------------------
(***************************************************************************)
(* For any number of users, backend objects, keys, rows and values: a load *)
(* finds the keys that nobody writes as they were when it began, and purges*)
(* only those past their deadline; and what a write that returned made of a*)
(* key stays until then, whatever fails, crashes or loads.                 *)
(***************************************************************************)
EXTENDS Backends, TLAPS

-----------------------------------------------------------------------------
(* Changes: functions from some of the keys to rows, or to no row.         *)

Changes == UNION {[S -> Content] : S \in SUBSET Keys}

LEMMA ChangeTypes ==
    ASSUME NEW c \in Changes
    PROVE  /\ IsChange(c)
           /\ c \in [DOMAIN c -> Content]
           /\ DOMAIN c = {} => c = None
<1>1. PICK S \in SUBSET Keys : c \in [S -> Content]
  BY DEF Changes
<1>2. DOMAIN c = S /\ \A k \in S : c[k] \in Content
  BY <1>1
<1>3. ASSUME S = {} PROVE c = None
  <2>1. c = [k \in S |-> c[k]]
    BY <1>1
  <2> QED
    BY <2>1, <1>3 DEF None
<1> QED
  BY <1>1, <1>2, <1>3 DEF IsChange

LEMMA NoChange == None \in Changes /\ DOMAIN None = {}
<1>1. None \in [{} -> Content]
  BY DEF None
<1>2. {} \in SUBSET Keys
  OBVIOUS
<1> QED
  BY <1>1, <1>2 DEF Changes, None

LEMMA ChangeOf ==
    ASSUME NEW S \in SUBSET Keys, NEW c \in [S -> Content]
    PROVE  c \in Changes
BY DEF Changes

LEMMA OverTypes ==
    ASSUME NEW c \in Changes, NEW d \in Changes
    PROVE  /\ Over(c, d) \in Changes
           /\ DOMAIN Over(c, d) = DOMAIN c \cup DOMAIN d
           /\ \A k \in DOMAIN c : Over(c, d)[k] = c[k]
           /\ \A k \in DOMAIN d \ DOMAIN c : Over(c, d)[k] = d[k]
<1> DEFINE S == DOMAIN c \cup DOMAIN d
<1>1. c \in [DOMAIN c -> Content] /\ d \in [DOMAIN d -> Content] /\ S \in SUBSET Keys
  BY ChangeTypes DEF IsChange
<1>2. Over(c, d) = [k \in S |-> IF k \in DOMAIN c THEN c[k] ELSE d[k]]
  BY DEF Over
<1>3. Over(c, d) \in [S -> Content]
  BY <1>1, <1>2
<1> QED
  BY <1>1, <1>2, <1>3, ChangeOf

(* Changes made to the rows of all keys.                                   *)
LEMMA RowsAfter ==
    ASSUME NEW c \in Changes, NEW rows \in [Keys -> Content]
    PROVE  /\ Over(c, rows) \in [Keys -> Content]
           /\ \A k \in DOMAIN c : Over(c, rows)[k] = c[k]
           /\ \A k \in Keys \ DOMAIN c : Over(c, rows)[k] = rows[k]
<1>1. rows \in Changes /\ DOMAIN rows = Keys
  BY ChangeOf
<1>2. DOMAIN c \subseteq Keys
  BY ChangeTypes DEF IsChange
<1>3. DOMAIN c \cup DOMAIN rows = Keys
  BY <1>1, <1>2
<1>4. Over(c, rows) \in Changes /\ DOMAIN Over(c, rows) = Keys
  BY <1>1, <1>3, OverTypes
<1>5. Over(c, rows) \in [Keys -> Content]
  BY <1>4, ChangeTypes
<1> QED
  BY <1>1, <1>5, OverTypes

-----------------------------------------------------------------------------
(* The inductive invariant                                                 *)

Calls ==
    [pc : {"idle", "execute", "commit", "select", "px", "send", "scan", "pttl",
           "append", "loaded"},
     loads : BOOLEAN, change : Changes, px : Deadline, since : Nat,
     todo : SUBSET Keys, scanned : SUBSET Keys, key : Keys \cup {Never},
     got : Content, pttl : Int, out : Changes]

Typing ==
    /\ kind \in {"memory", "sqlite", "redis"}
    /\ conn \in [Users -> Users]
    /\ now \in 0..MaxTime
    /\ disk \in [Keys -> Content]
    /\ open \subseteq Users
    /\ lock \in [Users -> Users \cup {Free}]
    /\ txn \in [Users -> Changes]
    /\ call \in [Users -> Calls]
    /\ kept \in [Keys -> Content]
    /\ unclear \subseteq Keys

(* Where a user is in its call decides what it holds and what it carries.  *)
Place(u) ==
    /\ call[u].pc = "idle" => ~call[u].loads
    /\ call[u].pc \in {"execute", "commit", "select"} => kind = "sqlite"
    /\ call[u].pc \in {"px", "send"} =>
          /\ kind = "redis"
          /\ \E k \in Keys : Written(u) = {k}
    /\ call[u].pc = "send" /\ call[u].px # Never =>
          \A k \in Written(u) : call[u].change[k] \in Row
    /\ call[u].pc \in {"pttl", "append"} => call[u].key \in Keys /\ call[u].got \in Row
Locking(u) ==
    call[u].pc = "commit" <=> lock[conn[u]] = u
(* What is to be committed is in the transaction; a load only deletes.     *)
Executed(u) ==
    /\ call[u].pc = "commit" =>
          \A k \in Written(u) : /\ k \in DOMAIN txn[conn[u]]
                                /\ txn[conn[u]][k] = call[u].change[k]
    /\ call[u].pc \in {"execute", "commit"} /\ call[u].loads =>
          \A k \in Written(u) : call[u].change[k] = NoRow
Control == \A u \in Users : Place(u) /\ Locking(u) /\ Executed(u)

(* At most one transaction is open, and each of its keys is unclear or is  *)
(* being written by a user about to commit it.                             *)
Accounted(c, k) ==
    \/ k \in unclear
    \/ \E u \in Users : conn[u] = c /\ call[u].pc = "commit" /\ k \in Written(u)
Transactions ==
    /\ \A c \in Users : txn[c] # None => kind = "sqlite"
    /\ \A c, d \in Users : txn[c] # None /\ txn[d] # None => c = d
    /\ \A c \in Users : \A k \in DOMAIN txn[c] : Accounted(c, k)

IInv == Typing /\ Control /\ Transactions

-----------------------------------------------------------------------------
LEMMA IdleCall ==
    NoCall \in Calls /\ NoCall.pc = "idle" /\ ~NoCall.loads /\ NoCall.change = None
BY NoChange DEF NoCall, Calls, Deadline, Content

LEMMA CallTypes ==
    ASSUME Typing, NEW u \in Users
    PROVE  /\ call[u] \in Calls
           /\ call[u].change \in Changes
           /\ call[u].out \in Changes
           /\ Written(u) \subseteq Keys
           /\ \A k \in Written(u) : call[u].change[k] \in Content
<1>1. call[u] \in Calls /\ call[u].change \in Changes /\ call[u].out \in Changes
  BY DEF Typing, Calls
<1> QED
  BY <1>1, ChangeTypes DEF Written, IsChange

THEOREM InitIInv == Init => IInv
<1> SUFFICES ASSUME Init PROVE IInv
  OBVIOUS
<1>1. kind \in {"memory", "sqlite", "redis"}
  BY DEF Init, Resolve
<1>2. conn \in [Users -> Users]
  BY DEF Init
<1>3. Typing
  BY <1>1, <1>2, IdleCall, NoChange, BackendsAssumption DEF Init, Typing, Content
<1>4. \A u \in Users : /\ call[u].pc = "idle"
                       /\ ~call[u].loads
                       /\ lock[conn[u]] = Free
                       /\ txn[u] = None
  BY <1>2, IdleCall DEF Init
<1>5. Control
  BY <1>4, BackendsAssumption DEF Control, Place, Locking, Executed
<1>6. Transactions
  BY <1>4, NoChange DEF Transactions
<1> QED
  BY <1>3, <1>5, <1>6 DEF IInv

-----------------------------------------------------------------------------
(* Steps that only move one user on, and may make more keys unclear.       *)

LEMMA QuietStep ==
    ASSUME IInv, NEW u \in Users,
           UNCHANGED <<kind, conn, now, disk, txn, lock, kept>>,
           open' \subseteq Users,
           unclear \subseteq unclear', unclear' \subseteq Keys,
           call' \in [Users -> Calls],
           \A v \in Users \ {u} : call'[v] = call[v],
           call[u].pc # "commit", call'[u].pc # "commit",
           Place(u)', Executed(u)'
    PROVE  IInv'
<1>1. Typing'
  BY DEF IInv, Typing
<1>2. ASSUME NEW v \in Users
      PROVE  Place(v)' /\ Locking(v)' /\ Executed(v)'
  <2>1. CASE v = u
    BY <2>1 DEF IInv, Control, Locking
  <2>2. CASE v # u
    BY <2>2 DEF IInv, Control, Place, Locking, Executed, Written
  <2> QED
    BY <2>1, <2>2
<1>3. ASSUME NEW c \in Users, NEW k \in DOMAIN txn[c]
      PROVE  Accounted(c, k)'
  <2>1. CASE k \in unclear
    BY <2>1 DEF Accounted
  <2>2. CASE k \notin unclear
    <3>1. PICK v \in Users : conn[v] = c /\ call[v].pc = "commit" /\ k \in Written(v)
      BY <2>2 DEF IInv, Transactions, Accounted
    <3>2. v # u
      BY <3>1
    <3> QED
      BY <3>1, <3>2 DEF Accounted, Written
  <2> QED
    BY <2>1, <2>2
<1>4. Transactions'
  BY <1>3 DEF IInv, Transactions
<1> QED
  BY <1>1, <1>2, <1>4 DEF IInv, Control

LEMMA BeginWriteStep == ASSUME IInv, NEW u \in Users, BeginWrite(u) PROVE IInv'
<1>1. Typing /\ call[u].pc = "idle" /\ kind \in {"sqlite", "redis"}
  BY DEF IInv, BeginWrite, Typing
<1>2. PICK k \in Keys, row \in {NoRow} \cup [value : Values,
                    expire : {Never} \cup {now + ttl : ttl \in Ttls}] :
         call' = [call EXCEPT ![u].pc = IF kind = "sqlite" THEN "execute" ELSE "px",
                              ![u].change = Just(k, row)]
  BY DEF BeginWrite
<1>3. row \in Content
  BY <1>1, BackendsAssumption DEF Typing, Content, Row, Deadline
<1>4. Just(k, row) \in Changes /\ DOMAIN Just(k, row) = {k}
  <2>1. Just(k, row) \in [{k} -> Content] /\ {k} \in SUBSET Keys
    BY <1>3 DEF Just
  <2> QED
    BY <2>1, ChangeOf
<1>5. call[u] \in Calls
  BY <1>1, CallTypes
<1>6. /\ call'[u].pc = IF kind = "sqlite" THEN "execute" ELSE "px"
      /\ call'[u].change = Just(k, row)
      /\ call'[u].loads = call[u].loads
      /\ call' \in [Users -> Calls]
      /\ \A v \in Users \ {u} : call'[v] = call[v]
  BY <1>1, <1>2, <1>4, <1>5 DEF Typing, Calls
<1> QED
  <2>1. Place(u)' /\ Executed(u)'
    BY <1>1, <1>4, <1>6 DEF IInv, Control, Place, Executed, Written, BeginWrite, setting
  <2>2. unclear \subseteq unclear' /\ unclear' \subseteq Keys
    BY <1>1, <1>4, <1>6 DEF BeginWrite, Typing
  <2>3. /\ UNCHANGED <<kind, conn, now, disk, txn, lock, kept>>
        /\ open' \subseteq Users
    BY <1>1 DEF BeginWrite, setting, medium, Typing
  <2>4. call'[u].pc # "commit"
    BY <1>6
  <2> QED
    BY <1>1, <1>6, <2>1, <2>2, <2>3, <2>4, QuietStep

(* A call that ends leaves its user with none.                             *)
LEMMA FinishTypes ==
    ASSUME Typing, NEW u \in Users, Finish(u)
    PROVE  /\ call' \in [Users -> Calls]
           /\ call'[u] = NoCall
           /\ \A v \in Users \ {u} : call'[v] = call[v]
BY IdleCall DEF Typing, Finish

LEMMA FinishStep ==
    ASSUME IInv, NEW u \in Users, Finish(u), call[u].pc # "commit",
           UNCHANGED <<kind, conn, now, disk, txn, lock, kept, open>>,
           unclear \subseteq unclear', unclear' \subseteq Keys
    PROVE  IInv'
<1>1. Typing
  BY DEF IInv
<1>2. /\ call' \in [Users -> Calls]
      /\ call'[u] = NoCall
      /\ \A v \in Users \ {u} : call'[v] = call[v]
  BY <1>1, FinishTypes
<1>3. Place(u)' /\ Executed(u)'
  BY <1>2, IdleCall DEF Place, Executed
<1>4. open' \subseteq Users
  BY <1>1 DEF Typing
<1>5. call'[u].pc # "commit"
  BY <1>2, IdleCall
<1> QED
  BY <1>2, <1>3, <1>4, <1>5, QuietStep

LEMMA FinishingSteps ==
    ASSUME IInv, NEW u \in Users,
           Return(u) \/ ExecuteRaises(u) \/ SelectRaises(u) \/ LoadRaises(u)
    PROVE  IInv'
<1>1. Typing /\ Written(u) \subseteq Keys
  BY CallTypes DEF IInv
<1>2. Finish(u) /\ call[u].pc # "commit"
  BY DEF Return, ExecuteRaises, SelectRaises, LoadRaises
<1>3. UNCHANGED <<kind, conn, now, disk, txn, lock, kept, open>>
  BY DEF Return, ExecuteRaises, SelectRaises, LoadRaises, Blur, setting, medium, auxVars, loadVars
<1>4. unclear' = unclear \/ unclear' = unclear \cup Written(u)
  BY DEF Return, ExecuteRaises, SelectRaises, LoadRaises, Blur, auxVars, loadVars
<1>5. unclear \subseteq unclear' /\ unclear' \subseteq Keys
  BY <1>1, <1>4 DEF Typing
<1> QED
  BY <1>2, <1>3, <1>5, FinishStep

(* Steps of a load that read, and of a write that only computes.           *)
LEMMA ReadingStep ==
    ASSUME IInv, NEW u \in Users, call[u].pc # "commit",
           UNCHANGED <<kind, conn, now, disk, txn, lock, kept, open, unclear>>,
           NEW c \in Calls, call' = [call EXCEPT ![u] = c],
           c.pc \notin {"commit", "idle"},
           Place(u)', Executed(u)'
    PROVE  IInv'
<1>1. Typing
  BY DEF IInv
<1>2. /\ call' \in [Users -> Calls]
      /\ call'[u] = c
      /\ \A v \in Users \ {u} : call'[v] = call[v]
  BY <1>1 DEF Typing
<1>3. open' \subseteq Users /\ unclear \subseteq unclear' /\ unclear' \subseteq Keys
  BY <1>1 DEF Typing
<1> QED
  BY <1>2, <1>3, QuietStep

LEMMA BeginLoadStep == ASSUME IInv, NEW u \in Users, BeginLoad(u) PROVE IInv'
<1> DEFINE c == call'[u]
<1>1. Typing /\ call[u] \in Calls /\ now \in Nat
  BY CallTypes, BackendsAssumption DEF IInv, Typing
<1>2. PICK pc \in {"select", "scan", "loaded"} :
         /\ pc = "select" => kind = "sqlite"
         /\ call' = [call EXCEPT ![u].pc = pc, ![u].loads = TRUE, ![u].since = now]
  <2>1. CASE kind = "sqlite"
    BY <2>1 DEF BeginLoad
  <2>2. CASE kind = "redis"
    BY <2>2 DEF BeginLoad
  <2>3. CASE kind = "memory"
    <3>1. (CASE kind = "sqlite" -> "select" [] kind = "redis" -> "scan"
             [] OTHER -> "loaded") = "loaded"
      BY <2>3
    <3> QED
      BY <2>3, <3>1 DEF BeginLoad
  <2> QED
    BY <1>1, <2>1, <2>2, <2>3 DEF Typing
<1>3. /\ c.pc = pc
      /\ c \in Calls
      /\ call' = [call EXCEPT ![u] = c]
  BY <1>1, <1>2 DEF Typing, Calls
<1>4. UNCHANGED <<kind, conn, now, disk, txn, lock, kept, open, unclear>>
  BY DEF BeginLoad, setting, medium
<1>5. Place(u)' /\ Executed(u)'
  BY <1>2, <1>3, <1>4 DEF Place, Executed
<1>6. call[u].pc # "commit"
  BY DEF BeginLoad
<1> QED
  BY <1>2, <1>3, <1>4, <1>5, <1>6, ReadingStep

LEMMA SelectStep == ASSUME IInv, NEW u \in Users, Select(u) PROVE IInv'
<1> DEFINE c == call'[u]
           rows == After(txn[conn[u]], disk)
           dead == {k \in Keys : Expired(rows[k], call[u].since)}
           live == {k \in Keys : rows[k] # NoRow} \ dead
<1>1. Typing /\ call[u] \in Calls /\ kind = "sqlite" /\ call[u].pc = "select"
  BY CallTypes DEF IInv, Control, Place, Select
<1>2. rows \in [Keys -> Content]
  <2>1. txn[conn[u]] \in Changes /\ disk \in [Keys -> Content]
    BY <1>1 DEF Typing
  <2> QED
    BY <2>1, RowsAfter DEF After
<1> DEFINE change == [k \in dead |-> NoRow]
           out == [k \in live |-> rows[k]]
<1>3. change \in Changes /\ out \in Changes
  <2>1. change \in [dead -> Content] /\ dead \in SUBSET Keys
    BY DEF Content
  <2>2. out \in [live -> Content] /\ live \in SUBSET Keys
    BY <1>2
  <2> QED
    BY <2>1, <2>2, ChangeOf
<1>4. call' = [call EXCEPT ![u].pc = IF dead = {} THEN "loaded" ELSE "execute",
                           ![u].change = change, ![u].out = out]
  BY DEF Select
<1>5. /\ c.pc \in {"loaded", "execute"}
      /\ c.change = change
      /\ c \in Calls
      /\ call' = [call EXCEPT ![u] = c]
  <2> HIDE DEF change, out, dead
  <2> QED
    BY <1>1, <1>3, <1>4 DEF Typing, Calls
<1>6. UNCHANGED <<kind, conn, now, disk, txn, lock, kept, open, unclear>>
  BY DEF Select, setting, medium, auxVars, loadVars
<1>7. Place(u)' /\ Executed(u)'
  BY <1>1, <1>5, <1>6 DEF Place, Executed, Written
<1> QED
  BY <1>1, <1>5, <1>6, <1>7, ReadingStep

LEMMA ComputePxStep == ASSUME IInv, NEW u \in Users, ComputePx(u) PROVE IInv'
<1> DEFINE c == call'[u]
<1>1. Typing /\ call[u] \in Calls /\ kind = "redis" /\ call[u].pc = "px"
  BY CallTypes DEF IInv, Control, Place, ComputePx
<1>2. PICK k \in Keys : Written(u) = {k}
  BY <1>1 DEF IInv, Control, Place
<1>3. Key(u) = k /\ NewRow(u) = call[u].change[k] /\ NewRow(u) \in Content
  BY <1>1, <1>2, CallTypes DEF Key, NewRow
<1> DEFINE px == IF NewRow(u) = NoRow \/ NewRow(u).expire = Never
                 THEN Never ELSE AtLeastOne(NewRow(u).expire - now)
<1>4. px \in Deadline /\ (px # Never => NewRow(u) \in Row)
  <2>1. CASE NewRow(u) = NoRow \/ NewRow(u).expire = Never
    BY <2>1 DEF Deadline
  <2>2. CASE NewRow(u) # NoRow /\ NewRow(u).expire # Never
    <3>1. NewRow(u) \in Row /\ NewRow(u).expire \in Nat /\ now \in Nat
      BY <1>1, <1>3, <2>2, BackendsAssumption DEF Content, Row, Deadline, Typing
    <3>2. AtLeastOne(NewRow(u).expire - now) \in Nat
      BY <3>1 DEF AtLeastOne
    <3> QED
      BY <2>2, <3>1, <3>2 DEF Deadline
  <2> QED
    BY <2>1, <2>2
<1>5. call' = [call EXCEPT ![u].pc = "send", ![u].px = px]
  BY DEF ComputePx
<1>6. /\ c.pc = "send" /\ c.px = px
      /\ c.change = call[u].change
      /\ c \in Calls
      /\ call' = [call EXCEPT ![u] = c]
  <2> HIDE DEF px
  <2> QED
    BY <1>1, <1>4, <1>5 DEF Typing, Calls
<1>7. UNCHANGED <<kind, conn, now, disk, txn, lock, kept, open, unclear>>
  BY DEF ComputePx, setting, medium, auxVars, loadVars
<1>8. Place(u)' /\ Executed(u)'
  <2> HIDE DEF px
  <2> QED
    BY <1>1, <1>2, <1>3, <1>4, <1>6, <1>7 DEF Place, Executed, Written
<1> QED
  BY <1>1, <1>6, <1>7, <1>8, ReadingStep

LEMMA ScanStep == ASSUME IInv, NEW u \in Users, Scan(u) PROVE IInv'
<1> DEFINE c == call'[u]
<1>1. Typing /\ call[u] \in Calls /\ call[u].pc = "scan"
  BY CallTypes DEF IInv, Scan
<1>2. PICK page \in SUBSET (Keys \ call[u].scanned) :
         call' = [call EXCEPT ![u].todo = {k \in page : Present(k)},
                              ![u].scanned = @ \cup page]
  BY DEF Scan
<1>3. /\ c.pc = "scan"
      /\ c \in Calls
      /\ call' = [call EXCEPT ![u] = c]
  BY <1>1, <1>2 DEF Typing, Calls
<1>4. UNCHANGED <<kind, conn, now, disk, txn, lock, kept, open, unclear>>
  BY DEF Scan, setting, medium, auxVars, loadVars
<1>5. Place(u)' /\ Executed(u)'
  BY <1>3 DEF Place, Executed
<1> QED
  BY <1>1, <1>3, <1>4, <1>5, ReadingStep

LEMMA GetStep == ASSUME IInv, NEW u \in Users, Get(u) PROVE IInv'
<1> DEFINE c == call'[u]
<1>1. Typing /\ call[u] \in Calls /\ call[u].pc = "scan"
  BY CallTypes DEF IInv, Get
<1>2. PICK k \in call[u].todo :
         call' = IF Present(k)
                 THEN [call EXCEPT ![u].pc = "pttl", ![u].todo = @ \ {k},
                                   ![u].key = k, ![u].got = disk[k]]
                 ELSE [call EXCEPT ![u].todo = @ \ {k}]
  BY DEF Get
<1>3. k \in Keys /\ disk[k] \in Content /\ (Present(k) => disk[k] \in Row)
  BY <1>1, <1>2 DEF Typing, Calls, Content, Present
<1>4. /\ c \in Calls
      /\ call' = [call EXCEPT ![u] = c]
      /\ \/ c.pc = "scan"
         \/ c.pc = "pttl" /\ c.key \in Keys /\ c.got \in Row
  <2>1. CASE Present(k)
    BY <1>1, <1>2, <1>3, <2>1 DEF Typing, Calls
  <2>2. CASE ~Present(k)
    BY <1>1, <1>2, <1>3, <2>2 DEF Typing, Calls
  <2> QED
    BY <2>1, <2>2
<1>5. UNCHANGED <<kind, conn, now, disk, txn, lock, kept, open, unclear>>
  BY DEF Get, setting, medium, auxVars, loadVars
<1>6. Place(u)' /\ Executed(u)'
  BY <1>4 DEF Place, Executed
<1> QED
  BY <1>1, <1>4, <1>5, <1>6, ReadingStep

LEMMA PttlStep == ASSUME IInv, NEW u \in Users, Pttl(u) PROVE IInv'
<1> DEFINE c == call'[u]
           k == call[u].key
           pttl == CASE ~Present(k) -> -2
                     [] Present(k) /\ disk[k].expire = Never -> -1
                     [] OTHER -> disk[k].expire - now
<1>1. Typing /\ call[u] \in Calls /\ call[u].pc = "pttl" /\ k \in Keys /\ call[u].got \in Row
  BY CallTypes DEF IInv, Control, Place, Pttl
<1>2. pttl \in Int
  <2>1. CASE ~Present(k)
    BY <2>1
  <2>2. CASE Present(k) /\ disk[k].expire = Never
    BY <2>2
  <2>3. CASE Present(k) /\ disk[k].expire # Never
    <3>1. disk[k].expire \in Nat /\ now \in Nat
      BY <1>1, <2>3, BackendsAssumption DEF Present, Typing, Content, Row, Deadline
    <3>2. pttl = disk[k].expire - now
      BY <2>3
    <3> QED
      BY <3>1, <3>2
  <2> QED
    BY <2>1, <2>2, <2>3
<1>3. call' = [call EXCEPT ![u].pc = "append", ![u].pttl = pttl]
  BY DEF Pttl
<1>4. /\ c \in Calls
      /\ c.pc = "append" /\ c.key = call[u].key /\ c.got = call[u].got
      /\ call' = [call EXCEPT ![u] = c]
  <2> HIDE DEF pttl
  <2> QED
    BY <1>1, <1>2, <1>3 DEF Typing, Calls
<1>5. UNCHANGED <<kind, conn, now, disk, txn, lock, kept, open, unclear>>
  BY DEF Pttl, setting, medium, auxVars, loadVars
<1>6. Place(u)' /\ Executed(u)'
  BY <1>1, <1>4 DEF Place, Executed
<1> QED
  BY <1>1, <1>4, <1>5, <1>6, ReadingStep

LEMMA AppendStep == ASSUME IInv, NEW u \in Users, Append(u) PROVE IInv'
<1> DEFINE c == call'[u]
           row == [value |-> call[u].got.value, expire |-> ExpireAt(call[u].pttl)]
           found == Just(call[u].key, row)
           out == Over(found, call[u].out)
<1>1. /\ Typing /\ call[u] \in Calls /\ call[u].pc = "append"
      /\ call[u].key \in Keys /\ call[u].got \in Row
      /\ call[u].out \in Changes
  BY CallTypes DEF IInv, Control, Place, Append
<1>2. row \in Content
  <2>1. call[u].pttl \in Int /\ now \in Nat
    BY <1>1, BackendsAssumption DEF Calls, Typing
  <2>2. ExpireAt(call[u].pttl) \in Deadline
    BY <2>1 DEF ExpireAt, Deadline
  <2> QED
    BY <1>1, <2>2 DEF Row, Content
<1>3. found \in Changes
  <2> HIDE DEF row
  <2>1. found \in [{call[u].key} -> Content] /\ {call[u].key} \in SUBSET Keys
    BY <1>1, <1>2 DEF Just
  <2> QED
    BY <2>1, ChangeOf
<1>4. out \in Changes
  BY <1>1, <1>3, OverTypes
<1>5. call' = [call EXCEPT ![u].pc = "scan", ![u].out = out,
                           ![u].key = Never, ![u].got = NoRow, ![u].pttl = 0]
  BY DEF Append
<1>6. /\ c \in Calls
      /\ c.pc = "scan"
      /\ call' = [call EXCEPT ![u] = c]
  <2> DEFINE next == [call[u] EXCEPT !.pc = "scan", !.out = out,
                                     !.key = Never, !.got = NoRow, !.pttl = 0]
  <2> HIDE DEF out
  <2>1. next \in Calls /\ next.pc = "scan"
    <3>1. NoRow \in Content /\ Never \in Keys \cup {Never} /\ 0 \in Int
      BY DEF Content
    <3> QED
      BY <1>1, <1>4, <3>1 DEF Calls
  <2>2. call' = [call EXCEPT ![u] = next]
    BY <1>5
  <2> HIDE DEF next
  <2>3. c = next
    BY <1>1, <2>2 DEF Typing
  <2> QED
    BY <2>1, <2>2, <2>3
<1>7. UNCHANGED <<kind, conn, now, disk, txn, lock, kept, open, unclear>>
  BY DEF Append, setting, medium, auxVars, loadVars
<1>8. Place(u)' /\ Executed(u)'
  BY <1>6 DEF Place, Executed
<1> QED
  BY <1>1, <1>6, <1>7, <1>8, ReadingStep

LEMMA ScanEndsStep == ASSUME IInv, NEW u \in Users, ScanEnds(u) PROVE IInv'
<1> DEFINE c == call'[u]
<1>1. Typing /\ call[u] \in Calls /\ call[u].pc = "scan"
  BY CallTypes DEF IInv, ScanEnds
<1>2. /\ c \in Calls
      /\ c.pc = "loaded"
      /\ call' = [call EXCEPT ![u] = c]
  BY <1>1 DEF ScanEnds, Goto, Typing, Calls
<1>3. UNCHANGED <<kind, conn, now, disk, txn, lock, kept, open, unclear>>
  BY DEF ScanEnds, setting, medium, auxVars, loadVars
<1>4. Place(u)' /\ Executed(u)'
  BY <1>2 DEF Place, Executed
<1> QED
  BY <1>1, <1>2, <1>3, <1>4, ReadingStep

-----------------------------------------------------------------------------
(* Steps that change the medium, the lock or the time.                     *)

LEMMA GotoTypes ==
    ASSUME Typing, NEW u \in Users, NEW pc \in {"commit", "loaded"}, Goto(u, pc)
    PROVE  /\ call' \in [Users -> Calls]
           /\ call'[u].pc = pc
           /\ call'[u].change = call[u].change
           /\ call'[u].loads = call[u].loads
           /\ \A v \in Users \ {u} : call'[v] = call[v]
<1>1. call[u] \in Calls
  BY CallTypes
<1> QED
  BY <1>1 DEF Typing, Goto, Calls

LEMMA ExecuteStep == ASSUME IInv, NEW u \in Users, Execute(u) PROVE IInv'
<1> DEFINE c == conn[u]
<1>1. /\ Typing /\ Transactions
      /\ call[u].pc = "execute" /\ kind = "sqlite"
      /\ lock[c] = Free /\ c \in Users
      /\ \A d \in Users \ {c} : txn[d] = None
  BY DEF IInv, Control, Place, Execute, CanExecute, Typing
<1>2. /\ lock' = [lock EXCEPT ![c] = u]
      /\ txn' = [txn EXCEPT ![c] = Over(call[u].change, txn[c])]
      /\ UNCHANGED <<kind, conn, now, disk, open, kept, unclear>>
  BY DEF Execute, After, setting
<1>3. /\ call' \in [Users -> Calls]
      /\ call'[u].pc = "commit"
      /\ call'[u].change = call[u].change
      /\ call'[u].loads = call[u].loads
      /\ \A v \in Users \ {u} : call'[v] = call[v]
  BY <1>1, GotoTypes DEF Execute
<1>4. /\ txn'[c] \in Changes
      /\ DOMAIN txn'[c] = Written(u) \cup DOMAIN txn[c]
      /\ \A k \in Written(u) : txn'[c][k] = call[u].change[k]
      /\ \A d \in Users \ {c} : txn'[d] = txn[d]
      /\ txn' \in [Users -> Changes]
  <2>1. call[u].change \in Changes /\ txn[c] \in Changes
    BY <1>1, CallTypes DEF Typing
  <2> DEFINE o == Over(call[u].change, txn[c])
  <2>2. /\ o \in Changes
        /\ DOMAIN o = Written(u) \cup DOMAIN txn[c]
        /\ \A k \in Written(u) : o[k] = call[u].change[k]
    BY <2>1, OverTypes DEF Written
  <2> HIDE DEF o
  <2>3. txn' = [txn EXCEPT ![c] = o]
    BY <1>2 DEF o
  <2> QED
    BY <1>1, <2>2, <2>3 DEF Typing
<1>5. Typing'
  BY <1>1, <1>2, <1>3, <1>4 DEF Typing
<1>6. ASSUME NEW v \in Users
      PROVE  Place(v)' /\ Locking(v)' /\ Executed(v)'
  <2>1. CASE v = u
    BY <1>1, <1>2, <1>3, <1>4, <2>1 DEF Typing, IInv, Control, Place, Locking, Executed, Written
  <2>2. CASE v # u
    <3>1. call'[v] = call[v]
      BY <1>3, <2>2
    <3>2. Place(v)'
      BY <1>2, <3>1 DEF IInv, Control, Place, Written
    <3>3. conn[v] = c => call[v].pc # "commit"
      BY <1>1, BackendsAssumption DEF IInv, Control, Locking
    <3>4. Locking(v)'
      BY <1>1, <1>2, <2>2, <3>1, <3>3 DEF Typing, IInv, Control, Locking
    <3>5. Executed(v)'
      BY <1>1, <1>2, <1>4, <3>1, <3>3 DEF Typing, IInv, Control, Executed, Written
    <3> QED
      BY <3>2, <3>4, <3>5
  <2> QED
    BY <2>1, <2>2
<1>7. Transactions'
  <2>1. \A d \in Users : txn'[d] # None => kind' = "sqlite" /\ d = c
    BY <1>1, <1>2, <1>4
  <2>2. ASSUME NEW d \in Users, NEW k \in DOMAIN txn'[d]
        PROVE  Accounted(d, k)'
    <3>1. d = c
      BY <1>1, <1>4, NoChange
    <3>2. CASE k \in Written(u)
      BY <1>1, <1>2, <1>3, <3>1, <3>2 DEF Accounted, Written
    <3>3. CASE k \notin Written(u)
      <4>1. k \in DOMAIN txn[c]
        BY <1>4, <3>1, <3>3
      <4>2. \A v \in Users : conn[v] = c => call[v].pc # "commit"
        BY <1>1, BackendsAssumption DEF IInv, Control, Locking
      <4>3. k \in unclear
        BY <1>1, <4>1, <4>2 DEF Transactions, Accounted
      <4> QED
        BY <1>2, <4>3 DEF Accounted
    <3> QED
      BY <3>2, <3>3
  <2> QED
    BY <2>1, <2>2 DEF Transactions
<1> QED
  BY <1>5, <1>6, <1>7 DEF IInv, Control

(* Only the user that holds the lock of a connection is about to commit.   *)
LEMMA OneCommits ==
    ASSUME IInv, NEW u \in Users, call[u].pc = "commit"
    PROVE  /\ kind = "sqlite" /\ conn[u] \in Users /\ lock[conn[u]] = u
           /\ \A v \in Users \ {u} : conn[v] = conn[u] => call[v].pc # "commit"
           /\ \A k \in DOMAIN txn[conn[u]] : k \in unclear \/ k \in Written(u)
           /\ Written(u) \subseteq DOMAIN txn[conn[u]]
           /\ \A k \in Written(u) : txn[conn[u]][k] = call[u].change[k]
<1>1. kind = "sqlite" /\ conn[u] \in Users /\ lock[conn[u]] = u
  BY DEF IInv, Typing, Control, Place, Locking
<1>2. \A v \in Users \ {u} : conn[v] = conn[u] => call[v].pc # "commit"
  BY <1>1 DEF IInv, Control, Locking
<1>3. \A k \in DOMAIN txn[conn[u]] : k \in unclear \/ k \in Written(u)
  BY <1>1, <1>2 DEF IInv, Transactions, Accounted
<1>4. /\ Written(u) \subseteq DOMAIN txn[conn[u]]
      /\ \A k \in Written(u) : txn[conn[u]][k] = call[u].change[k]
  BY DEF IInv, Control, Executed
<1> QED
  BY <1>1, <1>2, <1>3, <1>4

(* The end of the `with` block of a commit, when no key becomes clear that *)
(* some transaction still changes.                                         *)
LEMMA ReleaseStep ==
    ASSUME IInv, NEW u \in Users, call[u].pc = "commit",
           UNCHANGED <<kind, conn, now, open>>,
           disk' \in [Keys -> Content], kept' \in [Keys -> Content],
           unclear' \subseteq Keys,
           lock' = [lock EXCEPT ![conn[u]] = Free],
           txn' \in [Users -> Changes],
           \A c \in Users : txn'[c] # None => txn'[c] = txn[c],
           \A c \in Users \ {conn[u]} : txn'[c] = txn[c],
           call' \in [Users -> Calls],
           \A v \in Users \ {u} : call'[v] = call[v],
           call'[u].pc \in {"idle", "loaded"},
           call'[u].pc = "idle" => ~call'[u].loads,
           \A c \in Users : \A k \in DOMAIN txn'[c] :
               k \in unclear \/ k \in Written(u) => k \in unclear'
    PROVE  IInv'
<1>1. Typing'
  BY BackendsAssumption DEF IInv, Typing
<1>2. /\ conn[u] \in Users /\ lock[conn[u]] = u
      /\ \A v \in Users \ {u} : conn[v] = conn[u] => call[v].pc # "commit"
  BY OneCommits
<1>3. ASSUME NEW v \in Users
      PROVE  Place(v)' /\ Locking(v)' /\ Executed(v)'
  <2>1. CASE v = u
    BY <1>2, <2>1, BackendsAssumption DEF IInv, Typing, Place, Locking, Executed
  <2>2. CASE v # u
    <3>1. call'[v] = call[v]
      BY <2>2
    <3>2. Place(v)'
      BY <3>1 DEF IInv, Control, Place, Written
    <3>3. Locking(v)'
      BY <1>2, <2>2, <3>1, BackendsAssumption DEF IInv, Typing, Control, Locking
    <3>4. Executed(v)'
      BY <1>2, <2>2, <3>1 DEF IInv, Typing, Control, Executed, Written
    <3> QED
      BY <3>2, <3>3, <3>4
  <2> QED
    BY <2>1, <2>2
<1>4. ASSUME NEW c \in Users, NEW k \in DOMAIN txn'[c]
      PROVE  Accounted(c, k)'
  <2>1. txn'[c] = txn[c]
    BY NoChange
  <2>2. Accounted(c, k)
    BY <2>1 DEF IInv, Transactions
  <2>3. CASE k \in unclear \/ k \in Written(u)
    BY <2>3 DEF Accounted
  <2>4. CASE ~(k \in unclear \/ k \in Written(u))
    <3>1. PICK v \in Users \ {u} : conn[v] = c /\ call[v].pc = "commit" /\ k \in Written(v)
      BY <2>2, <2>4 DEF Accounted
    <3> QED
      BY <3>1 DEF Accounted, Written
  <2> QED
    BY <2>3, <2>4
<1>5. Transactions'
  BY <1>4 DEF IInv, Transactions
<1> QED
  BY <1>1, <1>3, <1>5 DEF IInv, Control

LEMMA CommitStep == ASSUME IInv, NEW u \in Users, Commit(u) PROVE IInv'
<1> DEFINE c == conn[u]
<1>1. /\ Typing /\ call[u].pc = "commit" /\ c \in Users
      /\ txn[c] \in Changes /\ call[u].change \in Changes
      /\ Written(u) \subseteq Keys
  BY OneCommits, CallTypes DEF IInv, Typing, Commit
<1>2. /\ disk' = Over(txn[c], disk)
      /\ txn' = [txn EXCEPT ![c] = None]
      /\ lock' = [lock EXCEPT ![c] = Free]
      /\ UNCHANGED <<kind, conn, now, open>>
  BY DEF Commit, After, Release, setting
<1>3. /\ disk' \in [Keys -> Content]
      /\ \A k \in DOMAIN txn[c] : disk'[k] = txn[c][k]
      /\ \A k \in Keys \ DOMAIN txn[c] : disk'[k] = disk[k]
  BY <1>1, <1>2, RowsAfter DEF Typing
<1>4. /\ txn' \in [Users -> Changes]
      /\ txn'[c] = None
      /\ \A d \in Users \ {c} : txn'[d] = txn[d]
  BY <1>1, <1>2, NoChange DEF Typing
<1>5. /\ call' \in [Users -> Calls]
      /\ \A v \in Users \ {u} : call'[v] = call[v]
      /\ call'[u].pc \in {"idle", "loaded"}
      /\ call'[u].pc = "idle" => ~call'[u].loads
  <2>1. CASE call[u].loads
    BY <1>1, <2>1, GotoTypes DEF Commit
  <2>2. CASE ~call[u].loads
    BY <1>1, <2>2, FinishTypes, IdleCall DEF Commit
  <2> QED
    BY <2>1, <2>2
<1>6. kept' \in [Keys -> Content]
  <2>1. CASE call[u].loads
    BY <1>1, <2>1 DEF Commit, Typing
  <2>2. CASE ~call[u].loads
    BY <1>1, <2>2, RowsAfter DEF Commit, Settle, Typing
  <2> QED
    BY <2>1, <2>2
<1>7. /\ unclear' \subseteq Keys
      /\ \A k \in unclear \ Written(u) : k \in unclear'
  <2>1. CASE call[u].loads
    BY <1>1, <2>1 DEF Commit, Typing
  <2>2. CASE ~call[u].loads
    BY <1>1, <2>2 DEF Commit, Settle, Typing
  <2> QED
    BY <2>1, <2>2
<1>8. ASSUME NEW d \in Users, NEW k \in DOMAIN txn'[d],
              k \in unclear \/ k \in Written(u)
       PROVE  k \in unclear'
  <2>1. d # c /\ txn[d] = txn'[d] /\ txn[d] # None
    BY <1>4, NoChange
  <2>2. txn[c] = None
    BY <1>1, <2>1 DEF IInv, Transactions
  <2>3. Written(u) = {}
    BY <1>1, <2>2, OneCommits, NoChange
  <2> QED
    BY <1>7, <1>8, <2>3
<1> QED
  BY <1>1, <1>2, <1>3, <1>4, <1>5, <1>6, <1>7, <1>8, ReleaseStep

LEMMA CommitRaisesStep == ASSUME IInv, NEW u \in Users, CommitRaises(u) PROVE IInv'
<1>1. /\ Typing /\ call[u].pc = "commit" /\ Written(u) \subseteq Keys
      /\ lock' = [lock EXCEPT ![conn[u]] = Free]
      /\ unclear' = unclear \cup Written(u)
      /\ UNCHANGED <<kind, conn, now, open, disk, txn, kept>>
  BY CallTypes DEF IInv, CommitRaises, Release, Blur, setting, medium
<1>2. /\ call' \in [Users -> Calls]
      /\ \A v \in Users \ {u} : call'[v] = call[v]
      /\ call'[u].pc = "idle" /\ ~call'[u].loads
  BY <1>1, FinishTypes, IdleCall DEF CommitRaises
<1> QED
  BY <1>1, <1>2, ReleaseStep DEF Typing

(* A Redis write: no transaction is open, and its one key gets a row.      *)
LEMMA SendingTypes ==
    ASSUME IInv, NEW u \in Users, call[u].pc = "send"
    PROVE  /\ kind = "redis"
           /\ Key(u) \in Keys /\ Written(u) = {Key(u)}
           /\ Sent(u) \in Content
<1>1. Typing /\ kind = "redis" /\ call[u] \in Calls
  BY CallTypes DEF IInv, Control, Place
<1>2. PICK k \in Keys : Written(u) = {k}
  BY DEF IInv, Control, Place
<1>3. Key(u) = k /\ NewRow(u) = call[u].change[k] /\ NewRow(u) \in Content
  BY <1>1, <1>2, CallTypes DEF Key, NewRow
<1>4. Sent(u) \in Content
  <2>1. CASE call[u].px = Never
    BY <1>3, <2>1 DEF Sent
  <2>2. CASE call[u].px # Never
    <3>1. NewRow(u) \in Row
      BY <1>2, <1>3, <2>2 DEF IInv, Control, Place
    <3>2. now + call[u].px \in Deadline
      BY <1>1, <2>2, BackendsAssumption DEF Typing, Calls, Deadline
    <3> QED
      BY <2>2, <3>1, <3>2 DEF Sent, Row, Content
  <2> QED
    BY <2>1, <2>2
<1> QED
  BY <1>1, <1>2, <1>3, <1>4

LEMMA SendingStep ==
    ASSUME IInv, NEW u \in Users, call[u].pc = "send", Finish(u),
           UNCHANGED <<kind, conn, now, open, txn, lock>>,
           disk' \in [Keys -> Content], kept' \in [Keys -> Content],
           unclear' \subseteq Keys
    PROVE  IInv'
<1>1. Typing /\ kind = "redis"
  BY DEF IInv, Control, Place
<1>2. /\ call' \in [Users -> Calls]
      /\ call'[u].pc = "idle" /\ ~call'[u].loads
      /\ \A v \in Users \ {u} : call'[v] = call[v]
  BY <1>1, FinishTypes, IdleCall
<1>3. Typing'
  BY <1>1, <1>2 DEF Typing
<1>4. Transactions'
  <2>1. \A c \in Users : txn[c] = None
    BY <1>1 DEF IInv, Transactions
  <2> QED
    BY <2>1, NoChange DEF Transactions
<1>5. ASSUME NEW v \in Users
      PROVE  Place(v)' /\ Locking(v)' /\ Executed(v)'
  <2>1. CASE v = u
    BY <1>2, <2>1 DEF IInv, Control, Place, Locking, Executed
  <2>2. CASE v # u
    BY <1>2, <2>2 DEF IInv, Control, Place, Locking, Executed, Written
  <2> QED
    BY <2>1, <2>2
<1> QED
  BY <1>3, <1>4, <1>5 DEF IInv, Control

LEMMA SendStep == ASSUME IInv, NEW u \in Users, Send(u) PROVE IInv'
<1> DEFINE k == Key(u)
           row == Sent(u)
           change == Just(k, row)
<1>1. /\ Typing /\ call[u].pc = "send" /\ Finish(u)
      /\ k \in Keys /\ Written(u) = {k} /\ row \in Content
      /\ UNCHANGED <<kind, conn, now, open, txn, lock>>
      /\ disk' = [disk EXCEPT ![k] = row]
      /\ kept' = Over(change, kept)
      /\ unclear' = (unclear \ Written(u)) \cup (Written(u) \cap OthersWrite(u))
  BY SendingTypes DEF IInv, Send, Settle, setting
<1> HIDE DEF k, row
<1>2. change \in Changes /\ DOMAIN change = {k} /\ change[k] = row
  <2>1. change \in [{k} -> Content] /\ {k} \in SUBSET Keys
    BY <1>1 DEF Just
  <2> QED
    BY <2>1, ChangeOf DEF Just
<1> HIDE DEF change
<1>3. /\ kept' \in [Keys -> Content]
      /\ kept'[k] = row
      /\ \A x \in Keys \ {k} : kept'[x] = kept[x]
  BY <1>1, <1>2, RowsAfter DEF Typing
<1>4. disk' \in [Keys -> Content] /\ unclear' \subseteq Keys
  BY <1>1 DEF Typing
<1> QED
  BY <1>1, <1>3, <1>4, SendingStep

LEMMA SendRaisesStep == ASSUME IInv, NEW u \in Users, SendRaises(u) PROVE IInv'
<1>1. /\ Typing /\ call[u].pc = "send" /\ Finish(u)
      /\ Key(u) \in Keys /\ Written(u) = {Key(u)} /\ Sent(u) \in Content
      /\ UNCHANGED <<kind, conn, now, open, txn, lock, kept>>
      /\ disk' \in {disk, [disk EXCEPT ![Key(u)] = Sent(u)]}
      /\ unclear' = unclear \cup Written(u)
  BY SendingTypes DEF IInv, SendRaises, Blur, setting
<1>2. disk' \in [Keys -> Content] /\ kept' \in [Keys -> Content] /\ unclear' \subseteq Keys
  BY <1>1 DEF Typing
<1> QED
  BY <1>1, <1>2, SendingStep

LEMMA CloseStep == ASSUME IInv, NEW c \in Users, Close(c) PROVE IInv'
<1>1. /\ Typing /\ lock[c] = Free
      /\ open' = open \ {c}
      /\ txn' = [txn EXCEPT ![c] = None]
      /\ UNCHANGED <<kind, conn, now, disk, lock, call, kept, unclear>>
  BY DEF IInv, Close, setting, auxVars, loadVars
<1>2. Typing'
  BY <1>1, NoChange DEF Typing
<1>3. ASSUME NEW u \in Users
      PROVE  Place(u)' /\ Locking(u)' /\ Executed(u)'
  <2>1. Place(u)' /\ Locking(u)'
    BY <1>1 DEF IInv, Control, Place, Locking, Written
  <2>2. call[u].pc = "commit" => conn[u] # c
    BY <1>1, BackendsAssumption DEF IInv, Control, Locking
  <2>3. Executed(u)'
    BY <1>1, <2>2 DEF IInv, Typing, Control, Executed, Written
  <2> QED
    BY <2>1, <2>3
<1>4. Transactions'
  <2>1. ASSUME NEW d \in Users
        PROVE  txn'[d] = None \/ (d # c /\ txn'[d] = txn[d])
    BY <1>1 DEF Typing
  <2>2. ASSUME NEW d \in Users, NEW k \in DOMAIN txn'[d]
        PROVE  Accounted(d, k)'
    BY <1>1, <2>1, NoChange DEF IInv, Transactions, Accounted, Written
  <2> QED
    BY <1>1, <2>1, <2>2 DEF IInv, Transactions
<1> QED
  BY <1>2, <1>3, <1>4 DEF IInv, Control

LEMMA RestartStep == ASSUME IInv, NEW c \in Users, Restart(c) PROVE IInv'
<1>1. /\ Typing
      /\ open' = open \cup {c}
      /\ lock' = [lock EXCEPT ![c] = Free]
      /\ txn' = [txn EXCEPT ![c] = None]
      /\ call' = [u \in Users |-> IF conn[u] = c THEN NoCall ELSE call[u]]
      /\ UNCHANGED <<kind, conn, now, disk, kept>>
  BY DEF IInv, Restart, UsersOf, setting
<1>2. unclear \subseteq unclear' /\ unclear' \subseteq Keys
  <2>1. \A u \in Users : Written(u) \subseteq Keys
    BY <1>1, CallTypes
  <2> QED
    BY <1>1, <2>1 DEF Restart, UsersOf, Typing
<1>3. ASSUME NEW u \in Users
      PROVE  call'[u] = IF conn[u] = c THEN NoCall ELSE call[u]
  BY <1>1
<1>4. Typing'
  BY <1>1, <1>2, NoChange, IdleCall DEF Typing
<1>5. ASSUME NEW u \in Users
      PROVE  Place(u)' /\ Locking(u)' /\ Executed(u)'
  <2>1. CASE conn[u] = c
    BY <1>1, <1>3, <2>1, IdleCall, BackendsAssumption
       DEF Typing, Place, Locking, Executed
  <2>2. CASE conn[u] # c
    <3>1. call'[u] = call[u]
      BY <1>3, <2>2
    <3>2. /\ conn'[u] = conn[u] /\ lock'[conn[u]] = lock[conn[u]]
          /\ txn'[conn[u]] = txn[conn[u]]
      BY <1>1, <2>2 DEF Typing
    <3> QED
      BY <1>1, <3>1, <3>2 DEF IInv, Control, Place, Locking, Executed, Written
  <2> QED
    BY <2>1, <2>2
<1>6. Transactions'
  <2>1. ASSUME NEW d \in Users
        PROVE  txn'[d] = None \/ (d # c /\ txn'[d] = txn[d])
    BY <1>1 DEF Typing
  <2>2. ASSUME NEW d \in Users, NEW k \in DOMAIN txn'[d]
        PROVE  Accounted(d, k)'
    <3>1. d # c /\ txn'[d] = txn[d]
      BY <2>1, NoChange
    <3>2. Accounted(d, k)
      BY <3>1 DEF IInv, Transactions
    <3> QED
      BY <1>1, <1>2, <1>3, <3>1, <3>2 DEF Accounted, Written
  <2> QED
    BY <1>1, <2>1, <2>2 DEF IInv, Transactions
<1> QED
  BY <1>4, <1>5, <1>6 DEF IInv, Control

-----------------------------------------------------------------------------
LEMMA NextIInv == IInv /\ [Next]_vars => IInv'
<1> SUFFICES ASSUME IInv, [Next]_vars PROVE IInv'
  OBVIOUS
<1>1. ASSUME NEW u \in Users, BeginWrite(u) \/ BeginLoad(u) \/ Statement(u)
      PROVE  IInv'
  BY <1>1, BeginWriteStep, BeginLoadStep, FinishingSteps, ExecuteStep, CommitStep,
     CommitRaisesStep, SelectStep, ComputePxStep, SendStep, SendRaisesStep, ScanStep,
     GetStep, PttlStep, AppendStep, ScanEndsStep DEF Statement
<1>2. ASSUME NEW c \in Users, Close(c) \/ Restart(c)
      PROVE  IInv'
  BY <1>2, CloseStep, RestartStep
<1>3. CASE Tick
  <2>1. UNCHANGED <<kind, conn, disk, open, lock, txn, call, kept, unclear>>
    BY <1>3 DEF Tick, medium, auxVars, loadVars
  <2>2. Typing'
    BY <1>3, <2>1, BackendsAssumption DEF IInv, Tick, Typing
  <2> QED
    BY <2>1, <2>2 DEF IInv, Control, Place, Locking, Executed, Transactions, Accounted,
                      Written
<1>4. CASE UNCHANGED vars
  BY <1>4 DEF vars, setting, medium, auxVars, loadVars, IInv, Typing, Control, Place, Locking,
              Executed, Transactions, Accounted, Written
<1> QED
  BY <1>1, <1>2, <1>3, <1>4 DEF Next

THEOREM Invariance == Spec => []IInv
<1> QED
  BY InitIInv, NextIInv, PTL DEF Spec

(* Every variable of the backends has its type, in every reachable state,  *)
(* and a lock of persistence.py is held exactly between a statement and    *)
(* its commit, whatever raises.                                            *)
THEOREM BackendsTyping == Spec => []TypeOK
<1>1. IInv => TypeOK
  <2> SUFFICES ASSUME IInv PROVE TypeOK
    OBVIOUS
  <2>1. Typing /\ Transactions
    BY DEF IInv
  <2>2. ASSUME NEW u \in Users
        PROVE  /\ IsChange(txn[u])
               /\ IsChange(call[u].change) /\ IsChange(call[u].out)
               /\ call[u].pc = "commit" <=> lock[conn[u]] = u
    BY <2>1, CallTypes, ChangeTypes DEF Typing, IInv, Control, Locking
  <2> QED
    BY <2>1, <2>2 DEF TypeOK, Typing, Transactions
<1> QED
  BY <1>1, Invariance, PTL

-----------------------------------------------------------------------------
(* What a load has found so far                                            *)

LoadingPlace(u) ==
    /\ steady[u] \subseteq Keys
    /\ call[u].pc = "idle" => call[u] = NoCall
    /\ call[u].pc \in {"px", "send"} => ~call[u].loads
    /\ call[u].pc \in {"select", "scan", "pttl", "append", "loaded"} => call[u].loads
    /\ call[u].pc \in {"scan", "pttl", "append"} => kind = "redis"
    /\ call[u].loads => call[u].since <= now

(* No transaction changes a steady key, except that of the purge itself.   *)
Untouched(u) ==
    call[u].loads =>
        \A k \in steady[u], c \in Users : k \in DOMAIN txn[c] =>
            conn[u] = c /\ call[u].pc = "commit" /\ k \in Written(u)

(* The rows are those there were when the load began, until it purges.     *)
Purged(u, k) == kind = "sqlite" /\ call[u].pc = "loaded" /\ k \in Written(u)
Remembered(u) ==
    call[u].loads =>
        \A k \in steady[u] : disk[k] = IF Purged(u, k) THEN NoRow ELSE began[u][k]

(* SQLite: the rows selected are those that are not to be purged.          *)
Selected(u) ==
    kind = "sqlite" /\ call[u].loads /\ call[u].pc # "select" =>
        \A k \in steady[u] :
            /\ k \in Written(u) <=> Expired(began[u][k], call[u].since)
            /\ k \in DOMAIN call[u].out <=> began[u][k] # NoRow /\ k \notin Written(u)
            /\ k \in DOMAIN call[u].out => call[u].out[k] = began[u][k]

(* Redis: the keys of the pages seen that are still to be got or appended. *)
Asked(u) == IF call[u].pc \in {"pttl", "append"} THEN {call[u].key} ELSE {}
Pending(u) == call[u].todo \cup Asked(u)

(* What the remaining time that was replied says of the deadline.          *)
Replied(pttl, deadline) ==
    IF deadline = Never THEN pttl <= 0
    ELSE IF pttl <= 0 THEN deadline <= now ELSE deadline <= now + pttl

(* A key that has been got, or was not there.                              *)
Found(u, k) ==
    IF k \in DOMAIN call[u].out
    THEN /\ disk[k] # NoRow
         /\ call[u].out[k].value = disk[k].value
         /\ Later(call[u].out[k].expire, disk[k].expire)
    ELSE disk[k] = NoRow \/ Expired(disk[k], now)

Scanned(u) ==
    kind = "redis" /\ call[u].loads =>
        /\ Pending(u) \subseteq call[u].scanned
        /\ DOMAIN call[u].out \subseteq call[u].scanned \ Pending(u)
        /\ call[u].todo \cap Asked(u) = {}
        /\ call[u].pc = "loaded" => call[u].scanned = Keys /\ call[u].todo = {}
        /\ \A k \in steady[u] :
              /\ k \in call[u].scanned \ Pending(u) => Found(u, k)
              /\ k \in Asked(u) => call[u].got = disk[k] /\ disk[k] # NoRow
              /\ k \in Asked(u) /\ call[u].pc = "append" =>
                    Replied(call[u].pttl, disk[k].expire)

Loading(u) ==
    LoadingPlace(u) /\ Untouched(u) /\ Remembered(u) /\ Selected(u) /\ Scanned(u)
LoadInv ==
    /\ steady \in [Users -> SUBSET Keys]
    /\ began \in [Users -> [Keys -> Content]]
    /\ \A u \in Users : Loading(u)

LEMMA LoadTypes ==
    ASSUME IInv, LoadInv, NEW u \in Users
    PROVE  /\ Typing /\ now \in Nat /\ call[u] \in Calls /\ conn[u] \in Users
           /\ steady[u] \subseteq Keys
           /\ Written(u) \subseteq Keys
           /\ \A k \in Keys : disk[k] # NoRow =>
                 disk[k] \in Row /\ disk[k].expire \in Deadline /\ disk[k].value \in Values
           /\ \A k \in DOMAIN call[u].out : k \in Keys /\ call[u].out[k] \in Content
           /\ LoadingPlace(u) /\ Untouched(u) /\ Remembered(u)
           /\ Selected(u) /\ Scanned(u)
<1>1. Typing /\ now \in Nat /\ call[u] \in Calls /\ conn[u] \in Users /\ Written(u) \subseteq Keys
  BY CallTypes, BackendsAssumption DEF IInv, Typing
<1>2. \A k \in DOMAIN call[u].out : k \in Keys /\ call[u].out[k] \in Content
  <2>1. call[u].out \in Changes
    BY <1>1, CallTypes
  <2> QED
    BY <2>1, ChangeTypes DEF IsChange
<1>3. Loading(u)
  BY DEF LoadInv
<1> QED
  BY <1>1, <1>2, <1>3 DEF Loading, LoadingPlace, Typing, Content, Row

(* A user whose keys nobody else has changed, as time goes on.             *)
LEMMA LoadKept ==
    ASSUME IInv, LoadInv, NEW v \in Users,
           UNCHANGED <<kind, conn>>, now' \in Nat, now' >= now,
           call'[v] = call[v], began'[v] = began[v], steady'[v] \subseteq steady[v],
           \A k \in steady'[v] : disk'[k] = disk[k],
           \A k \in steady'[v], c \in Users : k \in DOMAIN txn'[c] => k \in DOMAIN txn[c]
    PROVE  Loading(v)'
<1>1. /\ LoadingPlace(v) /\ Untouched(v) /\ Remembered(v) /\ Selected(v) /\ Scanned(v)
      /\ now \in Nat /\ steady[v] \subseteq Keys
      /\ \A k \in Keys : disk[k] # NoRow => disk[k] \in Row /\ disk[k].expire \in Deadline
      /\ call[v] \in Calls
      /\ \A k \in DOMAIN call[v].out : call[v].out[k] \in Content
  BY LoadTypes
<1>2. LoadingPlace(v)'
  <2>1. call[v].since \in Nat
    BY <1>1 DEF Calls
  <2> QED
    BY <1>1, <2>1 DEF LoadingPlace
<1>3. Untouched(v)' /\ Remembered(v)'
  BY <1>1 DEF Untouched, Remembered, Purged, Written
<1>4. Selected(v)'
  BY <1>1 DEF Selected, Written, Expired
<1>5. Pending(v)' = Pending(v) /\ Asked(v)' = Asked(v)
  BY DEF Pending, Asked
<1>6. ASSUME NEW k \in steady'[v], Found(v, k) PROVE Found(v, k)'
  <2>1. disk'[k] = disk[k] /\ k \in Keys
    BY <1>1
  <2>2. CASE k \in DOMAIN call[v].out
    BY <1>1, <1>6, <2>1, <2>2, BackendsAssumption
       DEF Found, Later, Expired, Deadline, Content, Row
  <2>3. CASE k \notin DOMAIN call[v].out
    BY <1>1, <1>6, <2>1, <2>3, BackendsAssumption DEF Found, Expired, Deadline
  <2> QED
    BY <2>2, <2>3
<1>7. ASSUME NEW k \in steady'[v], disk[k] # NoRow, NEW pttl \in Int,
             Replied(pttl, disk[k].expire)
      PROVE  Replied(pttl, disk[k].expire)'
  <2>1. disk'[k] = disk[k] /\ disk[k].expire \in Deadline
    BY <1>1, <1>7
  <2> QED
    BY <1>1, <1>7, <2>1, BackendsAssumption DEF Replied, Deadline
<1>8. Scanned(v)'
  <2>1. call[v].pttl \in Int
    BY <1>1 DEF Calls
  <2> QED
    BY <1>1, <1>5, <1>6, <1>7, <2>1 DEF Scanned
<1> QED
  BY <1>2, <1>3, <1>4, <1>8 DEF Loading

(* A user in no call.                                                      *)
LEMMA NothingLoads ==
    ASSUME NEW u \in Users, call'[u] = NoCall, steady'[u] \subseteq Keys
    PROVE  Loading(u)'
BY IdleCall DEF Loading, LoadingPlace, Untouched, Remembered, Selected, Scanned

(* A user that writes.                                                     *)
LEMMA WriteLoadsNothing ==
    ASSUME NEW u \in Users, ~call'[u].loads, steady'[u] \subseteq Keys,
           call'[u].pc \in {"execute", "commit", "px", "send"}
    PROVE  Loading(u)'
BY DEF Loading, LoadingPlace, Untouched, Remembered, Selected, Scanned

(* A step of one user, that changes no key still steady for the others.    *)
LEMMA LoadingStep ==
    ASSUME IInv, LoadInv, NEW u \in Users,
           UNCHANGED <<kind, conn, now>>, steady' \in [Users -> SUBSET Keys],
           began' \in [Users -> [Keys -> Content]],
           \A v \in Users \ {u} :
              /\ call'[v] = call[v]
              /\ began'[v] = began[v]
              /\ steady'[v] \subseteq steady[v]
              /\ \A k \in steady'[v] : disk'[k] = disk[k]
              /\ \A k \in steady'[v], c \in Users : k \in DOMAIN txn'[c] => k \in DOMAIN txn[c],
           Loading(u)'
    PROVE  LoadInv'
<1>1. ASSUME NEW v \in Users \ {u} PROVE Loading(v)'
  <2>1. now \in Nat
    BY LoadTypes
  <2> QED
    BY <2>1, LoadKept
<1> QED
  BY <1>1 DEF LoadInv

(* A step that only moves one user on.                                     *)
LEMMA LoadingCall ==
    ASSUME IInv, LoadInv, NEW u \in Users,
           UNCHANGED <<kind, conn, now, disk, txn>>,
           \A v \in Users \ {u} :
              call'[v] = call[v] /\ steady'[v] = steady[v] /\ began'[v] = began[v],
           steady' \in [Users -> SUBSET Keys], began' \in [Users -> [Keys -> Content]],
           Loading(u)'
    PROVE  LoadInv'
BY LoadingStep

(* The other users keep their calls when one moves on.                     *)
LEMMA OtherCalls ==
    ASSUME Typing, NEW u \in Users, NEW c, call' = [call EXCEPT ![u] = c]
    PROVE  call'[u] = c /\ \A v \in Users \ {u} : call'[v] = call[v]
BY DEF Typing

LEMMA LoadFinishes ==
    ASSUME IInv, LoadInv, NEW u \in Users, Finish(u),
           UNCHANGED <<kind, conn, now, disk, txn>>,
           \A v \in Users \ {u} : steady'[v] = steady[v] /\ began'[v] = began[v],
           steady' \in [Users -> SUBSET Keys], began' \in [Users -> [Keys -> Content]]
    PROVE  LoadInv'
<1>1. /\ call'[u] = NoCall
      /\ \A v \in Users \ {u} : call'[v] = call[v]
  BY FinishTypes DEF IInv
<1>2. Loading(u)'
  BY <1>1, NothingLoads
<1> QED
  BY <1>1, <1>2, LoadingCall

LEMMA LoadFinishingSteps ==
    ASSUME IInv, LoadInv, NEW u \in Users,
           \/ Return(u) \/ ExecuteRaises(u) \/ SelectRaises(u) \/ LoadRaises(u)
           \/ CommitRaises(u)
    PROVE  LoadInv'
<1>1. Finish(u) /\ UNCHANGED <<kind, conn, now, disk, txn>>
  BY DEF Return, ExecuteRaises, SelectRaises, LoadRaises, CommitRaises, setting, medium, auxVars, loadVars
<1>2. \/ UNCHANGED <<steady, began>>
      \/ /\ steady' = [steady EXCEPT ![u] = {}]
         /\ began' = [began EXCEPT ![u] = [k \in Keys |-> NoRow]]
  BY DEF Return, ExecuteRaises, SelectRaises, LoadRaises, CommitRaises, EndLoad,
         auxVars, loadVars
<1>3. /\ steady \in [Users -> SUBSET Keys] /\ began \in [Users -> [Keys -> Content]]
      /\ [k \in Keys |-> NoRow] \in [Keys -> Content]
  BY DEF LoadInv, Content
<1> QED
  BY <1>1, <1>2, <1>3, LoadFinishes

LEMMA LoadBeginWrite ==
    ASSUME IInv, LoadInv, NEW u \in Users, BeginWrite(u) PROVE LoadInv'
<1>1. Typing /\ call[u] \in Calls /\ ~call[u].loads /\ kind \in {"sqlite", "redis"}
  BY CallTypes DEF IInv, Control, Place, BeginWrite, Typing
<1>2. PICK ch : call' = [call EXCEPT ![u].pc = IF kind = "sqlite" THEN "execute" ELSE "px",
                                     ![u].change = ch]
  BY DEF BeginWrite
<1>3. /\ call'[u].pc \in {"execute", "px"} /\ ~call'[u].loads
      /\ \A v \in Users \ {u} : call'[v] = call[v]
  BY <1>1, <1>2 DEF Typing, Calls
<1>4. /\ UNCHANGED <<kind, conn, now, disk, txn, steady, began>>
      /\ steady' \in [Users -> SUBSET Keys] /\ began' \in [Users -> [Keys -> Content]]
  BY DEF BeginWrite, setting, medium, loadVars, LoadInv
<1>5. Loading(u)'
  BY <1>3, <1>4, WriteLoadsNothing
<1> QED
  BY <1>3, <1>4, <1>5, LoadingCall

LEMMA LoadBeginLoad ==
    ASSUME IInv, LoadInv, NEW u \in Users, BeginLoad(u) PROVE LoadInv'
<1> DEFINE quiet == Keys \ UNION {DOMAIN txn[c] : c \in Users}
<1>1. /\ Typing /\ call[u] = NoCall /\ now \in Nat
      /\ steady \in [Users -> SUBSET Keys] /\ began \in [Users -> [Keys -> Content]]
  BY LoadTypes DEF IInv, LoadInv, LoadingPlace, BeginLoad
<1>2. /\ UNCHANGED <<kind, conn, now, disk, txn>>
      /\ steady' = [steady EXCEPT ![u] = quiet]
      /\ began' = [began EXCEPT ![u] = disk]
  BY DEF BeginLoad, setting, medium
<1>3. \A k \in quiet, c \in Users : k \notin DOMAIN txn[c]
  OBVIOUS
<1> HIDE DEF quiet
<1>4. /\ steady' \in [Users -> SUBSET Keys] /\ steady'[u] = quiet
      /\ began' \in [Users -> [Keys -> Content]] /\ began'[u] = disk
      /\ \A v \in Users \ {u} : steady'[v] = steady[v] /\ began'[v] = began[v]
  BY <1>1, <1>2 DEF quiet, Typing
<1>5. PICK pc \in {"select", "scan", "loaded"} :
         /\ pc = "select" <=> kind = "sqlite"
         /\ pc = "scan" <=> kind = "redis"
         /\ call' = [call EXCEPT ![u].pc = pc, ![u].loads = TRUE, ![u].since = now]
  <2>1. CASE kind = "sqlite"
    BY <2>1 DEF BeginLoad
  <2>2. CASE kind = "redis"
    BY <2>2 DEF BeginLoad
  <2>3. CASE kind = "memory"
    <3>1. (CASE kind = "sqlite" -> "select" [] kind = "redis" -> "scan"
             [] OTHER -> "loaded") = "loaded"
      BY <2>3
    <3> QED
      BY <2>3, <3>1 DEF BeginLoad
  <2> QED
    BY <1>1, <2>1, <2>2, <2>3 DEF Typing
<1>6. /\ call'[u].pc = pc /\ call'[u].loads /\ call'[u].todo = {} /\ call'[u].scanned = {}
      /\ call'[u].out = None /\ call'[u].since = now /\ Written(u)' = {}
      /\ \A v \in Users \ {u} : call'[v] = call[v]
  BY <1>1, <1>5, IdleCall, NoChange DEF Typing, NoCall, Written
<1>7. Loading(u)'
  <2>1. LoadingPlace(u)'
    BY <1>1, <1>2, <1>4, <1>5, <1>6 DEF LoadingPlace
  <2>2. Untouched(u)' /\ Remembered(u)'
    BY <1>2, <1>3, <1>4, <1>6 DEF Untouched, Remembered, Purged
  <2>3. Selected(u)'
    BY <1>2, <1>5, <1>6 DEF Selected
  <2>4. kind = "redis" => Pending(u)' = {} /\ Asked(u)' = {} /\ DOMAIN call'[u].out = {}
    BY <1>2, <1>5, <1>6, NoChange DEF Pending, Asked
  <2>5. Scanned(u)'
    BY <1>2, <1>5, <1>6, <2>4 DEF Scanned
  <2> QED
    BY <2>1, <2>2, <2>3, <2>5 DEF Loading
<1> QED
  BY <1>2, <1>4, <1>6, <1>7, LoadingCall

LEMMA LoadSelect ==
    ASSUME IInv, LoadInv, NEW u \in Users, Select(u) PROVE LoadInv'
<1> DEFINE rows == After(txn[conn[u]], disk)
           dead == {k \in Keys : Expired(rows[k], call[u].since)}
           live == {k \in Keys : rows[k] # NoRow} \ dead
           change == [k \in dead |-> NoRow]
           out == [k \in live |-> rows[k]]
<1>1. /\ Typing /\ call[u] \in Calls /\ kind = "sqlite" /\ call[u].pc = "select"
      /\ conn[u] \in Users /\ call[u].loads
      /\ steady[u] \subseteq Keys /\ Untouched(u) /\ Remembered(u) /\ LoadingPlace(u)
  BY LoadTypes DEF IInv, Control, Place, Select, LoadingPlace
<1>2. \A k \in steady[u], c \in Users : k \notin DOMAIN txn[c]
  BY <1>1 DEF Untouched
<1>3. \A k \in steady[u] : rows[k] = disk[k] /\ disk[k] = began[u][k]
  <2>1. txn[conn[u]] \in Changes /\ disk \in [Keys -> Content]
    BY <1>1 DEF Typing
  <2> QED
    BY <1>1, <1>2, <2>1, RowsAfter DEF After, Remembered, Purged
<1>4. call' = [call EXCEPT ![u].pc = IF dead = {} THEN "loaded" ELSE "execute",
                           ![u].change = change, ![u].out = out]
  BY DEF Select
<1> HIDE DEF change, out, dead, live, rows
<1>5. /\ call'[u].pc = IF dead = {} THEN "loaded" ELSE "execute"
      /\ call'[u].change = change /\ call'[u].out = out
      /\ call'[u].loads /\ call'[u].since = call[u].since
      /\ \A v \in Users \ {u} : call'[v] = call[v]
  BY <1>1, <1>4 DEF Typing, Calls
<1>6. /\ UNCHANGED <<kind, conn, now, disk, txn, steady, began>>
      /\ steady' \in [Users -> SUBSET Keys] /\ began' \in [Users -> [Keys -> Content]]
  BY DEF Select, setting, medium, auxVars, loadVars, LoadInv
<1>7. DOMAIN change = dead /\ DOMAIN out = live /\ \A k \in live : out[k] = rows[k]
  BY DEF change, out
<1>8. Loading(u)'
  <2>1. LoadingPlace(u)'
    BY <1>1, <1>5, <1>6 DEF LoadingPlace
  <2>2. Untouched(u)'
    BY <1>2, <1>6 DEF Untouched
  <2>3. ASSUME NEW k \in steady[u]
        PROVE  /\ k \in dead <=> Expired(began[u][k], call[u].since)
               /\ k \in live <=> began[u][k] # NoRow /\ k \notin dead
               /\ k \in live => out[k] = began[u][k]
    <3>1. k \in Keys /\ rows[k] = began[u][k]
      BY <1>1, <1>3
    <3> QED
      BY <1>7, <3>1 DEF dead, live
  <2>4. Selected(u)'
    BY <1>5, <1>6, <1>7, <2>3 DEF Selected, Written, Expired
  <2>6. Remembered(u)'
    <3>1. dead = {} => Written(u)' = {}
      BY <1>5, <1>7 DEF Written
    <3> QED
      BY <1>3, <1>5, <1>6, <3>1 DEF Remembered, Purged
  <2>5. Scanned(u)'
    BY <1>1, <1>6 DEF Scanned
  <2> QED
    BY <2>1, <2>2, <2>4, <2>5, <2>6 DEF Loading
<1> QED
  BY <1>5, <1>6, <1>8, LoadingCall

(* What a write or a purge touches is no longer steady for the others.     *)
LEMMA TouchTypes ==
    ASSUME LoadInv, NEW u \in Users, NEW ks, Touch(u, ks)
    PROVE  /\ steady' \in [Users -> SUBSET Keys]
           /\ steady'[u] = steady[u]
           /\ \A v \in Users \ {u} : steady'[v] = steady[v] \ ks
           /\ began' \in [Users -> [Keys -> Content]] /\ began' = began
BY DEF LoadInv, Touch

LEMMA LoadExecute ==
    ASSUME IInv, LoadInv, NEW u \in Users, Execute(u) PROVE LoadInv'
<1> DEFINE c == conn[u]
<1>1. /\ Typing /\ call[u] \in Calls /\ call[u].pc = "execute" /\ kind = "sqlite"
      /\ c \in Users /\ steady[u] \subseteq Keys
      /\ \A d \in Users \ {c} : txn[d] = None
      /\ LoadingPlace(u) /\ Untouched(u) /\ Remembered(u) /\ Selected(u)
  BY LoadTypes DEF IInv, Control, Place, Execute, CanExecute
<1>2. /\ UNCHANGED <<kind, conn, now, disk>>
      /\ txn' = [txn EXCEPT ![c] = Over(call[u].change, txn[c])]
      /\ Touch(u, Written(u))
      /\ call' = [call EXCEPT ![u].pc = "commit"]
  BY DEF Execute, After, setting, Goto
<1>3. /\ call'[u] = [call[u] EXCEPT !.pc = "commit"]
      /\ \A v \in Users \ {u} : call'[v] = call[v]
  BY <1>1, <1>2 DEF Typing
<1>4. /\ call'[u].pc = "commit"
      /\ call'[u].change = call[u].change
      /\ call'[u].loads = call[u].loads
      /\ call'[u].out = call[u].out
      /\ call'[u].since = call[u].since
  BY <1>1, <1>3 DEF Calls
<1>5. /\ DOMAIN txn'[c] = Written(u) \cup DOMAIN txn[c]
      /\ \A d \in Users \ {c} : txn'[d] = txn[d]
  <2>1. call[u].change \in Changes /\ txn[c] \in Changes
    BY <1>1, CallTypes DEF Typing
  <2> DEFINE o == Over(call[u].change, txn[c])
  <2>2. DOMAIN o = Written(u) \cup DOMAIN txn[c]
    BY <2>1, OverTypes DEF Written
  <2> HIDE DEF o
  <2>3. txn' = [txn EXCEPT ![c] = o]
    BY <1>2 DEF o
  <2> QED
    BY <1>1, <2>2, <2>3 DEF Typing
<1>6. /\ steady' \in [Users -> SUBSET Keys]
      /\ steady'[u] = steady[u]
      /\ \A v \in Users \ {u} : steady'[v] = steady[v] \ Written(u)
      /\ began' \in [Users -> [Keys -> Content]] /\ began' = began
  BY <1>2, TouchTypes
<1>7. ASSUME NEW v \in Users \ {u}, NEW k \in steady'[v], NEW d \in Users, k \in DOMAIN txn'[d]
      PROVE  k \in DOMAIN txn[d]
  BY <1>5, <1>6, <1>7
<1>8. Loading(u)'
  <2>1. CASE ~call[u].loads
    BY <1>4, <1>6, <2>1, WriteLoadsNothing
  <2>2. CASE call[u].loads
    <3>1. LoadingPlace(u)'
      BY <1>1, <1>2, <1>4, <1>6 DEF LoadingPlace
    <3>2. ASSUME NEW k \in steady[u], NEW d \in Users, k \in DOMAIN txn'[d]
          PROVE  d = c /\ k \in Written(u)
      <4>1. k \notin DOMAIN txn[d] /\ k \notin DOMAIN txn[c]
        BY <1>1, <2>2 DEF Untouched
      <4> QED
        BY <1>5, <3>2, <4>1
    <3>3. Untouched(u)'
      BY <1>2, <1>4, <1>6, <3>2 DEF Untouched, Written
    <3>4. Selected(u)'
      BY <1>1, <1>2, <1>4, <1>6 DEF Selected, Written, Expired
    <3>5. Scanned(u)'
      BY <1>1, <1>2 DEF Scanned
    <3>6. Remembered(u)'
      BY <1>1, <1>2, <1>4, <1>6 DEF Remembered, Purged, Written
    <3> QED
      BY <3>1, <3>3, <3>4, <3>5, <3>6 DEF Loading
  <2> QED
    BY <2>1, <2>2
<1> QED
  BY <1>2, <1>3, <1>6, <1>7, <1>8, LoadingStep

LEMMA LoadCommit ==
    ASSUME IInv, LoadInv, NEW u \in Users, Commit(u) PROVE LoadInv'
<1> DEFINE c == conn[u]
           t == txn[c]
<1>1. /\ Typing /\ call[u] \in Calls /\ call[u].pc = "commit" /\ kind = "sqlite"
      /\ c \in Users /\ steady[u] \subseteq Keys
      /\ LoadingPlace(u) /\ Untouched(u) /\ Remembered(u) /\ Selected(u)
  BY LoadTypes DEF IInv, Control, Place, Commit
<1>2. /\ Written(u) \subseteq DOMAIN t
      /\ \A k \in Written(u) : t[k] = call[u].change[k]
      /\ call[u].loads => \A k \in Written(u) : call[u].change[k] = NoRow
  BY <1>1, OneCommits DEF IInv, Control, Executed
<1>3. /\ UNCHANGED <<kind, conn, now>>
      /\ disk' = Over(t, disk)
      /\ txn' = [txn EXCEPT ![c] = None]
      /\ Touch(u, DOMAIN t)
  BY DEF Commit, After, setting
<1>4. /\ \A k \in DOMAIN t : disk'[k] = t[k]
      /\ \A k \in Keys \ DOMAIN t : disk'[k] = disk[k]
  <2>1. t \in Changes /\ disk \in [Keys -> Content]
    BY <1>1 DEF Typing
  <2> QED
    BY <1>3, <2>1, RowsAfter
<1>5. DOMAIN txn'[c] = {} /\ \A d \in Users \ {c} : txn'[d] = txn[d]
  BY <1>1, <1>3, NoChange DEF Typing
<1> HIDE DEF t
<1>6. /\ steady' \in [Users -> SUBSET Keys]
      /\ steady'[u] = steady[u]
      /\ \A v \in Users \ {u} : steady'[v] = steady[v] \ DOMAIN t
      /\ began' \in [Users -> [Keys -> Content]] /\ began' = began
  BY <1>3, TouchTypes
<1>7. ASSUME NEW v \in Users \ {u}, NEW k \in steady'[v]
      PROVE  /\ disk'[k] = disk[k]
             /\ \A d \in Users : k \in DOMAIN txn'[d] => k \in DOMAIN txn[d]
  BY <1>4, <1>5, <1>6
<1>8. CASE ~call[u].loads
  <2>1. Finish(u)
    BY <1>8 DEF Commit
  <2>2. call'[u] = NoCall /\ \A v \in Users \ {u} : call'[v] = call[v]
    BY <1>1, <2>1, FinishTypes
  <2>3. Loading(u)'
    BY <1>6, <2>2, NothingLoads
  <2> QED
    BY <1>3, <1>6, <1>7, <2>2, <2>3, LoadingStep
<1>9. CASE call[u].loads
  <2>1. call' = [call EXCEPT ![u].pc = "loaded"]
    BY <1>9 DEF Commit, Goto
  <2>2. /\ call'[u] = [call[u] EXCEPT !.pc = "loaded"]
        /\ \A v \in Users \ {u} : call'[v] = call[v]
    BY <1>1, <2>1 DEF Typing
  <2>3. /\ call'[u].pc = "loaded"
        /\ call'[u].loads
        /\ call'[u].change = call[u].change
        /\ call'[u].out = call[u].out
        /\ call'[u].since = call[u].since
    BY <1>1, <1>9, <2>2 DEF Calls
  <2>4. LoadingPlace(u)'
    BY <1>1, <1>3, <1>6, <1>9, <2>3 DEF LoadingPlace
  <2>5. \A k \in steady[u], d \in Users : k \in DOMAIN txn[d] => d = c /\ k \in Written(u)
    BY <1>1, <1>9 DEF Untouched
  <2>6. Untouched(u)'
    BY <1>5, <1>6, <2>5 DEF Untouched
  <2>7. ASSUME NEW k \in steady[u]
        PROVE  disk'[k] = IF k \in Written(u) THEN NoRow ELSE disk[k]
    <3>1. CASE k \in Written(u)
      BY <1>2, <1>4, <1>9, <3>1
    <3>2. CASE k \notin Written(u)
      <4>1. k \notin DOMAIN t
        BY <1>1, <2>5, <3>2 DEF t
      <4> QED
        BY <1>1, <1>4, <3>2, <4>1
    <3> QED
      BY <3>1, <3>2
  <2>8. Selected(u)'
    BY <1>1, <1>3, <1>6, <1>9, <2>3, <2>7 DEF Selected, Written, Expired
  <2>9. Scanned(u)'
    BY <1>1, <1>3 DEF Scanned
  <2>10. Remembered(u)'
    BY <1>1, <1>3, <1>6, <1>9, <2>3, <2>7 DEF Remembered, Purged, Written
  <2>11. Loading(u)'
    BY <2>4, <2>6, <2>8, <2>9, <2>10 DEF Loading
  <2> QED
    BY <1>3, <1>6, <1>7, <2>2, <2>11, LoadingStep
<1> QED
  BY <1>8, <1>9

LEMMA LoadComputePx ==
    ASSUME IInv, LoadInv, NEW u \in Users, ComputePx(u) PROVE LoadInv'
<1>1. Typing /\ call[u] \in Calls /\ ~call[u].loads
  BY LoadTypes DEF LoadingPlace, ComputePx
<1>2. /\ UNCHANGED <<kind, conn, now, disk, txn, steady, began>>
      /\ steady' \in [Users -> SUBSET Keys] /\ began' \in [Users -> [Keys -> Content]]
  BY DEF ComputePx, setting, medium, auxVars, loadVars, LoadInv
<1>3. PICK px : call' = [call EXCEPT ![u].pc = "send", ![u].px = px]
  BY DEF ComputePx
<1>4. /\ call'[u].pc = "send" /\ ~call'[u].loads
      /\ \A v \in Users \ {u} : call'[v] = call[v]
  BY <1>1, <1>3 DEF Typing, Calls
<1>5. Loading(u)'
  BY <1>2, <1>4, WriteLoadsNothing
<1> QED
  BY <1>2, <1>4, <1>5, LoadingCall

(* A write to Redis, whether it raises or not.                             *)
LEMMA LoadSending ==
    ASSUME IInv, LoadInv, NEW u \in Users, Send(u) \/ SendRaises(u) PROVE LoadInv'
<1>1. Typing /\ kind = "redis" /\ call[u].pc = "send"
  BY DEF IInv, Control, Place, Send, SendRaises
<1>2. PICK k \in Keys : Written(u) = {k} /\ Key(u) = k
  BY <1>1 DEF IInv, Control, Place, Key
<1>3. /\ UNCHANGED <<kind, conn, now, txn>>
      /\ disk' = disk \/ disk' = [disk EXCEPT ![k] = Sent(u)]
      /\ Finish(u)
      /\ Touch(u, {k})
  BY <1>2 DEF Send, SendRaises, setting
<1>4. call'[u] = NoCall /\ \A v \in Users \ {u} : call'[v] = call[v]
  BY <1>1, <1>3, FinishTypes
<1>5. /\ steady' \in [Users -> SUBSET Keys]
      /\ \A v \in Users \ {u} : steady'[v] = steady[v] \ {k}
      /\ began' \in [Users -> [Keys -> Content]] /\ began' = began
  BY <1>3, TouchTypes
<1>6. \A j \in Keys \ {k} : disk'[j] = disk[j]
  BY <1>1, <1>3 DEF Typing
<1>7. \A v \in Users : steady[v] \subseteq Keys
  BY DEF LoadInv
<1>8. Loading(u)'
  BY <1>4, <1>5, NothingLoads
<1> QED
  BY <1>3, <1>4, <1>5, <1>6, <1>7, <1>8, LoadingStep

(* The scan of Redis: what is known of a user that is at it.               *)
LEMMA ScanTypes ==
    ASSUME IInv, LoadInv, NEW u \in Users, call[u].pc \in {"scan", "pttl", "append"}
    PROVE  /\ Typing /\ now \in Nat /\ call[u] \in Calls /\ kind = "redis" /\ call[u].loads
           /\ steady[u] \subseteq Keys /\ steady \in [Users -> SUBSET Keys]
           /\ \A k \in Keys : disk[k] # NoRow =>
                 disk[k] \in Row /\ disk[k].expire \in Deadline /\ disk[k].value \in Values
           /\ \A k \in Keys : Present(k) \/ disk[k] = NoRow \/ Expired(disk[k], now)
           /\ Untouched(u) /\ Scanned(u)
<1>1. /\ Typing /\ now \in Nat /\ call[u] \in Calls /\ kind = "redis" /\ call[u].loads
      /\ steady[u] \subseteq Keys /\ steady \in [Users -> SUBSET Keys]
      /\ \A k \in Keys : disk[k] # NoRow =>
            disk[k] \in Row /\ disk[k].expire \in Deadline /\ disk[k].value \in Values
      /\ Untouched(u) /\ Scanned(u)
  BY LoadTypes DEF LoadInv, LoadingPlace
<1>2. ASSUME NEW k \in Keys PROVE Present(k) \/ disk[k] = NoRow \/ Expired(disk[k], now)
  <2>1. CASE disk[k] # NoRow /\ disk[k].expire # Never
    <3>1. disk[k].expire \in Nat
      BY <1>1, <2>1 DEF Deadline
    <3> QED
      BY <1>1, <2>1, <3>1 DEF Present, Expired
  <2> QED
    BY <2>1 DEF Present
<1> QED
  BY <1>1, <1>2

(* A step of the scan, of which only what it has found is to be shown.     *)
LEMMA ScanningStep ==
    ASSUME IInv, LoadInv, NEW u \in Users, call[u].pc \in {"scan", "pttl", "append"},
           UNCHANGED <<kind, conn, now, disk, txn, steady, began>>,
           \A v \in Users \ {u} : call'[v] = call[v],
           call'[u].pc \in {"scan", "pttl", "append", "loaded"}, call'[u].loads,
           call'[u].since = call[u].since, Scanned(u)'
    PROVE  LoadInv'
<1>1. /\ kind = "redis" /\ call[u].loads /\ Untouched(u) /\ Remembered(u) /\ LoadingPlace(u)
      /\ steady \in [Users -> SUBSET Keys] /\ began \in [Users -> [Keys -> Content]]
  BY ScanTypes, LoadTypes DEF LoadInv
<1>2. LoadingPlace(u)'
  BY <1>1 DEF LoadingPlace
<1>3. Untouched(u)' /\ Remembered(u)'
  BY <1>1 DEF Untouched, Remembered, Purged
<1>4. Selected(u)'
  BY <1>1 DEF Selected
<1>5. Loading(u)'
  BY <1>2, <1>3, <1>4 DEF Loading
<1> QED
  BY <1>1, <1>5, LoadingCall

(* What has been found stays so while nothing but the call moves on.       *)
LEMMA FoundStays ==
    ASSUME NEW u \in Users, NEW k, UNCHANGED <<kind, now, disk>>,
           call'[u].since = call[u].since,
           k \in DOMAIN call'[u].out <=> k \in DOMAIN call[u].out,
           k \in DOMAIN call[u].out => call'[u].out[k] = call[u].out[k],
           Found(u, k)
    PROVE  Found(u, k)'
BY DEF Found, Later, Expired

LEMMA LoadScan ==
    ASSUME IInv, LoadInv, NEW u \in Users, Scan(u) PROVE LoadInv'
<1>1. call[u].pc = "scan" /\ call[u].todo = {}
  BY DEF Scan
<1>2. /\ Typing /\ call[u] \in Calls /\ kind = "redis" /\ call[u].loads
      /\ steady[u] \subseteq Keys /\ Scanned(u)
      /\ \A k \in Keys : Present(k) \/ disk[k] = NoRow \/ Expired(disk[k], now)
  BY <1>1, ScanTypes
<1>3. PICK page \in SUBSET (Keys \ call[u].scanned) :
         call' = [call EXCEPT ![u].todo = {k \in page : Present(k)},
                              ![u].scanned = @ \cup page]
  BY DEF Scan
<1>4. /\ call'[u].pc = "scan" /\ call'[u].loads
      /\ call'[u].todo = {k \in page : Present(k)}
      /\ call'[u].scanned = call[u].scanned \cup page
      /\ call'[u].out = call[u].out /\ call'[u].since = call[u].since
      /\ \A v \in Users \ {u} : call'[v] = call[v]
  BY <1>1, <1>2, <1>3 DEF Typing, Calls
<1>5. UNCHANGED <<kind, conn, now, disk, txn, steady, began>>
  BY DEF Scan, setting, medium, auxVars, loadVars
<1>6. /\ Asked(u) = {} /\ Asked(u)' = {} /\ Pending(u) = {}
      /\ Pending(u)' = {k \in page : Present(k)}
  BY <1>1, <1>4 DEF Asked, Pending
<1>7. DOMAIN call[u].out \subseteq call[u].scanned
  BY <1>2, <1>6 DEF Scanned
<1>8. ASSUME NEW k \in steady[u], k \in call[u].scanned \cup page, k \notin Pending(u)'
      PROVE  Found(u, k)'
  <2>1. CASE k \in call[u].scanned
    <3>1. Found(u, k)
      BY <1>2, <1>6, <2>1 DEF Scanned
    <3> QED
      BY <1>4, <1>5, <3>1, FoundStays
  <2>2. CASE k \in page
    <3>1. ~Present(k) /\ k \notin DOMAIN call[u].out /\ k \in Keys
      BY <1>6, <1>7, <1>8, <2>2
    <3>2. disk[k] = NoRow \/ Expired(disk[k], now)
      BY <1>2, <3>1
    <3> QED
      BY <1>2, <1>4, <1>5, <3>1, <3>2 DEF Found, Expired
  <2> QED
    BY <1>8, <2>1, <2>2
<1>9. Scanned(u)'
  BY <1>2, <1>4, <1>5, <1>6, <1>7, <1>8 DEF Scanned
<1> QED
  BY <1>1, <1>4, <1>5, <1>9, ScanningStep

LEMMA LoadGet ==
    ASSUME IInv, LoadInv, NEW u \in Users, Get(u) PROVE LoadInv'
<1>1. call[u].pc = "scan"
  BY DEF Get
<1>2. /\ Typing /\ call[u] \in Calls /\ kind = "redis" /\ call[u].loads
      /\ steady[u] \subseteq Keys /\ Scanned(u)
      /\ \A k \in Keys : Present(k) \/ disk[k] = NoRow \/ Expired(disk[k], now)
  BY <1>1, ScanTypes
<1>3. PICK k \in call[u].todo :
         call' = IF Present(k)
                 THEN [call EXCEPT ![u].pc = "pttl", ![u].todo = @ \ {k},
                                   ![u].key = k, ![u].got = disk[k]]
                 ELSE [call EXCEPT ![u].todo = @ \ {k}]
  BY DEF Get
<1>4. UNCHANGED <<kind, conn, now, disk, txn, steady, began>>
  BY DEF Get, setting, medium, auxVars, loadVars
<1>5. Asked(u) = {} /\ Pending(u) = call[u].todo
  BY <1>1 DEF Asked, Pending
<1>6. /\ call'[u].loads /\ call'[u].todo = call[u].todo \ {k}
      /\ call'[u].scanned = call[u].scanned
      /\ call'[u].out = call[u].out /\ call'[u].since = call[u].since
      /\ \A v \in Users \ {u} : call'[v] = call[v]
      /\ Present(k) => call'[u].pc = "pttl" /\ call'[u].key = k /\ call'[u].got = disk[k]
      /\ ~Present(k) => call'[u].pc = "scan"
  <2>1. CASE Present(k)
    BY <1>2, <1>3, <2>1 DEF Typing, Calls
  <2>2. CASE ~Present(k)
    BY <1>1, <1>2, <1>3, <2>2 DEF Typing, Calls
  <2> QED
    BY <2>1, <2>2
<1>7. /\ Asked(u)' = IF Present(k) THEN {k} ELSE {}
      /\ Pending(u)' = IF Present(k) THEN call[u].todo ELSE call[u].todo \ {k}
  <2>1. CASE Present(k)
    BY <1>3, <1>6, <2>1 DEF Asked, Pending
  <2>2. CASE ~Present(k)
    BY <1>6, <2>2 DEF Asked, Pending
  <2> QED
    BY <2>1, <2>2
<1>8. /\ call[u].todo \subseteq call[u].scanned
      /\ DOMAIN call[u].out \subseteq call[u].scanned \ call[u].todo
  BY <1>2, <1>5 DEF Scanned
<1>9. ASSUME NEW j \in steady[u], j \in call[u].scanned, j \notin Pending(u)'
      PROVE  Found(u, j)'
  <2>1. CASE j \notin call[u].todo
    <3>1. Found(u, j)
      BY <1>2, <1>5, <1>9, <2>1 DEF Scanned
    <3> QED
      BY <1>4, <1>6, <3>1, FoundStays
  <2>2. CASE j \in call[u].todo
    <3>1. j = k /\ ~Present(k) /\ k \notin DOMAIN call[u].out /\ k \in Keys
      BY <1>2, <1>7, <1>8, <1>9, <2>2
    <3>2. disk[k] = NoRow \/ Expired(disk[k], now)
      BY <1>2, <3>1
    <3> QED
      BY <1>2, <1>4, <1>6, <3>1, <3>2 DEF Found, Expired
  <2> QED
    BY <2>1, <2>2
<1>10. Scanned(u)'
  <2>1. Present(k) => disk[k] # NoRow
    BY DEF Present
  <2>2. /\ Pending(u)' \subseteq call[u].scanned
        /\ DOMAIN call[u].out \subseteq call[u].scanned \ Pending(u)'
        /\ call'[u].todo \cap Asked(u)' = {}
    BY <1>6, <1>7, <1>8
  <2>3. /\ call'[u].pc \notin {"loaded", "append"}
        /\ \A j \in Asked(u)' : call'[u].got = disk[j] /\ disk[j] # NoRow
    BY <1>6, <1>7, <2>1
  <2> QED
    BY <1>4, <1>6, <1>9, <2>2, <2>3 DEF Scanned
<1>11. call'[u].pc \in {"scan", "pttl"}
  BY <1>6
<1> QED
  BY <1>1, <1>4, <1>6, <1>10, <1>11, ScanningStep

LEMMA LoadPttl ==
    ASSUME IInv, LoadInv, NEW u \in Users, Pttl(u) PROVE LoadInv'
<1>1. call[u].pc = "pttl"
  BY DEF Pttl
<1>k. PICK k \in Keys : k = call[u].key
  BY <1>1 DEF IInv, Control, Place
<1> DEFINE pttl == CASE ~Present(k) -> -2
                     [] Present(k) /\ disk[k].expire = Never -> -1
                     [] OTHER -> disk[k].expire - now
<1>2. /\ Typing /\ now \in Nat /\ call[u] \in Calls /\ kind = "redis" /\ call[u].loads
      /\ steady[u] \subseteq Keys /\ Scanned(u)
      /\ \A j \in Keys : disk[j] # NoRow => disk[j].expire \in Deadline
      /\ \A j \in Keys : Present(j) \/ disk[j] = NoRow \/ Expired(disk[j], now)
  BY <1>1, ScanTypes
<1>3. call' = [call EXCEPT ![u].pc = "append", ![u].pttl = pttl]
  BY <1>k DEF Pttl
<1>4. UNCHANGED <<kind, conn, now, disk, txn, steady, began>>
  BY DEF Pttl, setting, medium, auxVars, loadVars
<1>5. Asked(u) = {k}
  BY <1>k, <1>1 DEF Asked
<1>6. ASSUME k \in steady[u], disk[k] # NoRow PROVE Replied(pttl, disk[k].expire)
  <2>1. k \in Keys /\ disk[k].expire \in Deadline
    BY <1>2, <1>6
  <2>2. CASE ~Present(k)
    <3>1. Expired(disk[k], now)
      BY <1>2, <1>6, <2>1, <2>2
    <3>2. pttl = -2
      BY <2>2
    <3> HIDE DEF pttl
    <3> QED
      BY <3>1, <3>2 DEF Replied, Expired
  <2>3. CASE Present(k) /\ disk[k].expire = Never
    <3>1. pttl = -1
      BY <2>3
    <3> HIDE DEF pttl
    <3> QED
      BY <2>3, <3>1 DEF Replied
  <2>4. CASE Present(k) /\ disk[k].expire # Never
    <3>1. pttl = disk[k].expire - now
      BY <2>4
    <3>2. disk[k].expire \in Nat
      BY <2>1, <2>4 DEF Deadline
    <3> HIDE DEF pttl
    <3> QED
      BY <1>2, <2>4, <3>1, <3>2 DEF Replied
  <2> QED
    BY <2>2, <2>3, <2>4
<1> HIDE DEF pttl
<1>7. /\ call'[u].pc = "append" /\ call'[u].pttl = pttl /\ call'[u].loads
      /\ call'[u].todo = call[u].todo /\ call'[u].scanned = call[u].scanned
      /\ call'[u].key = k /\ call'[u].got = call[u].got
      /\ call'[u].out = call[u].out /\ call'[u].since = call[u].since
      /\ \A v \in Users \ {u} : call'[v] = call[v]
  BY <1>k, <1>2, <1>3 DEF Typing, Calls
<1>8. Asked(u)' = {k} /\ Pending(u)' = Pending(u)
  BY <1>5, <1>7 DEF Asked, Pending
<1>9. ASSUME NEW j \in steady[u], j \in call[u].scanned \ Pending(u)
      PROVE  Found(u, j)'
  <2>1. Found(u, j)
    BY <1>2, <1>9 DEF Scanned
  <2> QED
    BY <1>4, <1>7, <2>1, FoundStays
<1>10. Scanned(u)'
  <2>1. k \in steady[u] => call[u].got = disk[k] /\ disk[k] # NoRow
    BY <1>2, <1>5 DEF Scanned
  <2> QED
    BY <1>2, <1>4, <1>5, <1>6, <1>7, <1>8, <1>9, <2>1 DEF Scanned, Replied
<1> QED
  BY <1>1, <1>4, <1>7, <1>10, ScanningStep

LEMMA LoadAppend ==
    ASSUME IInv, LoadInv, NEW u \in Users, Append(u) PROVE LoadInv'
<1>1. call[u].pc = "append"
  BY DEF Append
<1>k. PICK k \in Keys : k = call[u].key
  BY <1>1 DEF IInv, Control, Place
<1> DEFINE row == [value |-> call[u].got.value, expire |-> ExpireAt(call[u].pttl)]
           found == Just(k, row)
           out == Over(found, call[u].out)
<1>2. /\ Typing /\ now \in Nat /\ call[u] \in Calls /\ kind = "redis" /\ call[u].loads
      /\ steady[u] \subseteq Keys /\ Scanned(u)
      /\ \A j \in Keys : disk[j] # NoRow => disk[j].expire \in Deadline
  BY <1>1, ScanTypes
<1>3. call[u].pttl \in Int /\ k \in Keys /\ call[u].got \in Row /\ call[u].out \in Changes
  BY <1>1, <1>2 DEF Calls, IInv, Control, Place
<1>4. call' = [call EXCEPT ![u].pc = "scan", ![u].out = out,
                           ![u].key = Never, ![u].got = NoRow, ![u].pttl = 0]
  BY <1>k DEF Append
<1>5. UNCHANGED <<kind, conn, now, disk, txn, steady, began>>
  BY DEF Append, setting, medium, auxVars, loadVars
<1>6. /\ DOMAIN out = {k} \cup DOMAIN call[u].out
      /\ out[k] = row
      /\ \A j \in DOMAIN call[u].out \ {k} : out[j] = call[u].out[j]
  <2>1. DOMAIN found = {k} /\ found[k] = row
    BY DEF Just
  <2> HIDE DEF found, row
  <2>2. DOMAIN out = {k} \cup DOMAIN call[u].out
    BY <2>1 DEF Over
  <2>3. out[k] = found[k] /\ \A j \in DOMAIN call[u].out \ {k} : out[j] = call[u].out[j]
    BY <2>1 DEF Over
  <2> QED
    BY <2>1, <2>2, <2>3
<1>7. row.value = call[u].got.value /\ row.expire = ExpireAt(call[u].pttl)
  OBVIOUS
<1> HIDE DEF out, found, row
<1>8. call'[u] = [call[u] EXCEPT !.pc = "scan", !.out = out,
                                 !.key = Never, !.got = NoRow, !.pttl = 0]
  BY <1>2, <1>4 DEF Typing
<1>9. /\ call'[u].pc = "scan" /\ call'[u].loads
      /\ call'[u].todo = call[u].todo /\ call'[u].scanned = call[u].scanned
      /\ call'[u].out = out /\ call'[u].since = call[u].since
  BY <1>2, <1>8 DEF Calls
<1>10. \A v \in Users \ {u} : call'[v] = call[v]
  BY <1>2, <1>4 DEF Typing
<1>11. /\ Asked(u) = {k} /\ Asked(u)' = {}
       /\ Pending(u) = call[u].todo \cup {k} /\ Pending(u)' = call[u].todo
  BY <1>k, <1>1, <1>9 DEF Asked, Pending
<1>12. /\ call[u].todo \cup {k} \subseteq call[u].scanned
       /\ DOMAIN call[u].out \subseteq call[u].scanned \ (call[u].todo \cup {k})
       /\ k \notin call[u].todo
  BY <1>2, <1>11 DEF Scanned
<1>13. k \in steady[u] =>
          call[u].got = disk[k] /\ disk[k] # NoRow /\ Replied(call[u].pttl, disk[k].expire)
  BY <1>1, <1>2, <1>11 DEF Scanned
<1>14. ASSUME k \in steady[u] PROVE Found(u, k)'
  <2>1. disk[k].expire \in Deadline
    BY <1>2, <1>3, <1>13, <1>14
  <2>2. Later(ExpireAt(call[u].pttl), disk[k].expire)
    <3>1. CASE disk[k].expire = Never
      BY <1>3, <1>13, <1>14, <3>1 DEF Later, ExpireAt, Replied
    <3>2. CASE disk[k].expire # Never /\ call[u].pttl <= 0
      BY <1>3, <1>13, <1>14, <3>2 DEF Later, ExpireAt, Replied
    <3>3. CASE disk[k].expire # Never /\ call[u].pttl > 0
      <4>1. /\ ExpireAt(call[u].pttl) = now + call[u].pttl
            /\ now + call[u].pttl # Never
            /\ disk[k].expire <= now + call[u].pttl
        BY <1>2, <1>3, <1>13, <1>14, <3>3, BackendsAssumption DEF ExpireAt, Replied
      <4>2. disk[k].expire \in Nat
        BY <2>1, <3>3 DEF Deadline
      <4> QED
        BY <1>2, <1>3, <3>3, <4>1, <4>2 DEF Later
    <3> QED
      BY <1>3, <3>1, <3>2, <3>3
  <2>3. k \in DOMAIN call'[u].out /\ call'[u].out[k] = row
    BY <1>6, <1>9
  <2> QED
    BY <1>2, <1>5, <1>7, <1>13, <1>14, <2>2, <2>3 DEF Found, Later
<1>15. ASSUME NEW j \in steady[u], j \in call[u].scanned, j \notin call[u].todo
       PROVE  Found(u, j)'
  <2>1. CASE j = k
    BY <1>14, <2>1
  <2>2. CASE j # k
    <3>1. Found(u, j)
      BY <1>2, <1>11, <1>15, <2>2 DEF Scanned
    <3> QED
      BY <1>5, <1>6, <1>9, <2>2, <3>1, FoundStays
  <2> QED
    BY <2>1, <2>2
<1>16. Scanned(u)'
  BY <1>5, <1>6, <1>9, <1>11, <1>12, <1>15 DEF Scanned
<1> QED
  BY <1>1, <1>5, <1>9, <1>10, <1>16, ScanningStep

LEMMA LoadScanEnds ==
    ASSUME IInv, LoadInv, NEW u \in Users, ScanEnds(u) PROVE LoadInv'
<1>1. call[u].pc = "scan" /\ call[u].todo = {} /\ call[u].scanned = Keys
  BY DEF ScanEnds
<1>2. /\ Typing /\ call[u] \in Calls /\ call[u].loads /\ Scanned(u)
      /\ steady[u] \subseteq Keys
  BY <1>1, ScanTypes
<1>3. UNCHANGED <<kind, conn, now, disk, txn, steady, began>>
  BY DEF ScanEnds, setting, medium, auxVars, loadVars
<1>4. call' = [call EXCEPT ![u].pc = "loaded"]
  BY DEF ScanEnds, Goto
<1>5. /\ call'[u].pc = "loaded" /\ call'[u].loads
      /\ call'[u].todo = {} /\ call'[u].scanned = Keys
      /\ call'[u].out = call[u].out /\ call'[u].since = call[u].since
      /\ \A v \in Users \ {u} : call'[v] = call[v]
  BY <1>1, <1>2, <1>4 DEF Typing, Calls
<1>6. Asked(u) = {} /\ Asked(u)' = {} /\ Pending(u) = {} /\ Pending(u)' = {}
  BY <1>1, <1>5 DEF Asked, Pending
<1>7. ASSUME NEW j \in steady[u], j \in Keys PROVE Found(u, j)'
  <2>1. Found(u, j)
    BY <1>1, <1>2, <1>3, <1>6, <1>7, ScanTypes DEF Scanned
  <2> QED
    BY <1>3, <1>5, <2>1, FoundStays
<1>8. Scanned(u)'
  BY <1>1, <1>2, <1>3, <1>5, <1>6, <1>7 DEF Scanned
<1> QED
  BY <1>1, <1>3, <1>5, <1>8, ScanningStep

-----------------------------------------------------------------------------
LEMMA LoadClose ==
    ASSUME IInv, LoadInv, NEW c \in Users, Close(c) PROVE LoadInv'
<1>1. /\ UNCHANGED <<kind, conn, now, disk, call, steady, began>>
      /\ txn' = [txn EXCEPT ![c] = None]
  BY DEF Close, setting, auxVars, loadVars
<1>2. /\ txn \in [Users -> Changes] /\ steady \in [Users -> SUBSET Keys]
      /\ began \in [Users -> [Keys -> Content]]
  BY DEF IInv, Typing, LoadInv
<1>3. \A k \in Keys, d \in Users : k \in DOMAIN txn'[d] => k \in DOMAIN txn[d]
  BY <1>1, <1>2, NoChange
<1>4. ASSUME NEW v \in Users PROVE Loading(v)'
  <2>1. now \in Nat /\ steady[v] \subseteq Keys
    BY LoadTypes
  <2> QED
    BY <1>1, <1>3, <2>1, LoadKept
<1> QED
  BY <1>1, <1>2, <1>4 DEF LoadInv

LEMMA LoadRestart ==
    ASSUME IInv, LoadInv, NEW c \in Users, Restart(c) PROVE LoadInv'
<1>1. /\ UNCHANGED <<kind, conn, now, disk, steady, began>>
      /\ txn' = [txn EXCEPT ![c] = None]
      /\ call' = [u \in Users |-> IF u \in UsersOf(c) THEN NoCall ELSE call[u]]
  BY DEF Restart, setting, loadVars
<1>2. /\ txn \in [Users -> Changes] /\ steady \in [Users -> SUBSET Keys]
      /\ began \in [Users -> [Keys -> Content]]
  BY DEF IInv, Typing, LoadInv
<1>3. \A k \in Keys, d \in Users : k \in DOMAIN txn'[d] => k \in DOMAIN txn[d]
  BY <1>1, <1>2, NoChange
<1>4. ASSUME NEW v \in Users PROVE Loading(v)'
  <2>1. now \in Nat /\ steady[v] \subseteq Keys
    BY LoadTypes
  <2>2. CASE v \in UsersOf(c)
    BY <1>1, <2>1, <2>2, NothingLoads
  <2>3. CASE v \notin UsersOf(c)
    <3>1. call'[v] = call[v]
      BY <1>1, <2>3
    <3> QED
      BY <1>1, <1>3, <2>1, <3>1, LoadKept
  <2> QED
    BY <2>2, <2>3
<1> QED
  BY <1>1, <1>2, <1>4 DEF LoadInv

LEMMA LoadWaits ==
    ASSUME IInv, LoadInv, Tick \/ UNCHANGED vars PROVE LoadInv'
<1>1. /\ now \in Nat
      /\ steady \in [Users -> SUBSET Keys] /\ began \in [Users -> [Keys -> Content]]
  BY BackendsAssumption DEF IInv, Typing, LoadInv
<1>2. /\ UNCHANGED <<kind, conn, disk, txn, call, steady, began>>
      /\ now' \in Nat /\ now' >= now
  BY <1>1 DEF Tick, vars, setting, medium, auxVars, loadVars
<1>3. ASSUME NEW v \in Users PROVE Loading(v)'
  BY <1>2, LoadKept
<1> QED
  BY <1>1, <1>2, <1>3 DEF LoadInv

LEMMA NextLoadInv == IInv /\ LoadInv /\ [Next]_vars => LoadInv'
<1> SUFFICES ASSUME IInv, LoadInv, [Next]_vars PROVE LoadInv'
  OBVIOUS
<1>1. ASSUME NEW u \in Users, Statement(u) PROVE LoadInv'
  BY <1>1, LoadFinishingSteps, LoadExecute, LoadCommit, LoadSelect, LoadComputePx,
     LoadSending, LoadScan, LoadGet, LoadPttl, LoadAppend, LoadScanEnds
     DEF Statement
<1> QED
  BY <1>1, LoadBeginWrite, LoadBeginLoad, LoadClose, LoadRestart, LoadWaits DEF Next

LEMMA InitLoadInv == Init => LoadInv
<1> SUFFICES ASSUME Init PROVE LoadInv
  OBVIOUS
<1>1. /\ steady = [u \in Users |-> {}]
      /\ began = [u \in Users |-> [k \in Keys |-> NoRow]]
      /\ \A u \in Users : call[u] = NoCall
  BY DEF Init
<1>2. ASSUME NEW u \in Users PROVE Loading(u)
  BY <1>1, IdleCall DEF Loading, LoadingPlace, Untouched, Remembered, Selected, Scanned
<1> QED
  BY <1>1, <1>2 DEF LoadInv, Content

THEOREM LoadInvariance == Spec => [](IInv /\ LoadInv)
<1> QED
  BY InitIInv, InitLoadInv, NextIInv, NextLoadInv, PTL DEF Spec

(* A row lives while its deadline is not past.                             *)
LEMMA LivesOrExpired ==
    ASSUME NEW row \in Content, NEW time \in Nat
    PROVE  /\ Lives(row, time) <=> row # NoRow /\ ~Expired(row, time)
           /\ Expired(row, time) => row # NoRow
           /\ \A later \in Nat : later >= time /\ Expired(row, time) => Expired(row, later)
<1>1. row # NoRow => row.expire \in Nat \cup {Never}
  BY DEF Content, Row, Deadline
<1> QED
  BY <1>1, BackendsAssumption DEF Lives, Expired

(* Of the keys that nobody writes meanwhile, a load of SQLite gives the    *)
(* rows there were when it began and that were not past their deadline, as *)
(* they were, and deletes the others; a load of Redis gives the values of  *)
(* all keys but those whose deadline has come, never with an earlier       *)
(* deadline, and changes nothing (load_all): for any keys, users, rows and *)
(* clock, however the statements of others fall in between.  A key of Redis*)
(* whose time comes while it is loaded may be given without its deadline.  *)
THEOREM LoadsAreExact == Spec => []LoadIsExact
<1>1. IInv /\ LoadInv => LoadIsExact
  <2> SUFFICES ASSUME IInv, LoadInv, NEW u \in Users, call[u].pc = "loaded",
                      NEW k \in steady[u]
               PROVE  /\ kind = "sqlite" => FoundInFile(u, k)
                      /\ kind = "redis" => FoundInRedis(u, k)
    BY DEF LoadIsExact
  <2>1. /\ call[u].loads /\ k \in Keys /\ now \in Nat /\ call[u].since \in Nat
        /\ Remembered(u) /\ Selected(u) /\ Scanned(u)
        /\ began[u][k] \in Content
    BY LoadTypes DEF LoadingPlace, LoadInv, Calls
  <2>2. ASSUME kind = "sqlite" PROVE FoundInFile(u, k)
    <3>1. Lives(began[u][k], call[u].since) <=>
             began[u][k] # NoRow /\ ~Expired(began[u][k], call[u].since)
      BY <2>1, LivesOrExpired
    <3>2. /\ k \in Written(u) <=> Expired(began[u][k], call[u].since)
          /\ k \in DOMAIN call[u].out <=> began[u][k] # NoRow /\ k \notin Written(u)
          /\ k \in DOMAIN call[u].out => call[u].out[k] = began[u][k]
      BY <2>1, <2>2 DEF Selected
    <3>3. disk[k] = IF k \in Written(u) THEN NoRow ELSE began[u][k]
      BY <2>1, <2>2 DEF Remembered, Purged
    <3> QED
      BY <3>1, <3>2, <3>3 DEF FoundInFile
  <2>3. ASSUME kind = "redis" PROVE FoundInRedis(u, k)
    <3>1. k \in call[u].scanned \ Pending(u)
      BY <2>1, <2>3 DEF Scanned, Pending, Asked
    <3>2. Found(u, k)
      BY <2>1, <2>3, <3>1 DEF Scanned
    <3>3. disk[k] = began[u][k]
      BY <2>1, <2>3 DEF Remembered, Purged
    <3>4. Lives(began[u][k], now) <=> began[u][k] # NoRow /\ ~Expired(began[u][k], now)
      BY <2>1, LivesOrExpired
    <3> QED
      BY <3>2, <3>3, <3>4 DEF FoundInRedis, Found
  <2> QED
    BY <2>2, <2>3
<1> QED
  BY <1>1, LoadInvariance, PTL

-----------------------------------------------------------------------------
(* What is kept, through the purges of loads                               *)

Kept(k) == disk[k] = kept[k] \/ (disk[k] = NoRow /\ ~Lives(kept[k], now))

LEMMA KeptTypes ==
    ASSUME IInv, WrittenIsKept, NEW k \in Keys
    PROVE  /\ disk[k] \in Content /\ kept[k] \in Content
           /\ now \in Nat
           /\ k \notin unclear => Kept(k)
BY BackendsAssumption DEF IInv, Typing, WrittenIsKept, Kept

(* A step that writes nothing to the medium, as time goes on.              *)
LEMMA KeptStays ==
    ASSUME IInv, WrittenIsKept, UNCHANGED <<disk, kept>>, unclear \subseteq unclear',
           now' \in Nat, now' >= now
    PROVE  WrittenIsKept'
<1> SUFFICES ASSUME NEW k \in Keys, k \notin unclear'
             PROVE  disk[k] = kept[k] \/ (disk[k] = NoRow /\ ~Lives(kept[k], now'))
  BY DEF WrittenIsKept, Lives
<1>1. Kept(k) /\ kept[k] \in Content /\ now \in Nat
  BY KeptTypes
<1>2. CASE kept[k] = NoRow
  BY <1>1, <1>2 DEF Kept
<1>3. CASE kept[k] # NoRow /\ ~Lives(kept[k], now)
  <2>1. Expired(kept[k], now')
    BY <1>1, <1>3, LivesOrExpired
  <2> QED
    BY <1>1, <2>1, LivesOrExpired DEF Kept
<1>4. CASE Lives(kept[k], now)
  BY <1>1, <1>4 DEF Kept
<1> QED
  BY <1>2, <1>3, <1>4

LEMMA KeptCommit ==
    ASSUME IInv, LoadInv, WrittenIsKept, NEW u \in Users, Commit(u) PROVE WrittenIsKept'
<1> DEFINE c == conn[u]
           t == txn[c]
<1>1. /\ Typing /\ call[u].pc = "commit" /\ c \in Users
      /\ t \in Changes /\ call[u].change \in Changes
      /\ now \in Nat /\ Written(u) \subseteq Keys
  BY OneCommits, CallTypes, BackendsAssumption DEF IInv, Typing, Commit
<1>2. /\ Written(u) \subseteq DOMAIN t
      /\ \A k \in Written(u) : t[k] = call[u].change[k]
      /\ \A k \in DOMAIN t : k \in unclear \/ k \in Written(u)
  BY <1>1, OneCommits
<1>3. now' = now /\ disk' = Over(t, disk)
  BY DEF Commit, After, setting
<1>4. /\ \A k \in DOMAIN t : disk'[k] = t[k]
      /\ \A k \in Keys \ DOMAIN t : disk'[k] = disk[k]
  BY <1>1, <1>3, RowsAfter DEF Typing
<1> HIDE DEF t
<1> SUFFICES ASSUME NEW k \in Keys, k \notin unclear' PROVE Kept(k)'
  BY DEF WrittenIsKept, Kept
<1>5. k \in Written(u) => disk'[k] = call[u].change[k]
  BY <1>2, <1>4
<1>6. k \notin unclear /\ k \notin Written(u) => disk'[k] = disk[k] /\ Kept(k)
  BY <1>2, <1>4, KeptTypes
<1>7. CASE ~call[u].loads
  <2>1. /\ kept' = Over(call[u].change, kept)
        /\ k \in Written(u) \/ k \notin unclear
    BY <1>7 DEF Commit, Settle
  <2>2. kept'[k] = IF k \in Written(u) THEN call[u].change[k] ELSE kept[k]
    BY <1>1, <2>1, RowsAfter DEF Typing, Written
  <2> QED
    BY <1>3, <1>5, <1>6, <2>1, <2>2 DEF Kept, Lives
<1>8. CASE call[u].loads
  <2>1. kept' = kept /\ k \notin unclear /\ (k \in Written(u) => k \in steady[u])
    BY <1>8 DEF Commit
  <2>2. CASE k \notin Written(u)
    BY <1>3, <1>6, <2>1, <2>2 DEF Kept, Lives
  <2>3. CASE k \in Written(u)
    <3>1. /\ call[u] \in Calls /\ kind = "sqlite" /\ LoadingPlace(u)
          /\ Remembered(u) /\ Selected(u) /\ began[u][k] \in Content
      BY <1>1, LoadTypes, OneCommits DEF LoadInv
    <3>2. disk[k] = began[u][k]
      BY <1>1, <1>8, <2>1, <2>3, <3>1 DEF Remembered, Purged
    <3>3. Expired(disk[k], call[u].since)
      BY <1>1, <1>8, <2>1, <2>3, <3>1, <3>2 DEF Selected
    <3>4. call[u].since \in Nat /\ call[u].since <= now
      BY <1>8, <3>1 DEF Calls, LoadingPlace
    <3>5. Expired(disk[k], now) /\ disk[k] # NoRow
      BY <1>1, <3>1, <3>2, <3>3, <3>4, LivesOrExpired
    <3>6. kept[k] = disk[k] /\ disk[k] \in Content
      BY <2>1, <3>5, KeptTypes DEF Kept
    <3>7. ~Lives(kept[k], now)
      BY <1>1, <3>5, <3>6, LivesOrExpired
    <3>8. disk'[k] = NoRow
      BY <1>1, <1>5, <1>8, <2>3 DEF IInv, Control, Executed
    <3> QED
      BY <1>3, <2>1, <3>7, <3>8 DEF Kept, Lives
  <2> QED
    BY <2>2, <2>3
<1> QED
  BY <1>7, <1>8

LEMMA KeptSend ==
    ASSUME IInv, WrittenIsKept, NEW u \in Users, Send(u) \/ SendRaises(u)
    PROVE  WrittenIsKept'
<1> DEFINE key == Key(u)
           row == Sent(u)
<1>1. /\ Typing /\ key \in Keys /\ Written(u) = {key} /\ row \in Content
      /\ now' = now
  BY SendingTypes DEF IInv, Send, SendRaises, setting
<1>2. \/ /\ disk' = [disk EXCEPT ![key] = row]
         /\ kept' = Over(Just(key, row), kept)
         /\ unclear \ {key} \subseteq unclear'
      \/ /\ disk' \in {disk, [disk EXCEPT ![key] = row]}
         /\ kept' = kept
         /\ unclear \cup {key} \subseteq unclear'
  BY <1>1 DEF Send, SendRaises, Settle, Blur
<1> HIDE DEF key, row
<1> SUFFICES ASSUME NEW k \in Keys, k \notin unclear' PROVE Kept(k)'
  BY DEF WrittenIsKept, Kept
<1>3. \A x \in Keys \ {key} : disk'[x] = disk[x]
  BY <1>1, <1>2 DEF Typing
<1>4. \A x \in Keys \ {key} : Over(Just(key, row), kept)[x] = kept[x]
  BY <1>1 DEF Over, Just, Typing
<1>5. Over(Just(key, row), kept)[key] = row
  BY <1>1 DEF Over, Just, Typing
<1>6. CASE k = key
  BY <1>1, <1>2, <1>5, <1>6 DEF Kept, Typing
<1>7. CASE k # key
  <2>1. k \notin unclear /\ kept'[k] = kept[k] /\ disk'[k] = disk[k]
    BY <1>2, <1>3, <1>4, <1>7
  <2> QED
    BY <1>1, <2>1, KeptTypes DEF Kept, Lives
<1> QED
  BY <1>6, <1>7

LEMMA NextKept == IInv /\ LoadInv /\ WrittenIsKept /\ [Next]_vars => WrittenIsKept'
<1> SUFFICES ASSUME IInv, LoadInv, WrittenIsKept, [Next]_vars PROVE WrittenIsKept'
  OBVIOUS
<1>1. now \in Nat
  BY BackendsAssumption DEF IInv, Typing
<1>2. ASSUME NEW u \in Users,
             \/ BeginWrite(u) \/ BeginLoad(u) \/ Return(u)
             \/ Execute(u) \/ ExecuteRaises(u) \/ CommitRaises(u)
             \/ Select(u) \/ SelectRaises(u) \/ ComputePx(u)
             \/ Scan(u) \/ Get(u) \/ Pttl(u) \/ Append(u) \/ ScanEnds(u) \/ LoadRaises(u)
      PROVE  WrittenIsKept'
  <2>1. UNCHANGED <<disk, kept, now>>
    BY <1>2 DEF BeginWrite, BeginLoad, Return, Execute, ExecuteRaises, CommitRaises, Select,
                SelectRaises, ComputePx, Scan, Get, Pttl, Append, ScanEnds, LoadRaises,
                Blur, setting, medium, auxVars
  <2>2. unclear \subseteq unclear'
    BY <1>2 DEF BeginWrite, BeginLoad, Return, Execute, ExecuteRaises, CommitRaises, Select,
                SelectRaises, ComputePx, Scan, Get, Pttl, Append, ScanEnds, LoadRaises,
                Blur, auxVars
  <2> QED
    BY <1>1, <2>1, <2>2, KeptStays
<1>3. ASSUME NEW u \in Users, Commit(u) \/ Send(u) \/ SendRaises(u)
      PROVE  WrittenIsKept'
  BY <1>3, KeptCommit, KeptSend
<1>4. ASSUME NEW c \in Users, Close(c) \/ Restart(c)
      PROVE  WrittenIsKept'
  <2>1. UNCHANGED <<disk, kept, now>> /\ unclear \subseteq unclear'
    BY <1>4 DEF Close, Restart, setting, auxVars
  <2> QED
    BY <1>1, <2>1, KeptStays
<1>5. CASE Tick \/ UNCHANGED vars
  <2>1. UNCHANGED <<disk, kept, unclear>> /\ now' \in Nat /\ now' >= now
    BY <1>1, <1>5 DEF Tick, vars, setting, medium, auxVars
  <2> QED
    BY <2>1, KeptStays
<1>6. ASSUME NEW u \in Users, Statement(u) PROVE WrittenIsKept'
  BY <1>2, <1>3, <1>6 DEF Statement
<1> QED
  BY <1>2, <1>4, <1>5, <1>6 DEF Next

(* What a write that returned made of a key stays committed until its      *)
(* deadline, through the crashes and failures of every user, the purges of *)
(* loads and the other writes of the same connection.  Of keys whose last  *)
(* write raised or met another one, and of those a load purges although    *)
(* they were written again since it read them, it says nothing.            *)
THEOREM WritesAreKept == Spec => []WrittenIsKept
<1>1. Init => WrittenIsKept
  BY DEF Init, WrittenIsKept
<1> QED
  BY <1>1, LoadInvariance, NextKept, PTL DEF Spec
=============================================================================
