------------------------------ MODULE Backends ------------------------------
(***************************************************************************)
(* The persistence backends (persistence.py) statement by statement, where *)
(* NimbusKV takes a write or a load for one step.  The users are threads,  *)
(* of one process or of several, that write through and load from one      *)
(* medium: a SQLite file or a Redis server.  Users of one backend object   *)
(* share its lock and its connection; what SQLite and Redis do with a      *)
(* statement is taken from how the code uses them.                         *)
(*                                                                         *)
(* Faulty... definitions are no part of the model: each is a bug put in the*)
(* place of the definition that follows it, to see a property fail.        *)
(***************************************************************************)
EXTENDS Integers

CONSTANTS
    Keys, Values,
    Users,      \* the threads
    Writers,    \* the users that call persist_set() and persist_delete()
    Loaders,    \* the users that call load_all()
    Specs,      \* the backend= arguments tried
    Ttls,       \* how long before its deadline a row is written; 0 is too late
    Never,      \* no deadline
    NoRow,      \* no row of a key
    Free,       \* nobody holds the lock
    MaxTime,    \* bound: the clock, in milliseconds
    MaxWrites   \* bound: the calls of persist_set() and persist_delete()

ASSUME BackendsAssumption ==
    /\ Never \notin Int
    /\ Ttls \subseteq Nat
    /\ MaxTime \in Nat
    /\ Free \notin Users
    /\ Loaders \subseteq Users /\ Writers \subseteq Users
    /\ MaxWrites \in Nat

Deadline == Nat \cup {Never}
Row == [value : Values, expire : Deadline]
Content == Row \cup {NoRow}
ASSUME NoRowIsNoRow == NoRow \notin Row

(* Changes to some of the keys: a statement, or an open transaction.       *)
IsChange(c) == DOMAIN c \subseteq Keys /\ \A k \in DOMAIN c : c[k] \in Content
None == [k \in {} |-> NoRow]

Over(c, rows) ==
    [k \in DOMAIN c \cup DOMAIN rows |-> IF k \in DOMAIN c THEN c[k] ELSE rows[k]]
Just(k, row) == [x \in {k} |-> row]

(* What is new replaces what there was (ON CONFLICT).                      *)
After(c, rows) == Over(c, rows)

(* resolve_backend(): the kind of backend a specification names.           *)
Resolve(spec) ==
    CASE spec \in {"None", "memory"} -> "memory"
      [] spec \in {"sqlite", "sqlite:path", "SQLiteBackend object"} -> "sqlite"
      [] spec \in {"redis", "redis://", "rediss://", "RedisBackend object"} -> "redis"
      [] OTHER -> "ValueError"

(* An object handed in is used as it is: its users share it.               *)
IsObject(spec) == spec \in {"SQLiteBackend object", "RedisBackend object"}

VARIABLES
    kind,       \* the kind of backend
    conn,       \* conn[u]: the object u uses, named for one of its users
    now,        \* time.time(), and the clock of the Redis server
    disk,       \* what is committed; in Redis, what was last set
    open,       \* the objects whose connection is open
    lock,       \* _lock of each object: its holder, or Free
    txn,        \* what each connection has executed and not committed
    call,       \* each user: where it is in a call, and its locals
    writes,     \* how many writes were begun
    steady,     \* auxiliary: the keys nobody wrote since u began to load
    began,      \* auxiliary: the rows there were when u began to load
    kept,       \* auxiliary: what the last write that returned made of a key
    unclear     \* auxiliary: keys whose writes overlapped or raised

medium == <<disk, txn>>
setting == <<kind, conn, now>>
loadVars == <<steady, began>>
auxVars == <<loadVars, kept, unclear>>
vars == <<setting, medium, open, lock, call, writes, auxVars>>

(* loads: whether it is a load_all();  change: what is to be written, or   *)
(* purged;  since: when the load began;  todo: keys of the pages scanned so*)
(* far, not yet got;  scanned: the keys of these pages;  got, pttl: the    *)
(* replies;  out: the result of load_all().                                *)
NoCall ==
    [pc |-> "idle", loads |-> FALSE, change |-> None, px |-> Never, since |-> 0,
     todo |-> {}, scanned |-> {}, key |-> Never, got |-> NoRow, pttl |-> 0,
     out |-> None]

Init ==
    /\ \E spec \in Specs :
          /\ Resolve(spec) # "ValueError"
          /\ kind = Resolve(spec)
          /\ conn = IF IsObject(spec)
                    THEN [u \in Users |-> CHOOSE v \in Users : TRUE]
                    ELSE [u \in Users |-> u]
    /\ now = 0
    /\ disk = [k \in Keys |-> NoRow]
    /\ open = Users
    /\ lock = [u \in Users |-> Free]
    /\ txn = [u \in Users |-> None]
    /\ call = [u \in Users |-> NoCall]
    /\ steady = [u \in Users |-> {}]
    /\ began = [u \in Users |-> disk]
    /\ kept = disk
    /\ unclear = {}
    /\ writes = 0

-----------------------------------------------------------------------------
Goto(u, pc) == call' = [call EXCEPT ![u].pc = pc]
Finish(u) == call' = [call EXCEPT ![u] = NoCall]

Written(u) == DOMAIN call[u].change
(* What u changes is no longer as the others found it when they began.     *)
Touch(u, ks) ==
    /\ steady' = [v \in Users |-> IF v = u THEN steady[v] ELSE steady[v] \ ks]
    /\ UNCHANGED began

(* A load is over, whether it returned or raised.                          *)
EndLoad(u) ==
    /\ steady' = [steady EXCEPT ![u] = {}]
    /\ began' = [began EXCEPT ![u] = [k \in Keys |-> NoRow]]

OthersWrite(u) == UNION {IF call[v].loads THEN {} ELSE Written(v) : v \in Users \ {u}}

(* A write that returns settles its keys, unless another write of them is  *)
(* under way; one that raises leaves them unclear.                         *)
Settle(u, change) ==
    /\ kept' = Over(change, kept)
    /\ unclear' = (unclear \ Written(u)) \cup (Written(u) \cap OthersWrite(u))
Blur(u) == unclear' = unclear \cup Written(u) /\ UNCHANGED kept

BeginWrite(u) ==
    /\ u \in Writers
    /\ writes < MaxWrites
    /\ writes' = writes + 1
    /\ kind # "memory"
    /\ call[u].pc = "idle"
    /\ \E k \in Keys :
         \E row \in {NoRow} \cup [value : Values,
                                  expire : {Never} \cup {now + ttl : ttl \in Ttls}] :
            call' = [call EXCEPT
                ![u].pc = IF kind = "sqlite" THEN "execute" ELSE "px",
                ![u].change = Just(k, row)]
    /\ unclear' = unclear \cup (DOMAIN call'[u].change \cap OthersWrite(u))
    /\ UNCHANGED <<setting, medium, open, lock, loadVars, kept>>

(* now = time.time(), or the start of the scan.                            *)
BeginLoad(u) ==
    /\ u \in Loaders
    /\ call[u].pc = "idle"
    /\ call' = [call EXCEPT
          ![u].pc = CASE kind = "sqlite" -> "select" [] kind = "redis" -> "scan"
                      [] OTHER -> "loaded",
          ![u].loads = TRUE, ![u].since = now]
    /\ steady' = [steady EXCEPT ![u] = Keys \ UNION {DOMAIN txn[c] : c \in Users}]
    /\ began' = [began EXCEPT ![u] = disk]
    /\ UNCHANGED <<setting, writes, medium, open, lock, kept, unclear>>

(* The rows are given to NimbusKV.__init__.                                *)
Return(u) ==
    /\ call[u].pc = "loaded"
    /\ Finish(u)
    /\ EndLoad(u)
    /\ UNCHANGED <<setting, writes, medium, open, lock, kept, unclear>>

-----------------------------------------------------------------------------
(* SQLite                                                                  *)

(* Another connection that has begun to write keeps this one from writing. *)
CanExecute(u) == conn[u] \in open /\ \A c \in Users \ {conn[u]} : txn[c] = None

Execute(u) ==
    /\ call[u].pc = "execute"
    /\ lock[conn[u]] = Free
    /\ CanExecute(u)
    /\ lock' = [lock EXCEPT ![conn[u]] = u]
    /\ txn' = [txn EXCEPT ![conn[u]] = After(call[u].change, @)]
    /\ Goto(u, "commit")
    /\ Touch(u, Written(u))
    /\ UNCHANGED <<setting, writes, disk, open, kept, unclear>>

(* "database is locked", or a connection that was closed.                  *)
ExecuteRaises(u) ==
    /\ call[u].pc = "execute"
    /\ lock[conn[u]] = Free
    /\ ~CanExecute(u)
    /\ Finish(u)
    /\ IF call[u].loads
       THEN EndLoad(u) /\ UNCHANGED <<kept, unclear>>
       ELSE Blur(u) /\ UNCHANGED loadVars
    /\ UNCHANGED <<setting, writes, medium, open, lock>>

(* The end of the `with` block.                                            *)
FaultyRelease(u, raised) == IF raised THEN lock ELSE [lock EXCEPT ![conn[u]] = Free]
Release(u, raised) == [lock EXCEPT ![conn[u]] = Free]

(* A purge takes back what others wrote since the rows were read: these    *)
(* keys are unclear from then on.                                          *)
Commit(u) ==
    /\ call[u].pc = "commit"
    /\ disk' = After(txn[conn[u]], disk)
    /\ txn' = [txn EXCEPT ![conn[u]] = None]
    /\ lock' = Release(u, FALSE)
    /\ IF call[u].loads
       THEN /\ Goto(u, "loaded")
            /\ unclear' = unclear \cup (Written(u) \ steady[u])
            /\ UNCHANGED kept
       ELSE /\ Finish(u)
            /\ Settle(u, call[u].change)
    /\ Touch(u, DOMAIN txn[conn[u]])
    /\ UNCHANGED <<setting, writes, open>>

(* The transaction stays open, for the next commit of the connection.      *)
CommitRaises(u) ==
    /\ call[u].pc = "commit"
    /\ lock' = Release(u, TRUE)
    /\ Finish(u)
    /\ Blur(u)
    /\ UNCHANGED <<setting, writes, medium, open, loadVars>>

(* A deadline is taken for past one too early; or from the moment on that  *)
(* it names.                                                               *)
FaultyExpired(row, time) ==
    row # NoRow /\ row.expire # Never /\ row.expire <= time + 1
Expired(row, time) == row # NoRow /\ row.expire # Never /\ row.expire <= time

(* The rows that load_all() returns, and those it deletes by their keys.   *)
Select(u) ==
    LET rows == After(txn[conn[u]], disk)
        dead == {k \in Keys : Expired(rows[k], call[u].since)}
        live == {k \in Keys : rows[k] # NoRow} \ dead IN
    /\ call[u].pc = "select"
    /\ lock[conn[u]] = Free
    /\ conn[u] \in open
    /\ call' = [call EXCEPT
          ![u].pc = IF dead = {} THEN "loaded" ELSE "execute",
          ![u].change = [k \in dead |-> NoRow],
          ![u].out = [k \in live |-> rows[k]]]
    /\ UNCHANGED <<setting, writes, medium, open, lock, auxVars>>

(* A connection that was closed, or any other sqlite3.Error.               *)
SelectRaises(u) ==
    /\ call[u].pc = "select"
    /\ lock[conn[u]] = Free
    /\ Finish(u)
    /\ EndLoad(u)
    /\ UNCHANGED <<setting, writes, medium, open, lock, kept, unclear>>

-----------------------------------------------------------------------------
(* Redis                                                                   *)

Present(k) == disk[k] # NoRow /\ (disk[k].expire = Never \/ now <= disk[k].expire)

(* The row of the one key a persist_set or persist_delete is about.        *)
Key(u) == CHOOSE k \in Written(u) : TRUE
NewRow(u) == call[u].change[Key(u)]
AtLeastOne(n) == IF n > 1 THEN n ELSE 1

(* ttl_ms = max(1, int((expire_at - time.time()) * 1000))                  *)
ComputePx(u) ==
    /\ call[u].pc = "px"
    /\ call' = [call EXCEPT
          ![u].pc = "send",
          ![u].px = IF NewRow(u) = NoRow \/ NewRow(u).expire = Never
                    THEN Never ELSE AtLeastOne(NewRow(u).expire - now)]
    /\ UNCHANGED <<setting, writes, medium, open, lock, auxVars>>

Sent(u) ==
    IF call[u].px = Never THEN NewRow(u)
                          ELSE [NewRow(u) EXCEPT !.expire = now + call[u].px]

Send(u) ==
    /\ call[u].pc = "send"
    /\ disk' = [disk EXCEPT ![Key(u)] = Sent(u)]
    /\ Finish(u)
    /\ Settle(u, Just(Key(u), Sent(u)))
    /\ Touch(u, Written(u))
    /\ UNCHANGED <<setting, writes, txn, open, lock>>

(* The connection is lost before or after the server did what it was asked.*)
SendRaises(u) ==
    /\ call[u].pc = "send"
    /\ disk' \in {disk, [disk EXCEPT ![Key(u)] = Sent(u)]}
    /\ Finish(u)
    /\ Blur(u)
    /\ Touch(u, Written(u))
    /\ UNCHANGED <<setting, writes, txn, open, lock>>

(* The next page of the scan, when the keys of the last have been got.     *)
Scan(u) ==
    /\ call[u].pc = "scan"
    /\ call[u].todo = {}
    /\ \E page \in SUBSET (Keys \ call[u].scanned) \ {{}} :
          call' = [call EXCEPT
              ![u].todo = {k \in page : Present(k)},
              ![u].scanned = @ \cup page]
    /\ UNCHANGED <<setting, writes, medium, open, lock, auxVars>>

Get(u) ==
    /\ call[u].pc = "scan"
    /\ \E k \in call[u].todo :
          call' = IF Present(k)
                  THEN [call EXCEPT ![u].pc = "pttl", ![u].todo = @ \ {k},
                                    ![u].key = k, ![u].got = disk[k]]
                  ELSE [call EXCEPT ![u].todo = @ \ {k}]
    /\ UNCHANGED <<setting, writes, medium, open, lock, auxVars>>

(* -2: no such key;  -1: no deadline.                                      *)
Pttl(u) ==
    /\ call[u].pc = "pttl"
    /\ LET k == call[u].key IN
       call' = [call EXCEPT
          ![u].pc = "append",
          ![u].pttl = CASE ~Present(k) -> -2
                        [] Present(k) /\ disk[k].expire = Never -> -1
                        [] OTHER -> disk[k].expire - now]
    /\ UNCHANGED <<setting, writes, medium, open, lock, auxVars>>

(* time.time() + pttl, if there is one and it is positive.                 *)
ExpireAt(pttl) == IF pttl > 0 THEN now + pttl ELSE Never

Append(u) ==
    /\ call[u].pc = "append"
    /\ call' = [call EXCEPT
          ![u].pc = "scan",
          ![u].out = Over(Just(call[u].key, [value |-> call[u].got.value,
                                             expire |-> ExpireAt(call[u].pttl)]), @),
          ![u].key = Never, ![u].got = NoRow, ![u].pttl = 0]
    /\ UNCHANGED <<setting, writes, medium, open, lock, auxVars>>

ScanEnds(u) ==
    /\ call[u].pc = "scan"
    /\ call[u].todo = {}
    /\ call[u].scanned = Keys
    /\ Goto(u, "loaded")
    /\ UNCHANGED <<setting, writes, medium, open, lock, auxVars>>

LoadRaises(u) ==
    /\ call[u].pc \in {"scan", "pttl"}
    /\ Finish(u)
    /\ EndLoad(u)
    /\ UNCHANGED <<setting, writes, medium, open, lock, kept, unclear>>

-----------------------------------------------------------------------------
(* close(), the end of a process, and time                                 *)

Close(c) ==
    /\ kind = "sqlite"
    /\ lock[c] = Free
    /\ c \in open
    /\ open' = open \ {c}
    /\ txn' = [txn EXCEPT ![c] = None]
    /\ UNCHANGED <<setting, writes, disk, lock, call, auxVars>>

(* The process of a backend object crashes and starts again: what was not  *)
(* committed is rolled back.                                               *)
UsersOf(c) == {u \in Users : conn[u] = c}
Restart(c) ==
    /\ open' = open \cup {c}
    /\ lock' = [lock EXCEPT ![c] = Free]
    /\ txn' = [txn EXCEPT ![c] = None]
    /\ call' = [u \in Users |-> IF u \in UsersOf(c) THEN NoCall ELSE call[u]]
    /\ unclear' = unclear \cup UNION {Written(u) : u \in UsersOf(c)}
    /\ UNCHANGED <<setting, writes, disk, loadVars, kept>>

Tick ==
    /\ now < MaxTime
    /\ now' = now + 1
    /\ UNCHANGED <<kind, conn, writes, medium, open, lock, call, auxVars>>

Statement(u) ==
    \/ Execute(u) \/ ExecuteRaises(u) \/ Commit(u) \/ CommitRaises(u)
    \/ Select(u) \/ SelectRaises(u)
    \/ ComputePx(u) \/ Send(u) \/ SendRaises(u)
    \/ Scan(u) \/ Get(u) \/ Pttl(u) \/ Append(u) \/ ScanEnds(u) \/ LoadRaises(u)
    \/ Return(u)

Next ==
    \/ \E u \in Users : BeginWrite(u) \/ BeginLoad(u) \/ Statement(u)
    \/ \E c \in Users : Close(c) \/ Restart(c)
    \/ Tick

Spec == Init /\ [][Next]_vars

-----------------------------------------------------------------------------
(* Properties                                                              *)

(* Every variable has its type; the lock of a backend is held exactly by   *)
(* the one user between a statement and its commit, whatever raises.       *)
TypeOK ==
    /\ kind \in {"memory", "sqlite", "redis"}
    /\ conn \in [Users -> Users]
    /\ now \in 0..MaxTime
    /\ disk \in [Keys -> Content]
    /\ open \subseteq Users
    /\ lock \in [Users -> Users \cup {Free}]
    /\ \A u \in Users :
          /\ IsChange(txn[u])
          /\ txn[u] # None => kind = "sqlite"
          /\ IsChange(call[u].change)
          /\ IsChange(call[u].out)
          /\ call[u].pc = "commit" <=> lock[conn[u]] = u

Lives(row, time) == row # NoRow /\ (row.expire = Never \/ row.expire > time)
Later(e, deadline) ==
    CASE deadline = Never -> e = Never
      [] deadline # Never /\ e = Never -> deadline <= now
      [] OTHER -> e >= deadline

(* A load, of the keys that nobody writes meanwhile.  From SQLite it gives *)
(* the rows there were when it began and that were not past their deadline *)
(* then, as they were, and exactly the others are deleted, although the    *)
(* rows are all read first and deleted later.  From Redis, whose keys are  *)
(* read one by one, it gives the value of each, with its deadline or a     *)
(* later one, or none if it comes meanwhile; leaves out only keys whose    *)
(* deadline has come; and changes nothing (load_all).                      *)
FoundInFile(u, k) ==
    LET row == began[u][k]
        lives == Lives(row, call[u].since) IN
    /\ k \in DOMAIN call[u].out <=> lives
    /\ lives => call[u].out[k] = row
    /\ disk[k] = IF lives THEN row ELSE NoRow
FoundInRedis(u, k) ==
    LET row == began[u][k] IN
    /\ disk[k] = row
    /\ IF k \in DOMAIN call[u].out
       THEN /\ row # NoRow
            /\ call[u].out[k].value = row.value
            /\ Later(call[u].out[k].expire, row.expire)
       ELSE ~Lives(row, now)
LoadIsExact ==
    \A u \in Users : call[u].pc = "loaded" =>
        \A k \in steady[u] :
            /\ kind = "sqlite" => FoundInFile(u, k)
            /\ kind = "redis" => FoundInRedis(u, k)

(* What a persist_set or persist_delete that returned made of a key stays  *)
(* committed until its deadline, through crashes, the purges of loads and  *)
(* the failures of other calls, also one whose transaction the connection  *)
(* still has open; after it a purge may have deleted it.  Set apart are    *)
(* keys whose last write raised or overlapped another one, and what a load *)
(* deletes for the row it has read although it was written again since:    *)
(* that write is lost, which no property denies (persistence.py, line 133).*)
WrittenIsKept ==
    \A k \in Keys \ unclear :
        disk[k] = kept[k] \/ (disk[k] = NoRow /\ ~Lives(kept[k], now))

-----------------------------------------------------------------------------
(* Statements of the documentation                                         *)

(* "NimbusKV never rehydrates dead keys" (persistence.py, lines 11-12), as *)
(* keys that will not die: what is loaded without a deadline has none.     *)
DeadlinesAreLoaded ==
    \A u \in Users : call[u].pc = "loaded" =>
        \A k \in steady[u] \cap DOMAIN call[u].out :
            call[u].out[k].expire = Never => disk[k].expire = Never
=============================================================================
