------------------------------ MODULE SecureDb ------------------------------
(***************************************************************************)
(* crates/secure_db: a key-value store kept by a TA in OP-TEE's trusted    *)
(* storage.  Every entry is a persistent object of its own; one more       *)
(* object, named after the database, holds the list of keys.  A put or a   *)
(* delete is therefore two writes, either of which can fail, with a        *)
(* possible crash in between, and every client works on the copy of the    *)
(* key list it read when it was opened.                                    *)
(***************************************************************************)
EXTENDS Naturals, FiniteSets

CONSTANTS
  Tables,      \* the Storable types, by the table name they store under
  Ids,         \* the unique ids of their values
  NamePrefix,  \* <<p, t>> : the name of table t starts with the name of p
  Values,      \* serialized values
  Absent,      \* no such object
  Clients,     \* SecureStorageClient values, over all TA instances
  Shared       \* may two clients of the database be open at a time?

ASSUME AbsentAssumption == Absent \notin Values

ASSUME NonEmptyAssumption == Tables # {} /\ Ids # {}

ASSUME PrefixAssumption ==
  /\ NamePrefix \subseteq Tables \X Tables
  /\ \A t \in Tables : <<t, t>> \in NamePrefix

ASSUME SharedAssumption == Shared \in BOOLEAN

(* The storage key "$TABLE_NAME#$KEY": a table name is a Rust identifier   *)
(* and holds no "#", so the pair determines the string and conversely.     *)
Keys == Tables \X Ids

Answers == Values \cup {Absent}

(* str::starts_with(V::table_name()): the prefix has no "#" at its end. *)
StartsWith(k, t) == <<t, k[1]>> \in NamePrefix

VARIABLES
  objects,    \* trusted storage: the object of every key
  listObject, \* trusted storage: the object named after the database; a
              \* missing one is opened as an empty list, so it is {} here
  opened,     \* clients whose SecureStorageDb exists
  key_list,   \* SecureStorageDb::key_list of every client
  pc,         \* where the client's current call is
  arg,        \* key and value of that call
  todo,       \* clear(): what is left of the cloned key list
  reply,      \* what the client's last call returned
  permitted,  \* history: answers a read of the key may give
  cut         \* history: keys whose delete stopped between its two writes

stored == <<objects, listObject>>
history == <<permitted, cut>>
vars == <<objects, listObject, opened, key_list, pc, arg, todo, reply,
          permitted, cut>>

NoReply == [op |-> "none"]
Ok == [op |-> "ok"]
Err == [op |-> "err"]
NoArg == [key |-> CHOOSE k \in Keys : TRUE, value |-> Absent]

Init ==
  /\ objects = [k \in Keys |-> Absent]
  /\ listObject = {}
  /\ opened = {}
  /\ key_list = [c \in Clients |-> {}]
  /\ pc = [c \in Clients |-> "idle"]
  /\ arg = [c \in Clients |-> NoArg]
  /\ todo = [c \in Clients |-> {}]
  /\ reply = [c \in Clients |-> NoReply]
  /\ permitted = [k \in Keys |-> {Absent}]
  /\ cut = {}

(* The client has no call in progress; &mut self admits one at a time. *)
Idle(c) == c \in opened /\ pc[c] = "idle"

(* The call returns r; its locals are gone. *)
Return(c, r) ==
  /\ pc' = [pc EXCEPT ![c] = "idle"]
  /\ arg' = [arg EXCEPT ![c] = NoArg]
  /\ todo' = [todo EXCEPT ![c] = {}]
  /\ reply' = [reply EXCEPT ![c] = r]

(* The call goes on, at another step, about key k and value x. *)
Proceed(c, step, k, x) ==
  /\ pc' = [pc EXCEPT ![c] = step]
  /\ arg' = [arg EXCEPT ![c] = [key |-> k, value |-> x]]
  /\ reply' = [reply EXCEPT ![c] = NoReply]

-----------------------------------------------------------------------------
(* SecureStorageClient::open and SecureStorageDb::open. *)

OpenOk(c) ==
  /\ c \notin opened
  /\ Shared \/ opened = {}
  /\ opened' = opened \cup {c}
  /\ key_list' = [key_list EXCEPT ![c] = listObject]
  /\ Return(c, Ok)
  /\ UNCHANGED <<stored, history>>

OpenErr(c) ==
  /\ c \notin opened
  /\ Return(c, Err)
  /\ UNCHANGED <<stored, opened, key_list, history>>

Open(c) == OpenOk(c) \/ OpenErr(c)

Forget(c) ==
  /\ opened' = opened \ {c}
  /\ key_list' = [key_list EXCEPT ![c] = {}]
  /\ Return(c, NoReply)

(* The client value goes out of scope.  Nothing is written. *)
Drop(c) ==
  /\ Idle(c)
  /\ Forget(c)
  /\ UNCHANGED <<stored, history>>

(* The TA panics, is killed, or the machine stops: memory is lost. *)
Crash(c) ==
  /\ c \in opened
  /\ Forget(c)
  /\ cut' = IF pc[c] \in {"delete_list", "clear_list"}
            THEN cut \cup {arg[c].key} ELSE cut
  /\ UNCHANGED <<stored, permitted>>

-----------------------------------------------------------------------------
(* put: save_in_secure_storage(key, value)?; key_list.insert(key);         *)
(* store_key_list().  Creating an object with OVERWRITE replaces it        *)
(* atomically or leaves it as it was.                                      *)

PutSave(c, k, v) ==
  /\ Idle(c)
  /\ \/ /\ objects' = [objects EXCEPT ![k] = v]
        /\ permitted' = [permitted EXCEPT ![k] = @ \cup {v}]
        /\ Proceed(c, "put_list", k, v)
        /\ UNCHANGED todo
     \/ /\ Return(c, Err)
        /\ UNCHANGED <<objects, permitted>>
  /\ UNCHANGED <<listObject, opened, key_list, cut>>

(* Mutant: only what the call has added to the list is stored. *)
StoreKeyListDelta(c, list) ==
  /\ key_list' = [key_list EXCEPT ![c] = list]
  /\ listObject' = list \ key_list[c]

(* store_key_list() with the list the call has just changed in memory; a   *)
(* failure leaves memory ahead of storage.                                 *)
StoreKeyList(c, list) ==
  /\ key_list' = [key_list EXCEPT ![c] = list]
  /\ listObject' = list

StoreKeyListFails(c, list) ==
  /\ key_list' = [key_list EXCEPT ![c] = list]
  /\ UNCHANGED listObject

(* Mutant: the list is stored before the key is inserted. *)
PutListStale(c) ==
  LET k == arg[c].key
  IN /\ pc[c] = "put_list"
     /\ listObject' = key_list[c]
     /\ key_list' = [key_list EXCEPT ![c] = @ \cup {k}]
     /\ permitted' = [permitted EXCEPT ![k] = {arg[c].value}]
     /\ cut' = cut \ {k}
     /\ Return(c, Ok)
     /\ UNCHANGED <<objects, opened>>

PutList(c) ==
  LET k == arg[c].key
      list == key_list[c] \cup {k}
  IN /\ pc[c] = "put_list"
     /\ \/ /\ StoreKeyList(c, list)
           /\ permitted' = [permitted EXCEPT ![k] = {arg[c].value}]
           /\ cut' = cut \ {k}
           /\ Return(c, Ok)
        \/ /\ StoreKeyListFails(c, list)
           /\ Return(c, Err)
           /\ UNCHANGED history
     /\ UNCHANGED <<objects, opened>>

Put(c) == PutList(c) \/ \E k \in Keys, v \in Values : PutSave(c, k, v)

-----------------------------------------------------------------------------
(* delete: ensure!(key_list.contains(key)); delete_from_secure_storage:    *)
(* open (fails when there is no object) and close_and_delete;              *)
(* key_list.remove(key); store_key_list().  clear() calls it in a loop.    *)

RemoveObject(c, k, step, rest) ==
  \/ /\ objects[k] # Absent
     /\ objects' = [objects EXCEPT ![k] = Absent]
     /\ permitted' = [permitted EXCEPT ![k] = @ \cup {Absent}]
     /\ todo' = [todo EXCEPT ![c] = rest]
     /\ Proceed(c, step, k, Absent)
  \/ /\ Return(c, Err)
     /\ UNCHANGED <<objects, permitted>>

DeleteObject(c, k) ==
  /\ Idle(c)
  /\ \/ /\ k \in key_list[c]
        /\ RemoveObject(c, k, "delete_list", {})
     \/ /\ k \notin key_list[c]
        /\ Return(c, Err)
        /\ UNCHANGED <<objects, permitted>>
  /\ UNCHANGED <<listObject, opened, key_list, cut>>

(* Mutant: the deleted key stays in the list. *)
ListRemovedKeeps(c) ==
  LET k == arg[c].key
  IN /\ StoreKeyList(c, key_list[c])
     /\ permitted' = [permitted EXCEPT ![k] = {Absent}]
     /\ cut' = cut \ {k}

ListRemoved(c) ==
  LET k == arg[c].key
  IN /\ StoreKeyList(c, key_list[c] \ {k})
     /\ permitted' = [permitted EXCEPT ![k] = {Absent}]
     /\ cut' = cut \ {k}

ListRemovedFails(c) ==
  LET k == arg[c].key
  IN /\ StoreKeyListFails(c, key_list[c] \ {k})
     /\ cut' = cut \cup {k}
     /\ Return(c, Err)
     /\ UNCHANGED permitted

DeleteList(c) ==
  /\ pc[c] = "delete_list"
  /\ \/ ListRemoved(c) /\ Return(c, Ok)
     \/ ListRemovedFails(c)
  /\ UNCHANGED <<objects, opened>>

Delete(c) == DeleteList(c) \/ \E k \in Keys : DeleteObject(c, k)

-----------------------------------------------------------------------------
(* clear: for key in self.key_list.clone() { self.delete(&key)? } *)

ClearStart(c) ==
  /\ Idle(c)
  /\ todo' = [todo EXCEPT ![c] = key_list[c]]
  /\ Proceed(c, "clear", NoArg.key, NoArg.value)
  /\ UNCHANGED <<stored, opened, key_list, history>>

ClearObject(c) ==
  /\ pc[c] = "clear"
  /\ \E k \in todo[c] : RemoveObject(c, k, "clear_list", todo[c] \ {k})
  /\ UNCHANGED <<listObject, opened, key_list, cut>>

ClearList(c) ==
  /\ pc[c] = "clear_list"
  /\ \/ /\ ListRemoved(c)
        /\ Proceed(c, "clear", NoArg.key, NoArg.value)
        /\ UNCHANGED todo
     \/ ListRemovedFails(c)
  /\ UNCHANGED <<objects, opened>>

ClearDone(c) ==
  /\ pc[c] = "clear"
  /\ todo[c] = {}
  /\ permitted' = [k \in Keys |-> {Absent}]
  /\ Return(c, Ok)
  /\ UNCHANGED <<stored, opened, key_list, cut>>

Clear(c) == ClearStart(c) \/ ClearObject(c) \/ ClearList(c) \/ ClearDone(c)

-----------------------------------------------------------------------------
(* get and list_entries only read.  Found is what SecureStorageDb::get     *)
(* answers through a key list when the storage does not fail: Absent       *)
(* stands for "Key not found in key list" and for "object not found".      *)

(* Mutant: the object is loaded without looking at the key list. *)
FoundUnlisted(list, k) == objects[k]

Found(list, k) == IF k \in list THEN objects[k] ELSE Absent

Get(c, k) ==
  /\ Idle(c)
  /\ \/ Return(c, [op |-> "get", key |-> k, value |-> Found(key_list[c], k)])
     \/ Return(c, Err)
  /\ UNCHANGED <<stored, opened, key_list, history>>

(* list_entries_with_prefix *)
Listed(c, t) == {k \in key_list[c] : StartsWith(k, t)}

(* The listing stops at the first key that get() fails on. *)
ListSucceeds(c, t) == \A k \in Listed(c, t) : objects[k] # Absent

(* The result maps the unique id of a value to the value, which is known   *)
(* here by the key it was stored under; of two values with the same id the *)
(* last one inserted stays, in the order of the hash map.                  *)
ListEntries(c, t) ==
  /\ Idle(c)
  /\ \/ /\ ListSucceeds(c, t)
        /\ \E from \in [{k[2] : k \in Listed(c, t)} -> Listed(c, t)] :
             /\ \A i \in DOMAIN from : from[i][2] = i
             /\ Return(c, [op |-> "list", table |-> t,
                           entries |-> [i \in DOMAIN from |->
                             [key |-> from[i], value |-> objects[from[i]]]]])
     \/ Return(c, Err)
  /\ UNCHANGED <<stored, opened, key_list, history>>

-----------------------------------------------------------------------------
Next ==
  \E c \in Clients :
    \/ Open(c) \/ Drop(c) \/ Crash(c)
    \/ Put(c) \/ Delete(c) \/ Clear(c)
    \/ \E k \in Keys : Get(c, k)
    \/ \E t \in Tables : ListEntries(c, t)

Spec == Init /\ [][Next]_vars

-----------------------------------------------------------------------------
Replies ==
  {NoReply, Ok, Err}
  \cup [op : {"get"}, key : Keys, value : Answers]
  \cup UNION {[op : {"list"}, table : Tables,
                entries : [S -> [key : Keys, value : Values]]]
                : S \in SUBSET Ids}

(* Type invariant of the storage, the clients and the history. *)
TypeOK ==
  /\ objects \in [Keys -> Answers]
  /\ listObject \in SUBSET Keys
  /\ opened \in SUBSET Clients
  /\ key_list \in [Clients -> SUBSET Keys]
  /\ pc \in [Clients -> {"idle", "put_list", "delete_list",
                         "clear", "clear_list"}]
  /\ arg \in [Clients -> [key : Keys, value : Answers]]
  /\ todo \in [Clients -> SUBSET Keys]
  /\ reply \in [Clients -> Replies]
  /\ permitted \in [Keys -> SUBSET Answers]
  /\ cut \in SUBSET Keys

(* What a client opened now would read. *)
Visible(k) == Found(listObject, k)

(* put and delete write the object and then the list; whatever step fails  *)
(* or is cut off by a crash, a client opened now and every open client     *)
(* read, for every key, the effect of its last acknowledged call or of a   *)
(* later unacknowledged one: an acknowledged put is never lost, an         *)
(* acknowledged delete or clear never undone, no other value ever appears. *)
AckedDurable ==
  \A k \in Keys :
    /\ Visible(k) \in permitted[k]
    /\ \A c \in opened : Found(key_list[c], k) \in permitted[k]

(* An entry whose last call is an acknowledged put can be found.           *)
(* SecureStorageDb is "a key-value storage for TA to easily store and      *)
(* retrieve data".                                                         *)
AckedPutVisible ==
  \A k \in Keys : Absent \notin permitted[k] => Visible(k) # Absent

(* The answers of get() and of list_entries() are permitted ones, and a    *)
(* listing that succeeds leaves out no entry that must exist.              *)
ReadsPermitted ==
  \A c \in Clients :
    /\ reply[c].op = "get" => reply[c].value \in permitted[reply[c].key]
    /\ reply[c].op = "list" =>
         \A i \in Ids :
           LET k == <<reply[c].table, i>>
           IN IF i \in DOMAIN reply[c].entries
              THEN /\ reply[c].entries[i].key = k
                   /\ reply[c].entries[i].value \in permitted[k]
              ELSE Absent \in permitted[k]

(* list_entries() fails as a whole when a listed key has no object.  Only  *)
(* a delete that stopped between removing the object and storing the list  *)
(* (a crash, or store_key_list() failing) leaves such a key behind: puts,  *)
(* in whatever way they fail, never do.                                    *)
DanglingIsCut ==
  \A k \in listObject :
    objects[k] = Absent =>
      \/ k \in cut
      \/ \E c \in opened : /\ pc[c] \in {"delete_list", "clear_list"}
                          /\ arg[c].key = k

(* The store implements the key-value store its users see: what is read    *)
(* changes only by calls, and acknowledged calls are final.                *)
KV == INSTANCE KeyValueStore WITH dict <- [k \in Keys |-> Visible(k)]
ImplementsKeyValueStore == KV!Spec
=============================================================================
