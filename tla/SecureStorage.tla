---------------------------- MODULE SecureStorage ----------------------------
(***************************************************************************)
(* The secure_storage example: commands that write, read and delete raw    *)
(* objects.  A write creates the object empty, overwriting the old one,    *)
(* and fills it by a second call.  The TA has an instance per session, and *)
(* what keeps two of them apart is the access the objects are opened with: *)
(* a reader shares with readers, the others with nobody.                   *)
(***************************************************************************)
EXTENDS Integers, FiniteSets

CONSTANTS Instances, Ids,
          MaxSize,   \* data is modelled by its size, 0 being empty
          MaxCrashes

(* What the theorems assume of the constants. *)
SizeAssumption == MaxSize \in Nat /\ MaxCrashes \in Nat

VARIABLES store,     \* the data of every object, or None
          inst,      \* the command of every instance
          acked,     \* history: data of the last command that succeeded, or None
          torn,      \* history: objects with an unsuccessful command since
          last,      \* the last answer to a read
          crashes

storageVars == <<store, inst, acked, torn, last, crashes>>

None == -1
Sizes == 1 .. MaxSize
IdleInstance == [pc |-> "idle", id |-> CHOOSE id \in Ids : TRUE, size |-> 0]
NoRead == [ok |-> FALSE, data |-> None, want |-> None, torn |-> FALSE, code |-> "none"]

StorageInit ==
  /\ store = [id \in Ids |-> None] /\ inst = [i \in Instances |-> IdleInstance]
  /\ acked = [id \in Ids |-> None] /\ torn = {} /\ last = NoRead /\ crashes = 0

Holders(id, pcs) == {i \in Instances : inst[i].pc \in pcs /\ inst[i].id = id}

(* Opened with SHARE_READ: conflicts with the handles of writers.          *)
MayRead(id) == Holders(id, {"write", "undo"}) = {}

(* Opened or created without a flag to share: conflicts with any handle.   *)
MayWrite(id) == Holders(id, {"write", "undo", "size", "read"}) = {}

Go(i, r) == inst' = [inst EXCEPT ![i] = r]

(* create_raw_object, PersistentObject::create.                            *)
CreateRawObject(i, id, size) ==
  /\ inst[i].pc = "idle" /\ MayWrite(id)
  /\ store' = [store EXCEPT ![id] = 0]
  /\ Go(i, [pc |-> "write", id |-> id, size |-> size])
  /\ UNCHANGED <<acked, torn, last, crashes>>

(* object.write: the object is closed, or there is an error to undo.       *)
WriteObject(i) ==
  /\ inst[i].pc = "write"
  /\ LET id == inst[i].id
     IN  \/ /\ store' = [store EXCEPT ![id] = inst[i].size]
            /\ acked' = [acked EXCEPT ![id] = inst[i].size]
            /\ torn' = torn \ {id}
            /\ Go(i, IdleInstance)
         \/ Go(i, [inst[i] EXCEPT !.pc = "undo"]) /\ UNCHANGED <<store, acked, torn>>
  /\ UNCHANGED <<last, crashes>>

(* close_and_delete after an error of the write; it may fail too.          *)
UndoWrite(i) ==
  /\ inst[i].pc = "undo"
  /\ LET id == inst[i].id
     IN  \/ /\ store' = [store EXCEPT ![id] = None]
            /\ acked' = [acked EXCEPT ![id] = None] /\ torn' = torn \ {id}
         \/ torn' = torn \union {id} /\ UNCHANGED <<store, acked>>
  /\ Go(i, IdleInstance)
  /\ UNCHANGED <<last, crashes>>

(* delete_object: open and close_and_delete.                               *)
DeleteObject(i, id) ==
  /\ inst[i].pc = "idle" /\ MayWrite(id) /\ store[id] # None
  /\ store' = [store EXCEPT ![id] = None]
  /\ acked' = [acked EXCEPT ![id] = None] /\ torn' = torn \ {id}
  /\ UNCHANGED <<inst, last, crashes>>

(* read_raw_object: open.                                                  *)
OpenRawObject(i, id, room) ==
  /\ inst[i].pc = "idle" /\ MayRead(id) /\ store[id] # None
  /\ Go(i, [pc |-> "size", id |-> id, size |-> room])
  /\ UNCHANGED <<store, acked, torn, last, crashes>>

Answer(id, ok, code) ==
  last' = [ok |-> ok, data |-> store[id], want |-> acked[id], torn |-> id \in torn, code |-> code]

(* object.info: ShortBuffer if the data does not fit; else its size is     *)
(* kept for comparison.                                                    *)
ReadSize(i) ==
  /\ inst[i].pc = "size"
  /\ LET id == inst[i].id
     IN  IF inst[i].size < store[id] THEN Answer(id, FALSE, "ShortBuffer") /\ Go(i, IdleInstance)
         ELSE Go(i, [pc |-> "read", id |-> id, size |-> store[id]]) /\ last' = last
  /\ UNCHANGED <<store, acked, torn, crashes>>

(* read_remaining_to_vec: ExcessData if the size is another one by now.    *)
ReadData(i) ==
  /\ inst[i].pc = "read"
  /\ LET same == store[inst[i].id] = inst[i].size
     IN  Answer(inst[i].id, same, IF same THEN "none" ELSE "ExcessData")
  /\ Go(i, IdleInstance)
  /\ UNCHANGED <<store, acked, torn, crashes>>

(* The instance dies: its handles are closed, and what was stored stays.   *)
Crash(i) ==
  /\ inst[i].pc # "idle" /\ crashes < MaxCrashes
  /\ crashes' = crashes + 1
  /\ torn' = IF inst[i].pc \in {"write", "undo"} THEN torn \union {inst[i].id} ELSE torn
  /\ Go(i, IdleInstance)
  /\ UNCHANGED <<store, acked, last>>

StorageNext ==
  \E i \in Instances :
    \/ \E id \in Ids, n \in Sizes : CreateRawObject(i, id, n) \/ OpenRawObject(i, id, n)
    \/ \E id \in Ids : DeleteObject(i, id)
    \/ WriteObject(i) \/ UndoWrite(i) \/ ReadSize(i) \/ ReadData(i) \/ Crash(i)

StorageSpec == StorageInit /\ [][StorageNext]_storageVars

(* A read that succeeds returns the data of the last write that did, and   *)
(* never the empty object of a write in progress; only after a write that  *)
(* was cut short may it return an empty object instead.                    *)
ReadIsLastWrite == last.ok => last.data = last.want \/ (last.torn /\ last.data = 0)

(* The size read_raw_object checks the buffer against is still the size    *)
(* when it reads the data: ExcessData is never returned.                   *)
SizeStable == last.code # "ExcessData"

(* A write that fails leaves no object behind unless its cleaning up       *)
(* failed as well: an empty object nobody works on is a torn one.          *)
EmptyIsTorn == \A id \in Ids : store[id] = 0 /\ MayWrite(id) => id \in torn
=============================================================================
