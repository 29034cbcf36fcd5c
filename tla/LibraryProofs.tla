---------------------------- MODULE LibraryProofs ---------------------------
(***************************************************************************)
(* Proofs about the libraries of a TA: the table store secure_db           *)
(* (SecureDb), for any tables, ids, values and clients, and the operations *)
(* of optee-utee (CryptoOps), for any places, cells, algorithms, keys and  *)
(* data.                                                                   *)
(***************************************************************************)
EXTENDS SecureDb, CryptoOps, FiniteSetTheorems, TLAPS

-----------------------------------------------------------------------------
(* SecureDb. *)

(* The locals of no call have their type. *)
LEMMA NoArgType == NoArg \in [key : Keys, value : Answers]
<1>0. PICK t \in Tables, i \in Ids : TRUE  BY NonEmptyAssumption
<1>1. <<t, i>> \in Keys  BY <1>0 DEF Keys
<1>2. (CHOOSE k \in Keys : TRUE) \in Keys  BY <1>1
<1> QED  BY <1>2 DEF NoArg, Answers

(* A listing as ListEntries builds it is a reply. *)
LEMMA ListReplyType ==
  ASSUME TypeOK, NEW c \in Clients, NEW t \in Tables, ListSucceeds(c, t),
         NEW from \in [{k[2] : k \in Listed(c, t)} -> Listed(c, t)]
  PROVE  [op |-> "list", table |-> t,
          entries |-> [i \in DOMAIN from |->
            [key |-> from[i], value |-> objects[from[i]]]]] \in Replies
<1> DEFINE S == {k[2] : k \in Listed(c, t)}
           E == [i \in DOMAIN from |->
                  [key |-> from[i], value |-> objects[from[i]]]]
<1>1. Listed(c, t) \subseteq Keys  BY DEF Listed, TypeOK
<1>2. S \in SUBSET Ids  BY <1>1 DEF Keys
<1>3. \A i \in S : from[i] \in Keys /\ objects[from[i]] \in Values
  BY <1>1 DEF ListSucceeds, TypeOK, Answers
<1>4. E \in [S -> [key : Keys, value : Values]]  BY <1>3
<1>5. [op |-> "list", table |-> t, entries |-> E]
        \in [op : {"list"}, table : Tables,
             entries : [S -> [key : Keys, value : Values]]]
  BY <1>4
<1> QED  BY <1>2, <1>5, Zenon DEF Replies

(* The other replies. *)
LEMMA SimpleReplies ==
  /\ NoReply \in Replies /\ Ok \in Replies /\ Err \in Replies
  /\ \A k \in Keys, x \in Answers :
       [op |-> "get", key |-> k, value |-> x] \in Replies
BY DEF Replies

(* The type of a call's locals and reply. *)
CallType ==
  /\ pc \in [Clients -> {"idle", "put_list", "delete_list",
                         "clear", "clear_list"}]
  /\ arg \in [Clients -> [key : Keys, value : Answers]]
  /\ todo \in [Clients -> SUBSET Keys]
  /\ reply \in [Clients -> Replies]

(* ... and of all the rest. *)
DataType ==
  /\ objects \in [Keys -> Answers]
  /\ listObject \in SUBSET Keys
  /\ opened \in SUBSET Clients
  /\ key_list \in [Clients -> SUBSET Keys]
  /\ permitted \in [Keys -> SUBSET Answers]
  /\ cut \in SUBSET Keys

(* The two halves are the type invariant. *)
LEMMA TypeSplit == TypeOK <=> CallType /\ DataType
BY DEF TypeOK, CallType, DataType

(* A call that returns keeps the types of the locals, *)
LEMMA ReturnType ==
  ASSUME CallType, NEW c \in Clients, NEW r \in Replies, Return(c, r)
  PROVE  CallType'
BY NoArgType DEF CallType, Return

(* and so does one that goes on. *)
LEMMA ProceedType ==
  ASSUME CallType, NEW c \in Clients, NEW k \in Keys, NEW x \in Answers,
         NEW step \in {"put_list", "delete_list", "clear", "clear_list"},
         Proceed(c, step, k, x),
         todo' \in [Clients -> SUBSET Keys]
  PROVE  CallType'
<1>1. NoReply \in Replies  BY SimpleReplies
<1> QED  BY <1>1, Zenon DEF CallType, Proceed

(* Every variable keeps its type, whatever clients share the database. *)
THEOREM TypeCorrect == Spec => []TypeOK
<1>1. Init => TypeOK
  BY NoArgType, SimpleReplies DEF Init, TypeOK, Answers
<1>2. TypeOK /\ [Next]_vars => TypeOK'
  <2> SUFFICES ASSUME CallType, DataType, TypeOK, [Next]_vars
               PROVE  CallType' /\ DataType'
    <3>1. TypeOK' <=> CallType' /\ DataType'
      BY DEF TypeOK, CallType, DataType
    <3> QED  BY <3>1, TypeSplit
  <2>1. ASSUME NEW c \in Clients, Open(c)  PROVE CallType' /\ DataType'
    <3>1. CallType'
      BY <2>1, ReturnType, SimpleReplies DEF Open, OpenOk, OpenErr
    <3> QED  BY <2>1, <3>1 DEF DataType, Open, OpenOk, OpenErr, stored, history
  <2>2. ASSUME NEW c \in Clients, Drop(c) \/ Crash(c)
        PROVE  CallType' /\ DataType'
    <3>1. CallType'
      BY <2>2, ReturnType, SimpleReplies DEF Drop, Crash, Forget
    <3>2. arg[c].key \in Keys  BY DEF CallType
    <3> QED
      BY <2>2, <3>1, <3>2 DEF DataType, Drop, Crash, Forget, stored, history
  <2>3. ASSUME NEW c \in Clients, PutList(c)  PROVE CallType' /\ DataType'
    <3>1. CallType'
      BY <2>3, ReturnType, SimpleReplies DEF PutList
    <3>2. arg[c].key \in Keys /\ arg[c].value \in Answers  BY DEF CallType
    <3> QED
      BY <2>3, <3>1, <3>2
         DEF DataType, PutList, StoreKeyList, StoreKeyListFails, history
  <2>4. ASSUME NEW c \in Clients, NEW k \in Keys, NEW v \in Values,
               PutSave(c, k, v)
        PROVE  CallType' /\ DataType'
    <3>1. v \in Answers  BY DEF Answers
    <3>2. CASE Return(c, Err) /\ UNCHANGED <<objects, permitted>>
      <4>1. CallType'  BY <3>2, ReturnType, SimpleReplies
      <4> QED  BY <2>4, <3>2, <4>1 DEF DataType, PutSave
    <3>3. CASE /\ objects' = [objects EXCEPT ![k] = v]
               /\ permitted' = [permitted EXCEPT ![k] = @ \cup {v}]
               /\ Proceed(c, "put_list", k, v)
               /\ UNCHANGED todo
      <4>1. CallType'
        BY <3>1, <3>3, ProceedType DEF CallType
      <4> QED  BY <2>4, <3>1, <3>3, <4>1 DEF DataType, PutSave
    <3> QED  BY <2>4, <3>2, <3>3 DEF PutSave
  <2>5. ASSUME NEW c \in Clients, NEW k \in Keys,
               NEW step \in {"delete_list", "clear_list"},
               NEW rest \in SUBSET Keys, RemoveObject(c, k, step, rest),
               UNCHANGED <<listObject, opened, key_list, cut>>
        PROVE  CallType' /\ DataType'
    <3>1. Absent \in Answers  BY DEF Answers
    <3>2. Return(c, Err) => CallType'
      BY ReturnType, SimpleReplies
    <3>3. ASSUME todo' = [todo EXCEPT ![c] = rest],
                 Proceed(c, step, k, Absent)
          PROVE  CallType'
      <4>1. todo' \in [Clients -> SUBSET Keys]  BY <3>3 DEF CallType
      <4> QED  BY <3>1, <3>3, <4>1, ProceedType
    <3>4. CallType'  BY <2>5, <3>2, <3>3 DEF RemoveObject
    <3> QED  BY <2>5, <3>1, <3>4 DEF DataType, RemoveObject
  <2>6. ASSUME NEW c \in Clients, NEW k \in Keys, DeleteObject(c, k)
        PROVE  CallType' /\ DataType'
    <3>1. CASE RemoveObject(c, k, "delete_list", {})
      BY <2>6, <3>1, <2>5 DEF DeleteObject
    <3>2. CASE Return(c, Err) /\ UNCHANGED <<objects, permitted>>
      <4>1. CallType'  BY <3>2, ReturnType, SimpleReplies
      <4> QED  BY <2>6, <3>2, <4>1 DEF DataType, DeleteObject
    <3> QED  BY <2>6, <3>1, <3>2 DEF DeleteObject
  <2>7. ASSUME NEW c \in Clients, DeleteList(c) \/ ClearList(c)
        PROVE  CallType' /\ DataType'
    <3>1. arg[c].key \in Keys  BY DEF CallType
    <3>2. DataType'
      BY <2>7, <3>1
         DEF DataType, DeleteList, ClearList, ListRemoved, ListRemovedFails,
           StoreKeyList, StoreKeyListFails, Answers
    <3>3. NoArg.key \in Keys /\ NoArg.value \in Answers  BY NoArgType
    <3>4. CallType'
      BY <2>7, <3>3, ReturnType, ProceedType, SimpleReplies, Zenon
         DEF DeleteList, ClearList, ListRemovedFails, CallType
    <3> QED  BY <3>2, <3>4
  <2>8. ASSUME NEW c \in Clients, ClearStart(c)
        PROVE  CallType' /\ DataType'
    <3>1. NoArg.key \in Keys /\ NoArg.value \in Answers  BY NoArgType
    <3>2. todo' \in [Clients -> SUBSET Keys]
      BY <2>8 DEF ClearStart, CallType, DataType
    <3>3. CallType'  BY <2>8, <3>1, <3>2, ProceedType DEF ClearStart
    <3> QED  BY <2>8, <3>3 DEF DataType, ClearStart, stored, history
  <2>9. ASSUME NEW c \in Clients, ClearObject(c)
        PROVE  CallType' /\ DataType'
    <3>1. PICK k \in todo[c] :
            RemoveObject(c, k, "clear_list", todo[c] \ {k})
      BY <2>9 DEF ClearObject
    <3>2. k \in Keys /\ todo[c] \ {k} \in SUBSET Keys  BY DEF CallType
    <3> QED  BY <2>5, <2>9, <3>1, <3>2 DEF ClearObject
  <2>10. ASSUME NEW c \in Clients, ClearDone(c)
         PROVE  CallType' /\ DataType'
    <3>1. CallType'  BY <2>10, ReturnType, SimpleReplies DEF ClearDone
    <3> QED  BY <2>10, <3>1 DEF DataType, ClearDone, Answers, stored
  <2>11. ASSUME NEW c \in Clients, NEW k \in Keys, Get(c, k)
         PROVE  CallType' /\ DataType'
    <3>1. Found(key_list[c], k) \in Answers
      BY DEF Found, DataType, Answers
    <3>2. CallType'  BY <2>11, <3>1, ReturnType, SimpleReplies, Zenon DEF Get
    <3> QED  BY <2>11, <3>2 DEF DataType, Get, stored, history
  <2>12. ASSUME NEW c \in Clients, NEW t \in Tables, ListEntries(c, t)
         PROVE  CallType' /\ DataType'
    <3>1. CallType'
      <4>1. CASE Return(c, Err)
        BY <2>12, <4>1, ReturnType, SimpleReplies, Zenon DEF ListEntries
      <4>2. CASE ~Return(c, Err)
        <5>1. ListSucceeds(c, t)
          BY <2>12, <4>2, Zenon DEF ListEntries
        <5>2. PICK from \in [{k[2] : k \in Listed(c, t)} -> Listed(c, t)] :
                Return(c, [op |-> "list", table |-> t,
                           entries |-> [i \in DOMAIN from |->
                             [key |-> from[i], value |-> objects[from[i]]]]])
          BY <2>12, <4>2, Zenon DEF ListEntries
        <5>3. PICK answer \in Replies : Return(c, answer)
          BY <5>1, <5>2, ListReplyType, Zenon
        <5> QED  BY <5>3, ReturnType, Zenon
      <4> QED  BY <4>1, <4>2
    <3> QED  BY <2>12, <3>1, Zenon DEF DataType, ListEntries, stored, history
  <2>13. CASE UNCHANGED vars
    BY <2>13 DEF CallType, DataType, vars
  <2> QED
    BY <2>1, <2>2, <2>3, <2>4, <2>6, <2>7, <2>8, <2>9, <2>10, <2>11, <2>12,
       <2>13
       DEF Next, Put, Delete, Clear
<1> QED  BY <1>1, <1>2, PTL DEF Spec

-----------------------------------------------------------------------------
(* The strengthening behind AckedDurable and DanglingIsCut, for one client *)
(* open at a time.  A key may be listed in storage, in the client's        *)
(* memory, in both or in neither; what each case says about its object is  *)
(* what makes either list safe to read, and safe to overwrite with the     *)
(* other.                                                                  *)

OneOpen ==
  /\ \A c, d \in opened : c = d
  /\ \A c \in Clients \ opened : pc[c] = "idle"

Listing(k) == k \in listObject \/ \E c \in opened : k \in key_list[c]

(* The object of a key that some list names has a permitted value ... *)
ListedPermitted == \A k \in Keys : Listing(k) => objects[k] \in permitted[k]

(* ... and a key that one of the lists lacks may be absent. *)
UnlistedOptional ==
  \A k \in Keys :
    /\ k \notin listObject => Absent \in permitted[k]
    /\ \A c \in opened : k \notin key_list[c] => Absent \in permitted[k]

(* Between its two writes a put has stored its value, a delete none. *)
BetweenWrites ==
  \A c \in opened :
    pc[c] \in {"put_list", "delete_list", "clear_list"} =>
      /\ objects[arg[c].key] = arg[c].value
      /\ arg[c].value \in permitted[arg[c].key]
      /\ pc[c] = "put_list" <=> arg[c].value # Absent

(* A key listed in storage only has lost its object, unless it is being    *)
(* put again.                                                              *)
StoredOnly ==
  \A c \in opened : \A k \in listObject \ key_list[c] :
    objects[k] # Absent => pc[c] = "put_list" /\ arg[c].key = k

(* clear() still has to visit exactly the keys of the list. *)
ClearLeft ==
  \A c \in opened :
    /\ pc[c] = "clear" => todo[c] = key_list[c]
    /\ pc[c] = "clear_list" => todo[c] = key_list[c] \ {arg[c].key}

Dangling ==
  \A k \in Keys :
    Listing(k) /\ objects[k] = Absent =>
      \/ k \in cut
      \/ \E c \in opened : /\ pc[c] \in {"delete_list", "clear_list"}
                          /\ arg[c].key = k

IInv == /\ OneOpen /\ ListedPermitted /\ UnlistedOptional /\ BetweenWrites
        /\ StoredOnly /\ ClearLeft /\ Dangling

(* A step that only reads, or that only returns, changes nothing of it. *)
LEMMA ReturnKeeps ==
  ASSUME TypeOK, IInv, NEW c \in Clients, NEW r, Return(c, r),
         pc[c] \in {"idle", "clear"},
         UNCHANGED <<objects, listObject, opened, key_list, permitted, cut>>
  PROVE  IInv'
BY DEF IInv, TypeOK, OneOpen, ListedPermitted, UnlistedOptional, BetweenWrites,
   StoredOnly, ClearLeft, Dangling, Listing, Return

(* The object of a listed key is deleted, for delete() or for clear(). *)
LEMMA RemoveObjectKeeps ==
  ASSUME TypeOK, IInv, NEW c \in opened, NEW k \in key_list[c],
         pc[c] \in {"idle", "clear"},
         NEW step \in {"delete_list", "clear_list"},
         NEW rest \in SUBSET Keys,
         step = "clear_list" => rest = key_list[c] \ {k},
         RemoveObject(c, k, step, rest),
         UNCHANGED <<listObject, opened, key_list, cut>>
  PROVE  IInv'
<1>1. CASE Return(c, Err) /\ UNCHANGED <<objects, permitted>>
  BY <1>1, ReturnKeeps, Zenon DEF TypeOK
<1>2. CASE /\ objects' = [objects EXCEPT ![k] = Absent]
           /\ permitted' = [permitted EXCEPT ![k] = @ \cup {Absent}]
           /\ todo' = [todo EXCEPT ![c] = rest]
           /\ Proceed(c, step, k, Absent)
  <2>0. opened = {c} /\ k \in Keys  BY DEF IInv, OneOpen, TypeOK
  <2> USE <1>2, <2>0 DEF IInv, TypeOK, Proceed
  <2>1. OneOpen'  BY DEF OneOpen
  <2>2. ListedPermitted'
    BY Zenon DEF ListedPermitted, Listing
  <2>3. UnlistedOptional'  BY Zenon DEF UnlistedOptional
  <2>4. BetweenWrites'  BY DEF BetweenWrites
  <2>5. StoredOnly'  BY DEF StoredOnly
  <2>6. ClearLeft'  BY Zenon DEF ClearLeft
  <2>7. Dangling'  BY Zenon DEF Dangling, Listing
  <2> QED  BY <2>1, <2>2, <2>3, <2>4, <2>5, <2>6, <2>7, Zenon
<1> QED  BY <1>1, <1>2, Zenon DEF RemoveObject

(* Every step preserves the strengthening. *)
LEMMA InductiveStep ==
  ASSUME Shared = FALSE, TypeOK, IInv, [Next]_vars
  PROVE  IInv'
<1>0. ASSUME NEW c \in Clients, c \in opened \/ pc[c] # "idle"
      PROVE  opened = {c}
  BY <1>0 DEF IInv, OneOpen
<1>1. ASSUME NEW c \in Clients, Open(c)  PROVE IInv'
  <2>1. CASE OpenErr(c)
    BY <2>1, ReturnKeeps, Zenon DEF OpenErr, IInv, OneOpen, stored, history
  <2>2. CASE OpenOk(c)
    <3>1. opened' = {c} /\ listObject' = listObject /\ key_list'[c] = listObject
      BY <2>2, Zenon DEF OpenOk, stored, TypeOK
    <3> QED
      BY <2>2, <3>1
         DEF OpenOk, Return, stored, history, IInv, OneOpen, ListedPermitted,
           UnlistedOptional, BetweenWrites, StoredOnly, ClearLeft, Dangling,
           Listing
  <2> QED  BY <1>1, <2>1, <2>2 DEF Open
<1>2. ASSUME NEW c \in Clients, Drop(c) \/ Crash(c)  PROVE IInv'
  <2>1. opened = {c} /\ opened' = {}
    BY <1>0, <1>2, Zenon DEF Drop, Crash, Forget, Idle
  <2> QED
    BY <1>2, <2>1
       DEF Drop, Crash, Forget, Idle, Return, stored, history, IInv, TypeOK,
         OneOpen, ListedPermitted, UnlistedOptional, BetweenWrites, StoredOnly,
         ClearLeft, Dangling, Listing
<1>3. ASSUME NEW c \in Clients, NEW k \in Keys, NEW v \in Values,
             PutSave(c, k, v)
      PROVE  IInv'
  <2>1. CASE Return(c, Err) /\ UNCHANGED <<objects, permitted>>
    BY <1>3, <2>1, ReturnKeeps DEF PutSave, Idle
  <2>2. CASE /\ objects' = [objects EXCEPT ![k] = v]
             /\ permitted' = [permitted EXCEPT ![k] = @ \cup {v}]
             /\ Proceed(c, "put_list", k, v)
    <3>1. opened = {c} /\ v # Absent
      BY <1>0, <1>3, AbsentAssumption, Zenon DEF PutSave, Idle
    <3> QED
      BY <1>3, <2>2, <3>1
         DEF PutSave, Idle, Proceed, IInv, TypeOK, OneOpen, ListedPermitted,
           UnlistedOptional, BetweenWrites, StoredOnly, ClearLeft, Dangling,
           Listing
  <2> QED  BY <1>3, <2>1, <2>2, Zenon DEF PutSave
<1>4. ASSUME NEW c \in Clients, PutList(c)  PROVE IInv'
  <2> DEFINE k == arg[c].key
  <2>1. opened = {c} /\ k \in Keys  BY <1>0, <1>4, Zenon DEF PutList, TypeOK
  <2>3. key_list'[c] = key_list[c] \cup {k}
    BY <1>4 DEF PutList, StoreKeyList, StoreKeyListFails, TypeOK
  <2>4. CASE listObject' = listObject /\ UNCHANGED history
    BY <1>4, <2>1, <2>3, <2>4
       DEF PutList, Return, history, IInv, TypeOK, OneOpen, ListedPermitted,
         UnlistedOptional, BetweenWrites, StoredOnly, ClearLeft, Dangling,
         Listing
  <2>5. CASE /\ listObject' = key_list[c] \cup {k}
             /\ permitted' = [permitted EXCEPT ![k] = {arg[c].value}]
             /\ cut' = cut \ {k}
    BY <1>4, <2>1, <2>3, <2>5
       DEF PutList, Return, IInv, TypeOK, OneOpen, ListedPermitted,
         UnlistedOptional, BetweenWrites, StoredOnly, ClearLeft, Dangling,
         Listing
  <2> QED
    BY <1>4, <2>4, <2>5, Zenon DEF PutList, StoreKeyList, StoreKeyListFails
<1>5. ASSUME NEW c \in Clients, NEW k \in Keys, DeleteObject(c, k)
      PROVE  IInv'
  <2>1. CASE k \in key_list[c] /\ RemoveObject(c, k, "delete_list", {})
    BY <1>5, <2>1, RemoveObjectKeeps DEF DeleteObject, Idle
  <2>2. CASE Return(c, Err) /\ UNCHANGED <<objects, permitted>>
    BY <1>5, <2>2, ReturnKeeps, Zenon DEF DeleteObject, Idle
  <2> QED  BY <1>5, <2>1, <2>2, Zenon DEF DeleteObject
<1>6. ASSUME NEW c \in Clients, DeleteList(c) \/ ClearList(c)  PROVE IInv'
  <2> DEFINE k == arg[c].key
  <2>1. opened = {c} /\ k \in Keys
    BY <1>0, <1>6 DEF DeleteList, ClearList, TypeOK
  <2>2. objects[k] = Absent /\ Absent \in permitted[k]
    BY <1>6, <2>1, Zenon DEF DeleteList, ClearList, IInv, BetweenWrites
  <2>3. key_list'[c] = key_list[c] \ {k} /\ UNCHANGED <<objects, opened>>
    BY <1>6, Zenon
       DEF DeleteList, ClearList, ListRemoved, ListRemovedFails, StoreKeyList,
         StoreKeyListFails, TypeOK
  <2>4. /\ pc'[c] \in {"idle", "clear"} /\ pc' = [pc EXCEPT ![c] = pc'[c]]
        /\ pc'[c] = "clear" => pc[c] = "clear_list" /\ todo' = todo
    BY <1>6
       DEF DeleteList, ClearList, ListRemovedFails, Return, Proceed, TypeOK
  <2>7. ClearLeft'
    <3>1. pc'[c] = "clear" => todo'[c] = key_list'[c]
      BY <2>1, <2>3, <2>4, Zenon DEF IInv, ClearLeft
    <3> QED  BY <2>1, <2>3, <2>4, <3>1, Zenon DEF ClearLeft
  <2>5. CASE /\ listObject' = listObject
             /\ permitted' = permitted
             /\ cut' = cut \cup {k}
    BY <2>1, <2>2, <2>3, <2>4, <2>7, <2>5
       DEF IInv, TypeOK, OneOpen, ListedPermitted, UnlistedOptional,
         BetweenWrites, StoredOnly, Dangling, Listing
  <2>6. CASE /\ listObject' = key_list[c] \ {k}
             /\ permitted' = [permitted EXCEPT ![k] = {Absent}]
             /\ cut' = cut \ {k}
    BY <2>1, <2>3, <2>4, <2>7, <2>6
       DEF IInv, TypeOK, OneOpen, ListedPermitted, UnlistedOptional,
         BetweenWrites, StoredOnly, Dangling, Listing
  <2> QED
    BY <1>6, <2>5, <2>6, Zenon
       DEF DeleteList, ClearList, ListRemoved, ListRemovedFails, StoreKeyList,
         StoreKeyListFails
<1>7. ASSUME NEW c \in Clients, ClearStart(c)  PROVE IInv'
  <2>1. /\ UNCHANGED <<objects, listObject, opened, key_list, permitted, cut>>
        /\ pc[c] = "idle" /\ pc' = [pc EXCEPT ![c] = "clear"]
        /\ todo' = [todo EXCEPT ![c] = key_list[c]]
        /\ arg' = [arg EXCEPT ![c] = [key |-> NoArg.key, value |-> NoArg.value]]
        /\ c \in opened
    BY <1>7 DEF ClearStart, Idle, Proceed, stored, history
  <2>2. (OneOpen /\ ListedPermitted /\ UnlistedOptional)'
    BY <2>1 DEF IInv, TypeOK, OneOpen, ListedPermitted, UnlistedOptional, Listing
  <2>3. (BetweenWrites /\ StoredOnly)'
    BY <2>1 DEF IInv, TypeOK, OneOpen, BetweenWrites, StoredOnly
  <2>4. (ClearLeft /\ Dangling)'
    BY <2>1 DEF IInv, TypeOK, OneOpen, ClearLeft, Dangling, Listing
  <2> QED  BY <2>2, <2>3, <2>4, Zenon DEF IInv
<1>8. ASSUME NEW c \in Clients, ClearObject(c)  PROVE IInv'
  <2>1. PICK k \in todo[c] : RemoveObject(c, k, "clear_list", todo[c] \ {k})
    BY <1>8, Zenon DEF ClearObject
  <2>2. c \in opened /\ todo[c] = key_list[c]
    BY <1>0, <1>8, Zenon DEF ClearObject, IInv, ClearLeft
  <2>3. todo[c] \ {k} \in SUBSET Keys  BY DEF TypeOK
  <2> QED  BY <1>8, <2>1, <2>2, <2>3, RemoveObjectKeeps, Zenon DEF ClearObject
<1>9. ASSUME NEW c \in Clients, ClearDone(c)  PROVE IInv'
  <2>1. opened = {c} /\ key_list[c] = {}
    BY <1>0, <1>9, Zenon DEF ClearDone, IInv, ClearLeft
  <2> QED
    BY <1>9, <2>1
       DEF ClearDone, Return, stored, IInv, TypeOK, OneOpen, ListedPermitted,
         UnlistedOptional, BetweenWrites, StoredOnly, ClearLeft, Dangling,
         Listing
<1>10. ASSUME NEW c \in Clients, NEW k \in Keys, Get(c, k)  PROVE IInv'
  BY <1>10, ReturnKeeps, Zenon DEF Get, Idle, stored, history
<1>11. ASSUME NEW c \in Clients, NEW t \in Tables, ListEntries(c, t)
       PROVE  IInv'
  BY <1>11, ReturnKeeps, Zenon DEF ListEntries, Idle, stored, history
<1>12. CASE UNCHANGED vars
  BY <1>12
     DEF IInv, OneOpen, ListedPermitted, UnlistedOptional, BetweenWrites,
       StoredOnly, ClearLeft, Dangling, Listing, vars
<1> QED
  BY <1>1, <1>2, <1>3, <1>4, <1>5, <1>6, <1>7, <1>8, <1>9, <1>10, <1>11, <1>12, Zenon
     DEF Next, Put, Delete, Clear

(* With one client open at a time, what acknowledged calls did survives    *)
(* every failure and crash (AckedDurable), and only a delete that stopped  *)
(* half-way leaves a listed key without its object (DanglingIsCut).        *)
THEOREM Durable ==
  ASSUME Shared = FALSE
  PROVE  Spec => [](AckedDurable /\ DanglingIsCut)
<1>1. Init => IInv
  BY DEF Init, IInv, OneOpen, ListedPermitted, UnlistedOptional, BetweenWrites,
     StoredOnly, ClearLeft, Dangling, Listing
<1>2. TypeOK /\ IInv /\ [Next]_vars => IInv'
  BY InductiveStep, Zenon
<1>3. TypeOK /\ IInv => AckedDurable /\ DanglingIsCut
  <2> SUFFICES ASSUME TypeOK, IInv  PROVE AckedDurable /\ DanglingIsCut
    OBVIOUS
  <2>1. AckedDurable
    BY DEF AckedDurable, Visible, Found, IInv, ListedPermitted,
       UnlistedOptional, Listing
  <2>2. DanglingIsCut
    BY Zenon DEF DanglingIsCut, TypeOK, IInv, Dangling, Listing
  <2> QED  BY <2>1, <2>2
<1> QED  BY <1>1, <1>2, <1>3, TypeCorrect, PTL DEF Spec

(* In particular, list_entries() can only fail for good after a delete     *)
(* that was cut between its two writes.                                    *)
THEOREM OnlyCutDangles ==
  ASSUME Shared = FALSE
  PROVE  Spec => []DanglingIsCut
BY Durable, PTL

-----------------------------------------------------------------------------
(* A step of SecureDb is a step of KeyValueStore or leaves what it sees.   *)
LEMMA StepSimulation ==
  ASSUME Shared = FALSE, TypeOK, IInv, TypeOK', IInv', [Next]_vars
  PROVE  [KV!Next]_(KV!vars)
<1> DEFINE dict == [k \in Keys |-> Visible(k)]
<1>0. ASSUME NEW c \in Clients, pc[c] # "idle"
      PROVE  c \in opened
  BY <1>0, Zenon DEF IInv, OneOpen
<1>1. /\ dict' \in [Keys -> Answers]
      /\ \A k \in Keys : dict'[k] \in permitted'[k]
  BY Zenon DEF TypeOK, IInv, ListedPermitted, UnlistedOptional, Listing, Visible,
     Found
<1>2. ASSUME UNCHANGED <<objects, listObject, permitted>>
      PROVE  UNCHANGED KV!vars
  BY <1>2 DEF KV!vars, Visible, Found
<1>3. ASSUME NEW k \in Keys, NEW x \in Answers,
             objects' = [objects EXCEPT ![k] = x], UNCHANGED listObject,
             permitted' = [permitted EXCEPT ![k] = @ \cup {x}]
      PROVE  KV!Next
  <2>1. \A j \in Keys \ {k} : dict[j] # Absent => dict'[j] = dict[j]
    BY <1>3 DEF Visible, Found
  <2>2. KV!Attempt(k, x)
    BY <1>1, <1>3, <2>1, Zenon DEF KV!Attempt, KV!Settled, KV!Answers, Answers
  <2> QED  BY <2>2 DEF KV!Next, KV!Answers, Answers
<1>4. ASSUME NEW k \in Keys, NEW x \in Answers, NEW c \in opened,
             x \in permitted[k], UNCHANGED objects,
             \A j \in key_list[c] : j = k \/ j \in listObject',
             pc[c] = "put_list" => arg[c].key = k,
             permitted' = [permitted EXCEPT ![k] = {x}]
      PROVE  KV!Next
  <2>1. \A j \in Keys \ {k} : dict[j] # Absent => dict'[j] = dict[j]
    BY <1>4, Zenon DEF Visible, Found, IInv, StoredOnly
  <2>2. KV!Acknowledge(k, x)
    BY <1>1, <1>4, <2>1, Zenon DEF KV!Acknowledge, KV!Settled, KV!Answers, Answers
  <2> QED  BY <2>2 DEF KV!Next, KV!Answers, Answers
<1>5. ASSUME NEW c \in Clients, NEW k \in Keys, NEW v \in Values,
             PutSave(c, k, v)
      PROVE  [KV!Next]_(KV!vars)
  <2>1. v \in Answers  BY DEF Answers
  <2> QED  BY <1>2, <1>3, <1>5, <2>1, Zenon DEF PutSave
<1>6. ASSUME NEW c \in Clients, PutList(c)  PROVE [KV!Next]_(KV!vars)
  <2>1. c \in opened /\ arg[c].key \in Keys /\ arg[c].value \in Answers
    BY <1>0, <1>6, Zenon DEF PutList, TypeOK
  <2>2. arg[c].value \in permitted[arg[c].key]
    BY <1>6, <2>1, Zenon DEF PutList, IInv, BetweenWrites
  <2> QED
    BY <1>2, <1>4, <1>6, <2>1, <2>2, Zenon
       DEF PutList, StoreKeyList, StoreKeyListFails, history
<1>7. ASSUME NEW c \in Clients, NEW k \in Keys, NEW step, NEW rest,
             RemoveObject(c, k, step, rest), UNCHANGED listObject
      PROVE  [KV!Next]_(KV!vars)
  <2>1. Absent \in Answers  BY DEF Answers
  <2> QED  BY <1>2, <1>3, <1>7, <2>1, Zenon DEF RemoveObject
<1>8. ASSUME NEW c \in Clients, NEW k \in Keys, DeleteObject(c, k)
      PROVE  [KV!Next]_(KV!vars)
  BY <1>2, <1>7, <1>8, Zenon DEF DeleteObject
<1>9. ASSUME NEW c \in Clients, DeleteList(c) \/ ClearList(c)
      PROVE  [KV!Next]_(KV!vars)
  <2>1. c \in opened /\ arg[c].key \in Keys /\ Absent \in Answers
    BY <1>0, <1>9, Zenon DEF DeleteList, ClearList, TypeOK, Answers
  <2>2. Absent \in permitted[arg[c].key]
    BY <1>9, <2>1, Zenon DEF DeleteList, ClearList, IInv, BetweenWrites
  <2> QED
    BY <1>2, <1>4, <1>9, <2>1, <2>2, Zenon
       DEF DeleteList, ClearList, ListRemoved, ListRemovedFails, StoreKeyList,
         StoreKeyListFails
<1>10. ASSUME NEW c \in Clients, ClearObject(c)  PROVE [KV!Next]_(KV!vars)
  <2>1. PICK k \in todo[c] : RemoveObject(c, k, "clear_list", todo[c] \ {k})
    BY <1>10, Zenon DEF ClearObject
  <2>2. k \in Keys  BY DEF TypeOK
  <2> QED  BY <1>7, <1>10, <2>1, <2>2, Zenon DEF ClearObject
<1>11. ASSUME NEW c \in Clients, ClearDone(c)  PROVE [KV!Next]_(KV!vars)
  <2>1. c \in opened /\ key_list[c] = {}
    BY <1>0, <1>11, Zenon DEF ClearDone, IInv, ClearLeft
  <2>2. \A k \in Keys : dict[k] = Absent
    BY <1>11, <2>1, Zenon DEF ClearDone, IInv, StoredOnly, Visible, Found
  <2>3. KV!AcknowledgeClear
    BY <1>1, <1>11, <2>2, Zenon
       DEF ClearDone, KV!AcknowledgeClear, KV!Settled, KV!Answers
  <2> QED  BY <2>3 DEF KV!Next
<1>12. ASSUME NEW c \in Clients,
              \/ Open(c) \/ Drop(c) \/ Crash(c) \/ ClearStart(c)
              \/ \E k \in Keys : Get(c, k)
              \/ \E t \in Tables : ListEntries(c, t)
       PROVE  UNCHANGED KV!vars
  BY <1>2, <1>12, Zenon
     DEF Open, OpenOk, OpenErr, Drop, Crash, ClearStart, Get, ListEntries,
       stored, history
<1>13. CASE UNCHANGED vars
  BY <1>2, <1>13 DEF vars
<1> QED
  BY <1>5, <1>6, <1>8, <1>9, <1>10, <1>11, <1>12, <1>13, Zenon
     DEF Next, Put, Delete, Clear

(* With one client open at a time the store implements KeyValueStore. *)
THEOREM Refinement ==
  ASSUME Shared = FALSE
  PROVE  Spec => ImplementsKeyValueStore
<1>1. Init => IInv
  BY DEF Init, IInv, OneOpen, ListedPermitted, UnlistedOptional, BetweenWrites,
     StoredOnly, ClearLeft, Dangling, Listing
<1>2. TypeOK /\ IInv /\ [Next]_vars => IInv'
  BY InductiveStep, Zenon
<1>3. Init => KV!Init
  BY DEF Init, KV!Init, Visible, Found
<1>4. /\ TypeOK /\ IInv /\ TypeOK' /\ IInv' /\ [Next]_vars
      => [KV!Next]_(KV!vars)
  BY StepSimulation, Zenon
<1> QED
  BY <1>1, <1>2, <1>3, <1>4, TypeCorrect, PTL
  DEF Spec, ImplementsKeyValueStore, KV!Spec

-----------------------------------------------------------------------------
(* Only an open client holds an answer, so what it was told is about the   *)
(* permitted values of now: any later write is its own next call.          *)
AnswersHeld ==
  /\ ReadsPermitted
  /\ \A c \in Clients : reply[c].op \in {"get", "list"} => c \in opened

(* A listing holds the entries of its table and leaves out no other that   *)
(* must exist, when no table's name starts with another's.                 *)
LEMMA ListingPermitted ==
  ASSUME \A p, t \in Tables : <<p, t>> \in NamePrefix => p = t,
         TypeOK, IInv, NEW c \in opened, NEW t \in Tables,
         NEW from \in [{k[2] : k \in Listed(c, t)} -> Listed(c, t)],
         \A i \in DOMAIN from : from[i][2] = i,
         NEW i \in Ids
  PROVE  IF i \in DOMAIN from
         THEN from[i] = <<t, i>> /\ objects[from[i]] \in permitted[<<t, i>>]
         ELSE Absent \in permitted[<<t, i>>]
<1> DEFINE k == <<t, i>>
<1>1. c \in Clients /\ key_list[c] \subseteq Keys /\ k \in Keys
  BY Zenon DEF TypeOK, Keys
<1>2. ASSUME NEW j \in Listed(c, t)  PROVE j \in key_list[c] /\ j[1] = t
  BY <1>1, PrefixAssumption DEF Listed, StartsWith, Keys
<1>3. k \in key_list[c] => k \in Listed(c, t)
  BY PrefixAssumption DEF Listed, StartsWith
<1>4. CASE i \in DOMAIN from
  <2>1. from[i] \in Listed(c, t) /\ from[i][2] = i  BY <1>4
  <2>2. from[i] \in key_list[c] /\ from[i][1] = t  BY <1>2, <2>1, Zenon
  <2>3. from[i] = k  BY <1>1, <2>1, <2>2 DEF Keys
  <2>4. objects[k] \in permitted[k]
    BY <1>1, <2>2, <2>3, Zenon DEF IInv, ListedPermitted, Listing
  <2> QED  BY <1>4, <2>3, <2>4
<1>5. CASE i \notin DOMAIN from
  <2>1. k[2] = i  OBVIOUS
  <2>2. k \notin Listed(c, t)  BY <1>5, <2>1
  <2> QED  BY <1>1, <1>3, <1>5, <2>2 DEF IInv, UnlistedOptional
<1> QED  BY <1>4, <1>5

(* A step whose reply is no answer keeps the answers of the others. *)
LEMMA SilentKeeps ==
  ASSUME TypeOK, IInv, AnswersHeld, NEW c \in Clients,
         reply'[c].op \notin {"get", "list"},
         \A d \in Clients \ {c} : reply'[d] = reply[d],
         \/ UNCHANGED permitted /\ opened' \in {opened, opened \cup {c}}
         \/ c \in opened /\ opened' \in {opened, opened \ {c}}
  PROVE  AnswersHeld'
<1> SUFFICES ASSUME NEW d \in Clients, reply'[d].op \in {"get", "list"}
             PROVE  d # c /\ d \in opened /\ permitted' = permitted
                    /\ d \in opened' /\ reply'[d] = reply[d]
  BY Zenon DEF AnswersHeld, ReadsPermitted
<1>1. d # c /\ reply'[d] = reply[d]  OBVIOUS
<1>2. d \in opened  BY <1>1 DEF AnswersHeld
<1>3. c \notin opened  BY <1>1, <1>2 DEF IInv, OneOpen
<1> QED  BY <1>1, <1>2, <1>3, Zenon

(* Every step preserves it. *)
LEMMA AnswersStep ==
  ASSUME Shared = FALSE,
         \A p, t \in Tables : <<p, t>> \in NamePrefix => p = t,
         TypeOK, IInv, AnswersHeld, [Next]_vars
  PROVE  AnswersHeld'
<1>0. ASSUME NEW c \in Clients, pc[c] # "idle"  PROVE c \in opened
  BY <1>0 DEF IInv, OneOpen
<1>1. ASSUME NEW c \in Clients, NEW r, Return(c, r)
      PROVE  reply'[c] = r /\ \A d \in Clients \ {c} : reply'[d] = reply[d]
  BY <1>1 DEF Return, TypeOK
<1>2. ASSUME NEW c \in Clients, NEW s, NEW k, NEW x, Proceed(c, s, k, x)
      PROVE  /\ reply'[c] = NoReply
             /\ \A d \in Clients \ {c} : reply'[d] = reply[d]
  BY <1>2, Zenon DEF Proceed, TypeOK
<1>3. \A r \in {NoReply, Ok, Err} : r.op \notin {"get", "list"}
  BY DEF NoReply, Ok, Err
<1>4. ASSUME NEW c \in Clients, Open(c)  PROVE AnswersHeld'
  <2>1. /\ reply'[c] \in {Ok, Err}
        /\ \A d \in Clients \ {c} : reply'[d] = reply[d]
    BY <1>1, <1>4, Zenon DEF Open, OpenOk, OpenErr
  <2>2. UNCHANGED permitted /\ opened' \in {opened, opened \cup {c}}
    BY <1>4 DEF Open, OpenOk, OpenErr, history
  <2> QED  BY <1>3, <2>1, <2>2, SilentKeeps
<1>5. ASSUME NEW c \in Clients,
             \/ Drop(c) \/ Crash(c) \/ Put(c) \/ Delete(c) \/ Clear(c)
      PROVE  AnswersHeld'
  <2>1. c \in opened /\ opened' \in {opened, opened \ {c}}
    BY <1>0, <1>5, Zenon
       DEF Drop, Crash, Forget, Put, PutList, PutSave, Delete, DeleteList,
         DeleteObject, Clear, ClearStart, ClearObject, ClearList, ClearDone,
         Idle
  <2>2. \/ \E r \in {NoReply, Ok, Err} : Return(c, r)
        \/ \E s, k, x : Proceed(c, s, k, x)
    BY <1>5, Zenon
       DEF Drop, Crash, Forget, Put, PutList, PutSave, Delete, DeleteList,
         DeleteObject, Clear, ClearStart, ClearObject, ClearList, ClearDone,
         RemoveObject, ListRemovedFails
  <2>3. /\ reply'[c] \in {NoReply, Ok, Err}
        /\ \A d \in Clients \ {c} : reply'[d] = reply[d]
    BY <1>1, <1>2, <2>2, Zenon
  <2> QED  BY <1>3, <2>1, <2>3, SilentKeeps, Zenon
<1>6. ASSUME NEW c \in Clients, NEW k \in Keys, Get(c, k)
      PROVE  AnswersHeld'
  <2> DEFINE answer == [op |-> "get", key |-> k,
                        value |-> Found(key_list[c], k)]
  <2>1. c \in opened /\ UNCHANGED <<permitted, opened>>
    BY <1>6, Zenon DEF Get, Idle, history
  <2>2. CASE Return(c, Err)
    BY <1>1, <1>3, <2>1, <2>2, SilentKeeps, Zenon
  <2>3. CASE Return(c, answer)
    <3>1. Found(key_list[c], k) \in permitted[k]
      BY <2>1, Zenon DEF Found, IInv, ListedPermitted, UnlistedOptional, Listing
    <3>2. reply'[c] = answer /\ \A d \in Clients \ {c} : reply'[d] = reply[d]
      BY <1>1, <2>3, Zenon
    <3>3. /\ answer.op = "get" /\ answer.key = k
          /\ answer.value = Found(key_list[c], k)
      OBVIOUS
    <3> HIDE DEF answer
    <3> QED
      BY <2>1, <3>1, <3>2, <3>3, Zenon DEF AnswersHeld, ReadsPermitted
  <2> QED  BY <1>6, <2>2, <2>3, Zenon DEF Get
<1>7. ASSUME NEW c \in Clients, NEW t \in Tables, ListEntries(c, t)
      PROVE  AnswersHeld'
  <2>1. c \in opened /\ UNCHANGED <<permitted, opened>>
    BY <1>7, Zenon DEF ListEntries, Idle, history
  <2>2. CASE Return(c, Err)
    BY <1>1, <1>3, <2>1, <2>2, SilentKeeps, Zenon
  <2>3. ASSUME NEW from \in [{k[2] : k \in Listed(c, t)} -> Listed(c, t)],
               \A i \in DOMAIN from : from[i][2] = i,
               Return(c, [op |-> "list", table |-> t,
                          entries |-> [i \in DOMAIN from |->
                            [key |-> from[i], value |-> objects[from[i]]]]])
        PROVE  AnswersHeld'
    <3> DEFINE E == [i \in DOMAIN from |->
                      [key |-> from[i], value |-> objects[from[i]]]]
               answer == [op |-> "list", table |-> t, entries |-> E]
    <3>1. reply'[c] = answer /\ \A d \in Clients \ {c} : reply'[d] = reply[d]
      BY <1>1, <2>3, Zenon
    <3>2. ASSUME NEW i \in Ids
          PROVE  IF i \in DOMAIN E
                 THEN /\ E[i].key = <<t, i>>
                      /\ E[i].value \in permitted[<<t, i>>]
                 ELSE Absent \in permitted[<<t, i>>]
      <4>1. DOMAIN E = DOMAIN from  BY Zenon
      <4>2. i \in DOMAIN E =>
              E[i].key = from[i] /\ E[i].value = objects[from[i]]
        BY Zenon
      <4> HIDE DEF E
      <4> QED  BY <2>1, <2>3, <4>1, <4>2, ListingPermitted, Zenon
    <3>3. answer.op = "list" /\ answer.table = t /\ answer.entries = E
      BY Zenon
    <3> HIDE DEF answer, E
    <3> QED
      BY <2>1, <3>1, <3>2, <3>3 DEF AnswersHeld, ReadsPermitted
  <2> QED  BY <1>7, <2>2, <2>3, Zenon DEF ListEntries
<1>8. CASE UNCHANGED vars
  BY <1>8, Zenon DEF AnswersHeld, ReadsPermitted, vars
<1> QED  BY <1>4, <1>5, <1>6, <1>7, <1>8 DEF Next

(* With one client open at a time, and table names of which none is a      *)
(* prefix of another, get() and list_entries() answer what acknowledged    *)
(* calls allow, and a listing misses no entry that must exist.             *)
THEOREM ReadsAlwaysPermitted ==
  ASSUME Shared = FALSE,
         \A p, t \in Tables : <<p, t>> \in NamePrefix => p = t
  PROVE  Spec => []ReadsPermitted
<1>1. Init => IInv
  BY DEF Init, IInv, OneOpen, ListedPermitted, UnlistedOptional, BetweenWrites,
     StoredOnly, ClearLeft, Dangling, Listing
<1>2. Init => AnswersHeld
  BY DEF Init, AnswersHeld, ReadsPermitted, NoReply
<1>3. TypeOK /\ IInv /\ [Next]_vars => IInv'
  BY InductiveStep, Zenon
<1>4. TypeOK /\ IInv /\ AnswersHeld /\ [Next]_vars => AnswersHeld'
  BY AnswersStep, Zenon
<1>5. AnswersHeld => ReadsPermitted
  BY Zenon DEF AnswersHeld
<1> QED  BY <1>1, <1>2, <1>3, <1>4, <1>5, TypeCorrect, PTL DEF Spec

-----------------------------------------------------------------------------
(* CryptoOps. *)

Kinds == {"Digest", "Cipher", "Mac", "AE", "Asymmetric", "DeriveKey"}
OpValues == [kind : Kinds \cup {"none"}, raw : Cells \cup {Null}]
ModeNames == {"none", "Digest", "Mac", "Derive", "Encrypt", "Decrypt", "Sign", "Verify"}
Ops == [algo : Algorithms \cup {"none"}, mode : ModeNames, key : Seq(KeyMaterial),
        active : BOOLEAN, init : BOOLEAN, fed : Seq(Chunks)]
Tolds == [key : Seq(KeyMaterial), fed : Seq(Chunks)]

CryptoTyped ==
  /\ slot \in [Slots -> OpValues]
  /\ cell \in [Cells -> {"free", "live"}]
  /\ op \in [Cells -> Ops]
  /\ object \in {"null", "empty"} \cup KeyMaterial
  /\ told \in [Slots -> Tolds]
  /\ failed \in Nat
  /\ dead \in {"no", "panic", "fault"}

(* The pointer of a value is that of a live Box which no other value has; *)
(* a place without a value has none.                                       *)
BoxOwned ==
  /\ \A s \in Slots : slot[s].kind = "none" => slot[s].raw = Null
  /\ \A s \in Slots : slot[s].raw # Null => cell[slot[s].raw] = "live"
  /\ \A s, t \in Slots : slot[s].raw # Null /\ slot[s].raw = slot[t].raw => s = t

(* An operation of the TEE has its handle in the Box of some value. *)
OpOwned == \A c \in Cells : op[c] # NoOp => \E s \in Slots : slot[s].raw = c

(* What an operation holds is what the TA knows. *)
Agree(o, t) == o.key = t.key /\ o.fed = t.fed
AllTold == \A s \in Slots : slot[s].raw # Null => Agree(op[slot[s].raw], told[s])

(* The Boxes that nobody owns. *)
Leaked == {c \in Cells : cell[c] = "live" /\ \A s \in Slots : slot[s].raw # c}
LeaksCounted == IsFiniteSet(Leaked) /\ Cardinality(Leaked) = failed

CryptoIInv ==
  /\ CryptoTyped /\ BoxOwned /\ OpOwned /\ AllTold /\ LeaksCounted
  /\ "free twice" \notin misuse

-----------------------------------------------------------------------------
(* The three parts of BoxOwned, for the steps that need only one of them. *)
LEMMA NoneNull ==
  ASSUME CryptoIInv PROVE \A s \in Slots : slot[s].kind = "none" => slot[s].raw = Null
BY Zenon DEF CryptoIInv, BoxOwned

(* ... a value that is not null has a live Box, *)
LEMMA HeldLive ==
  ASSUME CryptoIInv PROVE \A s \in Slots : slot[s].raw # Null => cell[slot[s].raw] = "live"
BY Zenon DEF CryptoIInv, BoxOwned

(* ... which it shares with no other. *)
LEMMA OneHolder ==
  ASSUME CryptoIInv
  PROVE  \A s, t \in Slots : slot[s].raw # Null /\ slot[s].raw = slot[t].raw => s = t
BY Zenon DEF CryptoIInv, BoxOwned

(* The initial values have their types. *)
LEMMA EmptyTyped == NoOp \in Ops /\ Nothing \in Tolds /\ Empty \in OpValues
<1>1. <<>> \in Seq(KeyMaterial) /\ <<>> \in Seq(Chunks)
  OBVIOUS
<1>2. NoOp \in Ops
  BY <1>1, Zenon DEF NoOp, Ops, ModeNames
<1>3. Nothing \in Tolds
  BY <1>1, Zenon DEF Nothing, Tolds
<1> QED  BY <1>2, <1>3 DEF Empty, OpValues

(* The invariant holds before the first call. *)
LEMMA InitCryptoIInv == CryptoInit => CryptoIInv
<1> SUFFICES ASSUME CryptoInit PROVE CryptoIInv
  OBVIOUS
<1>2. CryptoTyped
  BY EmptyTyped DEF CryptoInit, CryptoTyped
<1>3. BoxOwned /\ OpOwned /\ AllTold
  BY Zenon DEF CryptoInit, BoxOwned, OpOwned, AllTold, Empty
<1>4. Leaked = {}
  BY DEF CryptoInit, Leaked
<1>5. LeaksCounted
  BY <1>4, FS_EmptySet DEF CryptoInit, LeaksCounted
<1> QED  BY <1>2, <1>3, <1>5 DEF CryptoInit, CryptoIInv

(* A step that leaves the Boxes and their owners alone leaks nothing. *)
LEMMA SameLeaks ==
  ASSUME LeaksCounted, Leaked' = Leaked, failed' = failed
  PROVE  LeaksCounted'
BY DEF LeaksCounted

(* What giving up the pointer of a value does to the cells. *)
LEMMA FreeFacts ==
  ASSUME CryptoTyped, NEW raw \in Cells \cup {Null}
  PROVE  /\ FreeBox(raw) \in [Cells -> {"free", "live"}]
         /\ FreeOperation(raw) \in [Cells -> Ops]
         /\ \A c \in Cells : c # raw => FreeBox(raw)[c] = cell[c]
                                        /\ FreeOperation(raw)[c] = op[c]
         /\ raw \in Cells => FreeBox(raw)[raw] = "free" /\ FreeOperation(raw)[raw] = NoOp
BY EmptyTyped DEF CryptoTyped, FreeBox, FreeOperation

(* Dropping a value frees nothing twice. *)
LEMMA DroppedFacts ==
  ASSUME CryptoIInv, NEW s \in Slots, Dropped(slot[s])
  PROVE  "free twice" \notin misuse' /\ dead' \in {"no", "panic", "fault"}
<1>1. slot[s].raw # Null => cell[slot[s].raw] = "live"
  BY Zenon DEF CryptoIInv, BoxOwned
<1> QED  BY <1>1, Zenon DEF CryptoIInv, Dropped

(* A value is dropped. *)
LEMMA DropKeeps ==
  ASSUME CryptoIInv, NEW s \in Slots, DropOperation(s)
  PROVE  CryptoIInv'
<1> DEFINE raw == slot[s].raw
<1>1. /\ Dropped(slot[s]) /\ cell' = FreeBox(raw) /\ op' = FreeOperation(raw)
      /\ slot' = [slot EXCEPT ![s] = Empty] /\ told' = [told EXCEPT ![s] = Nothing]
      /\ UNCHANGED <<object, ret, failed>>
  BY Zenon DEF DropOperation
<1>2. CryptoTyped /\ raw \in Cells \cup {Null} /\ Null \notin Cells
  BY CellAssumption, Zenon DEF CryptoIInv, CryptoTyped, OpValues
<1>3. /\ slot'[s].raw = Null /\ slot'[s].kind = "none"
      /\ \A t \in Slots \ {s} : slot'[t] = slot[t] /\ told'[t] = told[t]
  BY <1>1, <1>2, Zenon DEF CryptoTyped, Empty
<1>4. /\ \A c \in Cells : c # raw => cell'[c] = cell[c] /\ op'[c] = op[c]
      /\ raw \in Cells => cell'[raw] = "free" /\ op'[raw] = NoOp
      /\ cell' \in [Cells -> {"free", "live"}] /\ op' \in [Cells -> Ops]
  BY <1>1, <1>2, FreeFacts, Zenon
<1>5. \A t \in Slots \ {s} : slot[t].raw # Null =>
        slot[t].raw # raw /\ slot[t].raw \in Cells
  BY <1>2, Zenon DEF CryptoIInv, BoxOwned, CryptoTyped, OpValues
<1> HIDE DEF raw
<1>6. CryptoTyped'
  BY <1>1, <1>2, <1>4, EmptyTyped, DroppedFacts, Zenon DEF CryptoTyped
<1>7. BoxOwned'
  <2>1. \A t \in Slots : slot'[t].kind = "none" => slot'[t].raw = Null
    BY <1>3, NoneNull, Zenon
  <2>2. \A t \in Slots : slot'[t].raw # Null => cell'[slot'[t].raw] = "live"
    <3> SUFFICES ASSUME NEW t \in Slots \ {s}, slot[t].raw # Null
                 PROVE  cell'[slot[t].raw] = "live"
      BY <1>3, Zenon
    <3> QED  BY <1>4, <1>5, HeldLive, Zenon
  <2>3. \A t, u \in Slots : slot'[t].raw # Null /\ slot'[t].raw = slot'[u].raw => t = u
    <3> SUFFICES ASSUME NEW t \in Slots \ {s}, NEW u \in Slots \ {s},
                        slot[t].raw # Null, slot[t].raw = slot[u].raw
                 PROVE  t = u
      BY <1>3
    <3> QED  BY OneHolder, Zenon
  <2> QED  BY <2>1, <2>2, <2>3, Zenon DEF BoxOwned
<1>8. OpOwned'
  <2> SUFFICES ASSUME NEW c \in Cells, op'[c] # NoOp
               PROVE  \E t \in Slots : slot'[t].raw = c
    BY Zenon DEF OpOwned
  <2>1. c # raw /\ op[c] # NoOp
    BY <1>4, Zenon
  <2>2. PICK t \in Slots : slot[t].raw = c
    BY <2>1, Zenon DEF CryptoIInv, OpOwned
  <2>3. t # s
    BY <2>1, <2>2, Zenon DEF raw
  <2> QED  BY <1>3, <2>2, <2>3, Zenon
<1>9. AllTold'
  <2> SUFFICES ASSUME NEW t \in Slots \ {s}, slot[t].raw # Null
               PROVE  Agree(op'[slot[t].raw], told[t])
    BY <1>3, Zenon DEF AllTold
  <2> QED  BY <1>4, <1>5, Zenon DEF CryptoIInv, AllTold
<1>10. Leaked' = Leaked
  <2> SUFFICES ASSUME NEW c \in Cells
               PROVE  (cell'[c] = "live" /\ \A t \in Slots : slot'[t].raw # c)
                        <=> (cell[c] = "live" /\ \A t \in Slots : slot[t].raw # c)
    BY DEF Leaked
  <2>1. CASE c = raw
    BY <1>4, <2>1, Zenon DEF raw
  <2>2. CASE c # raw
    <3>1. cell'[c] = cell[c] /\ slot[s].raw # c /\ slot'[s].raw # c
      BY <1>2, <1>3, <1>4, <2>2, Zenon DEF raw
    <3> QED  BY <1>3, <3>1, Zenon
  <2> QED  BY <2>1, <2>2, Zenon
<1> QED  BY <1>1, <1>6, <1>7, <1>8, <1>9, <1>10, SameLeaks, DroppedFacts, Zenon DEF CryptoIInv

-----------------------------------------------------------------------------
(* A value is made by null(). *)
LEMMA NewNullKeeps ==
  ASSUME CryptoIInv, NEW s \in Slots, NEW k \in Kinds, NewNull(s, k)
  PROVE  CryptoIInv'
<1>1. /\ slot[s].kind = "none" /\ slot' = [slot EXCEPT ![s] = [kind |-> k, raw |-> Null]]
      /\ UNCHANGED <<cell, op, object, told, ret, failed, misuse, dead>>
  BY Zenon DEF NewNull
<1>2. slot \in [Slots -> OpValues] /\ [kind |-> k, raw |-> Null] \in OpValues
  BY Zenon DEF CryptoIInv, CryptoTyped, OpValues
<1>3. slot[s].raw = Null
  BY <1>1, Zenon DEF CryptoIInv, BoxOwned
<1>4. \A t \in Slots : slot'[t].raw = slot[t].raw
  BY <1>1, <1>2, <1>3, Zenon
<1>5. CryptoTyped'
  BY <1>1, <1>2, Zenon DEF CryptoIInv, CryptoTyped
<1>6. BoxOwned'
  <2>1. k # "none"
    BY DEF Kinds
  <2>2. \A t \in Slots : slot'[t].kind = "none" => slot[t].kind = "none"
    BY <1>1, <1>2, <2>1, Zenon
  <2>3. \A t \in Slots : slot'[t].kind = "none" => slot'[t].raw = Null
    BY <1>4, <2>2, NoneNull, Zenon
  <2>4. \A t \in Slots : slot'[t].raw # Null => cell'[slot'[t].raw] = "live"
    <3>1. cell' = cell
      BY <1>1, Zenon
    <3> QED  BY <1>4, <3>1, HeldLive, Zenon
  <2>5. \A t, u \in Slots : slot'[t].raw # Null /\ slot'[t].raw = slot'[u].raw => t = u
    BY <1>4, OneHolder, Zenon
  <2> QED  BY <2>3, <2>4, <2>5, Zenon DEF BoxOwned
<1>7. OpOwned' /\ AllTold'
  <2>1. op' = op /\ told' = told
    BY <1>1, Zenon
  <2>2. OpOwned'
    BY <1>4, <2>1, Zenon DEF CryptoIInv, OpOwned
  <2> QED  BY <1>4, <2>1, <2>2, Zenon DEF CryptoIInv, AllTold, Agree
<1>8. Leaked' = Leaked
  BY <1>1, <1>4, Zenon DEF Leaked
<1> QED  BY <1>1, <1>5, <1>6, <1>7, <1>8, SameLeaks, Zenon DEF CryptoIInv

(* A failed allocation makes one more Box that nobody owns. *)
LEMMA AllocateFailsKeeps ==
  ASSUME CryptoIInv, NEW c \in Cells, cell[c] = "free", AllocateFails(c)
  PROVE  CryptoIInv'
<1>1. /\ cell' = [cell EXCEPT ![c] = "live"] /\ failed' = failed + 1
      /\ UNCHANGED <<slot, op, object, told, misuse, dead>>
  BY DEF AllocateFails
<1>2. cell \in [Cells -> {"free", "live"}]
  BY Zenon DEF CryptoIInv, CryptoTyped
<1>3. \A s \in Slots : slot[s].raw # Null => slot[s].raw \in Cells /\ slot[s].raw # c
  BY Zenon DEF CryptoIInv, BoxOwned, CryptoTyped, OpValues
<1>4. CryptoTyped'
  <2>1. cell' \in [Cells -> {"free", "live"}]
    BY <1>1, <1>2
  <2>2. failed \in Nat /\ failed' = failed + 1
    BY <1>1, Zenon DEF CryptoIInv, CryptoTyped
  <2>3. failed' \in Nat
    BY <2>2
  <2> QED  BY <1>1, <2>1, <2>3, Zenon DEF CryptoIInv, CryptoTyped
<1>5. BoxOwned'
  <2>1. \A s \in Slots : slot[s].raw # Null => cell'[slot[s].raw] = "live"
    BY <1>1, <1>2, <1>3, Zenon DEF CryptoIInv, BoxOwned
  <2> QED  BY <1>1, <2>1, Zenon DEF CryptoIInv, BoxOwned
<1>6. OpOwned' /\ AllTold'
  BY <1>1, Zenon DEF CryptoIInv, OpOwned, AllTold, Agree
<1>7. Leaked' = Leaked \cup {c} /\ c \notin Leaked
  <2>1. \A s \in Slots : slot[s].raw # c
    BY <1>3, CellAssumption, Zenon
  <2> QED  BY <1>1, <1>2, <2>1, Zenon DEF Leaked
<1>8. LeaksCounted'
  BY <1>1, <1>7, FS_AddElement, Zenon DEF CryptoIInv, LeaksCounted
<1> QED  BY <1>1, <1>4, <1>5, <1>6, <1>8, Zenon DEF CryptoIInv

(* The new value takes a fresh Box; the one it replaces is given up. *)
LEMMA AllocateKeeps ==
  ASSUME CryptoIInv, NEW s \in Slots, NEW k \in Kinds, NEW a \in Algorithms,
         NEW m \in ModeNames, Allocate(s, k, a, m)
  PROVE  CryptoIInv'
<1> DEFINE raw == slot[s].raw
           new == [algo |-> a, mode |-> m, key |-> <<>>, active |-> FALSE,
                   init |-> FALSE, fed |-> <<>>]
<1>1. PICK c \in Cells :
        /\ cell[c] = "free"
        /\ \/ AllocateFails(c)
           \/ /\ Dropped(slot[s])
              /\ cell' = [FreeBox(raw) EXCEPT ![c] = "live"]
              /\ op' = [FreeOperation(raw) EXCEPT ![c] = new]
              /\ slot' = [slot EXCEPT ![s] = [kind |-> k, raw |-> c]]
              /\ told' = [told EXCEPT ![s] = Nothing]
              /\ UNCHANGED <<object, failed>>
  BY Zenon DEF Allocate
<1>2. CASE AllocateFails(c)
  BY <1>1, <1>2, AllocateFailsKeeps, Zenon
<1>3. CASE ~AllocateFails(c)
  <2>1. CryptoTyped /\ raw \in Cells \cup {Null} /\ Null \notin Cells
    BY CellAssumption, Zenon DEF CryptoIInv, CryptoTyped, OpValues
  <2>2. /\ FreeBox(raw) \in [Cells -> {"free", "live"}]
        /\ FreeOperation(raw) \in [Cells -> Ops]
        /\ \A d \in Cells : d # raw => FreeBox(raw)[d] = cell[d]
                                       /\ FreeOperation(raw)[d] = op[d]
        /\ raw \in Cells => FreeBox(raw)[raw] = "free" /\ FreeOperation(raw)[raw] = NoOp
    BY <2>1, FreeFacts, Zenon
  <2>3. c # raw /\ c # Null
    BY <1>1, <2>1, Zenon DEF CryptoIInv, BoxOwned
  <2>4. new \in Ops /\ new.key = <<>> /\ new.fed = <<>>
    <3>1. <<>> \in Seq(KeyMaterial) /\ <<>> \in Seq(Chunks)
      OBVIOUS
    <3> QED  BY <3>1, Zenon DEF Ops
  <2>5. [kind |-> k, raw |-> c] \in OpValues
    BY Zenon DEF OpValues
  <2>6. \A t \in Slots : slot[t].raw # c
    BY <1>1, <2>3, HeldLive, Zenon
  <2>7. \A t \in Slots \ {s} : slot[t].raw # Null =>
          slot[t].raw # raw /\ slot[t].raw \in Cells
    BY <2>1, Zenon DEF CryptoIInv, BoxOwned, CryptoTyped, OpValues
  <2> HIDE DEF raw, new
  <2>8. /\ slot'[s].raw = c /\ slot'[s].kind = k /\ told'[s] = Nothing
        /\ \A t \in Slots \ {s} : slot'[t] = slot[t] /\ told'[t] = told[t]
    BY <1>1, <1>3, <2>1 DEF CryptoTyped
  <2>9. /\ \A d \in Cells : d # raw /\ d # c => cell'[d] = cell[d] /\ op'[d] = op[d]
        /\ raw \in Cells => cell'[raw] = "free" /\ op'[raw] = NoOp
        /\ cell'[c] = "live" /\ op'[c] = new
    BY <1>1, <1>3, <2>2, <2>3, Zenon
  <2>10. CryptoTyped'
    <3>1. cell' \in [Cells -> {"free", "live"}] /\ op' \in [Cells -> Ops]
      BY <1>1, <1>3, <2>2, <2>4
    <3>2. slot' \in [Slots -> OpValues] /\ told' \in [Slots -> Tolds]
      BY <1>1, <1>3, <2>1, <2>5, EmptyTyped DEF CryptoTyped
    <3> QED  BY <1>1, <1>3, <2>1, <3>1, <3>2, DroppedFacts, Zenon DEF CryptoTyped
  <2>11. BoxOwned'
    <3>1. \A t \in Slots : slot'[t].kind = "none" => slot'[t].raw = Null
      <4>1. k # "none"
        BY Zenon DEF Kinds
      <4> QED  BY <2>8, <4>1, NoneNull, Zenon
    <3>2. \A t \in Slots : slot'[t].raw # Null => cell'[slot'[t].raw] = "live"
      <4> SUFFICES ASSUME NEW t \in Slots \ {s}, slot[t].raw # Null
                   PROVE  cell'[slot[t].raw] = "live"
        BY <2>8, <2>9
      <4>1. slot[t].raw \in Cells /\ slot[t].raw # raw /\ slot[t].raw # c
        BY <2>6, <2>7, Zenon
      <4>2. cell[slot[t].raw] = "live"
        BY HeldLive, Zenon
      <4> QED  BY <2>9, <4>1, <4>2, Zenon
    <3>3. \A t, u \in Slots : slot'[t].raw # Null /\ slot'[t].raw = slot'[u].raw => t = u
      <4> SUFFICES ASSUME NEW t \in Slots, NEW u \in Slots,
                          slot'[t].raw # Null, slot'[t].raw = slot'[u].raw, t # u
                   PROVE  FALSE
        BY Zenon
      <4>1. t = s \/ u = s \/ (slot[t].raw # Null /\ slot[t].raw = slot[u].raw)
        BY <2>8, Zenon
      <4>2. t # s
        BY <2>6, <2>8, Zenon
      <4>3. u # s
        BY <2>6, <2>8, Zenon
      <4> QED  BY <4>1, <4>2, <4>3, OneHolder, Zenon
    <3> QED  BY <3>1, <3>2, <3>3, Zenon DEF BoxOwned
  <2>12. OpOwned'
    <3> SUFFICES ASSUME NEW d \in Cells, op'[d] # NoOp, d # c
                 PROVE  \E t \in Slots : slot'[t].raw = d
      BY <2>8, Zenon DEF OpOwned
    <3>1. d # raw /\ op[d] # NoOp
      BY <2>9, Zenon
    <3>2. PICK t \in Slots : slot[t].raw = d
      BY <3>1, Zenon DEF CryptoIInv, OpOwned
    <3>3. t # s
      BY <3>1, <3>2, Zenon DEF raw
    <3> QED  BY <2>8, <3>2, <3>3, Zenon
  <2>13. AllTold'
    <3>1. Agree(op'[c], told'[s])
      BY <2>4, <2>8, <2>9 DEF Agree, Nothing
    <3>2. ASSUME NEW t \in Slots \ {s}, slot[t].raw # Null
          PROVE  Agree(op'[slot[t].raw], told[t])
      BY <2>6, <2>7, <2>9, <3>2, Zenon DEF CryptoIInv, AllTold
    <3> QED  BY <2>8, <3>1, <3>2, Zenon DEF AllTold
  <2>14. Leaked' = Leaked
    <3> SUFFICES ASSUME NEW d \in Cells
                 PROVE  (cell'[d] = "live" /\ \A t \in Slots : slot'[t].raw # d)
                          <=> (cell[d] = "live" /\ \A t \in Slots : slot[t].raw # d)
      BY Zenon DEF Leaked
    <3>1. CASE d = raw
      BY <2>9, <3>1, Zenon DEF raw
    <3>2. CASE d = c
      BY <1>1, <2>8, <3>2, Zenon
    <3>3. CASE d # raw /\ d # c
      <4>1. cell'[d] = cell[d] /\ slot[s].raw # d /\ slot'[s].raw # d
        BY <2>8, <2>9, <3>3, Zenon DEF raw
      <4> QED  BY <2>8, <4>1, Zenon
    <3> QED  BY <3>1, <3>2, <3>3, Zenon
  <2> QED  BY <1>1, <1>3, <2>10, <2>11, <2>12, <2>13, <2>14, SameLeaks, DroppedFacts, Zenon DEF CryptoIInv
<1> QED  BY <1>2, <1>3, Zenon

-----------------------------------------------------------------------------
(* An operation as the TA knows it. *)
Good(o, t) == o \in Ops /\ t \in Tolds /\ Agree(o, t)

(* What a method may do to the value in its place: the TA ends and nothing *)
(* changed, or the operation and what the TA knows of it change together.  *)
CallFrame == UNCHANGED <<slot, cell, failed>>
Ending ==
  /\ UNCHANGED <<op, told>>
  /\ misuse' \in {misuse, misuse \cup {"deref null"}}
  /\ dead' \in {"fault", "panic"}
Becomes(s, o, t) ==
  /\ slot[s].raw # Null
  /\ op' = [op EXCEPT ![slot[s].raw] = o]
  /\ told' = [told EXCEPT ![s] = t]
  /\ UNCHANGED <<misuse, dead>>
CallStep(s) ==
  /\ CallFrame
  /\ object' \in {"null", "empty"} \cup KeyMaterial
  /\ Ending \/ \E o \in Ops, t \in Tolds : Good(o, t) /\ Becomes(s, o, t)

(* A call that changes one operation, or none. *)
LEMMA CallStepKeeps ==
  ASSUME CryptoIInv, NEW s \in Slots, CallStep(s)
  PROVE  CryptoIInv'
<1>1. UNCHANGED <<slot, cell, failed>> /\ object' \in {"null", "empty"} \cup KeyMaterial
  BY DEF CallStep, CallFrame
<1>2. BoxOwned'
  BY <1>1, Zenon DEF CryptoIInv, BoxOwned
<1>3. LeaksCounted'
  BY <1>1, Zenon DEF CryptoIInv, LeaksCounted, Leaked
<1>4. CASE UNCHANGED <<op, told>> /\ dead' \in {"fault", "panic"}
           /\ misuse' \in {misuse, misuse \cup {"deref null"}}
  <2>1. CryptoTyped'
    BY <1>1, <1>4, Zenon DEF CryptoIInv, CryptoTyped
  <2>2. OpOwned' /\ AllTold'
    BY <1>1, <1>4, Zenon DEF CryptoIInv, OpOwned, AllTold, Agree
  <2> QED  BY <1>2, <1>3, <1>4, <2>1, <2>2, Zenon DEF CryptoIInv
<1>5. ASSUME slot[s].raw # Null, NEW o \in Ops, NEW t \in Tolds, Agree(o, t),
             op' = [op EXCEPT ![slot[s].raw] = o], told' = [told EXCEPT ![s] = t],
             UNCHANGED <<misuse, dead>>
      PROVE  CryptoIInv'
  <2>1. slot[s].raw \in Cells
    BY <1>5, Zenon DEF CryptoIInv, CryptoTyped, OpValues
  <2>2. CryptoTyped'
    BY <1>1, <1>5, <2>1, Zenon DEF CryptoIInv, CryptoTyped
  <2>3. OpOwned'
    BY <1>1, <1>5, <2>1, Zenon DEF CryptoIInv, OpOwned, CryptoTyped
  <2>4. AllTold'
    <3> SUFFICES ASSUME NEW u \in Slots, slot[u].raw # Null
                 PROVE  Agree(op'[slot[u].raw], told'[u])
      BY <1>1, Zenon DEF AllTold
    <3>1. op \in [Cells -> Ops] /\ told \in [Slots -> Tolds] /\ slot[u].raw \in Cells
      BY Zenon DEF CryptoIInv, CryptoTyped, OpValues
    <3>2. CASE u = s
      BY <1>5, <2>1, <3>1, <3>2, Zenon
    <3>3. CASE u # s
      <4>1. slot[u].raw # slot[s].raw
        BY <3>3, Zenon DEF CryptoIInv, BoxOwned
      <4>2. op'[slot[u].raw] = op[slot[u].raw] /\ told'[u] = told[u]
        BY <1>5, <3>1, <3>3, <4>1, Zenon
      <4> QED  BY <4>2, Zenon DEF CryptoIInv, AllTold
    <3> QED  BY <3>2, <3>3, Zenon
  <2> QED  BY <1>2, <1>3, <1>5, <2>2, <2>3, <2>4, Zenon DEF CryptoIInv
<1> QED  BY <1>4, <1>5, Zenon DEF CallStep, Ending, Good, Becomes

(* What the invariant says of the value a method is called on. *)
LEMMA BeforeCall ==
  ASSUME CryptoIInv, NEW s \in Slots
  PROVE  /\ object \in {"null", "empty"} \cup KeyMaterial
         /\ told[s] \in Tolds
         /\ slot[s].raw # Null => /\ op[slot[s].raw] \in Ops
                                  /\ Agree(op[slot[s].raw], told[s])
<1>1. slot[s].raw # Null => slot[s].raw \in Cells
  BY Zenon DEF CryptoIInv, CryptoTyped, OpValues
<1> QED  BY <1>1, Zenon DEF CryptoIInv, CryptoTyped, AllTold

(* What a call leaves behind is as the TA is told. *)
LEMMA StateTyped ==
  ASSUME NEW o \in Ops, NEW a \in BOOLEAN, NEW i \in BOOLEAN, NEW f \in Seq(Chunks)
  PROVE  /\ State(o, a, i, f) \in Ops
         /\ State(o, a, i, f).key = o.key /\ State(o, a, i, f).fed = f
BY Zenon DEF State, Ops

(* What is told has its type. *)
LEMMA ToldTyped ==
  ASSUME NEW t \in Tolds, NEW f \in Seq(Chunks)
  PROVE  /\ [t EXCEPT !.fed = f] \in Tolds
         /\ [t EXCEPT !.fed = f].key = t.key /\ [t EXCEPT !.fed = f].fed = f
BY Zenon DEF Tolds

(* What finishing, starting and feeding an operation leaves, and what the  *)
(* TA is told of it.                                                       *)
LEMMA RestartGood ==
  ASSUME NEW o \in Ops, NEW t \in Tolds, Agree(o, t)
  PROVE  /\ Good(Restart(o), TellFinal(t, "ok")) /\ Good(Restart(o), TellFinal(t, "invalid"))
         /\ Good(Restart(o), TellStart(t, "ok")) /\ Good(Start(o), TellStart(t, "ok"))
         /\ Good(State(o, FALSE, TRUE, <<>>), TellStart(t, "ok"))
         /\ Good(o, TellFinal(t, "short")) /\ Good(o, TellStart(t, "error"))
<1> DEFINE u == [t EXCEPT !.fed = <<>>]
<1>1. <<>> \in Seq(Chunks)
  OBVIOUS
<1>2. u \in Tolds /\ u.key = t.key /\ u.fed = <<>>
  BY <1>1, ToldTyped, Zenon
<1>3. TellFinal(t, "ok") = u /\ TellFinal(t, "invalid") = u /\ TellStart(t, "ok") = u
  BY DEF TellFinal, TellStart
<1>4. TellFinal(t, "short") = t /\ TellStart(t, "error") = t
  BY DEF TellFinal, TellStart
<1> HIDE DEF u
<1> DEFINE fresh(q) == q \in Ops /\ q.key = o.key /\ q.fed = <<>>
<1>5. fresh(Restart(o)) /\ fresh(Start(o)) /\ fresh(State(o, FALSE, TRUE, <<>>))
  <2>1. fresh(Restart(o))
    BY <1>1, Zenon DEF Restart, State, Ops
  <2>2. fresh(Start(o))
    BY <1>1, Zenon DEF Start, State, Ops
  <2>3. fresh(State(o, FALSE, TRUE, <<>>))
    BY <1>1, Zenon DEF State, Ops
  <2> QED  BY <2>1, <2>2, <2>3, Zenon
<1>6. \A q : fresh(q) => Good(q, u)
  BY <1>2, Zenon DEF Good, Agree
<1> HIDE DEF fresh
<1> QED  BY <1>3, <1>4, <1>5, <1>6, Zenon DEF Good

(* Feeding an operation tells the TA the same. *)
LEMMA FeedGood ==
  ASSUME NEW o \in Ops, NEW t \in Tolds, Agree(o, t), NEW x \in Chunks
  PROVE  /\ Good(Feed(o, x), TellFed(t, "ok", x))
         /\ Good(State(o, o.active, o.init, Append(o.fed, x)), TellFed(t, "ok", x))
         /\ Good(o, TellFed(t, "short", x))
<1> DEFINE f == Append(o.fed, x)
<1>1. f \in Seq(Chunks) /\ o.active \in BOOLEAN /\ o.init \in BOOLEAN
  BY DEF Ops
<1>2. TellFed(t, "ok", x) = [t EXCEPT !.fed = f] /\ TellFed(t, "short", x) = t
  BY DEF TellFed, Agree
<1> HIDE DEF f
<1>3. /\ TellFed(t, "ok", x) \in Tolds
      /\ TellFed(t, "ok", x).key = t.key /\ TellFed(t, "ok", x).fed = f
  <2>1. /\ [t EXCEPT !.fed = f] \in Tolds
        /\ [t EXCEPT !.fed = f].key = t.key /\ [t EXCEPT !.fed = f].fed = f
    BY <1>1, ToldTyped, Zenon
  <2> QED  BY <1>2, <2>1, Zenon
<1>4. ASSUME NEW a \in BOOLEAN
      PROVE  Good(State(o, a, o.init, f), TellFed(t, "ok", x))
  <2>1. /\ State(o, a, o.init, f) \in Ops
        /\ State(o, a, o.init, f).key = o.key /\ State(o, a, o.init, f).fed = f
    BY <1>1, StateTyped
  <2>2. o.key = t.key  BY Zenon DEF Agree
  <2> QED  BY <1>3, <2>1, <2>2, Zenon DEF Good, Agree
<1>5. Good(o, TellFed(t, "short", x))
  BY <1>2 DEF Good
<1> QED  BY <1>1, <1>4, <1>5, Zenon DEF Feed, f

(* The methods one by one: they end the TA, or leave an outcome as above. *)
LEMMA UpdateStep ==
  ASSUME CryptoIInv, NEW s \in Slots, NEW x \in Chunks,
         \/ DigestUpdate(s, x) \/ CipherUpdate(s, x) \/ MacUpdate(s, x)
         \/ AEUpdateAad(s, x) \/ AEUpdate(s, x)
  PROVE  CallStep(s)
<1> DEFINE o == op[slot[s].raw]
           aad == State(o, o.active, o.init, Append(o.fed, x))
           Taken == /\ slot[s].raw # Null
                    /\ \E p \in {<<Feed(o, x), "ok">>, <<aad, "ok">>, <<o, "short">>} :
                         /\ op' = [op EXCEPT ![slot[s].raw] = p[1]]
                         /\ told' = [told EXCEPT ![s] = TellFed(told[s], p[2], x)]
                    /\ UNCHANGED <<misuse, dead>>
<1>1. CallFrame /\ object' = object
  BY Zenon DEF DigestUpdate, CipherUpdate, MacUpdate, AEUpdateAad, AEUpdate, Call, CallFrame,
         ObjectSame
<1>2. Ending \/ Taken
  <2>1. CASE DigestUpdate(s, x)
    BY <2>1, Zenon DEF DigestUpdate, Call, Ending
  <2>2. CASE CipherUpdate(s, x)
    BY <2>2, Zenon DEF CipherUpdate, Call, Ending, Short
  <2>3. CASE MacUpdate(s, x)
    BY <2>3, Zenon DEF MacUpdate, Call, Ending
  <2>4. CASE AEUpdateAad(s, x)
    BY <2>4, Zenon DEF AEUpdateAad, Call, Ending
  <2>5. CASE AEUpdate(s, x)
    BY <2>5, Zenon DEF AEUpdate, Call, Ending, Short
  <2> QED  BY <2>1, <2>2, <2>3, <2>4, <2>5, Zenon
<1>3. slot[s].raw # Null => /\ Good(Feed(o, x), TellFed(told[s], "ok", x))
                            /\ Good(aad, TellFed(told[s], "ok", x))
                            /\ Good(o, TellFed(told[s], "short", x))
  BY BeforeCall, FeedGood, Zenon
<1> HIDE DEF o, aad
<1>4. \/ Ending
      \/ Becomes(s, Feed(o, x), TellFed(told[s], "ok", x))
      \/ Becomes(s, aad, TellFed(told[s], "ok", x))
      \/ Becomes(s, o, TellFed(told[s], "short", x))
  BY <1>2 DEF Becomes
<1> QED  BY <1>1, <1>3, <1>4, BeforeCall, Zenon DEF CallStep, Becomes, Good

(* The calls that end an operation. *)
LEMMA FinalStep ==
  ASSUME CryptoIInv, NEW s \in Slots,
         \/ DigestDoFinal(s) \/ CipherDoFinal(s) \/ MacComputeFinal(s) \/ MacCompareFinal(s)
         \/ AEEncryptFinal(s) \/ AEDecryptFinal(s)
  PROVE  CallStep(s)
<1> DEFINE o == op[slot[s].raw]
           Taken == /\ slot[s].raw # Null
                    /\ \E p \in {<<Restart(o), "ok">>, <<Restart(o), "invalid">>,
                                 <<o, "short">>} :
                         /\ op' = [op EXCEPT ![slot[s].raw] = p[1]]
                         /\ told' = [told EXCEPT ![s] = TellFinal(told[s], p[2])]
                    /\ UNCHANGED <<misuse, dead>>
<1>1. CallFrame /\ object' = object
  BY Zenon DEF DigestDoFinal, CipherDoFinal, MacComputeFinal, MacCompareFinal, AEEncryptFinal,
         AEDecryptFinal, Call, CallFrame, ObjectSame
<1>2. Ending \/ Taken
  <2>1. CASE DigestDoFinal(s)
    BY <2>1, Zenon DEF DigestDoFinal, Call, Ending, Short
  <2>2. CASE CipherDoFinal(s)
    BY <2>2, Zenon DEF CipherDoFinal, Call, Ending, Short
  <2>3. CASE MacComputeFinal(s)
    BY <2>3, Zenon DEF MacComputeFinal, Call, Ending, Short
  <2>4. CASE MacCompareFinal(s)
    BY <2>4, Zenon DEF MacCompareFinal, Call, Ending
  <2>5. CASE AEEncryptFinal(s)
    BY <2>5, Zenon DEF AEEncryptFinal, Call, Ending, Short
  <2>6. CASE AEDecryptFinal(s)
    BY <2>6, Zenon DEF AEDecryptFinal, Call, Ending, Short
  <2> QED  BY <2>1, <2>2, <2>3, <2>4, <2>5, <2>6, Zenon
<1>3. slot[s].raw # Null => /\ Good(Restart(o), TellFinal(told[s], "ok"))
                            /\ Good(Restart(o), TellFinal(told[s], "invalid"))
                            /\ Good(o, TellFinal(told[s], "short"))
  BY BeforeCall, RestartGood, Zenon
<1> HIDE DEF o
<1>4. \/ Ending
      \/ Becomes(s, Restart(o), TellFinal(told[s], "ok"))
      \/ Becomes(s, Restart(o), TellFinal(told[s], "invalid"))
      \/ Becomes(s, o, TellFinal(told[s], "short"))
  BY <1>2 DEF Becomes
<1> QED  BY <1>1, <1>3, <1>4, BeforeCall, Zenon DEF CallStep, Becomes, Good

(* The calls that start or reset one. *)
LEMMA StartStep ==
  ASSUME CryptoIInv, NEW s \in Slots, CipherInit(s) \/ MacInit(s) \/ AEInit(s) \/ Reset(s)
  PROVE  CallStep(s)
<1> DEFINE o == op[slot[s].raw]
           ae == State(o, FALSE, TRUE, <<>>)
           Taken == /\ slot[s].raw # Null
                    /\ \E p \in {<<Start(o), "ok">>, <<ae, "ok">>, <<Restart(o), "ok">>,
                                 <<o, "error">>} :
                         /\ op' = [op EXCEPT ![slot[s].raw] = p[1]]
                         /\ told' = [told EXCEPT ![s] = TellStart(told[s], p[2])]
                    /\ UNCHANGED <<misuse, dead>>
<1>1. CallFrame /\ object' = object
  BY Zenon DEF CipherInit, MacInit, AEInit, Reset, Call, CallFrame, ObjectSame
<1>2. Ending \/ Taken
  <2>1. CASE CipherInit(s)
    BY <2>1, Zenon DEF CipherInit, Call, Ending
  <2>2. CASE MacInit(s)
    BY <2>2, Zenon DEF MacInit, Call, Ending
  <2>3. CASE AEInit(s)
    BY <2>3, Zenon DEF AEInit, Call, Ending
  <2>4. CASE Reset(s)
    BY <2>4, Zenon DEF Reset, Call, Ending
  <2> QED  BY <2>1, <2>2, <2>3, <2>4, Zenon
<1>3. slot[s].raw # Null => /\ Good(Start(o), TellStart(told[s], "ok"))
                            /\ Good(ae, TellStart(told[s], "ok"))
                            /\ Good(Restart(o), TellStart(told[s], "ok"))
                            /\ Good(o, TellStart(told[s], "error"))
  BY BeforeCall, RestartGood, Zenon
<1> HIDE DEF o, ae
<1>4. \/ Ending
      \/ Becomes(s, Start(o), TellStart(told[s], "ok"))
      \/ Becomes(s, ae, TellStart(told[s], "ok"))
      \/ Becomes(s, Restart(o), TellStart(told[s], "ok"))
      \/ Becomes(s, o, TellStart(told[s], "error"))
  <2> SUFFICES ASSUME slot[s].raw # Null, UNCHANGED <<misuse, dead>>,
                      NEW p \in {<<Start(o), "ok">>, <<ae, "ok">>, <<Restart(o), "ok">>,
                                 <<o, "error">>},
                      op' = [op EXCEPT ![slot[s].raw] = p[1]],
                      told' = [told EXCEPT ![s] = TellStart(told[s], p[2])]
               PROVE  \/ Becomes(s, Start(o), TellStart(told[s], "ok"))
                      \/ Becomes(s, ae, TellStart(told[s], "ok"))
                      \/ Becomes(s, Restart(o), TellStart(told[s], "ok"))
                      \/ Becomes(s, o, TellStart(told[s], "error"))
    BY <1>2, Zenon
  <2>1. CASE p = <<Start(o), "ok">>
    BY <2>1, Zenon DEF Becomes
  <2>2. CASE p = <<ae, "ok">>
    BY <2>2, Zenon DEF Becomes
  <2>3. CASE p = <<Restart(o), "ok">>
    BY <2>3, Zenon DEF Becomes
  <2>4. CASE p = <<o, "error">>
    BY <2>4, Zenon DEF Becomes
  <2> QED  BY <2>1, <2>2, <2>3, <2>4, Zenon
<1> QED  BY <1>1, <1>3, <1>4, BeforeCall, Zenon DEF CallStep, Becomes, Good

(* The calls that leave an operation as it is. *)
LEMMA SameStep ==
  ASSUME CryptoIInv, NEW s \in Slots,
         \/ AsymEncrypt(s) \/ AsymDecrypt(s) \/ AsymSignDigest(s) \/ AsymVerifyDigest(s)
         \/ Info(s) \/ InfoMultiple(s) \/ \E k \in KeyMaterial : Derive(s, k)
  PROVE  CallStep(s)
<1> DEFINE o == op[slot[s].raw]
           Taken(q) == /\ slot[s].raw # Null
                       /\ \E p \in {q} : /\ op' = [op EXCEPT ![slot[s].raw] = p[1]]
                                        /\ told' = [told EXCEPT ![s] = told[s]]
                       /\ UNCHANGED <<misuse, dead>>
<1>1. ASSUME NEW m, NEW codes, OneShot(s, m, codes)
      PROVE  CallFrame /\ object' = object /\ (Ending \/ Becomes(s, o, told[s]))
  <2>1. CallFrame /\ object' = object
    BY <1>1, Zenon DEF OneShot, Call, CallFrame, ObjectSame
  <2>2. \/ Ending
        \/ /\ slot[s].raw # Null
           /\ \E p \in {<<o, c>> : c \in codes} :
                /\ op' = [op EXCEPT ![slot[s].raw] = p[1]]
                /\ told' = [told EXCEPT ![s] = told[s]]
           /\ UNCHANGED <<misuse, dead>>
    BY <1>1, Zenon DEF OneShot, Call, Ending, Same
  <2> HIDE DEF o
  <2> QED  BY <2>1, <2>2 DEF Becomes
<1>2. CASE Info(s)
  <2>1. CallFrame /\ object' = object
    BY <1>2, Zenon DEF Info, Call, CallFrame, ObjectSame
  <2>2. Ending \/ Becomes(s, o, told[s])
    <3>1. Ending \/ Taken(<<o, "ok">>)
      BY <1>2, Zenon DEF Info, Call, Ending, Same
    <3> HIDE DEF o
    <3> QED  BY <3>1 DEF Becomes
  <2> QED  BY <2>1, <2>2, BeforeCall, Zenon DEF CallStep, Becomes, Good
<1>3. CASE InfoMultiple(s)
  <2>1. CallFrame /\ object' = object
    BY <1>3, Zenon DEF InfoMultiple, Call, CallFrame, ObjectSame
  <2>2. Ending \/ Becomes(s, o, told[s])
    <3>1. Ending \/ Taken(<<o, "short">>)
      BY <1>3, Zenon DEF InfoMultiple, Call, Ending, Same, Short
    <3> HIDE DEF o
    <3> QED  BY <3>1 DEF Becomes
  <2> QED  BY <2>1, <2>2, BeforeCall DEF CallStep, Becomes, Good
<1>4. ASSUME NEW k \in KeyMaterial, Derive(s, k)
      PROVE  CallStep(s)
  <2>1. CallFrame /\ object' \in {object, k}
    BY <1>4, Zenon DEF Derive, Call, CallFrame
  <2>2. Ending \/ Becomes(s, o, told[s])
    <3>1. Ending \/ Taken(<<o, "ok">>)
      BY <1>4, Zenon DEF Derive, Call, Ending, Same
    <3> HIDE DEF o
    <3> QED  BY <3>1 DEF Becomes
  <2>3. object' \in {"null", "empty"} \cup KeyMaterial
    BY <2>1, BeforeCall, Zenon
  <2> QED  BY <2>1, <2>2, <2>3, BeforeCall, Zenon DEF CallStep, Becomes, Good
<1>5. CASE AsymEncrypt(s) \/ AsymDecrypt(s) \/ AsymSignDigest(s) \/ AsymVerifyDigest(s)
  <2>1. CallFrame /\ object' = object /\ (Ending \/ Becomes(s, o, told[s]))
    BY <1>1, <1>5, Zenon DEF AsymEncrypt, AsymDecrypt, AsymSignDigest, AsymVerifyDigest
  <2> QED  BY <2>1, BeforeCall, Zenon DEF CallStep, Becomes, Good
<1> QED  BY <1>2, <1>3, <1>4, <1>5, Zenon

(* A new key is the one the TA is told of. *)
LEMMA KeyGood ==
  ASSUME NEW o \in Ops, NEW t \in Tolds, Agree(o, t), NEW k \in Seq(KeyMaterial)
  PROVE  Good(WithKey(o, k), TellKey(t, "ok", k)) /\ Good(o, TellKey(t, "error", k))
<1>1. WithKey(o, k) \in Ops /\ WithKey(o, k).key = k /\ WithKey(o, k).fed = o.fed
  BY Zenon DEF Ops, WithKey
<1>2. TellKey(t, "error", k) = t /\ TellKey(t, "ok", k) = [t EXCEPT !.key = k]
  BY DEF TellKey
<1>3. /\ [t EXCEPT !.key = k] \in Tolds
      /\ [t EXCEPT !.key = k].key = k /\ [t EXCEPT !.key = k].fed = t.fed
  BY Zenon DEF Tolds
<1> QED  BY <1>1, <1>2, <1>3, Zenon DEF Good, Agree

(* The calls that set a key. *)
LEMMA SetKeyStep ==
  ASSUME CryptoIInv, NEW s \in Slots, SetKey(s) \/ \E k \in KeyMaterial : SetKey2(s, k)
  PROVE  CallStep(s)
<1> DEFINE o == op[slot[s].raw]
           Taken(k) == /\ slot[s].raw # Null
                       /\ \E p \in {<<WithKey(o, k), "ok">>, <<o, "error">>} :
                            /\ op' = [op EXCEPT ![slot[s].raw] = p[1]]
                            /\ told' = [told EXCEPT ![s] = TellKey(told[s], p[2], k)]
                       /\ UNCHANGED <<misuse, dead>>
<1>1. CallFrame /\ object' = object
  BY Zenon DEF SetKey, SetKey2, Call, CallFrame, ObjectSame
<1>2. Ending \/ \E k \in Seq(KeyMaterial) : Taken(k)
  <2>1. CASE SetKey(s)
    <3>1. Ending \/ (object # "empty" /\ Taken(KeyOf(object)))
      BY <2>1, Zenon DEF SetKey, Call, Ending
    <3>2. object # "empty" => KeyOf(object) \in Seq(KeyMaterial)
      BY BeforeCall DEF KeyOf
    <3> QED  BY <3>1, <3>2, Zenon
  <2>2. ASSUME NEW k \in KeyMaterial, SetKey2(s, k)
        PROVE  Ending \/ \E q \in Seq(KeyMaterial) : Taken(q)
    <3>1. Ending \/ (object \in KeyMaterial /\ Taken(<<object, k>>))
      BY <2>2, Zenon DEF SetKey2, Call, Ending
    <3>2. object \in KeyMaterial => <<object, k>> \in Seq(KeyMaterial)
      OBVIOUS
    <3> QED  BY <3>1, <3>2, Zenon
  <2> QED  BY <2>1, <2>2, Zenon
<1>3. CASE Ending
  BY <1>1, <1>3, BeforeCall, Zenon DEF CallStep
<1>4. ASSUME NEW k \in Seq(KeyMaterial), Taken(k)
      PROVE  CallStep(s)
  <2>1. /\ Good(WithKey(o, k), TellKey(told[s], "ok", k))
        /\ Good(o, TellKey(told[s], "error", k))
    BY <1>4, BeforeCall, KeyGood, Zenon
  <2> HIDE DEF o
  <2>2. \/ Becomes(s, WithKey(o, k), TellKey(told[s], "ok", k))
        \/ Becomes(s, o, TellKey(told[s], "error", k))
    <3>1. PICK p \in {<<WithKey(o, k), "ok">>, <<o, "error">>} :
            /\ op' = [op EXCEPT ![slot[s].raw] = p[1]]
            /\ told' = [told EXCEPT ![s] = TellKey(told[s], p[2], k)]
      BY <1>4, Zenon
    <3>2. CASE p = <<WithKey(o, k), "ok">>
      BY <1>4, <3>1, <3>2, Zenon DEF Becomes
    <3>3. CASE p = <<o, "error">>
      BY <1>4, <3>1, <3>3, Zenon DEF Becomes
    <3> QED  BY <3>1, <3>2, <3>3, Zenon
  <2> QED  BY <1>1, <2>1, <2>2, BeforeCall, Zenon DEF CallStep, Good
<1> QED  BY <1>2, <1>3, <1>4, Zenon

(* A copy of the state of another value. *)
LEMMA CopyStep ==
  ASSUME CryptoIInv, NEW s \in Slots, NEW t \in Slots, Copy(s, t)
  PROVE  CallStep(s)
<1> DEFINE o == op[slot[t].raw]
<1>1. CallFrame /\ object' = object
  BY Zenon DEF Copy, Call, CallFrame, ObjectSame
<1>2. \/ Ending
      \/ /\ slot[s].raw # Null /\ slot[t].raw # Null
         /\ \E p \in {<<o, "ok">>} : /\ op' = [op EXCEPT ![slot[s].raw] = p[1]]
                                     /\ told' = [told EXCEPT ![s] = told[t]]
         /\ UNCHANGED <<misuse, dead>>
  BY Zenon DEF Copy, Call, Ending
<1>3. slot[t].raw # Null => Good(o, told[t])
  BY BeforeCall, Zenon DEF Good
<1> HIDE DEF o
<1>4. Ending \/ (slot[t].raw # Null /\ Becomes(s, o, told[t]))
  BY <1>2 DEF Becomes
<1> QED  BY <1>1, <1>3, <1>4, BeforeCall, Zenon DEF CallStep, Good

-----------------------------------------------------------------------------
(* The calls that several types of operation have. *)
LEMMA CommonKeeps ==
  ASSUME CryptoIInv, NEW s \in Slots, Common(s) \/ Reset(s) \/ SetKey(s)
                                \/ \E k \in KeyMaterial : SetKey2(s, k)
  PROVE  CryptoIInv'
<1>1. CallStep(s)
  BY SameStep, CopyStep, StartStep, SetKeyStep, Zenon DEF Common
<1> QED  BY <1>1, CallStepKeeps, Zenon

(* The key object changes. *)
LEMMA ObjectKeeps ==
  ASSUME CryptoIInv, AllocateObject \/ ResetObject \/ \E k \in KeyMaterial : Populate(k)
  PROVE  CryptoIInv'
<1>1. /\ UNCHANGED <<slot, cell, op, told, ret, failed, misuse, dead>>
      /\ object' \in {"null", "empty"} \cup KeyMaterial
  BY Zenon DEF AllocateObject, ResetObject, Populate, SetObject
<1>2. CryptoTyped'
  BY <1>1, Zenon DEF CryptoIInv, CryptoTyped
<1>3. BoxOwned' /\ OpOwned' /\ AllTold' /\ LeaksCounted'
  BY <1>1, Zenon DEF CryptoIInv, BoxOwned, OpOwned, AllTold, Agree, LeaksCounted, Leaked
<1> QED  BY <1>1, <1>2, <1>3, Zenon DEF CryptoIInv

(* The calls of each type of operation. *)
LEMMA KindsKeep ==
  ASSUME CryptoIInv, NEW s \in Slots,
         \/ DigestCommon(s) \/ CipherCommon(s) \/ MacCommon(s)
         \/ AECommon(s) \/ AsymCommon(s) \/ DeriveCommon(s)
  PROVE  CryptoIInv'
<1>1. CASE \E k \in Kinds : NewNull(s, k)
  BY <1>1, NewNullKeeps, Zenon
<1>2. CASE \E k \in Kinds, a \in Algorithms, m \in ModeNames : Allocate(s, k, a, m)
  BY <1>2, AllocateKeeps, Zenon
<1>3. CASE Common(s) \/ Reset(s) \/ SetKey(s) \/ \E k \in KeyMaterial : SetKey2(s, k)
  BY <1>3, CommonKeeps, Zenon
<1>4. /\ {"Digest", "Cipher", "Mac", "AE", "Asymmetric", "DeriveKey"} = Kinds
      /\ {"Digest", "Mac", "Derive", "Encrypt", "Decrypt", "Sign", "Verify"} \subseteq ModeNames
  BY Zenon DEF Kinds, ModeNames
<1>5. CASE DigestCommon(s)
  BY <1>1, <1>2, <1>3, <1>4, <1>5, Zenon DEF DigestCommon
<1>6. CASE CipherCommon(s)
  BY <1>1, <1>2, <1>3, <1>4, <1>6, Zenon DEF CipherCommon
<1>7. CASE MacCommon(s)
  BY <1>1, <1>2, <1>3, <1>4, <1>7, Zenon DEF MacCommon
<1>8. CASE AECommon(s)
  BY <1>1, <1>2, <1>3, <1>4, <1>8, Zenon DEF AECommon
<1>9. CASE AsymCommon(s)
  BY <1>1, <1>2, <1>3, <1>4, <1>9, Zenon DEF AsymCommon
<1>10. CASE DeriveCommon(s)
  BY <1>1, <1>2, <1>3, <1>4, <1>10, Zenon DEF DeriveCommon
<1> QED  BY <1>5, <1>6, <1>7, <1>8, <1>9, <1>10, Zenon

(* Every step preserves the invariant. *)
LEMMA NextIInv == CryptoIInv /\ [CryptoNext]_cryptoVars => CryptoIInv'
<1> SUFFICES ASSUME CryptoIInv, [CryptoNext]_cryptoVars PROVE CryptoIInv'
  OBVIOUS
<1>1. ASSUME NEW s \in Slots, DropOperation(s)
      PROVE  CryptoIInv'
  BY <1>1, DropKeeps, Zenon
<1>2. ASSUME NEW s \in Slots,
             \/ DigestCommon(s) \/ CipherCommon(s) \/ MacCommon(s)
             \/ AECommon(s) \/ AsymCommon(s) \/ DeriveCommon(s)
      PROVE  CryptoIInv'
  BY <1>2, KindsKeep, Zenon
<1>3. ASSUME NEW s \in Slots, NEW x \in Chunks,
             \/ DigestUpdate(s, x) \/ CipherUpdate(s, x) \/ MacUpdate(s, x)
             \/ AEUpdateAad(s, x) \/ AEUpdate(s, x)
      PROVE  CryptoIInv'
  BY <1>3, UpdateStep, CallStepKeeps, Zenon
<1>4. ASSUME NEW s \in Slots,
             \/ DigestDoFinal(s) \/ CipherDoFinal(s) \/ MacComputeFinal(s)
             \/ MacCompareFinal(s) \/ AEEncryptFinal(s) \/ AEDecryptFinal(s)
      PROVE  CryptoIInv'
  BY <1>4, FinalStep, CallStepKeeps, Zenon
<1>5. ASSUME NEW s \in Slots, CipherInit(s) \/ MacInit(s) \/ AEInit(s)
      PROVE  CryptoIInv'
  BY <1>5, StartStep, CallStepKeeps, Zenon
<1>6. ASSUME NEW s \in Slots,
             \/ AsymEncrypt(s) \/ AsymDecrypt(s) \/ AsymSignDigest(s)
             \/ AsymVerifyDigest(s) \/ \E k \in KeyMaterial : Derive(s, k)
      PROVE  CryptoIInv'
  BY <1>6, SameStep, CallStepKeeps, Zenon
<1>7. CASE AllocateObject \/ ResetObject \/ \E k \in KeyMaterial : Populate(k)
  BY <1>7, ObjectKeeps
<1>8. CASE UNCHANGED cryptoVars
  <2>1. CryptoTyped' /\ BoxOwned' /\ OpOwned'
    BY <1>8, Zenon DEF cryptoVars, CryptoIInv, CryptoTyped, BoxOwned, OpOwned
  <2>2. AllTold' /\ LeaksCounted'
    BY <1>8, Zenon DEF cryptoVars, CryptoIInv, AllTold, Agree, LeaksCounted, Leaked
  <2> QED  BY <1>8, <2>1, <2>2, Zenon DEF cryptoVars, CryptoIInv
<1> QED  BY <1>1, <1>2, <1>3, <1>4, <1>5, <1>6, <1>7, <1>8, Zenon DEF CryptoNext

(* The invariant holds of every execution of the TA. *)
THEOREM CryptoIInvHolds == CryptoSpec => []CryptoIInv
BY InitCryptoIInv, NextIInv, PTL DEF CryptoSpec

(* Every operation the TEE holds open belongs to exactly one value, through *)
(* a live Box, and no Box is freed twice (OperationHandle::drop, allocate, *)
(* copy).                                                                  *)
THEOREM AlwaysOneOwner == CryptoSpec => []OneOwner
<1>1. CryptoIInv => OneOwner
  <2> SUFFICES ASSUME CryptoIInv, NEW c \in Cells, op[c] # NoOp
               PROVE  cell[c] = "live" /\ Cardinality(Owners(c)) = 1
    BY Zenon DEF OneOwner, CryptoIInv
  <2>1. PICK s \in Slots : slot[s].raw = c
    BY Zenon DEF CryptoIInv, OpOwned
  <2>2. c # Null /\ slot[s].kind # "none"
    BY <2>1, CellAssumption, Zenon DEF CryptoIInv, BoxOwned
  <2>3. cell[c] = "live" /\ \A t \in Slots : slot[t].raw = c => t = s
    BY <2>1, <2>2, Zenon DEF CryptoIInv, BoxOwned
  <2>4. Owners(c) = {s}
    BY <2>1, <2>2, <2>3, Zenon DEF Owners
  <2> QED  BY <2>3, <2>4, FS_Singleton, Zenon
<1> QED  BY <1>1, CryptoIInvHolds, PTL

(* The Boxes without an owner are exactly those of the failed allocations. *)
THEOREM AlwaysLeaksAreFailures == CryptoSpec => []LeaksAreFailures
<1>1. CryptoIInv => LeaksAreFailures
  <2> SUFFICES ASSUME CryptoIInv PROVE LeaksAreFailures
    OBVIOUS
  <2>1. ASSUME NEW c \in Cells
        PROVE  Owners(c) = {} <=> \A s \in Slots : slot[s].raw # c
    BY CellAssumption, Zenon DEF CryptoIInv, BoxOwned, Owners
  <2>2. {c \in Cells : cell[c] = "live" /\ Owners(c) = {}} = Leaked
    BY <2>1, Zenon DEF Leaked
  <2> QED  BY <2>2, Zenon DEF CryptoIInv, LeaksCounted, LeaksAreFailures
<1> QED  BY <1>1, CryptoIInvHolds, PTL

(* An operation holds exactly the key and the data the TA was told were    *)
(* accepted, whatever the other values and the key object go through.      *)
THEOREM AlwaysHoldsWhatWasTold == CryptoSpec => []HoldsWhatWasTold
<1>1. CryptoIInv => HoldsWhatWasTold
  BY Zenon DEF CryptoIInv, AllTold, Agree, HoldsWhatWasTold
<1> QED  BY <1>1, CryptoIInvHolds, PTL
=============================================================================
