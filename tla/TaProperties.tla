---------------------------- MODULE TaProperties ----------------------------
(***************************************************************************)
(* The properties of a TA, from the TaConfig of its build script over the  *)
(* header that HeaderFileGenerator writes (ta_props, ta_head and ta_heap)  *)
(* to the values that PropertyKey::get reads in the TA.  The lookup in the *)
(* TEE is external, and so are the properties of the client and the TEE.   *)
(* A string is a sequence of characters, "nul" one of them, and C takes it *)
(* up to the first "nul"; flags are the set of bits that are 1; a UUID is  *)
(* the sequence of its four fields.                                        *)
(***************************************************************************)
EXTENDS Integers, Sequences

CONSTANTS Word,      \* 2^32, the range of u32
          Sizes,     \* stack sizes
          Texts,     \* strings: versions and the values of string properties
          Blocks,    \* the bytes of binary properties
          Uuids,     \* UUIDs
          Names,     \* names of additional properties
          Types,     \* the types of the additional properties
          MaxCalls   \* calls of the methods of TaConfig

ASSUME SizesAssumption == Word \in Nat \ {0} /\ Sizes \subseteq 0..(Word - 1)
ASSUME TextsAssumption == Texts \subseteq Seq(STRING) /\ Names \subseteq Seq(STRING) /\ Blocks \subseteq Seq(Nat)
ASSUME TypesAssumption == Types \subseteq {"Bool", "U32", "Uuid", "Identity", "Str", "BinaryBlock", "U64"}
ASSUME UuidsAssumption == \A u \in Uuids : u = <<u[1], u[2], u[3], u[4]>>

VARIABLES conf,    \* TaConfig
          calls,   \* calls of its methods so far
          header,  \* what was generated; Nothing before
          last     \* the last read in the TA: the set, the key, the type and the result
vars == <<conf, calls, header, last>>

Nothing == <<>>
Flags == {"SINGLE_INSTANCE", "MULTI_SESSION", "INSTANCE_KEEP_ALIVE", "INSTANCE_KEEP_CRASHED", "DONT_CLOSE"}

(* What is left of a string in C. *)
Nuls(s) == {i \in DOMAIN s : s[i] = "nul"}
First(places) == CHOOSE i \in places : \A j \in places : i <= j
CString(s) == IF Nuls(s) = {} THEN s ELSE SubSeq(s, 1, First(Nuls(s)) - 1)

(* Base64, as far as a property goes: a text without "nul" for any bytes.  *)
Base64(b) == [i \in DOMAIN b |-> IF b[i] = 0 THEN "A" ELSE "B"]
Decoded(s) == [i \in DOMAIN s |-> IF s[i] = "A" THEN 0 ELSE 1]

-----------------------------------------------------------------------------
(* TaConfig: new_default with a version and a description, and its methods.*)
Init == /\ \E v \in Texts : conf = [flags |-> {}, data |-> 4, stack |-> 2, framework |-> 2,
                                    version |-> v, ext |-> <<>>]
        /\ calls = 0 /\ header = Nothing /\ last = Nothing

Set(c) == /\ header = Nothing /\ calls < MaxCalls /\ calls' = calls + 1
          /\ conf' = c /\ UNCHANGED <<header, last>>

ta_flags(f) == Set([conf EXCEPT !.flags = f])
ta_stack_size(n) == Set([conf EXCEPT !.stack = n])
ta_data_size(n) == Set([conf EXCEPT !.data = n])
ta_framework_stack_size(n) == Set([conf EXCEPT !.framework = n])
add_ext_property(name, type, v) ==
  Set([conf EXCEPT !.ext = Append(@, [name |-> name, type |-> type, value |-> v])])

-----------------------------------------------------------------------------
(* HeaderFileGenerator.                                                    *)

(* An entry of ta_props: value is a pointer, to data laid out as layout.   *)
Prop(name, code, layout, value) == [name |-> name, code |-> code, layout |-> layout, value |-> value]

(* The properties every TA has.  The description is treated like the       *)
(* version, and the endianness is a constant.                              *)
Standard(c) ==
  LET Bool(name, flag) == Prop(<<name>>, 0, "bool", flag \in c.flags)
  IN << Bool("singleInstance", "SINGLE_INSTANCE"), Bool("multiSession", "MULTI_SESSION"),
        Bool("instanceKeepAlive", "INSTANCE_KEEP_ALIVE"),
        Bool("instanceKeepCrashed", "INSTANCE_KEEP_CRASHED"),
        Prop(<<"dataSize">>, 1, "u32", c.data), Prop(<<"stackSize">>, 1, "u32", c.stack),
        Prop(<<"version">>, 4, "bytes", CString(c.version)),
        Bool("doesNotCloseHandleOnCorruptObject", "DONT_CLOSE") >>

(* user_ta_prop_type, as the TEE numbers it *)
TeeType == [Bool |-> 0, U32 |-> 1, Uuid |-> 2, Identity |-> 3, Str |-> 4, BinaryBlock |-> 5, U64 |-> 6]
Layout == [Bool |-> "bool", U32 |-> "u32", Uuid |-> "TEE_UUID", Identity |-> "TEE_Identity", Str |-> "bytes",
           BinaryBlock |-> "bytes", U64 |-> "u64"]

(* Mutant: both integers have the narrower type. *)
TypeCodeNarrow ==
  [U32 |-> 1, U64 |-> 1, Bool |-> 0, Uuid |-> 2, Str |-> 4, BinaryBlock |-> 5, Identity |-> 3]

(* property_value_utee_type_codes *)
TypeCode ==
  [U32 |-> 1, U64 |-> 6, Bool |-> 0, Uuid |-> 2, Str |-> 4, BinaryBlock |-> 5, Identity |-> 3]

(* uuid_to_tee_uuid_value_codes, identity_to_tee_identity_value_codes: the *)
(* fields by name.                                                         *)
UuidCodes(u) ==
  [timeLow |-> u[1], timeMid |-> u[2], timeHiAndVersion |-> u[3], clockSeqAndNode |-> u[4]]
IdentityCodes(login, u) == [login |-> login, uuid |-> UuidCodes(u)]

(* property_value_data_codes: a string gets a NUL, and the numbers are     *)
(* written as they are.                                                    *)
Data(type, v) == IF type \in {"Str", "BinaryBlock"} THEN CString(v)
                 ELSE IF type = "Uuid" THEN UuidCodes(v)
                 ELSE IF type = "Identity" THEN IdentityCodes(v[1], v[2])
                 ELSE v

(* property_value_rust_type_declaration_codes: the type of the constant.   *)
Declared ==
  [U32 |-> "u32", U64 |-> "u64", Bool |-> "bool", Uuid |-> "TEE_UUID", Identity |-> "TEE_Identity",
   Str |-> "bytes", BinaryBlock |-> "bytes"]

(* property_value_as_utee_value_codes: what its address is cast from.      *)
Pointee ==
  [U32 |-> "u32", U64 |-> "u64", Bool |-> "bool", Uuid |-> "TEE_UUID", Str |-> "bytes",
   BinaryBlock |-> "bytes", Identity |-> "TEE_Identity"]

(* An additional property. *)
ExtProp(e) == Prop(CString(e.name), TypeCode[e.type], Pointee[e.type], Data(e.type, e.value))

(* rustc refuses a cast of a reference to another type. *)
Compiles(c) == \A i \in DOMAIN c.ext : Declared[c.ext[i].type] = Pointee[c.ext[i].type]

(* Mutant: the additional properties come first. *)
PropsExtFirst(c) == [i \in 1..Len(c.ext) |-> ExtProp(c.ext[i])] \o Standard(c)

(* write_properties *)
Props(c) == Standard(c) \o [i \in 1..Len(c.ext) |-> ExtProp(c.ext[i])]

(* write_configurations *)
Consts(c) == [flags |-> c.flags, data |-> c.data]

(* write_ta_head *)
TaHead(c, size) == [flags |-> Consts(c).flags, stack_size |-> size]

(* write_ta_heap: the bytes of ta_heap *)
TaHeap(c) == Consts(c).data

(* generate.  The sum of the two stacks is one of u32: a build script with *)
(* overflow checks panics, one without wraps.                              *)
Generate ==
  /\ header = Nothing
  /\ LET size == conf.stack + conf.framework
     IN  header' = [props |-> Props(conf), head |-> TaHead(conf, size % Word), heap |-> TaHeap(conf),
                    compiles |-> Compiles(conf)]
  /\ UNCHANGED <<conf, calls, last>>

-----------------------------------------------------------------------------
(* The keys of property.rs with their types: of the TA, as far as TaConfig *)
(* sets them, of its client, and of the TEE.                               *)
TaKeys == [singleInstance |-> "Bool", multiSession |-> "Bool", instanceKeepAlive |-> "Bool",
           instanceKeepCrashed |-> "Bool", dataSize |-> "U32", stackSize |-> "U32", version |-> "Str",
           doesNotCloseHandleOnCorruptObject |-> "Bool"]
ClientKeys == [identity |-> "Identity", endian |-> "U32"]
TeeTexts == {"apiversion", "description", "trustedos.implementation.version", "trustedos.manufacturer",
             "firmware.implementation.version", "firmware.manufacturer"}
TeeBools == {"cryptography.ecc", "cryptography.nist", "cryptography.bsi-r", "cryptography.bsi-t",
             "cryptography.ietf", "cryptography.octa"}
TeeNumbers == {"internalCore.version", "systemTime.protectionLevel", "TAPersistentTime.protectionLevel",
               "arith.maxBigIntSize", "trustedStorage.private.rollbackProtection",
               "trustedStorage.perso.rollbackProtection", "trustedStorage.protected.rollbackProtection",
               "trustedStorage.antiRollback.protectionLevel",
               "trustedStorage.rollbackDetection.protectionLevel",
               "trustedos.implementation.binaryversion", "firmware.implementation.binaryversion",
               "event.maxSources"}
TeeKeys == [k \in TeeTexts \union TeeBools \union TeeNumbers \union {"deviceID"} |->
              IF k \in TeeTexts THEN "Str" ELSE IF k \in TeeBools THEN "Bool"
              ELSE IF k \in TeeNumbers THEN "U32" ELSE "Uuid"]

(* PropertySet::as_raw *)
Keys == [CurrentTa |-> TaKeys, CurrentClient |-> ClientKeys, TeeImplementation |-> TeeKeys]

(* What the client and the TEE have is external: some value of the type.   *)
Theirs == [Bool |-> TRUE, U32 |-> 2, Str |-> <<"theirs">>, Uuid |-> UuidCodes(<<2, 2, 2, 2>>),
           Identity |-> IdentityCodes(2, <<2, 2, 2, 2>>)]
TheirProp(set, name) ==
  LET type == Keys[set][name[1]]
  IN  Prop(name, TeeType[type], Layout[type], Theirs[type])

(* The entries of ta_props that have a name. *)
Places(name) == {i \in DOMAIN header.props : header.props[i].name = name}

(* The TEE gives any property as a string, and otherwise only in its own   *)
(* type; what it reads behind the pointer goes by that type.               *)
ReadAs(p, type) ==
  IF p.code = TeeType[type] /\ p.layout = Layout[type]
  THEN [code |-> "SUCCESS", value |-> IF type = "BinaryBlock" THEN Decoded(p.value) ELSE p.value]
  ELSE IF p.code = TeeType[type] THEN [code |-> "SUCCESS", value |-> <<"undefined">>]
  ELSE IF type = "Str" THEN [code |-> "SUCCESS", value |-> <<"its", "text">>]
  ELSE [code |-> "BAD_FORMAT"]

(* It looks for the first property of that name in the set. *)
TeeGet(set, name, type) ==
  IF set = "CurrentTa"
  THEN IF Places(name) = {} THEN [code |-> "ITEM_NOT_FOUND"]
       ELSE ReadAs(header.props[First(Places(name))], type)
  ELSE IF name[1] \notin DOMAIN Keys[set] THEN [code |-> "ITEM_NOT_FOUND"]
  ELSE ReadAs(TheirProp(set, name), type)

(* The first of the two calls for a string or a block: with no buffer, it  *)
(* succeeds only if there is nothing to write.  A string has its NUL.      *)
SizeCall(got, type) ==
  LET room == IF type = "Str" THEN 1 ELSE 0
  IN  IF got.code # "SUCCESS" THEN [code |-> got.code, size |-> 0]
      ELSE IF room + Len(got.value) = 0 THEN [code |-> "SUCCESS", size |-> 0]
      ELSE [code |-> "SHORT_BUFFER", size |-> room + Len(got.value)]

(* What both make of a first call that succeeds. *)
NoneNeeded(first) == IF first.size = 0 THEN [code |-> "SUCCESS", value |-> <<>>] ELSE [code |-> "GENERIC"]

(* from_raw of String: the buffer must end with its only NUL. *)
FromRawString(set, name) ==
  LET second == TeeGet(set, name, "Str")
      first == SizeCall(second, "Str")
  IN  IF first.code = "SUCCESS" THEN NoneNeeded(first)
      ELSE IF first.code # "SHORT_BUFFER" THEN [code |-> first.code]
      ELSE IF second.code = "SUCCESS" /\ CString(second.value) # second.value THEN [code |-> "BAD_FORMAT"]
      ELSE second

(* from_raw of Vec<u8> *)
FromRawBlock(set, name) ==
  LET second == TeeGet(set, name, "BinaryBlock")
      first == SizeCall(second, "BinaryBlock")
  IN  IF first.code = "SUCCESS" THEN NoneNeeded(first)
      ELSE IF first.code # "SHORT_BUFFER" THEN [code |-> first.code]
      ELSE second

(* from_raw of bool, u32 and u64, and of Uuid and Identity, whose fields   *)
(* the TEE fills in.                                                       *)
FromRawPlain(set, name, type) == TeeGet(set, name, type)
FromRawFields(set, name, type) == TeeGet(set, name, type)

(* What a TA sees of a UUID. *)
Shown(raw) == <<raw.timeLow, raw.timeMid, raw.timeHiAndVersion, raw.clockSeqAndNode>>

(* PropertyKey::get *)
FromRaw(set, name, type) ==
  IF type = "Str" THEN FromRawString(set, name)
  ELSE IF type = "BinaryBlock" THEN FromRawBlock(set, name)
  ELSE IF type \in {"Uuid", "Identity"} THEN FromRawFields(set, name, type)
  ELSE FromRawPlain(set, name, type)
Get(set, name, type) ==
  /\ header # Nothing /\ header.compiles /\ last = Nothing
  /\ last' = [set |-> set, name |-> name, type |-> type, got |-> FromRaw(set, name, type)]
  /\ UNCHANGED <<conf, calls, header>>

(* A value of the type. *)
Values == [Bool |-> BOOLEAN, U32 |-> {0, 1}, U64 |-> {0, 1}, Str |-> Texts,
           BinaryBlock |-> {Base64(b) : b \in Blocks}, Uuid |-> Uuids, Identity |-> {0, 1} \X Uuids]

Next ==
  \/ \E f \in SUBSET Flags : ta_flags(f)
  \/ \E n \in Sizes : ta_stack_size(n) \/ ta_data_size(n) \/ ta_framework_stack_size(n)
  \/ \E n \in Names, t \in Types : \E v \in Values[t] : add_ext_property(n, t, v)
  \/ Generate
  \/ \E set \in DOMAIN Keys : \E k \in DOMAIN Keys[set] : Get(set, <<k>>, Keys[set][k])
  \/ \E n \in Names, t \in Types : n = CString(n) /\ Get("CurrentTa", n, t)

Spec == Init /\ [][Next]_vars

-----------------------------------------------------------------------------
FlagOf == [singleInstance |-> "SINGLE_INSTANCE", multiSession |-> "MULTI_SESSION",
           instanceKeepAlive |-> "INSTANCE_KEEP_ALIVE", instanceKeepCrashed |-> "INSTANCE_KEEP_CRASHED",
           doesNotCloseHandleOnCorruptObject |-> "DONT_CLOSE"]

(* The key that was read, if it was one of property.rs. *)
ReadKey(k) == last # Nothing /\ last.set = "CurrentTa" /\ last.name = <<k>> /\ last.type = TaKeys[k]

(* A key of property.rs reads what the build script configured, and no     *)
(* additional property that has the same name gets in its way, be it a key *)
(* of the TA, of its client or of the TEE.  The TA is told what its loader *)
(* goes by: the flags of ta_head, on which the life of its instances       *)
(* depends, the size of its heap, and a stack with the part of the         *)
(* framework on top, unless their sum does not fit u32.                    *)
StandardAsConfigured ==
  /\ \A k \in DOMAIN TaKeys : ReadKey(k) => last.got.code = "SUCCESS"
  /\ \A k \in DOMAIN FlagOf : ReadKey(k) => /\ last.got.value <=> FlagOf[k] \in conf.flags
                                            /\ last.got.value <=> FlagOf[k] \in header.head.flags
  /\ ReadKey("stackSize") =>
       /\ last.got.value = conf.stack
       /\ conf.stack + conf.framework < Word =>
            header.head.stack_size = conf.stack + conf.framework
  /\ ReadKey("dataSize") => last.got.value = conf.data /\ header.heap = conf.data
  /\ ReadKey("version") => last.got.value = CString(conf.version)
  /\ last # Nothing /\ last.set # "CurrentTa" =>
       last.got.code = "SUCCESS" /\ last.got.value = Theirs[last.type]

(* An additional property reads back in its own type as it was added, a    *)
(* block with the zeros in it, a string up to its first NUL, and a UUID    *)
(* with its fields in their places; in another type, other than as a text, *)
(* it is refused.                                                          *)
ExtReadsBack ==
  last # Nothing /\ last.set = "CurrentTa" /\ (\A k \in DOMAIN TaKeys : last.name # <<k>>) =>
    LET same == {i \in DOMAIN conf.ext : CString(conf.ext[i].name) = last.name}
        e == conf.ext[First(same)]
        v == last.got.value
    IN  IF same = {} THEN last.got.code = "ITEM_NOT_FOUND"
        ELSE IF last.type # e.type THEN last.got.code = IF last.type = "Str" THEN "SUCCESS" ELSE "BAD_FORMAT"
        ELSE /\ last.got.code = "SUCCESS"
             /\ IF e.type = "Str" THEN v = CString(e.value)
                ELSE IF e.type = "BinaryBlock" THEN v = Decoded(e.value)
                ELSE IF e.type = "Uuid" THEN Shown(v) = e.value
                ELSE IF e.type = "Identity" THEN <<v.login, Shown(v.uuid)>> = e.value
                ELSE v = e.value
=============================================================================
