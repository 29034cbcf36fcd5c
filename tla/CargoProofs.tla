----------------------------- MODULE CargoProofs ----------------------------
(***************************************************************************)
(* Proofs about one invocation of cargo-optee (CargoTool), for any command *)
(* line, manifest, environment, output of cargo and ELF file; and about    *)
(* the properties a TA is built with and reads (TaProperties), for any     *)
(* names, texts, blocks and sizes.                                         *)
(***************************************************************************)
EXTENDS CargoTool, TaProperties, WellFoundedInduction, TLAPS

-----------------------------------------------------------------------------
(* The UUID of an ELF file. *)

(* A set of numbers that is not empty has a least one. *)
LEMMA LeastExists ==
  ASSUME NEW S \in SUBSET Nat, S # {}
  PROVE  \E x \in S : \A y \in S : x =< y
<1> DEFINE R == {ss \in Nat \X Nat : ss[1] < ss[2]}
<1>1. IsWellFoundedOn(R, Nat)
  BY NatLessThanWellFounded, Zenon DEF OpToRel
<1>2. \E x \in S : \A y \in S : ~(<<y, x>> \in R)
  <2> HIDE DEF R
  <2> QED BY <1>1, WFMin, Zenon
<1>3. PICK x \in S : \A y \in S : ~(<<y, x>> \in R)
  BY <1>2, Zenon
<1>4. ASSUME NEW y \in S PROVE x =< y
  <2>1. ~(<<y, x>> \in R) /\ x \in Nat /\ y \in Nat
    BY <1>3
  <2>2. ~(<<y, x>>[1] < <<y, x>>[2])
    BY <2>1, Zenon
  <2> QED BY <2>1, <2>2
<1> QED BY <1>4, Zenon

(* The least of a nonempty set of naturals is one of them, *)
LEMMA LeastIsOne ==
  ASSUME NEW S \in SUBSET Nat, S # {}
  PROVE  (CHOOSE x \in S : \A y \in S : x =< y) \in S
BY LeastExists, Zenon

(* An element of a sequence is one of its set. *)
LEMMA ElementOf ==
  ASSUME NEW S, NEW q \in Seq(S), NEW i \in DOMAIN q
  PROVE  q[i] \in S
OBVIOUS

(* The places in a sequence are numbers. *)
LEMMA PlacesOf ==
  ASSUME NEW S, NEW q \in Seq(S), NEW I \in SUBSET DOMAIN q
  PROVE  I \in SUBSET Nat
OBVIOUS

(* What Iterator::find finds is one of the places. *)
LEMMA FindsOne ==
  ASSUME NEW S, NEW q \in Seq(S), NEW I \in SUBSET DOMAIN q, U!Find(I) # 0
  PROVE  U!Find(I) \in I
BY PlacesOf, LeastIsOne, Zenon DEF U!Find

(* exported_symbol finds a symbol of the table. *)
LEMMA ExportedIsSymbol ==
  ASSUME NEW e, U!IsElf(e), U!Exported(e) # 0
  PROVE  U!Exported(e) \in DOMAIN e.dynsyms
<1> DEFINE I == {i \in DOMAIN e.dynsyms : e.dynsyms[i].defined /\ e.dynsyms[i].bind \in {"GLOBAL", "WEAK"}}
<1>1. U!Exported(e) = U!Find(I)
  BY Zenon DEF U!Exported
<1>2. I \in SUBSET DOMAIN e.dynsyms
  BY Zenon
<1> HIDE DEF I
<1> QED BY <1>1, <1>2, FindsOne, Zenon DEF U!IsElf

(* bytes_at_va reads from a segment that is loaded and holds the range. *)
LEMMA SegmentIsOne ==
  ASSUME NEW e, U!IsElf(e), NEW va, U!BytesAtVa(e, va).error = "none"
  PROVE  LET end == U!CheckedAdd(va, UuidSize) IN
         /\ ~U!Overflowed(end)
         /\ \E i \in DOMAIN e.phdrs :
              /\ e.phdrs[i].load
              /\ U!Holds(e.phdrs[i], va, end)
              /\ U!BytesAtVa(e, va) = U!OffsetIn(e, e.phdrs[i], va, end)
<1> DEFINE end == U!CheckedAdd(va, UuidSize)
           over(p) == U!Overflowed(U!CheckedAdd(p.vaddr, p.memsz))
           I == {i \in DOMAIN e.phdrs : e.phdrs[i].load /\ (over(e.phdrs[i]) \/ U!Holds(e.phdrs[i], va, end))}
<1>1. U!BytesAtVa(e, va) = IF U!Overflowed(end) THEN U!Err("overflow")
                           ELSE IF U!Find(I) = 0 THEN U!Err("not loaded")
                           ELSE IF over(e.phdrs[U!Find(I)]) THEN U!Err("overflow")
                           ELSE U!OffsetIn(e, e.phdrs[U!Find(I)], va, end)
  BY Zenon DEF U!BytesAtVa
<1>2. U!Err("overflow").error # "none" /\ U!Err("not loaded").error # "none"
  BY DEF U!Err
<1>3. /\ I \in SUBSET DOMAIN e.phdrs
      /\ \A i \in I : e.phdrs[i].load /\ (over(e.phdrs[i]) \/ U!Holds(e.phdrs[i], va, end))
  BY Zenon
<1> HIDE DEF end, over, I
<1>4. U!Find(I) # 0 => U!Find(I) \in I
  BY <1>3, FindsOne, Zenon DEF U!IsElf
<1>5. /\ ~U!Overflowed(end) /\ U!Find(I) # 0 /\ ~over(e.phdrs[U!Find(I)])
      /\ U!BytesAtVa(e, va) = U!OffsetIn(e, e.phdrs[U!Find(I)], va, end)
  BY <1>1, <1>2, Zenon
<1> QED BY <1>3, <1>4, <1>5, Zenon DEF end

(* A sum that does not overflow is the sum. *)
LEMMA CheckedSum ==
  ASSUME MaxAddr \in Nat, NEW a \in Nat, NEW b \in Nat, ~U!Overflowed(U!CheckedAdd(a, b))
  PROVE  U!CheckedAdd(a, b) = a + b
BY DEF U!Overflowed, U!CheckedAdd

(* The numbers of a program header. *)
LEMMA HeaderIsTyped ==
  ASSUME NEW e, U!IsElf(e), NEW i \in DOMAIN e.phdrs
  PROVE  /\ e.phdrs[i].vaddr \in 0 .. MaxAddr /\ e.phdrs[i].filesz \in 0 .. MaxAddr
         /\ e.phdrs[i].offset \in 0 .. MaxAddr /\ e.length \in Nat
<1>1. e.phdrs[i] \in [load : BOOLEAN, vaddr : 0 .. MaxAddr, memsz : 0 .. MaxAddr,
                      filesz : 0 .. MaxAddr, offset : 0 .. MaxAddr] /\ e.length \in Nat
  BY ElementOf, Zenon DEF U!IsElf
<1> QED BY <1>1

(* The offset is the one at which the segment's bytes lie in the file. *)
LEMMA OffsetIsLoaded ==
  ASSUME NEW e, e.length \in Nat, NEW p, NEW va \in 0 .. MaxAddr, MaxAddr \in Nat, UuidSize \in Nat,
         p.vaddr \in 0 .. MaxAddr, p.filesz \in 0 .. MaxAddr, p.offset \in 0 .. MaxAddr,
         NEW end, end = U!CheckedAdd(va, UuidSize), ~U!Overflowed(end),
         va >= p.vaddr,
         U!OffsetIn(e, p, va, end).error = "none"
  PROVE  /\ U!OffsetIn(e, p, va, end).at = p.offset + (va - p.vaddr)
         /\ p.offset + (va - p.vaddr) + UuidSize <= e.length
         /\ va + UuidSize <= p.vaddr + p.filesz
<1> DEFINE off == U!CheckedAdd(p.offset, va - p.vaddr)
           end_off == U!CheckedAdd(off, UuidSize)
           fin == U!CheckedAdd(p.vaddr, p.filesz)
<1>1. U!OffsetIn(e, p, va, end) = IF U!Overflowed(fin) THEN U!Err("overflow")
      ELSE IF ~(end <= fin) THEN U!Err("in bss")
      ELSE IF U!Overflowed(off) \/ U!Overflowed(end_off) THEN U!Err("overflow")
      ELSE IF end_off > e.length THEN U!Err("beyond the file")
      ELSE U!Ok(off)
  BY Zenon DEF U!OffsetIn, U!FileBacked
<1>2. /\ U!Err("overflow").error # "none" /\ U!Err("in bss").error # "none" /\ U!Err("beyond the file").error # "none"
      /\ U!Ok(off).at = off
  <2> HIDE DEF off
  <2> QED BY DEF U!Err, U!Ok
<1>3. /\ ~U!Overflowed(fin) /\ end <= fin /\ ~U!Overflowed(off) /\ ~U!Overflowed(end_off)
      /\ ~(end_off > e.length) /\ U!OffsetIn(e, p, va, end).at = off
  <2> HIDE DEF off, end_off, fin
  <2> QED BY <1>1, <1>2, Zenon
<1>4. va \in Nat /\ va - p.vaddr \in Nat /\ p.offset \in Nat /\ p.vaddr \in Nat /\ p.filesz \in Nat
  OBVIOUS
<1>5. off = p.offset + (va - p.vaddr)
  BY <1>3, <1>4, CheckedSum, Zenon
<1>6. off \in Nat
  BY <1>4, <1>5
<1>7. end_off = off + UuidSize
  BY <1>3, <1>6, CheckedSum, Zenon
<1>8. fin = p.vaddr + p.filesz /\ end = va + UuidSize
  BY <1>3, <1>4, CheckedSum, Zenon
<1> HIDE DEF off, end_off, fin
<1> QED BY <1>3, <1>4, <1>5, <1>6, <1>7, <1>8

(* The range that ReadUuid looks for is the symbol's. *)
LEMMA UuidIsTheSymbols ==
  ASSUME MaxAddr \in Nat, UuidSize \in Nat, NEW e, U!IsElf(e), U!ReadUuid(e).error = "none"
  PROVE  LET s == e.dynsyms[U!Exported(e)] IN
           /\ U!Address(e) \in 0 .. MaxAddr
           /\ U!BytesAtVa(e, U!Address(e)) = U!ReadUuid(e)
           /\ s.size # 0 => U!Address(e) + UuidSize <= s.value + s.size
<1> DEFINE s == e.dynsyms[U!Exported(e)]
           va == U!CheckedAdd(s.value, U!Skip(e))
<1>1. U!ReadUuid(e) = IF ~U!Supported(e) THEN U!Err("unsupported")
                      ELSE IF U!Exported(e) = 0 THEN U!Err("no symbol")
                      ELSE IF ~U!IsObject(s, U!Skip(e) + UuidSize) THEN U!Err("not an object")
                      ELSE IF U!Overflowed(va) THEN U!Err("overflow")
                      ELSE U!BytesAtVa(e, va)
  BY Zenon DEF U!ReadUuid
<1>2. /\ U!Err("unsupported").error # "none" /\ U!Err("no symbol").error # "none"
      /\ U!Err("not an object").error # "none" /\ U!Err("overflow").error # "none"
  BY DEF U!Err
<1>3. /\ U!Exported(e) # 0 /\ U!IsObject(s, U!Skip(e) + UuidSize) /\ ~U!Overflowed(va)
      /\ U!ReadUuid(e) = U!BytesAtVa(e, va)
  <2> HIDE DEF s, va
  <2> QED BY <1>1, <1>2, Zenon
<1>4. s \in [defined : BOOLEAN, bind : STRING, type : STRING, value : 0 .. MaxAddr, size : 0 .. MaxAddr]
  BY <1>3, ExportedIsSymbol, ElementOf, Zenon DEF U!IsElf
<1>5. s.value \in Nat /\ s.size \in Nat
  <2> HIDE DEF s
  <2> QED BY <1>4
<1>6. U!Skip(e) \in Nat
  BY DEF U!Skip, U!PointerWidth
<1>7. va = s.value + U!Skip(e)
  BY <1>3, <1>5, <1>6, CheckedSum, Zenon
<1>8. U!Address(e) = va
  BY <1>7, Zenon DEF U!Address
<1>9. va \in 0 .. MaxAddr
  <2> HIDE DEF s
  <2> QED BY <1>3, <1>5, <1>6, <1>7 DEF U!Overflowed
<1>10. s.size # 0 => s.size >= U!Skip(e) + UuidSize
  BY <1>3, Zenon DEF U!IsObject
<1>11. s.size # 0 => va + UuidSize <= s.value + s.size
  <2> HIDE DEF s, va
  <2> QED BY <1>5, <1>6, <1>7, <1>10
<1> HIDE DEF va
<1> QED BY <1>3, <1>8, <1>9, <1>11, Zenon

(* What ReadUuid finds is what the loader puts at the symbol. *)
LEMMA ReadIsLoaded ==
  ASSUME MaxAddr \in Nat, UuidSize \in Nat, U!IsElf(elf), uuid = U!ReadUuid(elf)
  PROVE  U!ReadsWhatIsLoaded
<1> SUFFICES ASSUME uuid.error = "none", NEW va, va = U!Address(elf)
             PROVE  /\ uuid.at + UuidSize <= elf.length
                    /\ \A i \in 0 .. UuidSize - 1 : U!LoadedAt(elf, uuid.at + i, va + i)
  BY UuidIsTheSymbols, Zenon DEF U!ReadsWhatIsLoaded, U!Found
<1>1. va \in 0 .. MaxAddr /\ U!BytesAtVa(elf, va) = uuid
  BY UuidIsTheSymbols, Zenon
<1>2. PICK end : end = U!CheckedAdd(va, UuidSize)
  BY Zenon
<1>3. ~U!Overflowed(end) /\ \E i \in DOMAIN elf.phdrs :
        /\ elf.phdrs[i].load /\ U!Holds(elf.phdrs[i], va, end)
        /\ U!BytesAtVa(elf, va) = U!OffsetIn(elf, elf.phdrs[i], va, end)
  BY <1>1, <1>2, SegmentIsOne, Zenon
<1>4. PICK i \in DOMAIN elf.phdrs :
        /\ elf.phdrs[i].load /\ va >= elf.phdrs[i].vaddr
        /\ uuid = U!OffsetIn(elf, elf.phdrs[i], va, end)
  BY <1>1, <1>3, Zenon DEF U!Holds
<1>5. PICK p : p = elf.phdrs[i]
  BY Zenon
<1>6. /\ p.vaddr \in 0 .. MaxAddr /\ p.filesz \in 0 .. MaxAddr /\ p.offset \in 0 .. MaxAddr
      /\ elf.length \in Nat /\ va >= p.vaddr /\ p.load
  BY <1>4, <1>5, HeaderIsTyped, Zenon
<1>7. /\ uuid.at = p.offset + (va - p.vaddr)
      /\ p.offset + (va - p.vaddr) + UuidSize <= elf.length
      /\ va + UuidSize <= p.vaddr + p.filesz
  <2>1. uuid = U!OffsetIn(elf, p, va, end) /\ U!OffsetIn(elf, p, va, end).error = "none"
    BY <1>4, <1>5, Zenon
  <2>2. va \in 0 .. MaxAddr /\ ~U!Overflowed(end)
    BY <1>1, <1>3, Zenon
  <2>3. /\ U!OffsetIn(elf, p, va, end).at = p.offset + (va - p.vaddr)
        /\ p.offset + (va - p.vaddr) + UuidSize <= elf.length
        /\ va + UuidSize <= p.vaddr + p.filesz
    BY <1>2, <1>6, <2>1, <2>2, OffsetIsLoaded, SMT
  <2> QED BY <2>1, <2>3, Zenon
<1>8. uuid.at + UuidSize <= elf.length
  BY <1>7, Zenon
<1>9. ASSUME NEW j \in 0 .. UuidSize - 1 PROVE U!LoadedAt(elf, uuid.at + j, va + j)
  <2>1. /\ p.vaddr <= va + j /\ va + j < p.vaddr + p.filesz
        /\ uuid.at + j = p.offset + ((va + j) - p.vaddr)
    BY <1>1, <1>6, <1>7
  <2> QED BY <1>5, <1>6, <2>1, Zenon DEF U!LoadedAt
<1> QED BY <1>8, <1>9, Zenon
-----------------------------------------------------------------------------
(* The configuration. *)

(* What has been resolved comes from the inputs and the table, and the cargo  *)
(* command from what has been resolved.                                       *)
FromInputs(x) ==
  /\ config.arch = OrElse(cmd.arch, OrElse(x.arch, "aarch64"))
  /\ config.dir = Place(ConfigPath(x)) /\ ConfigPath(x) # None
  /\ NeedSigningKey => config.key = Place(SigningKey(x))
  /\ config.features = cmd.features

ConfigIInv ==
  /\ config # None \/ stage \in {"resolved", "formatted", "ready"} => FromInputs(ExtractBuildConfig(meta))
  /\ stage = "ready" /\ cmd.kind = "ta" => child = CargoCommand(TaEnvironment)

(* The resolution depends on nothing but the command line, the environment    *)
(* and the table.                                                             *)
LEMMA ResolvedBy ==
  ASSUME UNCHANGED <<cmd, environ>>
  PROVE  LET x == ExtractBuildConfig(meta) IN
         /\ x' = ExtractBuildConfig(meta')
         /\ OrElse(cmd.arch, OrElse(x.arch, "aarch64"))' = OrElse(cmd.arch, OrElse(ExtractBuildConfig(meta').arch, "aarch64"))
         /\ ConfigPath(x)' = ConfigPath(ExtractBuildConfig(meta'))
         /\ Place(ConfigPath(x))' = Place(ConfigPath(ExtractBuildConfig(meta')))
         /\ NeedSigningKey' <=> NeedSigningKey
         /\ Place(SigningKey(x))' = Place(SigningKey(ExtractBuildConfig(meta')))
<1>1. ExtractBuildConfig(meta)' = ExtractBuildConfig(meta')
  BY Zenon DEF ExtractBuildConfig, MetaArch, NonEmpty, MetadataBool
<1>2. /\ ProjectPath' = ProjectPath /\ (NeedSigningKey' <=> NeedSigningKey)
      /\ DirVariable' = DirVariable /\ KeyFlag' = KeyFlag
  BY Zenon DEF ProjectPath, AbsoluteFromCwd, IsAbsolute, NeedSigningKey, DirVariable, KeyFlag
<1>3. ConfigPath(ExtractBuildConfig(meta))' = ConfigPath(ExtractBuildConfig(meta'))
  BY <1>1, <1>2, Zenon DEF ConfigPath, OrElse
<1>4. SigningKey(ExtractBuildConfig(meta))' = SigningKey(ExtractBuildConfig(meta'))
  BY <1>1, <1>2, <1>3, Zenon DEF SigningKey, OrElse
<1>5. /\ Place(ConfigPath(ExtractBuildConfig(meta)))' = Place(ConfigPath(ExtractBuildConfig(meta')))
      /\ Place(SigningKey(ExtractBuildConfig(meta)))' = Place(SigningKey(ExtractBuildConfig(meta')))
  BY <1>2, <1>3, <1>4, Zenon DEF Place, IsAbsolute
<1>6. OrElse(cmd.arch, OrElse(ExtractBuildConfig(meta).arch, "aarch64"))'
        = OrElse(cmd.arch, OrElse(ExtractBuildConfig(meta').arch, "aarch64"))
  BY <1>1, Zenon DEF OrElse
<1> QED BY <1>1, <1>2, <1>3, <1>5, <1>6, Zenon

(* The inputs of an invocation do not change while it is configured. *)
LEMMA FromInputsStays ==
  ASSUME UNCHANGED <<cmd, environ, meta, config>>, FromInputs(ExtractBuildConfig(meta))
  PROVE  FromInputs(ExtractBuildConfig(meta))'
BY ResolvedBy, Zenon DEF FromInputs

(* What is resolved so far is made of the command. *)
LEMMA CommandBy ==
  ASSUME UNCHANGED <<cmd, environ, config>>
  PROVE  CargoCommand(TaEnvironment)' = CargoCommand(TaEnvironment)
<1>1. /\ RustFlags' = RustFlags /\ Features' = Features
      /\ CrossCompile(config.arch)' = CrossCompile(config.arch) /\ Target(config.arch)' = Target(config.arch)
  BY Zenon DEF RustFlags, Features, CrossCompile, Target
<1>2. TaEnvironment' = TaEnvironment
  BY <1>1, Zenon DEF TaEnvironment, StdVariables, Reserved
<1> QED BY <1>1, <1>2, Zenon DEF CargoCommand

(* Steps of the other parts leave the configuration alone. *)
LEMMA ConfigStays ==
  ASSUME ConfigIInv, UNCHANGED <<cmd, environ, meta, config, child>>,
         stage' = stage \/ stage' = "failed" \/ (stage = "resolved" /\ stage' = "formatted")
  PROVE  ConfigIInv'
<1>1. CargoCommand(TaEnvironment)' = CargoCommand(TaEnvironment)
  BY CommandBy, Zenon
<1> QED BY <1>1, FromInputsStays, Zenon DEF ConfigIInv

(* The fields of the configuration, each by its own rule. *)
LEMMA ResolvedFields ==
  ASSUME NEW x
  PROVE  /\ Resolved(x).arch = OrElse(cmd.arch, OrElse(x.arch, "aarch64"))
         /\ Resolved(x).dir = Place(ConfigPath(x))
         /\ Resolved(x).key = IF NeedSigningKey THEN Place(SigningKey(x)) ELSE <<>>
         /\ Resolved(x).features = cmd.features
BY DEF Resolved

(* resolve_config. *)
LEMMA ResolveKeeps ==
  ASSUME ConfigIInv, Resolve PROVE ConfigIInv'
<1>1. CASE Discoverable(workspace) /\ Resolvable(DiscoverAppMetadata(workspace))
  <2> DEFINE x == ExtractBuildConfig(meta')
  <2>1. /\ UNCHANGED <<cmd, environ>> /\ stage' = "resolved"
        /\ meta' = DiscoverAppMetadata(workspace) /\ config' = Resolved(x)
    BY <1>1, Zenon DEF Resolve
  <2>2. ConfigPath(x) # None
    BY <1>1, <2>1, Zenon DEF Resolvable
  <2>3. /\ config'.arch = OrElse(cmd.arch, OrElse(x.arch, "aarch64")) /\ config'.dir = Place(ConfigPath(x))
        /\ NeedSigningKey => config'.key = Place(SigningKey(x))
        /\ config'.features = cmd.features
    <3> HIDE DEF x
    <3> QED BY <2>1, ResolvedFields, Zenon
  <2>4. FromInputs(ExtractBuildConfig(meta))'
    BY <2>1, <2>2, <2>3, ResolvedBy, Zenon DEF FromInputs
  <2> QED BY <2>1, <2>4, Zenon DEF ConfigIInv
<1>2. CASE ~(Discoverable(workspace) /\ Resolvable(DiscoverAppMetadata(workspace)))
  BY <1>2, ConfigStays, Zenon DEF Resolve, ConfigFails
<1> QED BY <1>1, <1>2, Zenon

(* A command that is set up has been resolved. *)
LEMMA SetupKeeps ==
  ASSUME ConfigIInv, SetupBuildCommand \/ SetupCaCargoCommand PROVE ConfigIInv'
<1>1. CASE ConfigFails
  BY <1>1, ConfigStays, Zenon DEF ConfigFails
<1>2. CASE ~ConfigFails
  <2>1. /\ UNCHANGED <<cmd, environ, meta, config>> /\ stage' = "ready" /\ stage \in {"resolved", "formatted"}
        /\ cmd.kind = "ta" => child' = CargoCommand(TaEnvironment)
    BY <1>2, Zenon DEF SetupBuildCommand, SetupCaCargoCommand, Prepared
  <2>2. FromInputs(ExtractBuildConfig(meta))'
    BY <2>1, FromInputsStays, Zenon DEF ConfigIInv
  <2>3. CargoCommand(TaEnvironment)' = CargoCommand(TaEnvironment)
    BY <2>1, CommandBy, Zenon
  <2> QED BY <2>1, <2>2, <2>3, Zenon DEF ConfigIInv
<1> QED BY <1>1, <1>2, Zenon

(* Every step of the configuration. *)
LEMMA ConfigureKeeps ==
  ASSUME ConfigIInv, ConfigNext PROVE ConfigIInv'
<1>1. ASSUME NotPrepared \/ CargoFmt PROVE ConfigIInv'
  BY <1>1, ConfigStays, Zenon DEF NotPrepared, CargoFmt, ConfigFails
<1> QED BY <1>1, ResolveKeeps, SetupKeeps, Zenon DEF ConfigNext

(* The architecture of the configuration is the one the table was read for. *)
LEMMA SameArch ==
  ASSUME ConfigIInv, config # None, meta # None
  PROVE  config.arch = MetaArch(meta)
<1>1. config.arch = OrElse(cmd.arch, OrElse(ExtractBuildConfig(meta).arch, "aarch64"))
  BY Zenon DEF ConfigIInv, FromInputs
<1>2. ExtractBuildConfig(meta).arch = MetaArch(meta)
  BY DEF ExtractBuildConfig
<1> QED BY <1>1, <1>2 DEF OrElse, MetaArch

(* The directory of a table is that of the architecture. *)
LEMMA DirOfTable ==
  ASSUME ConfigIInv, config # None
  PROVE  ExtractBuildConfig(meta).dir = TableDir
BY SameArch DEF ExtractBuildConfig, TableDir

(* The kit that is used is the one for the architecture. *)
LEMMA DirIsForArch ==
  ASSUME ConfigIInv PROVE DirForArch
<1> SUFFICES ASSUME config # None, cmd.dir = None
             PROVE  LET dir == OrElse(TableDir, environ[DirVariable])
                    IN  dir # None /\ config.dir = Place(dir)
  BY Zenon DEF DirForArch
<1>1. config.dir = Place(ConfigPath(ExtractBuildConfig(meta))) /\ ConfigPath(ExtractBuildConfig(meta)) # None
  BY Zenon DEF ConfigIInv, FromInputs
<1>2. ConfigPath(ExtractBuildConfig(meta)) = OrElse(TableDir, environ[DirVariable])
  BY DirOfTable, Zenon DEF ConfigPath, OrElse
<1> QED BY <1>1, <1>2, Zenon

(* The tables of the manifest come before the environment. *)
LEMMA EnvironmentIsLast ==
  ASSUME ConfigIInv PROVE EnvironmentLast
<1> SUFFICES ASSUME config # None
             PROVE  /\ cmd.dir # None \/ TableDir # None =>
                         config.dir \in {Place(d) : d \in {cmd.dir, TableDir} \ {None}}
                    /\ NeedSigningKey /\ (cmd.key # None \/ TableKey # None) =>
                         config.key \in {Place(k) : k \in {cmd.key, TableKey} \ {None}}
  BY Zenon DEF EnvironmentLast
<1>1. /\ config.dir = Place(ConfigPath(ExtractBuildConfig(meta)))
      /\ NeedSigningKey => config.key = Place(SigningKey(ExtractBuildConfig(meta)))
  BY Zenon DEF ConfigIInv, FromInputs
<1>2. ASSUME cmd.dir # None \/ TableDir # None
      PROVE  ConfigPath(ExtractBuildConfig(meta)) \in {cmd.dir, TableDir} \ {None}
  BY <1>2, DirOfTable, Zenon DEF ConfigPath, OrElse
<1>3. ASSUME NeedSigningKey, cmd.key # None \/ TableKey # None
      PROVE  SigningKey(ExtractBuildConfig(meta)) \in {cmd.key, TableKey} \ {None}
  <2>1. cmd.kind = "ta" /\ KeyFlag = cmd.key
    BY <1>3, Zenon DEF NeedSigningKey, KeyFlag
  <2>2. ExtractBuildConfig(meta).key = TableKey
    BY <2>1 DEF ExtractBuildConfig, TableKey
  <2> QED BY <1>3, <2>1, <2>2, Zenon DEF SigningKey, OrElse
<1> QED BY <1>1, <1>2, <1>3, Zenon

(* Command::env sets its variable, and leaves the others. *)
LEMMA VarIsSet ==
  ASSUME NEW e, NEW k, NEW v
  PROVE  WithVar(e, k, v)[k] = v /\ k \in DOMAIN WithVar(e, k, v)
BY Zenon DEF WithVar

(* A variable keeps its value when another one is set. *)
LEMMA VarIsKept ==
  ASSUME NEW e, NEW k, NEW v, NEW n \in DOMAIN e, n # k
  PROVE  WithVar(e, k, v)[n] = e[n] /\ n \in DOMAIN WithVar(e, k, v)
BY Zenon DEF WithVar

(* Target, flags and features of the command agree with std. *)
LEMMA ToolchainIsMatched ==
  ASSUME ConfigIInv PROVE ToolchainMatches
<1> SUFFICES ASSUME stage = "ready", cmd.kind = "ta"
             PROVE  /\ child.env["TA_DEV_KIT_DIR"] = config.dir
                    /\ child.env["CROSS_COMPILE"] = CrossCompile(child.target.arch)
                    /\ child.linker \in {None, child.env["CROSS_COMPILE"]}
                    /\ ("std" \in child.features) = (child.target.os = "optee" \/ "std" \in cmd.features)
  BY Zenon DEF ToolchainMatches
<1>1. child = CargoCommand(TaEnvironment) /\ config.features = cmd.features
  BY Zenon DEF ConfigIInv, FromInputs
<1>2. /\ child.env = TaEnvironment /\ child.target = Target(config.arch) /\ child.features = Features
      /\ child.linker = (IF cmd.op = "clippy" THEN None ELSE CrossCompile(config.arch))
  BY <1>1 DEF CargoCommand
<1>3. child.target.arch = config.arch /\ child.target.os = (IF config.std = "true" THEN "optee" ELSE "linux")
  BY <1>2 DEF Target
<1>4. ASSUME NEW e
      PROVE  /\ Reserved(e)["TA_DEV_KIT_DIR"] = config.dir /\ Reserved(e)["CROSS_COMPILE"] = CrossCompile(config.arch)
             /\ {"TA_DEV_KIT_DIR", "CROSS_COMPILE"} \subseteq DOMAIN Reserved(e)
  <2> DEFINE d == WithVar(e, "TA_DEV_KIT_DIR", config.dir)
  <2>1. d["TA_DEV_KIT_DIR"] = config.dir /\ "TA_DEV_KIT_DIR" \in DOMAIN d
    BY VarIsSet, Zenon
  <2>2. Reserved(e) = WithVar(d, "CROSS_COMPILE", CrossCompile(config.arch))
    BY Zenon DEF Reserved
  <2>3. "TA_DEV_KIT_DIR" # "CROSS_COMPILE"
    OBVIOUS
  <2> HIDE DEF d
  <2>4. Reserved(e)["TA_DEV_KIT_DIR"] = config.dir /\ "TA_DEV_KIT_DIR" \in DOMAIN Reserved(e)
    BY <2>1, <2>2, <2>3, VarIsKept
  <2>5. Reserved(e)["CROSS_COMPILE"] = CrossCompile(config.arch) /\ "CROSS_COMPILE" \in DOMAIN Reserved(e)
    BY <2>2, VarIsSet
  <2> QED BY <2>4, <2>5, Zenon
<1>5. ASSUME NEW e, NEW n \in DOMAIN e, n # "RUST_TARGET_PATH", n # "SRC_ROOT"
      PROVE  StdVariables(e)[n] = e[n]
  <2> DEFINE d == WithVar(e, "RUST_TARGET_PATH", "temporary")
  <2>1. d[n] = e[n] /\ n \in DOMAIN d
    BY <1>5, VarIsKept, Zenon
  <2>2. StdVariables(e) = IF config.std = "true" THEN WithVar(d, "SRC_ROOT", environ["SRC_ROOT"]) ELSE e
    BY Zenon DEF StdVariables
  <2> HIDE DEF d
  <2>3. WithVar(d, "SRC_ROOT", environ["SRC_ROOT"])[n] = d[n]
    BY <1>5, <2>1, VarIsKept
  <2> QED BY <2>1, <2>2, <2>3, Zenon
<1>6. TaEnvironment["TA_DEV_KIT_DIR"] = config.dir /\ TaEnvironment["CROSS_COMPILE"] = CrossCompile(config.arch)
  <2>1. /\ "TA_DEV_KIT_DIR" # "RUST_TARGET_PATH" /\ "TA_DEV_KIT_DIR" # "SRC_ROOT"
        /\ "CROSS_COMPILE" # "RUST_TARGET_PATH" /\ "CROSS_COMPILE" # "SRC_ROOT"
    OBVIOUS
  <2> QED BY <1>4, <1>5, <2>1, Zenon DEF TaEnvironment
<1>7. "std" \in Features <=> config.std = "true" \/ "std" \in cmd.features
  BY <1>1, Zenon DEF Features
<1>8. ("std" \in child.features) = (child.target.os = "optee" \/ "std" \in cmd.features)
  BY <1>2, <1>3, <1>7
<1> QED BY <1>2, <1>3, <1>6, <1>8, Zenon

-----------------------------------------------------------------------------
(* The build. *)

(* The messages that have been read: the others are in the pipe. *)
Seen == Len(written) - Len(pipe)

(* Until a message cannot be read, the pipe holds the end of what cargo has   *)
(* written, and the paths collected are those of the messages before it.      *)
ReadSoFar ==
  /\ Len(pipe) <= Len(written)
  /\ \A j \in 1 .. Len(pipe) : pipe[j] = written[Seen + j]
  /\ \A i \in 1 .. Seen : written[i].what # "bad"
  /\ \A p : p \in artifacts <=> \E i \in 1 .. Seen : p \in B!Collected(written[i])

RunIInv ==
  /\ kind \in {"Bin", "Cdylib"} /\ process \in {"running", "ok", "failed"}
  /\ written \in Seq(Messages) /\ pipe \in Seq(Messages) /\ plan \in Seq(Messages)
  /\ parent \in {"reading", "waiting", "done"}
  /\ ~readError => ReadSoFar /\ (parent # "reading" => pipe = <<>> /\ process # "running")
  /\ readError => parent # "reading"
  /\ parent # "done" => result = None
  /\ parent = "done" => process # "running" /\ result = B!Outcome

(* Cargo is spawned: nothing is written and nothing read. *)
LEMMA SpawnStarts ==
  ASSUME B!NoBuild, NEW k \in {"Bin", "Cdylib"}, B!Spawn(k) PROVE RunIInv'
<1>1. /\ kind' = k /\ process' = "running" /\ written' = <<>> /\ pipe' = <<>>
      /\ parent' = "reading" /\ artifacts' = {} /\ readError' = FALSE /\ result' = None
  BY Zenon DEF B!NoBuild, B!Spawn
<1>2. plan' \in Seq(Messages)
  BY DEF B!Spawn
<1>3. Len(written') = 0 /\ Len(pipe') = 0 /\ Seen' = 0 /\ <<>> \in Seq(Messages)
  BY <1>1 DEF Seen
<1>4. ReadSoFar'
  BY <1>1, <1>3 DEF ReadSoFar
<1>5. parent' # "done"
  BY <1>1
<1> QED BY <1>1, <1>2, <1>3, <1>4, <1>5, Zenon DEF RunIInv

(* Cargo writes a message. *)
LEMMA WritesKeep ==
  ASSUME RunIInv, B!CargoWrites PROVE RunIInv'
<1> DEFINE m == Head(plan)
<1>1. m \in Messages /\ plan' \in Seq(Messages) /\ written' = Append(written, m) /\ written' \in Seq(Messages)
  BY DEF RunIInv, B!CargoWrites
<1>2. /\ UNCHANGED <<kind, parent, artifacts, readError, result>> /\ process = "running"
      /\ process' \in {"running", "failed"}
  BY Zenon DEF B!CargoWrites
<1>3. parent # "done"
  BY <1>2, Zenon DEF RunIInv
<1>4. CASE readError
  <2>1. pipe' = pipe
    BY <1>4, Zenon DEF B!CargoWrites
  <2> HIDE DEF m
  <2> QED BY <1>1, <1>2, <1>3, <1>4, <2>1, Zenon DEF RunIInv
<1>5. CASE ~readError
  <2>1. pipe' = Append(pipe, m) /\ process' = "running"
    BY <1>2, <1>5, Zenon DEF B!CargoWrites
  <2> HIDE DEF m
  <2>2. parent = "reading" /\ ReadSoFar /\ written \in Seq(Messages) /\ pipe \in Seq(Messages) /\ kind \in {"Bin", "Cdylib"}
    BY <1>2, <1>5, Zenon DEF RunIInv
  <2>3. /\ Seen' = Seen /\ Seen \in 0 .. Len(written) /\ Len(pipe)' = Len(pipe) + 1 /\ Len(written)' = Len(written) + 1
        /\ pipe' \in Seq(Messages)
        /\ \A i \in 1 .. Seen : written'[i] = written[i]
    BY <1>1, <2>1, <2>2 DEF Seen, ReadSoFar
  <2>4. \A j \in 1 .. Len(pipe') : pipe'[j] = written'[Seen + j]
    <3>1. \A j \in 1 .. Len(pipe) : pipe'[j] = pipe[j] /\ written'[Seen + j] = written[Seen + j]
      BY <1>1, <2>1, <2>2, <2>3 DEF Seen
    <3>2. pipe'[Len(pipe) + 1] = m /\ written'[Seen + (Len(pipe) + 1)] = m
      BY <1>1, <2>1, <2>2, <2>3 DEF Seen
    <3>3. \A j \in 1 .. Len(pipe') : j \in 1 .. Len(pipe) \/ j = Len(pipe) + 1
      BY <2>2, <2>3
    <3> QED BY <2>2, <3>1, <3>2, <3>3, Zenon DEF ReadSoFar
  <2>5. \A i \in 1 .. Seen : B!Collected(written[i])' = B!Collected(written[i])
    BY <1>2, <2>3, Zenon DEF B!Collected
  <2>6. ReadSoFar'
    <3>1. Len(pipe') <= Len(written')
      BY <2>2, <2>3 DEF ReadSoFar
    <3>2. \A i \in 1 .. Seen' : written'[i].what # "bad"
      BY <2>2, <2>3, Zenon DEF ReadSoFar
    <3>3. \A p : p \in artifacts' <=> \E i \in 1 .. Seen' : p \in B!Collected(written[i])'
      <4>1. \A i \in 1 .. Seen : \A p : p \in B!Collected(written[i])' <=> p \in B!Collected(written[i])
        BY <2>5, Zenon
      <4>2. \A p : p \in artifacts <=> \E i \in 1 .. Seen : p \in B!Collected(written[i])
        BY <2>2, Zenon DEF ReadSoFar
      <4>3. artifacts' = artifacts /\ Seen' = Seen
        BY <1>2, <2>3, Zenon
      <4> QED BY <4>1, <4>2, <4>3, Zenon
    <3>4. \A j \in 1 .. Len(pipe') : pipe'[j] = written'[Seen' + j]
      BY <2>3, <2>4, Zenon
    <3> QED BY <3>1, <3>2, <3>3, <3>4, Zenon DEF ReadSoFar
  <2> QED BY <1>1, <1>2, <1>5, <2>1, <2>2, <2>3, <2>6, <1>3, Zenon DEF RunIInv
<1> QED BY <1>4, <1>5, Zenon

(* What is read depends on what was written and collected alone. *)
LEMMA SeenStays ==
  ASSUME UNCHANGED <<kind, written, pipe, artifacts>>, ReadSoFar
  PROVE  ReadSoFar'
<1>1. \A i : B!Collected(written[i])' = B!Collected(written[i])
  BY Zenon DEF B!Collected
<1>2. Seen' = Seen
  BY Zenon DEF Seen
<1> QED BY <1>1, <1>2, Zenon DEF ReadSoFar

(* Cargo exits. *)
LEMMA ExitsKeep ==
  ASSUME RunIInv, B!CargoExits PROVE RunIInv'
<1>1. /\ UNCHANGED <<kind, written, plan, pipe, parent, artifacts, readError, result>>
      /\ process = "running" /\ process' \in {"ok", "failed"}
  BY Zenon DEF B!CargoExits
<1>2. parent # "done" /\ process' # "running"
  BY <1>1 DEF RunIInv
<1> QED BY <1>1, <1>2, SeenStays, Zenon DEF RunIInv

(* The tool reads a message. *)
LEMMA ReadMessageKeeps ==
  ASSUME RunIInv, B!ReadMessage PROVE RunIInv'
<1>1. /\ UNCHANGED <<kind, written, plan, process, result>> /\ parent = "reading" /\ pipe # <<>>
  BY Zenon DEF B!ReadMessage, B!cargoVars
<1>2. CASE Head(pipe).what = "bad"
  <2>1. readError' = TRUE /\ parent' = "waiting" /\ pipe' = <<>>
    BY <1>2, Zenon DEF B!ReadMessage
  <2>2. pipe' \in Seq(Messages) /\ parent' # "done" /\ parent' # "reading" /\ parent # "done"
    BY <1>1, <2>1
  <2> QED BY <1>1, <2>1, <2>2, Zenon DEF RunIInv
<1>3. CASE Head(pipe).what # "bad"
  <2>1. UNCHANGED <<readError, parent>> /\ pipe' = Tail(pipe) /\ artifacts' = artifacts \union B!Collected(Head(pipe))
    BY <1>3, Zenon DEF B!ReadMessage
  <2>2. ~readError /\ ReadSoFar /\ written \in Seq(Messages) /\ pipe \in Seq(Messages) /\ parent # "done"
    BY <1>1, Zenon DEF RunIInv
  <2>3. /\ pipe' \in Seq(Messages) /\ Len(pipe') = Len(pipe) - 1 /\ Len(pipe') \in Nat /\ Len(written) \in Nat
        /\ \A j \in 1 .. Len(pipe') : pipe'[j] = pipe[j + 1]
        /\ Head(pipe) = pipe[1]
    BY <1>1, <2>1, <2>2
  <2>4. Seen' = Seen + 1 /\ Seen \in Nat /\ Len(pipe') <= Len(written)
    BY <1>1, <2>2, <2>3 DEF Seen, ReadSoFar
  <2>5. written[Seen + 1] = Head(pipe)
    BY <2>2, <2>3, <2>4 DEF ReadSoFar
  <2>6. \A j \in 1 .. Len(pipe') : pipe'[j] = written[Seen' + j]
    BY <2>2, <2>3, <2>4 DEF ReadSoFar
  <2>7. \A i : B!Collected(written[i])' = B!Collected(written[i])
    BY <1>1, Zenon DEF B!Collected
  <2>8. \A i \in 1 .. Seen' : i \in 1 .. Seen \/ i = Seen + 1
    BY <2>4
  <2>9. Seen + 1 \in 1 .. Seen' /\ \A i \in 1 .. Seen : i \in 1 .. Seen'
    BY <2>4
  <2>10. \A i \in 1 .. Seen' : written[i].what # "bad"
    BY <1>3, <2>2, <2>5, <2>8, Zenon DEF ReadSoFar
  <2>11. \A p : p \in artifacts' <=> \E i \in 1 .. Seen' : p \in B!Collected(written[i])
    BY <2>1, <2>2, <2>5, <2>8, <2>9, Zenon DEF ReadSoFar
  <2>12. ReadSoFar'
    <3>1. \A p : p \in artifacts' <=> \E i \in 1 .. Seen' : p \in B!Collected(written[i])'
      BY <2>7, <2>11, Zenon
    <3>2. \A i \in 1 .. Seen' : written'[i].what # "bad"
      BY <1>1, <2>10, Zenon
    <3>3. /\ Len(pipe') <= Len(written')
          /\ \A j \in 1 .. Len(pipe') : pipe'[j] = written'[Seen' + j]
      BY <1>1, <2>4, <2>6, Zenon
    <3> QED BY <3>1, <3>2, <3>3, Zenon DEF ReadSoFar
  <2> QED BY <1>1, <2>1, <2>2, <2>3, <2>12, Zenon DEF RunIInv
<1> QED BY <1>2, <1>3, Zenon

(* The tool meets the end of the pipe. *)
LEMMA ReadToEndKeeps ==
  ASSUME RunIInv, B!ReadToEnd PROVE RunIInv'
<1>1. /\ UNCHANGED <<kind, written, plan, process, pipe, artifacts, readError, result>>
      /\ parent = "reading" /\ pipe = <<>> /\ process # "running" /\ parent' = "waiting"
  BY Zenon DEF B!ReadToEnd, B!EndOfFile, B!cargoVars
<1>2. parent # "done" /\ parent' # "done" /\ parent' # "reading"
  BY <1>1
<1> QED BY <1>1, <1>2, SeenStays, Zenon DEF RunIInv

(* The tool waits for cargo, and has its result. *)
LEMMA WaitKeeps ==
  ASSUME RunIInv, B!Wait PROVE RunIInv'
<1>1. /\ UNCHANGED <<kind, written, plan, process, pipe, artifacts, readError>>
      /\ parent = "waiting" /\ process # "running" /\ parent' = "done" /\ result' = B!Outcome
  BY Zenon DEF B!Wait, B!cargoVars
<1>2. B!Outcome' = B!Outcome
  BY <1>1, Zenon DEF B!Outcome, B!UniqueCargoArtifact
<1>3. parent # "reading" /\ parent' # "reading"
  BY <1>1
<1> QED BY <1>1, <1>2, <1>3, SeenStays, Zenon DEF RunIInv

(* Steps of the other parts leave the build alone. *)
LEMMA RunStays ==
  ASSUME RunIInv, UNCHANGED buildVars PROVE RunIInv'
<1>1. B!Outcome' = B!Outcome
  BY Zenon DEF B!Outcome, B!UniqueCargoArtifact, buildVars
<1> QED BY <1>1, SeenStays, Zenon DEF RunIInv, buildVars

(* The absence of a path is not a path. *)
LEMMA NoneIsNoPath == None \notin B!Paths
BY Zenon DEF B!Paths

(* A result that is a path ends a build that went well, and it is the only    *)
(* path that was collected.                                                   *)
LEMMA PathIsUnique ==
  ASSUME RunIInv, result \in B!Paths
  PROVE  process = "ok" /\ ~readError /\ parent = "done" /\ artifacts = {result}
<1>1. \A f \in {"build failed", "read error", "no artifact", "multiple artifacts"} : result # f
  BY PathsAssumption, Zenon DEF Failures
<1>2. result # None
  BY NoneIsNoPath, Zenon
<1>3. parent = "done" /\ process # "running" /\ result = B!Outcome
  BY <1>2, Zenon DEF RunIInv
<1>4. process # "failed" /\ ~readError /\ result = B!UniqueCargoArtifact(artifacts)
  BY <1>1, <1>3, Zenon DEF B!Outcome
<1>5. PICK p \in artifacts : artifacts = {p}
  BY <1>1, <1>4, Zenon DEF B!UniqueCargoArtifact
<1>6. result = CHOOSE q \in artifacts : TRUE
  BY <1>4, <1>5, Zenon DEF B!UniqueCargoArtifact
<1>7. result = p
  BY <1>5, <1>6, Zenon
<1>8. process = "ok"
  BY <1>3, <1>4, Zenon DEF RunIInv
<1> QED BY <1>3, <1>4, <1>5, <1>7, <1>8, Zenon

(* collect_cargo_artifacts takes the products of the package and no others. *)
LEMMA CollectedIsOwn ==
  ASSUME kind \in {"Bin", "Cdylib"}, NEW m, NEW p
  PROVE  p \in B!Collected(m)
           <=> B!OwnProduct(m) /\ p \in (IF kind = "Cdylib" THEN m.so ELSE {m.exe} \ {None})
<1>1. CASE m.what # "artifact" \/ ~m.own \/ m.test \/ m.build
  <2>1. B!Collected(m) = {}
    BY <1>1, Zenon DEF B!Collected
  <2> QED BY <1>1, <2>1, Zenon DEF B!OwnProduct
<1>2. CASE m.what = "artifact" /\ m.own /\ ~m.test /\ ~m.build
  <2>1. CASE kind = "Bin"
    <3>1. kind # "Cdylib"
      BY <2>1
    <3>2. B!Collected(m) = {m.exe} \ {None}
      BY <1>2, <2>1, Zenon DEF B!Collected
    <3>3. B!OwnProduct(m)
      BY <1>2, <3>1, Zenon DEF B!OwnProduct
    <3> QED BY <3>1, <3>2, <3>3, Zenon
  <2>2. CASE kind = "Cdylib"
    <3>1. kind # "Bin"
      BY <2>2
    <3>2. B!Collected(m) = IF m.cdylib THEN m.so ELSE {}
      BY <1>2, <3>1, Zenon DEF B!Collected
    <3>3. B!OwnProduct(m) <=> m.cdylib
      BY <1>2, <2>2, Zenon DEF B!OwnProduct
    <3> QED BY <2>2, <3>2, <3>3, Zenon
  <2> QED BY <2>1, <2>2
<1> QED BY <1>1, <1>2, Zenon

(* What has been collected when all is read is what the package produced. *)
LEMMA CollectedIsProducts ==
  ASSUME ReadSoFar, pipe = <<>>, written \in Seq(Messages), kind \in {"Bin", "Cdylib"}
  PROVE  artifacts = B!Products /\ \A m \in B!Output : m.what # "bad"
<1>1. DOMAIN written = 1 .. Seen
  BY DEF Seen
<1>2. \A m \in B!Output : m.what # "bad"
  BY <1>1, Zenon DEF ReadSoFar, B!Output
<1>3. \A p : p \in artifacts <=> \E m \in B!Output : p \in B!Collected(m)
  BY <1>1, Zenon DEF ReadSoFar, B!Output
<1>4. \A p : p \in artifacts
        <=> \E m \in B!Output : B!OwnProduct(m) /\ p \in (IF kind = "Cdylib" THEN m.so ELSE {m.exe} \ {None})
  BY <1>3, CollectedIsOwn, Zenon
<1> DEFINE Own == {n \in B!Output : B!OwnProduct(n)}
           Path(m) == IF kind = "Cdylib" THEN m.so ELSE {m.exe} \ {None}
<1>5. \A p : p \in artifacts <=> \E m \in Own : p \in Path(m)
  BY <1>4, Zenon
<1>6. B!Products = UNION {Path(m) : m \in Own}
  BY Zenon DEF B!Products
<1> HIDE DEF Own, Path
<1>7. \A p : p \in B!Products <=> \E m \in Own : p \in Path(m)
  BY <1>6
<1>8. \A p : p \in artifacts <=> p \in B!Products
  BY <1>5, <1>7, Zenon
<1> QED BY <1>2, <1>8, Zenon

(* What a build returns. *)
LEMMA ResultIsProduct ==
  ASSUME RunIInv PROVE B!ResultIsTheProduct
<1>1. ASSUME parent = "done", process = "failed" PROVE result = "build failed"
  BY <1>1, Zenon DEF RunIInv, B!Outcome
<1>2. ASSUME result \in B!Paths
      PROVE  process = "ok" /\ {m \in B!Output : m.what = "bad"} = {} /\ B!Products = {result}
  <2>1. process = "ok" /\ ~readError /\ parent = "done" /\ artifacts = {result}
    BY <1>2, PathIsUnique, Zenon
  <2>2. parent # "reading"
    BY <2>1
  <2>3. ReadSoFar /\ pipe = <<>> /\ written \in Seq(Messages) /\ kind \in {"Bin", "Cdylib"}
    BY <2>1, <2>2, Zenon DEF RunIInv
  <2>4. artifacts = B!Products /\ \A m \in B!Output : m.what # "bad"
    BY <2>3, CollectedIsProducts, Zenon
  <2> QED BY <2>1, <2>4, Zenon
<1> QED BY <1>1, <1>2, Zenon DEF B!ResultIsTheProduct

(* Before and after a build there is no result. *)
LEMMA NothingYet ==
  ASSUME B!NoBuild PROVE B!ResultIsTheProduct
<1>1. result = None /\ parent = "reading" /\ parent # "done"
  BY DEF B!NoBuild
<1> QED BY <1>1, NoneIsNoPath, Zenon DEF B!ResultIsTheProduct

-----------------------------------------------------------------------------
(* The tool. *)

(* A build has a state only while it runs, and a UUID is read from an image   *)
(* at the end.                                                                *)
ToolIInv ==
  /\ ConfigIInv
  /\ tool = "building" => RunIInv
  /\ tool # "building" => B!NoBuild
  /\ tool = "reading" => elf \in Elfs
  /\ uuid # None => tool = "ended" /\ elf \in Elfs /\ uuid = U!ReadUuid(elf)

(* The invariant holds before the first step. *)
LEMMA ToolStarts ==
  ASSUME ToolInit PROVE ToolIInv
<1>1. tool = "configuring" /\ B!NoBuild /\ uuid = None /\ config = None /\ stage = "start"
  BY Zenon DEF ToolInit, ConfigInit
<1> QED BY <1>1 DEF ToolIInv, ConfigIInv

(* There is no build until one is started. *)
LEMMA NoBuildStays ==
  ASSUME B!NoBuild, UNCHANGED buildVars PROVE B!NoBuild'
BY Zenon DEF B!NoBuild, buildVars

(* Steps of the other parts leave the UUID alone. *)
LEMMA UuidStays ==
  ASSUME UNCHANGED <<product, elfVars>> PROVE U!ReadUuid(elf)' = U!ReadUuid(elf) /\ uuid' = uuid /\ elf' = elf
<1>1. U!Skip(elf)' = U!Skip(elf)
  BY Zenon DEF U!Skip, U!PointerWidth, elfVars
<1> QED BY <1>1, Zenon DEF U!ReadUuid, elfVars

(* A configuration that is forgotten says nothing. *)
LEMMA ForgottenConfig ==
  ASSUME ForgetConfig PROVE ConfigIInv'
BY DEF ForgetConfig, ConfigIInv

(* Every step of the tool. *)
LEMMA ToolStep ==
  ASSUME ToolIInv, ToolNext PROVE ToolIInv'
<1> USE DEF ToolIInv
<1>1. ASSUME UNCHANGED configVars PROVE ConfigIInv'
  BY <1>1, ConfigStays, Zenon DEF configVars
<1>2. CASE Configure
  <2>1. tool' = tool /\ tool = "configuring" /\ UNCHANGED <<product, elfVars>> /\ UNCHANGED buildVars /\ ConfigNext
    BY <1>2, Zenon DEF Configure
  <2>2. tool # "building" /\ tool # "reading" /\ tool # "ended"
    BY <2>1
  <2> QED BY <2>1, <2>2, ConfigureKeeps, NoBuildStays, UuidStays, Zenon
<1>3. CASE Configured \/ InspectUuid \/ Clean
  <2>1. /\ tool = "configuring" /\ tool' \in {"spawning", "ended", "built"} /\ ForgetConfig
        /\ UNCHANGED <<buildVars, elfVars>>
    BY <1>3, Zenon DEF Configured, InspectUuid, Clean
  <2>2. /\ tool # "building" /\ tool # "ended" /\ tool' # "building" /\ tool' # "reading"
        /\ UNCHANGED buildVars /\ uuid' = uuid
    BY <2>1 DEF elfVars
  <2> QED BY <2>1, <2>2, ForgottenConfig, NoBuildStays, Zenon
<1>4. CASE GivesUp
  <2>1. /\ tool \in {"spawning", "built"} /\ tool' = "ended" /\ UNCHANGED configVars
        /\ UNCHANGED buildVars /\ UNCHANGED <<product, elfVars>>
    BY <1>4, Zenon DEF GivesUp
  <2>2. tool # "building" /\ tool # "ended" /\ tool' # "building" /\ tool' # "reading"
    BY <2>1
  <2> QED BY <1>1, <2>1, <2>2, NoBuildStays, UuidStays, Zenon
<1>5. CASE SpawnCargo
  <2>1. /\ tool = "spawning" /\ tool' = "building" /\ UNCHANGED configVars /\ UNCHANGED <<product, elfVars>>
    BY <1>5, Zenon DEF SpawnCargo
  <2>2. tool # "building" /\ tool # "ended" /\ tool' # "reading"
    BY <2>1
  <2>3. RunIInv'
    BY <1>5, <2>2, SpawnStarts, Zenon DEF SpawnCargo
  <2> QED BY <1>1, <2>1, <2>2, <2>3, UuidStays, Zenon
<1>6. CASE CargoStep \/ Building(B!ParentStep)
  <2>1. /\ tool = "building" /\ tool' = tool /\ UNCHANGED configVars /\ UNCHANGED <<product, elfVars>>
        /\ B!CargoStep \/ B!ParentStep
    BY <1>6, Zenon DEF CargoStep, Building
  <2>2. tool # "ended" /\ tool # "reading"
    BY <2>1
  <2>3. RunIInv'
    BY <2>1, WritesKeep, ExitsKeep, ReadMessageKeeps, ReadToEndKeeps, WaitKeeps, Zenon DEF B!CargoStep, B!ParentStep
  <2> QED BY <1>1, <2>1, <2>2, <2>3, UuidStays, Zenon
<1>7. CASE Built
  <2>1. /\ tool = "building" /\ tool' \in {"built", "ended"} /\ UNCHANGED configVars /\ UNCHANGED <<product, elfVars>>
        /\ B!Discard
    BY <1>7, Zenon DEF Built
  <2>2. tool # "ended" /\ tool' # "reading" /\ tool' # "building"
    BY <2>1
  <2>3. B!NoBuild'
    BY <2>1, Zenon DEF B!Discard, B!NoBuild
  <2> QED BY <1>1, <2>1, <2>2, <2>3, UuidStays, Zenon
<1>8. CASE OpenElf
  <2>1. /\ tool = "built" /\ tool' = "reading" /\ UNCHANGED configVars /\ UNCHANGED buildVars
        /\ elf' \in Elfs /\ uuid' = uuid
    BY <1>8, Zenon DEF OpenElf
  <2>2. tool # "ended" /\ tool # "building" /\ tool' # "building"
    BY <2>1
  <2> QED BY <1>1, <2>1, <2>2, NoBuildStays, Zenon
<1>9. CASE ReadUuid
  <2>1. /\ tool = "reading" /\ tool' = "ended" /\ UNCHANGED configVars /\ UNCHANGED buildVars
        /\ elf' = elf /\ product' = product /\ uuid' = U!ReadUuid(elf)
    BY <1>9, Zenon DEF ReadUuid, U!Read
  <2>2. tool # "building" /\ tool' # "building" /\ tool' # "reading"
    BY <2>1
  <2>3. U!Skip(elf)' = U!Skip(elf)
    BY <2>1, Zenon DEF U!Skip, U!PointerWidth
  <2>4. U!ReadUuid(elf)' = U!ReadUuid(elf)
    BY <2>1, <2>3, Zenon DEF U!ReadUuid
  <2> QED BY <1>1, <2>1, <2>2, <2>4, NoBuildStays, Zenon
<1> QED BY <1>2, <1>3, <1>4, <1>5, <1>6, <1>7, <1>8, <1>9, Zenon DEF ToolNext, BuildStep

(* A step that changes nothing. *)
LEMMA ToolStutters ==
  ASSUME ToolIInv, UNCHANGED toolVars PROVE ToolIInv'
<1>1. /\ UNCHANGED configVars /\ UNCHANGED <<product, elfVars>> /\ UNCHANGED buildVars /\ tool' = tool
  BY Zenon DEF toolVars
<1>2. ConfigIInv'
  BY <1>1, ConfigStays, Zenon DEF configVars, ToolIInv
<1> QED BY <1>1, <1>2, RunStays, NoBuildStays, UuidStays, Zenon DEF ToolIInv

(* Configuration, build and image are as the invariant says, whatever the     *)
(* inputs, the messages of cargo and the ELF files.                           *)
THEOREM ToolIInvHolds == ToolSpec => []ToolIInv
<1>1. ToolInit => ToolIInv
  BY ToolStarts, Zenon
<1>2. ToolIInv /\ [ToolNext]_toolVars => ToolIInv'
  BY ToolStep, ToolStutters, Zenon
<1> QED BY <1>1, <1>2, PTL DEF ToolSpec

(* resolve_config: the kit is the one that the table of the manifest or the   *)
(* environment names for the architecture of the command.                     *)
THEOREM AlwaysDirForArch == ToolSpec => []DirForArch
<1>1. ToolIInv => DirForArch
  BY DirIsForArch, Zenon DEF ToolIInv
<1> QED BY <1>1, ToolIInvHolds, PTL

(* The environment decides only what neither the command line nor the manifest *)
(* does.                                                                      *)
THEOREM AlwaysEnvironmentLast == ToolSpec => []EnvironmentLast
<1>1. ToolIInv => EnvironmentLast
  BY EnvironmentIsLast, Zenon DEF ToolIInv
<1> QED BY <1>1, ToolIInvHolds, PTL

(* setup_build_command: the target, the linker, the variables and the features *)
(* of the cargo command agree with each other, for every configuration.       *)
THEOREM AlwaysToolchainMatches == ToolSpec => []ToolchainMatches
<1>1. ToolIInv => ToolchainMatches
  BY ToolchainIsMatched, Zenon DEF ToolIInv
<1> QED BY <1>1, ToolIInvHolds, PTL

(* run_cargo_build returns a path only if it is the one product of the package, *)
(* of a build that succeeded; a failed build is reported as one.              *)
THEOREM AlwaysTheProduct == ToolSpec => []ResultIsTheProduct
<1>1. ToolIInv => ResultIsTheProduct
  BY ResultIsProduct, NothingYet, Zenon DEF ToolIInv, ResultIsTheProduct
<1> QED BY <1>1, ToolIInvHolds, PTL

(* elf_uuid.rs reads the UUID from where the loader would put the symbol, in  *)
(* every well-typed ELF file.                                                 *)
THEOREM AlwaysReadsWhatIsLoaded == ToolSpec => []ReadsWhatIsLoaded
<1>1. ToolIInv => ReadsWhatIsLoaded
  BY ElfsAssumption, ReadIsLoaded, Zenon DEF ToolIInv, ReadsWhatIsLoaded, U!ReadsWhatIsLoaded, U!Found
<1> QED BY <1>1, ToolIInvHolds, PTL

-----------------------------------------------------------------------------
(* The properties of a TA. *)

AllTypes == {"Bool", "U32", "Uuid", "Identity", "Str", "BinaryBlock", "U64"}

(* What add_ext_property can have been given. *)
Extras == {e \in [name : Names, type : Types, value : UNION {Values[t] : t \in Types}] : e.value \in Values[e.type]}

ConfTyped ==
  /\ DOMAIN conf = {"flags", "data", "stack", "framework", "version", "ext"}
  /\ conf.stack \in Nat /\ conf.framework \in Nat /\ conf.version \in Texts
  /\ conf.ext \in Seq(Extras)

(* The inductive invariant: the header is the one of the configuration, which *)
(* does not change any more; and what is read from it is as it should be.     *)
HeaderIs ==
  /\ header.props = Props(conf) /\ header.heap = TaHeap(conf)
  /\ header.head = TaHead(conf, (conf.stack + conf.framework) % Word)
PropIInv ==
  /\ ConfTyped
  /\ header # Nothing => HeaderIs
  /\ last # Nothing => header # Nothing
  /\ StandardAsConfigured /\ ExtReadsBack

(* The least of a set of numbers is the first. *)
LEMMA FirstIs ==
  ASSUME NEW S \in SUBSET Nat, NEW m \in S, \A j \in S : m <= j
  PROVE  First(S) = m
<1>1. First(S) \in S /\ \A j \in S : First(S) <= j
  BY Zenon DEF First
<1>2. First(S) <= m /\ m <= First(S) /\ m \in Nat /\ First(S) \in Nat
  BY <1>1, Zenon
<1> QED BY <1>2

(* The first of some places is one of them, and none is before it. *)
LEMMA FirstIsOne ==
  ASSUME NEW S \in SUBSET Nat, S # {}
  PROVE  First(S) \in S /\ \A j \in S : First(S) <= j
BY LeastExists, Zenon DEF First

(* A C string has no NUL in it. *)
LEMMA CStringFacts ==
  ASSUME NEW v \in Seq(STRING)
  PROVE  Len(CString(v)) \in Nat /\ Nuls(CString(v)) = {}
<1>0. Len(v) \in Nat
  OBVIOUS
<1>1. CASE Nuls(v) = {}
  BY <1>0, <1>1, Zenon DEF CString
<1>2. CASE Nuls(v) # {}
  <2>1. Nuls(v) \in SUBSET Nat /\ Nuls(v) \subseteq 1..Len(v)
    BY DEF Nuls
  <2>2. PICK m \in 1..Len(v) : m = First(Nuls(v)) /\ \A j \in Nuls(v) : m <= j
    BY <1>2, <2>1, FirstIsOne, Zenon
  <2>3. CString(v) = SubSeq(v, 1, m - 1)
    BY <1>2, <2>2, Zenon DEF CString
  <2>4. /\ Len(CString(v)) \in Nat /\ DOMAIN CString(v) = 1..(m - 1)
        /\ \A i \in 1..(m - 1) : CString(v)[i] = v[i]
    BY <2>2, <2>3
  <2>5. ASSUME NEW i \in 1..(m - 1) PROVE v[i] # "nul"
    <3>1. i \in DOMAIN v /\ ~(m <= i)
      BY <2>2
    <3> QED BY <2>2, <3>1, Zenon DEF Nuls
  <2> QED BY <2>4, <2>5, Zenon DEF Nuls
<1> QED BY <1>1, <1>2, Zenon

(* The numbers and layouts of the types are those of the TEE, and no two are  *)
(* the same.                                                                  *)
LEMMA TypeFacts ==
  ASSUME NEW t \in AllTypes
  PROVE  /\ TypeCode[t] = TeeType[t] /\ Pointee[t] = Layout[t]
         /\ \A u \in AllTypes : TeeType[u] = TeeType[t] => u = t
BY DEF AllTypes, TypeCode, TeeType, Pointee, Layout

(* An entry of type t with the value v. *)
IsOf(p, t, v) == p.code = TeeType[t] /\ p.layout = Layout[t] /\ p.value = v

(* Such an entry has its type. *)
LEMMA PropIsOf ==
  ASSUME NEW name, NEW t, NEW v, NEW p, p = Prop(name, TeeType[t], Layout[t], v) PROVE IsOf(p, t, v)
BY DEF Prop, IsOf

(* What the TEE makes of it in its own type, *)
Success(v) == [code |-> "SUCCESS", value |-> v]

(* the value it was given, *)
LEMMA ReadAsOwn ==
  ASSUME NEW t, NEW v, NEW p, IsOf(p, t, v), t # "BinaryBlock" PROVE ReadAs(p, t) = Success(v)
BY Zenon DEF ReadAs, IsOf, Success

(* for a block the decoded bytes, *)
LEMMA ReadAsBlock ==
  ASSUME NEW v, NEW p, IsOf(p, "BinaryBlock", v) PROVE ReadAs(p, "BinaryBlock") = Success(Decoded(v))
BY Zenon DEF ReadAs, IsOf, Success

(* and in another one. *)
Misread(u) == IF u = "Str" THEN Success(<<"its", "text">>) ELSE [code |-> "BAD_FORMAT"]

(* which is refused, or a text. *)
LEMMA ReadAsOther ==
  ASSUME NEW t \in AllTypes, NEW v, NEW p, IsOf(p, t, v), NEW u \in AllTypes, u # t
  PROVE  ReadAs(p, u) = Misread(u)
<1>1. p.code # TeeType[u]
  BY TypeFacts, Zenon DEF IsOf
<1> QED BY <1>1, Zenon DEF ReadAs, Misread, Success

-----------------------------------------------------------------------------
(* from_raw, by what the TEE answers. *)

(* from_raw of the types with one call gives what the TEE does; *)
LEMMA RawPlain ==
  ASSUME NEW set, NEW name, NEW t, t # "Str", t # "BinaryBlock"
  PROVE  FromRaw(set, name, t) = TeeGet(set, name, t)
BY Zenon DEF FromRaw, FromRawPlain, FromRawFields

(* an error of the TEE is passed on by all; *)
LEMMA RawRefused ==
  ASSUME NEW set, NEW name, NEW t, NEW code \in {"ITEM_NOT_FOUND", "BAD_FORMAT"}, TeeGet(set, name, t) = [code |-> code]
  PROVE  FromRaw(set, name, t).code = code
<1>1. PICK g : g = TeeGet(set, name, t)
  BY Zenon
<1>2. g.code = code /\ code # "SUCCESS" /\ code # "SHORT_BUFFER"
  BY <1>1
<1>3. SizeCall(g, t) = [code |-> code, size |-> 0]
  BY <1>2, Zenon DEF SizeCall
<1>4. PICK f : f = SizeCall(g, t)
  BY Zenon
<1>5. f.code = code /\ [code |-> f.code].code = code
  BY <1>3, <1>4
<1>6. CASE t = "Str"
  BY <1>1, <1>2, <1>4, <1>5, <1>6, Zenon DEF FromRaw, FromRawString
<1>7. CASE t = "BinaryBlock"
  <2>1. t # "Str"
    BY <1>7
  <2> QED BY <1>1, <1>2, <1>4, <1>5, <1>7, <2>1, Zenon DEF FromRaw, FromRawBlock
<1> QED BY <1>1, <1>2, <1>6, <1>7, RawPlain, Zenon

(* a string without NUL comes through the two calls, *)
LEMMA RawString ==
  ASSUME NEW set, NEW name, NEW v, Len(v) \in Nat, Nuls(v) = {},
         TeeGet(set, name, "Str") = Success(v)
  PROVE  FromRaw(set, name, "Str") = Success(v)
<1>1. PICK g : g = TeeGet(set, name, "Str")
  BY Zenon
<1>2. g.code = "SUCCESS" /\ g.value = v
  BY <1>1 DEF Success
<1>3. SizeCall(g, "Str").code = "SHORT_BUFFER"
  BY <1>2 DEF SizeCall
<1>4. CString(g.value) = g.value
  BY <1>2, Zenon DEF CString
<1>5. FromRaw(set, name, "Str") = FromRawString(set, name)
  BY Zenon DEF FromRaw
<1>6. SizeCall(g, "Str").code # "SUCCESS"
  BY <1>3
<1> QED BY <1>1, <1>3, <1>4, <1>5, <1>6, Zenon DEF FromRawString

(* and so does a block, empty or not. *)
LEMMA RawBlock ==
  ASSUME NEW set, NEW name, NEW v \in Seq(Nat),
         TeeGet(set, name, "BinaryBlock") = Success(v)
  PROVE  FromRaw(set, name, "BinaryBlock") = Success(v)
<1>1. PICK g : g = TeeGet(set, name, "BinaryBlock")
  BY Zenon
<1>2. g.code = "SUCCESS" /\ g.value = v /\ g = Success(v)
  BY <1>1 DEF Success
<1>3. FromRaw(set, name, "BinaryBlock") = FromRawBlock(set, name)
  BY DEF FromRaw
<1>4. CASE Len(v) = 0
  <2>1. SizeCall(g, "BinaryBlock") = [code |-> "SUCCESS", size |-> 0]
    BY <1>2, <1>4 DEF SizeCall
  <2>2. PICK f : f = SizeCall(g, "BinaryBlock")
    BY Zenon
  <2>3. f.code = "SUCCESS" /\ f.size = 0 /\ v = <<>>
    BY <1>4, <2>1, <2>2
  <2> QED BY <1>1, <1>3, <2>2, <2>3, Zenon DEF FromRawBlock, NoneNeeded, Success
<1>5. CASE Len(v) # 0
  <2>1. SizeCall(g, "BinaryBlock").code = "SHORT_BUFFER"
    BY <1>2, <1>5 DEF SizeCall
  <2>2. SizeCall(g, "BinaryBlock").code # "SUCCESS"
    BY <2>1
  <2> QED BY <1>1, <1>2, <1>3, <2>1, <2>2, Zenon DEF FromRawBlock
<1> QED BY <1>4, <1>5, Zenon

-----------------------------------------------------------------------------
(* ta_props. *)

(* Where the properties that every TA has are. *)
StdPlace == [singleInstance |-> 1, multiSession |-> 2, instanceKeepAlive |-> 3, instanceKeepCrashed |-> 4,
             dataSize |-> 5, stackSize |-> 6, version |-> 7, doesNotCloseHandleOnCorruptObject |-> 8]

(* What they are. *)
StdValue(c) ==
  [singleInstance |-> "SINGLE_INSTANCE" \in c.flags, multiSession |-> "MULTI_SESSION" \in c.flags,
   instanceKeepAlive |-> "INSTANCE_KEEP_ALIVE" \in c.flags,
   instanceKeepCrashed |-> "INSTANCE_KEEP_CRASHED" \in c.flags,
   dataSize |-> c.data, stackSize |-> c.stack, version |-> CString(c.version),
   doesNotCloseHandleOnCorruptObject |-> "DONT_CLOSE" \in c.flags]

(* The standard properties have their places, names, types and values. *)
LEMMA StandardFacts ==
  ASSUME NEW c
  PROVE  /\ DOMAIN Standard(c) = 1..8 /\ Len(Standard(c)) = 8
         /\ \A i \in 1..8 : \E k \in DOMAIN TaKeys : Standard(c)[i].name = <<k>> /\ StdPlace[k] = i
         /\ \A k \in DOMAIN TaKeys :
              /\ StdPlace[k] \in 1..8
              /\ Standard(c)[StdPlace[k]] = Prop(<<k>>, TeeType[TaKeys[k]], Layout[TaKeys[k]], StdValue(c)[k])
<1>1. PICK b1, b2, b3, b4, b8, v :
        /\ b1 = ("SINGLE_INSTANCE" \in c.flags) /\ b2 = ("MULTI_SESSION" \in c.flags)
        /\ b3 = ("INSTANCE_KEEP_ALIVE" \in c.flags) /\ b4 = ("INSTANCE_KEEP_CRASHED" \in c.flags)
        /\ b8 = ("DONT_CLOSE" \in c.flags) /\ v = CString(c.version)
  BY Zenon
<1>2. Standard(c) = << Prop(<<"singleInstance">>, 0, "bool", b1), Prop(<<"multiSession">>, 0, "bool", b2),
                       Prop(<<"instanceKeepAlive">>, 0, "bool", b3), Prop(<<"instanceKeepCrashed">>, 0, "bool", b4),
                       Prop(<<"dataSize">>, 1, "u32", c.data), Prop(<<"stackSize">>, 1, "u32", c.stack),
                       Prop(<<"version">>, 4, "bytes", v),
                       Prop(<<"doesNotCloseHandleOnCorruptObject">>, 0, "bool", b8) >>
  BY <1>1, Zenon DEF Standard
<1>3. StdValue(c) = [singleInstance |-> b1, multiSession |-> b2, instanceKeepAlive |-> b3, instanceKeepCrashed |-> b4,
                     dataSize |-> c.data, stackSize |-> c.stack, version |-> v,
                     doesNotCloseHandleOnCorruptObject |-> b8]
  BY <1>1, Zenon DEF StdValue
<1>4. /\ DOMAIN TaKeys = {"singleInstance", "multiSession", "instanceKeepAlive", "instanceKeepCrashed", "dataSize",
                          "stackSize", "version", "doesNotCloseHandleOnCorruptObject"}
  BY DEF TaKeys
<1>5. DOMAIN Standard(c) = 1..8 /\ Len(Standard(c)) = 8
  BY <1>2
<1>6. ASSUME NEW k \in DOMAIN TaKeys
      PROVE  /\ StdPlace[k] \in 1..8
             /\ Standard(c)[StdPlace[k]] = Prop(<<k>>, TeeType[TaKeys[k]], Layout[TaKeys[k]], StdValue(c)[k])
  BY <1>2, <1>3, <1>4 DEF StdPlace, TaKeys, TeeType, Layout
<1>7. ASSUME NEW i \in 1..8
      PROVE  \E k \in DOMAIN TaKeys : StdPlace[k] = i
  BY <1>4 DEF StdPlace
<1>8. ASSUME NEW i \in 1..8
      PROVE  \E k \in DOMAIN TaKeys : Standard(c)[i].name = <<k>> /\ StdPlace[k] = i
  <2>1. PICK k \in DOMAIN TaKeys : StdPlace[k] = i
    BY <1>7, Zenon
  <2>2. Standard(c)[i] = Prop(<<k>>, TeeType[TaKeys[k]], Layout[TaKeys[k]], StdValue(c)[k])
    BY <1>6, <2>1, Zenon
  <2>3. Standard(c)[i].name = <<k>>
    BY <2>2 DEF Prop
  <2> QED BY <2>1, <2>3, Zenon
<1> QED BY <1>5, <1>6, <1>8, Zenon

(* A function on the first n numbers is a sequence. *)
LEMMA IsSequence ==
  ASSUME NEW n \in Nat, NEW S, NEW f \in [1..n -> S] PROVE f \in Seq(S) /\ Len(f) = n
OBVIOUS

(* The elements of two sequences follow each other in one. *)
InOne(u, s, t) ==
  /\ DOMAIN u = 1..(Len(s) + Len(t))
  /\ \A i \in 1..Len(s) : u[i] = s[i]
  /\ \A i \in 1..Len(t) : u[Len(s) + i] = t[i]

(* The places of a concatenation. *)
LEMMA Joined ==
  ASSUME NEW S, NEW s \in Seq(S), NEW t \in Seq(S), NEW u, u = s \o t PROVE InOne(u, s, t)
<1>1. Len(s) \in Nat /\ Len(t) \in Nat /\ Len(u) = Len(s) + Len(t) /\ DOMAIN u = 1..Len(u)
  OBVIOUS
<1>2. ASSUME NEW i \in 1..Len(s) PROVE u[i] = s[i]
  OBVIOUS
<1>3. ASSUME NEW i \in 1..Len(t) PROVE u[Len(s) + i] = t[i]
  OBVIOUS
<1> QED BY <1>1, <1>2, <1>3, Zenon DEF InOne

(* The additional properties come after them. *)
LEMMA PropsFacts ==
  ASSUME NEW c, c.ext \in Seq(Extras)
  PROVE  /\ DOMAIN Props(c) = 1..(8 + Len(c.ext)) /\ Len(c.ext) \in Nat /\ DOMAIN c.ext = 1..Len(c.ext)
         /\ \A i \in 1..8 : Props(c)[i] = Standard(c)[i]
         /\ \A i \in 1..Len(c.ext) : Props(c)[8 + i] = ExtProp(c.ext[i])
<1>1. PICK n \in Nat : n = Len(c.ext)
  OBVIOUS
<1>2. PICK X : X = {Standard(c)[i] : i \in 1..8} \union {ExtProp(c.ext[i]) : i \in 1..n}
  BY Zenon
<1>3. PICK s : s = Standard(c)
  BY Zenon
<1>4. PICK t : t = [i \in 1..n |-> ExtProp(c.ext[i])]
  BY Zenon
<1>5. DOMAIN s = 1..8 /\ Len(s) = 8 /\ \A i \in 1..8 : s[i] \in X
  BY <1>2, <1>3, StandardFacts, Zenon
<1>6. s \in Seq(X)
  <2>1. s = [i \in 1..8 |-> s[i]]
    BY <1>3 DEF Standard
  <2>2. s \in [1..8 -> X] /\ 8 \in Nat
    BY <1>5, <2>1
  <2> QED BY <2>2, IsSequence, Zenon
<1>7. t \in Seq(X) /\ Len(t) = n
  <2>1. \A i \in 1..n : t[i] \in X
    BY <1>2, <1>4, Zenon
  <2>2. t = [i \in 1..n |-> t[i]]
    BY <1>4, Zenon
  <2>3. t \in [1..n -> X]
    BY <2>1, <2>2, Zenon
  <2> QED BY <2>3, IsSequence, Zenon
<1>u. PICK u : u = s \o t
  BY Zenon
<1>8. /\ DOMAIN u = 1..(8 + n)
      /\ \A i \in 1..8 : u[i] = s[i]
      /\ \A i \in 1..n : u[8 + i] = t[i]
  <2>0. s \in Seq(X) /\ t \in Seq(X)
    BY <1>6, <1>7, Zenon
  <2>1. Len(s) = 8 /\ Len(t) = n
    BY <1>5, <1>7, Zenon
  <2>2. InOne(u, s, t)
    BY <1>u, <2>0, Joined, Zenon
  <2> QED BY <2>1, <2>2, Zenon DEF InOne
<1>9. Props(c) = u
  BY <1>1, <1>3, <1>4, <1>u, Zenon DEF Props
<1>10. \A i \in 1..n : t[i] = ExtProp(c.ext[i])
  BY <1>4, Zenon
<1>11. DOMAIN c.ext = 1..Len(c.ext)
  OBVIOUS
<1> QED BY <1>1, <1>3, <1>8, <1>9, <1>10, <1>11, Zenon

(* The entry that the TEE finds for a property that every TA has: no          *)
(* additional one of the same name comes before it.                           *)
LEMMA FindsStandard ==
  ASSUME ConfTyped, HeaderIs, NEW k \in DOMAIN TaKeys
  PROVE  /\ Places(<<k>>) # {}
         /\ IsOf(header.props[First(Places(<<k>>))], TaKeys[k], StdValue(conf)[k])
<1>1. PICK m \in 1..8 : m = StdPlace[k]
  BY StandardFacts, Zenon
<1>2. PICK n \in Nat : n = Len(conf.ext)
  BY DEF ConfTyped
<1>3. /\ DOMAIN header.props = 1..(8 + n)
      /\ \A i \in 1..8 : header.props[i] = Standard(conf)[i]
  BY <1>2, PropsFacts, Zenon DEF ConfTyped, HeaderIs
<1>4. header.props[m] = Prop(<<k>>, TeeType[TaKeys[k]], Layout[TaKeys[k]], StdValue(conf)[k])
  BY <1>1, <1>3, StandardFacts, Zenon
<1>5. m \in Places(<<k>>)
  <2>1. header.props[m].name = <<k>> /\ m \in 1..(8 + n)
    BY <1>4 DEF Prop
  <2> QED BY <1>3, <2>1, Zenon DEF Places
<1>6. ASSUME NEW j \in Places(<<k>>) PROVE j \in Nat /\ m <= j
  <2>1. j \in 1..(8 + n) /\ header.props[j].name = <<k>>
    BY <1>3, Zenon DEF Places
  <2>2. CASE j \in 1..8
    <3>1. PICK l \in DOMAIN TaKeys : Standard(conf)[j].name = <<l>> /\ StdPlace[l] = j
      BY <2>2, StandardFacts, Zenon
    <3>2. <<l>> = <<k>>
      BY <1>3, <2>1, <2>2, <3>1, Zenon
    <3>3. l = k
      BY <3>2
    <3>4. j = m
      BY <1>1, <3>1, <3>3, Zenon
    <3> QED BY <3>4
  <2>3. CASE j \notin 1..8
    BY <2>1, <2>3
  <2> QED BY <2>2, <2>3, Zenon
<1>7. Places(<<k>>) \in SUBSET Nat
  BY <1>6, Zenon
<1>8. First(Places(<<k>>)) = m
  BY <1>5, <1>6, <1>7, FirstIs, Zenon
<1> QED BY <1>4, <1>5, <1>8, PropIsOf, Zenon

(* The entry that it finds for any other name: the additional property that   *)
(* was added first under it.                                                  *)
LEMMA FindsExtra ==
  ASSUME ConfTyped, HeaderIs, NEW name, \A k \in DOMAIN TaKeys : name # <<k>>,
         NEW same, same = {i \in DOMAIN conf.ext : CString(conf.ext[i].name) = name}
  PROVE  /\ same = {} => Places(name) = {}
         /\ same # {} => /\ First(same) \in DOMAIN conf.ext /\ Places(name) # {}
                         /\ header.props[First(Places(name))] = ExtProp(conf.ext[First(same)])
<1>1. PICK n \in Nat : n = Len(conf.ext)
  BY DEF ConfTyped
<1>2. /\ DOMAIN header.props = 1..(8 + n) /\ DOMAIN conf.ext = 1..n
      /\ \A i \in 1..8 : header.props[i] = Standard(conf)[i]
      /\ \A i \in 1..n : header.props[8 + i] = ExtProp(conf.ext[i])
  BY <1>1, PropsFacts, Zenon DEF ConfTyped, HeaderIs
<1>3. \A e : ExtProp(e).name = CString(e.name)
  BY DEF ExtProp, Prop
<1>4. ASSUME NEW j \in Places(name) PROVE j \in Nat /\ j - 8 \in same /\ j = 8 + (j - 8)
  <2>1. j \in 1..(8 + n) /\ header.props[j].name = name
    BY <1>2, Zenon DEF Places
  <2>2. j \notin 1..8
    <3>1. ASSUME j \in 1..8 PROVE FALSE
      <4>1. PICK k \in DOMAIN TaKeys : Standard(conf)[j].name = <<k>> /\ StdPlace[k] = j
        BY <3>1, StandardFacts, Zenon
      <4> QED BY <1>2, <2>1, <3>1, <4>1, Zenon
    <3> QED BY <3>1, Zenon
  <2>3. PICK i \in 1..n : j = 8 + i /\ i = j - 8
    BY <2>1, <2>2
  <2>4. CString(conf.ext[i].name) = name
    BY <1>2, <1>3, <2>1, <2>3, Zenon
  <2>5. i \in same
    BY <1>2, <2>4, Zenon
  <2>6. j \in Nat
    BY <2>1
  <2> QED BY <2>3, <2>5, <2>6, Zenon
<1>5. ASSUME NEW i \in same PROVE i \in 1..n /\ 8 + i \in Places(name)
  <2>1. i \in 1..n /\ CString(conf.ext[i].name) = name
    BY <1>2, Zenon
  <2>2. header.props[8 + i].name = name
    BY <1>2, <1>3, <2>1, Zenon
  <2>3. 8 + i \in 1..(8 + n)
    BY <2>1
  <2> QED BY <1>2, <2>1, <2>2, <2>3, Zenon DEF Places
<1>6. ASSUME same = {} PROVE Places(name) = {}
  BY <1>4, <1>6, Zenon
<1>7. ASSUME same # {}
      PROVE  /\ First(same) \in DOMAIN conf.ext /\ Places(name) # {}
             /\ header.props[First(Places(name))] = ExtProp(conf.ext[First(same)])
  <2>1. \A i \in 1..n : i \in Nat
    BY <1>1
  <2>2. same \in SUBSET Nat
    BY <1>5, <2>1, Zenon
  <2>3. PICK f \in same : f = First(same) /\ \A j \in same : f <= j
    BY <1>7, <2>2, FirstIsOne, Zenon
  <2>4. f \in 1..n /\ 8 + f \in Places(name)
    BY <1>5, <2>3, Zenon
  <2>5. ASSUME NEW j \in Places(name) PROVE 8 + f <= j
    <3>1. j \in Nat /\ f <= j - 8
      BY <1>4, <2>3, Zenon
    <3> QED BY <2>4, <3>1
  <2>6. Places(name) \in SUBSET Nat
    BY <1>4, Zenon
  <2>7. First(Places(name)) = 8 + f
    BY <2>4, <2>5, <2>6, FirstIs, Zenon
  <2> QED BY <1>2, <2>3, <2>4, <2>7, Zenon
<1> QED BY <1>6, <1>7, Zenon

-----------------------------------------------------------------------------
(* What PropertyKey::get returns. *)

(* A standard key is found at its place, before any additional property. *)
LEMMA StandardReads ==
  ASSUME ConfTyped, HeaderIs, NEW k \in DOMAIN TaKeys
  PROVE  FromRaw("CurrentTa", <<k>>, TaKeys[k]) = Success(StdValue(conf)[k])
<1>1. TaKeys[k] \in AllTypes /\ TaKeys[k] # "BinaryBlock" /\ (TaKeys[k] = "Str" => k = "version")
  BY DEF TaKeys, AllTypes
<1>2. TeeGet("CurrentTa", <<k>>, TaKeys[k]) = Success(StdValue(conf)[k])
  <2>1. PICK p : p = header.props[First(Places(<<k>>))]
    BY Zenon
  <2>2. Places(<<k>>) # {} /\ IsOf(p, TaKeys[k], StdValue(conf)[k])
    BY <2>1, FindsStandard, Zenon
  <2>3. TeeGet("CurrentTa", <<k>>, TaKeys[k]) = ReadAs(p, TaKeys[k])
    BY <2>1, <2>2, Zenon DEF TeeGet
  <2> QED BY <1>1, <2>2, <2>3, ReadAsOwn, Zenon
<1>3. CASE TaKeys[k] = "Str"
  <2>1. conf.version \in Seq(STRING)
    BY TextsAssumption, Zenon DEF ConfTyped
  <2>2. StdValue(conf)[k] = CString(conf.version)
    BY <1>1, <1>3 DEF StdValue
  <2>3. Len(StdValue(conf)[k]) \in Nat /\ Nuls(StdValue(conf)[k]) = {}
    BY <2>1, <2>2, CStringFacts, Zenon
  <2> QED BY <1>2, <1>3, <2>3, RawString, Zenon
<1>4. CASE TaKeys[k] # "Str"
  BY <1>1, <1>2, <1>4, RawPlain, Zenon
<1> QED BY <1>3, <1>4, Zenon

(* A text of the TEE itself. *)
LEMMA PlainTexts ==
  /\ Len(<<"theirs">>) \in Nat /\ Nuls(<<"theirs">>) = {}
  /\ Len(<<"its", "text">>) \in Nat /\ Nuls(<<"its", "text">>) = {}
<1>1. Len(<<"theirs">>) \in Nat
  OBVIOUS
<1>2. Len(<<"its", "text">>) \in Nat
  OBVIOUS
<1>3. DOMAIN <<"theirs">> = {1} /\ <<"theirs">>[1] = "theirs" /\ "theirs" # "nul"
  OBVIOUS
<1>4. DOMAIN <<"its", "text">> = {1, 2} /\ <<"its", "text">>[1] = "its" /\ <<"its", "text">>[2] = "text"
  OBVIOUS
<1>5. "its" # "nul" /\ "text" # "nul"
  OBVIOUS
<1> QED BY <1>1, <1>2, <1>3, <1>4, <1>5, Zenon DEF Nuls

(* A key of the client or of the TEE gives what they have. *)
LEMMA TheirReads ==
  ASSUME NEW set \in DOMAIN Keys, set # "CurrentTa", NEW k \in DOMAIN Keys[set]
  PROVE  FromRaw(set, <<k>>, Keys[set][k]) = Success(Theirs[Keys[set][k]])
<1>1. PICK t : t = Keys[set][k]
  BY Zenon
<1>2. t \in {"Bool", "U32", "Str", "Uuid", "Identity"}
  <2>1. Keys[set] = ClientKeys \/ Keys[set] = TeeKeys
    BY DEF Keys
  <2>2. CASE Keys[set] = ClientKeys
    BY <1>1, <2>2 DEF ClientKeys
  <2>3. CASE Keys[set] = TeeKeys
    <3>1. t = TeeKeys[k] /\ k \in DOMAIN TeeKeys
      BY <1>1, <2>3, Zenon
    <3>2. t \in {"Str", "Bool", "U32", "Uuid"}
      BY <3>1, Zenon DEF TeeKeys
    <3> QED BY <3>2
  <2> QED BY <2>1, <2>2, <2>3, Zenon
<1>3. t \in AllTypes /\ t # "BinaryBlock"
  BY <1>2 DEF AllTypes
<1>4. PICK p : p = Prop(<<k>>, TeeType[t], Layout[t], Theirs[t])
  BY Zenon
<1>5. <<k>>[1] = k
  OBVIOUS
<1>6. TheirProp(set, <<k>>) = p
  BY <1>1, <1>4, <1>5, Zenon DEF TheirProp
<1>7. TeeGet(set, <<k>>, t) = ReadAs(p, t)
  BY <1>5, <1>6, Zenon DEF TeeGet
<1>8. TeeGet(set, <<k>>, t) = Success(Theirs[t])
  <2>1. IsOf(p, t, Theirs[t])
    BY <1>4, PropIsOf, Zenon
  <2> QED BY <1>3, <1>7, <2>1, ReadAsOwn, Zenon
<1>9. CASE t = "Str"
  <2>1. Theirs[t] = <<"theirs">>
    BY <1>9 DEF Theirs
  <2> QED BY <1>1, <1>8, <1>9, <2>1, PlainTexts, RawString, Zenon
<1>10. CASE t # "Str"
  BY <1>1, <1>3, <1>8, <1>10, RawPlain, Zenon
<1> QED BY <1>9, <1>10, Zenon

(* What a property e that was added reads as, in the type t. *)
Back(e, t, got) ==
  IF t # e.type THEN got.code = IF t = "Str" THEN "SUCCESS" ELSE "BAD_FORMAT"
  ELSE /\ got.code = "SUCCESS"
       /\ IF e.type = "Str" THEN got.value = CString(e.value)
          ELSE IF e.type = "BinaryBlock" THEN got.value = Decoded(e.value)
          ELSE IF e.type = "Uuid" THEN Shown(got.value) = e.value
          ELSE IF e.type = "Identity" THEN <<got.value.login, Shown(got.value.uuid)>> = e.value
          ELSE got.value = e.value

(* The values of the types, one by one. *)
LEMMA ValuesAre ==
  /\ Values["Str"] = Texts /\ Values["BinaryBlock"] = {Base64(b) : b \in Blocks}
  /\ Values["Uuid"] = Uuids /\ Values["Identity"] = {0, 1} \X Uuids
BY DEF Values

(* A block is read as it was encoded. *)
LEMMA BlockFacts ==
  ASSUME NEW v \in Values["BinaryBlock"]
  PROVE  CString(v) = v /\ Decoded(v) \in Seq(Nat)
<1>1. PICK b \in Blocks : v = Base64(b)
  BY ValuesAre, Zenon
<1>2. b \in Seq(Nat)
  BY TextsAssumption, Zenon
<1>3. PICK n \in Nat : DOMAIN b = 1..n
  BY <1>2
<1>4. DOMAIN v = 1..n /\ \A i \in 1..n : v[i] \in {"A", "B"}
  BY <1>1, <1>3, Zenon DEF Base64
<1>5. Nuls(v) = {}
  BY <1>4 DEF Nuls
<1>6. Decoded(v) \in [1..n -> Nat]
  BY <1>4 DEF Decoded
<1> QED BY <1>5, <1>6, IsSequence, Zenon DEF CString

(* The fields of a UUID come back in their places. *)
LEMMA UuidFacts ==
  ASSUME NEW u \in Uuids
  PROVE  Shown(UuidCodes(u)) = u
<1>1. Shown(UuidCodes(u)) = <<u[1], u[2], u[3], u[4]>>
  BY DEF Shown, UuidCodes
<1> QED BY <1>1, UuidsAssumption, Zenon

(* What an additional property gives in its own type and in another. *)
LEMMA ExtraReads ==
  ASSUME NEW name, NEW t \in AllTypes, NEW e, e.type \in AllTypes, e.value \in Values[e.type],
         TeeGet("CurrentTa", name, t) = ReadAs(ExtProp(e), t)
  PROVE  Back(e, t, FromRaw("CurrentTa", name, t))
<1>1. IsOf(ExtProp(e), e.type, Data(e.type, e.value))
  <2>1. ExtProp(e) = Prop(CString(e.name), TeeType[e.type], Layout[e.type], Data(e.type, e.value))
    BY TypeFacts, Zenon DEF ExtProp
  <2> QED BY <2>1, PropIsOf, Zenon
<1>2. CASE t # e.type
  <2>1. TeeGet("CurrentTa", name, t) = Misread(t)
    BY <1>1, <1>2, ReadAsOther, Zenon
  <2>2. CASE t = "Str"
    <3>1. FromRaw("CurrentTa", name, t) = Success(<<"its", "text">>)
      <4>1. TeeGet("CurrentTa", name, t) = Success(<<"its", "text">>)
        BY <2>1, <2>2, Zenon DEF Misread
      <4> QED BY <2>2, <4>1, PlainTexts, RawString, Zenon
    <3>2. FromRaw("CurrentTa", name, t).code = "SUCCESS"
      BY <3>1 DEF Success
    <3> QED BY <1>2, <2>2, <3>2, Zenon DEF Back
  <2>3. CASE t # "Str"
    <3>1. FromRaw("CurrentTa", name, t).code = "BAD_FORMAT"
      <4>1. TeeGet("CurrentTa", name, t) = [code |-> "BAD_FORMAT"]
        BY <2>1, <2>3, Zenon DEF Misread
      <4>2. "BAD_FORMAT" \in {"ITEM_NOT_FOUND", "BAD_FORMAT"}
        BY Zenon
      <4> QED BY <4>1, <4>2, RawRefused, Zenon
    <3> QED BY <1>2, <2>3, <3>1, Zenon DEF Back
  <2> QED BY <2>2, <2>3, Zenon
<1>3. CASE t = e.type
  <2>1. PICK v : v = IF t = "BinaryBlock" THEN Decoded(Data(t, e.value)) ELSE Data(t, e.value)
    BY Zenon
  <2>2. TeeGet("CurrentTa", name, t) = Success(v)
    BY <1>1, <1>3, <2>1, ReadAsOwn, ReadAsBlock, Zenon
  <2>3. PICK got : got = FromRaw("CurrentTa", name, t)
    BY Zenon
  <2>4. ASSUME FromRaw("CurrentTa", name, t) = Success(v)
        PROVE  got.code = "SUCCESS" /\ got.value = v
    BY <2>3, <2>4 DEF Success
  <2>5. CASE t = "Str"
    <3>1. e.value \in Seq(STRING)
      BY <1>3, <2>5, ValuesAre, TextsAssumption, Zenon
    <3>2. v = CString(e.value)
      BY <2>1, <2>5 DEF Data
    <3>3. Len(v) \in Nat /\ Nuls(v) = {}
      BY <3>1, <3>2, CStringFacts, Zenon
    <3>4. FromRaw("CurrentTa", name, t) = Success(v)
      BY <2>2, <2>5, <3>3, RawString, Zenon
    <3> QED BY <1>3, <2>3, <2>4, <2>5, <3>2, <3>4, Zenon DEF Back
  <2>6. CASE t = "BinaryBlock"
    <3>1. CString(e.value) = e.value /\ Decoded(e.value) \in Seq(Nat)
      BY <1>3, <2>6, BlockFacts, Zenon
    <3>2. v = Decoded(e.value)
      BY <2>1, <2>6, <3>1, Zenon DEF Data
    <3>3. FromRaw("CurrentTa", name, t) = Success(v)
      BY <2>2, <2>6, <3>1, <3>2, RawBlock, Zenon
    <3>4. t # "Str"
      BY <2>6
    <3> QED BY <1>3, <2>3, <2>4, <2>6, <3>2, <3>3, <3>4, Zenon DEF Back
  <2>7. CASE t # "Str" /\ t # "BinaryBlock"
    <3>1. FromRaw("CurrentTa", name, t) = Success(v)
      BY <2>2, <2>7, RawPlain, Zenon
    <3>2. got.code = "SUCCESS" /\ got.value = v /\ v = Data(t, e.value)
      BY <2>1, <2>4, <2>7, <3>1, Zenon
    <3>3. CASE t = "Uuid"
      <4>1. v = UuidCodes(e.value) /\ e.value \in Uuids
        BY <1>3, <2>7, <3>2, <3>3, ValuesAre DEF Data
      <4>2. Shown(got.value) = e.value
        BY <3>2, <4>1, UuidFacts, Zenon
      <4> QED BY <1>3, <2>3, <2>7, <3>2, <3>3, <4>2, Zenon DEF Back
    <3>4. CASE t = "Identity"
      <4>1. v = IdentityCodes(e.value[1], e.value[2]) /\ e.value \in {0, 1} \X Uuids
        BY <1>3, <2>7, <3>2, <3>4, ValuesAre DEF Data
      <4>2. v.login = e.value[1] /\ v.uuid = UuidCodes(e.value[2])
        BY <4>1 DEF IdentityCodes
      <4>3. e.value[2] \in Uuids /\ e.value = <<e.value[1], e.value[2]>>
        BY <4>1
      <4>4. <<got.value.login, Shown(got.value.uuid)>> = e.value
        BY <3>2, <4>2, <4>3, UuidFacts, Zenon
      <4>5. t # "Uuid"
        BY <3>4
      <4> QED BY <1>3, <2>3, <2>7, <3>2, <3>4, <4>4, <4>5, Zenon DEF Back
    <3>5. CASE t # "Uuid" /\ t # "Identity"
      <4>1. v = e.value
        BY <2>7, <3>2, <3>5, Zenon DEF Data
      <4> QED BY <1>3, <2>3, <2>7, <3>2, <3>5, <4>1, Zenon DEF Back
    <3> QED BY <3>3, <3>4, <3>5, Zenon
  <2> QED BY <2>5, <2>6, <2>7, Zenon
<1> QED BY <1>2, <1>3, Zenon

-----------------------------------------------------------------------------
(* The steps. *)

(* The keys of the flags read as flags, *)
LEMMA FlagValues ==
  ASSUME NEW c, NEW k \in DOMAIN FlagOf
  PROVE  k \in DOMAIN TaKeys /\ (StdValue(c)[k] <=> FlagOf[k] \in c.flags)
<1>1. PICK b1, b2, b3, b4, b8, v :
        /\ b1 = ("SINGLE_INSTANCE" \in c.flags) /\ b2 = ("MULTI_SESSION" \in c.flags)
        /\ b3 = ("INSTANCE_KEEP_ALIVE" \in c.flags) /\ b4 = ("INSTANCE_KEEP_CRASHED" \in c.flags)
        /\ b8 = ("DONT_CLOSE" \in c.flags) /\ v = CString(c.version)
  BY Zenon
<1>2. StdValue(c) = [singleInstance |-> b1, multiSession |-> b2, instanceKeepAlive |-> b3, instanceKeepCrashed |-> b4,
                     dataSize |-> c.data, stackSize |-> c.stack, version |-> v,
                     doesNotCloseHandleOnCorruptObject |-> b8]
  BY <1>1, Zenon DEF StdValue
<1>3. \/ FlagOf[k] = "SINGLE_INSTANCE" /\ StdValue(c)[k] = b1
      \/ FlagOf[k] = "MULTI_SESSION" /\ StdValue(c)[k] = b2
      \/ FlagOf[k] = "INSTANCE_KEEP_ALIVE" /\ StdValue(c)[k] = b3
      \/ FlagOf[k] = "INSTANCE_KEEP_CRASHED" /\ StdValue(c)[k] = b4
      \/ FlagOf[k] = "DONT_CLOSE" /\ StdValue(c)[k] = b8
  BY <1>2 DEF FlagOf
<1>4. k \in DOMAIN TaKeys
  BY DEF FlagOf, TaKeys
<1> QED BY <1>1, <1>3, <1>4, Zenon

(* and the others as they are. *)
LEMMA OtherValues ==
  ASSUME NEW c
  PROVE  /\ {"stackSize", "dataSize", "version"} \subseteq DOMAIN TaKeys
         /\ StdValue(c)["stackSize"] = c.stack /\ StdValue(c)["dataSize"] = c.data
         /\ StdValue(c)["version"] = CString(c.version)
BY DEF TaKeys, StdValue

(* The loader is told the same. *)
LEMMA LoaderTold ==
  ASSUME ConfTyped, HeaderIs
  PROVE  /\ header.head.flags = conf.flags /\ header.heap = conf.data
         /\ conf.stack + conf.framework < Word => header.head.stack_size = conf.stack + conf.framework
<1>1. header.head.flags = conf.flags /\ header.heap = conf.data
  BY DEF HeaderIs, TaHead, TaHeap, Consts
<1>2. header.head.stack_size = (conf.stack + conf.framework) % Word
  BY DEF HeaderIs, TaHead
<1>3. PICK n \in Nat : n = conf.stack + conf.framework
  BY DEF ConfTyped
<1>4. n < Word => n % Word = n
  BY SizesAssumption
<1>5. n < Word => header.head.stack_size = n
  BY <1>2, <1>3, <1>4, Zenon
<1>6. ASSUME conf.stack + conf.framework < Word PROVE header.head.stack_size = conf.stack + conf.framework
  BY <1>3, <1>5, <1>6
<1> QED BY <1>1, <1>6

(* What was read. *)
IsRead(set, name, t, got) ==
  /\ last'.set = set /\ last'.name = name /\ last'.type = t /\ last'.got = got
  /\ last' # Nothing /\ conf' = conf /\ header' = header

(* A read changes nothing but what was read last. *)
LEMMA GetIs ==
  ASSUME NEW set, NEW name, NEW t, Get(set, name, t) PROVE IsRead(set, name, t, FromRaw(set, name, t))
<1>1. last' = [set |-> set, name |-> name, type |-> t, got |-> FromRaw(set, name, t)]
  BY Zenon DEF Get
<1>2. last' # Nothing
  BY <1>1 DEF Nothing
<1>3. conf' = conf /\ header' = header
  BY DEF Get
<1>4. last'.set = set /\ last'.name = name /\ last'.type = t /\ last'.got = FromRaw(set, name, t)
  BY <1>1
<1> QED BY <1>2, <1>3, <1>4, Zenon DEF IsRead

(* So a read of a standard key is as configured, *)
LEMMA GetsStandard ==
  ASSUME ConfTyped, HeaderIs, NEW set \in DOMAIN Keys, NEW name, NEW t, Get(set, name, t),
         set # "CurrentTa" => \E k \in DOMAIN Keys[set] : name = <<k>> /\ t = Keys[set][k]
  PROVE  StandardAsConfigured'
<1>1. PICK got : got = FromRaw(set, name, t)
  BY Zenon
<1>2. /\ last'.set = set /\ last'.name = name /\ last'.type = t /\ last'.got = got
      /\ last' # Nothing /\ conf' = conf /\ header' = header
  <2>1. IsRead(set, name, t, got)
    BY <1>1, GetIs, Zenon
  <2> QED BY <2>1, Zenon DEF IsRead
<1>3. ASSUME NEW k \in DOMAIN TaKeys, ReadKey(k)'
      PROVE  got.code = "SUCCESS" /\ got.value = StdValue(conf)[k]
  <2>1. set = "CurrentTa" /\ name = <<k>> /\ t = TaKeys[k]
    BY <1>2, <1>3, Zenon DEF ReadKey
  <2>2. got = Success(StdValue(conf)[k])
    BY <1>1, <2>1, StandardReads, Zenon
  <2> QED BY <2>2 DEF Success
<1>4. ASSUME set # "CurrentTa" PROVE got.code = "SUCCESS" /\ got.value = Theirs[t]
  <2>1. PICK k \in DOMAIN Keys[set] : name = <<k>> /\ t = Keys[set][k]
    BY <1>4, Zenon
  <2>2. got = Success(Theirs[t])
    BY <1>1, <1>4, <2>1, TheirReads, Zenon
  <2> QED BY <2>2 DEF Success
<1>5. \A k \in DOMAIN FlagOf : ReadKey(k)' => (got.value <=> FlagOf[k] \in conf.flags)
  BY <1>3, FlagValues, Zenon
<1>6. /\ ReadKey("stackSize")' => got.value = conf.stack
      /\ ReadKey("dataSize")' => got.value = conf.data
      /\ ReadKey("version")' => got.value = CString(conf.version)
  BY <1>3, OtherValues, Zenon
<1> QED BY <1>2, <1>3, <1>4, <1>5, <1>6, LoaderTold, Zenon DEF StandardAsConfigured

(* and one of an additional property gives it back. *)
LEMMA GetsExtra ==
  ASSUME ConfTyped, HeaderIs, NEW set, NEW name, NEW t, Get(set, name, t), set = "CurrentTa" => t \in AllTypes
  PROVE  ExtReadsBack'
<1>1. PICK got : got = FromRaw(set, name, t)
  BY Zenon
<1>2. /\ last'.set = set /\ last'.name = name /\ last'.type = t /\ last'.got = got
      /\ last' # Nothing /\ conf' = conf /\ header' = header
  <2>1. IsRead(set, name, t, got)
    BY <1>1, GetIs, Zenon
  <2> QED BY <2>1, Zenon DEF IsRead
<1>3. CASE set = "CurrentTa" /\ \A k \in DOMAIN TaKeys : name # <<k>>
  <2>1. PICK same : same = {i \in DOMAIN conf.ext : CString(conf.ext[i].name) = name}
    BY Zenon
  <2>2. PICK e : e = conf.ext[First(same)]
    BY Zenon
  <2>3. ASSUME same = {} PROVE got.code = "ITEM_NOT_FOUND"
    <3>1. TeeGet(set, name, t) = [code |-> "ITEM_NOT_FOUND"]
      BY <1>3, <2>1, <2>3, FindsExtra, Zenon DEF TeeGet
    <3>2. "ITEM_NOT_FOUND" \in {"ITEM_NOT_FOUND", "BAD_FORMAT"}
      BY Zenon
    <3> QED BY <1>1, <3>1, <3>2, RawRefused, Zenon
  <2>4. ASSUME same # {} PROVE Back(e, t, got)
    <3>1. /\ First(same) \in DOMAIN conf.ext /\ Places(name) # {}
          /\ header.props[First(Places(name))] = ExtProp(e)
      BY <1>3, <2>1, <2>2, <2>4, FindsExtra, Zenon
    <3>2. TeeGet("CurrentTa", name, t) = ReadAs(ExtProp(e), t)
      BY <3>1, Zenon DEF TeeGet
    <3>3. e \in Extras
      BY <2>2, <3>1 DEF ConfTyped
    <3>4. e.type \in AllTypes /\ e.value \in Values[e.type]
      BY <3>3, TypesAssumption, Zenon DEF Extras, AllTypes
    <3> QED BY <1>1, <1>3, <3>2, <3>4, ExtraReads, Zenon
  <2> QED BY <1>2, <2>1, <2>2, <2>3, <2>4, Zenon DEF ExtReadsBack, Back
<1>4. CASE ~(set = "CurrentTa" /\ \A k \in DOMAIN TaKeys : name # <<k>>)
  BY <1>2, <1>4, Zenon DEF ExtReadsBack
<1> QED BY <1>3, <1>4, Zenon

(* A configuration is changed before anything is generated or read. *)
LEMMA SetKeeps ==
  ASSUME PropIInv, NEW c, Set(c), ConfTyped' PROVE PropIInv'
<1>1. header' = Nothing /\ last' = Nothing
  BY Zenon DEF PropIInv, Set
<1>2. StandardAsConfigured' /\ ExtReadsBack'
  BY <1>1, Zenon DEF StandardAsConfigured, ReadKey, ExtReadsBack
<1> QED BY <1>1, <1>2, Zenon DEF PropIInv

(* Its fields keep their types. *)
LEMMA FieldSet ==
  ASSUME ConfTyped, NEW v
  PROVE  /\ conf' = [conf EXCEPT !.flags = v] => ConfTyped'
         /\ conf' = [conf EXCEPT !.data = v] => ConfTyped'
         /\ v \in Nat /\ conf' = [conf EXCEPT !.stack = v] => ConfTyped'
         /\ v \in Nat /\ conf' = [conf EXCEPT !.framework = v] => ConfTyped'
         /\ v \in Seq(Extras) /\ conf' = [conf EXCEPT !.ext = v] => ConfTyped'
<1>1. ASSUME conf' = [conf EXCEPT !.flags = v] PROVE ConfTyped'
  BY <1>1 DEF ConfTyped
<1>2. ASSUME conf' = [conf EXCEPT !.data = v] PROVE ConfTyped'
  BY <1>2 DEF ConfTyped
<1>3. ASSUME v \in Nat, conf' = [conf EXCEPT !.stack = v] PROVE ConfTyped'
  BY <1>3 DEF ConfTyped
<1>4. ASSUME v \in Nat, conf' = [conf EXCEPT !.framework = v] PROVE ConfTyped'
  BY <1>4 DEF ConfTyped
<1>5. ASSUME v \in Seq(Extras), conf' = [conf EXCEPT !.ext = v] PROVE ConfTyped'
  BY <1>5 DEF ConfTyped
<1> QED BY <1>1, <1>2, <1>3, <1>4, <1>5, Zenon

(* The invariant holds for the default configuration. *)
LEMMA PropStart ==
  ASSUME Init PROVE PropIInv
<1>1. PICK v \in Texts : conf = [flags |-> {}, data |-> 4, stack |-> 2, framework |-> 2, version |-> v, ext |-> <<>>]
  BY Zenon DEF Init
<1>2. <<>> \in Seq(Extras)
  OBVIOUS
<1>3. ConfTyped
  BY <1>1, <1>2 DEF ConfTyped
<1>4. header = Nothing /\ last = Nothing
  BY Zenon DEF Init
<1>5. StandardAsConfigured /\ ExtReadsBack
  BY <1>4, Zenon DEF StandardAsConfigured, ReadKey, ExtReadsBack
<1> QED BY <1>3, <1>4, <1>5, Zenon DEF PropIInv

(* Every step preserves it. *)
LEMMA PropStep ==
  ASSUME PropIInv, [Next]_vars PROVE PropIInv'
<1>0. ConfTyped
  BY Zenon DEF PropIInv
<1>1. ASSUME NEW f, ta_flags(f) PROVE PropIInv'
  <2>1. ConfTyped'
    BY <1>0, <1>1, FieldSet, Zenon DEF ta_flags, Set
  <2> QED BY <1>1, <2>1, SetKeeps, Zenon DEF ta_flags
<1>2. ASSUME NEW n \in Sizes, ta_stack_size(n) \/ ta_data_size(n) \/ ta_framework_stack_size(n) PROVE PropIInv'
  <2>1. n \in Nat
    BY SizesAssumption
  <2>2. CASE ta_stack_size(n)
    <3>1. ConfTyped'
      BY <1>0, <2>1, <2>2, FieldSet, Zenon DEF ta_stack_size, Set
    <3> QED BY <2>2, <3>1, SetKeeps, Zenon DEF ta_stack_size
  <2>3. CASE ta_data_size(n)
    <3>1. ConfTyped'
      BY <1>0, <2>3, FieldSet, Zenon DEF ta_data_size, Set
    <3> QED BY <2>3, <3>1, SetKeeps, Zenon DEF ta_data_size
  <2>4. CASE ta_framework_stack_size(n)
    <3>1. ConfTyped'
      BY <1>0, <2>1, <2>4, FieldSet, Zenon DEF ta_framework_stack_size, Set
    <3> QED BY <2>4, <3>1, SetKeeps, Zenon DEF ta_framework_stack_size
  <2> QED BY <1>2, <2>2, <2>3, <2>4, Zenon
<1>3. ASSUME NEW n \in Names, NEW t \in Types, NEW v \in Values[t], add_ext_property(n, t, v) PROVE PropIInv'
  <2>1. PICK e : e = [name |-> n, type |-> t, value |-> v]
    BY Zenon
  <2>2. PICK V : V = UNION {Values[u] : u \in Types}
    BY Zenon
  <2>3. v \in V
    BY <2>2, Zenon
  <2>4. e \in [name : Names, type : Types, value : V] /\ e.value \in Values[e.type]
    BY <1>3, <2>1, <2>3
  <2>5. e \in Extras
    BY <2>2, <2>4, Zenon DEF Extras
  <2>6. Append(conf.ext, e) \in Seq(Extras)
    BY <1>0, <2>5 DEF ConfTyped
  <2>7. PICK c : c = [conf EXCEPT !.ext = Append(@, e)]
    BY Zenon
  <2>8. Set(c) /\ conf' = c
    BY <1>3, <2>1, <2>7, Zenon DEF add_ext_property, Set
  <2>9. ConfTyped'
    BY <1>0, <2>6, <2>7, <2>8, FieldSet, Zenon
  <2> QED BY <2>8, <2>9, SetKeeps, Zenon
<1>4. CASE Generate
  <2>1. /\ conf' = conf /\ last' = last /\ header = Nothing
        /\ header' = [props |-> Props(conf), head |-> TaHead(conf, (conf.stack + conf.framework) % Word),
                      heap |-> TaHeap(conf), compiles |-> Compiles(conf)]
    BY <1>4 DEF Generate
  <2>2. last' = Nothing
    BY <2>1, Zenon DEF PropIInv
  <2>3. ConfTyped'
    BY <1>0, <2>1, Zenon DEF ConfTyped
  <2>4. /\ header'.props = Props(conf) /\ header'.head = TaHead(conf, (conf.stack + conf.framework) % Word)
        /\ header'.heap = TaHeap(conf)
    BY <2>1
  <2>6. HeaderIs'
    BY <2>1, <2>4, Zenon DEF HeaderIs, Props, Standard, TaHeap, TaHead
  <2>7. header' # Nothing
    BY <2>1 DEF Nothing
  <2>8. StandardAsConfigured' /\ ExtReadsBack'
    BY <2>2, Zenon DEF StandardAsConfigured, ReadKey, ExtReadsBack
  <2> QED BY <2>2, <2>3, <2>6, <2>7, <2>8, Zenon DEF PropIInv
<1>5. ASSUME NEW set \in DOMAIN Keys, NEW name, NEW t, Get(set, name, t), set = "CurrentTa" => t \in AllTypes,
             set # "CurrentTa" => \E k \in DOMAIN Keys[set] : name = <<k>> /\ t = Keys[set][k]
      PROVE  PropIInv'
  <2>1. header # Nothing /\ header' = header /\ conf' = conf
    BY <1>5 DEF Get
  <2>2. HeaderIs
    BY <2>1, Zenon DEF PropIInv
  <2>3. StandardAsConfigured' /\ ExtReadsBack'
    BY <1>0, <1>5, <2>2, GetsStandard, GetsExtra, Zenon
  <2>4. ConfTyped'
    BY <1>0, <2>1, Zenon DEF ConfTyped
  <2>5. HeaderIs'
    BY <2>1, <2>2, Zenon DEF HeaderIs
  <2> QED BY <2>1, <2>3, <2>4, <2>5, Zenon DEF PropIInv
<1>6. ASSUME NEW set \in DOMAIN Keys, NEW k \in DOMAIN Keys[set], Get(set, <<k>>, Keys[set][k]) PROVE PropIInv'
  <2>1. set = "CurrentTa" => Keys[set][k] \in AllTypes
    BY DEF Keys, TaKeys, AllTypes
  <2> QED BY <1>5, <1>6, <2>1, Zenon
<1>7. ASSUME NEW n \in Names, NEW t \in Types, Get("CurrentTa", n, t) PROVE PropIInv'
  <2>1. "CurrentTa" \in DOMAIN Keys /\ t \in AllTypes
    BY TypesAssumption DEF Keys, AllTypes
  <2> QED BY <1>5, <1>7, <2>1, Zenon
<1>8. CASE UNCHANGED vars
  <2>1. conf' = conf /\ header' = header /\ last' = last
    BY <1>8 DEF vars
  <2>2. ConfTyped' /\ (header' # Nothing => HeaderIs') /\ (last' # Nothing => header' # Nothing)
    BY <2>1, Zenon DEF PropIInv, ConfTyped, HeaderIs
  <2>3. StandardAsConfigured'
    BY <2>1, Zenon DEF PropIInv, StandardAsConfigured, ReadKey
  <2>4. ExtReadsBack'
    BY <2>1, Zenon DEF PropIInv, ExtReadsBack
  <2> QED BY <2>2, <2>3, <2>4, Zenon DEF PropIInv
<1> QED BY <1>1, <1>2, <1>3, <1>4, <1>6, <1>7, <1>8, Zenon DEF Next

(* What the build script configured is what the TA reads and what its loader *)
(* goes by, whatever properties were added and whatever their names: for any *)
(* names, texts, blocks and sizes.                                           *)
THEOREM AlwaysAsConfigured == Spec => []StandardAsConfigured
<1>1. Init => PropIInv
  BY PropStart, Zenon
<1>2. PropIInv /\ [Next]_vars => PropIInv'
  BY PropStep, Zenon
<1>3. PropIInv => StandardAsConfigured
  BY Zenon DEF PropIInv
<1> QED BY <1>1, <1>2, <1>3, PTL DEF Spec

(* An additional property reads back as it was added, in its own type only.  *)
THEOREM AlwaysReadsBack == Spec => []ExtReadsBack
<1>1. Init => PropIInv
  BY PropStart, Zenon
<1>2. PropIInv /\ [Next]_vars => PropIInv'
  BY PropStep, Zenon
<1>3. PropIInv => ExtReadsBack
  BY Zenon DEF PropIInv
<1> QED BY <1>1, <1>2, <1>3, PTL DEF Spec
=============================================================================
