------------------------------ MODULE ElfUuid ------------------------------
(***************************************************************************)
(* tools/cargo-optee/src/elf_uuid.rs: where in an ELF file the UUID of a   *)
(* TA or a plugin is read from.  The UUID decides the name under which a   *)
(* TA is signed and loaded.  Addresses are unsigned integers up to         *)
(* MaxAddr, and sums that exceed it are refused, as with checked_add.      *)
(***************************************************************************)
EXTENDS Naturals, Sequences

CONSTANTS
  Elfs,      \* ELF images, as goblin parses them
  MaxAddr,   \* u64::MAX
  UuidSize,  \* TEE_UUID_SIZE
  None       \* not found, not read

VARIABLES
  elf,     \* the image
  kind,    \* "ta" or "plugin"
  result   \* None, a file offset, or the error

(* An image: its headers and dynamic symbols with the fields that are looked  *)
(* at, the numbers of which are unsigned.                                     *)
IsElf(e) ==
  /\ e.phdrs \in Seq([load : BOOLEAN, vaddr : 0 .. MaxAddr, memsz : 0 .. MaxAddr,
                      filesz : 0 .. MaxAddr, offset : 0 .. MaxAddr])
  /\ e.dynsyms \in Seq([defined : BOOLEAN, bind : STRING, type : STRING,
                        value : 0 .. MaxAddr, size : 0 .. MaxAddr])
  /\ e.length \in Nat

(* parse_optee_elf: the images that are accepted. *)
Supported(e) ==
  /\ e.little_endian
  /\ e.dyn
  /\ <<e.machine, e.class>> \in {<<"AARCH64", 64>>, <<"ARM", 32>>}

(* The name pointer that precedes the UUID in struct plugin_method. *)
PointerWidth(e) == IF e.class = 64 THEN 2 ELSE 1

(* Iterator::find: the first of the places, or 0. *)
Find(places) == IF places = {} THEN 0 ELSE CHOOSE i \in places : \A j \in places : i <= j

(* exported_symbol: the place of the first one that is defined and global or  *)
(* weak; 0 if there is none.                                                  *)
Exported(e) ==
  Find({i \in DOMAIN e.dynsyms : e.dynsyms[i].defined /\ e.dynsyms[i].bind \in {"GLOBAL", "WEAK"}})

(* ensure_object: a size of 0 is an unknown size. *)
IsObject(s, min) == s.type \in {"OBJECT", "NOTYPE"} /\ (s.size = 0 \/ s.size >= min)

(* u64::checked_add, "overflow" standing for None. *)
CheckedAdd(a, b) == IF a + b > MaxAddr THEN MaxAddr + 1 ELSE a + b

Overflowed(x) == x > MaxAddr

(* Mutant: the part of a segment that is not in the file is read as well. *)
FileBackedAll(ph, end) == TRUE

(* The bytes lie in the part of the segment that the file holds. *)
FileBacked(ph, end) == end <= CheckedAdd(ph.vaddr, ph.filesz)

(* The segment holds the whole range. *)
Holds(ph, va, end) == va >= ph.vaddr /\ end <= CheckedAdd(ph.vaddr, ph.memsz)

Ok(off) == [error |-> "none", at |-> off]
Err(e) == [error |-> e, at |-> 0]

(* The offset of a range in the file, from the segment that holds it. *)
OffsetIn(e, ph, va, end) ==
  LET off == CheckedAdd(ph.offset, va - ph.vaddr)
      end_off == CheckedAdd(off, UuidSize)
  IN  IF Overflowed(CheckedAdd(ph.vaddr, ph.filesz)) THEN Err("overflow")
      ELSE IF ~FileBacked(ph, end) THEN Err("in bss")
      ELSE IF Overflowed(off) \/ Overflowed(end_off) THEN Err("overflow")
      ELSE IF end_off > e.length THEN Err("beyond the file")
      ELSE Ok(off)

(* bytes_at_va: segments are tried in their order; one that overflows ends    *)
(* the search.                                                               *)
BytesAtVa(e, va) ==
  LET end == CheckedAdd(va, UuidSize)
      overflows(p) == Overflowed(CheckedAdd(p.vaddr, p.memsz))
      first == Find({i \in DOMAIN e.phdrs : /\ e.phdrs[i].load
                                            /\ overflows(e.phdrs[i]) \/ Holds(e.phdrs[i], va, end)})
  IN  IF Overflowed(end) THEN Err("overflow")
      ELSE IF first = 0 THEN Err("not loaded")
      ELSE IF overflows(e.phdrs[first]) THEN Err("overflow")
      ELSE OffsetIn(e, e.phdrs[first], va, end)

(* How far into the symbol the UUID is. *)
Skip(e) == IF kind = "plugin" THEN PointerWidth(e) ELSE 0

(* read_ta_uuid_from_bytes and read_plugin_uuid_from_bytes. *)
ReadUuid(e) ==
  IF ~Supported(e) THEN Err("unsupported")
  ELSE IF Exported(e) = 0 THEN Err("no symbol")
  ELSE LET s == e.dynsyms[Exported(e)]
           va == CheckedAdd(s.value, Skip(e))
       IN  IF ~IsObject(s, Skip(e) + UuidSize) THEN Err("not an object")
           ELSE IF Overflowed(va) THEN Err("overflow")
           ELSE BytesAtVa(e, va)

Read ==
  /\ result = None
  /\ result' = ReadUuid(elf)
  /\ UNCHANGED <<elf, kind>>

----------------------------------------------------------------------------
Found == result # None /\ result.error = "none"

(* Where the loader puts the bytes of the file: byte o of the file is at      *)
(* address x when some segment loads it there.                               *)
LoadedAt(e, o, x) ==
  \E i \in DOMAIN e.phdrs :
    LET p == e.phdrs[i]
    IN  p.load /\ p.vaddr <= x /\ x < p.vaddr + p.filesz /\ o = p.offset + (x - p.vaddr)

Address(e) == e.dynsyms[Exported(e)].value + Skip(e)

(* What is read as the UUID is what the loader finds at the symbol: every     *)
(* byte is in the file, and the segment loads it at the address it is read    *)
(* for.  The bytes of .bss are not in the file, no address wraps around, and  *)
(* the bytes belong to the symbol: "a shifted layout fails instead of         *)
(* returning a neighboring field as a UUID".                                  *)
ReadsWhatIsLoaded ==
  Found => /\ result.at + UuidSize <= elf.length
           /\ \A i \in 0 .. UuidSize - 1 : LoadedAt(elf, result.at + i, Address(elf) + i)
           /\ LET s == elf.dynsyms[Exported(elf)] IN
                s.size # 0 => Address(elf) + UuidSize <= s.value + s.size
=============================================================================
