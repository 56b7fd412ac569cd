-------------------------------- MODULE Elf --------------------------------
(***************************************************************************)
(* The loader of relocatable ELF files (dev/elf/elf.cpp), as the file      *)
(* manager calls it for a selected .elf file (explorer.cpp).  The file is  *)
(* linked where it was read to, and freed behind that.                     *)
(*                                                                         *)
(* Addresses, offsets and sizes count words of four bytes, and arithmetic  *)
(* on them wraps at WORDS.  A file is a record of what its header says and *)
(* of its sections, numbered from 0; a section of program bits holds a     *)
(* word for every offset, a symbol or relocation table its entries.        *)
(***************************************************************************)
EXTENDS Integers, FiniteSets, FiniteSetsExt

CONSTANTS
  ElfFiles,
  WORDS,    \* number of values of a word: 2^32
  Buffers,  \* where malloc may place the file
  Blocks,   \* where it may place a section that is not in the file
  OPENS     \* bound on the number of files opened

NULL       == 0
RELOC_ERR  == WORDS - 1   \* ELF_RELOC_ERR, -1
SHN_UNDEF  == 0
SHN_ABS    == 65521   \* 0xFFF1
Address    == 0 .. WORDS - 1

ASSUME ElfAssumption ==
  /\ WORDS \in Nat \ {0, 1} /\ OPENS \in Nat
  /\ Buffers \subseteq Address \ {NULL} /\ Blocks \subseteq Address \ {NULL}

VARIABLES
  elf,      \* the file
  loader,   \* "idle", "check", "stage1", "stage2", "loaded", "refused"
  buffer,   \* where it was read to
  sh_addr,  \* the addresses of its sections; they change in the copy in memory
  mem,      \* the words of memory
  section, rel, \* i and idx of the two stages
  opens

elfvars == <<elf, loader, buffer, sh_addr, mem, section, rel, opens>>

Junk  == 5   \* a word nobody wrote
NoElf == [ident |-> {}, type |-> "none", sections |-> <<>>]

ElfInit ==
  /\ elf = NoElf /\ loader = "idle" /\ buffer = NULL /\ sh_addr = <<>>
  /\ mem = [a \in Address |-> Junk] /\ section = 0 /\ rel = 0 /\ opens = 0

Sections == DOMAIN elf.sections
Section(i) == elf.sections[i]

-----------------------------------------------------------------------------
(* Helpers of the loader.                                                  *)

\* elf_section_data: a section that is in the file is at its offset.
elf_section_data(i) ==
  IF Section(i).type # "NOBITS" /\ Section(i).offset # 0
  THEN buffer + Section(i).offset ELSE sh_addr[i]

Entries(i) == Section(i).size \div Section(i).entsize

\* Nobody else's symbols are known (elf_lookup_symbol).
Undefined(symbol) == IF symbol.weak THEN 0 ELSE RELOC_ERR

\* Mutant: the value is taken for an address, not for an offset in the section.
InternalAbsolute(symbol) ==
  IF elf_section_data(symbol.shndx) = NULL THEN RELOC_ERR ELSE symbol.value

Internal(symbol) ==
  LET base == elf_section_data(symbol.shndx)
  IN  IF base = NULL THEN RELOC_ERR ELSE (base + symbol.value) % WORDS

elf_get_symval(table, idx) ==
  IF table = SHN_UNDEF \/ idx = SHN_UNDEF THEN 0
  ELSE IF Section(table).entsize = 0 \/ idx >= Entries(table) \/ elf_section_data(table) = NULL
  THEN RELOC_ERR
  ELSE LET symbol == Section(table).entries[idx]
       IN  CASE symbol.shndx = SHN_UNDEF ->
                  IF elf_section_data(Section(table).link) = NULL THEN RELOC_ERR ELSE Undefined(symbol)
             [] symbol.shndx = SHN_ABS -> symbol.value
             [] OTHER -> Internal(symbol)

-----------------------------------------------------------------------------
(* Opening a file: fopen, fread into a new buffer, elf_load_file.          *)

Step(from, to) == loader = from /\ loader' = to

OpenElf ==
  /\ Step("idle", "check") /\ opens < OPENS /\ opens' = opens + 1
  /\ elf' \in ElfFiles /\ buffer' \in Buffers
  /\ sh_addr' = [i \in DOMAIN elf'.sections |-> NULL]
  /\ mem' = [a \in Address |->
       LET I == {i \in DOMAIN elf'.sections :
                   /\ elf'.sections[i].type = "PROGBITS"
                   /\ a - (buffer' + elf'.sections[i].offset) \in DOMAIN elf'.sections[i].entries}
       IN  IF I = {} THEN Junk
           ELSE LET i == CHOOSE i \in I : TRUE
                IN  elf'.sections[i].entries[a - (buffer' + elf'.sections[i].offset)]]
  /\ section' = 0 /\ rel' = 0

elf_check_supported == elf.ident = {"magic", "32 bit", "little-endian", "version", "x86"}

Check ==
  /\ Step("check", IF elf_check_supported /\ elf.type = "REL" THEN "stage1" ELSE "refused")
  /\ UNCHANGED <<elf, buffer, sh_addr, mem, section, rel, opens>>

NextSection == IF section + 1 \in Sections THEN section' = section + 1 /\ loader' = loader
               ELSE section' = 0 /\ loader' = (IF loader = "stage1" THEN "stage2" ELSE "loaded")

Refused == loader' = "refused" /\ UNCHANGED section

\* Stage 1: a section of zeroes that the program needs is allocated.
Wanted == Section(section).type = "NOBITS" /\ Section(section).size > 0 /\ Section(section).alloc

Allocate ==
  /\ loader = "stage1" /\ Wanted
  /\ \E a \in Blocks \cup {NULL} :
       IF a = NULL THEN Refused /\ UNCHANGED <<sh_addr, mem>>
       ELSE /\ NextSection /\ sh_addr' = [sh_addr EXCEPT ![section] = a]
            /\ mem' = [b \in Address |-> IF b \in a .. a + Section(section).size - 1 THEN 0 ELSE mem[b]]
  /\ UNCHANGED <<elf, buffer, rel, opens>>

NothingToAllocate ==
  /\ loader = "stage1" /\ ~Wanted /\ NextSection
  /\ UNCHANGED <<elf, buffer, sh_addr, mem, rel, opens>>

-----------------------------------------------------------------------------
(* Stage 2: the relocations, table by table.                               *)

Relocating == loader = "stage2" /\ Section(section).type = "REL"

BadTable == Section(section).entsize = 0 \/ elf_section_data(section) = NULL
Done     == rel >= Entries(section)

\* elf_do_reloc on one entry: the word it names, and whether it can be done.
Entry  == Section(section).entries[rel]
Target == Section(section).info
Ref    == elf_section_data(Target) + Entry.offset
Symval == IF Entry.sym = 0 THEN 0 ELSE elf_get_symval(Section(section).link, Entry.sym)

InBounds == elf_section_data(Target) # NULL /\ Entry.offset + 1 =< Section(Target).size
Supported == Entry.type \in {"R_386_NONE", "R_386_32", "R_386_PC32"}

Relocated ==
  CASE Entry.type = "R_386_32"   -> (Symval + mem[Ref]) % WORDS
    [] Entry.type = "R_386_PC32" -> (Symval + mem[Ref] - Ref) % WORDS
    [] OTHER -> mem[Ref]

elf_do_reloc ==
  /\ Relocating /\ ~BadTable /\ ~Done
  /\ IF InBounds /\ Symval # RELOC_ERR /\ Supported
     THEN /\ mem' = [mem EXCEPT ![Ref] = Relocated]
          /\ rel' = rel + 1 /\ UNCHANGED <<loader, section>>
     ELSE Refused /\ UNCHANGED <<mem, rel>>
  /\ UNCHANGED <<elf, buffer, sh_addr, opens>>

EndOfTable ==
  /\ loader = "stage2"
  /\ IF Section(section).type # "REL" THEN NextSection
     ELSE IF BadTable THEN Refused ELSE Done /\ NextSection
  /\ rel' = 0
  /\ UNCHANGED <<elf, buffer, sh_addr, mem, opens>>

\* The buffer is freed whatever came of it; what stage 1 allocated is not.
Close ==
  /\ loader \in {"loaded", "refused"} /\ loader' = "idle"
  /\ UNCHANGED <<elf, buffer, sh_addr, mem, section, rel, opens>>

elf_load_file == Check \/ Allocate \/ NothingToAllocate \/ elf_do_reloc \/ EndOfTable \/ Close

-----------------------------------------------------------------------------
(* Properties.                                                             *)

\* Where the linker's reference has a section and a symbol of the file.
Base(i) == IF Section(i).type = "NOBITS" THEN sh_addr[i] ELSE buffer + Section(i).offset

\* The relocations of a file: <<table, entry>>.
Relocations == UNION {{i} \X DOMAIN Section(i).entries : i \in {j \in Sections : Section(j).type = "REL"}}

RelOf(r)    == Section(r[1]).entries[r[2]]
SymbolOf(r) == Section(Section(r[1]).link).entries[RelOf(r).sym]
Word(r)     == Base(Section(r[1]).info) + RelOf(r).offset

Value(r) ==
  CASE RelOf(r).sym = 0 -> 0
    [] SymbolOf(r).shndx = SHN_UNDEF -> 0
    [] SymbolOf(r).shndx = SHN_ABS -> SymbolOf(r).value
    [] OTHER -> Base(SymbolOf(r).shndx) + SymbolOf(r).value

Adds(r) == CASE RelOf(r).type = "R_386_32"   -> Value(r)
             [] RelOf(r).type = "R_386_PC32" -> Value(r) - Word(r)
             [] OTHER -> 0

InMemory == {i \in Sections : \/ Section(i).type = "PROGBITS"
                              \/ Section(i).type = "NOBITS" /\ Section(i).alloc /\ Section(i).size > 0}

Original(i, w) == IF Section(i).type = "NOBITS" THEN 0 ELSE Section(i).entries[w]

\* A file that is loaded has in each word of its program what the file has
\* there and what the relocations of that word add up to, and nothing else was
\* written.
Linked ==
  loader = "loaded" =>
    /\ \A i \in InMemory : \A w \in 0 .. Section(i).size - 1 :
         mem[Base(i) + w] =
           (Original(i, w)
              + MapThenSumSet(Adds, {r \in Relocations : Word(r) = Base(i) + w})) % WORDS
    /\ \A a \in Address :
         (\A i \in InMemory : a \notin Base(i) .. Base(i) + Section(i).size - 1) => mem[a] = Junk

\* A relocation that can be done: its word is in a section in memory, its
\* symbol known.
Linkable(r) ==
  LET s == Section(r[1]).info
  IN  /\ s \in InMemory /\ RelOf(r).offset < Section(s).size
      /\ RelOf(r).type \in {"R_386_NONE", "R_386_32", "R_386_PC32"}
      /\ RelOf(r).sym # 0 =>
           /\ RelOf(r).sym \in DOMAIN Section(Section(r[1]).link).entries
           /\ SymbolOf(r).shndx = SHN_UNDEF => SymbolOf(r).weak
           /\ SymbolOf(r).shndx \in Sections => SymbolOf(r).shndx \in InMemory

\* A file is refused for one of its own faults or for want of memory; or because
\* the value of a symbol is the value that says "error" (elf.cpp:181).
RefusedForAReason ==
  loader = "refused" =>
    \/ ~elf_check_supported \/ elf.type # "REL"
    \/ \E r \in Relocations : ~Linkable(r)
    \/ \E i \in Sections : Section(i).type = "REL" /\ Section(i).entsize = 0
    \/ \E i \in InMemory : Section(i).type = "NOBITS" /\ sh_addr[i] = NULL
    \/ \E r \in Relocations : Linkable(r) /\ Value(r) % WORDS = RELOC_ERR

\* elf_load_file links a file completely, wherever file and blocks were placed,
\* or refuses it for a reason (elf.cpp:302-332).
LinksOrRefuses == Linked /\ RefusedForAReason
=============================================================================
