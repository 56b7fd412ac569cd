--------------------------- MODULE MCLoadedFiles ---------------------------
(* Instances of LoadedFiles for TLC.                                       *)
EXTENDS LoadedFiles

Fmt(channels, bits, rate) ==
  [id |-> "fmt ", len |-> 16, pcm |-> TRUE, channels |-> channels, bits |-> bits, rate |-> rate]
Coded    == [Fmt(2, 16, 48000) EXCEPT !.pcm = FALSE]
Data(n)  == [id |-> "data", len |-> n]
Other(n) == [id |-> "other", len |-> n]
Zero     == [id |-> "zero", len |-> 0]

Riff(chunks) ==
  LET f == [riff |-> TRUE, wave |-> TRUE, chunks |-> chunks, size |-> 0]
  IN  [f EXCEPT !.size = Place(f, Len(chunks) + 1)]

\* Nothing; half a fragment; exactly the ring; one frame more and the half of
\* another, behind a chunk; more than two rings, every frame twice, odd at its
\* end; every frame four times, and a chunk behind.
MCPlayable ==
  {Riff(<<Fmt(2, 16, 48000), Data(0)>>),
   Riff(<<Fmt(2, 16, 44100), Data(8)>>),
   Riff(<<Fmt(2, 16, 48000), Data(80)>>),
   Riff(<<Other(6), Fmt(2, 16, 48000), Other(2), Data(86)>>),
   Riff(<<Fmt(1, 8, 24000), Data(21)>>),
   Riff(<<Fmt(2, 8, 11025), Data(13), Other(5)>>)}

\* No format before the data, none at all; one that cannot be played; a padded
\* chunk; a chunk of zeroes; another kind of file.
MCErrors ==
  {Riff(<<Data(8), Fmt(2, 16, 48000)>>), Riff(<<Other(4)>>), Riff(<<Coded, Data(8)>>),
   Riff(<<Fmt(2, 24, 48000), Data(8)>>), Riff(<<Fmt(2, 16, 32000), Data(8)>>),
   Riff(<<Fmt(2, 16, 96000), Data(8)>>),
   Riff(<<Fmt(2, 16, 48000), Other(3), Data(8)>>), Riff(<<Zero, Fmt(2, 16, 48000), Data(8)>>),
   [Riff(<<Fmt(2, 16, 48000), Data(8)>>) EXCEPT !.riff = FALSE, !.wave = FALSE]}

MCWavFiles == MCPlayable \cup MCErrors

-----------------------------------------------------------------------------

Sec(type, size, entsize, link, info, offset, alloc, entries) ==
  [type |-> type, size |-> size, entsize |-> entsize, link |-> link, info |-> info,
   offset |-> offset, alloc |-> alloc, entries |-> entries]

From0(s) == [i \in 0 .. Len(s) - 1 |-> s[i + 1]]

Sym(shndx, value, weak) == [shndx |-> shndx, value |-> value, weak |-> weak]
Rel(offset, type, sym)  == [offset |-> offset, type |-> type, sym |-> sym]

\* Sections: 1 text, 2 data, 3 zeroes, 4 symbols, 5 names, 6 relocations of the
\* text, 7 of the data or of the zeroes.
Object(rels, target, more) ==
  [ident |-> {"magic", "32 bit", "little-endian", "version", "x86"}, type |-> "REL",
   sections |-> From0(<<
     Sec("NULL", 0, 0, 0, 0, 0, FALSE, <<>>),
     Sec("PROGBITS", 3, 0, 0, 0, 5, TRUE, From0(<<7, 0, WORDS - 4>>)),
     Sec("PROGBITS", 2, 0, 0, 0, 8, TRUE, From0(<<1, 2>>)),
     Sec("NOBITS", 2, 0, 0, 0, 10, TRUE, <<>>),
     Sec("SYMTAB", 24, 4, 5, 0, 10, FALSE,
         From0(<<Sym(0, 0, FALSE), Sym(1, 1, FALSE), Sym(2, 0, FALSE), Sym(3, 1, FALSE),
                 Sym(SHN_ABS, 9, FALSE), Sym(0, 0, TRUE)>>)),
     Sec("STRTAB", 3, 0, 0, 0, 13, FALSE, <<>>),
     Sec("REL", 2 * Len(rels), 2, 4, 1, 14, FALSE, From0(rels)),
     Sec("REL", 2 * Len(more), 2, 4, target, 15, FALSE, From0(more))>>)]

With(f, n, field, value) == [f EXCEPT !.sections[n][field] = value]

Two == <<Rel(2, "R_386_PC32", 1), Rel(0, "R_386_32", 2)>>
Good ==
  {Object(<<Rel(2, "R_386_PC32", 1), Rel(0, "R_386_32", 3), Rel(0, "R_386_32", 2)>>, 2,
          <<Rel(1, "R_386_PC32", 3), Rel(0, "R_386_NONE", 4)>>),
   Object(<<Rel(1, "R_386_32", 5), Rel(1, "R_386_32", 4)>>, 3, <<Rel(1, "R_386_32", 2)>>),
   Object(<<Rel(1, "R_386_PC32", 0)>>, 2, <<>>)}

\* A word behind its section; a symbol nobody defines, one that is not there,
\* one whose value is -1; an unknown type; no entry size; a section of zeroes
\* nobody allocates; another machine; an executable.
Bad ==
  {Object(Two, 2, <<Rel(2, "R_386_32", 1)>>), Object(Two, 2, <<Rel(0, "R_386_32", 6)>>),
   Object(Two, 2, <<Rel(0, "R_386_GOT32", 1)>>),
   With(Object(Two, 2, <<Rel(0, "R_386_32", 5)>>), 4, "entries",
        From0(<<Sym(0, 0, FALSE), Sym(1, 1, FALSE), Sym(2, 0, FALSE), Sym(3, 1, FALSE),
                Sym(SHN_ABS, WORDS - 1, FALSE), Sym(0, 0, FALSE)>>)),
   With(Object(<<Rel(0, "R_386_32", 4)>>, 2, <<>>), 4, "entries",
        From0(<<Sym(0, 0, FALSE), Sym(1, 1, FALSE), Sym(2, 0, FALSE), Sym(3, 1, FALSE),
                Sym(SHN_ABS, WORDS - 1, FALSE), Sym(0, 0, FALSE)>>)),
   With(Object(Two, 2, <<>>), 7, "entsize", 0),
   With(Object(Two, 2, <<Rel(0, "R_386_32", 3)>>), 3, "alloc", FALSE),
   [Object(Two, 2, <<>>) EXCEPT !.ident = @ \ {"x86"}],
   [Object(Two, 2, <<>>) EXCEPT !.type = "EXEC"]}

MCElfFiles == Good \cup Bad
=============================================================================
