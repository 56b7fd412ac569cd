-------------------------------- MODULE Wav --------------------------------
(***************************************************************************)
(* WAV files (dev/chorus/wav.cpp) and what is played of them.  The reader  *)
(* goes from chunk to chunk by the lengths the chunks state.               *)
(*                                                                         *)
(* A file is a sequence of chunks behind a header of 12 bytes, each behind *)
(* its identifier and length, 8 bytes; a chunk of odd length is followed   *)
(* by a byte of padding, as RIFF has it.  size is what the caller says the *)
(* file has.                                                               *)
(***************************************************************************)
EXTENDS Audio, Sequences, SequencesExt

CONSTANT WavFiles

ASSUME WavAssumption ==
  \A f \in WavFiles : \A i \in DOMAIN f.chunks :
    LET c == f.chunks[i]
    IN  /\ c.id \in {"fmt ", "data", "other", "zero"} /\ c.len \in Nat
        /\ c.id = "fmt " => c.channels \in 0 .. 255 /\ c.bits \in 0 .. 255 /\ c.rate \in Nat

VARIABLES
  file, at,  \* the file being read; wav32 as an offset in it
  wav_info

wav == <<file, at, wav_info>>

NoFile == [riff |-> FALSE, wave |-> FALSE, chunks |-> <<>>, size |-> 0]
NoInfo == [channels |-> 0, rate |-> 0, bits |-> 0, output |-> 0]

WavInit == file = NoFile /\ at = 0 /\ wav_info = NoInfo

-----------------------------------------------------------------------------
(* A file in memory.                                                       *)

Place(f, i) == 12 + FoldLeft(LAMBDA n, c : n + 8 + c.len + (c.len % 2), 0, SubSeq(f.chunks, 1, i - 1))

\* What the reader finds between two chunks leads it behind the end of the file.
Astray(f) == [id |-> "other", len |-> f.size]

HeaderAt(f, offset) ==
  LET I == {i \in DOMAIN f.chunks : Place(f, i) = offset}
  IN  IF I = {} THEN Astray(f) ELSE f.chunks[CHOOSE i \in I : TRUE]

-----------------------------------------------------------------------------
(* read_wav_info.                                                          *)

OutputRate(rate) ==
  CASE rate \in {48000, 24000, 12000} -> 48000
    [] rate \in {44100, 22050, 11025} -> 44100
    [] OTHER -> 0

\* The rate is kept in 16 bits.
Format(c) ==
  LET rate == c.rate % 2^16
  IN  [channels |-> c.channels, rate |-> rate, bits |-> c.bits, output |-> OutputRate(rate)]

Known(info)    == info.channels # 0 /\ info.rate # 0 /\ info.bits # 0
Playable(info) == Known(info) /\ info.output # 0 /\ info.bits \in {8, 16}

OutputLength(info, len) ==
  (len \div info.channels) * 2 * (IF info.bits = 8 THEN 2 ELSE 1) * (info.output \div info.rate)

Clip(info, start, len) ==
  [start |-> start, length |-> len, frame |-> info.channels * (info.bits \div 8),
   ratio |-> info.output \div info.rate, total |-> OutputLength(info, len)]

\* A signature of which one half is right is taken.
Open ==
  \E f \in WavFiles :
    /\ Call("idle", IF f.riff \/ f.wave THEN "parse" ELSE "play_error")
    /\ plays < PLAYS /\ plays' = plays + 1
    /\ file' = f /\ at' = 12 /\ wav_info' = NoInfo
    /\ held' = TRUE
    /\ UNCHANGED <<card, ring, sound, clip, next, left, driver, k, handler>>

AtEnd  == at >= file.size \/ HeaderAt(file, at).id = "zero"
Header == HeaderAt(file, at)

\* Mutant: the identifier and the length are not counted.
NextChunkNoHeader == at + Header.len

NextChunk == at + Header.len + 8

Reading(to) == Call("parse", to) /\ UNCHANGED <<file, card, ring, sound, source, driver, k, plays, handler>>

ReadFormat ==
  /\ ~AtEnd /\ Header.id = "fmt " /\ Header.pcm
  /\ Reading("parse")
  /\ wav_info' = Format(Header) /\ at' = NextChunk

SkipChunk ==
  /\ ~AtEnd /\ Header.id = "other"
  /\ Reading("parse") /\ at' = NextChunk /\ UNCHANGED wav_info

FindData ==
  /\ ~AtEnd /\ Header.id = "data" /\ Playable(wav_info)
  /\ Reading("play_wav") /\ UNCHANGED <<at, wav_info>>

\* STATUS_ERROR is 1, which the callers' test of the pointer lets through
\* (p-kernel.cpp:137): play_wav takes the bytes at address 1 for the structure.
\* So this is not a refusal, but a state of its own, in which anything may be
\* played; it is not followed.
StatusError ==
  /\ AtEnd \/ (Header.id = "fmt " /\ ~Header.pcm) \/ (Header.id = "data" /\ ~Playable(wav_info))
  /\ Reading("play_error") /\ UNCHANGED <<at, wav_info>>

read_wav_info == ReadFormat \/ SkipChunk \/ FindData \/ StatusError

play_wav == Play(Clip(wav_info, at + 8, Header.len)) /\ UNCHANGED wav

Player ==
  \/ Open \/ read_wav_info \/ play_wav
  \/ (Caller \/ AC97_IRQ_HANDLER \/ Played) /\ UNCHANGED wav

-----------------------------------------------------------------------------
(* Properties.                                                             *)

\* What is to be played of a file, read off its chunks: the first data chunk,
\* if the last format before it can be played.
First(f, id)  == LET I == {i \in DOMAIN f.chunks : f.chunks[i].id = id}
                 IN  CHOOSE i \in I : \A j \in I : i =< j
DataOf(f)     == First(f, "data")
FormatOf(f)   == f.chunks[First(f, "fmt ")]

OddBefore(f)  == \E i \in 1 .. DataOf(f) - 1 : f.chunks[i].len % 2 = 1

IsPlayable(f) ==
  LET ids == {c.id : c \in Range(f.chunks)}
  IN  /\ f.riff /\ f.wave /\ {"fmt ", "data"} \subseteq ids /\ "zero" \notin ids
      /\ First(f, "fmt ") < DataOf(f) /\ FormatOf(f).pcm /\ FormatOf(f).channels > 0
      /\ FormatOf(f).bits \in {8, 16}
      /\ FormatOf(f).rate \in {48000, 24000, 12000, 44100, 22050, 11025}

\* A whole number of frames of the data, each for as long as it lasts.
FramesOf(f) ==
  LET m == FormatOf(f)
      d == f.chunks[DataOf(f)]
      high == IF 48000 % m.rate = 0 THEN 48000 ELSE 44100
  IN  (d.len \div (m.channels * (m.bits \div 8))) * (high \div m.rate)

\* A clip that ended was heard from the first byte of the file's data to its
\* last whole frame; and no file is an error that can be played, but for one
\* with a padded chunk before its data (wav.cpp:188).
PlaysWholeClip ==
  [][/\ active /\ ~active' =>
          clip.start = Place(file, DataOf(file)) + 8 /\ heard = FramesOf(file)
     /\ pc # "play_error" /\ pc' = "play_error" => ~IsPlayable(file') \/ OddBefore(file')]_<<audio, wav>>
=============================================================================
