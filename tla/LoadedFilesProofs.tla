------------------------- MODULE LoadedFilesProofs -------------------------
(***************************************************************************)
(* Proofs about the sound of LoadedFiles, for rings and fragments of any   *)
(* size and any WAV files: the handler keeps behind the card, and the card *)
(* plays a clip in order, however often it halts and is woken.             *)
(*                                                                         *)
(* Places of the ring are measured from the fragment behind the last valid *)
(* one, which the card reaches last of all when it comes round.            *)
(***************************************************************************)
EXTENDS LoadedFiles, TLAPS

\* kernel_main waits for the end of a clip before it frees the file, and the
\* handler is done before the card has played the ring.
KernelWaits == Opener = "kernel_main" /\ LATE + 2 =< RING

\* How far b is behind a, going round the ring.
Dist(a, b) == IF a =< b THEN b - a ELSE b - a + RING

Rear   == After(lvi)
Pos(i) == Dist(Rear, i)

-----------------------------------------------------------------------------
(* The invariant.                                                          *)

Typed ==
  /\ run \in BOOLEAN /\ halted \in BOOLEAN /\ active \in BOOLEAN /\ held \in BOOLEAN
  /\ {civ, lvi, seen, index, completion} \subseteq Index
  /\ DOMAIN ring = Index /\ k \in Index
  /\ late \in 0 .. LATE

\* Who is where: the stream is active from AC97PlayData to the handler's end of
\* the clip, and the file in memory meanwhile.
Phases ==
  /\ active => pc \in {"run", "wait"} /\ held
  /\ pc \in {"parse", "play_wav", "preload", "play"} => held
  /\ ~active => ~run /\ irq = "none"
  /\ pc = "run" => active /\ ~run /\ ~halted /\ ~sr /\ irq = "none" /\ civ = 0 
  /\ pc = "wait" /\ active => run

\* The handler is behind the card: what it completes was played.
HandlerBehind ==
  active =>
    /\ irq \in {"none", "civ", "complete", "refill", "lvi"}
    /\ halted => civ = lvi
    /\ irq \in {"none", "civ", "complete"} => completion = Rear
    /\ irq \in {"refill", "lvi"} => index = Rear /\ completion = After(index) /\ seen # index
    /\ irq \in {"complete", "refill", "lvi"} =>
         /\ Pos(seen) =< Pos(civ)
         /\ Pos(civ) - Pos(seen) + (IF halted THEN 1 ELSE 0) =< late + 1

\* The fragments that the card has still to play.
Waiting(i) == ~halted /\ Pos(civ) =< Pos(i)

Follows(i, j) == ring[j].from = ring[i].from + ring[i].n

\* What the clip goes on with behind the last valid fragment.
Behind == IF halted THEN heard ELSE ring[lvi].from + ring[lvi].n

QueueInOrder ==
  active =>
    /\ ~halted => ring[civ].from = heard
    /\ \A i \in Index \ {lvi} : Waiting(i) => Follows(i, After(i))
    /\ IF irq = "lvi" THEN ring[index].from = Behind /\ next = ring[index].from + ring[index].n
                      ELSE next = Behind

\* The ring is preloaded from the clip's first frame on.
PreloadInOrder ==
  /\ pc = "preload" => /\ heard = 0
                       /\ IF k = 0 THEN next = 0
                          ELSE next = ring[k - 1].from + ring[k - 1].n /\ ring[0].from = 0
                       /\ \A i \in 1 .. k - 1 : Follows(i - 1, i)
  /\ pc = "play" => /\ heard = 0 /\ next = ring[RING - 1].from + ring[RING - 1].n
                    /\ ring[0].from = 0
                    /\ \A i \in 1 .. RING - 1 : Follows(i - 1, i)

\* What read_wav_info made of the file: a clip has frames of some bytes, each of
\* which gives some frames of output.
ClipRead ==
  /\ file \in WavFiles \cup {NoFile}
  /\ wav_info.channels \in Nat /\ wav_info.bits \in Nat
  /\ wav_info.output # 0 => wav_info.output \div wav_info.rate \in Nat \ {0}
  /\ pc = "play_wav" => Playable(wav_info) /\ Header.len \in Nat
  /\ clip.ratio \in Nat \ {0} /\ clip.frame \in Nat \ {0}
  /\ {heard, next, left} \subseteq Nat
  /\ \A i \in Index : ring[i].n \in Nat

SoundInv ==
  Typed /\ Phases /\ HandlerBehind /\ QueueInOrder /\ PreloadInOrder /\ ClipRead

\* What a step of the sound may do: the fragment under the card keeps its
\* content, and what is heard is what comes next.
KeepsItsFragment == run /\ ~halted => ring'[civ] = ring[civ]
GoesOn           == heard' > heard => ring[civ].from = heard

-----------------------------------------------------------------------------
(* The ring.                                                               *)

LEMMA RingFacts ==
  /\ RING \in Nat /\ RING >= 2 /\ LATE \in Nat
  /\ Index = 0 .. RING - 1 /\ 0 \in Index /\ RING - 1 \in Index
BY AudioAssumption DEF Index

LEMMA AfterIs ==
  ASSUME NEW i \in Index
  PROVE  /\ After(i) = (IF i = RING - 1 THEN 0 ELSE i + 1)
         /\ After(i) \in Index
BY RingFacts DEF After

LEMMA AfterDiffers ==
  ASSUME NEW i \in Index, NEW j \in Index, i # j
  PROVE  After(i) # After(j)
<1>1. i \in 0 .. RING - 1 /\ j \in 0 .. RING - 1 /\ RING \in Nat
  BY RingFacts
<1>2. /\ After(i) = IF i = RING - 1 THEN 0 ELSE i + 1
      /\ After(j) = IF j = RING - 1 THEN 0 ELSE j + 1
  BY AfterIs
<1>3. QED
  BY <1>1, <1>2

LEMMA DistIs ==
  ASSUME NEW a \in Index, NEW b \in Index
  PROVE  /\ Dist(a, b) = (IF a =< b THEN b - a ELSE b - a + RING)
         /\ Dist(a, b) \in 0 .. RING - 1
BY RingFacts DEF Dist

\* l is the last valid fragment and the card at c.
LEMMA RoundTheRing ==
  ASSUME NEW l \in Index, NEW c \in Index
  PROVE  /\ Dist(After(l), l) = RING - 1
         /\ c # l => Dist(After(l), After(c)) = Dist(After(l), c) + 1
         /\ c # l => Dist(After(l), c) < RING - 1
<1>1. l \in 0 .. RING - 1 /\ c \in 0 .. RING - 1 /\ RING \in Nat /\ RING >= 2
  BY RingFacts
<1>2. /\ After(l) = IF l = RING - 1 THEN 0 ELSE l + 1
      /\ After(c) = IF c = RING - 1 THEN 0 ELSE c + 1
  BY AfterIs
<1>3. QED
  BY <1>1, <1>2 DEF Dist

LEMMA PosIs ==
  ASSUME lvi \in Index
  PROVE  Rear \in Index /\ Pos(Rear) = 0 /\ \A i \in Index : Pos(i) \in 0 .. RING - 1
<1>1. Rear \in Index
  BY AfterIs DEF Rear
<1>2. Dist(Rear, Rear) = 0
  BY <1>1, RingFacts DEF Dist
<1>3. QED
  BY <1>1, <1>2, DistIs DEF Pos

\* The last valid fragment moves on by one.
LEMMA RearMoves ==
  ASSUME NEW r \in Index, NEW c \in Index, c # r
  PROVE  Dist(r, c) > 0 /\ Dist(After(r), c) = Dist(r, c) - 1
<1>1. r \in 0 .. RING - 1 /\ c \in 0 .. RING - 1 /\ RING \in Nat /\ RING >= 2
  BY RingFacts
<1>2. After(r) = IF r = RING - 1 THEN 0 ELSE r + 1
  BY AfterIs
<1>3. QED
  BY <1>1, <1>2 DEF Dist

-----------------------------------------------------------------------------
(* The steps of kernel_main.                                               *)

LEMMA SoundInit == Init => SoundInv
<1> SUFFICES ASSUME Init PROVE SoundInv
  OBVIOUS
<1>1. Typed
  <2>1. /\ run = FALSE /\ halted = FALSE /\ active = FALSE /\ held = FALSE
        /\ civ = 0 /\ lvi = 0 /\ seen = 0 /\ index = 0 /\ completion = 0 /\ k = 0 /\ late = 0
        /\ ring = [i \in Index |-> Silence]
    BY DEF Init, AudioInit
  <2>2. {civ, lvi, seen, index, completion} \subseteq Index /\ k \in Index /\ late \in 0 .. LATE
    BY <2>1, RingFacts
  <2>3. DOMAIN ring = Index
    BY <2>1
  <2>4. QED
    BY <2>1, <2>2, <2>3 DEF Typed
<1>2. Phases /\ HandlerBehind /\ QueueInOrder /\ PreloadInOrder
  BY DEF Init, AudioInit, Phases, HandlerBehind, QueueInOrder, PreloadInOrder
<1>3. ClipRead
  <2>1. wav_info = NoInfo /\ file = NoFile /\ pc = "idle" /\ clip = NoClip
    BY DEF Init, AudioInit, WavInit
  <2>2. heard = 0 /\ next = 0 /\ left = 0 /\ ring = [i \in Index |-> Silence]
    BY DEF Init, AudioInit
  <2>3. QED
    BY <2>1, <2>2 DEF ClipRead, NoInfo, NoClip, Silence
<1>4. QED
  BY <1>1, <1>2, <1>3 DEF SoundInv

\* The clip and its numbers are left alone.
LEMMA ClipKept ==
  ASSUME ClipRead, UNCHANGED <<wav, clip, heard, next, left, ring>>,
         pc' = "play_wav" => pc = "play_wav"
  PROVE  ClipRead'
BY DEF ClipRead, wav, Playable, Known, Header

LEMMA QuietStep ==
  ASSUME SoundInv, UNCHANGED <<audio, wav>>
  PROVE  SoundInv' /\ KeepsItsFragment /\ GoesOn
<1>1. ClipRead'
  BY ClipKept DEF SoundInv, audio, card, source, driver, caller, handler, wav
<1>2. Typed' /\ Phases'
  BY DEF audio, card, source, driver, caller, handler, SoundInv, Typed, Phases
<1>3. HandlerBehind'
  BY DEF audio, card, source, driver, caller, handler, SoundInv, HandlerBehind, Rear, Pos
<1>4. QueueInOrder'
  BY DEF audio, card, source, driver, caller, handler, SoundInv, QueueInOrder, Rear, Pos,
     Waiting, Follows, Behind
<1>5. PreloadInOrder'
  BY DEF audio, card, source, driver, caller, handler, SoundInv, PreloadInOrder, Follows
<1>6. KeepsItsFragment /\ GoesOn
  BY DEF audio, card, SoundInv, ClipRead, KeepsItsFragment, GoesOn
<1>7. QED
  BY <1>1, <1>2, <1>3, <1>4, <1>5, <1>6 DEF SoundInv

\* A step outside the stream and its start: nothing is active and no fragment
\* is looked at.
LEMMA IdleStep ==
  ASSUME SoundInv, ~active,
         UNCHANGED <<card, ring, active, completion, seen, index, irq, late, k>>,
         held' \in BOOLEAN, ClipRead',
         pc' \in {"parse", "play_wav"} => held',
         pc' \notin {"preload", "play", "run"}
  PROVE  SoundInv' /\ KeepsItsFragment /\ GoesOn
<1>1. Typed'
  BY DEF SoundInv, Typed, card
<1>2. Phases'
  BY DEF SoundInv, Phases, card
<1>3. HandlerBehind' /\ QueueInOrder' /\ PreloadInOrder'
  BY DEF HandlerBehind, QueueInOrder, PreloadInOrder
<1>4. KeepsItsFragment /\ GoesOn
  BY DEF SoundInv, ClipRead, KeepsItsFragment, GoesOn, card
<1>5. QED
  BY <1>1, <1>2, <1>3, <1>4 DEF SoundInv

LEMMA OpenStep ==
  ASSUME SoundInv, Open
  PROVE  SoundInv' /\ KeepsItsFragment /\ GoesOn
<1>1. ~active
  BY DEF SoundInv, Phases, Open, Call
<1>2. ClipRead'
  BY DEF SoundInv, ClipRead, Open, Call, card, NoInfo
<1>3. QED
  BY <1>1, <1>2, IdleStep DEF Open, Call, card, driver, handler

LEMMA ChunkTyped ==
  ASSUME NEW f \in WavFiles, NEW i \in DOMAIN f.chunks, NEW c, c = f.chunks[i]
  PROVE  /\ c.len \in Nat
         /\ c.id = "fmt " => c.channels \in Nat /\ c.bits \in Nat /\ c.rate \in Nat
<1>1. c.len \in Nat
  BY WavAssumption
<1>2. c.id = "fmt " => c.channels \in 0 .. 255 /\ c.bits \in 0 .. 255 /\ c.rate \in Nat
  BY WavAssumption
<1>3. \A x \in 0 .. 255 : x \in Nat
  OBVIOUS
<1>4. QED
  BY <1>1, <1>2, <1>3, Zenon

\* A chunk that was found is one of the file's.
LEMMA HeaderFound ==
  ASSUME ClipRead, Header.id # "other"
  PROVE  /\ Header.len \in Nat
         /\ Header.id = "fmt " => Header.channels \in Nat /\ Header.bits \in Nat /\ Header.rate \in Nat
<1> DEFINE I == {i \in DOMAIN file.chunks : Place(file, i) = at}
<1>1. I # {} /\ Header = file.chunks[CHOOSE i \in I : TRUE]
  BY DEF Header, HeaderAt, Astray
<1>2. PICK i \in I : Header = file.chunks[i]
  BY <1>1
<1>3. file \in WavFiles
  BY <1>2 DEF ClipRead, NoFile
<1>4. i \in DOMAIN file.chunks /\ Header = file.chunks[i]
  BY <1>2
<1>5. QED
  BY <1>3, <1>4, ChunkTyped

\* A rate that is known goes into that of the card a whole number of times.
LEMMA FormatRead ==
  ASSUME NEW c, c.channels \in Nat, c.bits \in Nat, c.rate \in Nat
  PROVE  /\ Format(c).channels \in Nat /\ Format(c).bits \in Nat
         /\ Format(c).output # 0 => Format(c).output \div Format(c).rate \in Nat \ {0}
BY DEF Format, OutputRate

LEMMA ReadStep ==
  ASSUME SoundInv, read_wav_info
  PROVE  SoundInv' /\ KeepsItsFragment /\ GoesOn
<1>1. ~active /\ held
  BY DEF SoundInv, Phases, read_wav_info, ReadFormat, SkipChunk, FindData, StatusError, Reading, Call
<1>2. ClipRead'
  <2>1. CASE ReadFormat
    <3>1. Header.id = "fmt "
      BY <2>1 DEF ReadFormat
    <3>2. UNCHANGED <<file, clip, heard, next, left, ring>> /\ pc' = "parse" /\ wav_info' = Format(Header)
      BY <2>1 DEF ReadFormat, Reading, Call, card, source
    <3>3. QED
      BY <3>1, <3>2, HeaderFound, FormatRead DEF SoundInv, ClipRead
  <2>2. CASE SkipChunk \/ StatusError
    <3>1. UNCHANGED <<file, wav_info, clip, heard, next, left, ring>> /\ pc' # "play_wav"
      BY <2>2 DEF SkipChunk, StatusError, Reading, Call, card, source
    <3>2. QED
      BY <3>1 DEF SoundInv, ClipRead
  <2>3. CASE FindData
    <3>1. Header.id = "data" /\ Playable(wav_info)
      BY <2>3 DEF FindData
    <3>2. UNCHANGED <<file, at, wav_info, clip, heard, next, left, ring>>
      BY <2>3 DEF FindData, Reading, Call, card, source
    <3>3. Header.len \in Nat
      BY <3>1, HeaderFound DEF SoundInv
    <3>4. Header' = Header /\ Playable(wav_info')
      BY <3>1, <3>2 DEF Header
    <3>5. QED
      BY <3>2, <3>3, <3>4 DEF SoundInv, ClipRead
  <2>4. QED
    BY <2>1, <2>2, <2>3 DEF read_wav_info
<1>3. /\ UNCHANGED <<card, ring, active, completion, seen, index, irq, late, k, held>>
      /\ pc' \in {"parse", "play_wav", "play_error"}
  BY DEF read_wav_info, ReadFormat, SkipChunk, FindData, StatusError, Reading, Call, card, source, driver, handler
<1>4. QED
  BY <1>1, <1>2, <1>3, IdleStep DEF SoundInv, Typed

LEMMA PlayStep ==
  ASSUME SoundInv, play_wav
  PROVE  SoundInv' /\ KeepsItsFragment /\ GoesOn
<1> DEFINE c == Clip(wav_info, at + 8, Header.len)
<1>1. pc = "play_wav" /\ ~active /\ ~run /\ irq = "none" /\ held
  BY DEF SoundInv, Phases, play_wav, Play, Call
<1>2. c.ratio \in Nat \ {0} /\ c.frame \in Nat \ {0} /\ c.length \in Nat
  BY <1>1 DEF SoundInv, ClipRead, Playable, Known, Clip
<1>3. clip' = c /\ k' = 0 /\ UNCHANGED <<file, wav_info>>
  BY DEF play_wav, Play, wav
<1>4. UNCHANGED <<run, halted, sr, civ, lvi, held, active, completion, seen, index, irq, late>>
  BY DEF play_wav, Play, handler
<1>5. /\ \/ pc' = "wait" /\ UNCHANGED <<next, left, ring, heard>>
         \/ /\ pc' = "preload" /\ next' = 0 /\ left' = c.length /\ heard' = 0
            /\ ring' = [i \in Index |-> Silence]
  BY DEF play_wav, Play, Call
<1> HIDE DEF c
<1>6. ClipRead'
  BY <1>2, <1>3, <1>5 DEF SoundInv, ClipRead, Silence
<1>7. Typed'
  BY <1>3, <1>4, <1>5, RingFacts DEF SoundInv, Typed
<1>8. Phases'
  BY <1>1, <1>4, <1>5 DEF Phases
<1>9. HandlerBehind' /\ QueueInOrder'
  BY <1>1, <1>4 DEF HandlerBehind, QueueInOrder
<1>10. PreloadInOrder'
  BY <1>3, <1>5 DEF PreloadInOrder
<1>11. KeepsItsFragment /\ GoesOn
  BY <1>1, <1>5 DEF KeepsItsFragment, GoesOn, SoundInv, ClipRead
<1>12. QED
  BY <1>6, <1>7, <1>8, <1>9, <1>10, <1>11 DEF SoundInv

LEMMA WholeTimes ==
  ASSUME NEW l \in Nat, NEW f \in Nat \ {0}, NEW n \in Nat, n =< l \div f
  PROVE  n * f \in 0 .. l
<1>1. l \div f \in Nat /\ (l \div f) * f =< l
  OBVIOUS
<1>2. n * f =< (l \div f) * f /\ n * f \in Nat
  BY <1>1
<1>3. QED
  BY <1>1, <1>2

\* A fragment is filled with what comes next.
LEMMA RefillDoes ==
  ASSUME SoundInv, NEW i \in Index, wav_refill_buffer(i), held
  PROVE  /\ DOMAIN ring' = Index /\ \A j \in Index : j # i => ring'[j] = ring[j]
         /\ ring'[i].from = next /\ next' = next + ring'[i].n /\ ring'[i].n \in Nat
         /\ {next', left'} \subseteq Nat /\ UNCHANGED <<clip, held>>
<1> DEFINE frames == Smaller(FRAGMENT \div clip.ratio, left \div clip.frame)
           full   == [from |-> IF held THEN next ELSE -1, n |-> frames * clip.ratio]
<1>1. frames \in Nat /\ frames =< left \div clip.frame
  BY AudioAssumption DEF SoundInv, ClipRead, Smaller
<1>2. frames * clip.ratio \in Nat /\ frames * clip.frame \in 0 .. left
  BY <1>1, WholeTimes DEF SoundInv, ClipRead
<1>3. ring' = [ring EXCEPT ![i] = full] /\ next' = next + frames * clip.ratio
      /\ left' = left - frames * clip.frame /\ UNCHANGED <<clip, held>>
  BY DEF wav_refill_buffer
<1>4. full.from = next /\ full.n = frames * clip.ratio
  OBVIOUS
<1>5. DOMAIN ring = Index
  BY DEF SoundInv, Typed
<1>6. next \in Nat /\ left \in Nat
  BY DEF SoundInv, ClipRead
<1> HIDE DEF frames, full
<1>7. DOMAIN ring' = Index /\ ring'[i] = full /\ \A j \in Index : j # i => ring'[j] = ring[j]
  BY <1>3, <1>5
<1>8. QED
  BY <1>2, <1>3, <1>4, <1>6, <1>7

LEMMA PreloadStep ==
  ASSUME SoundInv, Preload, UNCHANGED wav
  PROVE  SoundInv' /\ KeepsItsFragment /\ GoesOn
<1>1. pc = "preload" /\ ~active /\ ~run /\ irq = "none" /\ held /\ k \in Index
  BY DEF SoundInv, Phases, Typed, Preload, Call
<1>2. /\ DOMAIN ring' = Index /\ \A j \in Index : j # k => ring'[j] = ring[j]
      /\ ring'[k].from = next /\ next' = next + ring'[k].n /\ ring'[k].n \in Nat
      /\ {next', left'} \subseteq Nat /\ UNCHANGED <<clip, held>>
  BY <1>1, RefillDoes DEF Preload
<1>3. UNCHANGED <<run, halted, sr, civ, lvi, heard, active, completion, seen, index, irq, late>>
  BY DEF Preload, card, driver, handler, wav_refill_buffer
<1>4. IF k = RING - 1 THEN pc' = "play" /\ k' = 0 ELSE pc' = "preload" /\ k' = k + 1
  BY DEF Preload, Call
<1>5. Typed'
  BY <1>1, <1>2, <1>3, <1>4, RingFacts DEF SoundInv, Typed
<1>6. Phases'
  BY <1>1, <1>2, <1>3, <1>4 DEF Phases
<1>7. HandlerBehind' /\ QueueInOrder'
  BY <1>1, <1>3 DEF HandlerBehind, QueueInOrder
<1>8. ClipRead'
  BY <1>1, <1>2, <1>3, <1>4 DEF SoundInv, ClipRead, wav
<1>9. PreloadInOrder'
  <2>1. ring'[0].from = 0 /\ heard' = 0
    BY <1>1, <1>2, <1>3, RingFacts DEF SoundInv, PreloadInOrder
  <2>2. ASSUME NEW i \in 1 .. k PROVE Follows(i - 1, i)'
    <3>1. i \in Index /\ i - 1 \in Index /\ i - 1 # k
      BY <1>1, RingFacts
    <3>2. CASE i = k
      BY <1>1, <1>2, <3>1, <3>2, RingFacts DEF SoundInv, PreloadInOrder, Follows
    <3>3. CASE i # k
      BY <1>1, <1>2, <3>1, <3>3, RingFacts DEF SoundInv, PreloadInOrder, Follows
    <3>4. QED
      BY <3>2, <3>3
  <2>3. QED
    BY <1>1, <1>2, <1>4, <2>1, <2>2, RingFacts DEF PreloadInOrder
<1>10. KeepsItsFragment /\ GoesOn
  BY <1>1, <1>3 DEF SoundInv, ClipRead, KeepsItsFragment, GoesOn
<1>11. QED
  BY <1>5, <1>6, <1>7, <1>8, <1>9, <1>10 DEF SoundInv

LEMMA StartStep ==
  ASSUME SoundInv, AC97PlayData, UNCHANGED wav
  PROVE  SoundInv' /\ KeepsItsFragment /\ GoesOn
<1>1. pc = "play" /\ pc' = "run" /\ irq = "none" /\ held
  BY DEF SoundInv, Phases, AC97PlayData, Call
<1>2. /\ run' = FALSE /\ halted' = FALSE /\ sr' = FALSE /\ active' = TRUE
      /\ civ' = 0 /\ lvi' = RING - 1 /\ completion' = 0
      /\ UNCHANGED <<heard, ring, clip, next, left, held, k, seen, index, irq, late>>
  BY DEF AC97PlayData, source, handler
<1>3. Typed'
  BY <1>2, RingFacts DEF SoundInv, Typed
<1>4. Phases'
  BY <1>1, <1>2 DEF Phases
<1>5. Rear' = 0
  BY <1>2, RingFacts, AfterIs DEF Rear
<1>6. HandlerBehind'
  BY <1>1, <1>2, <1>5 DEF HandlerBehind
<1>7. QueueInOrder'
  <2>1. ASSUME NEW i \in Index, i # RING - 1 PROVE Follows(i, After(i))'
    <3>1. After(i) = i + 1 /\ After(i) \in 1 .. RING - 1
      BY <2>1, AfterIs, RingFacts
    <3>2. Follows(i, i + 1)
      BY <1>1, <3>1, RingFacts DEF SoundInv, PreloadInOrder
    <3>3. QED
      BY <1>2, <3>1, <3>2 DEF Follows
  <2>2. ring[0].from = 0 /\ heard = 0 /\ next = ring[RING - 1].from + ring[RING - 1].n
    BY <1>1 DEF SoundInv, PreloadInOrder
  <2>3. QED
    BY <1>1, <1>2, <2>1, <2>2 DEF QueueInOrder, Behind
<1>8. PreloadInOrder'
  BY <1>1 DEF PreloadInOrder
<1>9. ClipRead'
  BY <1>1, <1>2, ClipKept DEF SoundInv
<1>10. KeepsItsFragment /\ GoesOn
  BY <1>2 DEF SoundInv, ClipRead, KeepsItsFragment, GoesOn
<1>11. QED
  BY <1>3, <1>4, <1>6, <1>7, <1>8, <1>9, <1>10 DEF SoundInv

LEMMA NoCardStep ==
  ASSUME SoundInv, NoCard, UNCHANGED wav
  PROVE  SoundInv' /\ KeepsItsFragment /\ GoesOn
<1>1. ~active /\ pc' = "wait"
  BY DEF SoundInv, Phases, NoCard, Call
<1>2. UNCHANGED <<card, ring, clip, heard, next, left, held, active, completion, k, seen, index, irq, late>>
  BY DEF NoCard, card, source, driver, handler
<1>3. ClipRead'
  BY <1>1, <1>2, ClipKept DEF SoundInv
<1>4. QED
  BY <1>1, <1>2, <1>3, IdleStep DEF SoundInv, Typed

LEMMA RunStep ==
  ASSUME SoundInv, Run, UNCHANGED wav
  PROVE  SoundInv' /\ KeepsItsFragment /\ GoesOn
<1>1. pc = "run" /\ pc' = "wait" /\ run' = TRUE /\ active /\ irq = "none"
  BY DEF SoundInv, Phases, Run, Call
<1>2. UNCHANGED <<halted, sr, civ, lvi, heard, ring, clip, next, left, held, active, completion, k,
                  seen, index, irq, late>>
  BY DEF Run, source, driver, handler
<1>3. ClipRead'
  BY <1>1, <1>2, ClipKept DEF SoundInv
<1>4. Typed'
  BY <1>1, <1>2 DEF SoundInv, Typed
<1>5. Phases'
  BY <1>1, <1>2 DEF SoundInv, Phases
<1>6. HandlerBehind'
  BY <1>2 DEF SoundInv, HandlerBehind, Rear, Pos
<1>7. QueueInOrder'
  BY <1>2 DEF SoundInv, QueueInOrder, Rear, Pos, Waiting, Follows, Behind
<1>8. PreloadInOrder'
  BY <1>1 DEF PreloadInOrder
<1>9. KeepsItsFragment /\ GoesOn
  BY <1>2 DEF SoundInv, ClipRead, KeepsItsFragment, GoesOn
<1>10. QED
  BY <1>3, <1>4, <1>5, <1>6, <1>7, <1>8, <1>9 DEF SoundInv

LEMMA FreeStep ==
  ASSUME KernelWaits, SoundInv, Free, UNCHANGED wav
  PROVE  SoundInv' /\ KeepsItsFragment /\ GoesOn
<1>1. ~active /\ pc' = "idle" /\ held' = FALSE
  BY DEF KernelWaits, Free, Call
<1>2. UNCHANGED <<card, ring, clip, heard, next, left, active, completion, k, seen, index, irq, late>>
  BY DEF Free, card, driver, handler
<1>3. ClipRead'
  BY <1>1, <1>2, ClipKept DEF SoundInv
<1>4. QED
  BY <1>1, <1>2, <1>3, IdleStep

-----------------------------------------------------------------------------
(* The card and the handler.                                               *)

\* The card goes on by one fragment, or halts behind the last valid one.
LEMMA PlayedStep ==
  ASSUME KernelWaits, SoundInv, Played, UNCHANGED wav
  PROVE  SoundInv' /\ KeepsItsFragment /\ GoesOn
<1>1. run /\ ~halted /\ active /\ pc = "wait"
  BY DEF SoundInv, Phases, Played
<1>2. UNCHANGED <<run, lvi, ring, clip, next, left, held, active, completion, k, pc, irq, seen, index>>
  BY DEF Played, source, driver, caller
<1>3. heard' = heard + ring[civ].n /\ sr' = TRUE
  BY DEF Played
<1>4. IF civ = lvi THEN halted' = TRUE /\ civ' = civ ELSE civ' = After(civ) /\ halted' = FALSE
  BY <1>1 DEF Played
<1>5. late' \in 0 .. LATE /\ (irq # "none" => late' = late + 1)
  BY RingFacts DEF SoundInv, Typed, Played
<1>6. civ \in Index /\ lvi \in Index /\ Rear \in Index /\ Rear' = Rear
  BY <1>2, AfterIs DEF SoundInv, Typed, Rear
<1>7. civ' \in Index /\ (halted' => civ' = lvi)
  BY <1>1, <1>4, <1>6, AfterIs
<1>8. Pos(civ') + (IF halted' THEN 1 ELSE 0) = Pos(civ) + 1
  BY <1>1, <1>4, <1>6, RoundTheRing, DistIs DEF Pos, Rear
<1>9. Typed'
  BY <1>2, <1>3, <1>4, <1>5, <1>7 DEF SoundInv, Typed
<1>10. Phases'
  BY <1>1, <1>2, <1>4 DEF SoundInv, Phases
<1>11. HandlerBehind'
  BY <1>1, <1>2, <1>5, <1>6, <1>7, <1>8, DistIs DEF SoundInv, Typed, HandlerBehind, Pos
<1>12. ring[civ].from = heard /\ heard \in Nat /\ ring[civ].n \in Nat
  BY <1>1, <1>6 DEF SoundInv, QueueInOrder, ClipRead
<1>13. ClipRead'
  BY <1>2, <1>3, <1>12 DEF SoundInv, ClipRead, wav, Header
<1>14. QueueInOrder'
  <2>1. CASE civ = lvi
    <3>1. halted' /\ Behind' = Behind
      BY <1>1, <1>2, <1>3, <1>4, <1>12, <2>1 DEF Behind
    <3>2. QED
      BY <1>1, <1>2, <3>1 DEF SoundInv, QueueInOrder, Waiting
  <2>2. CASE civ # lvi
    <3>1. ~halted' /\ civ' = After(civ) /\ Pos(civ') = Pos(civ) + 1 /\ Behind' = Behind
      <4>1. ~halted' /\ civ' = After(civ) /\ lvi' = lvi /\ ring' = ring
        BY <1>2, <1>4, <2>2
      <4>2. Pos(civ') \in Int
        BY <1>6, <1>7, PosIs
      <4>3. QED
        BY <1>1, <1>8, <4>1, <4>2 DEF Behind
    <3>2. Pos(civ)' = Pos(civ')
      BY <1>6 DEF Pos
    <3>3. \A j \in Index \ {lvi} : Pos(civ) =< Pos(j) => Follows(j, After(j))
      BY <1>1 DEF SoundInv, QueueInOrder, Waiting
    <3>4. ring[After(civ)].from = heard'
      BY <1>3, <1>6, <1>12, <2>2, <3>3, DistIs DEF Follows, Pos
    <3>5. ASSUME NEW j \in Index \ {lvi}, Waiting(j)' PROVE Follows(j, After(j))'
      <4>1. Pos(civ') =< Pos(j)
        BY <1>6, <3>2, <3>5 DEF Waiting, Pos
      <4>2. Pos(civ) =< Pos(j)
        BY <1>6, <3>1, <4>1, DistIs DEF Pos
      <4>3. QED
        BY <1>2, <3>3, <4>2 DEF Follows
    <3>6. (IF irq = "lvi" THEN ring[index].from = Behind /\ next = ring[index].from + ring[index].n
                          ELSE next = Behind)'
      BY <1>1, <1>2, <3>1 DEF SoundInv, QueueInOrder
    <3>7. QED
      BY <1>2, <3>1, <3>4, <3>5, <3>6 DEF QueueInOrder
  <2>3. QED
    BY <2>1, <2>2
<1>15. PreloadInOrder'
  BY <1>1, <1>2 DEF PreloadInOrder
<1>16. KeepsItsFragment /\ GoesOn
  BY <1>2, <1>12 DEF KeepsItsFragment, GoesOn
<1>17. QED
  BY <1>9, <1>10, <1>11, <1>13, <1>14, <1>15, <1>16 DEF SoundInv

\* Steps of the handler during which the card, the ring and the clip stay.
LEMMA AcknowledgeStep ==
  ASSUME SoundInv, Acknowledge, UNCHANGED wav
  PROVE  SoundInv' /\ KeepsItsFragment /\ GoesOn
<1>1. active /\ pc = "wait" /\ irq = "none" /\ irq' = "civ" /\ sr' = FALSE /\ late' = 0
  BY DEF SoundInv, Phases, Acknowledge, Handler
<1>2. UNCHANGED <<run, halted, civ, lvi, heard, ring, clip, next, left, held, active, completion, k,
                  pc, seen, index>>
  BY DEF Acknowledge, Handler, source, driver, caller
<1>3. Typed' /\ Phases'
  BY <1>1, <1>2, RingFacts DEF SoundInv, Typed, Phases
<1>4. HandlerBehind'
  BY <1>1, <1>2 DEF SoundInv, HandlerBehind, Rear
<1>5. QueueInOrder'
  BY <1>1, <1>2 DEF SoundInv, QueueInOrder, Rear, Pos, Waiting, Follows, Behind
<1>6. ClipRead' /\ PreloadInOrder'
  BY <1>1, <1>2, ClipKept DEF SoundInv, PreloadInOrder
<1>7. KeepsItsFragment /\ GoesOn
  BY <1>2 DEF SoundInv, ClipRead, KeepsItsFragment, GoesOn
<1>8. QED
  BY <1>3, <1>4, <1>5, <1>6, <1>7 DEF SoundInv

\* What the card has finished now is what is completed.
LEMMA ReadCivStep ==
  ASSUME SoundInv, ReadCiv, UNCHANGED wav
  PROVE  SoundInv' /\ KeepsItsFragment /\ GoesOn
<1>1. active /\ pc = "wait" /\ irq = "civ" /\ irq' = "complete" /\ seen' = civ
  BY DEF SoundInv, Phases, ReadCiv, Handler
<1>2. UNCHANGED <<run, halted, sr, civ, lvi, heard, ring, clip, next, left, held, active, completion, k,
                  pc, index, late>>
  BY DEF ReadCiv, Handler, card, source, driver, caller
<1>3. Typed' /\ Phases'
  BY <1>1, <1>2 DEF SoundInv, Typed, Phases
<1>4. HandlerBehind'
  <2>1. Pos(civ) \in Int /\ late \in Nat /\ Rear' = Rear
    BY <1>2, AfterIs, DistIs, RingFacts DEF SoundInv, Typed, Pos, Rear
  <2>2. QED
    BY <1>1, <1>2, <2>1 DEF SoundInv, HandlerBehind, Pos
<1>5. QueueInOrder'
  BY <1>1, <1>2 DEF SoundInv, QueueInOrder, Rear, Pos, Waiting, Follows, Behind
<1>6. ClipRead' /\ PreloadInOrder'
  BY <1>1, <1>2, ClipKept DEF SoundInv, PreloadInOrder
<1>7. KeepsItsFragment /\ GoesOn
  BY <1>2 DEF SoundInv, ClipRead, KeepsItsFragment, GoesOn
<1>8. QED
  BY <1>3, <1>4, <1>5, <1>6, <1>7 DEF SoundInv

\* One fragment further, or the end of the clip.
LEMMA CompleteStep ==
  ASSUME SoundInv, Complete, UNCHANGED wav
  PROVE  SoundInv' /\ KeepsItsFragment /\ GoesOn
<1>1. active /\ pc = "wait" /\ irq = "complete" /\ completion # seen
  BY DEF SoundInv, Phases, Complete
<1>2. UNCHANGED <<halted, civ, lvi, heard, ring, clip, next, left, held, k, pc, seen, late>>
  BY DEF Complete, source, caller
<1>3. completion' = After(completion) /\ index' = completion
  BY DEF Complete
<1>4. \/ irq' = "none" /\ active' = FALSE /\ run' = FALSE /\ sr' = FALSE
      \/ irq' = "refill" /\ UNCHANGED <<active, run, sr>>
  BY DEF Complete, AC97StopPlayback
<1>5. completion = Rear /\ completion \in Index
  BY <1>1 DEF SoundInv, HandlerBehind, Typed
<1>6. Typed'
  BY <1>2, <1>3, <1>4, <1>5, AfterIs DEF SoundInv, Typed
<1>7. Phases'
  BY <1>1, <1>2, <1>4 DEF SoundInv, Phases
<1>8. HandlerBehind'
  BY <1>1, <1>2, <1>3, <1>4, <1>5 DEF SoundInv, HandlerBehind, Rear, Pos
<1>9. QueueInOrder'
  BY <1>1, <1>2, <1>4 DEF SoundInv, QueueInOrder, Rear, Pos, Waiting, Follows, Behind
<1>10. ClipRead' /\ PreloadInOrder'
  BY <1>1, <1>2, ClipKept DEF SoundInv, PreloadInOrder
<1>11. KeepsItsFragment /\ GoesOn
  BY <1>2 DEF SoundInv, ClipRead, KeepsItsFragment, GoesOn
<1>12. QED
  BY <1>6, <1>7, <1>8, <1>9, <1>10, <1>11 DEF SoundInv

\* The fragment that is filled is neither the card's nor one it has still to play.
LEMMA RefillStep ==
  ASSUME SoundInv, Refill, UNCHANGED wav
  PROVE  SoundInv' /\ KeepsItsFragment /\ GoesOn
<1>1. active /\ pc = "wait" /\ irq = "refill" /\ irq' = "lvi" /\ held /\ index \in Index
  BY DEF SoundInv, Phases, Typed, Refill, Handler
<1>2. /\ DOMAIN ring' = Index /\ \A j \in Index : j # index => ring'[j] = ring[j]
      /\ ring'[index].from = next /\ next' = next + ring'[index].n /\ ring'[index].n \in Nat
      /\ {next', left'} \subseteq Nat /\ UNCHANGED <<clip, held>>
  BY <1>1, RefillDoes DEF Refill
<1>3. UNCHANGED <<run, halted, sr, civ, lvi, heard, active, completion, k, pc, seen, index, late>>
  BY DEF Refill, Handler, card, driver, caller
<1>4. index = Rear /\ {civ, lvi, seen} \subseteq Index /\ lvi # index
  BY <1>1, AfterIs, RingFacts DEF SoundInv, HandlerBehind, Typed, Rear
<1>5. Pos(civ) > 0 /\ Pos(index) = 0
  <2>1. seen # index /\ Pos(seen) =< Pos(civ)
    BY <1>1 DEF SoundInv, HandlerBehind
  <2>2. Pos(seen) > 0
    BY <1>4, <2>1, RearMoves, PosIs DEF Pos
  <2>3. QED
    BY <1>4, <2>1, <2>2, PosIs
<1>6. civ # index
  BY <1>5
<1>7. Typed' /\ Phases'
  BY <1>1, <1>2, <1>3 DEF SoundInv, Typed, Phases
<1>8. HandlerBehind'
  BY <1>1, <1>3 DEF SoundInv, HandlerBehind, Rear, Pos
<1>9. QueueInOrder'
  <2>1. ASSUME NEW j \in Index \ {lvi}, Waiting(j)' PROVE Follows(j, After(j))'
    <3>1. Waiting(j)
      BY <1>3, <2>1 DEF Waiting, Pos, Rear
    <3>2. j # index
      BY <1>4, <1>5, <3>1, PosIs DEF Waiting
    <3>3. After(j) # After(lvi) /\ After(j) \in Index
      BY <1>4, <2>1, AfterDiffers, AfterIs
    <3>4. Follows(j, After(j))
      BY <1>1, <3>1 DEF SoundInv, QueueInOrder
    <3>5. QED
      BY <1>2, <1>4, <3>2, <3>3, <3>4 DEF Follows, Rear
  <2>2. Behind' = Behind /\ ring'[civ] = ring[civ]
    BY <1>2, <1>3, <1>4, <1>6 DEF Behind
  <2>3. next = Behind /\ (~halted => ring[civ].from = heard)
    BY <1>1 DEF SoundInv, QueueInOrder
  <2>4. QED
    BY <1>1, <1>2, <1>3, <2>1, <2>2, <2>3 DEF QueueInOrder
<1>10. ClipRead'
  BY <1>1, <1>2, <1>3 DEF SoundInv, ClipRead, wav, Header
<1>11. PreloadInOrder'
  BY <1>1, <1>3 DEF PreloadInOrder
<1>12. KeepsItsFragment /\ GoesOn
  BY <1>2, <1>3, <1>4, <1>6 DEF SoundInv, ClipRead, KeepsItsFragment, GoesOn
<1>13. QED
  BY <1>7, <1>8, <1>9, <1>10, <1>11, <1>12 DEF SoundInv

\* The fragment that was filled becomes the last valid one; a card that halted
\* goes on with it.
LEMMA WriteLviStep ==
  ASSUME SoundInv, WriteLvi, UNCHANGED wav
  PROVE  SoundInv' /\ KeepsItsFragment /\ GoesOn
<1>1. active /\ pc = "wait" /\ irq = "lvi" /\ irq' = "complete"
  BY DEF SoundInv, Phases, WriteLvi, Handler
<1>2. UNCHANGED <<run, sr, heard, ring, clip, next, left, held, active, completion, k, pc, seen, index, late>>
  BY DEF WriteLvi, Handler, source, driver, caller
<1>3. lvi' = index /\ halted' = FALSE /\ civ' = (IF halted THEN After(civ) ELSE civ)
  BY DEF WriteLvi, Resume
<1>4. /\ {civ, lvi, seen, index} \subseteq Index /\ seen # index /\ index = Rear
      /\ completion = After(index) /\ (halted => civ = lvi) /\ late \in Nat
  BY <1>1, RingFacts DEF SoundInv, HandlerBehind, Typed
<1>5. Pos(seen) =< Pos(civ) /\ Pos(civ) - Pos(seen) + (IF halted THEN 1 ELSE 0) =< late + 1
  BY <1>1 DEF SoundInv, HandlerBehind
<1>6. civ' \in Index /\ Rear' = After(index) /\ lvi # index
  BY <1>3, <1>4, AfterIs, RingFacts DEF Rear
<1>7. Pos(seen) > 0 /\ Dist(After(index), seen) = Pos(seen) - 1
  BY <1>4, RearMoves DEF Pos
<1>8. civ # index /\ Pos(civ) \in Int
  BY <1>4, <1>5, <1>7, PosIs
<1>9. Dist(After(index), civ') = Pos(civ) - 1 + (IF halted THEN 1 ELSE 0)
  <2>1. CASE halted
    <3>1. Pos(civ) = RING - 1
      BY <1>4, <2>1, RoundTheRing DEF Pos, Rear
    <3>2. civ' = index /\ Dist(After(index), index) = RING - 1
      BY <1>3, <1>4, <2>1, RoundTheRing DEF Rear
    <3>3. QED
      BY <2>1, <3>1, <3>2, RingFacts
  <2>2. CASE ~halted
    <3>1. Dist(After(index), civ) = Pos(civ) - 1
      BY <1>4, <1>8, RearMoves DEF Pos
    <3>2. QED
      BY <1>3, <1>8, <2>2, <3>1
  <2>3. QED
    BY <2>1, <2>2
<1>10. Typed' /\ Phases'
  BY <1>1, <1>2, <1>3, <1>4, <1>6 DEF SoundInv, Typed, Phases
<1>11. HandlerBehind'
  <2>1. {Pos(seen), Pos(civ)} \subseteq Int
    BY <1>4, DistIs DEF Pos
  <2>2. Pos(seen)' = Pos(seen) - 1 /\ Pos(civ)' = Pos(civ) - 1 + (IF halted THEN 1 ELSE 0)
    BY <1>2, <1>6, <1>7, <1>9 DEF Pos
  <2>3. Pos(seen)' =< Pos(civ)' /\ Pos(civ)' - Pos(seen)' =< late + 1
    BY <1>4, <1>5, <2>1, <2>2
  <2>4. QED
    BY <1>1, <1>2, <1>3, <1>4, <1>6, <2>1, <2>2, <2>3 DEF HandlerBehind
<1>12. QueueInOrder'
  <2>1. ring[index].from = Behind /\ next = ring[index].from + ring[index].n
    BY <1>1 DEF SoundInv, QueueInOrder
  <2>2. (~halted => ring[civ].from = heard) /\ \A j \in Index \ {lvi} : Waiting(j) => Follows(j, After(j))
    BY <1>1 DEF SoundInv, QueueInOrder
  <2>3. After(lvi) = index
    BY <1>4 DEF Rear
  <2>4. ring[civ'].from = heard
    BY <1>3, <1>4, <2>1, <2>2, <2>3 DEF Behind
  <2>5. ASSUME NEW j \in Index \ {index}, Waiting(j)' PROVE Follows(j, After(j))'
    <3>1. Dist(After(index), civ') =< Dist(After(index), j)
      BY <1>6, <2>5 DEF Waiting, Pos
    <3>2. Dist(After(index), j) = Pos(j) - 1
      BY <1>4, <2>5, RearMoves DEF Pos
    <3>3. CASE halted
      <4>1. Pos(civ) = RING - 1
        BY <1>4, <3>3, RoundTheRing DEF Pos, Rear
      <4>2. QED
        BY <1>4, <1>9, <3>1, <3>2, <3>3, <4>1, PosIs, RingFacts
    <3>4. CASE ~halted /\ j = lvi
      BY <1>2, <2>1, <2>3, <3>4 DEF Follows, Behind
    <3>5. CASE ~halted /\ j # lvi
      <4>1. Waiting(j)
        BY <1>4, <1>9, <3>1, <3>2, <3>5, DistIs DEF Waiting, Pos
      <4>2. QED
        BY <1>2, <2>2, <3>5, <4>1 DEF Follows
    <3>6. QED
      BY <3>3, <3>4, <3>5
  <2>6. QED
    BY <1>1, <1>2, <1>3, <2>1, <2>4, <2>5 DEF QueueInOrder, Behind
<1>13. ClipRead' /\ PreloadInOrder'
  BY <1>1, <1>2, ClipKept DEF SoundInv, PreloadInOrder
<1>14. KeepsItsFragment /\ GoesOn
  BY <1>2 DEF SoundInv, ClipRead, KeepsItsFragment, GoesOn
<1>15. QED
  BY <1>10, <1>11, <1>12, <1>13, <1>14 DEF SoundInv

\* The handler is back before the card has come round the ring: there is
\* nothing for its last write of RUN to wake.
LEMMA ReturnStep ==
  ASSUME KernelWaits, SoundInv, Return, UNCHANGED wav
  PROVE  SoundInv' /\ KeepsItsFragment /\ GoesOn
<1>1. active /\ pc = "wait" /\ irq = "complete" /\ irq' = "none" /\ completion = seen
  BY DEF SoundInv, Phases, Return, Handler
<1>2. UNCHANGED <<run, sr, lvi, heard, ring, clip, next, left, held, active, completion, k, pc, seen, index, late>>
  BY DEF Return, Handler, source, driver, caller
<1>3. {civ, lvi, seen} \subseteq Index /\ seen = Rear /\ (halted => civ = lvi) /\ late \in 0 .. LATE
  BY <1>1 DEF SoundInv, HandlerBehind, Typed
<1>4. Pos(civ) - Pos(seen) + (IF halted THEN 1 ELSE 0) =< late + 1
  BY <1>1 DEF SoundInv, HandlerBehind
<1>5. ~halted
  <2>1. Pos(seen) = 0
    BY <1>3, RingFacts DEF Pos, Dist
  <2>2. halted => Pos(civ) = RING - 1
    BY <1>3, RoundTheRing DEF Pos, Rear
  <2>3. QED
    BY <1>3, <1>4, <2>1, <2>2, RingFacts DEF KernelWaits
<1>6. UNCHANGED <<halted, civ>>
  BY <1>5 DEF Return, Resume, SoundInv, Typed
<1>7. Typed' /\ Phases'
  BY <1>1, <1>2, <1>6 DEF SoundInv, Typed, Phases
<1>8. HandlerBehind'
  BY <1>1, <1>2, <1>6 DEF SoundInv, HandlerBehind, Rear
<1>9. QueueInOrder'
  BY <1>1, <1>2, <1>6 DEF SoundInv, QueueInOrder, Rear, Pos, Waiting, Follows, Behind
<1>10. ClipRead' /\ PreloadInOrder'
  BY <1>1, <1>2, ClipKept DEF SoundInv, PreloadInOrder
<1>11. KeepsItsFragment /\ GoesOn
  BY <1>2 DEF SoundInv, ClipRead, KeepsItsFragment, GoesOn
<1>12. QED
  BY <1>7, <1>8, <1>9, <1>10, <1>11 DEF SoundInv

-----------------------------------------------------------------------------
(* The specification.                                                      *)

LEMMA SoundStep ==
  ASSUME KernelWaits, SoundInv, [Next]_vars
  PROVE  SoundInv' /\ [KeepsItsFragment]_audio /\ [GoesOn]_audio
<1>1. CASE Sounds
  <2>1. CASE Open \/ read_wav_info \/ play_wav
    BY <2>1, OpenStep, ReadStep, PlayStep
  <2>2. CASE (Caller \/ AC97_IRQ_HANDLER \/ Played) /\ UNCHANGED wav
    BY <2>2, PreloadStep, StartStep, NoCardStep, RunStep, FreeStep, PlayedStep, AcknowledgeStep, ReadCivStep,
       CompleteStep, RefillStep, WriteLviStep, ReturnStep DEF Caller, AC97_IRQ_HANDLER
  <2>3. QED
    BY <1>1, <2>1, <2>2 DEF Sounds, Player
<1>2. CASE ToDesktop \/ Select \/ UNCHANGED vars
  <2>1. UNCHANGED <<audio, wav>>
    BY <1>2 DEF ToDesktop, Select, vars
  <2>2. QED
    BY <2>1, QuietStep
<1>3. QED
  BY <1>1, <1>2 DEF Next

\* The invariant holds in every reachable state, for every ring, fragment and
\* set of files.
THEOREM SoundInvariant == KernelWaits => (Spec => []SoundInv)
<1> SUFFICES ASSUME KernelWaits PROVE Spec => []SoundInv
  OBVIOUS
<1>1. SoundInv /\ [Next]_vars => SoundInv'
  BY SoundStep
<1>2. QED
  BY <1>1, SoundInit, PTL DEF Spec

\* The fragment the card is playing is never written, by the preloading of a
\* clip or by the handler, however many fragments the card has gone on
\* meanwhile (ac97.cpp:170-217, chorus.cpp:5).
THEOREM CardKeepsItsFragment == KernelWaits => (Spec => NeverWritesPlaying)
<1> SUFFICES ASSUME KernelWaits PROVE Spec => NeverWritesPlaying
  OBVIOUS
<1>1. SoundInv /\ [Next]_vars => [KeepsItsFragment]_audio
  BY SoundStep
<1>2. QED
  BY <1>1, SoundInvariant, PTL DEF Spec, NeverWritesPlaying, KeepsItsFragment

\* What the card plays next is what comes next in the clip.
THEOREM ClipPlaysInOrder == KernelWaits => (Spec => PlaysInOrder)
<1> SUFFICES ASSUME KernelWaits PROVE Spec => PlaysInOrder
  OBVIOUS
<1>1. SoundInv /\ [Next]_vars => [GoesOn]_audio
  BY SoundStep
<1>2. QED
  BY <1>1, SoundInvariant, PTL DEF Spec, PlaysInOrder, GoesOn
=============================================================================
