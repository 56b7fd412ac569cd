------------------------------- MODULE Audio -------------------------------
(***************************************************************************)
(* Sound: the AC97 driver (dev/pci/drivers/ac97.cpp) over the buffers of   *)
(* Chorus (dev/chorus/chorus.cpp), filled from a WAV file (wav.cpp).       *)
(*                                                                         *)
(* The card plays a ring of fragments by itself and moves on to the next   *)
(* one (CIV) until it has played the last valid one (LVI), where it halts. *)
(* Each fragment played raises the interrupt, whose handler fills the      *)
(* fragments behind the card and moves LVI.  The card plays on while the   *)
(* handler runs, and interrupts are on while kernel_main starts a clip.    *)
(*                                                                         *)
(* A fragment is represented by the output frames of the clip it holds: n  *)
(* of them, the first of which is frame number from; the rest of it is     *)
(* silence.  A frame of the file has several bytes and gives ratio output  *)
(* frames of four bytes.                                                   *)
(***************************************************************************)
EXTENDS Integers

CONSTANTS
  RING,     \* AC97_BDL_ENTRY_COUNT
  FRAGMENT, \* frames in a fragment
  PLAYS,    \* bound on the number of clips played
  LATE,     \* bound on the fragments the card plays during one interrupt
  Opener    \* who plays: "kernel_main", which waits for the end of the clip,
            \*   or the "FileManager", which does not

ASSUME AudioAssumption ==
  /\ RING \in Nat \ {0, 1} /\ FRAGMENT \in Nat \ {0}
  /\ PLAYS \in Nat /\ LATE \in Nat /\ Opener \in {"kernel_main", "FileManager"}

Index == 0 .. RING - 1
After(i) == (i + 1) % RING
Smaller(a, b) == IF a < b THEN a ELSE b

VARIABLES
  run, halted, sr, civ, lvi,  \* card: CR.RUN, SR.DCH, interrupt bits, CIV, LVI
  heard,                      \* output frames of the clip that it has played
  ring,                       \* pcm_data, fragment by fragment
  sound,                      \* what set-up found: "card", "no card", "no buffer"
  clip, next, left,           \* the clip; its next frame, source_data_length
  held,                       \* the file's buffer has not been freed
  played,                     \* played_bytes_by_finished_buffers
  active, completion,         \* ac97_stream_active, ac97_next_completion_index
  pc, k, plays,               \* the caller of play_sound_with_refilling_buffer
  irq, seen, index, late      \* the handler, its civ and index

card    == <<run, halted, sr, civ, lvi, heard>>
source  == <<clip, next, left, held>>
driver  == <<played, active, completion>>
caller  == <<pc, k, plays>>
handler == <<irq, seen, index, late>>
audio   == <<card, ring, sound, source, driver, caller, handler>>

Silence == [from |-> 0, n |-> 0]
NoClip  == [start |-> 0, length |-> 0, frame |-> 1, ratio |-> 1, total |-> 0]

AudioInit ==
  /\ sound \in {"card", "no card", "no buffer"}
  /\ run = FALSE /\ halted = FALSE /\ sr = FALSE /\ civ = 0 /\ lvi = 0 /\ heard = 0
  /\ ring = [i \in Index |-> Silence]
  /\ clip = NoClip /\ next = 0 /\ left = 0 /\ held = FALSE
  /\ played = 0 /\ active = FALSE /\ completion = 0
  /\ pc = "idle" /\ k = 0 /\ plays = 0
  /\ irq = "none" /\ seen = 0 /\ index = 0 /\ late = 0

-----------------------------------------------------------------------------
(* The card.                                                               *)

\* A fragment has been played.
Played ==
  /\ run /\ ~halted
  /\ irq # "none" => late < LATE
  /\ late' = IF irq = "none" THEN 0 ELSE late + 1
  /\ sr' = TRUE
  /\ heard' = heard + ring[civ].n
  /\ IF civ = lvi THEN halted' = TRUE /\ UNCHANGED civ
                  ELSE civ' = After(civ) /\ UNCHANGED halted
  /\ UNCHANGED <<run, lvi, ring, sound, source, driver, caller, irq, seen, index>>

\* Mutant: a card that halted stays so.
ResumeNothing == UNCHANGED <<halted, civ>>

\* A card that halted goes on behind the fragment it played last.
Resume == /\ halted' = FALSE
          /\ civ' = IF halted THEN After(civ) ELSE civ

-----------------------------------------------------------------------------
(* Filling a fragment.                                                     *)

\* wav_refill_buffer: as many frames as fit and are left, the rest silence.
\* Of a buffer that was freed it reads what is there now.
wav_refill_buffer(i) ==
  LET frames == Smaller(FRAGMENT \div clip.ratio, left \div clip.frame)
  IN  /\ ring' = [ring EXCEPT ![i] = [from |-> IF held THEN next ELSE -1,
                                      n |-> frames * clip.ratio]]
      /\ next' = next + frames * clip.ratio
      /\ left' = left - frames * clip.frame
      /\ UNCHANGED <<clip, held>>

-----------------------------------------------------------------------------
(* play_sound_with_refilling_buffer, called by kernel_main: the handler may *)
(* run before each step.                                                   *)

Call(from, to) == pc = from /\ pc' = to /\ irq = "none"

\* Without Chorus's buffer nothing is played.
Play(c) ==
  /\ Call("play_wav", IF sound = "no buffer" THEN "wait" ELSE "preload")
  /\ k' = 0 /\ clip' = c
  /\ IF sound = "no buffer"
     THEN UNCHANGED <<next, left, ring, played, heard>>
     ELSE /\ next' = 0 /\ left' = c.length
          /\ ring' = [i \in Index |-> Silence]
          /\ played' = 0 /\ heard' = 0
  /\ UNCHANGED <<run, halted, sr, civ, lvi, sound, held, active, completion, plays, handler>>

Preload ==
  /\ Call("preload", IF k = RING - 1 THEN "play" ELSE "preload")
  /\ wav_refill_buffer(k)
  /\ k' = IF k = RING - 1 THEN 0 ELSE k + 1
  /\ UNCHANGED <<card, sound, driver, plays, handler>>

\* AC97StopPlayback: the stream is marked inactive, the card stopped.
AC97StopPlayback == active' = FALSE /\ run' = FALSE /\ sr' = FALSE

\* Mutant: completions are counted from where the last clip left them.
AC97PlayDataKeepsIndex ==
  /\ sound = "card" /\ Call("play", "run")
  /\ run' = FALSE /\ halted' = FALSE /\ sr' = FALSE
  /\ civ' = 0 /\ lvi' = RING - 1 /\ active' = TRUE
  /\ UNCHANGED <<heard, ring, sound, source, played, completion, k, plays, handler>>

\* AC97PlayData up to the assignment of ac97_stream_active: an interrupt among
\* its steps finds the stream inactive or no bit of SR set.
AC97PlayData ==
  /\ sound = "card" /\ Call("play", "run")
  /\ run' = FALSE /\ halted' = FALSE /\ sr' = FALSE
  /\ civ' = 0 /\ lvi' = RING - 1 /\ completion' = 0
  /\ active' = TRUE
  /\ UNCHANGED <<heard, ring, sound, source, played, k, plays, handler>>

\* Without a card AC97PlayData returns at once.
NoCard ==
  /\ sound = "no card" /\ Call("play", "wait")
  /\ UNCHANGED <<card, ring, sound, source, driver, k, plays, handler>>

Run ==
  /\ Call("run", "wait") /\ run' = TRUE
  /\ UNCHANGED <<halted, sr, civ, lvi, heard, ring, sound, source, driver, k, plays, handler>>

\* The file's buffer is freed: by kernel_main when the stream is no longer
\* active, by the file manager at once.
Free ==
  /\ Call("wait", "idle")
  /\ Opener = "kernel_main" => ~active
  /\ held' = FALSE
  /\ UNCHANGED <<card, ring, sound, clip, next, left, driver, k, plays, handler>>

-----------------------------------------------------------------------------
(* AC97_IRQ_HANDLER.                                                       *)

Handler(from, to) == irq = from /\ irq' = to /\ UNCHANGED caller

\* With the stream inactive the handler returns at once.
Acknowledge ==
  /\ Handler("none", "civ") /\ sr /\ active
  /\ sr' = FALSE /\ late' = 0
  /\ UNCHANGED <<run, halted, civ, lvi, heard, ring, sound, source, driver, seen, index>>

ReadCiv ==
  /\ Handler("civ", "complete") /\ seen' = civ
  /\ UNCHANGED <<card, ring, sound, source, driver, index, late>>

\* ac97_complete_descriptor: the stream ends once all of the clip was played.
Complete ==
  /\ irq = "complete" /\ completion # seen
  /\ completion' = After(completion) /\ index' = completion
  /\ played' = played + 4 * FRAGMENT
  /\ IF played' >= clip.total THEN irq' = "none" /\ AC97StopPlayback
                         ELSE irq' = "refill" /\ UNCHANGED <<active, run, sr>>
  /\ UNCHANGED <<halted, civ, lvi, heard, ring, sound, source, caller, seen, late>>

\* Mutant: the fragment behind is taken for the one that is finished.
RefillAhead ==
  /\ Handler("refill", "lvi") /\ wav_refill_buffer(After(index))
  /\ UNCHANGED <<card, sound, driver, seen, index, late>>

Refill ==
  /\ Handler("refill", "lvi") /\ wav_refill_buffer(index)
  /\ UNCHANGED <<card, sound, driver, seen, index, late>>

\* The write of LVI wakes a card that halted.
WriteLvi ==
  /\ Handler("lvi", "complete") /\ lvi' = index /\ Resume
  /\ UNCHANGED <<run, sr, heard, ring, sound, source, driver, seen, index, late>>

\* The safety net: RUN is written again if the card halted meanwhile.
Return ==
  /\ Handler("complete", "none") /\ completion = seen
  /\ Resume
  /\ UNCHANGED <<run, sr, lvi, heard, ring, sound, source, driver, seen, index, late>>

AC97_IRQ_HANDLER == Acknowledge \/ ReadCiv \/ Complete \/ Refill \/ WriteLvi \/ Return

Caller == Preload \/ AC97PlayData \/ NoCard \/ Run \/ Free

-----------------------------------------------------------------------------
(* Properties.                                                             *)

\* The card never plays a fragment twice, skips one, or plays frames of a clip
\* out of order, however late the handler is and wherever the ring wraps.
PlaysInOrder ==
  [][heard' > heard => ring[civ].from = heard]_audio

\* fill_buffer never writes the fragment that the card is playing: the ring is
\* preloaded before the card starts (chorus.cpp:5) and refilled behind it.
NeverWritesPlaying ==
  [][run /\ ~halted => ring'[civ] = ring[civ]]_audio

\* Every clip ends: "while (AC97IsPlaying()) hlt" of kernel_main is left.
PlaybackStops == active ~> ~active
=============================================================================
