---------------------------- MODULE LoadedFiles ----------------------------
(***************************************************************************)
(* The files the kernel makes something of: the WAV file kernel_main loads *)
(* and plays (p-kernel.cpp:120-170), and later, on the desktop, the ELF    *)
(* file the user selects, as often as it is selected.                      *)
(***************************************************************************)
EXTENDS Wav, Elf

VARIABLE desktop  \* kernel_main has come to its end

vars == <<audio, wav, elfvars, desktop>>

Init == AudioInit /\ WavInit /\ ElfInit /\ desktop = FALSE

Sounds == ~desktop /\ Player /\ UNCHANGED <<elfvars, desktop>>

\* TEST.WAV is not on the floppy (p-kernel.cpp:125).  Behind a clip the desktop
\* comes up too, but nothing of the sound goes on there, and the two halves
\* share no state.
ToDesktop ==
  /\ pc = "idle" /\ plays = 0 /\ ~desktop /\ desktop' = TRUE
  /\ UNCHANGED <<audio, wav, elfvars>>

Select == desktop /\ (OpenElf \/ elf_load_file) /\ UNCHANGED <<audio, wav, desktop>>

Next == Sounds \/ ToDesktop \/ Select

\* The card plays, the CPU executes the caller and takes the interrupt; nobody
\* has to open a file.
Fairness ==
  /\ WF_vars(Played /\ UNCHANGED <<wav, elfvars, desktop>>)
  /\ WF_vars((Caller \/ read_wav_info \/ play_wav) /\ Sounds)
  /\ WF_vars(AC97_IRQ_HANDLER /\ UNCHANGED <<wav, elfvars, desktop>>)

Spec == Init /\ [][Next]_vars /\ Fairness
=============================================================================
