------------------------------ MODULE Terminal ------------------------------
(***************************************************************************)
(* The class Terminal of std/graphics.cpp as operators on a terminal: its  *)
(* buffer, its cursor and the screen it draws on.                          *)
(*                                                                         *)
(* The screen is rows of pixels; a line of text is CHARH of them and       *)
(* SPACING between two lines, and scrolling copies rows.  Across, a column *)
(* is one character wide.  A pixel row of a character is the character     *)
(* with the number of the row: <<c, 0>>, <<c, 1>> ...  Colours are left    *)
(* out; a colour escape is one character here, which draws nothing.        *)
(***************************************************************************)
EXTENDS Integers, Sequences, SequencesExt

CONSTANTS
  WIDTH,     \* screenWidth / charWidth
  HEIGHT,    \* screenHeight
  CHARH,     \* charHeight
  SPACING,   \* lineSpacing
  BUFFER     \* bufferSize

ASSUME TerminalAssumption ==
  /\ WIDTH \in Nat \ {0, 1} /\ CHARH \in Nat \ {0} /\ SPACING \in Nat
  /\ HEIGHT \in Nat /\ HEIGHT > CHARH + SPACING /\ BUFFER \in Nat

Columns    == 0 .. WIDTH - 1
PixelRows  == 0 .. HEIGHT - 1
LineHeight == CHARH + SPACING

\* Characters are pairs, as in KernelLog.
NewlineChar == <<"newline", "head">>
Backspace   == <<"backspace", "key">>
Invisible   == {<<"tab", "key">>, <<"colour", "text">>}

Dark == << <<"dark", "pixel">>, 0 >>

NewTerminal ==
  [buffer |-> <<>>, x |-> 0, y |-> 0,
   screen |-> [row \in PixelRows |-> [col \in Columns |-> Dark]]]

\* Every pixel row moves up by a line; a line's height at the bottom is cleared.
scroll(t) ==
  [t EXCEPT
    !.screen = [row \in PixelRows |-> IF row < HEIGHT - LineHeight THEN @[row + LineHeight]
                                      ELSE [col \in Columns |-> Dark]],
    !.y = @ - LineHeight]

\* draw_char at the cursor; rows outside the screen are not followed.
Drawn(t, glyph) ==
  [t EXCEPT !.screen = [row \in PixelRows |->
     IF row \in t.y .. t.y + CHARH - 1 THEN [@[row] EXCEPT ![t.x] = glyph[row - t.y]]
                                       ELSE @[row]]]

\* Mutant: the cursor goes to the next line and stays where it is in it.
NewLineKeepsX(t) ==
  LET down == [t EXCEPT !.y = @ + LineHeight]
  IN  IF down.y + CHARH >= HEIGHT THEN scroll(down) ELSE down

NewLine(t) ==
  LET down == [t EXCEPT !.x = 0, !.y = @ + LineHeight]
  IN  IF down.y + CHARH >= HEIGHT THEN scroll(down) ELSE down

\* From the start of a line the cursor goes to the last column of the line
\* above, which write never uses.
backspace(t) ==
  IF t.buffer = <<>> THEN t
  ELSE LET back == [t EXCEPT !.buffer = Front(@), !.x = @ - 1]
           up   == [back EXCEPT !.x = WIDTH - 1, !.y = @ - LineHeight]
       IN  Drawn(IF back.x < 0 THEN up ELSE back, [n \in 0 .. CHARH - 1 |-> Dark])

\* A printing character; a full buffer takes no more of them.
Print1(t, c) ==
  IF Len(t.buffer) >= BUFFER THEN t
  ELSE LET drawn == Drawn([t EXCEPT !.buffer = Append(@, c)], [n \in 0 .. CHARH - 1 |-> <<c, n>>])
           right == [drawn EXCEPT !.x = @ + 1]
       IN  IF right.x + 1 >= WIDTH THEN NewLine(right) ELSE right

Put(t, c) ==
  CASE c = NewlineChar -> LET down == NewLine(t) IN [down EXCEPT !.buffer = Append(@, c)]
    [] c = Backspace -> backspace(t)
    [] c \in Invisible -> t
    [] OTHER    -> Print1(t, c)

write(t, text) ==
  LET after[n \in 0 .. Len(text)] == IF n = 0 THEN t ELSE Put(after[n - 1], text[n])
  IN  after[Len(text)]

-----------------------------------------------------------------------------
\* What the buffer looks like: its lines, a line ending at a newline or when
\* all columns but the last are used.
AddTo(lines, c) ==
  LET line == Last(lines)
      full == Len(line) + 1 = WIDTH - 1
  IN  IF c = NewlineChar THEN Append(lines, <<>>)
      ELSE Front(lines) \o <<Append(line, c)>> \o (IF full THEN << <<>> >> ELSE <<>>)

Lines(text) ==
  LET lines[n \in 0 .. Len(text)] == IF n = 0 THEN << <<>> >> ELSE AddTo(lines[n - 1], text[n])
  IN  lines[Len(text)]

\* The lines that fit, and the picture of the last of them.
Fit == CHOOSE n \in 1 .. HEIGHT : /\ (n - 1) * LineHeight + CHARH < HEIGHT
                                  /\ n * LineHeight + CHARH >= HEIGHT

Shown(text) ==
  LET all == Lines(text) IN IF Len(all) =< Fit THEN all ELSE SubSeq(all, Len(all) - Fit + 1, Len(all))

Picture(lines) ==
  [row \in PixelRows |-> [col \in Columns |->
     LET line == row \div LineHeight + 1
         part == row % LineHeight
     IN  IF line \in DOMAIN lines /\ part < CHARH /\ col + 1 \in DOMAIN lines[line]
         THEN <<lines[line][col + 1], part>> ELSE Dark]]
=============================================================================
