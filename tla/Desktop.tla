------------------------------ MODULE Desktop ------------------------------
(***************************************************************************)
(* The desktop: the file manager (core/wingman/suite/explorer) in the      *)
(* window system (core/wingman).  kernel_main builds it statement by       *)
(* statement with interrupts on; from the moment the callbacks are         *)
(* registered the keyboard and mouse handlers, which run to their end with *)
(* interrupts off, work on the same window, screen and frame buffer.       *)
(*                                                                         *)
(* A picture is a cell for the title, one for each row of the list and one *)
(* for the desktop around the window.  A cell holds the texts drawn over   *)
(* each other since it was last cleared: drawing a text again only         *)
(* recolours it.  A path is the sequence of its names, <<>> for nullptr,   *)
(* which is the root.                                                      *)
(***************************************************************************)
EXTENDS Naturals, Sequences, FiniteSets

CONSTANTS
  Tree,      \* the directories: path -> its entries [name, type] as readdir gives them
  ROWS,      \* rows that fit the window
  EARLY,     \* bound on the keys and packets before the desktop is up
  DEPTH,     \* bound on the names in a path, which grows in a folder that cannot be listed
  FAILURES   \* bound on the failing allocations, none of them at boot

Up == [name |-> "..", type |-> "dir"]

\* The list of directory p, from readDirectory.
Listing(p) == (IF p = <<>> THEN <<>> ELSE <<Up>>) \o Tree[p]

ASSUME DesktopAssumption ==
  /\ ROWS \in Nat /\ EARLY \in Nat /\ DEPTH \in Nat /\ FAILURES \in Nat
  /\ <<>> \in DOMAIN Tree
  /\ \A p \in DOMAIN Tree : \E rows \in 1 .. ROWS : DOMAIN Listing(p) = 1 .. rows

Title == 0
Row   == 1 .. ROWS
Desk  == ROWS + 1
Cell  == {Title, Desk} \cup Row

Text(n, on)  == [name |-> n, on |-> on]   \* on: in the colour of the selection
TitleText    == Text("Select File", FALSE)
Blank        == {}
Undrawn      == {Text("undrawn", FALSE)}

VARIABLES
  pc, k, pixel,               \* initalizeWindowSystem: statement, cell, loaded pixel
  focusedWindow, kb, mouse,   \* whether set, whether the callbacks are registered
  mouseEnabled, bufferSize,   \* wingman.cpp's statics; whether bufferSize is set
  path, files, selection,     \* the file manager
  surface, screen, fb,        \* its window, the compositor's buffer, 0xE0000000
  cursor,                     \* mouse_x, mouse_y of cursor.cpp: the cell
  early, failures,
  listed                      \* how much of the path's folder the list has

boot    == <<pc, k, pixel, focusedWindow, kb, mouse, bufferSize>>
manager == <<path, files, selection, surface>>
shown   == <<screen, fb, mouseEnabled, cursor>>
env     == <<early, failures, listed>>
vars    == <<boot, manager, shown, env>>

Init ==
  /\ pc = "window manager" /\ k = Title /\ pixel = Blank
  /\ focusedWindow = FALSE /\ kb = FALSE /\ mouse = FALSE
  /\ mouseEnabled = FALSE /\ bufferSize = FALSE
  /\ path = <<>> /\ files = <<>> /\ selection = 0
  /\ surface = [c \in Cell |-> Undrawn] /\ screen = [c \in Cell |-> Undrawn]
  /\ fb = [c \in Cell |-> [pic |-> Undrawn, cur |-> FALSE]]
  /\ cursor = Desk
  /\ early = 0 /\ failures = 0 /\ listed = "whole"

-----------------------------------------------------------------------------
(* Drawing.                                                                *)

draw_background(s) == [c \in Cell |-> IF c = Desk THEN s[c] ELSE Blank]

Over(old, text) == {t \in old : t.name # text.name} \cup {text}

draw_title(s) == [s EXCEPT ![Title] = Over(@, TitleText)]

draw_options(s, list, sel) ==
  [c \in Cell |-> IF c \in DOMAIN list
                  THEN Over(s[c], Text(list[c].name, c - 1 = sel)) ELSE s[c]]

\* redraw: the parts its description names, in their order.
Redraw(parts, list, sel) ==
  LET s1 == IF "background" \in parts THEN draw_background(surface) ELSE surface
      s2 == IF "title" \in parts THEN draw_title(s1) ELSE s1
  IN IF "options" \in parts THEN draw_options(s2, list, sel) ELSE s2

\* The picture the compositor makes of a window.
Composed(s) == [c \in Cell |-> IF c = Desk THEN Blank ELSE s[c]]

\* Mutant: a buffer size in pixels copies a quarter of the screen.
CopiedPixels(scr) ==
  IF bufferSize THEN [fb EXCEPT ![Title] = [pic |-> scr[Title], cur |-> FALSE]] ELSE fb

\* redraw_screen copies bufferSize bytes.
Copied(scr) == IF bufferSize THEN [c \in Cell |-> [pic |-> scr[c], cur |-> FALSE]] ELSE fb

redraw_cursor_special(f) == [f EXCEPT ![cursor].cur = TRUE]

\* Mutant: draws the cursor at its new place only.
redraw_cursor_only(f, scr, to) == [f EXCEPT ![to].cur = TRUE]

redraw_cursor(f, scr, to) ==
  [[f EXCEPT ![cursor] = [pic |-> scr[cursor], cur |-> FALSE]] EXCEPT ![to].cur = TRUE]

-----------------------------------------------------------------------------
(* The file manager.  What a key or a click makes of it: the path, list    *)
(* and selection, and the parts that were redrawn, {} if none.  fails: the *)
(* allocation that fails, 0 for none: the path's, the list's, the names'.  *)

PATH  == 1
LIST  == 2
NAMES == 2     \* that of name i is NAMES + i

Unchanged == [path |-> path, files |-> files, sel |-> selection, parts |-> {}, listed |-> listed]

Selected(i) == [Unchanged EXCEPT !.sel = i, !.parts = {"options"}]

parent_path(p) == SubSeq(p, 1, Len(p) - 1)

First(list, n) == [i \in 1 .. n |-> list[i]]

\* readDirectory ends the list before the name it has no memory for.
readDirectory(p, fails) ==
  IF fails - NAMES \in DOMAIN Listing(p) THEN First(Listing(p), fails - NAMES - 1) ELSE Listing(p)

\* Mutant: does not clear the window for the new list.
EnterOver(p, fails) ==
  [path |-> p, files |-> readDirectory(p, fails), sel |-> 0, parts |-> {"title", "options"},
   listed |-> IF fails - NAMES \in DOMAIN Listing(p) THEN "short" ELSE "whole"]

\* The directory is listed, as far as the memory goes.
Enter(p, fails) ==
  [path |-> p, files |-> readDirectory(p, fails), sel |-> 0,
   parts |-> {"background", "title", "options"},
   listed |-> IF fails - NAMES \in DOMAIN Listing(p) THEN "short" ELSE "whole"]

\* It cannot be listed: path and selection are the new ones, the list is not.
Stay(p) == [Unchanged EXCEPT !.path = p, !.sel = 0, !.listed = "not"]

\* A root cut before its first name leaves the sentinel, a file without a name.
fileClick(fails) ==
  LET entry  == files[selection + 1]
      target == IF entry = Up THEN parent_path(path) ELSE Append(path, entry.name)
  IN IF \/ selection + 1 \notin DOMAIN files
        \/ entry.type = "file"          \* played or run; nothing changes here
        \/ entry = Up /\ path = <<>>    \* "Illegal Directory Change"
        \/ fails = PATH
     THEN Unchanged
     ELSE IF \/ target \notin DOMAIN Tree \/ fails = LIST
             \/ fails = NAMES + 1 /\ target # <<>>      \* no memory for ".."
          THEN Stay(target) ELSE Enter(target, fails)

onKeyboard(key, fails) ==
  CASE key = "s" /\ selection + 1 < Len(files) -> Selected(selection + 1)
    [] key = "w" /\ selection > 0 -> Selected(selection - 1)
    [] key = "enter" -> fileClick(fails)
    [] OTHER -> Unchanged

\* A packet with the left button down and the pointer in cell c.
onMouseEvent(c, fails) ==
  CASE c \in DOMAIN files /\ c - 1 # selection -> Selected(c - 1)
    [] c \in DOMAIN files /\ c - 1 = selection -> fileClick(fails)
    [] OTHER -> Unchanged

-----------------------------------------------------------------------------
(* initalizeWindowSystem.                                                  *)

Goes(from, to) == pc = from /\ pc' = to

NewWindowManager ==
  /\ Goes("window manager", "file manager")
  /\ UNCHANGED <<k, pixel, focusedWindow, kb, mouse, bufferSize, manager, shown, env>>

NewFileManager ==
  /\ Goes("file manager", "add")
  /\ files' = Listing(<<>>) /\ path' = <<>> /\ selection' = 0 /\ listed' = "whole"
  /\ surface' = Redraw({"background", "title", "options"}, Listing(<<>>), 0)
  /\ UNCHANGED <<k, pixel, focusedWindow, kb, mouse, bufferSize, shown, early, failures>>

AddWindow ==
  /\ Goes("add", "keyboard") /\ focusedWindow' = TRUE
  /\ UNCHANGED <<k, pixel, kb, mouse, bufferSize, manager, shown, env>>

AddKeyboard ==
  /\ Goes("keyboard", "mouse") /\ kb' = TRUE
  /\ UNCHANGED <<k, pixel, focusedWindow, mouse, bufferSize, manager, shown, env>>

AddMouse ==
  /\ Goes("mouse", "clear") /\ mouse' = TRUE /\ k' = Title
  /\ UNCHANGED <<pixel, focusedWindow, kb, bufferSize, manager, shown, env>>

\* composite(), cell by cell: a pixel is loaded, then stored.
Clear ==
  /\ pc = "clear" /\ screen' = [screen EXCEPT ![k] = Blank]
  /\ IF k = Desk THEN k' = Title /\ pc' = "load" ELSE k' = k + 1 /\ UNCHANGED pc
  /\ UNCHANGED <<pixel, focusedWindow, kb, mouse, bufferSize, manager, fb, mouseEnabled, cursor, env>>

LoadPixel ==
  /\ Goes("load", "store") /\ pixel' = surface[k]
  /\ UNCHANGED <<k, focusedWindow, kb, mouse, bufferSize, manager, shown, env>>

StorePixel ==
  /\ pc = "store" /\ screen' = [screen EXCEPT ![k] = pixel]
  /\ IF k = ROWS THEN k' = Title /\ pc' = "size" ELSE k' = k + 1 /\ pc' = "load"
  /\ UNCHANGED <<pixel, focusedWindow, kb, mouse, bufferSize, manager, fb, mouseEnabled, cursor, env>>

SetBufferSize ==
  /\ Goes("size", "read") /\ bufferSize' = TRUE
  /\ UNCHANGED <<k, pixel, focusedWindow, kb, mouse, manager, shown, env>>

\* redraw_screen(), cell by cell.
ReadScreen ==
  /\ Goes("read", "copy") /\ pixel' = screen[k]
  /\ UNCHANGED <<k, focusedWindow, kb, mouse, bufferSize, manager, shown, env>>

CopyScreen ==
  /\ pc = "copy" /\ fb' = [fb EXCEPT ![k] = [pic |-> pixel, cur |-> FALSE]]
  /\ IF k = Desk THEN pc' = "done" /\ UNCHANGED k ELSE pc' = "read" /\ k' = k + 1
  /\ UNCHANGED <<pixel, focusedWindow, kb, mouse, bufferSize, manager, screen, mouseEnabled, cursor, env>>

-----------------------------------------------------------------------------
(* The callbacks.                                                          *)

Fails == IF failures < FAILURES THEN 0 .. NAMES + ROWS ELSE {0}

Becomes(m, fails) ==
  /\ path' = m.path /\ files' = m.files /\ selection' = m.sel /\ listed' = m.listed
  /\ surface' = Redraw(m.parts, m.files, m.sel)
  /\ failures' = IF fails = 0 THEN failures ELSE failures + 1
  /\ pc # "done" => early < EARLY
  /\ early' = IF pc = "done" THEN 0 ELSE early + 1

\* A redrawn window is composed anew.
Present(m) ==
  IF m.parts = {} THEN UNCHANGED screen
  ELSE screen' = Composed(Redraw(m.parts, m.files, m.sel))

\* What the frame buffer shows after it, the cursor left out.
Presented(m) == IF m.parts = {} THEN fb ELSE Copied(screen')

keyboardFunctionWindowManager(key, fails) ==
  /\ kb /\ focusedWindow
  /\ LET m == onKeyboard(key, fails) IN
       /\ Becomes(m, fails) /\ Present(m)
       /\ fb' = IF m.parts # {} /\ mouseEnabled THEN redraw_cursor_special(Presented(m))
                ELSE Presented(m)
  /\ UNCHANGED <<boot, mouseEnabled, cursor>>

mouseFunctionWindowManager(to, pressed, fails) ==
  /\ mouse
  /\ mouseEnabled' = TRUE
  /\ LET m == IF pressed /\ to # Desk THEN onMouseEvent(to, fails) ELSE Unchanged IN
       /\ Becomes(m, fails) /\ Present(m)
       /\ fb' = redraw_cursor(Presented(m), screen', to)
  /\ cursor' = to
  /\ UNCHANGED boot

Key == \E key \in {"s", "w", "enter"}, f \in Fails :
         keyboardFunctionWindowManager(key, f) /\ Len(path') <= DEPTH

Mouse == \E c \in Cell, pressed \in BOOLEAN, f \in Fails :
           mouseFunctionWindowManager(c, pressed, f) /\ Len(path') <= DEPTH

Next ==
  \/ NewWindowManager \/ NewFileManager \/ AddWindow \/ AddKeyboard \/ AddMouse
  \/ Clear \/ LoadPixel \/ StorePixel \/ SetBufferSize \/ ReadScreen \/ CopyScreen
  \/ Key \/ Mouse

Spec == Init /\ [][Next]_vars

-----------------------------------------------------------------------------
(* Properties.                                                             *)

Built == pc \notin {"window manager", "file manager"}

\* The list is that of the path, or begins it, and the selection is one of it.
ListsItsPath ==
  /\ path \in DOMAIN Tree
  /\ \/ listed = "whole" /\ files = Listing(path)
     \/ listed = "short" /\ \E n \in DOMAIN Listing(path) : files = First(Listing(path), n - 1)
  /\ \/ selection + 1 \in DOMAIN files
     \/ files = <<>> /\ path = <<>> /\ selection = 0

\* Every row shows the name that a click on it takes, in some colour.
NamesDrawn ==
  \A c \in Row : IF c \in DOMAIN files THEN \E on \in BOOLEAN : surface[c] = {Text(files[c].name, on)}
                 ELSE surface[c] = Blank

\* The window's surface shows the list, row by row, with the selection in its
\* colour and nothing left of an earlier list.
DrawnAsListed ==
  /\ surface[Title] = {TitleText}
  /\ \A c \in Row : surface[c] = IF c \in DOMAIN files
                                 THEN {Text(files[c].name, c - 1 = selection)} ELSE Blank

\* Whatever keys and clicks come, the window names what a click would take, and
\* the file manager lists the folder of its path, or as much of its beginning as
\* there was memory for names, with the selection in its colour, although a
\* change of the selection redraws the texts alone.  Only a folder that could
\* not be listed at all leaves an earlier list, until one is listed again.
ShowsFolder == Built => NamesDrawn /\ (listed # "not" => ListsItsPath /\ DrawnAsListed)

\* After every redraw of the window by a callback, once the desktop is up, the
\* frame buffer shows what the window shows, whatever kernel_main's first
\* composite and copy left there when callbacks interrupted them.
ScreenShowsWindow ==
  [][pc = "done" /\ surface' # surface => \A c \in Cell : fb'[c].pic = Composed(surface')[c]]_vars

\* The frame buffer never shows a second cursor, nor one where the mouse no
\* longer is.  Once drawn it stays until kernel_main's first copy of the screen,
\* which draws none (wingman.cpp:77).
OneCursor ==
  /\ \A c \in Cell : fb[c].cur => c = cursor
  /\ pc \in {"add", "keyboard", "mouse", "clear", "load", "store", "size"} /\ mouseEnabled
       => fb[cursor].cur
=============================================================================
