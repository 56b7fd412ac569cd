--------------------------- MODULE DesktopProofs ---------------------------
(***************************************************************************)
(* Proofs about Desktop for any tree of directories, any window and any    *)
(* bounds on keys, packets, paths and failing allocations, and about the   *)
(* tree of Vfs that the file manager shows.                                *)
(***************************************************************************)
EXTENDS Desktop, Vfs, SequenceTheorems, FiniteSetTheorems, WellFoundedInduction, TLAPS

\* What can be drawn.
TextNames == {"Select File", "undrawn"}
               \cup UNION {{Listing(p)[i].name : i \in DOMAIN Listing(p)} : p \in DOMAIN Tree}
Pictures == SUBSET [name : TextNames, on : BOOLEAN]

Unbuilt     == {"window manager", "file manager"}
BeforeMouse == Unbuilt \cup {"add", "keyboard", "mouse"}

\* The frame buffer is cells of pictures, the callbacks are registered in their
\* turn, the compositor stays in the window, and the buffer size is set before
\* the first copy.
TypeOK ==
  /\ fb \in [Cell -> [pic : Pictures, cur : BOOLEAN]]
  /\ surface \in [Cell -> Pictures] /\ screen \in [Cell -> Pictures]
  /\ pixel \in Pictures /\ k \in Cell /\ cursor \in Cell
  /\ focusedWindow \in BOOLEAN /\ kb \in BOOLEAN /\ mouse \in BOOLEAN
  /\ mouseEnabled \in BOOLEAN /\ bufferSize \in BOOLEAN
  /\ listed \in {"whole", "short", "not"}

BootOrder ==
  /\ pc \in BeforeMouse \cup {"clear", "load", "store", "size", "read", "copy", "done"}
  /\ pc \in Unbuilt => ~kb
  /\ pc \in BeforeMouse => ~mouse
  /\ mouseEnabled => mouse
  /\ pc \in {"load", "store"} => k # Desk
  /\ pc \in {"read", "copy", "done"} => bufferSize

\* A list that fits the window, of texts that can be drawn.
Fits(list) ==
  /\ \E rows \in 0 .. ROWS : DOMAIN list = 1 .. rows
  /\ \A i \in DOMAIN list : list[i].name \in TextNames

\* Every list fits, has a selection unless it is empty, and is drawn row by row;
\* while the path's own folder is listed, in the colour of the selection.
ListDrawn ==
  /\ Fits(files)
  /\ selection \in Nat /\ (selection + 1 \in DOMAIN files \/ selection = 0)
  /\ surface[Title] = {TitleText}
  /\ NamesDrawn

DesktopInv ==
  /\ TypeOK /\ BootOrder
  /\ Built => ListDrawn
  /\ ShowsFolder /\ OneCursor

-----------------------------------------------------------------------------
LEMMA CellFacts ==
  /\ Title \in Cell /\ Desk \in Cell /\ Row \subseteq Cell
  /\ Title \notin Row /\ Desk \notin Row /\ Title # Desk
BY DesktopAssumption DEF Cell, Title, Desk, Row

LEMMA NextCell == \A c \in Cell : c # Desk => c + 1 \in Cell
<1>1. ROWS \in Nat
  BY DesktopAssumption
<1>2. QED
  BY <1>1 DEF Cell, Title, Desk, Row

\* A list fits the window, has a first entry, and texts that can be drawn.
LEMMA ListingFacts ==
  ASSUME NEW p \in DOMAIN Tree
  PROVE  /\ DOMAIN Listing(p) \subseteq Row /\ 1 \in DOMAIN Listing(p)
         /\ DOMAIN Listing(p) \subseteq Cell
         /\ \A i \in DOMAIN Listing(p) : Listing(p)[i].name \in TextNames
<1>1. PICK rows \in 1 .. ROWS : DOMAIN Listing(p) = 1 .. rows
  BY DesktopAssumption
<1>2. DOMAIN Listing(p) \subseteq Row /\ 1 \in DOMAIN Listing(p)
  <2>1. ROWS \in Nat
    BY DesktopAssumption
  <2>2. 1 .. rows \subseteq 1 .. ROWS /\ 1 \in 1 .. rows
    BY <2>1
  <2>3. QED
    BY <1>1, <2>2 DEF Row
<1>3. \A i \in DOMAIN Listing(p) : Listing(p)[i].name \in TextNames
  <2>1. TAKE i \in DOMAIN Listing(p)
  <2> DEFINE n == Listing(p)[i].name
             own == {Listing(p)[j].name : j \in DOMAIN Listing(p)}
             all == {{Listing(q)[j].name : j \in DOMAIN Listing(q)} : q \in DOMAIN Tree}
  <2>2. n \in own /\ own \in all
    OBVIOUS
  <2>3. TextNames = {"Select File", "undrawn"} \cup (UNION all)
    BY DEF TextNames
  <2> HIDE DEF n, own, all
  <2>4. n \in TextNames
    BY <2>2, <2>3
  <2>5. QED
    BY <2>4 DEF n
<1>4. QED
  BY <1>2, <1>3, CellFacts

LEMMA TextFacts ==
  ASSUME NEW n, NEW on
  PROVE  /\ Text(n, on).name = n
         /\ n \in TextNames /\ on \in BOOLEAN => {Text(n, on)} \in Pictures
BY DEF Text, Pictures

LEMMA FixedPictures == Blank \in Pictures /\ Undrawn \in Pictures /\ {TitleText} \in Pictures
BY DEF Blank, Undrawn, TitleText, Pictures, Text, TextNames

\* Drawing a text over itself recolours it, over nothing draws it.
LEMMA OverFacts ==
  ASSUME NEW n, NEW on, NEW old, old = {} \/ \E was : old = {Text(n, was)}
  PROVE  Over(old, Text(n, on)) = {Text(n, on)}
BY DEF Over, Text

\* So do the beginnings of the list of a folder.
LEMMA ReadFits ==
  ASSUME NEW p \in DOMAIN Tree, NEW fails
  PROVE  /\ Fits(readDirectory(p, fails))
         /\ fails - NAMES \notin DOMAIN Listing(p) => readDirectory(p, fails) = Listing(p)
         /\ fails - NAMES \in DOMAIN Listing(p) =>
              \E n \in DOMAIN Listing(p) : readDirectory(p, fails) = First(Listing(p), n - 1)
         /\ fails # NAMES + 1 => 1 \in DOMAIN readDirectory(p, fails)
<1>1. ROWS \in Nat
  BY DesktopAssumption
<1>2. PICK rows \in 1 .. ROWS : DOMAIN Listing(p) = 1 .. rows
  BY DesktopAssumption
<1>3. CASE fails - NAMES \notin DOMAIN Listing(p)
  <2>1. readDirectory(p, fails) = Listing(p) /\ rows \in 0 .. ROWS
    BY <1>1, <1>3 DEF readDirectory
  <2>2. QED
    BY <1>2, <1>3, <2>1, ListingFacts DEF Fits
<1>4. CASE fails - NAMES \in DOMAIN Listing(p)
  <2> DEFINE n == fails - NAMES
             list == First(Listing(p), n - 1)
  <2>1. n \in 1 .. rows /\ readDirectory(p, fails) = list
    BY <1>2, <1>4 DEF readDirectory
  <2>2. DOMAIN list = 1 .. (n - 1) /\ \A i \in 1 .. (n - 1) : list[i] = Listing(p)[i]
    BY DEF First
  <2>3. fails # NAMES + 1 => n # 1
    BY <1>2, <1>4 DEF NAMES
  <2> HIDE DEF n, list
  <2>4. n - 1 \in 0 .. ROWS /\ 1 .. (n - 1) \subseteq DOMAIN Listing(p)
    BY <1>1, <1>2, <2>1
  <2>5. Fits(list)
    BY <2>2, <2>4, ListingFacts DEF Fits
  <2>6. n # 1 => 1 \in DOMAIN list
    BY <2>1, <2>2
  <2>7. QED
    BY <1>2, <1>4, <2>1, <2>3, <2>5, <2>6 DEF list, n
<1>5. QED
  BY <1>3, <1>4

LEMMA ListFits ==
  ASSUME NEW p \in DOMAIN Tree
  PROVE  Fits(Listing(p)) /\ 1 \in DOMAIN Listing(p)
<1>1. PICK rows \in 1 .. ROWS : DOMAIN Listing(p) = 1 .. rows
  BY DesktopAssumption
<1>2. ROWS \in Nat /\ rows \in 0 .. ROWS
  BY DesktopAssumption
<1>3. QED
  BY <1>1, <1>2, ListingFacts DEF Fits

LEMMA FitsFacts ==
  ASSUME NEW list, Fits(list)
  PROVE  DOMAIN list \subseteq Row /\ DOMAIN list \subseteq Cell
<1>1. PICK rows \in 0 .. ROWS : DOMAIN list = 1 .. rows
  BY DEF Fits
<1>2. ROWS \in Nat
  BY DesktopAssumption
<1>3. DOMAIN list \subseteq Row
  BY <1>1, <1>2 DEF Row
<1>4. QED
  BY <1>3, CellFacts

\* The rows, and the title, as a list makes them.
RowsShow(s, list, sel) ==
  /\ s \in [Cell -> Pictures] /\ s[Title] = {TitleText}
  /\ \A c \in Row : s[c] = IF c \in DOMAIN list THEN {Text(list[c].name, c - 1 = sel)} ELSE Blank

LEMMA FullRedraw ==
  ASSUME TypeOK, NEW list, Fits(list)
  PROVE  RowsShow(Redraw({"background", "title", "options"}, list, 0), list, 0)
<1> DEFINE s1 == draw_background(surface)
           s2 == draw_title(s1)
           s3 == draw_options(s2, list, 0)
<1>1. Redraw({"background", "title", "options"}, list, 0) = s3
  BY DEF Redraw
<1>2. /\ s1 \in [Cell -> Pictures] /\ s1[Title] = Blank /\ \A c \in Row : s1[c] = Blank
  BY CellFacts, FixedPictures DEF draw_background, TypeOK
<1>3. Over(Blank, TitleText) = {TitleText}
  BY OverFacts DEF Blank, TitleText
<1>4. /\ s2 \in [Cell -> Pictures] /\ s2[Title] = {TitleText} /\ \A c \in Row : s2[c] = Blank
  <2> HIDE DEF s1
  <2>1. s2 = [s1 EXCEPT ![Title] = {TitleText}]
    BY <1>2, <1>3, CellFacts DEF draw_title
  <2> HIDE DEF s2
  <2>2. QED
    BY <1>2, <2>1, CellFacts, FixedPictures
<1>5. \A c \in DOMAIN list : /\ Over(s2[c], Text(list[c].name, c - 1 = 0)) = {Text(list[c].name, c - 1 = 0)}
                             /\ {Text(list[c].name, c - 1 = 0)} \in Pictures
  <2> HIDE DEF s2
  <2>1. TAKE c \in DOMAIN list
  <2> DEFINE on == c - 1 = 0
             n  == list[c].name
  <2>2. s2[c] = {} /\ n \in TextNames /\ on \in BOOLEAN
    BY <1>4, FitsFacts DEF Blank, Fits
  <2> HIDE DEF on, n
  <2>3. Over(s2[c], Text(n, on)) = {Text(n, on)} /\ {Text(n, on)} \in Pictures
    BY <2>2, OverFacts, TextFacts
  <2>4. QED
    BY <2>3 DEF on, n
<1> HIDE DEF s1, s2
<1>6. s3 = [c \in Cell |-> IF c \in DOMAIN list THEN {Text(list[c].name, c - 1 = 0)} ELSE s2[c]]
  BY <1>5 DEF draw_options
<1> HIDE DEF s3
<1>7. s3 \in [Cell -> Pictures]
  BY <1>4, <1>5, <1>6
<1>8. s3[Title] = {TitleText}
  BY <1>4, <1>6, CellFacts, FitsFacts
<1>9. \A c \in Row : s3[c] = IF c \in DOMAIN list THEN {Text(list[c].name, c - 1 = 0)} ELSE Blank
  BY <1>4, <1>6, CellFacts
<1>10. QED
  BY <1>1, <1>7, <1>8, <1>9 DEF RowsShow

\* Drawing the texts alone suffices for a list that is drawn already.
LEMMA OptionsRedraw ==
  ASSUME TypeOK, ListDrawn, NEW sel
  PROVE  RowsShow(Redraw({"options"}, files, sel), files, sel)
<1> DEFINE s3 == draw_options(surface, files, sel)
<1>1. Redraw({"options"}, files, sel) = s3
  BY DEF Redraw
<1>2. /\ DOMAIN files \subseteq Row /\ DOMAIN files \subseteq Cell
      /\ \A i \in DOMAIN files : files[i].name \in TextNames
  BY FitsFacts DEF ListDrawn, Fits
<1>3. \A c \in DOMAIN files :
        /\ Over(surface[c], Text(files[c].name, c - 1 = sel)) = {Text(files[c].name, c - 1 = sel)}
        /\ {Text(files[c].name, c - 1 = sel)} \in Pictures
  <2>1. TAKE c \in DOMAIN files
  <2> DEFINE on == c - 1 = sel
             n  == files[c].name
  <2>2. (\E was : surface[c] = {Text(n, was)}) /\ n \in TextNames /\ on \in BOOLEAN
    BY <1>2 DEF ListDrawn, NamesDrawn
  <2> HIDE DEF on, n
  <2>3. Over(surface[c], Text(n, on)) = {Text(n, on)} /\ {Text(n, on)} \in Pictures
    BY <2>2, OverFacts, TextFacts
  <2>4. QED
    BY <2>3 DEF on, n
<1>4. s3 = [c \in Cell |-> IF c \in DOMAIN files THEN {Text(files[c].name, c - 1 = sel)} ELSE surface[c]]
  BY <1>3 DEF draw_options
<1> HIDE DEF s3
<1>5. s3 \in [Cell -> Pictures]
  BY <1>3, <1>4 DEF TypeOK
<1>6. s3[Title] = {TitleText}
  BY <1>2, <1>4, CellFacts DEF ListDrawn
<1>7. \A c \in Row : s3[c] = IF c \in DOMAIN files THEN {Text(files[c].name, c - 1 = sel)} ELSE Blank
  BY <1>4, CellFacts DEF ListDrawn, NamesDrawn
<1>8. QED
  BY <1>1, <1>5, <1>6, <1>7 DEF RowsShow

LEMMA NoRedraw ==
  ASSUME NEW list, NEW sel
  PROVE  Redraw({}, list, sel) = surface
BY DEF Redraw

-----------------------------------------------------------------------------
(* What a key or a click makes of the file manager.                        *)

\* It lists the folder of its path, or its beginning.
Lists(m) ==
  /\ m.path \in DOMAIN Tree
  /\ \/ m.listed = "whole" /\ m.files = Listing(m.path)
     \/ m.listed = "short" /\ \E n \in DOMAIN Listing(m.path) : m.files = First(Listing(m.path), n - 1)
  /\ \/ m.sel + 1 \in DOMAIN m.files
     \/ m.files = <<>> /\ m.path = <<>> /\ m.sel = 0

Sound(m) ==
  LET s == Redraw(m.parts, m.files, m.sel) IN
  /\ Fits(m.files) /\ m.listed \in {"whole", "short", "not"}
  /\ m.sel \in Nat /\ (m.sel + 1 \in DOMAIN m.files \/ m.sel = 0)
  /\ s \in [Cell -> Pictures] /\ s[Title] = {TitleText}
  /\ \A c \in Row : IF c \in DOMAIN m.files THEN \E on \in BOOLEAN : s[c] = {Text(m.files[c].name, on)}
                    ELSE s[c] = Blank
  /\ m.listed # "not" => Lists(m) /\ RowsShow(s, m.files, m.sel)

LEMMA UnchangedSound ==
  ASSUME DesktopInv, Built
  PROVE  Sound(Unchanged)
<1>1. Redraw({}, files, selection) = surface
  BY NoRedraw
<1>2. listed # "not" => RowsShow(surface, files, selection)
  BY DEF DesktopInv, ShowsFolder, DrawnAsListed, RowsShow, TypeOK
<1>3. listed # "not" => Lists(Unchanged)
  BY DEF DesktopInv, ShowsFolder, ListsItsPath, Lists, Unchanged
<1>4. QED
  BY <1>1, <1>2, <1>3 DEF Sound, Unchanged, DesktopInv, ListDrawn, NamesDrawn, TypeOK

LEMMA SelectedSound ==
  ASSUME DesktopInv, Built, NEW i \in Nat, i + 1 \in DOMAIN files
  PROVE  Sound(Selected(i))
<1>1. RowsShow(Redraw({"options"}, files, i), files, i)
  BY OptionsRedraw DEF DesktopInv
<1> DEFINE s == Redraw({"options"}, files, i)
<1>2. /\ Selected(i).parts = {"options"} /\ Selected(i).files = files /\ Selected(i).sel = i
      /\ Selected(i).listed = listed /\ Selected(i).path = path
  BY DEF Selected, Unchanged
<1> HIDE DEF s
<1>3. \A c \in Row : IF c \in DOMAIN files THEN \E on \in BOOLEAN : s[c] = {Text(files[c].name, on)}
                     ELSE s[c] = Blank
  BY <1>1 DEF RowsShow, s
<1>4. listed # "not" => Lists(Selected(i))
  BY <1>2 DEF DesktopInv, ShowsFolder, ListsItsPath, Lists
<1>5. QED
  BY <1>1, <1>2, <1>3, <1>4 DEF Sound, DesktopInv, ListDrawn, TypeOK, RowsShow, s

LEMMA EnterSound ==
  ASSUME DesktopInv, NEW p \in DOMAIN Tree, NEW fails, fails = NAMES + 1 => p = <<>>
  PROVE  Sound(Enter(p, fails))
<1> DEFINE list == readDirectory(p, fails)
           s == Redraw({"background", "title", "options"}, list, 0)
           m == Enter(p, fails)
<1>1. Fits(list)
  BY ReadFits
<1>2. /\ m.parts = {"background", "title", "options"} /\ m.files = list /\ m.sel = 0 /\ m.path = p
      /\ m.listed = IF fails - NAMES \in DOMAIN Listing(p) THEN "short" ELSE "whole"
  BY DEF Enter
<1>3. 1 \in DOMAIN list \/ (list = <<>> /\ p = <<>>)
  <2>1. CASE fails # NAMES + 1
    BY <2>1, ReadFits
  <2>2. CASE fails = NAMES + 1
    <3>1. fails - NAMES = 1 /\ 1 \in DOMAIN Listing(p) /\ p = <<>>
      BY <2>2, ListingFacts DEF NAMES
    <3>2. list = First(Listing(p), 1 - 1)
      BY <3>1 DEF readDirectory
    <3>3. list = <<>>
      BY <3>2 DEF First
    <3>4. QED
      BY <3>1, <3>3
  <2>3. QED
    BY <2>1, <2>2
<1>4. \/ m.listed = "whole" /\ list = Listing(p)
      \/ m.listed = "short" /\ \E n \in DOMAIN Listing(p) : list = First(Listing(p), n - 1)
  BY <1>2, ReadFits
<1> HIDE DEF list
<1>5. RowsShow(s, list, 0)
  BY <1>1, FullRedraw DEF DesktopInv
<1> HIDE DEF s, m
<1>6. \A c \in Row : IF c \in DOMAIN list THEN \E on \in BOOLEAN : s[c] = {Text(list[c].name, on)}
                     ELSE s[c] = Blank
  BY <1>5 DEF RowsShow
<1>7. s \in [Cell -> Pictures] /\ s[Title] = {TitleText}
  BY <1>5 DEF RowsShow
<1>8. Redraw(m.parts, m.files, m.sel) = s
  BY <1>2 DEF s
<1>9. Lists(m)
  BY <1>2, <1>3, <1>4 DEF Lists
<1>10. Sound(m)
  BY <1>1, <1>2, <1>4, <1>5, <1>6, <1>7, <1>8, <1>9 DEF Sound
<1>11. QED
  BY <1>10 DEF m

LEMMA StaySound ==
  ASSUME DesktopInv, Built, NEW p
  PROVE  Sound(Stay(p))
<1>1. Redraw({}, files, 0) = surface
  BY NoRedraw
<1>2. /\ Stay(p).parts = {} /\ Stay(p).files = files
      /\ Stay(p).sel = 0 /\ Stay(p).listed = "not"
  BY DEF Stay, Unchanged
<1>3. QED
  BY <1>1, <1>2 DEF Sound, DesktopInv, ListDrawn, NamesDrawn, TypeOK

LEMMA ClickSound ==
  ASSUME DesktopInv, Built, NEW fails
  PROVE  Sound(fileClick(fails))
<1> DEFINE entry  == files[selection + 1]
           target == IF entry = Up THEN parent_path(path) ELSE Append(path, entry.name)
<1>1. \/ fileClick(fails) = Unchanged
      \/ fileClick(fails) = Stay(target)
      \/ /\ target \in DOMAIN Tree /\ fileClick(fails) = Enter(target, fails)
         /\ fails = NAMES + 1 => target = <<>>
  BY DEF fileClick
<1> HIDE DEF target
<1>2. QED
  BY <1>1, UnchangedSound, StaySound, EnterSound

LEMMA KeySound ==
  ASSUME DesktopInv, Built, NEW key \in {"s", "w", "enter"}, NEW fails
  PROVE  Sound(onKeyboard(key, fails))
<1>1. ROWS \in Nat
  BY DesktopAssumption
<1>2. PICK rows \in 0 .. ROWS : DOMAIN files = 1 .. rows
  BY DEF DesktopInv, ListDrawn, Fits
<1>3. Len(files) = rows /\ selection \in Nat
  BY <1>1, <1>2 DEF DesktopInv, ListDrawn
<1>4. CASE key = "s" /\ selection + 1 < Len(files)
  <2>1. onKeyboard(key, fails) = Selected(selection + 1)
    BY <1>4 DEF onKeyboard
  <2>2. selection + 1 \in Nat /\ selection + 1 + 1 \in DOMAIN files
    BY <1>2, <1>3, <1>4
  <2>3. QED
    BY <2>1, <2>2, SelectedSound
<1>5. CASE key = "w" /\ selection > 0
  <2>1. onKeyboard(key, fails) = Selected(selection - 1)
    BY <1>5 DEF onKeyboard
  <2>2. selection - 1 \in Nat /\ selection - 1 + 1 \in DOMAIN files
    BY <1>2, <1>3, <1>5 DEF DesktopInv, ListDrawn
  <2>3. QED
    BY <2>1, <2>2, SelectedSound
<1>6. CASE key = "enter"
  <2>1. onKeyboard(key, fails) = fileClick(fails)
    BY <1>6 DEF onKeyboard
  <2>2. QED
    BY <2>1, ClickSound
<1>7. CASE ~(key = "s" /\ selection + 1 < Len(files)) /\ ~(key = "w" /\ selection > 0) /\ key # "enter"
  <2>1. onKeyboard(key, fails) = Unchanged
    BY <1>7 DEF onKeyboard
  <2>2. QED
    BY <2>1, UnchangedSound
<1>8. QED
  BY <1>4, <1>5, <1>6, <1>7

LEMMA PointerSound ==
  ASSUME DesktopInv, Built, NEW c \in Cell, NEW fails
  PROVE  Sound(onMouseEvent(c, fails))
<1>1. CASE c \in DOMAIN files /\ c - 1 # selection
  <2>1. onMouseEvent(c, fails) = Selected(c - 1)
    BY <1>1 DEF onMouseEvent
  <2>2. c - 1 \in Nat /\ c - 1 + 1 = c
    <3>1. c \in 1 .. ROWS /\ ROWS \in Nat
      BY <1>1, FitsFacts, DesktopAssumption DEF DesktopInv, ListDrawn, Row
    <3>2. QED
      BY <3>1
  <2>3. QED
    BY <1>1, <2>1, <2>2, SelectedSound
<1>2. CASE c \in DOMAIN files /\ c - 1 = selection
  <2>1. onMouseEvent(c, fails) = fileClick(fails)
    BY <1>2 DEF onMouseEvent
  <2>2. QED
    BY <2>1, ClickSound
<1>3. CASE c \notin DOMAIN files
  <2>1. onMouseEvent(c, fails) = Unchanged
    BY <1>3 DEF onMouseEvent
  <2>2. QED
    BY <2>1, UnchangedSound
<1>4. QED
  BY <1>1, <1>2, <1>3

-----------------------------------------------------------------------------
(* The steps.                                                              *)

\* Steps of kernel_main that leave the file manager alone.
LEMMA ManagerKept ==
  ASSUME DesktopInv, UNCHANGED <<manager, listed>>, Built' => Built
  PROVE  (Built' => ListDrawn') /\ ShowsFolder'
<1>1. UNCHANGED <<path, files, selection, surface, listed>>
  BY DEF manager
<1>2. Built' => ListDrawn'
  BY <1>1 DEF DesktopInv, ListDrawn, NamesDrawn
<1>3. ShowsFolder'
  BY <1>1 DEF DesktopInv, ShowsFolder, ListsItsPath, DrawnAsListed, NamesDrawn
<1>4. QED
  BY <1>2, <1>3

LEMMA NewFileManagerStep == DesktopInv /\ NewFileManager => DesktopInv'
<1> SUFFICES ASSUME DesktopInv, NewFileManager PROVE DesktopInv'
  OBVIOUS
<1>1. <<>> \in DOMAIN Tree
  BY DesktopAssumption
<1>0. Fits(Listing(<<>>))
  BY <1>1, ListFits
<1>2. RowsShow(surface', files', 0) /\ path' = <<>> /\ selection' = 0 /\ files' = Listing(<<>>)
  BY <1>1, <1>0, FullRedraw DEF NewFileManager, DesktopInv
<1>3. /\ pc = "file manager" /\ pc' = "add"
      /\ UNCHANGED <<k, pixel, focusedWindow, kb, mouse, bufferSize, screen, fb, mouseEnabled, cursor,
                     failures>> /\ listed' = "whole"
  BY DEF NewFileManager, Goes, shown, env
<1>4. TypeOK'
  BY <1>2, <1>3 DEF DesktopInv, TypeOK, RowsShow
<1>5. BootOrder'
  <2>1. ~mouse /\ ~mouseEnabled
    BY <1>3 DEF DesktopInv, BootOrder, Unbuilt, BeforeMouse
  <2>2. ~mouse' /\ ~mouseEnabled'
    BY <1>3, <2>1
  <2>3. QED
    BY <1>3, <2>2 DEF BootOrder, Unbuilt, BeforeMouse
<1>6. OneCursor'
  BY <1>3 DEF DesktopInv, TypeOK, OneCursor, BootOrder, Unbuilt, BeforeMouse
<1>7. 0 + 1 \in DOMAIN files' /\ selection' + 1 \in DOMAIN files' /\ selection' \in Nat
  BY <1>1, <1>2, ListingFacts
<1>8. ListDrawn'
  <2>1. \A c \in Row : IF c \in DOMAIN files'
                       THEN \E on \in BOOLEAN : surface'[c] = {Text(files'[c].name, on)}
                       ELSE surface'[c] = Blank
    BY <1>2 DEF RowsShow
  <2>2. QED
    BY <1>0, <1>2, <1>7, <2>1 DEF ListDrawn, NamesDrawn, RowsShow
<1>9. ShowsFolder'
  BY <1>1, <1>2, <1>3, <1>7, <1>8 DEF ShowsFolder, ListsItsPath, DrawnAsListed, ListDrawn, RowsShow
<1>10. QED
  BY <1>4, <1>5, <1>6, <1>8, <1>9 DEF DesktopInv

\* The other statements of initalizeWindowSystem.
KernelMain ==
  \/ NewWindowManager \/ AddWindow \/ AddKeyboard \/ AddMouse
  \/ Clear \/ LoadPixel \/ StorePixel \/ SetBufferSize \/ ReadScreen \/ CopyScreen

LEMMA KernelMainStep == DesktopInv /\ KernelMain => DesktopInv' /\ UNCHANGED surface
<1> SUFFICES ASSUME DesktopInv, KernelMain PROVE DesktopInv' /\ UNCHANGED surface
  OBVIOUS
<1> USE CellFacts, FixedPictures DEF Goes, boot, manager, shown, env
<1>1. UNCHANGED <<path, files, selection, surface, cursor, mouseEnabled, early, failures, listed>>
  BY DEF KernelMain, NewWindowManager, AddWindow, AddKeyboard, AddMouse, Clear, LoadPixel, StorePixel,
         SetBufferSize, ReadScreen, CopyScreen
<1>2. Built' => Built
  BY DEF KernelMain, NewWindowManager, AddWindow, AddKeyboard, AddMouse, Clear, LoadPixel, StorePixel,
         SetBufferSize, ReadScreen, CopyScreen, Built
<1>3. ListDrawn' \/ ~Built'
  BY <1>1, <1>2, ManagerKept
<1>4. ShowsFolder'
  BY <1>1, <1>2, ManagerKept
<1>5. TypeOK'
  <2>1. CASE Clear
    BY <1>1, <2>1, NextCell DEF Clear, DesktopInv, TypeOK
  <2>2. CASE LoadPixel
    BY <1>1, <2>2 DEF LoadPixel, DesktopInv, TypeOK
  <2>3. CASE StorePixel
    <3>1. screen' \in [Cell -> Pictures]
      BY <2>3 DEF StorePixel, DesktopInv, TypeOK
    <3>2. k' \in Cell
      BY <2>3, NextCell DEF StorePixel, DesktopInv, TypeOK, BootOrder
    <3>3. QED
      BY <1>1, <2>3, <3>1, <3>2 DEF StorePixel, DesktopInv, TypeOK
  <2>4. CASE ReadScreen
    BY <1>1, <2>4 DEF ReadScreen, DesktopInv, TypeOK
  <2>5. CASE CopyScreen
    <3>1. fb' \in [Cell -> [pic : Pictures, cur : BOOLEAN]]
      BY <2>5 DEF CopyScreen, DesktopInv, TypeOK
    <3>2. k' \in Cell
      BY <2>5, NextCell DEF CopyScreen, DesktopInv, TypeOK
    <3>3. QED
      BY <1>1, <2>5, <3>1, <3>2 DEF CopyScreen, DesktopInv, TypeOK
  <2>6. CASE NewWindowManager \/ AddWindow \/ AddKeyboard \/ AddMouse \/ SetBufferSize
    BY <1>1, <2>6 DEF NewWindowManager, AddWindow, AddKeyboard, AddMouse, SetBufferSize, DesktopInv, TypeOK
  <2>7. QED
    BY <2>1, <2>2, <2>3, <2>4, <2>5, <2>6 DEF KernelMain
<1>6. BootOrder'
  <2>1. pc \in Unbuilt => ~kb
    BY DEF DesktopInv, BootOrder
  <2>2. (pc \in BeforeMouse => ~mouse) /\ (mouseEnabled => mouse)
    BY DEF DesktopInv, BootOrder
  <2>3. CASE NewWindowManager
    <3>1. pc = "window manager" /\ pc' = "file manager" /\ UNCHANGED <<kb, mouse, mouseEnabled>>
      BY <2>3 DEF NewWindowManager
    <3>2. ~kb' /\ ~mouse' /\ ~mouseEnabled'
      BY <2>1, <2>2, <3>1 DEF Unbuilt, BeforeMouse
    <3>3. QED
      BY <3>1, <3>2 DEF BootOrder, Unbuilt, BeforeMouse
  <2>4. CASE AddWindow
    BY <1>1, <2>2, <2>4 DEF AddWindow, BootOrder, Unbuilt, BeforeMouse
  <2>5. CASE AddKeyboard
    BY <1>1, <2>2, <2>5 DEF AddKeyboard, BootOrder, Unbuilt, BeforeMouse
  <2>6. CASE AddMouse
    <3>1. pc' = "clear" /\ mouse' = TRUE
      BY <2>6 DEF AddMouse
    <3>2. QED
      BY <3>1 DEF BootOrder, Unbuilt, BeforeMouse
  <2>7. CASE Clear
    <3>1. pc = "clear" /\ pc' \in {"clear", "load"} /\ UNCHANGED <<mouse, mouseEnabled>>
      BY <1>1, <2>7 DEF Clear
    <3>2. pc' = "load" => k' # Desk
      BY <2>7 DEF Clear
    <3>3. QED
      BY <2>2, <3>1, <3>2 DEF BootOrder, Unbuilt, BeforeMouse
  <2>8. CASE LoadPixel
    BY <1>1, <2>2, <2>8 DEF LoadPixel, DesktopInv, BootOrder, Unbuilt, BeforeMouse
  <2>9. CASE StorePixel
    <3>1. pc = "store" /\ pc' \in {"load", "size"} /\ UNCHANGED <<mouse, mouseEnabled>>
      BY <1>1, <2>9 DEF StorePixel
    <3>2. pc' = "load" => k' # Desk
      BY <2>9, DesktopAssumption DEF StorePixel, DesktopInv, TypeOK, BootOrder, Cell, Title, Row, Desk
    <3>3. QED
      BY <2>2, <3>1, <3>2 DEF BootOrder, Unbuilt, BeforeMouse
  <2>10. CASE SetBufferSize
    BY <1>1, <2>2, <2>10 DEF SetBufferSize, BootOrder, Unbuilt, BeforeMouse
  <2>11. CASE ReadScreen
    <3>1. pc = "read" /\ pc' = "copy" /\ UNCHANGED <<mouse, mouseEnabled, bufferSize>>
      BY <2>11 DEF ReadScreen
    <3>2. bufferSize
      BY <3>1 DEF DesktopInv, BootOrder
    <3>3. QED
      BY <2>2, <3>1, <3>2 DEF BootOrder, Unbuilt, BeforeMouse
  <2>12. CASE CopyScreen
    <3>1. pc = "copy" /\ pc' \in {"read", "done"} /\ UNCHANGED <<mouse, mouseEnabled, bufferSize>>
      BY <2>12 DEF CopyScreen
    <3>2. bufferSize
      BY <3>1 DEF DesktopInv, BootOrder
    <3>3. QED
      BY <2>2, <3>1, <3>2 DEF BootOrder, Unbuilt, BeforeMouse
  <2>13. QED
    BY <2>3, <2>4, <2>5, <2>6, <2>7, <2>8, <2>9, <2>10, <2>11, <2>12 DEF KernelMain
<1>7. OneCursor'
  <2>1. CASE CopyScreen
    <3>1. fb' = [fb EXCEPT ![k] = [pic |-> pixel, cur |-> FALSE]] /\ pc' \in {"read", "done"}
      BY <2>1 DEF CopyScreen
    <3>2. QED
      BY <1>1, <3>1 DEF DesktopInv, OneCursor, TypeOK
  <2>2. CASE NewWindowManager
    BY <1>1, <2>2 DEF NewWindowManager, DesktopInv, OneCursor
  <2>3. CASE AddWindow \/ AddKeyboard \/ AddMouse \/ Clear \/ LoadPixel \/ StorePixel
             \/ SetBufferSize \/ ReadScreen
    BY <1>1, <2>3 DEF AddWindow, AddKeyboard, AddMouse, Clear, LoadPixel, StorePixel, SetBufferSize,
         ReadScreen, DesktopInv, OneCursor, Built, BootOrder
  <2>4. QED
    BY <2>1, <2>2, <2>3 DEF KernelMain
<1>8. QED
  BY <1>1, <1>3, <1>4, <1>5, <1>6, <1>7 DEF DesktopInv

\* What Becomes makes of a sound result.
LEMMA BecomesStep ==
  ASSUME DesktopInv, Built, NEW m, Sound(m), NEW fails, Becomes(m, fails), UNCHANGED pc
  PROVE  /\ surface' \in [Cell -> Pictures] /\ listed' \in {"whole", "short", "not"}
         /\ ListDrawn' /\ ShowsFolder'
<1>1. /\ path' = m.path /\ files' = m.files /\ selection' = m.sel /\ listed' = m.listed
      /\ surface' = Redraw(m.parts, m.files, m.sel)
  BY DEF Becomes
<1>2. surface' \in [Cell -> Pictures] /\ listed' \in {"whole", "short", "not"}
  BY <1>1 DEF Sound
<1>3. ListDrawn'
  BY <1>1 DEF Sound, ListDrawn, NamesDrawn
<1>4. listed' # "not" => ListsItsPath' /\ RowsShow(surface', files', selection')
  BY <1>1 DEF Sound, Lists, ListsItsPath
<1>5. ShowsFolder'
  BY <1>3, <1>4 DEF ShowsFolder, DrawnAsListed, RowsShow, ListDrawn
<1>6. QED
  BY <1>2, <1>3, <1>5

\* What is presented is a frame buffer with the cursor where it was, or none;
\* once the buffer size is set and the window redrawn it is the window.
LEMMA PresentStep ==
  ASSUME DesktopInv, NEW m, Present(m),
         surface' = Redraw(m.parts, m.files, m.sel), surface' \in [Cell -> Pictures]
  PROVE  /\ screen' \in [Cell -> Pictures]
         /\ Presented(m) \in [Cell -> [pic : Pictures, cur : BOOLEAN]]
         /\ \A c \in Cell : Presented(m)[c].cur => fb[c].cur
         /\ m.parts = {} => Presented(m) = fb
         /\ m.parts # {} /\ bufferSize =>
              \A c \in Cell : screen'[c] = Composed(surface')[c] /\ Presented(m)[c].pic = screen'[c]
<1>1. Composed(surface') \in [Cell -> Pictures]
  BY FixedPictures DEF Composed
<1>2. CASE m.parts = {}
  BY <1>2 DEF Present, Presented, DesktopInv, TypeOK
<1>3. CASE m.parts # {}
  <2>1. screen' = Composed(surface') /\ Presented(m) = Copied(screen')
    BY <1>3 DEF Present, Presented
  <2>2. CASE bufferSize
    <3>1. Presented(m) = [c \in Cell |-> [pic |-> screen'[c], cur |-> FALSE]]
      BY <2>1, <2>2 DEF Copied
    <3>2. QED
      BY <1>1, <1>3, <2>1, <3>1
  <2>3. CASE ~bufferSize
    BY <1>1, <1>3, <2>1, <2>3 DEF Copied, DesktopInv, TypeOK
  <2>4. QED
    BY <2>2, <2>3
<1>4. QED
  BY <1>2, <1>3

\* A window that shows in the frame buffer once the desktop is up.
WindowShown == pc = "done" /\ surface' # surface => \A c \in Cell : fb'[c].pic = Composed(surface')[c]

\* Drawing the cursor on a cell leaves every picture and the other cells alone.
CursorAt(f, at) == [f EXCEPT ![at].cur = TRUE]

LEMMA CursorOn ==
  ASSUME NEW f \in [Cell -> [pic : Pictures, cur : BOOLEAN]], NEW at \in Cell
  PROVE  /\ CursorAt(f, at) \in [Cell -> [pic : Pictures, cur : BOOLEAN]]
         /\ \A c \in Cell : /\ CursorAt(f, at)[c].pic = f[c].pic
                            /\ CursorAt(f, at)[c].cur => c = at \/ f[c].cur
         /\ CursorAt(f, at)[at].cur
<1> DEFINE there == [f[at] EXCEPT !.cur = TRUE]
           g == CursorAt(f, at)
<1>1. g = [f EXCEPT ![at] = there]
  BY DEF CursorAt
<1>2. f[at] \in [pic : Pictures, cur : BOOLEAN]
  OBVIOUS
<1> HIDE DEF g
<1>3. there \in [pic : Pictures, cur : BOOLEAN] /\ there.pic = f[at].pic /\ there.cur
  <2> DEFINE r == f[at]
  <2> HIDE DEF r
  <2>1. r \in [pic : Pictures, cur : BOOLEAN]
    BY <1>2 DEF r
  <2>2. [r EXCEPT !.cur = TRUE] \in [pic : Pictures, cur : BOOLEAN]
    BY <2>1
  <2>3. [r EXCEPT !.cur = TRUE].pic = r.pic
    BY <2>1
  <2>4. [r EXCEPT !.cur = TRUE].cur
    BY <2>1
  <2>5. QED
    BY <2>2, <2>3, <2>4 DEF r
<1> HIDE DEF there
<1>4. /\ g \in [Cell -> [pic : Pictures, cur : BOOLEAN]] /\ g[at].cur
      /\ \A c \in Cell : g[c].pic = f[c].pic /\ (g[c].cur => c = at \/ f[c].cur)
  BY <1>1, <1>3
<1>5. QED
  BY <1>4 DEF g

LEMMA KeyStep ==
  ASSUME DesktopInv, NEW key \in {"s", "w", "enter"}, NEW fails,
         keyboardFunctionWindowManager(key, fails)
  PROVE  DesktopInv' /\ WindowShown
<1> DEFINE m == onKeyboard(key, fails)
<1>1. /\ kb /\ Becomes(m, fails) /\ Present(m)
      /\ fb' = IF m.parts # {} /\ mouseEnabled THEN redraw_cursor_special(Presented(m)) ELSE Presented(m)
      /\ UNCHANGED <<pc, k, pixel, focusedWindow, kb, mouse, bufferSize, mouseEnabled, cursor>>
  BY DEF keyboardFunctionWindowManager, boot
<1>2. Built
  BY <1>1 DEF DesktopInv, BootOrder, Built, Unbuilt
<1>3. Sound(m)
  BY <1>2, KeySound
<1>4. surface' = Redraw(m.parts, m.files, m.sel)
  BY <1>1 DEF Becomes
<1> HIDE DEF m
<1>5. surface' \in [Cell -> Pictures] /\ ListDrawn' /\ ShowsFolder'
      /\ listed' \in {"whole", "short", "not"}
  BY <1>1, <1>2, <1>3, BecomesStep
<1> DEFINE shot == Presented(m)
<1>6. /\ screen' \in [Cell -> Pictures]
      /\ shot \in [Cell -> [pic : Pictures, cur : BOOLEAN]]
      /\ \A c \in Cell : shot[c].cur => fb[c].cur
      /\ m.parts = {} => shot = fb
      /\ m.parts # {} /\ bufferSize =>
           \A c \in Cell : screen'[c] = Composed(surface')[c] /\ shot[c].pic = screen'[c]
  BY <1>1, <1>4, <1>5, PresentStep
<1> HIDE DEF shot
<1>7. fb' = shot \/ fb' = CursorAt(shot, cursor)
  BY <1>1 DEF redraw_cursor_special, CursorAt, shot
<1>8. /\ fb' \in [Cell -> [pic : Pictures, cur : BOOLEAN]]
      /\ \A c \in Cell : fb'[c].pic = shot[c].pic /\ (fb'[c].cur => c = cursor \/ shot[c].cur)
  <2>1. CASE fb' = shot
    BY <1>6, <2>1
  <2>2. CASE fb' = CursorAt(shot, cursor)
    BY <1>6, <2>2, CursorOn DEF DesktopInv, TypeOK
  <2>3. QED
    BY <1>7, <2>1, <2>2
<1>9. TypeOK'
  BY <1>1, <1>5, <1>6, <1>8 DEF DesktopInv, TypeOK
<1>10. BootOrder'
  BY <1>1 DEF DesktopInv, BootOrder
<1>11. mouseEnabled /\ fb[cursor].cur => fb'[cursor].cur
  <2>1. CASE m.parts = {}
    BY <1>1, <1>6, <2>1 DEF shot
  <2>2. CASE m.parts # {}
    BY <1>1, <1>6, <2>2 DEF redraw_cursor_special, shot, DesktopInv, TypeOK
  <2>3. QED
    BY <2>1, <2>2
<1>12. OneCursor'
  BY <1>1, <1>6, <1>8, <1>11 DEF DesktopInv, OneCursor, TypeOK
<1>13. WindowShown
  <2>1. SUFFICES ASSUME pc = "done", surface' # surface
                 PROVE  \A c \in Cell : fb'[c].pic = Composed(surface')[c]
    BY DEF WindowShown
  <2>2. m.parts # {}
    BY <1>4, <2>1, NoRedraw
  <2>3. bufferSize
    BY <2>1 DEF DesktopInv, BootOrder
  <2>4. QED
    BY <1>6, <1>8, <2>2, <2>3
<1>14. QED
  BY <1>5, <1>9, <1>10, <1>12, <1>13 DEF DesktopInv

LEMMA MouseStep ==
  ASSUME DesktopInv, NEW to \in Cell, NEW pressed \in BOOLEAN, NEW fails,
         mouseFunctionWindowManager(to, pressed, fails)
  PROVE  DesktopInv' /\ WindowShown
<1> DEFINE m == IF pressed /\ to # Desk THEN onMouseEvent(to, fails) ELSE Unchanged
           shot == Presented(m)
<1>1. /\ mouse /\ mouseEnabled' = TRUE /\ Becomes(m, fails) /\ Present(m)
      /\ fb' = redraw_cursor(shot, screen', to) /\ cursor' = to
      /\ UNCHANGED <<pc, k, pixel, focusedWindow, kb, mouse, bufferSize>>
  BY DEF mouseFunctionWindowManager, boot
<1>2. Built
  BY <1>1 DEF DesktopInv, BootOrder, Built, Unbuilt, BeforeMouse
<1>3. Sound(m)
  BY <1>2, PointerSound, UnchangedSound
<1> HIDE DEF m
<1>4. surface' = Redraw(m.parts, m.files, m.sel)
  BY <1>1 DEF Becomes
<1>5. surface' \in [Cell -> Pictures] /\ ListDrawn' /\ ShowsFolder'
      /\ listed' \in {"whole", "short", "not"}
  BY <1>1, <1>2, <1>3, BecomesStep
<1>6. /\ screen' \in [Cell -> Pictures]
      /\ shot \in [Cell -> [pic : Pictures, cur : BOOLEAN]]
      /\ \A c \in Cell : shot[c].cur => fb[c].cur
      /\ m.parts = {} => shot = fb
      /\ m.parts # {} /\ bufferSize =>
           \A c \in Cell : screen'[c] = Composed(surface')[c] /\ shot[c].pic = screen'[c]
  BY <1>1, <1>4, <1>5, PresentStep
<1> HIDE DEF shot
<1>7. cursor \in Cell /\ \A c \in Cell : fb[c].cur => c = cursor
  BY DEF DesktopInv, TypeOK, OneCursor
<1> DEFINE erased == [pic |-> screen'[cursor], cur |-> FALSE]
           f1 == [shot EXCEPT ![cursor] = erased]
<1>8. erased \in [pic : Pictures, cur : BOOLEAN] /\ erased.pic = screen'[cursor] /\ erased.cur = FALSE
  BY <1>6, <1>7
<1>9. fb' = CursorAt(f1, to)
  BY <1>1 DEF redraw_cursor, CursorAt
<1> HIDE DEF erased
<1>10. /\ f1 \in [Cell -> [pic : Pictures, cur : BOOLEAN]]
       /\ \A c \in Cell : ~f1[c].cur /\ f1[c].pic = IF c = cursor THEN screen'[c] ELSE shot[c].pic
  BY <1>6, <1>7, <1>8
<1> HIDE DEF f1
<1>11. /\ fb' \in [Cell -> [pic : Pictures, cur : BOOLEAN]]
       /\ \A c \in Cell : fb'[c].pic = f1[c].pic /\ (fb'[c].cur => c = to)
       /\ fb'[to].cur
  BY <1>9, <1>10, CursorOn
<1>12. TypeOK'
  BY <1>1, <1>5, <1>6, <1>11 DEF DesktopInv, TypeOK
<1>13. BootOrder'
  BY <1>1 DEF DesktopInv, BootOrder
<1>14. OneCursor'
  BY <1>1, <1>11 DEF OneCursor
<1>15. WindowShown
  <2>1. SUFFICES ASSUME pc = "done", surface' # surface
                 PROVE  \A c \in Cell : fb'[c].pic = Composed(surface')[c]
    BY DEF WindowShown
  <2>2. m.parts # {}
    BY <1>4, <2>1, NoRedraw
  <2>3. bufferSize
    BY <2>1 DEF DesktopInv, BootOrder
  <2>4. QED
    BY <1>6, <1>10, <1>11, <2>2, <2>3
<1>16. QED
  BY <1>5, <1>12, <1>13, <1>14, <1>15 DEF DesktopInv

LEMMA DesktopInit == Init => DesktopInv
<1> SUFFICES ASSUME Init PROVE DesktopInv
  OBVIOUS
<1>1. TypeOK
  BY CellFacts, FixedPictures DEF Init, TypeOK
<1>2. BootOrder
  <2>1. pc = "window manager" /\ ~kb /\ ~mouse /\ ~mouseEnabled
    BY DEF Init
  <2>2. QED
    BY <2>1 DEF BootOrder, Unbuilt, BeforeMouse
<1>3. ~Built
  BY DEF Init, Built
<1>4. OneCursor
  <2>1. pc = "window manager" /\ \A c \in Cell : fb[c].cur = FALSE
    BY DEF Init
  <2>2. QED
    BY <2>1 DEF OneCursor
<1>5. QED
  BY <1>1, <1>2, <1>3, <1>4 DEF DesktopInv, ShowsFolder

LEMMA DesktopStep == DesktopInv /\ [Next]_vars => DesktopInv' /\ [WindowShown]_vars
<1> SUFFICES ASSUME DesktopInv, [Next]_vars PROVE DesktopInv' /\ (WindowShown \/ UNCHANGED vars)
  OBVIOUS
<1>1. CASE KernelMain \/ NewFileManager
  <2>1. DesktopInv'
    BY <1>1, KernelMainStep, NewFileManagerStep
  <2>2. WindowShown
    BY <1>1, KernelMainStep DEF WindowShown, NewFileManager, Goes
  <2>3. QED
    BY <2>1, <2>2
<1>2. CASE Key
  BY <1>2, KeyStep DEF Key
<1>3. CASE Mouse
  BY <1>3, MouseStep DEF Mouse
<1>4. CASE UNCHANGED vars
  <2>1. /\ UNCHANGED <<path, files, selection, surface, listed, screen, fb, mouseEnabled, cursor>>
        /\ UNCHANGED <<pc, k, pixel, focusedWindow, kb, mouse, bufferSize>>
    BY <1>4 DEF vars, boot, manager, shown, env
  <2>2. UNCHANGED <<manager, listed>> /\ (Built' => Built)
    BY <2>1 DEF manager, Built
  <2>3. (Built' => ListDrawn') /\ ShowsFolder'
    BY <2>2, ManagerKept
  <2>4. TypeOK'
    BY <2>1 DEF DesktopInv, TypeOK
  <2>5. BootOrder'
    BY <2>1 DEF DesktopInv, BootOrder
  <2>6. OneCursor'
    BY <2>1 DEF DesktopInv, OneCursor
  <2>7. QED
    BY <1>4, <2>3, <2>4, <2>5, <2>6 DEF DesktopInv
<1>5. QED
  BY <1>1, <1>2, <1>3, <1>4 DEF Next, KernelMain

\* The invariant holds in every reachable state of every desktop.
THEOREM DesktopInvariant == Spec => []DesktopInv
<1>1. Init => DesktopInv
  BY DesktopInit
<1>2. DesktopInv /\ [Next]_vars => DesktopInv'
  BY DesktopStep
<1>3. QED
  BY <1>1, <1>2, PTL DEF Spec

\* For every tree of directories and every interleaving of keys and clicks with
\* kernel_main's first composite and copy: the file manager lists the folder of
\* its path, or as much of its beginning as there was memory for names, and its
\* window shows that list; except while a folder could not be listed at all, and
\* then too every row names what a click on it takes.
THEOREM ListShowsFolder == Spec => []ShowsFolder
<1>1. DesktopInv => ShowsFolder
  BY DEF DesktopInv
<1>2. QED
  BY <1>1, DesktopInvariant, PTL

\* The frame buffer never shows two cursors, nor one away from the mouse, and a
\* cursor that was drawn stays until the first copy of the screen.
THEOREM CursorIsOne == Spec => []OneCursor
<1>1. DesktopInv => OneCursor
  BY DEF DesktopInv
<1>2. QED
  BY <1>1, DesktopInvariant, PTL

\* Once the desktop is up, every handler that redraws the window leaves it in
\* the frame buffer, cell by cell.
THEOREM RedrawnWindowShows == Spec => ScreenShowsWindow
<1>1. DesktopInv /\ [Next]_vars => [WindowShown]_vars
  BY DesktopStep
<1>2. QED
  BY <1>1, DesktopInvariant, PTL DEF Spec, ScreenShowsWindow, WindowShown

-----------------------------------------------------------------------------
(* The tree of the virtual file system, for pools, slots, tables and       *)
(* buffers of any size and clients that pass any spellings.                *)

LEMMA Least ==
  ASSUME NEW T \in SUBSET Nat, T # {}
  PROVE  \E m \in T : \A n \in T : m =< n
<1>1. PICK m \in T : \A n \in T : <<n, m>> \notin OpToRel(<, Nat)
  BY NatLessThanWellFounded, WFMin, Zenon
<1>2. ASSUME NEW n \in T PROVE m =< n
  <2>1. <<n, m>> \notin {ss \in Nat \X Nat : ss[1] < ss[2]}
    BY <1>1 DEF OpToRel
  <2>2. n \in Nat /\ m \in Nat
    OBVIOUS
  <2>3. QED
    BY <2>1, <2>2
<1>3. QED
  BY <1>2

LEMMA Greatest ==
  ASSUME NEW T \in SUBSET Nat, T # {}, NEW top \in Nat, \A n \in T : n =< top
  PROVE  Max(T) \in T /\ \A n \in T : n =< Max(T)
<1> DEFINE U == {top - n : n \in T}
<1>1. U \in SUBSET Nat /\ U # {}
  <2>1. \A n \in T : top - n \in Nat
    OBVIOUS
  <2>2. QED
    BY <2>1
<1>2. PICK m \in U : \A n \in U : m =< n
  BY <1>1, Least
<1>3. PICK x \in T : m = top - x
  BY <1>2
<1>4. ASSUME NEW n \in T PROVE n =< x
  <2>1. top - n \in U
    OBVIOUS
  <2>2. top - x =< top - n
    BY <1>2, <1>3, <2>1
  <2>3. QED
    BY <2>2
<1>5. \E y \in T : \A n \in T : y >= n
  <2>1. \A n \in T : x >= n
    BY <1>4
  <2>2. QED
    BY <2>1
<1>6. Max(T) \in T /\ \A n \in T : Max(T) >= n
  BY <1>5 DEF Max
<1>7. QED
  BY <1>6

LEMMA Smallest ==
  ASSUME NEW T \in SUBSET Nat, T # {}
  PROVE  Min(T) \in T /\ \A n \in T : Min(T) =< n
<1>1. \E m \in T : \A n \in T : m =< n
  BY Least
<1>2. QED
  BY <1>1 DEF Min

\* A step for each place, taken one after the other from b.
Trace(f, N, b, s) == f[0] = b /\ \A n \in 1 .. N : f[n] = s[n][f[n - 1]]

LEMMA Traced ==
  ASSUME NEW X, NEW b \in X, NEW N \in Nat, NEW s \in [1 .. N -> [X -> X]]
  PROVE  \E f \in [0 .. N -> X] : Trace(f, N, b, s)
<1> DEFINE T == {q \in Nat : q =< N /\ ~ \E f \in [0 .. q -> X] : Trace(f, q, b, s)}
<1>1. SUFFICES ASSUME T # {} PROVE FALSE
  OBVIOUS
<1>2. PICK m \in T : \A q \in T : m =< q
  BY <1>1, Least
<1>3. m # 0
  <2>1. SUFFICES ASSUME m = 0 PROVE FALSE
    OBVIOUS
  <2>2. [q \in 0 .. 0 |-> b] \in [0 .. 0 -> X]
    OBVIOUS
  <2>3. Trace([q \in 0 .. 0 |-> b], 0, b, s)
    BY DEF Trace
  <2>4. QED
    BY <1>2, <2>1, <2>2, <2>3
<1>4. m \in Nat /\ m - 1 \in Nat /\ m - 1 =< N /\ m =< N /\ ~(m =< m - 1)
  BY <1>2, <1>3
<1>5. PICK f \in [0 .. m - 1 -> X] : Trace(f, m - 1, b, s)
  BY <1>2, <1>4
<1> DEFINE g == [q \in 0 .. m |-> IF q = m THEN s[m][f[m - 1]] ELSE f[q]]
<1>6. g \in [0 .. m -> X]
  <2>1. m \in 1 .. N /\ f[m - 1] \in X
    BY <1>4
  <2>2. s[m][f[m - 1]] \in X
    BY <2>1
  <2>3. ASSUME NEW q \in 0 .. m, q # m PROVE f[q] \in X
    BY <1>4, <2>3
  <2>4. QED
    BY <2>2, <2>3
<1>7. Trace(g, m, b, s)
  <2>1. f[0] = b /\ \A n \in 1 .. m - 1 : f[n] = s[n][f[n - 1]]
    BY <1>5 DEF Trace
  <2>2. g[0] = b
    BY <1>4, <2>1
  <2>3. ASSUME NEW n \in 1 .. m PROVE g[n] = s[n][g[n - 1]]
    <3>1. n - 1 \in 0 .. m /\ n - 1 # m /\ n \in 0 .. m
      BY <1>4
    <3>2. g[n - 1] = f[n - 1]
      BY <3>1
    <3>3. CASE n = m
      BY <3>1, <3>2, <3>3
    <3>4. CASE n # m
      <4>1. n \in 1 .. m - 1
        BY <1>4, <3>4
      <4>2. QED
        BY <2>1, <3>1, <3>2, <3>4, <4>1
    <3>5. QED
      BY <3>3, <3>4
  <2>4. QED
    BY <2>2, <2>3 DEF Trace
<1>8. QED
  BY <1>2, <1>6, <1>7

\* What holds at its start and is kept by its steps holds on the whole trace.
LEMMA TraceStays ==
  ASSUME NEW N \in Nat, NEW f, NEW P, f[0] \in P, \A n \in 1 .. N : f[n - 1] \in P => f[n] \in P
  PROVE  \A n \in 0 .. N : f[n] \in P
<1> DEFINE T == {q \in Nat : q =< N /\ f[q] \notin P}
<1>1. SUFFICES ASSUME T # {} PROVE FALSE
  OBVIOUS
<1>2. PICK m \in T : \A q \in T : m =< q
  BY <1>1, Least
<1>3. m \in 1 .. N /\ m - 1 \in Nat /\ m - 1 =< N /\ ~(m =< m - 1)
  BY <1>2
<1>4. f[m - 1] \in P
  BY <1>2, <1>3
<1>5. QED
  BY <1>2, <1>3, <1>4

LEMMA TraceKeeps ==
  ASSUME NEW N \in Nat, NEW f, NEW P, f[0] \in P[0],
         \A n \in 1 .. N : f[n - 1] \in P[n - 1] => f[n] \in P[n]
  PROVE  \A n \in 0 .. N : f[n] \in P[n]
<1> DEFINE T == {q \in Nat : q =< N /\ f[q] \notin P[q]}
<1>1. SUFFICES ASSUME T # {} PROVE FALSE
  OBVIOUS
<1>2. PICK m \in T : \A q \in T : m =< q
  BY <1>1, Least
<1>3. m \in 1 .. N /\ m - 1 \in Nat /\ m - 1 =< N /\ ~(m =< m - 1)
  BY <1>2
<1>4. f[m - 1] \in P[m - 1]
  BY <1>2, <1>3
<1>5. QED
  BY <1>2, <1>3, <1>4

-----------------------------------------------------------------------------
(* Paths.                                                                  *)

Char == STRING \cup {"/"}
Spelling == Seq(Char)

LEMMA RootIsText == Root \in Spelling /\ Len(Root) = 1 /\ Root[1] = "/"
<1>1. "/" \in Char
  BY DEF Char
<1>2. QED
  BY <1>1 DEF Spelling, Root

\* normalize_abs_path copies a character at a time.
LEMMA CollapseTraced ==
  ASSUME NEW in \in Spelling
  PROVE  \E out : /\ out[0] = IF StartsAtRoot(in) THEN <<>> ELSE Root
                  /\ \A n \in 1 .. Len(in) : out[n] = Collapsed(out[n - 1], in[n])
                  /\ \A n \in 0 .. Len(in) : out[n] \in Spelling
                  /\ Collapse(in) = out[Len(in)]
<1> DEFINE N == Len(in)
           b == IF StartsAtRoot(in) THEN <<>> ELSE Root
           s == [n \in 1 .. N |-> [x \in Spelling |-> Collapsed(x, in[n])]]
           G(f) == [n \in 0 .. N |-> IF n = 0 THEN b ELSE Collapsed(f[n - 1], in[n])]
<1>1. N \in Nat /\ \A n \in 1 .. N : in[n] \in Char
  BY DEF Spelling
<1>2. b \in Spelling
  <2>1. Root \in Spelling /\ <<>> \in Spelling
    BY RootIsText DEF Spelling
  <2>2. QED
    BY <2>1
<1>3. ASSUME NEW n \in 1 .. N, NEW x \in Spelling PROVE Collapsed(x, in[n]) \in Spelling
  BY <1>1, AppendProperties DEF Collapsed, Spelling
<1> HIDE DEF b, N
<1>4. s \in [1 .. N -> [Spelling -> Spelling]]
  BY <1>3
<1>5. PICK f \in [0 .. N -> Spelling] : Trace(f, N, b, s)
  BY <1>1, <1>2, <1>4, Traced
<1>6. f = G(f)
  <2>1. f[0] = b /\ \A n \in 1 .. N : f[n] = s[n][f[n - 1]]
    BY <1>5 DEF Trace
  <2>2. ASSUME NEW n \in 0 .. N PROVE f[n] = IF n = 0 THEN b ELSE Collapsed(f[n - 1], in[n])
    <3>1. CASE n = 0
      BY <2>1, <3>1
    <3>2. CASE n # 0
      <4>1. n \in 1 .. N /\ n - 1 \in 0 .. N
        BY <1>1, <3>2
      <4>2. f[n - 1] \in Spelling
        BY <4>1
      <4>3. QED
        BY <2>1, <3>2, <4>1, <4>2
    <3>3. QED
      BY <3>1, <3>2
  <2>3. QED
    BY <2>2
<1> DEFINE g == CHOOSE g : g = G(g)
<1>7. g = G(g)
  BY <1>6
<1>8. Collapse(in) = g[N]
  BY Zenon DEF Collapse, N, b
<1> HIDE DEF g
<1>9. g[0] = b
  BY <1>1, <1>7
<1>10. ASSUME NEW n \in 1 .. N PROVE g[n] = Collapsed(g[n - 1], in[n])
  <2>1. n \in 0 .. N /\ n # 0
    BY <1>1
  <2>2. QED
    BY <1>7, <2>1
<1>11. \A n \in 0 .. N : g[n] \in Spelling
  <2>1. \A n \in 1 .. N : g[n - 1] \in Spelling => g[n] \in Spelling
    BY <1>3, <1>10
  <2>2. QED
    BY <1>1, <1>2, <1>9, <2>1, TraceStays
<1>12. QED
  BY <1>8, <1>9, <1>10, <1>11 DEF N, b

\* A text that begins at the root and fits its buffer.
Rooted(way) == way \in Spelling /\ Len(way) > 0 /\ way[1] = "/" /\ Len(way) < VFS_MAX_PATH

LEMMA SpellingFacts ==
  ASSUME NEW way \in Spelling
  PROVE  /\ Len(way) \in Nat /\ \A i \in 1 .. Len(way) : way[i] \in Char
         /\ StartsAtRoot(way) <=> Len(way) > 0 /\ way[1] = "/"
         /\ way = <<>> <=> Len(way) = 0
BY DEF Spelling, StartsAtRoot

LEMMA SubSeqIsText ==
  ASSUME NEW way \in Spelling, NEW i \in Nat, NEW j \in Int, i > 0, j =< Len(way)
  PROVE  /\ SubSeq(way, i, j) \in Spelling
         /\ Len(SubSeq(way, i, j)) = IF i =< j THEN j - i + 1 ELSE 0
         /\ \A q \in 1 .. j - i + 1 : SubSeq(way, i, j)[q] = way[i + q - 1]
<1>1. \A q \in i .. j : way[q] \in Char
  BY SpellingFacts
<1>2. QED
  BY <1>1, SubSeqProperties DEF Spelling

LEMMA CollapseRooted ==
  ASSUME NEW in \in Spelling
  PROVE  Rooted(Collapse(in))
<1> DEFINE N == Len(in)
           P == [n \in 0 .. N |-> {x \in Spelling : /\ Len(x) < VFS_MAX_PATH
                                                /\ IF x = <<>> THEN n = 0 /\ StartsAtRoot(in) ELSE x[1] = "/"}]
<1>1. PICK out : /\ out[0] = IF StartsAtRoot(in) THEN <<>> ELSE Root
                 /\ \A n \in 1 .. Len(in) : out[n] = Collapsed(out[n - 1], in[n])
                 /\ \A n \in 0 .. Len(in) : out[n] \in Spelling
                 /\ Collapse(in) = out[Len(in)]
  BY CollapseTraced
<1>2. N \in Nat /\ (StartsAtRoot(in) <=> N > 0 /\ in[1] = "/")
  BY SpellingFacts
<1>3. VFS_MAX_PATH \in Nat /\ VFS_MAX_PATH > 1
  BY PathAssumption
<1>4. out[0] \in P[0]
  <2>1. CASE StartsAtRoot(in)
    <3>1. <<>> \in Spelling /\ Len(<<>>) = 0
      BY DEF Spelling
    <3>2. QED
      BY <1>1, <1>2, <1>3, <2>1, <3>1
  <2>2. CASE ~StartsAtRoot(in)
    <3>1. Root # <<>>
      BY DEF Root
    <3>2. out[0] = Root /\ 0 \in 0 .. N
      BY <1>1, <1>2, <2>2
    <3>3. Root \in {x \in Spelling : /\ Len(x) < VFS_MAX_PATH
                                 /\ IF x = <<>> THEN 0 = 0 /\ StartsAtRoot(in) ELSE x[1] = "/"}
      BY <1>3, <3>1, RootIsText
    <3>4. QED
      BY <3>2, <3>3
  <2>3. QED
    BY <2>1, <2>2
<1>5. ASSUME NEW n \in 1 .. N, out[n - 1] \in P[n - 1] PROVE out[n] \in P[n]
  <2> DEFINE x == out[n - 1]
             c == in[n]
  <2>1. n \in 0 .. N /\ n - 1 \in 0 .. N /\ n \in Nat
    BY <1>2
  <2>2. /\ x \in Spelling /\ Len(x) < VFS_MAX_PATH
        /\ IF x = <<>> THEN n - 1 = 0 /\ StartsAtRoot(in) ELSE x[1] = "/"
    BY <1>5, <2>1
  <2>3. out[n] = Collapsed(x, c) /\ c \in Char
    BY <1>1, SpellingFacts
  <2> HIDE DEF x, c
  <2>4. Len(x) \in Nat /\ (x = <<>> <=> Len(x) = 0)
    BY <2>2, SpellingFacts
  <2>5. CASE Collapsed(x, c) = x /\ x # <<>>
    BY <2>1, <2>2, <2>3, <2>5
  <2>6. CASE Len(x) + 1 < VFS_MAX_PATH /\ Collapsed(x, c) = Append(x, c)
    <3>1. /\ Append(x, c) \in Spelling /\ Len(Append(x, c)) = Len(x) + 1
          /\ \A i \in 1 .. Len(x) : Append(x, c)[i] = x[i]
          /\ Append(x, c)[Len(x) + 1] = c
      BY <2>2, <2>3, AppendProperties DEF Spelling
    <3>2. Append(x, c) # <<>>
      <4>1. Len(Append(x, c)) # 0
        BY <2>4, <3>1
      <4>2. QED
        BY <3>1, <4>1, SpellingFacts
    <3>3. Append(x, c)[1] = "/"
      <4>1. CASE x = <<>>
        <5>1. c = "/"
          BY <1>2, <2>1, <2>2, <4>1 DEF c
        <5>2. QED
          BY <2>4, <3>1, <4>1, <5>1
      <4>2. CASE x # <<>>
        <5>1. 1 \in 1 .. Len(x)
          BY <2>4, <4>2
        <5>2. QED
          BY <2>2, <3>1, <4>2, <5>1
      <4>3. QED
        BY <4>1, <4>2
    <3>4. QED
      BY <2>1, <2>3, <2>4, <2>6, <3>1, <3>2, <3>3
  <2>7. (Collapsed(x, c) = x /\ x # <<>>) \/ (Len(x) + 1 < VFS_MAX_PATH /\ Collapsed(x, c) = Append(x, c))
    BY <1>3, <2>4 DEF Collapsed
  <2>8. QED
    BY <2>5, <2>6, <2>7
<1> HIDE DEF P
<1>6. out[N] \in P[N]
  <2>1. \A n \in 0 .. N : out[n] \in P[n]
    BY <1>2, <1>4, <1>5, TraceKeeps
  <2>2. QED
    BY <1>2, <2>1
<1>7. /\ Collapse(in) \in Spelling /\ Len(Collapse(in)) < VFS_MAX_PATH
      /\ IF Collapse(in) = <<>> THEN N = 0 /\ StartsAtRoot(in) ELSE Collapse(in)[1] = "/"
  BY <1>1, <1>2, <1>6 DEF P
<1>8. Collapse(in) # <<>>
  BY <1>2, <1>7
<1>9. QED
  BY <1>7, <1>8, SpellingFacts DEF Rooted

LEMMA NormalRooted ==
  ASSUME NEW in \in Spelling
  PROVE  Rooted(normalize_abs_path(in))
<1> DEFINE p == Collapse(in)
<1>1. Rooted(p)
  BY CollapseRooted
<1> HIDE DEF p
<1>2. Trim(p) = p \/ (Len(p) > 1 /\ Trim(p) = SubSeq(p, 1, Len(p) - 1))
  BY DEF Trim, Front
<1>3. CASE Trim(p) = p
  BY <1>1, <1>3 DEF normalize_abs_path, p
<1>4. CASE Len(p) > 1 /\ Trim(p) = SubSeq(p, 1, Len(p) - 1)
  <2>1. p \in Spelling /\ Len(p) \in Nat /\ p[1] = "/" /\ Len(p) < VFS_MAX_PATH
    BY <1>1, SpellingFacts DEF Rooted
  <2>2. Len(p) - 1 \in Int /\ Len(p) - 1 =< Len(p) /\ 1 \in 1 .. (Len(p) - 1) - 1 + 1 /\ 1 =< Len(p) - 1
    BY <1>4, <2>1
  <2>3. /\ Trim(p) \in Spelling /\ Len(Trim(p)) = (Len(p) - 1) - 1 + 1
        /\ Trim(p)[1] = p[1 + 1 - 1]
    BY <1>4, <2>1, <2>2, SubSeqIsText
  <2>4. QED
    BY <1>4, <2>1, <2>3, PathAssumption DEF Rooted, normalize_abs_path, p
<1>5. QED
  BY <1>2, <1>3, <1>4

LEMMA RootIsNormal == normalize_abs_path(Root) = Root
<1>1. PICK out : /\ out[0] = IF StartsAtRoot(Root) THEN <<>> ELSE Root
                 /\ \A n \in 1 .. Len(Root) : out[n] = Collapsed(out[n - 1], Root[n])
                 /\ Collapse(Root) = out[Len(Root)]
  BY CollapseTraced, RootIsText
<1>2. StartsAtRoot(Root) /\ Len(Root) = 1 /\ Root[1] = "/"
  BY RootIsText, SpellingFacts
<1>3. out[0] = <<>> /\ out[1] = Collapsed(out[0], "/") /\ Collapse(Root) = out[1]
  BY <1>1, <1>2
<1>4. Collapsed(<<>>, "/") = Root
  <2>1. Len(<<>>) + 1 = 1 /\ ~(1 >= VFS_MAX_PATH)
    BY PathAssumption
  <2>2. Append(<<>>, "/") = <<"/">>
    OBVIOUS
  <2>3. QED
    BY <2>1, <2>2 DEF Collapsed, Root
<1>5. Collapse(Root) = Root
  BY <1>3, <1>4
<1>6. Trim(Root) = Root
  BY <1>2 DEF Trim
<1>7. QED
  BY <1>5, <1>6 DEF normalize_abs_path

LEMMA LastSlashRange ==
  ASSUME NEW way \in Spelling
  PROVE  LastSlash(way) \in 0 .. Len(way)
<1> DEFINE I == {i \in 1 .. Len(way) : way[i] = "/"}
<1>1. LastSlash(way) = IF I # {} THEN Max(I) ELSE 0
  BY DEF LastSlash, SelectLastInSeq
<1>2. I \in SUBSET Nat /\ Len(way) \in Nat /\ \A n \in I : n =< Len(way)
  BY SpellingFacts
<1>3. I # {} => Max(I) \in I
  BY <1>2, Greatest
<1>4. QED
  BY <1>1, <1>2, <1>3

LEMMA ParentIsText ==
  ASSUME NEW way \in Spelling
  PROVE  ParentPath(way) \in Spelling
<1>1. LastSlash(way) - 1 \in Int /\ LastSlash(way) - 1 =< Len(way)
  BY LastSlashRange, SpellingFacts
<1>2. SubSeq(way, 1, LastSlash(way) - 1) \in Spelling
  BY <1>1, SubSeqIsText
<1>3. QED
  BY <1>2, RootIsText DEF ParentPath

LEMMA NameFits ==
  ASSUME NEW way \in Spelling
  PROVE  NewName(way) \in Spelling /\ Len(NewName(way)) < VFS_MAX_NAME
<1> DEFINE d == Drop(way, LastSlash(way))
           m == Min({Len(d), VFS_MAX_NAME - 1})
<1>1. LastSlash(way) \in Nat /\ LastSlash(way) + 1 > 0 /\ Len(way) \in Int
  BY LastSlashRange, SpellingFacts
<1>2. d \in Spelling
  BY <1>1, SubSeqIsText DEF Drop
<1>3. VFS_MAX_NAME - 1 \in Nat /\ VFS_MAX_NAME \in Nat
  BY PathAssumption
<1> HIDE DEF d
<1>4. Len(d) \in Nat
  BY <1>2, SpellingFacts
<1>5. m \in Nat /\ m =< Len(d) /\ m =< VFS_MAX_NAME - 1
  BY <1>3, <1>4, Smallest
<1>6. NewName(way) = SubSeq(d, 1, m)
  BY DEF NewName, Cut, d
<1> HIDE DEF m
<1>7. /\ SubSeq(d, 1, m) \in Spelling
      /\ Len(SubSeq(d, 1, m)) = IF 1 =< m THEN m - 1 + 1 ELSE 0
  BY <1>2, <1>5, SubSeqIsText
<1>8. QED
  BY <1>3, <1>5, <1>6, <1>7

Texts == Seq(Spelling)

\* The components as they are taken, a character at a time.
LEMMA ComponentsTraced ==
  ASSUME NEW rel \in Spelling
  PROVE  \E parts : /\ parts[0] = IF StartsAtRoot(rel) THEN << <<>> >> ELSE <<>>
                    /\ \A n \in 1 .. Len(rel) :
                         parts[n] = Taken(parts[n - 1], n = 1 \/ rel[n - 1] = "/", rel[n])
                    /\ \A n \in 0 .. Len(rel) : parts[n] \in Texts
                    /\ \A n \in 1 .. Len(rel) : parts[n] # <<>>
                    /\ Components(rel) = parts[Len(rel)]
<1> DEFINE N == Len(rel)
           b == IF StartsAtRoot(rel) THEN << <<>> >> ELSE <<>>
           X == Texts
           ended(n) == n = 1 \/ rel[n - 1] = "/"
           step(n, x) == Taken(x, ended(n), rel[n])
           s == [n \in 1 .. N |-> [x \in X |-> IF step(n, x) \in X THEN step(n, x) ELSE <<>>]]
           G(f) == [n \in 0 .. N |-> IF n = 0 THEN b
                                     ELSE Taken(f[n - 1], n = 1 \/ rel[n - 1] = "/", rel[n])]
<1>1. N \in Nat /\ \A n \in 1 .. N : rel[n] \in Char
  BY SpellingFacts
<1>2. b \in X /\ <<>> \in X /\ (b # <<>> \/ ~StartsAtRoot(rel))
  <2>1. <<>> \in Spelling
    BY DEF Spelling
  <2>2. << <<>> >> \in X /\ <<>> \in X /\ << <<>> >> # <<>>
    BY <2>1 DEF Texts
  <2>3. QED
    BY <2>2
<1>3. ASSUME NEW n \in 1 .. N, NEW x \in X, ended(n) \/ rel[n] = "/" \/ x # <<>>
      PROVE  step(n, x) \in X /\ (x # <<>> \/ rel[n] # "/" => step(n, x) # <<>>)
  <2> DEFINE c == rel[n]
  <2>1. c \in Char
    BY <1>1
  <2> HIDE DEF c
  <2>2. CASE c = "/"
    BY <2>2 DEF Taken, c
  <2>3. CASE c # "/" /\ ended(n)
    <3>1. <<c>> \in Spelling
      BY <2>1 DEF Spelling
    <3>2. step(n, x) = Append(x, <<c>>)
      BY <2>3 DEF Taken, c
    <3> HIDE DEF step
    <3>3. step(n, x) \in Texts /\ Len(step(n, x)) = Len(x) + 1 /\ Len(x) \in Nat
      <4>1. x \in Seq(Spelling)
        BY DEF Texts
      <4>2. Append(x, <<c>>) \in Seq(Spelling) /\ Len(Append(x, <<c>>)) = Len(x) + 1 /\ Len(x) \in Nat
        BY <3>1, <4>1, AppendProperties
      <4>3. QED
        BY <3>2, <4>2 DEF Texts
    <3>4. Len(step(n, x)) # 0
      BY <3>3
    <3>5. QED
      BY <3>3, <3>4
  <2>4. CASE c # "/" /\ ~ended(n)
    <3>1. x # <<>> /\ x \in Seq(Spelling)
      BY <1>3, <2>4 DEF c, Texts
    <3>2. Len(x) \in Nat /\ Len(x) > 0
      BY <3>1
    <3>3. Last(x) \in Spelling
      BY <3>1, <3>2 DEF Last
    <3>4. Append(Last(x), c) \in Spelling
      BY <2>1, <3>3, AppendProperties DEF Spelling
    <3>5. Front(x) \in Seq(Spelling)
      <4>1. Len(x) - 1 \in Int /\ \A q \in 1 .. Len(x) - 1 : x[q] \in Spelling
        BY <3>1, <3>2
      <4>2. QED
        BY <4>1, SubSeqProperties DEF Front
    <3>6. step(n, x) = Append(Front(x), Append(Last(x), c))
      BY <2>4 DEF Taken, c
    <3> HIDE DEF step
    <3>7. step(n, x) \in Seq(Spelling) /\ Len(step(n, x)) = Len(Front(x)) + 1 /\ Len(Front(x)) \in Nat
      BY <3>4, <3>5, <3>6, AppendProperties
    <3>8. Len(step(n, x)) # 0
      BY <3>7
    <3>9. QED
      BY <3>7, <3>8 DEF Texts
  <2>5. QED
    BY <2>2, <2>3, <2>4
<1> HIDE DEF b, N, X, step
<1>4. s \in [1 .. N -> [X -> X]]
  BY <1>2
<1>5. PICK f \in [0 .. N -> X] : Trace(f, N, b, s)
  BY <1>1, <1>2, <1>4, Traced
<1>6. f[0] = b /\ \A n \in 1 .. N : f[n] = s[n][f[n - 1]]
  BY <1>5 DEF Trace
<1> DEFINE P == [n \in 0 .. N |-> {x \in X : x # <<>> \/ (n = 0 /\ ~StartsAtRoot(rel))}]
<1>7. ASSUME NEW n \in 1 .. N, NEW x \in P[n - 1]
      PROVE  step(n, x) \in P[n] /\ step(n, x) \in X /\ step(n, x) # <<>>
  <2>1. n \in 0 .. N /\ n - 1 \in 0 .. N /\ n \in Nat
    BY <1>1
  <2>2. x \in X /\ (x # <<>> \/ (n - 1 = 0 /\ ~StartsAtRoot(rel)))
    BY <2>1
  <2>3. x # <<>> \/ (ended(n) /\ rel[n] # "/")
    <3>1. CASE n - 1 = 0 /\ ~StartsAtRoot(rel)
      <4>1. n = 1 /\ N > 0
        BY <1>1, <3>1, <2>1
      <4>2. rel[1] # "/"
        BY <3>1, <4>1, SpellingFacts DEF N
      <4>3. QED
        BY <4>1, <4>2
    <3>2. QED
      BY <2>2, <3>1
  <2>4. step(n, x) \in X /\ (x # <<>> \/ rel[n] # "/" => step(n, x) # <<>>)
    BY <1>3, <2>2, <2>3
  <2>5. QED
    BY <2>1, <2>3, <2>4
<1>8. f = G(f)
  <2>1. f[0] \in P[0]
    BY <1>1, <1>2, <1>6
  <2>2. ASSUME NEW n \in 1 .. N, f[n - 1] \in P[n - 1]
        PROVE  f[n] = step(n, f[n - 1]) /\ f[n] \in P[n]
    <3>1. n - 1 \in 0 .. N
      BY <1>1
    <3>2. step(n, f[n - 1]) \in P[n] /\ step(n, f[n - 1]) \in X
      BY <1>7, <2>2
    <3>3. f[n - 1] \in X
      BY <3>1
    <3>4. f[n] = step(n, f[n - 1])
      BY <1>6, <3>2, <3>3
    <3>5. QED
      BY <3>2, <3>4
  <2> HIDE DEF P
  <2>3. \A n \in 0 .. N : f[n] \in P[n]
    BY <1>1, <2>1, <2>2, TraceKeeps
  <2>4. ASSUME NEW n \in 0 .. N
        PROVE  f[n] = IF n = 0 THEN b ELSE Taken(f[n - 1], n = 1 \/ rel[n - 1] = "/", rel[n])
    <3>1. CASE n = 0
      BY <1>6, <3>1
    <3>2. CASE n # 0
      <4>1. n \in 1 .. N /\ n - 1 \in 0 .. N
        BY <1>1, <3>2
      <4>2. f[n] = step(n, f[n - 1])
        BY <2>2, <2>3, <4>1
      <4>3. QED
        BY <3>2, <4>2 DEF step
    <3>3. QED
      BY <3>1, <3>2
  <2>5. QED
    BY <2>4
<1> DEFINE g == CHOOSE g : g = G(g)
<1>9. g = G(g)
  BY <1>8
<1>10. Components(rel) = g[N]
  BY Zenon DEF Components, N, b
<1> HIDE DEF g
<1>11. g[0] = b
  BY <1>1, <1>9
<1>12. ASSUME NEW n \in 1 .. N
       PROVE  g[n] = Taken(g[n - 1], n = 1 \/ rel[n - 1] = "/", rel[n])
  <2>1. n \in 0 .. N /\ n # 0
    BY <1>1
  <2>2. QED
    BY <1>9, <2>1
<1>13. \A n \in 0 .. N : g[n] \in P[n]
  <2>1. g[0] \in P[0]
    BY <1>1, <1>2, <1>11
  <2>2. ASSUME NEW n \in 1 .. N, g[n - 1] \in P[n - 1] PROVE g[n] \in P[n]
    <3>1. step(n, g[n - 1]) \in P[n]
      BY <1>7, <2>2
    <3>2. QED
      BY <1>12, <3>1 DEF step
  <2> HIDE DEF P
  <2>3. QED
    BY <1>1, <2>1, <2>2, TraceKeeps
<1>14. \A n \in 0 .. N : g[n] \in X
  BY <1>13
<1>15. ASSUME NEW n \in 1 .. N PROVE g[n] # <<>>
  <2>1. n \in 0 .. N /\ n # 0
    BY <1>1
  <2>2. QED
    BY <1>13, <2>1
<1> HIDE DEF P
<1>16. QED
  BY <1>10, <1>11, <1>12, <1>14, <1>15 DEF N, b, X

-----------------------------------------------------------------------------
(* The tree and its mounts.                                                *)

\* Every used node but the root is an entry of the directory that is its parent,
\* and of no other.
Parents ==
  /\ parent[root] = NULL
  /\ \A d \in Dir : entries[d] \subseteq used \ {root}
  /\ \A d \in Dir : \A n \in entries[d] : parent[n] = d
  /\ \A n \in used \ {root} : parent[n] \in Dir \cap used /\ n \in entries[parent[n]]

NamesDiffer == \A d \in Dir : \A m, n \in entries[d] : name[m] = name[n] => m = n

SlotsKept ==
  \A d \in Dir : /\ Cardinality(entries[d] \cap Dir) <= RAMFS_MAX_DIRS
                 /\ Cardinality(entries[d] \cap File) <= RAMFS_MAX_FILES

\* Whatever holds the root and with a directory its entries holds every used node.
NoneLost ==
  \A S \in SUBSET Node :
    root \in S /\ (\A d \in S \cap Dir : entries[d] \subseteq S) => used \subseteq S

\* The mounts: live directories over live directories, and none before the root
\* is mounted.
MountTable ==
  /\ mounts \in Seq([mount_path : Spelling, root : Dir])
  /\ \A i \in DOMAIN mounts : Rooted(mounts[i].mount_path) /\ mounts[i].root \in used
  /\ {mountpoint[n] : n \in used} \ {NULL} = {mounts[i].root : i \in DOMAIN mounts}
  /\ vfs_root = NULL => used = {root} /\ mounts = <<>>

TreeInv == TreeTypes /\ Parents /\ NamesDiffer /\ SlotsKept /\ NoneLost /\ MountTable

LEMMA NodeFacts ==
  /\ IsFiniteSet(Dir) /\ IsFiniteSet(File) /\ IsFiniteSet(Node)
  /\ Node \subseteq Nat /\ NULL \notin Node /\ root \in Dir /\ Dir \cap File = {}
  /\ Dir \subseteq Node /\ File \subseteq Node /\ Node = Dir \cup File
<1>1. RAMFS_MAX_TOTAL_DIRS \in Nat \ {0} /\ RAMFS_MAX_TOTAL_FILES \in Nat
  BY VfsAssumption
<1>2. IsFiniteSet(Dir) /\ IsFiniteSet(File)
  BY <1>1, FS_Interval DEF Dir, File
<1>3. IsFiniteSet(Node)
  BY <1>2, FS_Union DEF Node
<1>4. QED
  BY <1>1, <1>2, <1>3 DEF Node, Dir, File, NULL, root

LEMMA PathsAreTexts == \A p \in Paths \cup MountPaths : p \in Spelling
BY VfsAssumption DEF Spelling, Char

LEMMA NamedIn ==
  ASSUME NEW d, NEW nm
  PROVE  /\ ramfs_finddir(d, nm) = NULL \/ ramfs_finddir(d, nm) \in entries[d]
         /\ ramfs_finddir(d, nm) # NULL => name[ramfs_finddir(d, nm)] = nm
<1>1. CASE Named(d, nm) = {}
  BY <1>1 DEF ramfs_finddir
<1>2. CASE Named(d, nm) # {}
  <2>1. ramfs_finddir(d, nm) \in Named(d, nm)
    BY <1>2 DEF ramfs_finddir
  <2>2. QED
    BY <2>1 DEF Named
<1>3. QED
  BY <1>1, <1>2

LEMMA MountedIsUsed ==
  ASSUME TreeTypes, MountTable, NEW n \in used, mountpoint[n] # NULL
  PROVE  mountpoint[n] \in used
<1>1. mountpoint[n] \in {mounts[i].root : i \in DOMAIN mounts}
  BY DEF MountTable
<1>2. QED
  BY <1>1 DEF MountTable

LEMMA StepStays ==
  ASSUME TreeTypes, Parents, MountTable, NEW node, NEW component
  PROVE  Step(node, component) \in used \cup {NULL}
<1> DEFINE found == ramfs_finddir(node, component)
<1>1. CASE node \notin Dir \/ TooLong(component)
  BY <1>1 DEF Step
<1>2. CASE node \in Dir /\ ~TooLong(component)
  <2>1. found = NULL \/ found \in used
    BY <1>2, NamedIn DEF Parents
  <2> HIDE DEF found
  <2>2. Step(node, component) = IF found # NULL /\ mountpoint[found] # NULL THEN mountpoint[found] ELSE found
    BY <1>2 DEF Step, found
  <2>3. QED
    BY <2>1, <2>2, MountedIsUsed
<1>3. QED
  BY <1>1, <1>2

\* vfs_find walks a component at a time.
LEMMA WalkTraced ==
  ASSUME NEW X, NEW start \in X, NEW comps, Len(comps) \in Nat,
         \A x \in X : \A c : Step(x, c) \in X
  PROVE  \E node : /\ node[0] = start
                   /\ \A n \in 1 .. Len(comps) : node[n] = Step(node[n - 1], comps[n])
                   /\ \A n \in 0 .. Len(comps) : node[n] \in X
                   /\ Walk(start, comps) = node[Len(comps)]
<1> DEFINE N == Len(comps)
           s == [n \in 1 .. N |-> [x \in X |-> Step(x, comps[n])]]
           G(f) == [n \in 0 .. N |-> IF n = 0 THEN start ELSE Step(f[n - 1], comps[n])]
<1>1. N \in Nat
  OBVIOUS
<1> HIDE DEF N
<1>2. s \in [1 .. N -> [X -> X]]
  OBVIOUS
<1>3. PICK f \in [0 .. N -> X] : Trace(f, N, start, s)
  BY <1>1, <1>2, Traced
<1>4. f = G(f)
  <2>1. f[0] = start /\ \A n \in 1 .. N : f[n] = s[n][f[n - 1]]
    BY <1>3 DEF Trace
  <2>2. ASSUME NEW n \in 0 .. N PROVE f[n] = IF n = 0 THEN start ELSE Step(f[n - 1], comps[n])
    <3>1. CASE n = 0
      BY <2>1, <3>1
    <3>2. CASE n # 0
      <4>1. n \in 1 .. N /\ n - 1 \in 0 .. N
        BY <1>1, <3>2
      <4>2. f[n - 1] \in X
        BY <4>1
      <4>3. QED
        BY <2>1, <3>2, <4>1, <4>2
    <3>3. QED
      BY <3>1, <3>2
  <2>3. QED
    BY <2>2
<1> DEFINE g == CHOOSE g : g = G(g)
<1>5. g = G(g)
  BY <1>4
<1>6. Walk(start, comps) = g[N]
  BY Zenon DEF Walk, N
<1> HIDE DEF g
<1>7. g[0] = start
  BY <1>1, <1>5
<1>8. ASSUME NEW n \in 1 .. N PROVE g[n] = Step(g[n - 1], comps[n])
  <2>1. n \in 0 .. N /\ n # 0
    BY <1>1
  <2>2. QED
    BY <1>5, <2>1
<1>9. \A n \in 0 .. N : g[n] \in X
  <2>1. \A n \in 1 .. N : g[n - 1] \in X => g[n] \in X
    BY <1>8
  <2>2. QED
    BY <1>1, <1>7, <2>1, TraceStays
<1>10. QED
  BY <1>6, <1>7, <1>8, <1>9 DEF N

\* The mount a way is looked up in.
LEMMA BestMountFacts ==
  ASSUME MountTable, NEW way
  PROVE  /\ BestMount(way) \in 0 .. Len(mounts)
         /\ BestMount(way) # 0 => is_mount_prefix_match(way, mounts[BestMount(way)].mount_path)
         /\ \A i \in DOMAIN mounts : is_mount_prefix_match(way, mounts[i].mount_path) =>
              /\ BestMount(way) # 0
              /\ Len(mounts[i].mount_path) =< Len(mounts[BestMount(way)].mount_path)
              /\ Len(mounts[i].mount_path) = Len(mounts[BestMount(way)].mount_path) => BestMount(way) =< i
<1> DEFINE L(i) == Len(mounts[i].mount_path)
           matching == {i \in DOMAIN mounts : is_mount_prefix_match(way, mounts[i].mount_path)}
           Ls == {L(j) : j \in matching}
           longest == {i \in matching : L(i) = Max(Ls)}
<1>1. /\ Len(mounts) \in Nat /\ DOMAIN mounts = 1 .. Len(mounts)
      /\ \A i \in DOMAIN mounts : L(i) \in Nat /\ L(i) < VFS_MAX_PATH
  BY SpellingFacts DEF MountTable, Rooted
<1>2. BestMount(way) = IF matching = {} THEN 0 ELSE Min(longest)
  BY DEF BestMount
<1>3. CASE matching = {}
  BY <1>1, <1>2, <1>3
<1>4. CASE matching # {}
  <2>1. Ls \in SUBSET Nat /\ Ls # {} /\ VFS_MAX_PATH \in Nat /\ \A n \in Ls : n =< VFS_MAX_PATH
    <3>1. VFS_MAX_PATH \in Nat
      BY PathAssumption
    <3>2. \A j \in matching : L(j) \in Nat /\ L(j) =< VFS_MAX_PATH
      BY <1>1, <3>1
    <3>3. \A n \in Ls : n \in Nat /\ n =< VFS_MAX_PATH
      BY <3>2
    <3>4. PICK j \in matching : TRUE
      BY <1>4
    <3>5. L(j) \in Ls
      OBVIOUS
    <3>6. QED
      BY <3>1, <3>3, <3>5
  <2>2. Max(Ls) \in Ls /\ \A n \in Ls : n =< Max(Ls)
    BY <2>1, Greatest
  <2>3. PICK j \in matching : L(j) = Max(Ls)
    BY <2>2
  <2>4. longest \in SUBSET Nat /\ longest # {}
    <3>1. j \in longest
      BY <2>3
    <3>2. \A i \in longest : i \in Nat
      BY <1>1
    <3>3. QED
      BY <3>1, <3>2
  <2>5. Min(longest) \in longest /\ \A i \in longest : Min(longest) =< i
    BY <2>4, Smallest
  <2>6. BestMount(way) \in longest /\ \A i \in longest : BestMount(way) =< i
    BY <1>2, <1>4, <2>5
  <2>7. QED
    BY <1>1, <2>2, <2>6
<1>5. QED
  BY <1>3, <1>4

LEMMA AbsoluteIsText ==
  ASSUME NEW way \in Spelling
  PROVE  Absolute(way) \in Spelling /\ Len(Absolute(way)) > 0 /\ Absolute(way)[1] = "/"
<1>1. CASE StartsAtRoot(way)
  BY <1>1, SpellingFacts DEF Absolute
<1>2. CASE ~StartsAtRoot(way)
  <2> DEFINE p == Root \o way
             m == Min({Len(p), VFS_MAX_PATH - 1})
  <2>1. p \in Spelling /\ Len(p) = 1 + Len(way) /\ Len(way) \in Nat /\ p[1] = "/"
    <3>1. Root \in Seq(Char) /\ way \in Seq(Char) /\ Len(Root) = 1 /\ Root[1] = "/"
      BY RootIsText DEF Spelling
    <3>2. /\ p \in Seq(Char) /\ Len(p) = Len(Root) + Len(way)
          /\ \A i \in 1 .. Len(Root) + Len(way) : p[i] = IF i <= Len(Root) THEN Root[i] ELSE way[i - Len(Root)]
      BY <3>1, ConcatProperties
    <3>3. Len(way) \in Nat /\ 1 \in 1 .. Len(Root) + Len(way)
      BY <3>1
    <3>4. QED
      BY <3>1, <3>2, <3>3 DEF Spelling
  <2> HIDE DEF p
  <2>2. VFS_MAX_PATH - 1 \in Nat /\ VFS_MAX_PATH - 1 > 0 /\ Len(p) \in Nat
    BY <2>1, PathAssumption
  <2>3. m \in {Len(p), VFS_MAX_PATH - 1} /\ m =< Len(p)
    BY <2>2, Smallest
  <2>4. Absolute(way) = SubSeq(p, 1, m)
    BY <1>2 DEF Absolute, Cut, p
  <2> HIDE DEF m
  <2>5. m \in Int /\ m > 0 /\ 1 \in 1 .. m - 1 + 1 /\ 1 + 1 - 1 = 1
    BY <2>1, <2>2, <2>3
  <2>6. SubSeq(p, 1, m) \in Spelling /\ Len(SubSeq(p, 1, m)) = m - 1 + 1 /\ SubSeq(p, 1, m)[1] = p[1]
    BY <2>1, <2>3, <2>5, SubSeqIsText
  <2>7. QED
    BY <2>1, <2>4, <2>5, <2>6
<1>3. QED
  BY <1>1, <1>2

LEMMA RelIsText ==
  ASSUME NEW way \in Spelling, NEW len \in Nat
  PROVE  RelPath(way, len) \in Spelling
<1> DEFINE rest == Drop(way, len)
<1>1. rest \in Spelling
  <2>1. len + 1 \in Nat /\ len + 1 > 0 /\ Len(way) \in Int /\ Len(way) =< Len(way)
    BY SpellingFacts
  <2>2. QED
    BY <2>1, SubSeqIsText DEF Drop
<1> HIDE DEF rest
<1>2. StartsAtRoot(rest) => Tail(rest) \in Spelling
  BY <1>1, HeadTailProperties DEF Spelling, StartsAtRoot
<1>3. QED
  BY <1>1, <1>2 DEF RelPath, rest

\* What vfs_find returns is in use, or NULL.
LEMMA FindsUsed ==
  ASSUME TreeTypes, Parents, MountTable, NEW path_in \in Spelling
  PROVE  vfs_find(path_in) \in used \cup {NULL}
<1> DEFINE way == Absolute(path_in)
           i == BestMount(way)
           start == IF i = 0 THEN vfs_root ELSE mounts[i].root
           rel == RelPath(way, IF i = 0 THEN 1 ELSE Len(mounts[i].mount_path))
<1>1. CASE vfs_root = NULL
  BY <1>1 DEF vfs_find
<1>2. CASE vfs_root # NULL
  <2>1. way \in Spelling
    BY AbsoluteIsText
  <2> HIDE DEF way
  <2>2. i \in 0 .. Len(mounts) /\ DOMAIN mounts = 1 .. Len(mounts) /\ Len(mounts) \in Nat
    <3>1. i \in 0 .. Len(mounts)
      BY BestMountFacts
    <3>2. mounts \in Seq([mount_path : Spelling, root : Dir])
      BY DEF MountTable
    <3>3. QED
      BY <3>1, <3>2
  <2> HIDE DEF i
  <2>3. i # 0 => i \in DOMAIN mounts
    BY <2>2
  <2>4. start \in used
    <3>1. CASE i = 0
      BY <1>2, <3>1 DEF TreeTypes
    <3>2. CASE i # 0
      BY <2>3, <3>2 DEF MountTable
    <3>3. QED
      BY <3>1, <3>2
  <2>5. rel \in Spelling
    <3>1. (IF i = 0 THEN 1 ELSE Len(mounts[i].mount_path)) \in Nat
      <4>1. i # 0 => Len(mounts[i].mount_path) \in Nat
        BY <2>3, SpellingFacts DEF MountTable, Rooted
      <4>2. QED
        BY <4>1
    <3>2. QED
      BY <2>1, <3>1, RelIsText
  <2>6. vfs_find(path_in) = Walk(start, Components(rel))
    BY <1>2 DEF vfs_find, way, i
  <2> HIDE DEF start, rel
  <2>7. Len(Components(rel)) \in Nat
    <3>1. Components(rel) \in Texts
      <4>1. Len(rel) \in 0 .. Len(rel)
        BY <2>5, SpellingFacts
      <4>2. QED
        BY <2>5, <4>1, ComponentsTraced
    <3>2. QED
      BY <3>1 DEF Texts
  <2> DEFINE X == used \cup {NULL}
             comps == Components(rel)
  <2>8. start \in X /\ \A x \in X : \A c : Step(x, c) \in X
    BY <2>4, StepStays
  <2> HIDE DEF X, comps
  <2>9. Walk(start, comps) \in X
    <3>1. PICK node : /\ \A n \in 0 .. Len(comps) : node[n] \in X
                      /\ Walk(start, comps) = node[Len(comps)]
      BY <2>7, <2>8, WalkTraced DEF comps
    <3>2. Len(comps) \in 0 .. Len(comps)
      BY <2>7 DEF comps
    <3>3. QED
      BY <3>1, <3>2
  <2>10. QED
    BY <2>6, <2>9 DEF X, comps
<1>3. QED
  BY <1>1, <1>2

LEMMA NothingLeft ==
  /\ Components(<<>>) = <<>>
  /\ \A start : Walk(start, <<>>) = start
<1>1. Components(<<>>) = <<>>
  <2>1. <<>> \in Spelling /\ Len(<<>>) = 0 /\ ~StartsAtRoot(<<>>)
    BY DEF Spelling, StartsAtRoot
  <2>2. QED
    BY <2>1, ComponentsTraced
<1>2. ASSUME NEW start PROVE Walk(start, <<>>) = start
  <2> DEFINE G(f) == [n \in 0 .. Len(<<>>) |-> IF n = 0 THEN start ELSE Step(f[n - 1], <<>>[n])]
             g == CHOOSE g : g = G(g)
  <2>1. [n \in 0 .. Len(<<>>) |-> start] = G([n \in 0 .. Len(<<>>) |-> start])
    OBVIOUS
  <2>2. g = G(g)
    BY <2>1
  <2>3. Walk(start, <<>>) = g[Len(<<>>)]
    BY Zenon DEF Walk
  <2> HIDE DEF g
  <2>4. g[0] = start
    BY <2>2
  <2>5. QED
    BY <2>3, <2>4
<1>3. QED
  BY <1>1, <1>2

LEMMA MatchesItself ==
  ASSUME NEW way \in Spelling, way # <<>>
  PROVE  is_mount_prefix_match(way, way)
BY SpellingFacts DEF is_mount_prefix_match, IsPrefix

LEMMA LongestIsIt ==
  ASSUME NEW way \in Spelling, NEW m \in Spelling, is_mount_prefix_match(way, m), Len(way) =< Len(m)
  PROVE  m = way
<1>1. IsPrefix(m, way)
  BY DEF is_mount_prefix_match
<1>2. Len(m) =< Len(way) /\ \A q \in 1 .. Len(m) : m[q] = way[q]
  BY <1>1, SpellingFacts DEF IsPrefix
<1>3. Len(m) = Len(way)
  BY <1>2, SpellingFacts
<1>4. QED
  BY <1>2, <1>3 DEF Spelling

\* The first mount at a way is found there.
LEMMA MountsFound ==
  ASSUME TreeTypes, MountTable, NEW i \in DOMAIN mounts, ~MountedBefore(i)
  PROVE  vfs_find(mounts[i].mount_path) = mounts[i].root
<1> DEFINE way == mounts[i].mount_path
           b == BestMount(way)
<1>1. way \in Spelling /\ Len(way) > 0 /\ way[1] = "/"
  BY DEF MountTable, Rooted
<1>2. Absolute(way) = way /\ way # <<>> /\ Len(way) \in Nat
  BY <1>1, SpellingFacts DEF Absolute
<1>3. b \in DOMAIN mounts /\ mounts[b].mount_path = way /\ b =< i
  <2>1. is_mount_prefix_match(way, mounts[i].mount_path)
    BY <1>1, <1>2, MatchesItself
  <2>2. b # 0 /\ Len(way) =< Len(mounts[b].mount_path) /\ b \in 0 .. Len(mounts)
        /\ is_mount_prefix_match(way, mounts[b].mount_path)
    BY <2>1, BestMountFacts
  <2> HIDE DEF b
  <2>3. b \in DOMAIN mounts
    BY <2>2 DEF MountTable
  <2>4. mounts[b].mount_path \in Spelling
    BY <2>3 DEF MountTable, Rooted
  <2>5. mounts[b].mount_path = way
    BY <1>1, <2>2, <2>4, LongestIsIt
  <2>6. b =< i
    BY <2>1, <2>5, BestMountFacts DEF b
  <2>7. QED
    BY <2>3, <2>5, <2>6
<1>4. b = i
  <2>1. DOMAIN mounts = 1 .. Len(mounts) /\ Len(mounts) \in Nat
    BY DEF MountTable
  <2>2. b \in 1 .. i - 1 \/ b = i
    BY <1>3, <2>1
  <2>3. b \notin 1 .. i - 1
    BY <1>3 DEF MountedBefore
  <2>4. QED
    BY <2>2, <2>3
<1>5. i # 0
  BY DEF MountTable
<1>6. RelPath(way, Len(way)) = <<>>
  <2>1. Drop(way, Len(way)) = <<>>
    <3>1. Len(way) + 1 \in Int /\ Len(way) < Len(way) + 1
      BY <1>2
    <3>2. QED
      BY <1>2, <3>1, SubSeqEmpty DEF Drop
  <2>2. ~StartsAtRoot(<<>>)
    BY DEF StartsAtRoot
  <2>3. QED
    BY <2>1, <2>2 DEF RelPath
<1>7. vfs_root # NULL
  <2>1. mounts # <<>>
    BY DEF MountTable
  <2>2. QED
    BY <2>1 DEF MountTable
<1> HIDE DEF b
<1>8. vfs_find(way) = Walk(mounts[i].root, Components(RelPath(way, Len(way))))
  BY <1>2, <1>4, <1>5, <1>7 DEF vfs_find, b
<1>9. QED
  BY <1>6, <1>8, NothingLeft

LEMMA ReachedIsUsed ==
  ASSUME TreeTypes, Parents, NoneLost
  PROVE  Reached = used
<1> DEFINE K == Cardinality(Dir)
           G(f) == [n \in 0 .. K |-> IF n = 0 THEN {root} ELSE Below(f[n - 1])]
           P == [n \in 0 .. K |->
                   {W \in SUBSET used : root \in W /\ (Below(W) = W \/ Cardinality(W \cap Dir) > n)}]
           X == SUBSET used
           s == [n \in 1 .. K |-> [W \in X |-> Below(W)]]
<1>1. IsFiniteSet(Dir) /\ K \in Nat
  BY NodeFacts, FS_CardinalityType
<1>2. /\ root \in used /\ root \in Dir
      /\ \A d \in Dir : entries[d] \subseteq used
  BY NodeFacts DEF TreeTypes, Parents
<1>3. ASSUME NEW W \in X PROVE Below(W) \in X /\ W \subseteq Below(W)
  BY <1>2 DEF Below
<1>4. ASSUME NEW n \in 1 .. K, NEW W \in P[n - 1] PROVE Below(W) \in P[n]
  <2>1. n \in 0 .. K /\ n - 1 \in 0 .. K /\ n \in Nat
    BY <1>1
  <2>2. /\ W \in SUBSET used /\ root \in W
        /\ Below(W) = W \/ Cardinality(W \cap Dir) > n - 1
    BY <2>1
  <2>3. Below(W) \in SUBSET used /\ W \subseteq Below(W) /\ root \in Below(W)
    BY <1>3, <2>2
  <2>4. CASE Below(W) = W
    BY <2>1, <2>2, <2>4
  <2>5. CASE Cardinality(W \cap Dir) > n - 1
    <3>1. CASE Below(W) \cap Dir = W \cap Dir
      <4>1. Below(Below(W)) = Below(W)
        BY <3>1 DEF Below
      <4>2. QED
        BY <2>1, <2>3, <4>1
    <3>2. CASE Below(W) \cap Dir # W \cap Dir
      <4>1. W \cap Dir \in SUBSET (Below(W) \cap Dir) /\ Below(W) \cap Dir \in SUBSET Dir
        BY <2>3
      <4>2. IsFiniteSet(Below(W) \cap Dir)
        BY <1>1, <4>1, FS_Subset
      <4>3. /\ IsFiniteSet(W \cap Dir)
            /\ Cardinality(W \cap Dir) <= Cardinality(Below(W) \cap Dir)
            /\ Cardinality(W \cap Dir) # Cardinality(Below(W) \cap Dir)
        BY <3>2, <4>1, <4>2, FS_Subset
      <4>4. Cardinality(W \cap Dir) \in Nat /\ Cardinality(Below(W) \cap Dir) \in Nat
        BY <4>2, <4>3, FS_CardinalityType
      <4>5. Cardinality(Below(W) \cap Dir) > n
        BY <2>1, <2>5, <4>3, <4>4
      <4>6. QED
        BY <2>1, <2>3, <4>5
    <3>3. QED
      BY <3>1, <3>2
  <2>6. QED
    BY <2>2, <2>4, <2>5
<1>5. {root} \in P[0]
  <2>1. {root} \cap Dir = {root} /\ Cardinality({root}) = 1
    BY <1>2, FS_Singleton
  <2>2. {root} \in SUBSET used /\ 0 \in 0 .. K
    BY <1>1, <1>2
  <2>3. QED
    BY <2>1, <2>2
<1> HIDE DEF K, P
<1>6. s \in [1 .. K -> [X -> X]] /\ {root} \in X
  BY <1>2, <1>3
<1>7. PICK f \in [0 .. K -> X] : Trace(f, K, {root}, s)
  BY <1>1, <1>6, Traced
<1>8. f = G(f)
  <2>1. f[0] = {root} /\ \A n \in 1 .. K : f[n] = s[n][f[n - 1]]
    BY <1>7 DEF Trace
  <2>2. ASSUME NEW n \in 0 .. K PROVE f[n] = IF n = 0 THEN {root} ELSE Below(f[n - 1])
    <3>1. CASE n = 0
      BY <2>1, <3>1
    <3>2. CASE n # 0
      <4>1. n \in 1 .. K /\ n - 1 \in 0 .. K
        BY <1>1, <3>2
      <4>2. f[n - 1] \in X
        BY <4>1
      <4>3. QED
        BY <2>1, <3>2, <4>1, <4>2
    <3>3. QED
      BY <3>1, <3>2
  <2>3. QED
    BY <2>2
<1> DEFINE g == CHOOSE g : g = G(g)
<1>9. g = G(g)
  BY <1>8
<1>10. Reached = g[K]
  BY Zenon DEF Reached, K
<1> HIDE DEF g
<1>11. g[0] = {root} /\ \A n \in 1 .. K : g[n] = Below(g[n - 1])
  <2>1. g[0] = {root}
    BY <1>1, <1>9
  <2>2. ASSUME NEW n \in 1 .. K PROVE g[n] = Below(g[n - 1])
    <3>1. n \in 0 .. K /\ n # 0
      BY <1>1
    <3>2. QED
      BY <1>9, <3>1
  <2>3. QED
    BY <2>1, <2>2
<1>12. g[K] \in P[K]
  <2>1. \A n \in 1 .. K : g[n - 1] \in P[n - 1] => g[n] \in P[n]
    BY <1>4, <1>11
  <2>2. \A n \in 0 .. K : g[n] \in P[n]
    BY <1>1, <1>5, <1>11, <2>1, TraceKeeps
  <2>3. QED
    BY <1>1, <2>2
<1> DEFINE W == g[K]
<1>13. /\ W \in SUBSET used /\ root \in W
       /\ Below(W) = W \/ Cardinality(W \cap Dir) > K
  <2>1. K \in 0 .. K /\ W \in P[K]
    BY <1>1, <1>12
  <2> HIDE DEF W
  <2>2. QED
    BY <2>1 DEF P
<1> HIDE DEF W
<1>14. Below(W) = W
  <2>1. W \cap Dir \in SUBSET Dir
    OBVIOUS
  <2>2. IsFiniteSet(W \cap Dir) /\ Cardinality(W \cap Dir) <= K
    BY <1>1, <2>1, FS_Subset DEF K
  <2>3. Cardinality(W \cap Dir) \in Nat
    BY <2>2, FS_CardinalityType
  <2>4. QED
    BY <1>1, <1>13, <2>2, <2>3
<1>15. used \subseteq W
  <2>1. W \in SUBSET Node
    BY <1>13 DEF TreeTypes
  <2>2. \A d \in W \cap Dir : entries[d] \subseteq W
    BY <1>14 DEF Below
  <2>3. QED
    BY <1>13, <2>1, <2>2 DEF NoneLost
<1>16. QED
  BY <1>10, <1>13, <1>15 DEF W

LEMMA TreeInvSound == TreeInv => TreeSound
<1>1. SUFFICES ASSUME TreeInv PROVE TreeSound
  OBVIOUS
<1>2. TreeTypes /\ Parents /\ NamesDiffer /\ SlotsKept /\ NoneLost /\ MountTable
  BY <1>1 DEF TreeInv
<1>3. Reached = used
  BY <1>2, ReachedIsUsed
<1>4. MountsSound
  <2>1. \A i \in DOMAIN mounts : ~MountedBefore(i) => vfs_find(mounts[i].mount_path) = mounts[i].root
    BY <1>2, MountsFound
  <2>2. MountRoots \ {NULL} \subseteq used
    <3>1. vfs_root \in {NULL, root} /\ root \in used
      BY <1>2 DEF TreeTypes
    <3>2. \A i \in DOMAIN mounts : mounts[i].root \in used
      BY <1>2 DEF MountTable
    <3>3. QED
      BY <3>1, <3>2 DEF MountRoots
  <2>3. {mountpoint[n] : n \in used} \ {NULL} = {mounts[i].root : i \in DOMAIN mounts}
    BY <1>2 DEF MountTable
  <2>4. QED
    BY <2>1, <2>2, <2>3 DEF MountsSound
<1>5. \A d \in used \cap Dir : \A n \in entries[d] :
        /\ n # root /\ parent[n] = d
        /\ \A m \in entries[d] : name[m] = name[n] => m = n
  BY <1>2 DEF Parents, NamesDiffer
<1>6. \A d \in used \cap Dir :
        /\ Cardinality(entries[d] \cap Dir) <= RAMFS_MAX_DIRS
        /\ Cardinality(entries[d] \cap File) <= RAMFS_MAX_FILES
  BY <1>2 DEF SlotsKept
<1>7. QED
  BY <1>2, <1>3, <1>4, <1>5, <1>6 DEF TreeSound

-----------------------------------------------------------------------------
(* The calls.                                                              *)

LEMMA Room ==
  ASSUME NEW n \in Nat, NEW max \in Nat, n < max
  PROVE  n + 1 <= max
OBVIOUS

LEMMA TreeInvInit == TreeInit => TreeInv
<1>1. SUFFICES ASSUME TreeInit PROVE TreeInv
  OBVIOUS
<1>2. /\ used = {root} /\ name = [n \in Node |-> <<>>] /\ parent = [n \in Node |-> NULL]
      /\ entries = [d \in Dir |-> {}] /\ mountpoint = [n \in Node |-> NULL]
      /\ vfs_root = NULL /\ mounts = <<>>
  BY <1>1 DEF TreeInit
<1>3. root \in Dir /\ Dir \subseteq Node /\ root \in Node
  BY NodeFacts
<1>4. TreeTypes
  <2>1. VFS_MAX_NAME \in Nat /\ VFS_MAX_NAME > 1 /\ VFS_MAX_MOUNTS \in Nat
    BY PathAssumption, VfsAssumption
  <2>2. \A n \in Node : Len(name[n]) < VFS_MAX_NAME
    BY <1>2, <2>1
  <2>3. Len(mounts) <= VFS_MAX_MOUNTS /\ DOMAIN mounts = {}
    BY <1>2, <2>1
  <2>4. QED
    BY <1>2, <1>3, <2>2, <2>3 DEF TreeTypes
<1>5. Parents /\ NamesDiffer /\ NoneLost
  BY <1>2, <1>3 DEF Parents, NamesDiffer, NoneLost
<1>6. SlotsKept
  <2>1. \A d \in Dir : entries[d] \cap Dir = {} /\ entries[d] \cap File = {}
    BY <1>2
  <2>2. Cardinality({}) = 0 /\ RAMFS_MAX_DIRS \in Nat /\ RAMFS_MAX_FILES \in Nat
    BY FS_EmptySet, VfsAssumption
  <2>3. QED
    BY <2>1, <2>2 DEF SlotsKept
<1>7. MountTable
  <2>1. mounts \in Seq([mount_path : Spelling, root : Dir]) /\ DOMAIN mounts = {}
    BY <1>2
  <2>2. {mountpoint[n] : n \in used} = {NULL}
    BY <1>2, <1>3
  <2>3. QED
    BY <1>2, <2>1, <2>2 DEF MountTable
<1>8. QED
  BY <1>4, <1>5, <1>6, <1>7 DEF TreeInv

\* A step that changes no more than the record of the last call.
LEMMA TreeQuiet ==
  ASSUME TreeInv, UNCHANGED <<tree, mountpoint, vfs_root, mounts>>
  PROVE  TreeInv'
<1>1. /\ used' = used /\ name' = name /\ parent' = parent /\ entries' = entries
      /\ mountpoint' = mountpoint /\ vfs_root' = vfs_root /\ mounts' = mounts
  BY DEF tree
<1>2. TreeTypes'
  BY <1>1 DEF TreeInv, TreeTypes
<1>3. Parents' /\ NamesDiffer' /\ SlotsKept' /\ NoneLost'
  <2>1. Parents'
    BY <1>1 DEF TreeInv, Parents
  <2>2. NamesDiffer'
    BY <1>1 DEF TreeInv, NamesDiffer
  <2>3. SlotsKept'
    BY <1>1 DEF TreeInv, SlotsKept
  <2>4. NoneLost'
    BY <1>1 DEF TreeInv, NoneLost
  <2>5. QED
    BY <2>1, <2>2, <2>3, <2>4
<1>4. MountTable'
  <2>1. /\ mounts' \in Seq([mount_path : Spelling, root : Dir])
        /\ vfs_root' = NULL => used' = {root} /\ mounts' = <<>>
    BY <1>1 DEF TreeInv, MountTable
  <2>2. \A i \in DOMAIN mounts' : Rooted(mounts'[i].mount_path) /\ mounts'[i].root \in used'
    BY <1>1 DEF TreeInv, MountTable
  <2>3. {mountpoint'[n] : n \in used'} \ {NULL} = {mounts'[i].root : i \in DOMAIN mounts'}
    <3>1. {mountpoint[n] : n \in used} \ {NULL} = {mounts[i].root : i \in DOMAIN mounts}
      BY DEF TreeInv, MountTable
    <3>2. QED
      BY <1>1, <3>1
  <2>4. QED
    BY <2>1, <2>2, <2>3 DEF MountTable
<1>5. QED
  BY <1>2, <1>3, <1>4 DEF TreeInv

LEMMA NullOrDir == NULL \notin Dir
BY NodeFacts

LEMMA MountPreserves ==
  ASSUME TreeInv, NEW path_in \in Spelling, NEW node \in used \cap Dir, vfs_mount(path_in, node)
  PROVE  TreeInv'
<1> DEFINE way == normalize_abs_path(path_in)
           dir == vfs_find(way)
           error == MountError(way, dir)
<1>1. TreeTypes /\ Parents /\ NamesDiffer /\ SlotsKept /\ NoneLost /\ MountTable
  BY DEF TreeInv
<1>2. Rooted(way) /\ way \in Spelling
  BY NormalRooted DEF Rooted
<1>3. dir \in used \cup {NULL}
  BY <1>1, <1>2, FindsUsed
<1>4. /\ vfs_root' = IF error = 0 /\ way = Root THEN node ELSE vfs_root
      /\ IF error = 0 /\ way # Root
         THEN /\ mountpoint' = [mountpoint EXCEPT ![dir] = node]
              /\ mounts' = Append(mounts, [mount_path |-> way, root |-> node])
         ELSE UNCHANGED <<mountpoint, mounts>>
      /\ used' = used /\ name' = name /\ parent' = parent /\ entries' = entries
  BY DEF vfs_mount, tree
<1>6. error = 0 => /\ Len(mounts) < VFS_MAX_MOUNTS
                   /\ way = Root => vfs_root = NULL
                   /\ way # Root => vfs_root # NULL /\ dir \in Dir /\ mountpoint[dir] = NULL
  <2>1. Len(mounts) \in Nat /\ VFS_MAX_MOUNTS \in Nat
    BY <1>1, VfsAssumption DEF MountTable
  <2> HIDE DEF way, dir
  <2>2. QED
    BY <2>1 DEF MountError, NULL
<1> HIDE DEF way, dir, error
<1>7. Parents' /\ NamesDiffer' /\ SlotsKept' /\ NoneLost'
  <2>1. Parents'
    BY <1>1, <1>4 DEF Parents
  <2>2. NamesDiffer'
    BY <1>1, <1>4 DEF NamesDiffer
  <2>3. SlotsKept'
    BY <1>1, <1>4 DEF SlotsKept
  <2>4. NoneLost'
    BY <1>1, <1>4 DEF NoneLost
  <2>5. QED
    BY <2>1, <2>2, <2>3, <2>4
<1>8. CASE error # 0
  <2>1. UNCHANGED <<tree, mountpoint, vfs_root, mounts>>
    BY <1>4, <1>8 DEF tree
  <2>2. QED
    BY <2>1, TreeQuiet
<1>9. CASE error = 0 /\ way = Root
  <2>1. /\ vfs_root = NULL /\ vfs_root' = node /\ mountpoint' = mountpoint /\ mounts' = mounts
        /\ used = {root} /\ node = root /\ mounts = <<>>
    BY <1>1, <1>4, <1>6, <1>9 DEF MountTable
  <2>2. TreeTypes'
    BY <1>1, <1>4, <2>1 DEF TreeTypes
  <2>3. MountTable'
    <3>1. node # NULL
      BY NullOrDir
    <3>2. /\ mounts' \in Seq([mount_path : Spelling, root : Dir])
          /\ vfs_root' = NULL => used' = {root} /\ mounts' = <<>>
      BY <1>1, <2>1, <3>1 DEF MountTable
    <3>3. \A i \in DOMAIN mounts' : Rooted(mounts'[i].mount_path) /\ mounts'[i].root \in used'
      BY <1>1, <1>4, <2>1 DEF MountTable
    <3>4. {mountpoint'[n] : n \in used'} \ {NULL} = {mounts'[i].root : i \in DOMAIN mounts'}
      BY <1>1, <1>4, <2>1 DEF MountTable
    <3>5. QED
      BY <3>2, <3>3, <3>4 DEF MountTable
  <2>4. QED
    BY <1>7, <2>2, <2>3 DEF TreeInv
<1>10. CASE error = 0 /\ way # Root
  <2> DEFINE new == [mount_path |-> way, root |-> node]
             N == Len(mounts)
  <2>1. /\ vfs_root' = vfs_root /\ vfs_root # NULL /\ dir \in Dir \cap used /\ mountpoint[dir] = NULL
        /\ mountpoint' = [mountpoint EXCEPT ![dir] = node]
        /\ mounts' = Append(mounts, new) /\ N < VFS_MAX_MOUNTS
    BY <1>3, <1>4, <1>6, <1>10, NullOrDir
  <2>2. /\ mounts \in Seq([mount_path : Spelling, root : Dir]) /\ N \in Nat
        /\ DOMAIN mounts = 1 .. N
    BY <1>1 DEF MountTable
  <2>3. new \in [mount_path : Spelling, root : Dir] /\ new.mount_path = way /\ new.root = node
    BY <1>2
  <2> HIDE DEF new
  <2>4. /\ mounts' \in Seq([mount_path : Spelling, root : Dir]) /\ Len(mounts') = N + 1
        /\ DOMAIN mounts' = 1 .. N + 1
        /\ \A i \in 1 .. N : mounts'[i] = mounts[i]
        /\ mounts'[N + 1] = new
    <3>1. /\ Append(mounts, new) \in Seq([mount_path : Spelling, root : Dir])
          /\ Len(Append(mounts, new)) = N + 1
          /\ \A i \in 1 .. N : Append(mounts, new)[i] = mounts[i]
          /\ Append(mounts, new)[N + 1] = new
      BY <2>2, <2>3, AppendProperties
    <3>2. QED
      BY <2>1, <3>1
  <2> HIDE DEF N
  <2>5. \A i \in DOMAIN mounts' : (i \in DOMAIN mounts /\ mounts'[i] = mounts[i]) \/ (i = N + 1 /\ mounts'[i] = new)
    BY <2>2, <2>4
  <2>6. N + 1 \notin DOMAIN mounts /\ N + 1 \in DOMAIN mounts' /\ DOMAIN mounts \subseteq DOMAIN mounts'
    BY <2>2, <2>4
  <2>7. \A i \in DOMAIN mounts' : Rooted(mounts'[i].mount_path) /\ mounts'[i].root \in used'
    BY <1>1, <1>2, <1>4, <2>3, <2>5 DEF MountTable
  <2>10. {mountpoint'[n] : n \in used'} \ {NULL} = {mounts'[i].root : i \in DOMAIN mounts'}
    <3>1. mountpoint \in [Node -> Dir \cup {NULL}] /\ used \subseteq Node
      BY <1>1 DEF TreeTypes
    <3>2. {mountpoint'[n] : n \in used'} \ {NULL} = ({mountpoint[n] : n \in used} \ {NULL}) \cup {node}
      <4>1. \A n \in used : mountpoint'[n] = IF n = dir THEN node ELSE mountpoint[n]
        BY <2>1, <3>1
      <4>2. node # NULL
        BY NullOrDir
      <4>3. QED
        BY <1>4, <2>1, <4>1, <4>2
    <3>3. {mounts'[i].root : i \in DOMAIN mounts'} = {mounts[i].root : i \in DOMAIN mounts} \cup {node}
      BY <2>3, <2>4, <2>5, <2>6
    <3>4. QED
      BY <1>1, <3>2, <3>3 DEF MountTable
  <2>11. MountTable'
    <3>1. vfs_root' # NULL
      BY <2>1
    <3>2. QED
      BY <2>4, <2>7, <2>10, <3>1 DEF MountTable
  <2>12. TreeTypes'
    <3>1. mountpoint' \in [Node -> Dir \cup {NULL}]
      BY <1>1, <2>1 DEF TreeTypes
    <3>2. Len(mounts') <= VFS_MAX_MOUNTS
      <4>1. N + 1 <= VFS_MAX_MOUNTS
        BY <2>1, <2>2, VfsAssumption, Room
      <4>2. Len(mounts') = N + 1
        BY <2>4
      <4>3. QED
        BY <4>1, <4>2
    <3>3. ASSUME NEW i \in DOMAIN mounts'
          PROVE  mounts'[i].root \in Dir /\ Len(mounts'[i].mount_path) < VFS_MAX_PATH
      <4>1. mounts'[i] \in [mount_path : Spelling, root : Dir]
        <5>1. mounts' \in Seq([mount_path : Spelling, root : Dir])
          BY <2>4
        <5>2. i \in 1 .. Len(mounts')
          BY <2>2, <2>4
        <5>3. QED
          BY <5>1, <5>2, ElementOfSeq
      <4>2. Rooted(mounts'[i].mount_path)
        BY <2>7
      <4>3. QED
        BY <4>1, <4>2 DEF Rooted
    <3>4. /\ used' \subseteq Node /\ root \in used'
          /\ DOMAIN name' = Node /\ \A n \in Node : Len(name'[n]) < VFS_MAX_NAME
          /\ parent' \in [Node -> Dir \cup {NULL}]
          /\ entries' \in [Dir -> SUBSET Node] /\ \A d \in Dir \ used' : entries'[d] = {}
          /\ vfs_root' \in {NULL, root}
      BY <1>1, <1>4, <2>1 DEF TreeTypes
    <3>5. QED
      BY <3>1, <3>2, <3>3, <3>4 DEF TreeTypes
  <2>13. QED
    BY <1>7, <2>11, <2>12 DEF TreeInv
<1>11. QED
  BY <1>8, <1>9, <1>10

\* Creating a node in the directory d, from the pool.
LEMMA CreateNode ==
  ASSUME TreeInv, NEW d \in used \cap Dir, NEW kind \in {"dir", "file"}, NEW nm,
         Len(nm) < VFS_MAX_NAME, NEW node, RoomFor(d, nm, kind),
         ramfs_create_node(d, nm, kind, node), vfs_root # NULL, UNCHANGED <<vfs_root, mounts>>
  PROVE  TreeInv'
<1>1. TreeTypes /\ Parents /\ NamesDiffer /\ SlotsKept /\ NoneLost /\ MountTable
  BY DEF TreeInv
<1>2. /\ node = Min(FreeNodes(kind))
      /\ used' = used \cup {node}
      /\ name' = [name EXCEPT ![node] = nm]
      /\ parent' = [parent EXCEPT ![node] = d]
      /\ mountpoint' = [mountpoint EXCEPT ![node] = NULL]
      /\ entries' = [e \in Dir |-> IF e = node THEN {}
                                   ELSE IF e = d THEN entries[d] \cup {node} ELSE entries[e]]
      /\ vfs_root' = vfs_root /\ mounts' = mounts
  BY DEF ramfs_create_node
<1>3. /\ Named(d, nm) = {}
      /\ Cardinality(entries[d] \cap Pool(kind)) < Slots(kind)
      /\ FreeNodes(kind) # {}
  BY DEF RoomFor
<1>4. Pool(kind) \subseteq Node /\ Node \subseteq Nat
  BY NodeFacts DEF Pool
<1>5. node \in Pool(kind) /\ node \notin used /\ node \in Node
  <2>1. FreeNodes(kind) \in SUBSET Nat
    BY <1>4 DEF FreeNodes
  <2>2. node \in FreeNodes(kind)
    BY <1>2, <1>3, <2>1, Smallest
  <2>3. QED
    BY <1>4, <2>2 DEF FreeNodes
<1>6. /\ used \subseteq Node /\ root \in used /\ DOMAIN name = Node
      /\ \A n \in Node : Len(name[n]) < VFS_MAX_NAME
      /\ parent \in [Node -> Dir \cup {NULL}]
      /\ entries \in [Dir -> SUBSET Node] /\ \A e \in Dir \ used : entries[e] = {}
      /\ mountpoint \in [Node -> Dir \cup {NULL}]
  BY <1>1 DEF TreeTypes
<1>7. /\ parent[root] = NULL
      /\ \A e \in Dir : entries[e] \subseteq used \ {root}
      /\ \A e \in Dir : \A n \in entries[e] : parent[n] = e
      /\ \A n \in used \ {root} : parent[n] \in Dir \cap used /\ n \in entries[parent[n]]
  BY <1>1 DEF Parents
<1>8. d # node /\ root # node /\ d \in Dir /\ Dir \subseteq Node
  BY <1>5, <1>6, NodeFacts
<1>9. /\ \A n \in Node : n # node => name'[n] = name[n] /\ parent'[n] = parent[n] /\ mountpoint'[n] = mountpoint[n]
      /\ name'[node] = nm /\ parent'[node] = d /\ mountpoint'[node] = NULL
  BY <1>2, <1>5, <1>6
<1>10. /\ entries'[d] = entries[d] \cup {node}
       /\ \A e \in Dir : e # d => entries'[e] = entries[e]
  <2>1. \A e \in Dir : e = node => entries[e] = {}
    BY <1>5, <1>6
  <2>2. QED
    BY <1>2, <1>8, <2>1
<1>11. TreeTypes'
  <2>1. used' \subseteq Node /\ root \in used'
    BY <1>2, <1>5, <1>6
  <2>2. DOMAIN name' = Node /\ \A n \in Node : Len(name'[n]) < VFS_MAX_NAME
    BY <1>2, <1>6, <1>9
  <2>3. parent' \in [Node -> Dir \cup {NULL}] /\ mountpoint' \in [Node -> Dir \cup {NULL}]
    BY <1>2, <1>6
  <2>4. entries' \in [Dir -> SUBSET Node]
    BY <1>2, <1>5, <1>6
  <2>5. \A e \in Dir \ used' : entries'[e] = {}
    BY <1>2, <1>6, <1>10
  <2>6. /\ vfs_root' \in {NULL, root} /\ Len(mounts') <= VFS_MAX_MOUNTS
        /\ \A i \in DOMAIN mounts' : mounts'[i].root \in Dir /\ Len(mounts'[i].mount_path) < VFS_MAX_PATH
    BY <1>1, <1>2 DEF TreeTypes
  <2>7. QED
    BY <2>1, <2>2, <2>3, <2>4, <2>5, <2>6 DEF TreeTypes
<1>12. Parents'
  <2>1. parent'[root] = NULL
    BY <1>6, <1>7, <1>8, <1>9
  <2>2. \A e \in Dir : entries'[e] \subseteq used' \ {root}
    BY <1>2, <1>7, <1>8, <1>10
  <2>3. ASSUME NEW e \in Dir, NEW n \in entries'[e] PROVE parent'[n] = e
    <3>1. CASE n = node
      <4>1. e = d
        BY <1>5, <1>7, <1>10, <3>1, <2>3
      <4>2. QED
        BY <1>9, <3>1, <4>1
    <3>2. CASE n # node
      <4>1. n \in entries[e]
        BY <1>10, <2>3, <3>2
      <4>2. n \in Node
        BY <1>6, <4>1
      <4>3. QED
        BY <1>7, <1>9, <3>2, <4>1, <4>2
    <3>3. QED
      BY <3>1, <3>2
  <2>4. ASSUME NEW n \in used' \ {root} PROVE parent'[n] \in Dir \cap used' /\ n \in entries'[parent'[n]]
    <3>1. CASE n = node
      BY <1>2, <1>8, <1>9, <1>10, <3>1
    <3>2. CASE n # node
      <4>1. n \in used \ {root} /\ n \in Node
        BY <1>2, <1>6, <2>4, <3>2
      <4>2. parent[n] \in Dir \cap used /\ n \in entries[parent[n]] /\ parent'[n] = parent[n]
        BY <1>7, <1>9, <3>2, <4>1
      <4> DEFINE p == parent[n]
      <4>3. p \in Dir \cap used /\ n \in entries[p] /\ parent'[n] = p
        BY <4>2
      <4> HIDE DEF p
      <4>4. entries[p] \subseteq entries'[p]
        BY <1>10, <4>3
      <4>5. used \subseteq used'
        BY <1>2
      <4>6. p \in Dir \cap used' /\ n \in entries'[p]
        BY <4>3, <4>4, <4>5
      <4>7. QED
        BY <4>3, <4>6
    <3>3. QED
      BY <3>1, <3>2
  <2>5. QED
    BY <2>1, <2>2, <2>3, <2>4 DEF Parents
<1>13. NamesDiffer'
  <2>1. SUFFICES ASSUME NEW e \in Dir, NEW m \in entries'[e], NEW n \in entries'[e], name'[m] = name'[n]
                 PROVE  m = n
    BY DEF NamesDiffer
  <2>2. \A q \in entries[d] : name[q] # nm
    BY <1>3 DEF Named
  <2>3. \A q \in entries[e] : q \in Node /\ q # node
    BY <1>5, <1>6, <1>7
  <2>4. \A q \in entries[e] : name'[q] = name[q]
    BY <1>9, <2>3
  <2>5. \A q, l \in entries[e] : name[q] = name[l] => q = l
    BY <1>1 DEF NamesDiffer
  <2>6. CASE e # d
    BY <1>10, <2>1, <2>4, <2>5, <2>6
  <2>7. CASE e = d
    <3>1. entries'[e] = entries[e] \cup {node}
      BY <1>10, <2>7
    <3>2. name'[node] = nm /\ \A q \in entries[e] : name'[q] # nm
      BY <1>9, <2>2, <2>4, <2>7
    <3>3. QED
      BY <2>1, <2>4, <2>5, <3>1, <3>2
  <2>8. QED
    BY <2>6, <2>7
<1>14. SlotsKept'
  <2>1. ASSUME NEW e \in Dir
        PROVE  /\ Cardinality(entries'[e] \cap Dir) <= RAMFS_MAX_DIRS
               /\ Cardinality(entries'[e] \cap File) <= RAMFS_MAX_FILES
    <3>1. /\ Cardinality(entries[e] \cap Dir) <= RAMFS_MAX_DIRS
          /\ Cardinality(entries[e] \cap File) <= RAMFS_MAX_FILES
      BY <1>1 DEF SlotsKept
    <3>2. CASE e # d
      BY <1>10, <3>1, <3>2
    <3>3. CASE e = d
      <4>1. entries'[e] = entries[e] \cup {node} /\ node \notin entries[e]
        BY <1>5, <1>7, <1>10, <3>3
      <4>2. /\ IsFiniteSet(entries[e] \cap Dir) /\ Cardinality(entries[e] \cap Dir) \in Nat
            /\ IsFiniteSet(entries[e] \cap File) /\ Cardinality(entries[e] \cap File) \in Nat
        <5>1. entries[e] \cap Dir \in SUBSET Dir /\ entries[e] \cap File \in SUBSET File
          OBVIOUS
        <5>2. IsFiniteSet(entries[e] \cap Dir) /\ IsFiniteSet(entries[e] \cap File)
          BY <5>1, NodeFacts, FS_Subset
        <5>3. QED
          BY <5>2, FS_CardinalityType
      <4>3. RAMFS_MAX_DIRS \in Nat /\ RAMFS_MAX_FILES \in Nat
        BY VfsAssumption
      <4>4. CASE kind = "dir"
        <5>1. node \in Dir /\ node \notin File /\ Cardinality(entries[e] \cap Dir) < RAMFS_MAX_DIRS
          BY <1>3, <1>5, <3>3, <4>4, NodeFacts DEF Pool, Slots
        <5>2. /\ entries'[e] \cap Dir = (entries[e] \cap Dir) \cup {node}
              /\ node \notin entries[e] \cap Dir
              /\ entries'[e] \cap File = entries[e] \cap File
          BY <4>1, <5>1
        <5>3. Cardinality(entries'[e] \cap Dir) = Cardinality(entries[e] \cap Dir) + 1
          BY <4>2, <5>2, FS_AddElement
        <5>4. Cardinality(entries[e] \cap Dir) + 1 <= RAMFS_MAX_DIRS
          BY <4>2, <4>3, <5>1, Room
        <5>5. Cardinality(entries'[e] \cap Dir) <= RAMFS_MAX_DIRS
          BY <5>3, <5>4
        <5>6. Cardinality(entries'[e] \cap File) = Cardinality(entries[e] \cap File)
          BY <5>2
        <5>7. QED
          BY <3>1, <5>5, <5>6
      <4>5. CASE kind = "file"
        <5>1. node \in File /\ node \notin Dir /\ Cardinality(entries[e] \cap File) < RAMFS_MAX_FILES
          BY <1>3, <1>5, <3>3, <4>5, NodeFacts DEF Pool, Slots
        <5>2. /\ entries'[e] \cap File = (entries[e] \cap File) \cup {node}
              /\ node \notin entries[e] \cap File
              /\ entries'[e] \cap Dir = entries[e] \cap Dir
          BY <4>1, <5>1
        <5>3. Cardinality(entries'[e] \cap File) = Cardinality(entries[e] \cap File) + 1
          BY <4>2, <5>2, FS_AddElement
        <5>4. Cardinality(entries[e] \cap File) + 1 <= RAMFS_MAX_FILES
          BY <4>2, <4>3, <5>1, Room
        <5>5. Cardinality(entries'[e] \cap File) <= RAMFS_MAX_FILES
          BY <5>3, <5>4
        <5>6. Cardinality(entries'[e] \cap Dir) = Cardinality(entries[e] \cap Dir)
          BY <5>2
        <5>7. QED
          BY <3>1, <5>5, <5>6
      <4>6. QED
        BY <4>4, <4>5
    <3>4. QED
      BY <3>2, <3>3
  <2>2. QED
    BY <2>1 DEF SlotsKept
<1>15. NoneLost'
  <2>1. SUFFICES ASSUME NEW S \in SUBSET Node, root \in S, \A e \in S \cap Dir : entries'[e] \subseteq S
                 PROVE  used' \subseteq S
    BY DEF NoneLost
  <2>2. \A e \in S \cap Dir : entries[e] \subseteq S
    BY <1>10, <2>1
  <2>3. used \subseteq S
    BY <1>1, <2>1, <2>2 DEF NoneLost
  <2>4. node \in S
    BY <1>10, <2>1, <2>3
  <2>5. QED
    BY <1>2, <2>3, <2>4
<1>16. MountTable'
  <2>1. {mountpoint'[n] : n \in used'} \ {NULL} = {mountpoint[n] : n \in used} \ {NULL}
    <3>1. \A n \in used : mountpoint'[n] = mountpoint[n]
      BY <1>5, <1>6, <1>9
    <3>2. QED
      BY <1>2, <1>9, <3>1
  <2>2. /\ mounts' \in Seq([mount_path : Spelling, root : Dir])
        /\ vfs_root' # NULL
    BY <1>1, <1>2 DEF MountTable
  <2>3. \A i \in DOMAIN mounts' : Rooted(mounts'[i].mount_path) /\ mounts'[i].root \in used'
    BY <1>1, <1>2 DEF MountTable
  <2>4. {mountpoint'[n] : n \in used'} \ {NULL} = {mounts'[i].root : i \in DOMAIN mounts'}
    BY <1>1, <1>2, <2>1 DEF MountTable
  <2>5. QED
    BY <2>2, <2>3, <2>4 DEF MountTable
<1>17. QED
  BY <1>11, <1>12, <1>13, <1>14, <1>15, <1>16 DEF TreeInv

LEMMA CreatePreserves ==
  ASSUME TreeInv, NEW path_in \in Spelling, NEW kind \in {"dir", "file"}, vfs_create(path_in, kind)
  PROVE  TreeInv'
<1> DEFINE way == normalize_abs_path(path_in)
           d == vfs_find(ParentPath(way))
<1>1. way \in Spelling
  BY NormalRooted DEF Rooted
<1>2. TreeTypes /\ Parents /\ MountTable
  BY DEF TreeInv
<1>3. d \in used \cup {NULL} /\ (d \in Dir => vfs_root # NULL)
  <2>1. d \in used \cup {NULL}
    BY <1>1, <1>2, ParentIsText, FindsUsed
  <2>2. vfs_root = NULL => d = NULL
    BY DEF vfs_find
  <2>3. QED
    BY <2>1, <2>2, NullOrDir
<1>4. NewName(way) \in Spelling /\ Len(NewName(way)) < VFS_MAX_NAME
  BY <1>1, NameFits
<1>5. CASE way # Root /\ d \in Dir /\ RoomFor(d, NewName(way), kind)
  <2>1. /\ \E node \in Node : ramfs_create_node(d, NewName(way), kind, node)
        /\ UNCHANGED <<vfs_root, mounts>>
    BY <1>5 DEF vfs_create
  <2>2. d \in used \cap Dir /\ vfs_root # NULL
    BY <1>3, <1>5, NullOrDir
  <2> HIDE DEF d, way
  <2>3. QED
    BY <1>4, <1>5, <2>1, <2>2, CreateNode
<1>6. CASE ~(way # Root /\ d \in Dir /\ RoomFor(d, NewName(way), kind))
  <2>1. UNCHANGED <<tree, mountpoint, vfs_root, mounts>>
    BY <1>6 DEF vfs_create
  <2>2. QED
    BY <2>1, TreeQuiet
<1>7. QED
  BY <1>5, <1>6

LEMMA DeletePreserves ==
  ASSUME TreeInv, NEW way, NEW node \in used, NotMounted(node), ramfs_delete_node(way, node)
  PROVE  TreeInv'
<1>1. TreeTypes /\ Parents /\ NamesDiffer /\ SlotsKept /\ NoneLost /\ MountTable
  BY DEF TreeInv
<1>2. CASE ~Deletable(node)
  <2>1. UNCHANGED <<tree, mountpoint, vfs_root, mounts>>
    BY <1>2 DEF ramfs_delete_node, tree
  <2>2. QED
    BY <2>1, TreeQuiet
<1>3. CASE Deletable(node)
  <2> DEFINE d == parent[node]
  <2>1. /\ used' = used \ {node}
        /\ entries' = [entries EXCEPT ![d] = @ \ {node}]
        /\ name' = name /\ parent' = parent /\ mountpoint' = mountpoint /\ vfs_root' = vfs_root
        /\ mounts' = mounts
    BY <1>3 DEF ramfs_delete_node
  <2>2. d # NULL /\ (node \in Dir => entries[node] = {})
    BY <1>3 DEF Deletable
  <2>3. /\ used \subseteq Node /\ root \in used /\ DOMAIN name = Node
        /\ \A n \in Node : Len(name[n]) < VFS_MAX_NAME
        /\ parent \in [Node -> Dir \cup {NULL}]
        /\ entries \in [Dir -> SUBSET Node] /\ \A e \in Dir \ used : entries[e] = {}
        /\ mountpoint \in [Node -> Dir \cup {NULL}] /\ vfs_root \in {NULL, root}
        /\ Len(mounts) <= VFS_MAX_MOUNTS
        /\ \A i \in DOMAIN mounts : mounts[i].root \in Dir /\ Len(mounts[i].mount_path) < VFS_MAX_PATH
    BY <1>1 DEF TreeTypes
  <2>4. /\ parent[root] = NULL
        /\ \A e \in Dir : entries[e] \subseteq used \ {root}
        /\ \A e \in Dir : \A n \in entries[e] : parent[n] = e
        /\ \A n \in used \ {root} : parent[n] \in Dir \cap used /\ n \in entries[parent[n]]
    BY <1>1 DEF Parents
  <2>5. node # root /\ d \in Dir \cap used /\ node \in entries[d]
    BY <2>2, <2>4
  <2> HIDE DEF d
  <2>6. /\ entries'[d] = entries[d] \ {node}
        /\ \A e \in Dir : e # d => entries'[e] = entries[e]
        /\ \A e \in Dir : entries'[e] \subseteq entries[e]
        /\ entries' \in [Dir -> SUBSET Node]
    BY <2>1, <2>3, <2>5
  <2>7. \A e \in Dir : node \in entries[e] => e = d
    BY <2>4, <2>5
  <2>8. TreeTypes'
    <3>1. \A e \in Dir \ used' : entries'[e] = {}
      BY <2>1, <2>2, <2>3, <2>6
    <3>2. used' \subseteq Node /\ root \in used'
      BY <2>1, <2>3, <2>5
    <3>3. QED
      BY <2>1, <2>3, <2>6, <3>1, <3>2 DEF TreeTypes
  <2>9. Parents'
    <3>1. \A e \in Dir : entries'[e] \subseteq used' \ {root}
      BY <2>1, <2>4, <2>6, <2>7
    <3>2. \A e \in Dir : \A n \in entries'[e] : parent'[n] = e
      BY <2>1, <2>4, <2>6
    <3>3. ASSUME NEW n \in used' \ {root} PROVE parent'[n] \in Dir \cap used' /\ n \in entries'[parent'[n]]
      <4>1. /\ n # node /\ parent'[n] = parent[n] /\ parent[n] \in Dir \cap used
            /\ n \in entries[parent[n]]
        BY <2>1, <2>4, <3>3
      <4>2. parent[n] # node
        BY <2>2, <4>1
      <4>3. n \in entries'[parent[n]]
        BY <2>6, <4>1
      <4>4. QED
        BY <2>1, <4>1, <4>2, <4>3
    <3>4. parent'[root] = NULL
      BY <2>1, <2>4
    <3>5. QED
      BY <3>1, <3>2, <3>3, <3>4 DEF Parents
  <2>10. NamesDiffer'
    BY <1>1, <2>1, <2>6 DEF NamesDiffer
  <2>11. SlotsKept'
    <3>1. ASSUME NEW e \in Dir
          PROVE  /\ Cardinality(entries'[e] \cap Dir) <= RAMFS_MAX_DIRS
                 /\ Cardinality(entries'[e] \cap File) <= RAMFS_MAX_FILES
      <4>1. /\ IsFiniteSet(entries[e] \cap Dir) /\ IsFiniteSet(entries[e] \cap File)
        <5>1. entries[e] \cap Dir \in SUBSET Dir /\ entries[e] \cap File \in SUBSET File
          OBVIOUS
        <5>2. QED
          BY <5>1, NodeFacts, FS_Subset
      <4>2. /\ entries'[e] \cap Dir \in SUBSET (entries[e] \cap Dir)
            /\ entries'[e] \cap File \in SUBSET (entries[e] \cap File)
        BY <2>6
      <4>3. /\ Cardinality(entries'[e] \cap Dir) <= Cardinality(entries[e] \cap Dir)
            /\ Cardinality(entries'[e] \cap File) <= Cardinality(entries[e] \cap File)
            /\ IsFiniteSet(entries'[e] \cap Dir) /\ IsFiniteSet(entries'[e] \cap File)
        BY <4>1, <4>2, FS_Subset
      <4>4. /\ Cardinality(entries'[e] \cap Dir) \in Nat /\ Cardinality(entries[e] \cap Dir) \in Nat
            /\ Cardinality(entries'[e] \cap File) \in Nat /\ Cardinality(entries[e] \cap File) \in Nat
        BY <4>1, <4>3, FS_CardinalityType
      <4>5. /\ Cardinality(entries[e] \cap Dir) <= RAMFS_MAX_DIRS
            /\ Cardinality(entries[e] \cap File) <= RAMFS_MAX_FILES
            /\ RAMFS_MAX_DIRS \in Nat /\ RAMFS_MAX_FILES \in Nat
        BY <1>1, VfsAssumption DEF SlotsKept
      <4>6. QED
        BY <4>3, <4>4, <4>5
    <3>2. QED
      BY <3>1 DEF SlotsKept
  <2>12. NoneLost'
    <3>1. SUFFICES ASSUME NEW S \in SUBSET Node, root \in S, \A e \in S \cap Dir : entries'[e] \subseteq S
                   PROVE  used' \subseteq S
      BY DEF NoneLost
    <3> DEFINE T == S \cup {node}
    <3>2. T \in SUBSET Node /\ root \in T
      BY <2>3, <3>1
    <3>3. ASSUME NEW e \in T \cap Dir PROVE entries[e] \subseteq T
      <4>1. CASE e = node
        BY <2>2, <4>1
      <4>2. CASE e # node
        <5>1. entries'[e] \subseteq S
          BY <3>1, <3>3, <4>2
        <5>2. entries[e] \subseteq entries'[e] \cup {node}
          BY <2>6
        <5>3. QED
          BY <5>1, <5>2
      <4>3. QED
        BY <4>1, <4>2
    <3> HIDE DEF T
    <3>4. used \subseteq T
      BY <1>1, <3>2, <3>3 DEF NoneLost
    <3>5. QED
      BY <2>1, <3>4 DEF T
  <2>13. MountTable'
    <3>1. node \notin {mounts[i].root : i \in DOMAIN mounts} /\ mountpoint[node] = NULL
          /\ node # vfs_root
      BY DEF NotMounted, MountRoots
    <3>2. {mountpoint[n] : n \in used'} \ {NULL} = {mountpoint[n] : n \in used} \ {NULL}
      BY <2>1, <3>1
    <3>3. \A i \in DOMAIN mounts' : Rooted(mounts'[i].mount_path) /\ mounts'[i].root \in used'
      BY <1>1, <2>1, <3>1 DEF MountTable
    <3>4. mounts' \in Seq([mount_path : Spelling, root : Dir])
      BY <1>1, <2>1 DEF MountTable
    <3>5. {mountpoint'[n] : n \in used'} \ {NULL} = {mounts'[i].root : i \in DOMAIN mounts'}
      <4>1. mountpoint' = mountpoint /\ mounts' = mounts
        BY <2>1
      <4>2. {mountpoint[n] : n \in used} \ {NULL} = {mounts[i].root : i \in DOMAIN mounts}
        BY <1>1 DEF MountTable
      <4>3. {mountpoint'[n] : n \in used'} = {mountpoint[n] : n \in used'}
        BY <4>1
      <4>4. {mounts'[i].root : i \in DOMAIN mounts'} = {mounts[i].root : i \in DOMAIN mounts}
        BY <4>1
      <4>5. QED
        BY <3>2, <4>2, <4>3, <4>4
    <3>6. vfs_root' = NULL => used' = {root} /\ mounts' = <<>>
      BY <1>1, <2>1, <2>5 DEF MountTable
    <3>7. QED
      BY <3>3, <3>4, <3>5, <3>6 DEF MountTable
  <2>14. QED
    BY <2>8, <2>9, <2>10, <2>11, <2>12, <2>13 DEF TreeInv
<1>4. QED
  BY <1>2, <1>3

LEMMA TreeInvStep == TreeInv /\ [TreeNext]_vfsvars => TreeInv'
<1>1. SUFFICES ASSUME TreeInv, [TreeNext]_vfsvars PROVE TreeInv'
  OBVIOUS
<1>2. TreeTypes /\ Parents /\ MountTable
  BY <1>1 DEF TreeInv
<1>3. CASE MountRoot
  <2>1. vfs_mount(Root, root)
    BY <1>3 DEF MountRoot
  <2>2. root \in used \cap Dir
    BY <1>2, NodeFacts DEF TreeTypes
  <2>3. QED
    BY <1>1, <2>1, <2>2, RootIsText, RootIsNormal, MountPreserves
<1>4. CASE Mount
  <2>1. PICK way \in MountPaths, node \in used \cap Dir : vfs_mount(way, node)
    BY <1>4 DEF Mount
  <2>2. way \in Spelling
    BY PathsAreTexts
  <2>3. QED
    BY <1>1, <2>1, <2>2, MountPreserves
<1>5. CASE Create
  <2>1. PICK way \in Paths, kind \in {"dir", "file"} : vfs_create(way, kind)
    BY <1>5 DEF Create
  <2>2. way \in Spelling
    BY PathsAreTexts
  <2>3. QED
    BY <1>1, <2>1, <2>2, CreatePreserves
<1>6. CASE Delete
  <2>1. PICK way \in Paths : /\ vfs_find(way) # NULL /\ NotMounted(vfs_find(way))
                              /\ ramfs_delete_node(way, vfs_find(way))
    BY <1>6 DEF Delete
  <2>2. vfs_find(way) \in used
    <3>1. way \in Spelling
      BY PathsAreTexts
    <3>2. QED
      BY <1>2, <2>1, <3>1, FindsUsed
  <2>3. QED
    BY <1>1, <2>1, <2>2, DeletePreserves
<1>7. CASE UNCHANGED vfsvars
  <2>1. UNCHANGED <<tree, mountpoint, vfs_root, mounts>>
    BY <1>7 DEF vfsvars
  <2>2. QED
    BY <1>1, <2>1, TreeQuiet
<1>8. QED
  BY <1>1, <1>3, <1>4, <1>5, <1>6, <1>7 DEF TreeNext

\* The tree's invariant holds in every state.
THEOREM TreeInvariant == TreeSpec => []TreeInv
<1>1. QED
  BY TreeInvInit, TreeInvStep, PTL DEF TreeSpec

\* dev/vfs/vfs.cpp and dev/ramfs/ramfs.cpp: whatever is created, deleted and
\* mounted, the used nodes stay one tree and the mount table tells its story.
THEOREM TreeStaysSound == TreeSpec => []TreeSound
<1>1. QED
  BY TreeInvariant, TreeInvSound, PTL

-----------------------------------------------------------------------------
(* What was created is found, and what was refused had a reason.            *)

\* A prefix is taken apart on the way to the whole.
LEMMA PrefixTaken ==
  ASSUME NEW rel \in Spelling
  PROVE  \E parts : /\ parts[0] = IF StartsAtRoot(rel) THEN << <<>> >> ELSE <<>>
                    /\ \A n \in 1 .. Len(rel) :
                         parts[n] = Taken(parts[n - 1], n = 1 \/ rel[n - 1] = "/", rel[n])
                    /\ \A n \in 0 .. Len(rel) : parts[n] \in Texts
                    /\ \A n \in 1 .. Len(rel) : Components(SubSeq(rel, 1, n)) = parts[n]
<1>1. PICK parts : /\ parts[0] = IF StartsAtRoot(rel) THEN << <<>> >> ELSE <<>>
                   /\ \A n \in 1 .. Len(rel) :
                        parts[n] = Taken(parts[n - 1], n = 1 \/ rel[n - 1] = "/", rel[n])
                   /\ \A n \in 0 .. Len(rel) : parts[n] \in Texts
  BY ComponentsTraced
<1>2. ASSUME NEW m \in 1 .. Len(rel) PROVE Components(SubSeq(rel, 1, m)) = parts[m]
  <2> DEFINE h == SubSeq(rel, 1, m)
  <2>1. Len(rel) \in Nat /\ m \in Nat /\ m > 0 /\ m =< Len(rel) /\ m - 1 + 1 = m
    BY SpellingFacts
  <2>2. h \in Spelling /\ Len(h) = m /\ \A q \in 1 .. m : h[q] = rel[q]
    <3>1. /\ h \in Spelling /\ Len(h) = IF 1 =< m THEN m - 1 + 1 ELSE 0
          /\ \A q \in 1 .. m - 1 + 1 : h[q] = rel[1 + q - 1]
      BY <2>1, SubSeqIsText
    <3>2. \A q \in 1 .. m : 1 + q - 1 = q
      BY <2>1
    <3>3. QED
      BY <2>1, <3>1, <3>2
  <2> HIDE DEF h
  <2>3. StartsAtRoot(h) <=> StartsAtRoot(rel)
    BY <2>1, <2>2, SpellingFacts
  <2>4. PICK f : /\ f[0] = IF StartsAtRoot(h) THEN << <<>> >> ELSE <<>>
                 /\ \A n \in 1 .. m : f[n] = Taken(f[n - 1], n = 1 \/ h[n - 1] = "/", h[n])
                 /\ Components(h) = f[m]
    BY <2>2, ComponentsTraced
  <2> DEFINE P == [n \in 0 .. m |-> {parts[n]}]
  <2>5. f[0] \in P[0]
    BY <1>1, <2>1, <2>3, <2>4
  <2>6. ASSUME NEW n \in 1 .. m, f[n - 1] \in P[n - 1] PROVE f[n] \in P[n]
    <3>1. n \in 1 .. Len(rel) /\ n \in 0 .. m /\ n - 1 \in 0 .. m /\ (n = 1 \/ n - 1 \in 1 .. m)
      BY <2>1
    <3>2. f[n - 1] = parts[n - 1] /\ h[n] = rel[n] /\ (n = 1 \/ h[n - 1] = rel[n - 1])
      BY <2>2, <2>6, <3>1
    <3>3. f[n] = parts[n]
      BY <1>1, <2>4, <3>1, <3>2
    <3>4. QED
      BY <3>1, <3>3
  <2> HIDE DEF P
  <2>7. \A n \in 0 .. m : f[n] \in P[n]
    BY <2>1, <2>5, <2>6, TraceKeeps
  <2>8. f[m] \in P[m] /\ m \in 0 .. m
    BY <2>1, <2>7
  <2>9. QED
    BY <2>4, <2>8 DEF P, h
<1>3. QED
  BY <1>1, <1>2

\* A slash at the end adds no component.
LEMMA SlashAtTheEnd ==
  ASSUME NEW rel \in Spelling, Len(rel) > 1, rel[Len(rel)] = "/"
  PROVE  Components(rel) = Components(SubSeq(rel, 1, Len(rel) - 1))
<1> DEFINE N == Len(rel)
<1>1. N \in Nat /\ N \in 1 .. N /\ N - 1 \in 1 .. N
  BY SpellingFacts
<1>2. SubSeq(rel, 1, N) = rel
  BY SubSeqFull DEF Spelling
<1> HIDE DEF N
<1>3. PICK parts : /\ \A n \in 1 .. N :
                        parts[n] = Taken(parts[n - 1], n = 1 \/ rel[n - 1] = "/", rel[n])
                   /\ \A n \in 1 .. N : Components(SubSeq(rel, 1, n)) = parts[n]
  BY PrefixTaken DEF N
<1>4. parts[N] = parts[N - 1]
  BY <1>1, <1>3 DEF Taken, N
<1>5. QED
  BY <1>1, <1>2, <1>3, <1>4 DEF N

\* What follows a last slash, or all there is, is one component more.
LEMMA OneComponentMore ==
  ASSUME NEW rel \in Spelling, NEW c \in Nat, c < Len(rel), c # 1,
         c = 0 \/ rel[c] = "/", \A q \in c + 1 .. Len(rel) : rel[q] # "/"
  PROVE  Components(rel) = Append(Components(SubSeq(rel, 1, c - 1)), SubSeq(rel, c + 1, Len(rel)))
<1> DEFINE N == Len(rel)
           C == Components(SubSeq(rel, 1, c - 1))
           M == N - c - 1
<1>1. N \in Nat /\ c < N /\ M \in Nat
  BY SpellingFacts
<1>2. SubSeq(rel, 1, N) = rel
  BY SubSeqFull DEF Spelling
<1> HIDE DEF N, M
<1>3. PICK parts : /\ parts[0] = IF StartsAtRoot(rel) THEN << <<>> >> ELSE <<>>
                   /\ \A n \in 1 .. N :
                        parts[n] = Taken(parts[n - 1], n = 1 \/ rel[n - 1] = "/", rel[n])
                   /\ \A n \in 0 .. N : parts[n] \in Texts
                   /\ \A n \in 1 .. N : Components(SubSeq(rel, 1, n)) = parts[n]
  BY PrefixTaken DEF N
<1>4. parts[c] = C /\ C \in Texts
  <2>1. CASE c = 0
    <3>1. 1 \in c + 1 .. N
      BY <1>1, <2>1
    <3>2. ~StartsAtRoot(rel)
      BY <3>1, SpellingFacts DEF N
    <3>3. SubSeq(rel, 1, c - 1) = <<>>
      BY <2>1, SubSeqEmpty
    <3>4. 0 \in 0 .. N
      BY <1>1
    <3>5. QED
      BY <1>3, <2>1, <3>2, <3>3, <3>4, NothingLeft
  <2>2. CASE c # 0
    <3>1. c \in 1 .. N /\ c - 1 \in 1 .. N /\ c \in 0 .. N
      BY <1>1, <2>2
    <3>2. parts[c] = parts[c - 1]
      BY <1>3, <2>2, <3>1 DEF Taken
    <3>3. QED
      BY <1>3, <3>1, <3>2
  <2>3. QED
    BY <2>1, <2>2
<1> HIDE DEF C
<1> DEFINE w(n) == SubSeq(rel, c + 1, c + 1 + n)
           f == [n \in 0 .. M |-> parts[c + 1 + n]]
           P == [n \in 0 .. M |-> {Append(C, w(n))}]
<1>5. ASSUME NEW n \in 0 .. M
      PROVE  w(n) \in Spelling /\ Len(w(n)) = n + 1 /\ \A q \in 1 .. n + 1 : w(n)[q] = rel[c + q]
  <2>1. /\ c + 1 \in Nat /\ c + 1 > 0 /\ c + 1 + n \in Int /\ c + 1 + n =< N /\ c + 1 =< c + 1 + n
        /\ (c + 1 + n) - (c + 1) + 1 = n + 1
        /\ \A q \in 1 .. n + 1 : (c + 1) + q - 1 = c + q
    BY <1>1 DEF M
  <2> DEFINE i == c + 1
             j == c + 1 + n
  <2>2. /\ SubSeq(rel, i, j) \in Spelling /\ Len(SubSeq(rel, i, j)) = IF i =< j THEN j - i + 1 ELSE 0
        /\ \A q \in 1 .. j - i + 1 : SubSeq(rel, i, j)[q] = rel[i + q - 1]
    <3>1. i \in Nat /\ i > 0 /\ j \in Int /\ j =< Len(rel)
      BY <2>1 DEF N
    <3> HIDE DEF i, j
    <3>2. QED
      BY <3>1, SubSeqIsText
  <2>3. QED
    BY <2>1, <2>2
<1>6. f[0] \in P[0]
  <2>1. c + 1 \in 1 .. N /\ rel[c + 1] # "/" /\ (c + 1 = 1 \/ rel[c] = "/") /\ c + 1 - 1 = c /\ 0 \in 0 .. M
    <3>1. c + 1 \in 1 .. N /\ c + 1 \in c + 1 .. N /\ c + 1 - 1 = c /\ 0 \in 0 .. M
      BY <1>1
    <3>2. rel[c + 1] # "/" /\ (c = 0 \/ rel[c] = "/")
      BY <3>1 DEF N
    <3>3. QED
      BY <3>1, <3>2
  <2>2. parts[c + 1] = Append(C, <<rel[c + 1]>>)
    <3>1. \A m \in 1 .. N : parts[m] = Taken(parts[m - 1], m = 1 \/ rel[m - 1] = "/", rel[m])
      BY <1>3
    <3>2. parts[c + 1] = Taken(parts[c + 1 - 1], c + 1 = 1 \/ rel[c + 1 - 1] = "/", rel[c + 1])
      BY <2>1, <3>1
    <3>3. QED
      BY <1>4, <2>1, <3>2 DEF Taken
  <2>3. w(0) = <<rel[c + 1]>>
    <3>1. w(0) \in Spelling /\ Len(w(0)) = 1 /\ w(0)[1] = rel[c + 1]
      BY <1>5, <2>1
    <3> HIDE DEF w
    <3>2. QED
      BY <3>1 DEF Spelling
  <2>4. f[0] = parts[c + 1]
    BY <2>1
  <2>5. QED
    BY <2>1, <2>2, <2>3, <2>4
<1>7. ASSUME NEW n \in 1 .. M, f[n - 1] \in P[n - 1] PROVE f[n] \in P[n]
  <2>1. /\ n \in 0 .. M /\ n - 1 \in 0 .. M /\ c + 1 + n \in 1 .. N /\ c + 1 + n # 1
        /\ c + 1 + n - 1 = c + n /\ c + 1 + (n - 1) = c + n /\ n - 1 + 1 = n
        /\ c + n \in c + 1 .. N /\ c + 1 + n \in c + 1 .. N /\ c + n + 1 = c + 1 + n /\ c + (n + 1) = c + 1 + n
    BY <1>1 DEF M
  <2> DEFINE ch == rel[c + 1 + n]
             x == w(n - 1)
  <2>2. ch # "/" /\ rel[c + n] # "/" /\ ch \in Char
    BY <2>1, SpellingFacts DEF N
  <2>3. parts[c + n] = Append(C, x)
    <3>1. f[n - 1] = parts[c + 1 + (n - 1)] /\ P[n - 1] = {Append(C, x)}
      BY <2>1
    <3> HIDE DEF f, P, x
    <3>2. QED
      BY <1>7, <2>1, <3>1
  <2>4. parts[c + 1 + n] = Append(Front(parts[c + n]), Append(Last(parts[c + n]), ch))
    <3> DEFINE m == c + 1 + n
    <3>1. m \in 1 .. N /\ m # 1 /\ m - 1 = c + n /\ rel[m] = ch
      BY <2>1
    <3> HIDE DEF m
    <3>2. parts[m] = Taken(parts[m - 1], m = 1 \/ rel[m - 1] = "/", rel[m])
      BY <1>3, <3>1
    <3>3. QED
      BY <2>2, <3>1, <3>2 DEF Taken, m
  <2>5. x \in Spelling /\ Len(x) = n /\ \A q \in 1 .. n : x[q] = rel[c + q]
    BY <1>5, <2>1
  <2>6. w(n) \in Spelling /\ Len(w(n)) = n + 1 /\ \A q \in 1 .. n + 1 : w(n)[q] = rel[c + q]
    BY <1>5, <2>1
  <2> DEFINE wn == w(n)
  <2>7. wn \in Spelling /\ Len(wn) = n + 1 /\ \A q \in 1 .. n + 1 : wn[q] = rel[c + q]
    BY <2>6
  <2>8. f[n] = parts[c + 1 + n] /\ P[n] = {Append(C, wn)}
    BY <2>1
  <2> HIDE DEF ch, x, wn, f, P
  <2>9. Append(x, ch) = wn
    <3>1. /\ Append(x, ch) \in Seq(Char) /\ Len(Append(x, ch)) = n + 1
          /\ \A q \in 1 .. n : Append(x, ch)[q] = x[q]
          /\ Append(x, ch)[n + 1] = ch
      BY <2>2, <2>5, AppendProperties DEF Spelling
    <3>2. n + 1 \in 1 .. n + 1 /\ rel[c + (n + 1)] = ch
      BY <2>1 DEF ch
    <3>3. \A q \in 1 .. n + 1 : Append(x, ch)[q] = wn[q]
      BY <2>5, <2>7, <3>1, <3>2
    <3>4. QED
      BY <2>7, <3>1, <3>3, SeqEqual DEF Spelling
  <2>10. Front(Append(C, x)) = C /\ Last(Append(C, x)) = x
    <3>1. C \in Seq(Spelling)
      BY <1>4 DEF Texts
    <3> DEFINE A == Append(C, x)
    <3>2. A \in Seq(Spelling) /\ Len(A) = Len(C) + 1 /\ Len(C) \in Nat
          /\ (\A q \in 1 .. Len(C) : A[q] = C[q]) /\ A[Len(C) + 1] = x
      BY <2>5, <3>1, AppendProperties
    <3> HIDE DEF A
    <3>3. Last(A) = x
      BY <3>2 DEF Last
    <3>4. Front(A) = SubSeq(A, 1, Len(C))
      BY <3>2 DEF Front
    <3>5. SubSeq(A, 1, Len(C)) = C
      <4>1. /\ SubSeq(A, 1, Len(C)) \in Seq(Spelling) /\ Len(SubSeq(A, 1, Len(C))) = Len(C)
            /\ \A q \in 1 .. Len(C) : SubSeq(A, 1, Len(C))[q] = A[q]
        <5>1. \A q \in 1 .. Len(C) : A[q] \in Spelling
          BY <3>1, <3>2
        <5>2. /\ SubSeq(A, 1, Len(C)) \in Seq(Spelling)
              /\ Len(SubSeq(A, 1, Len(C))) = IF 1 <= Len(C) THEN Len(C) - 1 + 1 ELSE 0
              /\ \A q \in 1 .. Len(C) - 1 + 1 : SubSeq(A, 1, Len(C))[q] = A[1 + q - 1]
          BY <3>2, <5>1, SubSeqProperties
        <5>3. QED
          BY <3>2, <5>2
      <4>2. QED
        BY <3>1, <3>2, <4>1, SeqEqual
    <3>6. QED
      BY <3>3, <3>4, <3>5 DEF A
  <2>11. QED
    BY <2>3, <2>4, <2>8, <2>9, <2>10
<1> HIDE DEF P
<1>8. \A n \in 0 .. M : f[n] \in P[n]
  <2> HIDE DEF f
  <2>1. QED
    BY <1>1, <1>6, <1>7, TraceKeeps
<1>9. M \in 0 .. M /\ c + 1 + M = N /\ N \in 1 .. N
  BY <1>1 DEF M
<1>10. parts[N] = Append(C, SubSeq(rel, c + 1, N))
  BY <1>8, <1>9 DEF P
<1>11. QED
  BY <1>2, <1>3, <1>9, <1>10 DEF N, C

-----------------------------------------------------------------------------
(* Normal paths.                                                           *)

Normal(way) == Rooted(way) /\ NoDoubleSlash(way) /\ (Len(way) > 1 => way[Len(way)] # "/")

LEMMA CollapsedOnce ==
  ASSUME NEW x \in Spelling, NEW c \in Char, NoDoubleSlash(x)
  PROVE  NoDoubleSlash(Collapsed(x, c))
<1>1. CASE Collapsed(x, c) = x
  BY <1>1
<1>2. CASE Collapsed(x, c) # x
  <2> DEFINE y == Append(x, c)
  <2>1. Collapsed(x, c) = y /\ ~(c = "/" /\ x # <<>> /\ Last(x) = "/")
    BY <1>2 DEF Collapsed
  <2>2. Len(x) \in Nat /\ Len(y) = Len(x) + 1 /\ (\A i \in 1 .. Len(x) : y[i] = x[i]) /\ y[Len(x) + 1] = c
    BY SpellingFacts, AppendProperties DEF Spelling
  <2> HIDE DEF y
  <2>3. ASSUME NEW i \in 1 .. Len(y) - 1 PROVE y[i] # "/" \/ y[i + 1] # "/"
    <3>1. CASE i = Len(x)
      <4>1. x # <<>> /\ i \in 1 .. Len(x)
        BY <2>2, <3>1, SpellingFacts
      <4>2. y[i] = Last(x) /\ y[i + 1] = c
        BY <2>2, <3>1, <4>1 DEF Last
      <4>3. QED
        BY <2>1, <4>1, <4>2
    <3>2. CASE i # Len(x)
      <4>1. i \in 1 .. Len(x) - 1 /\ i \in 1 .. Len(x) /\ i + 1 \in 1 .. Len(x)
        BY <2>2, <3>2
      <4>2. QED
        BY <2>2, <4>1 DEF NoDoubleSlash
    <3>3. QED
      BY <3>1, <3>2
  <2>4. QED
    BY <2>1, <2>3 DEF NoDoubleSlash
<1>3. QED
  BY <1>1, <1>2

LEMMA CollapseOnce ==
  ASSUME NEW in \in Spelling
  PROVE  Collapse(in) \in Spelling /\ NoDoubleSlash(Collapse(in))
<1> DEFINE P == {x \in Spelling : NoDoubleSlash(x)}
<1>1. PICK out : /\ out[0] = IF StartsAtRoot(in) THEN <<>> ELSE Root
                 /\ \A n \in 1 .. Len(in) : out[n] = Collapsed(out[n - 1], in[n])
                 /\ \A n \in 0 .. Len(in) : out[n] \in Spelling
                 /\ Collapse(in) = out[Len(in)]
  BY CollapseTraced
<1>2. Len(in) \in Nat /\ Len(in) \in 0 .. Len(in) /\ \A n \in 1 .. Len(in) : in[n] \in Char
  BY SpellingFacts
<1>3. out[0] \in P
  <2>1. <<>> \in Spelling /\ Len(<<>>) = 0
    BY DEF Spelling
  <2>2. QED
    BY <1>1, <2>1, RootIsText DEF NoDoubleSlash
<1>4. ASSUME NEW n \in 1 .. Len(in), out[n - 1] \in P PROVE out[n] \in P
  <2>1. n \in 0 .. Len(in)
    BY <1>2
  <2>2. QED
    BY <1>1, <1>2, <1>4, <2>1, CollapsedOnce
<1> HIDE DEF P
<1>5. \A n \in 0 .. Len(in) : out[n] \in P
  BY <1>2, <1>3, <1>4, TraceStays
<1>6. QED
  BY <1>1, <1>2, <1>5 DEF P

\* normalize_abs_path normalises.
LEMMA NormalIsNormal ==
  ASSUME NEW in \in Spelling
  PROVE  Normal(normalize_abs_path(in))
<1> DEFINE p == Collapse(in)
           t == Trim(p)
<1>1. p \in Spelling /\ NoDoubleSlash(p) /\ Len(p) \in Nat
  BY CollapseOnce, SpellingFacts
<1>2. normalize_abs_path(in) = t /\ Rooted(t)
  BY NormalRooted DEF normalize_abs_path
<1>3. t = IF Len(p) > 1 /\ p[Len(p)] = "/" THEN SubSeq(p, 1, Len(p) - 1) ELSE p
  BY DEF Trim, Last, Front
<1> HIDE DEF p, t
<1>4. CASE ~(Len(p) > 1 /\ p[Len(p)] = "/")
  BY <1>1, <1>2, <1>3, <1>4 DEF Normal
<1>5. CASE Len(p) > 1 /\ p[Len(p)] = "/"
  <2> DEFINE L == Len(p) - 1
  <2>1. L \in Nat /\ L > 0 /\ L =< Len(p) /\ L + 1 = Len(p) /\ t = SubSeq(p, 1, L)
    BY <1>1, <1>3, <1>5
  <2> HIDE DEF L
  <2>2. Len(t) = L /\ \A q \in 1 .. L : t[q] = p[q]
    <3>1. Len(t) = L - 1 + 1 /\ \A q \in 1 .. L - 1 + 1 : t[q] = p[1 + q - 1]
      BY <1>1, <2>1, SubSeqIsText
    <3>2. \A q \in 1 .. L : 1 + q - 1 = q
      BY <2>1
    <3>3. QED
      BY <2>1, <3>1, <3>2
  <2>3. \A q \in 1 .. L : p[q] # "/" \/ p[q + 1] # "/"
    BY <1>1, <2>1 DEF NoDoubleSlash
  <2>4. t[Len(t)] # "/"
    <3>1. L \in 1 .. L /\ p[L + 1] = "/"
      BY <1>5, <2>1
    <3>2. QED
      BY <2>2, <2>3, <3>1
  <2>5. ASSUME NEW q \in 1 .. Len(t) - 1 PROVE t[q] # "/" \/ t[q + 1] # "/"
    <3>1. q \in 1 .. L /\ q + 1 \in 1 .. L
      BY <2>1, <2>2
    <3>2. QED
      BY <2>2, <2>3, <3>1
  <2>6. QED
    BY <1>2, <2>4, <2>5 DEF Normal, NoDoubleSlash
<1>6. QED
  BY <1>4, <1>5

LEMMA MatchMeans ==
  ASSUME NEW way \in Spelling, NEW m \in Spelling
  PROVE  is_mount_prefix_match(way, m) <=>
           /\ Len(m) > 0 /\ Len(m) =< Len(way)
           /\ \A q \in 1 .. Len(m) : m[q] = way[q]
           /\ Len(way) > Len(m) => way[Len(m) + 1] = "/"
<1>1. m # <<>> <=> Len(m) > 0
  BY SpellingFacts
<1>2. IsPrefix(m, way) <=> Len(m) =< Len(way) /\ \A q \in 1 .. Len(m) : m[q] = way[q]
  BY SpellingFacts DEF IsPrefix, Spelling
<1>3. QED
  BY <1>1, <1>2 DEF is_mount_prefix_match

-----------------------------------------------------------------------------
(* Where a path is found.                                                  *)

NormalMounts == \A i \in DOMAIN mounts : Normal(mounts[i].mount_path) /\ mounts[i].mount_path # Root

Start(i)  == IF i = 0 THEN vfs_root ELSE mounts[i].root
Behind(i) == IF i = 0 THEN 2 ELSE Len(mounts[i].mount_path) + 2

LEMMA BestMountSame ==
  ASSUME NEW one, NEW other,
         \A i \in DOMAIN mounts : is_mount_prefix_match(one, mounts[i].mount_path)
                                  <=> is_mount_prefix_match(other, mounts[i].mount_path)
  PROVE  BestMount(one) = BestMount(other)
<1>1. {i \in DOMAIN mounts : is_mount_prefix_match(one, mounts[i].mount_path)}
        = {i \in DOMAIN mounts : is_mount_prefix_match(other, mounts[i].mount_path)}
  OBVIOUS
<1>2. QED
  BY <1>1, Zenon DEF BestMount

\* vfs_find walks what follows the mount and its slash.
LEMMA FindWalks ==
  ASSUME MountTable, NormalMounts, vfs_root # NULL,
         NEW way \in Spelling, Len(way) > 0, way[1] = "/", NEW i, i = BestMount(way)
  PROVE  /\ vfs_find(way) = Walk(Start(i), Components(SubSeq(way, Behind(i), Len(way))))
         /\ i = 0 \/ i \in DOMAIN mounts
         /\ Behind(i) \in Nat /\ Behind(i) > 1 /\ Behind(i) =< Len(way) + 2
         /\ Behind(i) - 1 =< Len(way) => way[Behind(i) - 1] = "/"
<1> DEFINE N == Len(way)
           L == IF i = 0 THEN 1 ELSE Len(mounts[i].mount_path)
<1>1. N \in Nat /\ N > 0 /\ Absolute(way) = way
  BY SpellingFacts DEF Absolute
<1>2. vfs_find(way) = Walk(Start(i), Components(RelPath(way, L)))
  BY <1>1 DEF vfs_find, Start
<1>3. CASE i = 0
  <2>1. RelPath(way, 1) = SubSeq(way, 2, N)
    BY DEF RelPath, Drop
  <2>2. Behind(i) = 2 /\ L = 1 /\ 2 - 1 = 1 /\ 2 =< N + 2
    BY <1>1, <1>3 DEF Behind
  <2>3. vfs_find(way) = Walk(Start(i), Components(SubSeq(way, Behind(i), N)))
    BY <1>2, <2>1, <2>2
  <2>4. QED
    BY <1>3, <2>2, <2>3
<1>4. CASE i # 0
  <2>1. i \in DOMAIN mounts /\ is_mount_prefix_match(way, mounts[i].mount_path)
    <3>1. i \in 0 .. Len(mounts) /\ is_mount_prefix_match(way, mounts[i].mount_path)
      BY <1>4, BestMountFacts
    <3>2. QED
      BY <1>4, <3>1 DEF MountTable
  <2> DEFINE m == mounts[i].mount_path
  <2>2. m \in Spelling /\ m[1] = "/" /\ m # Root /\ L = Len(m) /\ Len(m) \in Nat
    BY <1>4, <2>1, SpellingFacts DEF NormalMounts, Normal, Rooted
  <2>3. is_mount_prefix_match(way, m)
    BY <2>1
  <2>4. Behind(i) = L + 2
    BY <1>4, <2>2 DEF Behind
  <2> HIDE DEF m, L, N
  <2>5. L > 0 /\ L =< N /\ (N > L => way[L + 1] = "/")
    BY <2>2, <2>3, MatchMeans DEF N
  <2>6. L > 1
    <3>1. SUFFICES ASSUME L = 1 PROVE FALSE
      BY <2>2, <2>5
    <3>2. m = Root
      <4>1. Len(m) = Len(Root) /\ \A q \in 1 .. Len(m) : m[q] = Root[q]
        BY <2>2, <3>1, RootIsText
      <4>2. QED
        BY <2>2, <4>1, RootIsText, SeqEqual DEF Spelling
    <3>3. QED
      BY <2>2, <3>2
  <2>7. RelPath(way, L) = SubSeq(way, L + 2, N)
    <3> DEFINE rest == SubSeq(way, L + 1, N)
    <3>1. CASE L = N
      <4>1. rest = <<>> /\ SubSeq(way, L + 2, N) = <<>>
        BY <1>1, <2>2, <3>1, SubSeqEmpty
      <4>2. ~StartsAtRoot(<<>>)
        BY DEF StartsAtRoot
      <4>3. QED
        BY <4>1, <4>2 DEF RelPath, Drop, N
    <3>2. CASE L < N
      <4>1. L + 1 \in 1 .. Len(way) /\ N \in L + 1 .. Len(way) /\ way \in Seq(Char)
        BY <1>1, <2>2, <2>5, <3>2 DEF N, Spelling
      <4>2. Head(rest) = way[L + 1] /\ Tail(rest) = SubSeq(way, (L + 1) + 1, N)
        BY <4>1, HeadTailOfSubSeq
      <4>3. rest # <<>>
        <5>1. rest \in Spelling /\ Len(rest) = N - (L + 1) + 1
          BY <1>1, <2>2, <3>2, SubSeqIsText DEF N
        <5>2. Len(rest) # 0
          BY <1>1, <2>2, <3>2, <5>1
        <5> HIDE DEF rest
        <5>3. QED
          BY <5>1, <5>2, SpellingFacts
      <4>4. (L + 1) + 1 = L + 2
        BY <2>2
      <4>5. RelPath(way, L) = Tail(rest)
        BY <2>5, <2>6, <3>2, <4>2, <4>3 DEF RelPath, Drop, StartsAtRoot, N
      <4>6. QED
        BY <4>2, <4>4, <4>5
    <3>3. QED
      BY <1>1, <2>2, <2>5, <3>1, <3>2
  <2>8. Behind(i) - 1 = L + 1
    BY <2>2, <2>4
  <2>9. QED
    BY <1>1, <1>2, <2>1, <2>2, <2>4, <2>5, <2>7, <2>8 DEF N
<1>5. QED
  BY <1>3, <1>4

LEMMA WalkOneMore ==
  ASSUME TreeTypes, Parents, MountTable, NEW start \in used \cup {NULL},
         NEW comps \in Texts, NEW nm \in Spelling
  PROVE  Walk(start, Append(comps, nm)) = Step(Walk(start, comps), nm)
<1> DEFINE X == used \cup {NULL}
           L == Len(comps)
           more == Append(comps, nm)
<1>1. L \in Nat /\ Len(more) = L + 1 /\ (\A q \in 1 .. L : more[q] = comps[q]) /\ more[L + 1] = nm
  BY AppendProperties DEF Texts
<1>2. start \in X /\ \A x \in X : \A c : Step(x, c) \in X
  BY StepStays
<1> HIDE DEF X, L, more
<1>3. PICK f : /\ f[0] = start
               /\ \A n \in 1 .. L + 1 : f[n] = Step(f[n - 1], more[n])
               /\ Walk(start, more) = f[L + 1]
  <2>1. Len(more) \in Nat
    BY <1>1
  <2>2. PICK f : /\ f[0] = start
                 /\ \A n \in 1 .. Len(more) : f[n] = Step(f[n - 1], more[n])
                 /\ \A n \in 0 .. Len(more) : f[n] \in X
                 /\ Walk(start, more) = f[Len(more)]
    BY <1>2, <2>1, WalkTraced
  <2>3. QED
    BY <1>1, <2>2
<1>4. PICK g : /\ g[0] = start
               /\ \A n \in 1 .. L : g[n] = Step(g[n - 1], comps[n])
               /\ Walk(start, comps) = g[L]
  <2>1. Len(comps) \in Nat
    BY <1>1 DEF L
  <2>2. PICK g : /\ g[0] = start
                 /\ \A n \in 1 .. Len(comps) : g[n] = Step(g[n - 1], comps[n])
                 /\ \A n \in 0 .. Len(comps) : g[n] \in X
                 /\ Walk(start, comps) = g[Len(comps)]
    BY <1>2, <2>1, WalkTraced
  <2>3. QED
    BY <2>2 DEF L
<1> DEFINE P == [n \in 0 .. L |-> {g[n]}]
<1>5. f[0] \in P[0]
  BY <1>1, <1>3, <1>4
<1>6. ASSUME NEW n \in 1 .. L, f[n - 1] \in P[n - 1] PROVE f[n] \in P[n]
  <2>1. n \in 0 .. L /\ n - 1 \in 0 .. L /\ n \in 1 .. L + 1
    BY <1>1
  <2>2. f[n - 1] = g[n - 1] /\ more[n] = comps[n]
    BY <1>1, <1>6, <2>1
  <2>3. f[n] = g[n]
    BY <1>3, <1>4, <2>1, <2>2
  <2>4. QED
    BY <2>1, <2>3
<1> HIDE DEF P
<1>7. \A n \in 0 .. L : f[n] \in P[n]
  BY <1>1, <1>5, <1>6, TraceKeeps
<1>8. f[L] = g[L]
  <2>1. L \in 0 .. L
    BY <1>1
  <2>2. QED
    BY <1>7, <2>1 DEF P
<1>9. f[L + 1] = Step(f[L], nm)
  <2>1. L + 1 \in 1 .. L + 1 /\ L + 1 - 1 = L
    BY <1>1
  <2>2. QED
    BY <1>1, <1>3, <2>1
<1>10. QED
  BY <1>3, <1>4, <1>8, <1>9 DEF more

NameOf(way) == Drop(way, LastSlash(way))

LEMMA LastSlashFacts ==
  ASSUME NEW way \in Spelling, Len(way) > 0, way[1] = "/"
  PROVE  /\ LastSlash(way) \in 1 .. Len(way) /\ way[LastSlash(way)] = "/"
         /\ \A q \in LastSlash(way) + 1 .. Len(way) : way[q] # "/"
<1> DEFINE I == {i \in 1 .. Len(way) : way[i] = "/"}
<1>1. LastSlash(way) = IF I # {} THEN Max(I) ELSE 0
  BY DEF LastSlash, SelectLastInSeq
<1>2. I \in SUBSET Nat /\ Len(way) \in Nat /\ \A n \in I : n =< Len(way)
  BY SpellingFacts
<1>3. 1 \in I
  BY <1>2
<1>4. LastSlash(way) \in I /\ \A n \in I : n =< LastSlash(way)
  BY <1>1, <1>2, <1>3, Greatest
<1>5. ASSUME NEW q \in LastSlash(way) + 1 .. Len(way) PROVE way[q] # "/"
  <2>1. q \in 1 .. Len(way) /\ ~(q =< LastSlash(way))
    BY <1>2, <1>4
  <2>2. QED
    BY <1>4, <2>1
<1>6. QED
  BY <1>4, <1>5

\* A path that is not mounted at is found by its name in what is found above it.
LEMMA NameFound ==
  ASSUME TreeTypes, Parents, MountTable, NormalMounts, vfs_root # NULL,
         NEW way, Normal(way), way # Root, \A i \in DOMAIN mounts : mounts[i].mount_path # way
  PROVE  vfs_find(way) = Step(vfs_find(ParentPath(way)), NameOf(way))
<1> DEFINE N  == Len(way)
           c  == LastSlash(way)
           pp == ParentPath(way)
           P  == IF c = 1 THEN 1 ELSE c - 1
           i  == BestMount(way)
           K  == Behind(i)
<1>1. way \in Spelling /\ N \in Nat /\ N > 1 /\ way[1] = "/" /\ way[N] # "/" /\ NoDoubleSlash(way)
  <2>1. way \in Spelling /\ N \in Nat /\ N > 0 /\ way[1] = "/" /\ NoDoubleSlash(way) /\ (N > 1 => way[N] # "/")
    BY SpellingFacts DEF Normal, Rooted
  <2>2. N # 1
    <3>1. SUFFICES ASSUME N = 1 PROVE FALSE
      OBVIOUS
    <3>2. Len(way) = Len(Root) /\ \A q \in 1 .. Len(way) : way[q] = Root[q]
      BY <2>1, <3>1, RootIsText
    <3>3. way \in Seq(Char) /\ Root \in Seq(Char)
      BY <2>1, RootIsText DEF Spelling
    <3>4. way = Root
      BY <3>2, <3>3, SeqEqual
    <3>5. QED
      BY <3>4
  <2> HIDE DEF N
  <2>3. N > 1
    BY <2>1, <2>2
  <2>4. QED
    BY <2>1, <2>3
<1>2. c \in 1 .. N /\ way[c] = "/" /\ \A q \in c + 1 .. N : way[q] # "/"
  BY <1>1, LastSlashFacts
<1> HIDE DEF c
<1>3. \A q \in 1 .. N - 1 : way[q] # "/" \/ way[q + 1] # "/"
  BY <1>1 DEF NoDoubleSlash
<1> HIDE DEF N
<1>4. c \in Nat /\ c > 0 /\ c < N /\ c # 2 /\ P \in Nat /\ P > 0 /\ P =< N /\ P =< c
  <2>1. c # N /\ c \in Nat /\ c > 0 /\ c =< N
    BY <1>1, <1>2
  <2>2. c # 2
    <3>1. SUFFICES ASSUME c = 2 PROVE FALSE
      OBVIOUS
    <3>2. 1 \in 1 .. N - 1 /\ 1 + 1 = 2
      BY <1>1
    <3>3. QED
      BY <1>1, <1>2, <1>3, <3>1, <3>2
  <2>3. QED
    BY <1>1, <2>1, <2>2
<1>5. pp \in Spelling /\ Len(pp) = P /\ \A q \in 1 .. P : pp[q] = way[q]
  <2>1. CASE c = 1
    <3>1. pp = Root
      BY <2>1 DEF ParentPath, c
    <3>2. QED
      BY <1>1, <2>1, <3>1, RootIsText
  <2>2. CASE c # 1
    <3> DEFINE e == c - 1
    <3>1. pp = SubSeq(way, 1, e)
      BY <2>2 DEF ParentPath, c
    <3>2. e \in Nat /\ e > 0 /\ e =< N /\ e = P /\ \A q \in 1 .. e : 1 + q - 1 = q
      BY <1>1, <1>4, <2>2
    <3> HIDE DEF e
    <3>3. /\ SubSeq(way, 1, e) \in Spelling /\ Len(SubSeq(way, 1, e)) = e - 1 + 1
          /\ \A q \in 1 .. e - 1 + 1 : SubSeq(way, 1, e)[q] = way[1 + q - 1]
      BY <1>1, <3>2, SubSeqIsText DEF N
    <3>4. QED
      BY <3>1, <3>2, <3>3
  <2>3. QED
    BY <2>1, <2>2
<1> HIDE DEF pp
<1>6. i = BestMount(pp)
  <2>1. ASSUME NEW j \in DOMAIN mounts
        PROVE  is_mount_prefix_match(way, mounts[j].mount_path)
               <=> is_mount_prefix_match(pp, mounts[j].mount_path)
    <3> DEFINE m == mounts[j].mount_path
               M == Len(m)
    <3>1. m \in Spelling /\ m # Root /\ m # way /\ M \in Nat /\ M > 0 /\ m[1] = "/"
      BY SpellingFacts DEF NormalMounts, Normal, Rooted
    <3> HIDE DEF m, M
    <3>2. M > 1
      <4>1. SUFFICES ASSUME M = 1 PROVE FALSE
        BY <3>1
      <4>2. M = Len(Root) /\ \A q \in 1 .. M : m[q] = Root[q]
        BY <3>1, <4>1, RootIsText
      <4>3. QED
        BY <3>1, <4>2, RootIsText, SeqEqual DEF Spelling, M
    <3>3. ASSUME is_mount_prefix_match(way, m) PROVE is_mount_prefix_match(pp, m)
      <4>1. M =< N /\ (\A q \in 1 .. M : m[q] = way[q]) /\ (N > M => way[M + 1] = "/")
        BY <1>1, <3>1, <3>3, MatchMeans DEF M, N
      <4>2. M # N
        <5>1. SUFFICES ASSUME M = N PROVE FALSE
          OBVIOUS
        <5>2. m = way
          BY <1>1, <3>1, <4>1, <5>1, SeqEqual DEF Spelling, M, N
        <5>3. QED
          BY <3>1, <5>2
      <4>3. M < N /\ way[M + 1] = "/" /\ M + 1 \in 1 .. N
        BY <1>1, <3>1, <4>1, <4>2
      <4>4. M + 1 =< c
        BY <1>1, <1>2, <1>4, <3>1, <4>3
      <4>5. c # 1 /\ P = c - 1 /\ M =< P
        BY <1>4, <3>1, <3>2, <4>4
      <4>6. \A q \in 1 .. M : m[q] = pp[q]
        BY <1>4, <1>5, <3>1, <4>1, <4>5
      <4>7. P > M => pp[M + 1] = "/"
        BY <1>4, <1>5, <3>1, <4>3
      <4>8. QED
        BY <1>5, <3>1, <4>5, <4>6, <4>7, MatchMeans DEF M
    <3>4. ASSUME is_mount_prefix_match(pp, m) PROVE is_mount_prefix_match(way, m)
      <4>1. M =< P /\ (\A q \in 1 .. M : m[q] = pp[q]) /\ (P > M => pp[M + 1] = "/")
        BY <1>5, <3>1, <3>4, MatchMeans DEF M
      <4>2. P = c - 1
        BY <1>4, <3>1, <3>2, <4>1
      <4>3. M =< N /\ \A q \in 1 .. M : m[q] = way[q]
        BY <1>1, <1>4, <1>5, <3>1, <4>1
      <4>4. way[M + 1] = "/"
        <5>1. CASE M = P
          BY <1>2, <1>4, <4>2, <5>1
        <5>2. CASE M # P
          BY <1>4, <1>5, <3>1, <4>1, <5>2
        <5>3. QED
          BY <5>1, <5>2
      <4>5. QED
        BY <1>1, <3>1, <4>3, <4>4, MatchMeans DEF M, N
    <3>5. QED
      BY <3>3, <3>4 DEF m
  <2>2. QED
    BY <2>1, BestMountSame
<1>7. /\ vfs_find(way) = Walk(Start(i), Components(SubSeq(way, K, N)))
      /\ i = 0 \/ i \in DOMAIN mounts
      /\ K \in Nat /\ K > 1
      /\ K - 1 =< N => way[K - 1] = "/"
  BY <1>1, FindWalks DEF N
<1>8. /\ vfs_find(pp) = Walk(Start(i), Components(SubSeq(pp, K, P)))
      /\ K =< P + 2
  <2>1. Len(pp) > 0 /\ pp[1] = "/"
    BY <1>1, <1>4, <1>5
  <2>2. /\ vfs_find(pp) = Walk(Start(i), Components(SubSeq(pp, K, Len(pp))))
        /\ K =< Len(pp) + 2
    BY <1>5, <1>6, <2>1, FindWalks
  <2>3. QED
    BY <1>5, <2>2
<1> HIDE DEF K, P
<1>9. K = c + 1 \/ K < c
  <2>1. K - 1 =< c
    <3>1. CASE c = 1
      <4>1. K =< 3
        BY <1>8, <3>1 DEF P
      <4>2. K - 1 \in 1 .. N /\ way[K - 1] = "/"
        BY <1>1, <1>7, <4>1
      <4>3. QED
        BY <1>2, <1>4, <1>7, <4>2
    <3>2. CASE c # 1
      BY <1>4, <1>7, <1>8, <3>2 DEF P
    <3>3. QED
      BY <3>1, <3>2
  <2>2. K # c
    <3>1. SUFFICES ASSUME K = c PROVE FALSE
      OBVIOUS
    <3>2. K - 1 \in 1 .. N - 1 /\ K - 1 =< N /\ K - 1 + 1 = K
      BY <1>1, <1>4, <1>7, <3>1
    <3>3. QED
      BY <1>2, <1>3, <1>7, <3>1, <3>2
  <2>3. QED
    BY <1>4, <1>7, <2>1, <2>2
<1> DEFINE rel == SubSeq(way, K, N)
           d == c - K + 1
           R == N - K + 1
<1>10. rel \in Spelling /\ Len(rel) = R /\ \A q \in 1 .. R : rel[q] = way[K + q - 1]
  <2>1. K > 0 /\ N \in Int /\ K =< N
    BY <1>1, <1>4, <1>7, <1>9
  <2>2. QED
    BY <1>1, <1>7, <2>1, SubSeqIsText DEF N
<1>11. d \in Nat /\ d < R /\ d # 1 /\ K + d - 1 = c /\ K + R - 1 = N
       /\ R \in Nat /\ (d # 0 <=> K < c)
  BY <1>1, <1>4, <1>7, <1>9
<1> HIDE DEF rel
<1>12. d = 0 \/ rel[d] = "/"
  <2>1. SUFFICES ASSUME d # 0 PROVE rel[d] = "/"
    OBVIOUS
  <2>2. d \in 1 .. R
    BY <1>11, <2>1
  <2>3. QED
    BY <1>2, <1>10, <1>11, <2>2
<1>13. ASSUME NEW q \in d + 1 .. R PROVE rel[q] # "/" /\ K + q - 1 \in c + 1 .. N /\ rel[q] = way[K + q - 1]
  <2>1. q \in 1 .. R /\ K + q - 1 \in c + 1 .. N
    BY <1>1, <1>4, <1>7, <1>11
  <2>2. QED
    BY <1>2, <1>10, <2>1
<1> HIDE DEF d, R
<1>14. Components(rel) = Append(Components(SubSeq(rel, 1, d - 1)), SubSeq(rel, d + 1, R))
  BY <1>10, <1>11, <1>12, <1>13, OneComponentMore
<1>15. SubSeq(rel, 1, d - 1) = SubSeq(pp, K, P)
  <2>1. CASE d = 0
    <3>1. K = c + 1 /\ P < K
      BY <1>4, <1>7, <1>9, <1>11, <2>1
    <3>2. QED
      BY <1>4, <1>7, <2>1, <3>1, SubSeqEmpty
  <2>2. CASE d # 0
    <3> DEFINE e == d - 1
               s == SubSeq(rel, 1, e)
               t == SubSeq(pp, K, P)
    <3>1. e \in Nat /\ e > 0 /\ e =< R /\ e - 1 + 1 = e /\ P = c - 1 /\ P - K + 1 = e /\ K > 0 /\ K =< P
      BY <1>4, <1>7, <1>11, <2>2 DEF P, d
    <3> HIDE DEF e
    <3>2. s \in Spelling /\ Len(s) = e /\ \A q \in 1 .. e : s[q] = rel[1 + q - 1]
      <4>1. /\ s \in Spelling /\ Len(s) = IF 1 =< e THEN e - 1 + 1 ELSE 0
            /\ \A q \in 1 .. e - 1 + 1 : s[q] = rel[1 + q - 1]
        BY <1>10, <3>1, SubSeqIsText
      <4>2. QED
        BY <3>1, <4>1
    <3>3. t \in Spelling /\ Len(t) = e /\ \A q \in 1 .. e : t[q] = pp[K + q - 1]
      <4>1. /\ t \in Spelling /\ Len(t) = IF K =< P THEN P - K + 1 ELSE 0
            /\ \A q \in 1 .. P - K + 1 : t[q] = pp[K + q - 1]
        BY <1>4, <1>5, <1>7, <3>1, SubSeqIsText
      <4>2. QED
        BY <3>1, <4>1
    <3> HIDE DEF s, t
    <3>4. ASSUME NEW q \in 1 .. e PROVE s[q] = t[q]
      <4>1. q \in 1 .. R /\ 1 + q - 1 = q /\ K + q - 1 \in 1 .. P
        BY <1>4, <1>7, <1>11, <3>1
      <4>2. QED
        BY <1>5, <1>10, <3>2, <3>3, <4>1
    <3>5. s = t
      BY <3>2, <3>3, <3>4, SeqEqual DEF Spelling
    <3>6. QED
      BY <3>5 DEF s, t, e
  <2>3. QED
    BY <2>1, <2>2
<1>16. SubSeq(rel, d + 1, R) = NameOf(way) /\ NameOf(way) \in Spelling
  <2> DEFINE s == SubSeq(rel, d + 1, R)
             t == SubSeq(way, c + 1, N)
             W == N - c
  <2>1. /\ d + 1 \in Nat /\ d + 1 > 0 /\ d + 1 =< R /\ R - (d + 1) + 1 = W
        /\ c + 1 \in Nat /\ c + 1 > 0 /\ c + 1 =< N /\ N - (c + 1) + 1 = W /\ R \in Int /\ N \in Int
    BY <1>1, <1>4, <1>7, <1>11
  <2>2. s \in Spelling /\ Len(s) = W /\ \A q \in 1 .. W : s[q] = rel[(d + 1) + q - 1]
    <3>1. /\ s \in Spelling /\ Len(s) = IF d + 1 =< R THEN R - (d + 1) + 1 ELSE 0
          /\ \A q \in 1 .. R - (d + 1) + 1 : s[q] = rel[(d + 1) + q - 1]
      BY <1>10, <2>1, SubSeqIsText
    <3>2. QED
      BY <2>1, <3>1
  <2>3. t \in Spelling /\ Len(t) = W /\ \A q \in 1 .. W : t[q] = way[(c + 1) + q - 1]
    <3>1. /\ t \in Spelling /\ Len(t) = IF c + 1 =< N THEN N - (c + 1) + 1 ELSE 0
          /\ \A q \in 1 .. N - (c + 1) + 1 : t[q] = way[(c + 1) + q - 1]
      BY <1>1, <2>1, SubSeqIsText DEF N
    <3>2. QED
      BY <2>1, <3>1
  <2> HIDE DEF s, t
  <2>4. ASSUME NEW q \in 1 .. W PROVE s[q] = t[q]
    <3>1. (d + 1) + q - 1 \in d + 1 .. R /\ K + ((d + 1) + q - 1) - 1 = (c + 1) + q - 1
      BY <1>1, <1>4, <1>7, <1>11, <2>1
    <3>2. QED
      BY <1>13, <2>2, <2>3, <3>1
  <2>5. s = t
    BY <2>2, <2>3, <2>4, SeqEqual DEF Spelling
  <2>6. NameOf(way) = t
    BY DEF NameOf, Drop, c, t, N
  <2>7. QED
    BY <2>3, <2>5, <2>6 DEF s
<1>17. Start(i) \in used \cup {NULL}
  <2>1. CASE i = 0
    BY <2>1 DEF Start, TreeTypes
  <2>2. CASE i # 0
    BY <1>7, <2>2 DEF Start, MountTable
  <2>3. QED
    BY <2>1, <2>2
<1>18. Components(SubSeq(pp, K, P)) \in Texts
  <2> DEFINE e == d - 1
             s == SubSeq(rel, 1, e)
  <2>1. e \in Int /\ e =< Len(rel)
    BY <1>10, <1>11
  <2> HIDE DEF e
  <2>2. s \in Spelling
    <3>1. rel \in Spelling /\ 1 \in Nat /\ 1 > 0
      BY <1>10
    <3>2. SubSeq(rel, 1, e) \in Spelling
      BY <2>1, <3>1, SubSeqIsText
    <3>3. QED
      BY <3>2
  <2> HIDE DEF s
  <2>3. Len(s) \in 0 .. Len(s)
    BY <2>2, SpellingFacts
  <2>4. Components(s) \in Texts
    BY <2>2, <2>3, ComponentsTraced
  <2>5. QED
    BY <1>15, <2>4 DEF s, e
<1>19. Walk(Start(i), Append(Components(SubSeq(pp, K, P)), NameOf(way)))
         = Step(Walk(Start(i), Components(SubSeq(pp, K, P))), NameOf(way))
  BY <1>16, <1>17, <1>18, WalkOneMore
<1>20. QED
  BY <1>7, <1>8, <1>14, <1>15, <1>16, <1>19 DEF rel, pp

-----------------------------------------------------------------------------
(* Plain spellings.                                                        *)

LEMMA PrefixMore ==
  ASSUME NEW q \in Spelling, NEW m \in Nat, m < Len(q)
  PROVE  /\ SubSeq(q, 1, m) \in Spelling /\ Len(SubSeq(q, 1, m)) = m
         /\ \A i \in 1 .. m : SubSeq(q, 1, m)[i] = q[i]
         /\ Append(SubSeq(q, 1, m), q[m + 1]) = SubSeq(q, 1, m + 1)
<1> DEFINE s == SubSeq(q, 1, m)
           t == SubSeq(q, 1, m + 1)
<1>1. Len(q) \in Nat /\ m + 1 \in 1 .. Len(q) /\ q[m + 1] \in Char
  BY SpellingFacts
<1>2. s \in Spelling /\ Len(s) = m /\ \A i \in 1 .. m : s[i] = q[i]
  <2>1. /\ s \in Spelling /\ Len(s) = IF 1 =< m THEN m - 1 + 1 ELSE 0
        /\ \A i \in 1 .. m - 1 + 1 : s[i] = q[1 + i - 1]
    BY <1>1, SubSeqIsText
  <2>2. \A i \in 1 .. m : i \in 1 .. m - 1 + 1 /\ 1 + i - 1 = i
    OBVIOUS
  <2>3. QED
    BY <2>1, <2>2
<1>3. t \in Spelling /\ Len(t) = m + 1 /\ \A i \in 1 .. m + 1 : t[i] = q[i]
  <2> DEFINE e == m + 1
  <2>1. e \in Nat /\ e > 0 /\ e =< Len(q)
    BY <1>1
  <2> HIDE DEF e
  <2>2. /\ SubSeq(q, 1, e) \in Spelling /\ Len(SubSeq(q, 1, e)) = e - 1 + 1
        /\ \A i \in 1 .. e - 1 + 1 : SubSeq(q, 1, e)[i] = q[1 + i - 1]
    BY <2>1, SubSeqIsText
  <2>3. e - 1 + 1 = e /\ \A i \in 1 .. e : 1 + i - 1 = i
    BY <2>1
  <2>4. QED
    BY <2>2, <2>3 DEF e
<1> HIDE DEF s, t
<1>4. Append(s, q[m + 1]) = t
  <2>1. /\ Append(s, q[m + 1]) \in Seq(Char) /\ Len(Append(s, q[m + 1])) = m + 1
        /\ \A i \in 1 .. m : Append(s, q[m + 1])[i] = s[i]
        /\ Append(s, q[m + 1])[m + 1] = q[m + 1]
    BY <1>1, <1>2, AppendProperties DEF Spelling
  <2>2. \A i \in 1 .. m + 1 : Append(s, q[m + 1])[i] = t[i]
    BY <1>2, <1>3, <2>1
  <2>3. QED
    BY <1>3, <2>1, <2>2, SeqEqual DEF Spelling
<1>5. QED
  BY <1>2, <1>4 DEF s, t

\* A plain spelling is absolute as it is, or with a slash in front.
LEMMA AbsoluteIsPlain ==
  ASSUME NEW p \in Spelling, Plain(p)
  PROVE  \E o \in {0, 1} :
           /\ o = 0 <=> StartsAtRoot(p)
           /\ Absolute(p) \in Spelling /\ Len(Absolute(p)) = o + Len(p) /\ Absolute(p)[1] = "/"
           /\ \A i \in 1 .. Len(p) : Absolute(p)[o + i] = p[i]
           /\ NoDoubleSlash(Absolute(p)) /\ Len(Absolute(p)) < VFS_MAX_PATH /\ Len(Absolute(p)) > 0
<1>1. Len(p) \in Nat /\ VFS_MAX_PATH \in Nat
  BY SpellingFacts, PathAssumption
<1>2. CASE StartsAtRoot(p)
  <2>1. Absolute(p) = p
    BY <1>2 DEF Absolute
  <2>2. p[1] = "/" /\ Len(p) > 0 /\ Len(p) < VFS_MAX_PATH /\ Len(p) = 0 + Len(p)
        /\ \A i \in 1 .. Len(p) : 0 + i = i
    BY <1>1, <1>2, SpellingFacts DEF Plain
  <2>3. QED
    BY <1>2, <2>1, <2>2 DEF Plain
<1>3. CASE ~StartsAtRoot(p)
  <2> DEFINE q == Root \o p
             m == Min({Len(q), VFS_MAX_PATH - 1})
  <2>1. /\ q \in Spelling /\ Len(q) = 1 + Len(p) /\ q[1] = "/"
        /\ \A i \in 1 .. Len(p) : q[1 + i] = p[i]
    <3>1. Root \in Seq(Char) /\ p \in Seq(Char) /\ Len(Root) = 1 /\ Root[1] = "/"
      BY RootIsText DEF Spelling
    <3>2. /\ q \in Seq(Char) /\ Len(q) = Len(Root) + Len(p)
          /\ \A i \in 1 .. Len(Root) + Len(p) : q[i] = IF i <= Len(Root) THEN Root[i] ELSE p[i - Len(Root)]
      BY <3>1, ConcatProperties
    <3>3. \A i \in 1 .. Len(p) : 1 + i \in 1 .. 1 + Len(p) /\ ~(1 + i <= 1) /\ (1 + i) - 1 = i
      BY <1>1
    <3> HIDE DEF q
    <3>4. QED
      BY <1>1, <3>1, <3>2, <3>3 DEF Spelling
  <2> HIDE DEF q
  <2>2. m = Len(q)
    <3>1. Len(q) \in Nat /\ VFS_MAX_PATH - 1 \in Nat /\ Len(q) =< VFS_MAX_PATH - 1
      BY <1>1, <2>1 DEF Plain
    <3>2. {Len(q), VFS_MAX_PATH - 1} \in SUBSET Nat /\ {Len(q), VFS_MAX_PATH - 1} # {}
      BY <3>1
    <3>3. m \in {Len(q), VFS_MAX_PATH - 1} /\ m =< Len(q)
      BY <3>2, Smallest
    <3>4. QED
      BY <3>1, <3>3
  <2>3. Absolute(p) = q
    <3>1. Absolute(p) = SubSeq(q, 1, Len(q))
      BY <1>3, <2>2 DEF Absolute, Cut, q
    <3>2. QED
      BY <2>1, <3>1, SubSeqFull DEF Spelling
  <2>4. ASSUME NEW i \in 1 .. Len(q) - 1 PROVE q[i] # "/" \/ q[i + 1] # "/"
    <3>1. CASE i = 1
      <4>1. Len(p) > 0 /\ q[1 + 1] = p[1]
        BY <1>1, <2>1, <3>1
      <4>2. QED
        BY <1>3, <3>1, <4>1, SpellingFacts
    <3>2. CASE i # 1
      <4> DEFINE j == i - 1
      <4>1. j \in 1 .. Len(p) - 1 /\ j \in 1 .. Len(p) /\ j + 1 \in 1 .. Len(p) /\ 1 + j = i /\ 1 + (j + 1) = i + 1
        BY <1>1, <2>1, <3>2
      <4> HIDE DEF j
      <4>2. p[j] # "/" \/ p[j + 1] # "/"
        BY <4>1 DEF Plain, NoDoubleSlash
      <4>3. q[1 + j] = p[j] /\ q[1 + (j + 1)] = p[j + 1]
        BY <2>1, <4>1
      <4>4. QED
        BY <4>1, <4>2, <4>3
    <3>3. QED
      BY <3>1, <3>2
  <2>5. NoDoubleSlash(q) /\ Len(q) < VFS_MAX_PATH /\ Len(q) > 0
    BY <1>1, <2>1, <2>4 DEF NoDoubleSlash, Plain
  <2>6. QED
    BY <1>3, <2>1, <2>3, <2>5
<1>4. QED
  BY <1>2, <1>3

LEMMA PlainCollapse ==
  ASSUME NEW p \in Spelling, Plain(p)
  PROVE  Collapse(p) = Absolute(p)
<1> DEFINE q == Absolute(p)
           N == Len(p)
<1>1. PICK o \in {0, 1} :
           /\ o = 0 <=> StartsAtRoot(p)
           /\ q \in Spelling /\ Len(q) = o + N /\ q[1] = "/"
           /\ \A i \in 1 .. N : q[o + i] = p[i]
           /\ NoDoubleSlash(q) /\ Len(q) < VFS_MAX_PATH /\ Len(q) > 0
  BY AbsoluteIsPlain
<1>2. N \in Nat /\ VFS_MAX_PATH \in Nat /\ o \in Nat
  BY SpellingFacts, PathAssumption
<1> HIDE DEF q, N
<1>3. PICK out : /\ out[0] = IF StartsAtRoot(p) THEN <<>> ELSE Root
                 /\ \A n \in 1 .. N : out[n] = Collapsed(out[n - 1], p[n])
                 /\ Collapse(p) = out[N]
  BY CollapseTraced DEF N
<1> DEFINE P == [n \in 0 .. N |-> {SubSeq(q, 1, o + n)}]
<1>4. out[0] \in P[0]
  <2>1. CASE o = 0
    <3>1. out[0] = <<>> /\ 0 \in 0 .. N
      BY <1>1, <1>2, <1>3, <2>1
    <3>2. SubSeq(q, 1, 0) = <<>>
      BY SubSeqEmpty
    <3>3. QED
      BY <2>1, <3>1, <3>2
  <2>2. CASE o = 1
    <3>1. out[0] = Root /\ 0 \in 0 .. N /\ o + 0 = 1
      BY <1>1, <1>2, <1>3, <2>2
    <3> DEFINE s == SubSeq(q, 1, 1)
    <3>2. s \in Spelling /\ Len(s) = 1 /\ s[1] = q[1]
      <4>1. /\ s \in Spelling /\ Len(s) = 1 - 1 + 1
            /\ \A i \in 1 .. 1 - 1 + 1 : s[i] = q[1 + i - 1]
        BY <1>1, <1>2, <2>2, SubSeqIsText
      <4>2. QED
        BY <4>1
    <3> HIDE DEF s
    <3>3. s = Root
      <4>1. Len(s) = Len(Root) /\ \A i \in 1 .. Len(s) : s[i] = Root[i]
        BY <1>1, <3>2, RootIsText
      <4>2. QED
        BY <3>2, <4>1, RootIsText, SeqEqual DEF Spelling
    <3>4. QED
      BY <3>1, <3>3 DEF s
  <2>3. QED
    BY <2>1, <2>2
<1>5. ASSUME NEW n \in 1 .. N, out[n - 1] \in P[n - 1] PROVE out[n] \in P[n]
  <2> DEFINE m == o + n - 1
             x == SubSeq(q, 1, m)
  <2>1. /\ m \in Nat /\ m < Len(q) /\ m + 1 = o + n /\ o + (n - 1) = m
        /\ n \in 0 .. N /\ n - 1 \in 0 .. N /\ m + 1 < VFS_MAX_PATH
    BY <1>1, <1>2
  <2>2. out[n - 1] = x
    BY <1>5, <2>1
  <2> HIDE DEF m
  <2>3. /\ x \in Spelling /\ Len(x) = m /\ \A i \in 1 .. m : x[i] = q[i]
        /\ Append(x, q[m + 1]) = SubSeq(q, 1, m + 1)
    BY <1>1, <2>1, PrefixMore
  <2> HIDE DEF x
  <2>4. p[n] = q[m + 1]
    BY <1>1, <2>1
  <2>5. ~(p[n] = "/" /\ x # <<>> /\ Last(x) = "/")
    <3>1. SUFFICES ASSUME p[n] = "/", x # <<>>, Last(x) = "/" PROVE FALSE
      OBVIOUS
    <3>2. m > 0 /\ m \in 1 .. m /\ m \in 1 .. Len(q) - 1
      BY <1>1, <2>1, <2>3, <3>1, SpellingFacts
    <3>3. q[m] = "/"
      BY <2>3, <3>1, <3>2 DEF Last
    <3>4. QED
      BY <1>1, <2>4, <3>1, <3>2, <3>3 DEF NoDoubleSlash
  <2>6. Collapsed(x, p[n]) = Append(x, p[n])
    <3>1. ~(Len(x) + 1 >= VFS_MAX_PATH)
      BY <1>2, <2>1, <2>3
    <3>2. QED
      BY <2>5, <3>1 DEF Collapsed
  <2>7. out[n] = SubSeq(q, 1, o + n)
    BY <1>3, <2>1, <2>2, <2>3, <2>4, <2>6
  <2>8. QED
    BY <2>1, <2>7
<1> HIDE DEF P
<1>6. \A n \in 0 .. N : out[n] \in P[n]
  BY <1>2, <1>4, <1>5, TraceKeeps
<1>7. N \in 0 .. N /\ o + N = Len(q)
  BY <1>1, <1>2
<1>8. Collapse(p) = SubSeq(q, 1, Len(q))
  BY <1>3, <1>6, <1>7 DEF P
<1>9. SubSeq(q, 1, Len(q)) = q
  BY <1>1, SubSeqFull DEF Spelling
<1>10. QED
  BY <1>8, <1>9 DEF q

\* A plain spelling is found where its normal path is.
LEMMA PlainFound ==
  ASSUME TreeTypes, Parents, MountTable, NormalMounts, vfs_root # NULL,
         NEW p \in Spelling, Plain(p)
  PROVE  vfs_find(p) = vfs_find(normalize_abs_path(p))
<1> DEFINE q == Absolute(p)
           N == Len(q)
           way == normalize_abs_path(p)
<1>1. q \in Spelling /\ N \in Nat /\ N > 0 /\ q[1] = "/" /\ NoDoubleSlash(q)
  BY AbsoluteIsPlain, SpellingFacts
<1>2. Absolute(q) = q
  BY <1>1, SpellingFacts DEF Absolute
<1>3. vfs_find(p) = vfs_find(q)
  BY <1>2 DEF vfs_find
<1>4. way = Trim(q)
  BY PlainCollapse DEF normalize_abs_path
<1> HIDE DEF q, way
<1>5. way = IF N > 1 /\ q[N] = "/" THEN SubSeq(q, 1, N - 1) ELSE q
  BY <1>4 DEF Trim, Last, Front
<1>6. CASE ~(N > 1 /\ q[N] = "/")
  BY <1>3, <1>5, <1>6 DEF way
<1>7. CASE N > 1 /\ q[N] = "/"
  <2> DEFINE M == N - 1
             i == BestMount(q)
             B == Behind(i)
  <2>0. \A j \in 1 .. M : q[j] # "/" \/ q[j + 1] # "/"
    BY <1>1 DEF NoDoubleSlash
  <2> HIDE DEF N
  <2>1. M \in Nat /\ M + 1 = N /\ M > 0 /\ M < N /\ M \in 1 .. M /\ 1 \in 1 .. M
    BY <1>1, <1>7
  <2>2. way = SubSeq(q, 1, M)
    BY <1>5, <1>7
  <2> HIDE DEF M
  <2>3. way \in Spelling /\ Len(way) = M /\ \A j \in 1 .. M : way[j] = q[j]
    BY <1>1, <2>1, <2>2, PrefixMore DEF N
  <2>4. q[M] # "/" /\ M > 1
    <3>1. q[M] # "/"
      BY <1>7, <2>0, <2>1
    <3>2. M # 1
      BY <1>1, <3>1
    <3>3. QED
      BY <2>1, <3>1, <3>2
  <2>5. i = BestMount(way)
    <3>1. ASSUME NEW j \in DOMAIN mounts
          PROVE  is_mount_prefix_match(q, mounts[j].mount_path)
                 <=> is_mount_prefix_match(way, mounts[j].mount_path)
      <4> DEFINE m == mounts[j].mount_path
                 L == Len(m)
      <4>1. m \in Spelling /\ L \in Nat /\ L > 0 /\ (L > 1 => m[L] # "/")
        BY SpellingFacts DEF NormalMounts, Normal, Rooted
      <4> HIDE DEF m, L
      <4>2. is_mount_prefix_match(q, m) <=>
              L =< N /\ (\A j1 \in 1 .. L : m[j1] = q[j1]) /\ (N > L => q[L + 1] = "/")
        BY <1>1, <4>1, MatchMeans DEF N, L
      <4>3. is_mount_prefix_match(way, m) <=>
              L =< M /\ (\A j1 \in 1 .. L : m[j1] = way[j1]) /\ (M > L => way[L + 1] = "/")
        BY <2>3, <4>1, MatchMeans DEF L
      <4>4. ASSUME is_mount_prefix_match(q, m) PROVE is_mount_prefix_match(way, m)
        <5>1. L =< N /\ (\A j1 \in 1 .. L : m[j1] = q[j1]) /\ (N > L => q[L + 1] = "/")
          BY <4>2, <4>4
        <5>2. L # N
          <6>1. SUFFICES ASSUME L = N PROVE FALSE
            OBVIOUS
          <6>2. L \in 1 .. L /\ L > 1
            BY <1>7, <4>1, <6>1
          <6>3. QED
            BY <1>7, <4>1, <5>1, <6>1, <6>2
        <5>3. L =< M /\ q[L + 1] = "/"
          BY <1>1, <2>1, <4>1, <5>1, <5>2
        <5>4. \A j1 \in 1 .. L : m[j1] = way[j1]
          BY <2>1, <2>3, <4>1, <5>1, <5>3
        <5>5. M > L => way[L + 1] = "/"
          BY <2>1, <2>3, <4>1, <5>3
        <5>6. QED
          BY <4>3, <5>3, <5>4, <5>5
      <4>5. ASSUME is_mount_prefix_match(way, m) PROVE is_mount_prefix_match(q, m)
        <5>1. L =< M /\ (\A j1 \in 1 .. L : m[j1] = way[j1]) /\ (M > L => way[L + 1] = "/")
          BY <4>3, <4>5
        <5>2. L =< N /\ \A j1 \in 1 .. L : m[j1] = q[j1]
          BY <1>1, <2>1, <2>3, <4>1, <5>1
        <5>3. q[L + 1] = "/"
          <6>1. CASE L = M
            BY <1>7, <2>1, <6>1
          <6>2. CASE L # M
            BY <2>1, <2>3, <4>1, <5>1, <6>2
          <6>3. QED
            BY <6>1, <6>2
        <5>4. QED
          BY <4>2, <5>2, <5>3
      <4>6. QED
        BY <4>4, <4>5 DEF m
    <3>2. QED
      BY <3>1, BestMountSame
  <2>6. /\ vfs_find(q) = Walk(Start(i), Components(SubSeq(q, B, N)))
        /\ B \in Nat /\ B > 1 /\ B - 1 =< N => q[B - 1] = "/"
        /\ B \in Nat /\ B > 1
    BY <1>1, FindWalks DEF N
  <2>7. /\ vfs_find(way) = Walk(Start(i), Components(SubSeq(way, B, M)))
        /\ B =< M + 2
    <3>1. Len(way) > 0 /\ way[1] = "/"
      BY <1>1, <2>1, <2>3
    <3>2. /\ vfs_find(way) = Walk(Start(i), Components(SubSeq(way, B, Len(way))))
          /\ B =< Len(way) + 2
      BY <2>3, <2>5, <3>1, FindWalks
    <3>3. QED
      BY <2>3, <3>2
  <2> HIDE DEF B, i
  <2>8. B # M + 1
    <3>1. SUFFICES ASSUME B = M + 1 PROVE FALSE
      OBVIOUS
    <3>2. B - 1 = M /\ M =< N
      BY <2>1, <3>1
    <3>3. QED
      BY <2>4, <2>6, <3>2
  <2>9. CASE B = M + 2
    <3>1. SubSeq(way, B, M) = <<>> /\ SubSeq(q, B, N) = <<>>
      BY <2>1, <2>6, <2>9, SubSeqEmpty
    <3>2. QED
      BY <1>3, <2>6, <2>7, <3>1 DEF way
  <2>10. CASE B < M + 1
    <3> DEFINE rel == SubSeq(q, B, N)
               s   == SubSeq(way, B, M)
               R   == N - B + 1
               S   == R - 1
    <3>1. B > 0 /\ B =< N /\ B =< M /\ R \in Nat /\ R > 1 /\ S \in Nat /\ S > 0 /\ S < R
          /\ M - B + 1 = S /\ B + R - 1 = N /\ S + 1 = R
      BY <1>1, <2>1, <2>6, <2>10
    <3>2. rel \in Spelling /\ Len(rel) = R /\ \A j \in 1 .. R : rel[j] = q[B + j - 1]
      BY <1>1, <2>6, <3>1, SubSeqIsText DEF N
    <3>3. s \in Spelling /\ Len(s) = S /\ \A j \in 1 .. S : s[j] = way[B + j - 1]
      <4>1. /\ s \in Spelling /\ Len(s) = M - B + 1
            /\ \A j \in 1 .. M - B + 1 : s[j] = way[B + j - 1]
        BY <2>1, <2>3, <2>6, <3>1, SubSeqIsText
      <4>2. QED
        BY <3>1, <4>1
    <3> HIDE DEF rel, s, R, S
    <3>4. rel[Len(rel)] = "/" /\ Len(rel) > 1
      <4>1. R \in 1 .. R
        BY <3>1
      <4>2. rel[R] = q[N]
        BY <3>1, <3>2, <4>1
      <4>3. QED
        BY <1>7, <3>1, <3>2, <4>2
    <3>5. Components(rel) = Components(SubSeq(rel, 1, S))
      <4>1. Components(rel) = Components(SubSeq(rel, 1, Len(rel) - 1))
        BY <3>2, <3>4, SlashAtTheEnd
      <4>2. Len(rel) - 1 = S
        BY <3>1, <3>2
      <4>3. QED
        BY <4>1, <4>2
    <3>6. SubSeq(rel, 1, S) = s
      <4> DEFINE t == SubSeq(rel, 1, S)
      <4>1. t \in Spelling /\ Len(t) = S /\ \A j \in 1 .. S : t[j] = rel[j]
        BY <3>1, <3>2, PrefixMore
      <4> HIDE DEF t
      <4>2. ASSUME NEW j \in 1 .. S PROVE t[j] = s[j]
        <5>1. j \in 1 .. R /\ B + j - 1 \in 1 .. M
          BY <2>1, <2>6, <3>1
        <5>2. QED
          BY <2>3, <3>2, <3>3, <4>1, <5>1
      <4>3. QED
        BY <3>3, <4>1, <4>2, SeqEqual DEF Spelling, t
    <3>7. QED
      BY <1>3, <2>6, <2>7, <3>5, <3>6 DEF rel, s, way
  <2>11. QED
    BY <2>1, <2>6, <2>7, <2>8, <2>9, <2>10
<1>8. QED
  BY <1>6, <1>7

-----------------------------------------------------------------------------
(* What was created is found, and a refusal has its reason.                *)

\* What the last creation came to, in the tree as it is now.
CreateOutcome ==
  last.call = "create" =>
    LET way == normalize_abs_path(last.path)
        d   == vfs_find(ParentPath(way))
    IN /\ last.path \in Paths
       /\ last.result = NULL =>
            \/ way = Root \/ d \notin Dir
            \/ \E kind \in {"dir", "file"} : ~RoomFor(d, NewName(way), kind)
       /\ last.result # NULL =>
            /\ way # Root /\ d \in Dir
            /\ last.result \in Named(d, NewName(way)) /\ mountpoint[last.result] = NULL

FindInv == TreeInv /\ NormalMounts /\ CreateOutcome

\* What vfs_create makes of a path: the directory is the same, the name is cut.
LEMMA MadeFacts ==
  ASSUME NEW way, Normal(way), way # Root
  PROVE  /\ Normal(Made(way)) /\ Made(way) # Root /\ Made(way) \in Spelling
         /\ ParentPath(Made(way)) = ParentPath(way)
         /\ NameOf(Made(way)) = NewName(way) /\ ~TooLong(NewName(way))
<1> DEFINE N    == Len(way)
           c    == LastSlash(way)
           d    == Drop(way, c)
           m    == Min({Len(d), VFS_MAX_NAME - 1})
           made == Made(way)
           M    == c + m
<1>1. way \in Spelling /\ N \in Nat /\ N > 1 /\ way[1] = "/" /\ way[N] # "/" /\ NoDoubleSlash(way)
      /\ N < VFS_MAX_PATH
  <2>1. /\ way \in Spelling /\ N \in Nat /\ N > 0 /\ way[1] = "/" /\ NoDoubleSlash(way)
        /\ N > 1 => way[N] # "/"
        /\ N < VFS_MAX_PATH
    BY SpellingFacts DEF Normal, Rooted
  <2>2. N # 1
    BY <2>1, RootIsText, SeqEqual DEF Spelling
  <2> HIDE DEF N
  <2>3. QED
    BY <2>1, <2>2
<1>2. c \in 1 .. N /\ way[c] = "/" /\ \A q \in c + 1 .. N : way[q] # "/"
  BY <1>1, LastSlashFacts
<1>3. made = SubSeq(way, 1, c + Len(NewName(way))) /\ NewName(way) = SubSeq(d, 1, m)
      /\ d = SubSeq(way, c + 1, N)
  BY DEF Made, NewName, Cut, Drop
<1>4. c \in Nat /\ c > 0 /\ c < N
  <2> HIDE DEF c, N
  <2>1. c # N
    BY <1>1, <1>2
  <2>2. QED
    BY <1>1, <1>2, <2>1
<1> HIDE DEF c, N
<1>5. d \in Spelling /\ Len(d) = N - c /\ \A q \in 1 .. N - c : d[q] = way[c + q]
  <2>1. c + 1 \in Int /\ c + 1 > 0 /\ N \in Int /\ N =< N /\ N - (c + 1) + 1 = N - c /\ c + 1 =< N
        /\ \A q \in 1 .. N - c : c + 1 + q - 1 = c + q
    BY <1>1, <1>4
  <2>2. /\ SubSeq(way, c + 1, N) \in Spelling
        /\ Len(SubSeq(way, c + 1, N)) = N - (c + 1) + 1
        /\ \A q \in 1 .. N - (c + 1) + 1 : SubSeq(way, c + 1, N)[q] = way[c + 1 + q - 1]
    BY <1>1, <1>4, <2>1, SubSeqIsText DEF N
  <2>3. QED
    BY <1>3, <2>1, <2>2
<1> HIDE DEF d
<1>6. m \in Nat /\ m > 0 /\ m =< N - c /\ m =< VFS_MAX_NAME - 1
  <2>1. VFS_MAX_NAME - 1 \in Nat /\ VFS_MAX_NAME - 1 > 0 /\ Len(d) \in Nat /\ Len(d) > 0
    BY <1>1, <1>4, <1>5, PathAssumption
  <2>2. {Len(d), VFS_MAX_NAME - 1} \in SUBSET Nat /\ {Len(d), VFS_MAX_NAME - 1} # {}
    BY <2>1
  <2>3. m \in {Len(d), VFS_MAX_NAME - 1} /\ m =< Len(d) /\ m =< VFS_MAX_NAME - 1
    BY <2>2, Smallest
  <2> HIDE DEF m
  <2>4. QED
    BY <1>5, <2>1, <2>3
<1> HIDE DEF m
<1>7. NewName(way) \in Spelling /\ Len(NewName(way)) = m /\ \A q \in 1 .. m : NewName(way)[q] = way[c + q]
  <2>1. m \in Int /\ m =< Len(d) /\ m - 1 + 1 = m /\ \A q \in 1 .. m : 1 + q - 1 = q /\ q \in 1 .. N - c
    BY <1>1, <1>4, <1>5, <1>6
  <2>2. /\ SubSeq(d, 1, m) \in Spelling /\ Len(SubSeq(d, 1, m)) = m - 1 + 1
        /\ \A q \in 1 .. m - 1 + 1 : SubSeq(d, 1, m)[q] = d[1 + q - 1]
    BY <1>5, <1>6, <2>1, SubSeqIsText
  <2>3. QED
    BY <1>3, <1>5, <2>1, <2>2
<1>8. M \in Nat /\ M > 1 /\ M > c /\ M =< N /\ made = SubSeq(way, 1, M)
  BY <1>1, <1>3, <1>4, <1>6, <1>7
<1> HIDE DEF M, made
<1>9. made \in Spelling /\ Len(made) = M /\ \A q \in 1 .. M : made[q] = way[q]
  <2>1. M \in Int /\ M - 1 + 1 = M /\ \A q \in 1 .. M : 1 + q - 1 = q
    BY <1>8
  <2>2. /\ SubSeq(way, 1, M) \in Spelling /\ Len(SubSeq(way, 1, M)) = M - 1 + 1
        /\ \A q \in 1 .. M - 1 + 1 : SubSeq(way, 1, M)[q] = way[1 + q - 1]
    BY <1>1, <1>8, <2>1, SubSeqIsText DEF N
  <2>3. QED
    BY <1>8, <2>1, <2>2
<1>10. Normal(made) /\ made # Root
  <2>1. made[1] = "/" /\ made[M] # "/"
    BY <1>1, <1>2, <1>4, <1>8, <1>9
  <2>2. ASSUME NEW q \in 1 .. M - 1 PROVE made[q] # "/" \/ made[q + 1] # "/"
    <3>1. q \in 1 .. M /\ q + 1 \in 1 .. M /\ q \in 1 .. N - 1
      BY <1>1, <1>8
    <3>2. way[q] # "/" \/ way[q + 1] # "/"
      BY <1>1, <3>1 DEF NoDoubleSlash, N
    <3>3. QED
      BY <1>9, <3>1, <3>2
  <2>3. M < VFS_MAX_PATH /\ M > 0
    BY <1>1, <1>8, PathAssumption
  <2>4. made # Root
    BY <1>8, <1>9, RootIsText
  <2>5. NoDoubleSlash(made)
    BY <1>9, <2>2 DEF NoDoubleSlash
  <2>6. QED
    BY <1>9, <2>1, <2>3, <2>4, <2>5 DEF Normal, Rooted
<1>11. LastSlash(made) = c
  <2> DEFINE e == LastSlash(made)
  <2>1. e \in 1 .. M /\ made[e] = "/" /\ \A q \in e + 1 .. M : made[q] # "/"
    <3>1. Len(made) > 0 /\ made[1] = "/"
      BY <1>1, <1>8, <1>9
    <3>2. /\ e \in 1 .. Len(made) /\ made[e] = "/"
          /\ \A q \in e + 1 .. Len(made) : made[q] # "/"
      BY <1>9, <3>1, LastSlashFacts
    <3>3. QED
      BY <1>9, <3>2
  <2> HIDE DEF e
  <2>2. way[e] = "/" /\ e \in Nat
    BY <1>9, <2>1
  <2>3. e =< c
    BY <1>1, <1>2, <1>4, <1>8, <2>1, <2>2
  <2>4. made[c] = "/" /\ c \in 1 .. M
    BY <1>2, <1>4, <1>8, <1>9
  <2>5. c =< e
    BY <1>4, <1>8, <2>1, <2>2, <2>4
  <2>6. QED
    BY <1>4, <2>2, <2>3, <2>5 DEF e
<1>12. ParentPath(made) = ParentPath(way)
  <2>1. CASE c = 1
    BY <1>11, <2>1 DEF ParentPath, c
  <2>2. CASE c # 1
    <3> DEFINE e == c - 1
    <3>1. /\ e \in Int /\ e > 0 /\ e =< Len(made) /\ e =< Len(way) /\ e - 1 + 1 = e
          /\ \A q \in 1 .. e : 1 + q - 1 = q /\ q \in 1 .. M
      BY <1>1, <1>4, <1>8, <1>9, <2>2 DEF N
    <3>2. ParentPath(made) = SubSeq(made, 1, e) /\ ParentPath(way) = SubSeq(way, 1, e)
      BY <1>11, <2>2 DEF ParentPath, c
    <3> HIDE DEF e
    <3>3. /\ SubSeq(made, 1, e) \in Spelling /\ Len(SubSeq(made, 1, e)) = e - 1 + 1
          /\ \A q \in 1 .. e - 1 + 1 : SubSeq(made, 1, e)[q] = made[1 + q - 1]
      BY <1>9, <3>1, SubSeqIsText
    <3>4. /\ SubSeq(way, 1, e) \in Spelling /\ Len(SubSeq(way, 1, e)) = e - 1 + 1
          /\ \A q \in 1 .. e - 1 + 1 : SubSeq(way, 1, e)[q] = way[1 + q - 1]
      BY <1>1, <3>1, SubSeqIsText
    <3>5. \A q \in 1 .. e : SubSeq(made, 1, e)[q] = SubSeq(way, 1, e)[q]
      BY <1>9, <3>1, <3>3, <3>4
    <3>6. QED
      BY <3>1, <3>2, <3>3, <3>4, <3>5, SeqEqual DEF Spelling
  <2>3. QED
    BY <2>1, <2>2
<1>13. NameOf(made) = NewName(way)
  <2>1. /\ c + 1 \in Int /\ c + 1 > 0 /\ M \in Int /\ M =< Len(made) /\ c + 1 =< M /\ M - (c + 1) + 1 = m
        /\ \A q \in 1 .. m : c + 1 + q - 1 = c + q /\ c + q \in 1 .. M
    BY <1>4, <1>6, <1>8, <1>9 DEF M
  <2>2. NameOf(made) = SubSeq(made, c + 1, M)
    BY <1>9, <1>11 DEF NameOf, Drop
  <2>3. /\ SubSeq(made, c + 1, M) \in Spelling /\ Len(SubSeq(made, c + 1, M)) = M - (c + 1) + 1
        /\ \A q \in 1 .. M - (c + 1) + 1 : SubSeq(made, c + 1, M)[q] = made[c + 1 + q - 1]
    BY <1>9, <2>1, SubSeqIsText
  <2>4. \A q \in 1 .. m : SubSeq(made, c + 1, M)[q] = NewName(way)[q]
    BY <1>7, <1>9, <2>1, <2>3
  <2>5. QED
    BY <1>7, <2>1, <2>2, <2>3, <2>4, SeqEqual DEF Spelling
<1>14. ~TooLong(NewName(way))
  BY <1>6, <1>7, PathAssumption DEF TooLong
<1>15. QED
  BY <1>9, <1>10, <1>12, <1>13, <1>14 DEF made

LEMMA RootIsMade == Made(Root) = Root
<1>1. LastSlash(Root) = 1
  <2>1. LastSlash(Root) \in 1 .. 1
    BY RootIsText, LastSlashFacts
  <2>2. QED
    BY <2>1
<1>2. Drop(Root, 1) = <<>>
  BY RootIsText, SubSeqEmpty DEF Drop
<1>3. Min({Len(<<>>), VFS_MAX_NAME - 1}) = 0
  <2>1. VFS_MAX_NAME - 1 \in Nat /\ VFS_MAX_NAME - 1 > 0 /\ Len(<<>>) = 0
    BY PathAssumption
  <2>2. {0, VFS_MAX_NAME - 1} \in SUBSET Nat /\ {0, VFS_MAX_NAME - 1} # {}
    BY <2>1
  <2>3. Min({0, VFS_MAX_NAME - 1}) \in {0, VFS_MAX_NAME - 1} /\ Min({0, VFS_MAX_NAME - 1}) =< 0
    BY <2>2, Smallest
  <2>4. QED
    BY <2>1, <2>3
<1>4. NewName(Root) = SubSeq(<<>>, 1, 0)
  BY <1>1, <1>2, <1>3 DEF NewName, Cut
<1>5. Len(NewName(Root)) = 0
  BY <1>4
<1>6. Made(Root) = SubSeq(Root, 1, 1)
  BY <1>1, <1>5 DEF Made
<1>7. QED
  BY <1>6, RootIsText, SubSeqFull DEF Spelling

\* Whatever is mounted at a way, a directory is found there.
LEMMA MountedIsFound ==
  ASSUME TreeTypes, MountTable, NEW i \in DOMAIN mounts
  PROVE  vfs_find(mounts[i].mount_path) \in Dir
<1> DEFINE S == {j \in DOMAIN mounts : mounts[j].mount_path = mounts[i].mount_path}
<1>1. DOMAIN mounts = 1 .. Len(mounts) /\ Len(mounts) \in Nat
  BY DEF MountTable
<1>2. S \in SUBSET Nat /\ S # {}
  BY <1>1
<1>3. PICK first \in S : \A j \in S : first =< j
  BY <1>2, Least
<1>4. first \in DOMAIN mounts /\ mounts[first].mount_path = mounts[i].mount_path
  BY <1>3
<1>5. ~MountedBefore(first)
  <2>1. ASSUME NEW j \in 1 .. first - 1, mounts[j].mount_path = mounts[first].mount_path PROVE FALSE
    <3>1. j \in S /\ j < first
      BY <1>1, <1>4, <2>1
    <3>2. QED
      BY <1>2, <1>3, <3>1
  <2>2. QED
    BY <2>1 DEF MountedBefore
<1>6. vfs_find(mounts[first].mount_path) = mounts[first].root
  BY <1>4, <1>5, MountsFound
<1>7. QED
  BY <1>4, <1>6 DEF TreeTypes

\* vfs_find goes into nothing before the root is mounted.
LEMMA NothingMounted ==
  ASSUME NEW way, vfs_root = NULL
  PROVE  vfs_find(way) = NULL
BY DEF vfs_find

LEMMA FindInvRefused ==
  ASSUME FindInv
  PROVE  RefusedForAReason
<1> DEFINE way == normalize_abs_path(last.path)
           d   == vfs_find(ParentPath(way))
           nm  == NewName(way)
           made == Made(way)
<1>1. SUFFICES ASSUME last.call = "create", last.result = NULL,
                      vfs_find(made) = NULL, d \in Dir
               PROVE  \E kind \in {"dir", "file"} :
                        \/ FreeNodes(kind) = {}
                        \/ Cardinality(entries[d] \cap Pool(kind)) = Slots(kind)
  BY DEF RefusedForAReason
<1>2. /\ TreeTypes /\ Parents /\ MountTable /\ SlotsKept /\ NormalMounts
      /\ last.path \in Paths
      /\ way = Root \/ d \notin Dir \/ \E kind \in {"dir", "file"} : ~RoomFor(d, nm, kind)
  BY <1>1 DEF FindInv, TreeInv, CreateOutcome
<1>3. last.path \in Spelling /\ Normal(way) /\ way \in Spelling
  BY <1>2, PathsAreTexts, NormalIsNormal DEF Normal, Rooted
<1> HIDE DEF way
<1>5. vfs_root # NULL
  BY <1>1, NothingMounted, NullOrDir
<1>6. way # Root
  <2>1. SUFFICES ASSUME way = Root PROVE FALSE
    OBVIOUS
  <2> DEFINE i == BestMount(Root)
  <2>2. vfs_find(Root) \in used
    <3>1. Root \in Spelling /\ Len(Root) = 1 /\ Len(Root) > 0 /\ Root[1] = "/" /\ i = BestMount(Root)
      BY RootIsText
    <3> HIDE DEF i
    <3>2. /\ vfs_find(Root) = Walk(Start(i), Components(SubSeq(Root, Behind(i), Len(Root))))
          /\ i = 0 \/ i \in DOMAIN mounts
          /\ Behind(i) \in Nat /\ Behind(i) > 1
      BY <1>2, <1>5, <3>1, FindWalks
    <3>3. SubSeq(Root, Behind(i), Len(Root)) = <<>>
      BY <3>1, <3>2, SubSeqEmpty
    <3>4. Start(i) \in used
      <4>1. CASE i = 0
        BY <1>2, <1>5, <4>1 DEF Start, TreeTypes
      <4>2. CASE i # 0
        BY <1>2, <3>2, <4>2 DEF Start, MountTable
      <4>3. QED
        BY <4>1, <4>2
    <3>5. QED
      BY <3>2, <3>3, <3>4, NothingLeft
  <2>3. NULL \notin used
    BY <1>2, NodeFacts DEF TreeTypes
  <2>4. QED
    BY <1>1, <2>1, <2>2, <2>3, RootIsMade
<1>4. /\ Normal(made) /\ made # Root /\ ParentPath(made) = ParentPath(way)
      /\ NameOf(made) = nm /\ ~TooLong(nm)
  BY <1>3, <1>6, MadeFacts
<1> HIDE DEF made
<1>7. \A i \in DOMAIN mounts : mounts[i].mount_path # made
  <2>1. ASSUME NEW i \in DOMAIN mounts, mounts[i].mount_path = made PROVE FALSE
    <3>1. vfs_find(made) \in Dir
      BY <1>2, <2>1, MountedIsFound
    <3>2. QED
      BY <1>1, <3>1, NullOrDir
  <2>2. QED
    BY <2>1
<1>8. Step(d, nm) = NULL
  <2>1. vfs_find(made) = Step(vfs_find(ParentPath(made)), NameOf(made))
    BY <1>2, <1>4, <1>5, <1>7, NameFound
  <2>2. QED
    BY <1>1, <1>4, <2>1 DEF d
<1> HIDE DEF d, nm
<1>9. Named(d, nm) = {}
  <2>1. SUFFICES ASSUME Named(d, nm) # {} PROVE FALSE
    OBVIOUS
  <2> DEFINE found == ramfs_finddir(d, nm)
  <2>2. found \in Named(d, nm)
    BY <2>1 DEF ramfs_finddir
  <2>3. found \in used /\ found # NULL
    BY <1>1, <1>2, <2>2, NodeFacts DEF Named, Parents, TreeTypes
  <2> HIDE DEF found
  <2>4. Step(d, nm) = IF found # NULL /\ mountpoint[found] # NULL THEN mountpoint[found] ELSE found
    BY <1>1, <1>4 DEF Step, found
  <2>5. QED
    BY <1>8, <2>3, <2>4
<1>10. PICK kind \in {"dir", "file"} : ~RoomFor(d, nm, kind)
  BY <1>1, <1>2, <1>6 DEF d, nm
<1>11. FreeNodes(kind) = {} \/ ~(Cardinality(entries[d] \cap Pool(kind)) < Slots(kind))
  BY <1>9, <1>10 DEF RoomFor
<1>12. Cardinality(entries[d] \cap Pool(kind)) =< Slots(kind)
  BY <1>1, <1>2 DEF SlotsKept, Pool, Slots, d
<1>13. Cardinality(entries[d] \cap Pool(kind)) \in Nat /\ Slots(kind) \in Nat
  <2> DEFINE E == entries[d] \cap Pool(kind)
  <2>1. Pool(kind) \subseteq Node /\ IsFiniteSet(Node)
    BY NodeFacts DEF Pool
  <2>2. IsFiniteSet(E)
    <3>1. E \in SUBSET Node
      BY <2>1
    <3> HIDE DEF E
    <3>2. QED
      BY <2>1, <3>1, FS_Subset
  <2>3. Cardinality(E) \in Nat
    BY <2>2, FS_CardinalityType
  <2>4. QED
    BY <2>3, VfsAssumption DEF Slots
<1>14. QED
  BY <1>11, <1>12, <1>13 DEF d

LEMMA FindInvCreated ==
  ASSUME FindInv
  PROVE  CreatedIsFound
<1> DEFINE way == normalize_abs_path(last.path)
           d   == vfs_find(ParentPath(way))
           nm  == NewName(way)
           made == Made(way)
           node == last.result
<1>1. SUFFICES ASSUME last.call = "create", last.result # NULL, ~MountedAt(made)
               PROVE  /\ vfs_find(made) = last.result
                      /\ Plain(last.path) /\ made = way => vfs_find(last.path) = last.result
  BY DEF CreatedIsFound
<1>2. /\ TreeTypes /\ Parents /\ MountTable /\ NamesDiffer /\ NormalMounts
      /\ last.path \in Paths /\ way # Root /\ d \in Dir
      /\ node \in Named(d, nm) /\ mountpoint[node] = NULL
  BY <1>1 DEF FindInv, TreeInv, CreateOutcome
<1>3. last.path \in Spelling /\ Normal(way) /\ way \in Spelling
  BY <1>2, PathsAreTexts, NormalIsNormal DEF Normal, Rooted
<1>4. vfs_root # NULL
  BY <1>2, NothingMounted, NullOrDir
<1>5. Plain(last.path) => vfs_find(last.path) = vfs_find(way)
  BY <1>2, <1>3, <1>4, PlainFound
<1> HIDE DEF way
<1>6. /\ Normal(made) /\ made # Root /\ ParentPath(made) = ParentPath(way)
      /\ NameOf(made) = nm /\ ~TooLong(nm)
  BY <1>2, <1>3, MadeFacts
<1> HIDE DEF made
<1>7. \A i \in DOMAIN mounts : mounts[i].mount_path # made
  BY <1>1 DEF MountedAt
<1>8. vfs_find(made) = Step(d, nm)
  <2>1. vfs_find(made) = Step(vfs_find(ParentPath(made)), NameOf(made))
    BY <1>2, <1>4, <1>6, <1>7, NameFound
  <2>2. QED
    BY <1>6, <2>1
<1> HIDE DEF d, nm, node
<1>9. ramfs_finddir(d, nm) = node
  <2>1. ramfs_finddir(d, nm) \in Named(d, nm)
    BY <1>2 DEF ramfs_finddir
  <2>2. QED
    BY <1>2, <2>1 DEF Named, NamesDiffer
<1>10. Step(d, nm) = node
  BY <1>2, <1>6, <1>9 DEF Step
<1>11. QED
  BY <1>5, <1>8, <1>10 DEF node

WalkedAgain ==
  \A X : \A start \in X : \A comps :
    Len(comps) \in Nat /\ (\A x \in X : \A c : Step(x, c) \in X) =>
      \E node : /\ node[0] = start
                /\ \A n \in 1 .. Len(comps) : node[n] = Step(node[n - 1], comps[n])
                /\ \A n \in 0 .. Len(comps) : node[n] \in X
                /\ Walk(start, comps) = node[Len(comps)]
LEMMA WalksAgain == WalkedAgain
BY WalkTraced DEF WalkedAgain

StepsStay ==
  TreeTypes /\ Parents /\ MountTable =>
    \A x \in used \cup {NULL} : \A c : Step(x, c) \in used \cup {NULL}
LEMMA AllStepsStay == StepsStay
BY StepStays DEF StepsStay

\* What the steps of a walk found before they find after: all of it, or, where
\* strict is FALSE, at least what was found.
LEMMA WalkStays ==
  ASSUME TreeTypes, Parents, MountTable, TreeTypes', Parents', MountTable', used \subseteq used',
         NEW strict \in BOOLEAN,
         \A x \in used \cup {NULL} : \A c :
           Step(x, c)' = Step(x, c) \/ (~strict /\ Step(x, c) = NULL),
         NEW start \in used \cup {NULL}, NEW comps \in Texts
  PROVE  Walk(start, comps)' = Walk(start, comps) \/ (~strict /\ Walk(start, comps) = NULL)
<1> DEFINE X == used \cup {NULL}
           L == Len(comps)
<1>1. L \in Nat
  BY DEF Texts
<1>2. start \in X /\ (\A x \in X : \A c : Step(x, c) \in X) /\ StepsStay /\ StepsStay' /\ start \in X'
  <2>1. \A x \in X : \A c : Step(x, c) \in X
    BY StepStays
  <2>2. StepsStay /\ StepsStay'
    BY AllStepsStay, PTL
  <2>3. QED
    BY <2>1, <2>2
<1>3. \A x \in X' : \A c : Step(x, c)' \in X'
  BY <1>2 DEF StepsStay
<1>4. \A Z : \A from \in Z : \A cs :
        Len(cs) \in Nat /\ (\A x \in Z : \A c : Step(x, c)' \in Z) =>
          \E node : /\ node[0] = from
                    /\ \A n \in 1 .. Len(cs) : node[n] = Step(node[n - 1], cs[n])'
                    /\ \A n \in 0 .. Len(cs) : node[n] \in Z
                    /\ Walk(from, cs)' = node[Len(cs)]
  <2>1. WalkedAgain'
    BY WalksAgain, PTL
  <2>2. QED
    BY <2>1, Zenon DEF WalkedAgain
<1> HIDE DEF X
<1>5. PICK f : /\ f[0] = start
               /\ \A n \in 1 .. L : f[n] = Step(f[n - 1], comps[n])
               /\ \A n \in 0 .. L : f[n] \in X
               /\ Walk(start, comps) = f[L]
  <2>1. Len(comps) \in Nat
    BY <1>1
  <2>2. QED
    BY <1>2, <2>1, WalkTraced
<1>6. PICK g : /\ g[0] = start
               /\ \A n \in 1 .. L : g[n] = Step(g[n - 1], comps[n])'
               /\ \A n \in 0 .. L : g[n] \in X'
               /\ Walk(start, comps)' = g[L]
  <2>1. Len(comps) \in Nat
    BY <1>1
  <2>2. \E node : /\ node[0] = start
                  /\ \A n \in 1 .. Len(comps) : node[n] = Step(node[n - 1], comps[n])'
                  /\ \A n \in 0 .. Len(comps) : node[n] \in X'
                  /\ Walk(start, comps)' = node[Len(comps)]
    BY <1>2, <1>3, <1>4, <2>1
  <2>3. QED
    BY <2>2
<1> HIDE DEF L
<1> DEFINE P == [n \in 0 .. L |-> IF ~strict /\ f[n] = NULL THEN X' ELSE {f[n]}]
<1>7. g[0] \in P[0]
  <2>1. 0 \in 0 .. L
    BY <1>1
  <2>2. QED
    BY <1>2, <1>5, <1>6, <2>1
<1>8. ASSUME NEW n \in 1 .. L, g[n - 1] \in P[n - 1] PROVE g[n] \in P[n]
  <2>1. n \in 0 .. L /\ n - 1 \in 0 .. L
    BY <1>1
  <2>2. CASE ~strict /\ f[n] = NULL
    BY <1>6, <2>1, <2>2
  <2>3. CASE ~(~strict /\ f[n] = NULL)
    <3>1. f[n] = Step(f[n - 1], comps[n]) /\ g[n] = Step(g[n - 1], comps[n])' /\ f[n - 1] \in X
      BY <1>5, <1>6, <2>1
    <3>2. ~(~strict /\ f[n - 1] = NULL)
      <4>1. Step(NULL, comps[n]) = NULL
        BY NodeFacts DEF Step
      <4>2. QED
        BY <2>3, <3>1, <4>1
    <3>3. g[n - 1] = f[n - 1]
      BY <1>8, <2>1, <3>2
    <3>4. Step(f[n - 1], comps[n])' = Step(f[n - 1], comps[n])
      BY <2>3, <3>1 DEF X
    <3>5. g[n] = f[n]
      BY <3>1, <3>3, <3>4
    <3>6. QED
      BY <2>1, <2>3, <3>5
  <2>4. QED
    BY <2>2, <2>3
<1> HIDE DEF P
<1>9. \A n \in 0 .. L : g[n] \in P[n]
  BY <1>1, <1>7, <1>8, TraceKeeps
<1>10. L \in 0 .. L
  BY <1>1
<1>11. g[L] \in P[L]
  BY <1>9, <1>10
<1>12. QED
  BY <1>5, <1>6, <1>10, <1>11 DEF P

LEMMA FindStays ==
  ASSUME TreeInv, TreeInv', UNCHANGED <<vfs_root, mounts>>, used \subseteq used',
         NEW strict \in BOOLEAN,
         \A x \in used \cup {NULL} : \A c :
           Step(x, c)' = Step(x, c) \/ (~strict /\ Step(x, c) = NULL),
         NEW way \in Spelling
  PROVE  vfs_find(way)' = vfs_find(way) \/ (~strict /\ vfs_find(way) = NULL)
<1> DEFINE q == Absolute(way)
           i == BestMount(q)
           start == IF i = 0 THEN vfs_root ELSE mounts[i].root
           rel == RelPath(q, IF i = 0 THEN 1 ELSE Len(mounts[i].mount_path))
           comps == Components(rel)
<1>1. /\ TreeTypes /\ Parents /\ MountTable /\ TreeTypes' /\ Parents' /\ MountTable'
      /\ vfs_root' = vfs_root /\ mounts' = mounts
  BY DEF TreeInv
<1>2. i' = i
  BY <1>1 DEF BestMount
<1>3. start' = start /\ rel' = rel
  BY <1>1, <1>2
<1>4. vfs_find(way) = IF vfs_root = NULL THEN NULL ELSE Walk(start, comps)
  BY DEF vfs_find
<1>5. vfs_find(way)' = IF vfs_root' = NULL THEN NULL ELSE Walk(start, comps)'
  BY DEF vfs_find
<1>6. CASE vfs_root = NULL
  BY <1>1, <1>4, <1>5, <1>6
<1>7. CASE vfs_root # NULL
  <2>1. q \in Spelling
    BY AbsoluteIsText
  <2> HIDE DEF q
  <2>2. i \in 0 .. Len(mounts) /\ DOMAIN mounts = 1 .. Len(mounts) /\ Len(mounts) \in Nat
    <3>1. i \in 0 .. Len(mounts)
      BY <1>1, BestMountFacts
    <3>2. mounts \in Seq([mount_path : Spelling, root : Dir])
      BY <1>1 DEF MountTable
    <3>3. QED
      BY <3>1, <3>2
  <2>3. start \in used \cup {NULL}
    <3>1. CASE i = 0
      BY <1>1, <3>1 DEF TreeTypes
    <3>2. CASE i # 0
      <4>1. i \in DOMAIN mounts
        BY <2>2, <3>2
      <4>2. QED
        BY <1>1, <3>2, <4>1 DEF MountTable
    <3>3. QED
      BY <3>1, <3>2
  <2>4. rel \in Spelling
    <3> HIDE DEF i
    <3>1. (IF i = 0 THEN 1 ELSE Len(mounts[i].mount_path)) \in Nat
      <4>1. i # 0 => i \in DOMAIN mounts
        BY <2>2
      <4>2. i # 0 => Len(mounts[i].mount_path) \in Nat
        BY <1>1, <4>1, SpellingFacts DEF MountTable, Rooted
      <4>3. QED
        BY <4>2
    <3>2. QED
      BY <2>1, <3>1, RelIsText
  <2>5. vfs_find(way) = Walk(start, comps) /\ vfs_find(way)' = Walk(start, comps)'
    BY <1>1, <1>4, <1>5, <1>7
  <2>6. comps \in Texts
    <3> HIDE DEF rel
    <3>1. Len(rel) \in 0 .. Len(rel)
      BY <2>4, SpellingFacts
    <3>2. QED
      BY <2>4, <3>1, ComponentsTraced
  <2>7. PICK s, cs : s = start /\ cs = comps
    OBVIOUS
  <2>8. Walk(start, comps)' = Walk(s, cs)' /\ Walk(start, comps) = Walk(s, cs)
    BY <1>3, <2>7
  <2>9. s \in used \cup {NULL} /\ cs \in Texts
    BY <2>3, <2>6, <2>7
  <2> HIDE DEF start, comps, rel, i
  <2>10. Walk(s, cs)' = Walk(s, cs) \/ (~strict /\ Walk(s, cs) = NULL)
    BY <1>1, <2>9, WalkStays
  <2>11. QED
    BY <2>5, <2>8, <2>10
<1>8. QED
  BY <1>6, <1>7

\* The node created, and what is left as it was.
LEMMA CreateEffects ==
  ASSUME TreeTypes, Parents, NEW d \in used \cap Dir, NEW kind \in {"dir", "file"}, NEW nm,
         NEW node, RoomFor(d, nm, kind), ramfs_create_node(d, nm, kind, node)
  PROVE  /\ node \in Node /\ node \notin used /\ used' = used \cup {node}
         /\ \A n \in used : name'[n] = name[n] /\ mountpoint'[n] = mountpoint[n]
         /\ name'[node] = nm /\ mountpoint'[node] = NULL
         /\ entries'[d] = entries[d] \cup {node}
         /\ \A e \in Dir : e # d => entries'[e] = entries[e]
<1>1. /\ node = Min(FreeNodes(kind))
      /\ used' = used \cup {node}
      /\ name' = [name EXCEPT ![node] = nm]
      /\ mountpoint' = [mountpoint EXCEPT ![node] = NULL]
      /\ entries' = [e \in Dir |-> IF e = node THEN {}
                                   ELSE IF e = d THEN entries[d] \cup {node} ELSE entries[e]]
  BY DEF ramfs_create_node
<1>2. Pool(kind) \subseteq Node /\ Node \subseteq Nat
  BY NodeFacts DEF Pool
<1>3. node \in Node /\ node \notin used
  <2>1. FreeNodes(kind) \in SUBSET Nat /\ FreeNodes(kind) # {}
    BY <1>2 DEF FreeNodes, RoomFor
  <2>2. node \in FreeNodes(kind)
    BY <1>1, <2>1, Smallest
  <2>3. QED
    BY <1>2, <2>2 DEF FreeNodes
<1>4. /\ used \subseteq Node /\ DOMAIN name = Node /\ mountpoint \in [Node -> Dir \cup {NULL}]
      /\ \A e \in Dir \ used : entries[e] = {}
  BY DEF TreeTypes
<1>5. d # node /\ d \in Dir
  BY <1>3
<1>6. /\ \A n \in used : name'[n] = name[n] /\ mountpoint'[n] = mountpoint[n]
      /\ name'[node] = nm /\ mountpoint'[node] = NULL
  <2>1. \A n \in used : n \in Node /\ n # node
    BY <1>3, <1>4
  <2>2. QED
    BY <1>1, <1>3, <1>4, <2>1
<1>7. /\ entries'[d] = entries[d] \cup {node}
      /\ \A e \in Dir : e # d => entries'[e] = entries[e]
  <2>1. \A e \in Dir : e = node => entries[e] = {}
    BY <1>3, <1>4
  <2>2. QED
    BY <1>1, <1>5, <2>1
<1>8. QED
  BY <1>1, <1>3, <1>6, <1>7

\* A step that found something finds it among more nodes too.
LEMMA StepFindsStill ==
  ASSUME TreeTypes, Parents, NamesDiffer, NEW d \in used \cap Dir, NEW kind \in {"dir", "file"}, NEW nm,
         NEW node, RoomFor(d, nm, kind), ramfs_create_node(d, nm, kind, node),
         NEW x, NEW c, Step(x, c) # NULL
  PROVE  Step(x, c)' = Step(x, c)
<1> DEFINE found == ramfs_finddir(x, c)
<1>1. x \in Dir /\ ~TooLong(c)
  BY DEF Step
<1>2. found # NULL
  <2>1. SUFFICES ASSUME found = NULL PROVE FALSE
    OBVIOUS
  <2>2. QED
    BY <1>1, <2>1 DEF Step
<1>3. found \in Named(x, c)
  <2>1. Named(x, c) # {}
    BY <1>2 DEF ramfs_finddir
  <2>2. QED
    BY <2>1 DEF ramfs_finddir
<1>4. Step(x, c) = IF mountpoint[found] # NULL THEN mountpoint[found] ELSE found
  BY <1>1, <1>2 DEF Step
<1> HIDE DEF found
<1>5. found \in entries[x] /\ name[found] = c /\ found \in used
      /\ \A n \in entries[x] : name[n] = c => n = found
  BY <1>1, <1>3 DEF Named, NamesDiffer, Parents
<1>6. /\ node \notin used
      /\ \A n \in used : name'[n] = name[n] /\ mountpoint'[n] = mountpoint[n]
      /\ name'[node] = nm
      /\ entries'[d] = entries[d] \cup {node}
      /\ \A e \in Dir : e # d => entries'[e] = entries[e]
  BY CreateEffects
<1>7. found \in Named(x, c)' /\ \A n \in Named(x, c)' : n = found
  <2>1. Named(x, c)' = {n \in entries'[x] : name'[n] = c}
    BY DEF Named
  <2>2. \A n \in entries[x] : n \in used
    BY <1>1 DEF Parents
  <2>3. found \in entries'[x] /\ name'[found] = c
    BY <1>1, <1>5, <1>6
  <2>4. ASSUME NEW n \in entries'[x], name'[n] = c PROVE n = found
    <3>1. CASE n \in entries[x]
      BY <1>5, <1>6, <2>2, <2>4, <3>1
    <3>2. CASE n \notin entries[x]
      <4>1. x = d /\ n = node /\ c = nm
        BY <1>1, <1>6, <2>4, <3>2
      <4>2. Named(x, c) = {}
        BY <4>1 DEF RoomFor
      <4>3. QED
        BY <1>3, <4>2
    <3>3. QED
      BY <3>1, <3>2
  <2>5. QED
    BY <2>1, <2>3, <2>4
<1>8. ramfs_finddir(x, c)' = found
  <2>1. ramfs_finddir(x, c)' \in Named(x, c)'
    BY <1>7 DEF ramfs_finddir
  <2>2. QED
    BY <1>7, <2>1
<1>9. Step(x, c)' = IF mountpoint'[found] # NULL THEN mountpoint'[found] ELSE found
  BY <1>1, <1>2, <1>8 DEF Step, found
<1>10. QED
  BY <1>4, <1>5, <1>6, <1>9

\* Where nothing changes, every step finds the same.
LEMMA StepFindsSame ==
  ASSUME NamesDiffer, entries' = entries, name' = name, mountpoint' = mountpoint, NEW x, NEW c
  PROVE  Step(x, c)' = Step(x, c)
<1>1. CASE x \notin Dir \/ TooLong(c)
  BY <1>1 DEF Step
<1>2. CASE x \in Dir /\ ~TooLong(c)
  <2>1. Named(x, c)' = Named(x, c)
    BY DEF Named
  <2>2. ramfs_finddir(x, c)' = ramfs_finddir(x, c)
    <3>1. CASE Named(x, c) = {}
      BY <2>1, <3>1 DEF ramfs_finddir
    <3>2. CASE Named(x, c) # {}
      <4>1. ramfs_finddir(x, c) \in Named(x, c)
        BY <3>2 DEF ramfs_finddir
      <4>2. ramfs_finddir(x, c)' \in Named(x, c)'
        BY <2>1, <3>2 DEF ramfs_finddir
      <4>3. \A m, n \in Named(x, c) : m = n
        BY <1>2 DEF Named, NamesDiffer
      <4>4. QED
        BY <2>1, <4>1, <4>2, <4>3
    <3>3. QED
      BY <3>1, <3>2
  <2>3. QED
    BY <2>2 DEF Step
<1>3. QED
  BY <1>1, <1>2

LEMMA FindInvInit == TreeInit => FindInv
<1>1. SUFFICES ASSUME TreeInit PROVE FindInv
  OBVIOUS
<1>2. mounts = <<>> /\ last.call = "none"
  BY <1>1 DEF TreeInit
<1>3. NormalMounts
  BY <1>2 DEF NormalMounts
<1>4. CreateOutcome
  BY <1>2 DEF CreateOutcome
<1>5. QED
  BY <1>1, <1>3, <1>4, TreeInvInit DEF FindInv

LEMMA OutcomeOfOthers ==
  ASSUME NEW call \in {"mount", "delete"}, NEW p, NEW result, Returns(call, p, result)
  PROVE  CreateOutcome'
<1>1. last'.call # "create"
  BY DEF Returns
<1>2. QED
  BY <1>1 DEF CreateOutcome

LEMMA NormalAfterMount ==
  ASSUME TreeInv, NormalMounts, NEW path_in \in Spelling, NEW node, vfs_mount(path_in, node)
  PROVE  NormalMounts' /\ CreateOutcome'
<1> DEFINE way == normalize_abs_path(path_in)
           error == MountError(way, vfs_find(way))
<1>1. CreateOutcome'
  BY OutcomeOfOthers DEF vfs_mount
<1>2. Normal(way)
  BY NormalIsNormal
<1>3. \/ error = 0 /\ way # Root /\ mounts' = Append(mounts, [mount_path |-> way, root |-> node])
      \/ mounts' = mounts
  BY DEF vfs_mount
<1>4. mounts \in Seq([mount_path : Spelling, root : Dir])
  BY DEF TreeInv, MountTable
<1> HIDE DEF way, error
<1>5. CASE mounts' = mounts
  BY <1>1, <1>5 DEF NormalMounts
<1>6. CASE way # Root /\ mounts' = Append(mounts, [mount_path |-> way, root |-> node])
  <2> DEFINE r == [mount_path |-> way, root |-> node]
  <2>1. r.mount_path = way
    OBVIOUS
  <2> HIDE DEF r
  <2>2. mounts' = Append(mounts, r)
    BY <1>6 DEF r
  <2>3. \A i \in DOMAIN mounts' : (i \in DOMAIN mounts /\ mounts'[i] = mounts[i]) \/ mounts'[i] = r
    BY <1>4, <2>2
  <2>4. \A i \in DOMAIN mounts' : Normal(mounts'[i].mount_path) /\ mounts'[i].mount_path # Root
    BY <1>2, <1>6, <2>1, <2>3 DEF NormalMounts
  <2>5. NormalMounts'
    BY <2>4 DEF NormalMounts, Normal, NoDoubleSlash, Rooted
  <2>6. QED
    BY <1>1, <2>5
<1>7. QED
  BY <1>3, <1>5, <1>6

\* The words of a path are no matter of the state.
LEMMA LookupUnmoved ==
  ASSUME TreeInv, TreeInv', UNCHANGED <<tree, mountpoint, vfs_root, mounts>>, NEW way \in Spelling
  PROVE  vfs_find(way)' = vfs_find(way)
<1>1. /\ NamesDiffer /\ used \subseteq used' /\ entries' = entries /\ name' = name
      /\ mountpoint' = mountpoint /\ vfs_root' = vfs_root /\ mounts' = mounts
  BY DEF TreeInv, tree
<1>2. \A x \in used \cup {NULL} : \A c : Step(x, c)' = Step(x, c) \/ (~TRUE /\ Step(x, c) = NULL)
  <2>1. ASSUME NEW x, NEW c PROVE Step(x, c)' = Step(x, c)
    BY <1>1, StepFindsSame
  <2>2. QED
    BY <2>1
<1>3. vfs_find(way)' = vfs_find(way) \/ (~TRUE /\ vfs_find(way) = NULL)
  BY <1>1, <1>2, FindStays
<1>4. QED
  BY <1>3

LEMMA OutcomeKept ==
  ASSUME TreeInv, TreeInv', CreateOutcome, UNCHANGED vfsvars
  PROVE  CreateOutcome'
<1>1. SUFFICES ASSUME last'.call = "create" PROVE CreateOutcome'
  BY DEF CreateOutcome
<1>2. UNCHANGED <<tree, mountpoint, vfs_root, mounts>> /\ last' = last
  BY DEF vfsvars
<1>3. used' = used /\ entries' = entries /\ name' = name /\ mountpoint' = mountpoint
  BY <1>2 DEF tree
<1> DEFINE way == normalize_abs_path(last.path)
           w == ParentPath(way)
<1>4. last.call = "create" /\ last.path \in Paths
  BY <1>1, <1>2 DEF CreateOutcome
<1>5. last.path \in Spelling /\ way \in Spelling
  BY <1>4, PathsAreTexts, NormalIsNormal DEF Normal, Rooted
<1> HIDE DEF way
<1>6. w \in Spelling
  BY <1>5, ParentIsText
<1>7. vfs_find(w)' = vfs_find(w)
  <2>1. w' = w
    BY <1>2 DEF way
  <2>2. PICK q : q = w
    OBVIOUS
  <2> HIDE DEF w
  <2>3. vfs_find(w)' = vfs_find(q)' /\ vfs_find(w) = vfs_find(q) /\ q \in Spelling
    BY <1>6, <2>1, <2>2
  <2>4. QED
    BY <1>2, <2>3, LookupUnmoved
<1>8. QED
  BY <1>2, <1>3, <1>4, <1>7 DEF CreateOutcome, way, Named, RoomFor, FreeNodes, Pool, Slots, Dir, File

\* What vfs_create answers, told of the tree it leaves.
LEMMA OutcomeOfCreate ==
  ASSUME TreeInv, TreeInv', NEW path_in \in Paths, NEW kind \in {"dir", "file"},
         vfs_create(path_in, kind)
  PROVE  CreateOutcome'
<1> DEFINE way == normalize_abs_path(path_in)
           w   == ParentPath(way)
           nm  == NewName(way)
           d   == vfs_find(w)
<1>1. path_in \in Spelling /\ way \in Spelling /\ w \in Spelling
  BY PathsAreTexts, NormalIsNormal, ParentIsText DEF Normal, Rooted
<1>2. mounts' = mounts /\ vfs_root' = vfs_root /\ last'.path = path_in
  BY DEF vfs_create, Returns
<1>3. /\ TreeTypes /\ Parents /\ MountTable /\ NamesDiffer
  BY DEF TreeInv
<1>4. d \in used \cup {NULL}
  BY <1>1, <1>3, FindsUsed
<1>5. /\ last'.result = NULL =>
           \/ way = Root \/ vfs_find(w)' \notin Dir
           \/ \E sort \in {"dir", "file"} : ~RoomFor(vfs_find(w), nm, sort)'
      /\ last'.result # NULL =>
           /\ way # Root /\ vfs_find(w)' \in Dir
           /\ last'.result \in Named(vfs_find(w), nm)' /\ mountpoint'[last'.result] = NULL
  <2>1. CASE way # Root /\ d \in Dir /\ RoomFor(d, nm, kind)
    <3>1. PICK node \in Node : /\ ramfs_create_node(d, nm, kind, node)
                               /\ Returns("create", path_in, node)
      BY <2>1 DEF vfs_create
    <3>2. d \in used \cap Dir /\ nm' = nm
      BY <1>4, <2>1, NullOrDir
    <3> HIDE DEF way, d, nm
    <3>3. /\ node \in Node /\ node \notin used /\ used' = used \cup {node}
          /\ name'[node] = nm /\ mountpoint'[node] = NULL
          /\ entries'[d] = entries[d] \cup {node}
      BY <1>3, <2>1, <3>1, <3>2, CreateEffects
    <3>4. \A x \in used \cup {NULL} : \A c :
            Step(x, c)' = Step(x, c) \/ (~FALSE /\ Step(x, c) = NULL)
      <4>1. ASSUME NEW x, NEW c, Step(x, c) # NULL PROVE Step(x, c)' = Step(x, c)
        BY <1>3, <2>1, <3>1, <3>2, <4>1, StepFindsStill
      <4>2. QED
        BY <4>1
    <3>5. vfs_find(w)' = d
      <4>1. PICK q : q = w
        OBVIOUS
      <4>2. w' = w
        BY DEF way
      <4> HIDE DEF w
      <4>3. vfs_find(w)' = vfs_find(q)' /\ vfs_find(w) = vfs_find(q) /\ q \in Spelling
        BY <1>1, <4>1, <4>2
      <4>4. vfs_find(q)' = vfs_find(q) \/ (~FALSE /\ vfs_find(q) = NULL)
        BY <1>2, <3>3, <3>4, <4>3, FindStays
      <4>5. QED
        BY <3>2, <4>3, <4>4, NullOrDir DEF d
    <3>6. last'.result = node /\ node # NULL
      BY <3>1, NodeFacts DEF Returns
    <3>7. node \in Named(vfs_find(w), nm)'
      BY <3>2, <3>3, <3>5 DEF Named
    <3>8. QED
      BY <2>1, <3>3, <3>5, <3>6, <3>7
  <2>2. CASE ~(way # Root /\ d \in Dir /\ RoomFor(d, nm, kind))
    <3>1. UNCHANGED <<tree, mountpoint, vfs_root, mounts>> /\ last'.result = NULL
      BY <2>2 DEF vfs_create, Returns
    <3>2. w' = w /\ nm' = nm
      OBVIOUS
    <3> HIDE DEF way, nm
    <3>3. vfs_find(w)' = d
      <4>1. PICK q : q = w
        OBVIOUS
      <4> HIDE DEF w
      <4>2. vfs_find(w)' = vfs_find(q)' /\ vfs_find(w) = vfs_find(q) /\ q \in Spelling
        BY <1>1, <3>2, <4>1
      <4>3. QED
        BY <3>1, <4>2, LookupUnmoved DEF d
    <3> HIDE DEF d, w
    <3>4. used' = used /\ entries' = entries /\ name' = name
      BY <3>1 DEF tree
    <3>5. RoomFor(vfs_find(w), nm, kind)' <=> RoomFor(d, nm, kind)
      BY <3>2, <3>3, <3>4 DEF RoomFor, Named, FreeNodes, Pool, Slots
    <3>6. QED
      BY <2>2, <3>1, <3>3, <3>5
  <2>3. QED
    BY <2>1, <2>2
<1>6. normalize_abs_path(last.path)' = way
  BY <1>2
<1>7. vfs_find(ParentPath(normalize_abs_path(last.path)))' = vfs_find(w)'
  BY <1>2
<1> HIDE DEF way, w, nm, d
<1>8. QED
  BY <1>2, <1>5 DEF CreateOutcome, way, w, nm

LEMMA FindInvStep == FindInv /\ [TreeNext]_vfsvars => FindInv'
<1>1. SUFFICES ASSUME FindInv, [TreeNext]_vfsvars PROVE FindInv'
  OBVIOUS
<1>2. TreeInv /\ TreeInv' /\ NormalMounts /\ CreateOutcome
  BY <1>1, TreeInvStep DEF FindInv
<1>3. CASE MountRoot
  BY <1>2, <1>3, RootIsText, NormalAfterMount DEF MountRoot, FindInv
<1>4. CASE Mount
  <2>1. PICK way \in MountPaths, node \in used \cap Dir : vfs_mount(way, node)
    BY <1>4 DEF Mount
  <2>2. way \in Spelling
    BY PathsAreTexts
  <2>3. QED
    BY <1>2, <2>1, <2>2, NormalAfterMount DEF FindInv
<1>5. CASE Create
  <2>1. PICK way \in Paths, kind \in {"dir", "file"} : vfs_create(way, kind)
    BY <1>5 DEF Create
  <2>2. mounts' = mounts
    BY <2>1 DEF vfs_create
  <2>3. NormalMounts'
    BY <1>2, <2>2 DEF NormalMounts
  <2>4. CreateOutcome'
    BY <1>2, <2>1, OutcomeOfCreate
  <2>5. QED
    BY <1>2, <2>3, <2>4 DEF FindInv
<1>6. CASE Delete
  <2>1. PICK way \in Paths : ramfs_delete_node(way, vfs_find(way))
    BY <1>6 DEF Delete
  <2>2. mounts' = mounts
    BY <2>1 DEF ramfs_delete_node
  <2>3. NormalMounts'
    BY <1>2, <2>2 DEF NormalMounts
  <2>4. CreateOutcome'
    BY <2>1, OutcomeOfOthers DEF ramfs_delete_node
  <2>5. QED
    BY <1>2, <2>3, <2>4 DEF FindInv
<1>7. CASE UNCHANGED vfsvars
  <2>1. mounts' = mounts
    BY <1>7 DEF vfsvars
  <2>2. NormalMounts'
    BY <1>2, <2>1 DEF NormalMounts
  <2>3. CreateOutcome'
    BY <1>2, <1>7, OutcomeKept
  <2>4. QED
    BY <1>2, <2>2, <2>3 DEF FindInv
<1>8. QED
  BY <1>1, <1>3, <1>4, <1>5, <1>6, <1>7 DEF TreeNext

\* The tree's invariant with what vfs_create last answered, in every state.
THEOREM FindInvariant == TreeSpec => []FindInv
<1>1. QED
  BY FindInvInit, FindInvStep, PTL DEF TreeSpec

\* vfs_create of dev/vfs/vfs.cpp fails only for a path that is taken, the name
\* as it is cut, for a directory that is not there, or for want of room.
THEOREM RefusalsHaveReasons == TreeSpec => []RefusedForAReason
<1>1. QED
  BY FindInvRefused, FindInvariant, PTL

\* vfs_create and vfs_find: what was created is found at its normal path, the
\* name as it was cut, and at the client's plain spelling, unless a directory is
\* mounted at that very path, whatever was mounted where, over what and how often.
THEOREM CreatedUnlessMounted == TreeSpec => []CreatedIsFound
<1>1. QED
  BY FindInvCreated, FindInvariant, PTL

OnlyTheRoot == mounts = <<>>

LEMMA OnlyTheRootStays == MountPaths = {} => (OnlyTheRoot /\ [TreeNext]_vfsvars => OnlyTheRoot')
<1>1. SUFFICES ASSUME MountPaths = {}, OnlyTheRoot, [TreeNext]_vfsvars PROVE mounts' = mounts
  BY DEF OnlyTheRoot
<1>2. CASE MountRoot
  BY <1>2, RootIsNormal DEF MountRoot, vfs_mount
<1>3. CASE Mount
  BY <1>1, <1>3 DEF Mount
<1>4. CASE Create
  BY <1>4 DEF Create, vfs_create
<1>5. CASE Delete
  BY <1>5 DEF Delete, ramfs_delete_node
<1>6. CASE UNCHANGED vfsvars
  BY <1>6 DEF vfsvars
<1>7. QED
  BY <1>1, <1>2, <1>3, <1>4, <1>5, <1>6 DEF TreeNext

\* kernel_main mounts the root and nothing else: what it or the file manager
\* creates is always found at its normal path, the name as it was cut.
THEOREM KernelFindsCreated ==
  MountPaths = {} =>
    (TreeSpec => [](last.call = "create" /\ last.result # NULL =>
                      vfs_find(Made(normalize_abs_path(last.path))) = last.result))
<1> DEFINE Found == last.call = "create" /\ last.result # NULL =>
                      vfs_find(Made(normalize_abs_path(last.path))) = last.result
<1>1. SUFFICES ASSUME MountPaths = {} PROVE TreeSpec => []Found
  OBVIOUS
<1>2. TreeInit => OnlyTheRoot
  BY DEF TreeInit, OnlyTheRoot
<1>3. OnlyTheRoot /\ [TreeNext]_vfsvars => OnlyTheRoot'
  BY <1>1, OnlyTheRootStays
<1>4. FindInv /\ OnlyTheRoot => Found
  <2>1. OnlyTheRoot => ~MountedAt(Made(normalize_abs_path(last.path)))
    BY DEF OnlyTheRoot, MountedAt
  <2>2. FindInv => CreatedIsFound
    BY FindInvCreated
  <2>3. QED
    BY <2>1, <2>2 DEF CreatedIsFound
<1> HIDE DEF Found
<1>5. QED
  BY <1>2, <1>3, <1>4, FindInvariant, PTL DEF TreeSpec
====
