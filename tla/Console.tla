------------------------------ MODULE Console ------------------------------
(***************************************************************************)
(* What kernel_main shows and hears: the log (KernelLog) given to the      *)
(* terminal and to the serial port, the table of key callbacks             *)
(* (dev/kb/kb.cpp), and the terminal's life (std/graphics.cpp) from        *)
(* graphics_initalize_stage1 to terminal_delete, after which the keys are  *)
(* the window system's.  A key interrupts kernel_main between two steps.   *)
(***************************************************************************)
EXTENDS KernelLog, Terminal

CONSTANTS
  MAX_CALLBACKS,
  Keys,           \* the characters KeyboardHandler passes on
  MaxKeys         \* bound on the keys pressed

ASSUME ConsoleAssumption ==
  MAX_CALLBACKS \in Nat \ {0} /\ MaxKeys \in Nat /\ "terminal" \in Devices

VARIABLES
  main,             \* where kernel_main is
  terminal,         \* "none", "there", or "freed" while the pointer dangles
  tty,              \* the terminal behind the pointer
  global_callbacks, \* [callback, id] by slot
  next_global_id,
  associatedKeyboardEvent,
  pressed,          \* number of keys pressed
  crossed,          \* history: a backspace at the start of a line
  heard             \*   what each callback was given: [terminal, window]

table   == <<global_callbacks, next_global_id>>
seen    == <<terminal, tty, crossed>>
console == <<main, seen, table, associatedKeyboardEvent, pressed, heard>>
cvars   == <<logvars, console>>

Free == [callback |-> "none", id |-> 0]

CInit ==
  /\ LogInit
  /\ main = "capture" /\ terminal = "none" /\ tty = NewTerminal
  /\ global_callbacks = [i \in 1 .. MAX_CALLBACKS |-> Free] /\ next_global_id = 1
  /\ associatedKeyboardEvent = 0 /\ pressed = 0
  /\ crossed = FALSE /\ heard = [terminal |-> <<>>, window |-> <<>>]

At(from, to) == main = from /\ main' = to

-----------------------------------------------------------------------------
(* The log, and the terminal as its device.                                *)

\* terminal_write, for what the device was given in this step.
TerminalDevice ==
  LET old == got["terminal"]
      new == SubSeq(got'["terminal"], Len(old) + 1, Len(got'["terminal"]))
  IN  /\ tty' = IF terminal = "there" THEN write(tty, new) ELSE tty
      /\ UNCHANGED <<terminal, crossed, table, associatedKeyboardEvent, pressed, heard>>

\* kernel_main's messages are captured before there is a device.
LogPhase ==
  \/ At("capture", "log") /\ Capture /\ TerminalDevice
  \/ At("log", "log") /\ LogEarly /\ TerminalDevice
  \/ At("devices", "devices") /\ AddDevice /\ TerminalDevice
  \/ At("devices", "stage2") /\ Flush /\ TerminalDevice

graphics_initalize_stage1 ==
  /\ At("log", "devices")
  /\ terminal' = "there" /\ tty' = NewTerminal
  /\ UNCHANGED <<logvars, crossed, table, associatedKeyboardEvent, pressed, heard>>

-----------------------------------------------------------------------------
(* The callbacks.                                                          *)

Unused == {i \in DOMAIN global_callbacks : global_callbacks[i].callback = "none"}

\* kb_add_event in its two stores; what a key between them finds is complete.
StoreCallback(callback) ==
  \E i \in Unused :
    /\ \A j \in Unused : i =< j
    /\ global_callbacks' = [global_callbacks EXCEPT ![i].callback = callback]
    /\ UNCHANGED <<logvars, seen, next_global_id, associatedKeyboardEvent, pressed, heard>>

StoreId(callback) ==
  \E i \in DOMAIN global_callbacks :
    /\ global_callbacks[i].callback = callback
    /\ global_callbacks' = [global_callbacks EXCEPT ![i].id = next_global_id]
    /\ next_global_id' = next_global_id + 1
    /\ UNCHANGED <<logvars, seen, pressed, heard>>

\* Mutant: the slot is given back, the callback stays in it.
RemoveIdOnly(id) ==
  [i \in DOMAIN global_callbacks |->
    IF global_callbacks[i].id = id THEN [global_callbacks[i] EXCEPT !.id = 0]
                                   ELSE global_callbacks[i]]

kb_remove_event(id) ==
  [i \in DOMAIN global_callbacks |->
    IF global_callbacks[i].id = id THEN Free ELSE global_callbacks[i]]

\* Stage 2: the greeting, then the callback.
Greeting == <<NewlineChar, <<"colour", "text">>, <<"greeting", "text">>, NewlineChar>>

graphics_initalize_stage2 ==
  \/ /\ At("stage2", "add") /\ tty' = write(tty, Greeting)
     /\ UNCHANGED <<logvars, terminal, crossed, table, associatedKeyboardEvent, pressed, heard>>
  \/ At("add", "add_id") /\ StoreCallback("terminalWriteCharacter")
  \/ /\ At("add_id", "typing") /\ StoreId("terminalWriteCharacter")
     /\ associatedKeyboardEvent' = next_global_id

\* terminal_delete: the terminal is freed, then forgotten, then its callback
\* removed; initalizeWindowSystem adds its own.
terminal_delete ==
  \/ /\ At("typing", "delete") /\ terminal' = "freed"
     /\ UNCHANGED <<logvars, tty, crossed, table, associatedKeyboardEvent, pressed, heard>>
  \/ /\ At("delete", "remove") /\ terminal' = "none"
     /\ UNCHANGED <<logvars, tty, crossed, table, associatedKeyboardEvent, pressed, heard>>
  \/ /\ At("remove", "window") /\ global_callbacks' = kb_remove_event(associatedKeyboardEvent)
     /\ UNCHANGED <<logvars, seen, next_global_id, associatedKeyboardEvent, pressed, heard>>

initalizeWindowSystem ==
  \/ At("window", "window_id") /\ StoreCallback("keyboardFunctionWindowManager")
  \/ /\ At("window_id", "desktop") /\ StoreId("keyboardFunctionWindowManager")
     /\ UNCHANGED associatedKeyboardEvent

-----------------------------------------------------------------------------
(* A key.                                                                  *)

Registered(callback) == \E i \in DOMAIN global_callbacks : global_callbacks[i].callback = callback

\* terminalWriteCharacter: Escape and the scancodes behind 3A are dropped.  A
\* terminal just freed is written to as before, for free leaves its fields.
Dropped == {<<"escape", "key">>, <<"arrow", "key">>}

terminalWriteCharacter(k) ==
  /\ UNCHANGED terminal
  /\ IF terminal # "none" /\ k \notin Dropped
     THEN /\ tty' = write(tty, <<k>>)
          /\ crossed' = (crossed \/ (k = Backspace /\ tty.x = 0 /\ tty.buffer # <<>>))
     ELSE UNCHANGED <<tty, crossed>>

\* kb_run_events: every callback there is.
kb_run_events(k) ==
  /\ pressed < MaxKeys /\ pressed' = pressed + 1
  /\ IF Registered("terminalWriteCharacter") THEN terminalWriteCharacter(k) ELSE UNCHANGED seen
  /\ heard' = [terminal |-> IF Registered("terminalWriteCharacter")
                            THEN Append(heard.terminal, pressed') ELSE heard.terminal,
               window |-> IF Registered("keyboardFunctionWindowManager")
                          THEN Append(heard.window, pressed') ELSE heard.window]
  /\ UNCHANGED <<logvars, main, table, associatedKeyboardEvent>>

KernelMain == \/ LogPhase \/ graphics_initalize_stage1 \/ graphics_initalize_stage2
              \/ terminal_delete \/ initalizeWindowSystem
KeyPress   == \E k \in Keys : kb_run_events(k)

CNext == KernelMain \/ KeyPress
CSpec == CInit /\ [][CNext]_cvars

-----------------------------------------------------------------------------
(* Properties.                                                             *)

\* The screen shows the last lines of the buffer, wrapped and scrolled, and the
\* cursor stands behind them, whatever was logged and typed; until a backspace
\* at the start of a line moves the cursor to a column no line reaches
\* (graphics.cpp:165).
ScreenShowsText ==
  terminal = "there" /\ ~crossed =>
    LET lines == Shown(tty.buffer)
    IN  /\ tty.screen = Picture(lines)
        /\ tty.x = Len(Last(lines)) /\ tty.y = (Len(lines) - 1) * LineHeight

\* A key is heard once or not at all: terminal and window system never hear the
\* same key, and none is heard out of order.
OneListener ==
  /\ Range(heard.terminal) \cap Range(heard.window) = {}
  /\ \A a \in Range(heard.terminal), b \in Range(heard.window) : a < b
  /\ heard.window # <<>> => ~Registered("terminalWriteCharacter")
=============================================================================
