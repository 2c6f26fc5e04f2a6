------------------------------- MODULE Console -------------------------------
(***************************************************************************)
(* The text console (Kernel/drivers/consoleDriver.c): a buffer of the text *)
(* written, and a screen on which console_write draws as little as it can: *)
(* the new text, or the screen moved up and the visible text, or all of it.*)
(*                                                                         *)
(* The cursor is always at the end of the text, so cursor_position is      *)
(* buffer_length.  Colours are left out, and a pixel row is a text line.   *)
(***************************************************************************)
EXTENDS Naturals, SequencesExt

CONSTANTS
  CONSOLE_BUFFER_SIZE,      \* 60000
  Width, Lines,             \* characters in a line and lines on the screen
  TAB_SIZE,                 \* 4
  Writes,                   \* the data given to console_write
  MaxWrites                 \* bound of the model

NEWLINE   == "newline"
TAB       == "tab"
BACKSPACE == "backspace"
SPACE     == " "

ASSUME ConsoleAssumption ==
  /\ CONSOLE_BUFFER_SIZE \in Nat /\ CONSOLE_BUFFER_SIZE > 4
  /\ Width \in Nat \ {0} /\ Lines \in Nat \ {0} /\ TAB_SIZE \in Nat \ {0}
  /\ \A data \in Writes : data \in Seq(Range(data))

VARIABLES
  text,         \* console_buffer up to buffer_length
  last,         \* last_visible_start
  screen,       \* screen[r][c]: the character in line r, column c
  stale,        \* history: text was dropped and the screen not redrawn since
  writes        \* how often console_write was called

consoleVars == << text, last, screen, stale, writes >>

Rows == 0 .. Lines - 1
Cols == 0 .. Width - 1

Blank == [r \in Rows |-> [c \in Cols |-> SPACE]]

ConsoleInit ==
  /\ text = << >>
  /\ last = 0
  /\ screen = Blank
  /\ stale = FALSE
  /\ writes = 0

-----------------------------------------------------------------------------
(* Where the next character goes, after c at place p. *)
Advance(p, c) ==
  LET NextLine == [line |-> p.line + 1, x |-> 0]
      x2 == IF c = TAB THEN (p.x \div TAB_SIZE + 1) * TAB_SIZE ELSE p.x + 1
  IN  IF c = NEWLINE \/ x2 >= Width THEN NextLine ELSE [p EXCEPT !.x = x2]

Home == [line |-> 0, x |-> 0]

(* Where the first n characters lead to. *)
After(t, n) ==
  LET f[i \in 0 .. Len(t)] == IF i = 0 THEN Home ELSE Advance(f[i - 1], t[i])
  IN  f[n]

Least(a, b) == IF a <= b THEN a ELSE b

(* Positions in the text count from 0; the character at target counts too. *)
count_lines_to_position(t, target) == After(t, Least(target + 1, Len(t))).line

find_buffer_position_for_line(t, l) ==
  CHOOSE n \in 0 .. Len(t) :
    /\ After(t, n).line >= l \/ n = Len(t)
    /\ n = 0 \/ After(t, n - 1).line < l

console_calculate_visible_start(t) ==
  LET l == count_lines_to_position(t, Len(t))
  IN  IF l >= Lines THEN find_buffer_position_for_line(t, l - Lines + 1) ELSE 0

-----------------------------------------------------------------------------
(* A newline clears the rest of its line, a tab one cell. *)
Draws(scr, p, c) ==
  [scr EXCEPT ![p.line] =
     [x \in Cols |-> CASE c = NEWLINE /\ x >= p.x -> SPACE
                       [] c = TAB /\ x = p.x      -> SPACE
                       [] c \notin {NEWLINE, TAB} /\ x = p.x -> c
                       [] OTHER -> @[x]]]

DrawChar(s, c) ==
  IF s.place.line >= Lines THEN s
  ELSE [scr |-> Draws(s.scr, s.place, c), place |-> Advance(s.place, c)]

(* From position `from` to the end, placed from the visible start on. *)
console_render_range(scr, t, from) ==
  LET first == console_calculate_visible_start(t)
      place == After(SubSeq(t, first + 1, from), IF from > first THEN from - first ELSE 0)
      f[n \in from .. Len(t)] ==
        IF n = from THEN [scr |-> scr, place |-> place] ELSE DrawChar(f[n - 1], t[n])
  IN  f[Len(t)].scr

console_render_all(t) ==
  console_render_range(Blank, t, console_calculate_visible_start(t))

(* Mutant: the bottom is not cleared.                                      *)
MovedUp_NoClear(scr, n) == [r \in Rows |-> IF r + n < Lines THEN scr[r + n] ELSE scr[r]]

(* The lines move up by n and the bottom is cleared. *)
MovedUp(scr, n) == [r \in Rows |-> IF r + n < Lines THEN scr[r + n] ELSE Blank[r]]

(* The lines that two starts are apart, in the text as it is now. *)
LinesScrolled(t, old, new) ==
  LET l1 == count_lines_to_position(t, old)
      l2 == count_lines_to_position(t, new)
  IN  IF l2 > l1 THEN l2 - l1 ELSE 0

console_scroll_fast(scr, t, old, new) ==
  LET n == LinesScrolled(t, old, new)
  IN  CASE old = new -> scr
        [] old # new /\ (n = 0 \/ n > 10 \/ 2 * n >= Lines) -> console_render_all(t)
        [] OTHER -> console_render_range(MovedUp(scr, n), t, new)

-----------------------------------------------------------------------------
(* A full buffer loses its first quarter. *)
console_add_char(t, c) ==
  LET shift == CONSOLE_BUFFER_SIZE \div 4
  IN  Append(IF Len(t) >= CONSOLE_BUFFER_SIZE - 1 THEN SubSeq(t, shift + 1, Len(t)) ELSE t, c)

console_backspace(t) == IF t = << >> THEN t ELSE Front(t)

MayWrite == writes < MaxWrites /\ writes' = writes + 1

Added(data) ==
  LET f[n \in 0 .. Len(data)] == IF n = 0 THEN text ELSE console_add_char(f[n - 1], data[n])
  IN  f[Len(data)]

(* console_write: the screen scrolls, or only the new text is drawn, also  *)
(* when the text that was on the screen has changed its position.          *)
WriteText(data) ==
  LET start == console_calculate_visible_start(text)
      new   == console_calculate_visible_start(text')
  IN  /\ MayWrite
      /\ BACKSPACE \notin Range(data)
      /\ text' = Added(data)
      /\ screen' = IF new # start
                     THEN console_scroll_fast(screen, text', last, new)
                     ELSE IF Len(text) >= Len(text') THEN screen
                     ELSE console_render_range(screen, text', Len(text))
      /\ last' = IF new # start THEN new ELSE last
      /\ stale' = (new = start /\ (stale \/ Len(text') < Len(text) + Len(data)))

(* console_write up to a backspace; what follows it is not written. *)
WriteErases(data) ==
  /\ MayWrite
  /\ BACKSPACE \in Range(data)
  /\ text' = console_backspace(Added(SubSeq(data, 1, SelectInSeq(data, LAMBDA c : c = BACKSPACE) - 1)))
  /\ screen' = console_render_all(text')
  /\ last' = console_calculate_visible_start(text')
  /\ stale' = FALSE

console_clear ==
  /\ text # << >>
  /\ MayWrite
  /\ text' = << >>
  /\ last' = 0
  /\ screen' = Blank
  /\ stale' = FALSE

ConsoleNext ==
  \/ \E data \in Writes : WriteText(data) \/ WriteErases(data)
  \/ console_clear

-----------------------------------------------------------------------------
Visible == SubSeq(text, console_calculate_visible_start(text) + 1, Len(text))

(* The cell that the n-th character of the visible text v is in. *)
PlaceOf(v, n) == After(v, n - 1)

(* The cells that the n-th character, a tab, leaves as they were. *)
Skips(v, n, r, c) ==
  LET next == After(v, n)
  IN  PlaceOf(v, n).line = r /\ PlaceOf(v, n).x < c /\ (next.line = r => c < next.x)

Shows(v, r, c) ==
  LET Here == {n \in DOMAIN v : PlaceOf(v, n) = [line |-> r, x |-> c]}
  IN  IF \E n \in Here : v[n] \notin {NEWLINE, TAB}
        THEN screen[r][c] = v[CHOOSE n \in Here : TRUE]
        ELSE \/ screen[r][c] = SPACE
             \/ \E n \in DOMAIN v : v[n] = TAB /\ Skips(v, n, r, c)

(* Whatever was drawn, moved or erased, the screen shows the end of the    *)
(* text, every character at its place, and nothing else; and the end is on *)
(* the screen.  The exception is a write that made the buffer drop text    *)
(* and left the visible start at the same position (consoleDriver.c:450):  *)
(* the text on the screen is then wrong until it scrolls or is cleared.    *)
ScreenShowsText ==
  LET v == Visible
  IN  /\ After(v, Len(v)).line < Lines
      /\ ~ stale => \A r \in Rows, c \in Cols : Shows(v, r, c)
=============================================================================
