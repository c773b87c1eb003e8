------------------------------ MODULE TextApps ------------------------------
(* The two text applications, user_rs/text_editor and terminal_emulator:   *)
(* the scancode decoder they share, their buffers, and what they draw into *)
(* their windows with the SDK's draw_text, draw_line_padded and present.   *)
(* A full mailbox drops bytes, so the bytes that arrive are any sequence.  *)
(* A row of the window is Cols cells wide, exactly (SURFACE_WIDTH is       *)
(* COLS * 8 in both), so a cursor behind the last column is cut off.       *)
(* doc and past are history variables: the same keys applied to plain      *)
(* sequences.                                                              *)
EXTENDS Integers, Sequences, FiniteSets, FiniteSetsExt

CONSTANTS Cols,      \* COLS
          EditRows,  \* ROWS of the editor
          Lines,     \* LINES of the terminal's history
          TabWidth,  \* 4 in both programs
          Bytes,     \* the scancodes that arrive, see Key
          MaxTyped   \* bound on the keys a behaviour decodes

ASSUME TextSizes ==
  /\ Cols \in Nat \ {0} /\ EditRows \in Nat \ {0} /\ Lines \in Nat \ {0}
  /\ TabWidth \in 1..Cols

VARIABLES app,        \* which of the two programs this is
          shift, caps, pendingExtended, typedTotal,
          buf, rowLen, row, col,             \* the editor
          current, currentLen, cursor,       \* the terminal's line
          lines, lens, count,                \* its TextRegion
          surface,    \* the window's buffer, row by row
          shown,      \* the rows as last presented
          doc, past

editorVars   == <<buf, rowLen, row, col, doc>>
terminalVars == <<current, currentLen, cursor, lines, lens, count, past>>
textVars == <<app, shift, caps, pendingExtended, typedTotal, editorVars, terminalVars, surface, shown>>

Columns == 0..Cols - 1
Nul     == "nul"
Space   == " "

-----------------------------------------------------------------------------
(* Drawing                                                                 *)

Cell(c, inverse) == [ch |-> IF c = Nul THEN Space ELSE c, inv |-> inverse]
BlankRow  == [c \in Columns |-> Cell(Space, FALSE)]
BannerRow == [c \in Columns |-> Cell("banner", FALSE)]

(* syscall_draw_text refuses an empty text and clips at the window's edge. *)
DrawText(cells, at, text, inverse) ==
  [c \in Columns |-> IF c \in at..at + Len(text) - 1 THEN Cell(text[c - at + 1], inverse) ELSE cells[c]]

DrawLinePadded(cells, text) ==
  DrawText(cells, 0, [i \in 1..Cols |-> IF i <= Len(text) THEN text[i] ELSE Space], FALSE)

Leading(cells, n) == [i \in 1..n |-> cells[i - 1]]

Present(rows) == shown' = [r \in DOMAIN shown |-> IF r \in rows THEN surface'[r] ELSE shown[r]]

-----------------------------------------------------------------------------
(* decode_key: the key a byte stands for.  The codes that change nothing   *)
(* but a log line (Escape, PageUp, any other break code) are "other".      *)

Letter == IF shift # caps THEN "A" ELSE "a"
Symbol == IF shift THEN "!" ELSE "1"

Modifiers == {"shift", "unshift", "caps"}
Arrows    == {"left", "right", "up", "down"}

Key(b) ==
  CASE b \in Modifiers       -> "none"
    [] pendingExtended       -> IF b \in Arrows THEN b ELSE "none"
    [] b \in Arrows          -> "none"
    [] b = "letter"          -> "ascii"
    [] b = "symbol"          -> "ascii"
    [] OTHER                 -> b

Char(b) == IF b = "letter" THEN Letter ELSE Symbol

Decoded(b) ==
  /\ b # "prefix"
  /\ pendingExtended' = FALSE
  /\ shift' = CASE b = "shift" -> TRUE [] b = "unshift" -> FALSE [] OTHER -> shift
  /\ caps' = IF b = "caps" THEN ~caps ELSE caps
  /\ typedTotal' = IF Key(b) = "none" THEN typedTotal ELSE typedTotal + 1
  /\ typedTotal' <= MaxTyped
  /\ UNCHANGED app

Prefix ==
  /\ "prefix" \in Bytes
  /\ pendingExtended' = TRUE
  /\ UNCHANGED <<app, shift, caps, typedTotal, editorVars, terminalVars, surface, shown>>

NoKey(b) ==
  /\ Decoded(b) /\ Key(b) \in {"none", "other"}
  /\ UNCHANGED <<editorVars, terminalVars, surface, shown>>

-----------------------------------------------------------------------------
(* What an array of cells holds after n copies of ch are put in at place   *)
(* at, the cells that fall off its end being lost, and after the cell at   *)
(* place at is taken out; and the same of a sequence.                      *)

Shifted(cells, at, n, len, ch) ==
  [c \in Columns |->
     IF c \in at..at + n - 1 THEN ch
     ELSE IF c >= at + n /\ c - n < Min({len, Cols - n}) THEN cells[c - n]
     ELSE cells[c]]

Closed(cells, at, len, blank) ==
  [c \in Columns |->
     IF c = len - 1 THEN blank
     ELSE IF c \in at..len - 2 THEN cells[c + 1]
     ELSE cells[c]]

Inserted(s, at, n, ch) ==
  LET long == SubSeq(s, 1, at) \o [i \in 1..n |-> ch] \o SubSeq(s, at + 1, Len(s))
  IN  SubSeq(long, 1, Min({Len(long), Cols}))

Deleted(s, at) == SubSeq(s, 1, at - 1) \o SubSeq(s, at + 1, Len(s))

-----------------------------------------------------------------------------
(* The editor                                                              *)

RowDrawn(r) ==
  LET plain == DrawLinePadded(surface[r], Leading(buf'[r], Cols))
      under == IF col' < Cols THEN buf'[r][col'] ELSE Space
  IN  IF r = row' THEN DrawText(plain, col', <<under>>, TRUE) ELSE plain

RedrawRows(rows) ==
  /\ surface' = [r \in DOMAIN surface |-> IF r \in rows THEN RowDrawn(r) ELSE surface[r]]
  /\ Present(rows)

EditorKey(b, key) == app = "editor" /\ Decoded(b) /\ Key(b) = key /\ UNCHANGED terminalVars

Go_NewRowOnly(r, c) ==
  /\ row' = r /\ col' = c
  /\ UNCHANGED <<buf, rowLen, doc>>
  /\ RedrawRows({r})

Go(r, c) ==
  /\ row' = r /\ col' = c
  /\ UNCHANGED <<buf, rowLen, doc>>
  /\ RedrawRows({row, r})

Stay == UNCHANGED <<editorVars, surface, shown>>

EditorPut(b, key, n, ch) ==
  /\ EditorKey(b, key)
  /\ IF col + n <= Cols
     THEN /\ buf' = [buf EXCEPT ![row] = Shifted(@, Min({col, rowLen[row]}), n, rowLen[row], ch)]
          /\ rowLen' = [rowLen EXCEPT ![row] = Min({@ + n, Cols})]
          /\ col' = col + n
          /\ doc' = [doc EXCEPT ![row] = Inserted(@, col, n, ch)]
     ELSE UNCHANGED <<buf, rowLen, col, doc>>
  /\ UNCHANGED row
  /\ RedrawRows({row})

EditorBackspace(b) ==
  /\ EditorKey(b, "backspace")
  /\ \/ /\ col > 0
        /\ buf' = [buf EXCEPT ![row] = Closed(@, col - 1, rowLen[row], Nul)]
        /\ rowLen' = [rowLen EXCEPT ![row] = Max({@ - 1, 0})]
        /\ col' = col - 1
        /\ doc' = [doc EXCEPT ![row] = Deleted(@, col)]
        /\ UNCHANGED row
        /\ RedrawRows({row})
     \/ col = 0 /\ row > 0 /\ Go(row - 1, rowLen[row - 1])
     \/ col = 0 /\ row = 0 /\ Stay

EditorEnter(b) ==
  /\ EditorKey(b, "enter")
  /\ IF row + 1 < EditRows THEN Go(row + 1, 0) ELSE Stay

EditorLeft(b) ==
  /\ EditorKey(b, "left")
  /\ \/ col > 0 /\ Go(row, col - 1)
     \/ col = 0 /\ row > 0 /\ Go(row - 1, rowLen[row - 1])
     \/ col = 0 /\ row = 0 /\ Stay

EditorRight(b) ==
  /\ EditorKey(b, "right")
  /\ \/ col < rowLen[row] /\ Go(row, col + 1)
     \/ col >= rowLen[row] /\ row + 1 < EditRows /\ Go(row + 1, 0)
     \/ col >= rowLen[row] /\ row + 1 >= EditRows /\ Stay

EditorUp(b) ==
  /\ EditorKey(b, "up")
  /\ IF row > 0 THEN Go(row - 1, Min({col, rowLen[row - 1]})) ELSE Stay

EditorDown(b) ==
  /\ EditorKey(b, "down")
  /\ IF row + 1 < EditRows THEN Go(row + 1, Min({col, rowLen[row + 1]})) ELSE Stay

-----------------------------------------------------------------------------
(* The terminal: row Lines of its window is the line being typed, which    *)
(* doc[0] follows.                                                         *)

LineDrawn ==
  LET plain == DrawLinePadded(surface[Lines], Leading(current', currentLen'))
      under == IF cursor' < currentLen' THEN current'[cursor'] ELSE Space
  IN  DrawText(plain, cursor', <<under>>, TRUE)

RedrawLine == surface' = [surface EXCEPT ![Lines] = LineDrawn] /\ Present({Lines})

TerminalKey(b, key) ==
  /\ app = "terminal" /\ Decoded(b) /\ Key(b) = key
  /\ UNCHANGED <<buf, rowLen, row, col>>

TerminalPut(b, key, n, ch) ==
  /\ TerminalKey(b, key)
  /\ LET at == Min({cursor, currentLen})
     IN  IF currentLen + n <= Cols
         THEN /\ current' = Shifted(current, at, n, currentLen, ch)
              /\ currentLen' = currentLen + n
              /\ cursor' = at + n
              /\ doc' = [doc EXCEPT ![0] = Inserted(@, at, n, ch)]
         ELSE cursor' = at /\ UNCHANGED <<current, currentLen, doc>>
  /\ UNCHANGED <<lines, lens, count, past>>
  /\ IF key = "tab" /\ currentLen + n > Cols THEN UNCHANGED <<surface, shown>> ELSE RedrawLine

TerminalBackspace(b) ==
  /\ TerminalKey(b, "backspace")
  /\ LET at == Min({cursor, currentLen})
     IN  IF at > 0
         THEN /\ current' = Closed(current, at - 1, currentLen, Space)
              /\ currentLen' = currentLen - 1
              /\ cursor' = at - 1
              /\ doc' = [doc EXCEPT ![0] = Deleted(@, at)]
         ELSE cursor' = at /\ UNCHANGED <<current, currentLen, doc>>
  /\ UNCHANGED <<lines, lens, count, past>>
  /\ RedrawLine

TerminalMove(b, key, to) ==
  /\ TerminalKey(b, key)
  /\ cursor' = to
  /\ UNCHANGED <<current, currentLen, lines, lens, count, past, doc>>
  /\ RedrawLine

(* TextRegion::push_line, the oldest line giving way.                      *)
PushLine(text) ==
  LET padded == [c \in Columns |-> IF c < Len(text) THEN text[c + 1] ELSE Space]
  IN  IF count < Lines
      THEN /\ lines' = [lines EXCEPT ![count] = padded]
           /\ lens' = [lens EXCEPT ![count] = Len(text)]
           /\ count' = count + 1
      ELSE /\ lines' = [i \in DOMAIN lines |-> IF i < Lines - 1 THEN lines[i + 1] ELSE padded]
           /\ lens' = [i \in DOMAIN lens |-> IF i < Lines - 1 THEN lens[i + 1] ELSE Len(text)]
           /\ UNCHANGED count

(* TextRegion::render draws each line as long as it is, without padding.   *)
Render(i) ==
  CASE i = Lines  -> LineDrawn
    [] i < count' -> DrawText(surface[i], 0, Leading(lines'[i], lens'[i]), FALSE)
    [] OTHER      -> surface[i]

TerminalEnter(b) ==
  /\ TerminalKey(b, "enter")
  /\ PushLine(Leading(current, currentLen))
  /\ current' = [c \in Columns |-> Space] /\ currentLen' = 0 /\ cursor' = 0
  /\ past' = LET all == Append(past, doc[0])
             IN  SubSeq(all, 1 + Max({Len(all) - Lines, 0}), Len(all))
  /\ doc' = [doc EXCEPT ![0] = <<>>]
  /\ surface' = [i \in DOMAIN surface |-> Render(i)]
  /\ Present(DOMAIN shown)

(* The terminal decodes the other two arrows and does nothing with them.   *)
TerminalIgnores(b) ==
  /\ \E key \in {"up", "down"} : TerminalKey(b, key)
  /\ UNCHANGED <<terminalVars, doc, surface, shown>>

-----------------------------------------------------------------------------

TextInit ==
  /\ app \in {"editor", "terminal"}
  /\ shift = FALSE /\ caps = FALSE /\ pendingExtended = FALSE /\ typedTotal = 0
  /\ buf = [r \in 0..EditRows - 1 |-> [c \in Columns |-> Nul]]
  /\ rowLen = [r \in 0..EditRows - 1 |-> 0]
  /\ row = 0 /\ col = 0
  /\ current = [c \in Columns |-> Space] /\ currentLen = 0 /\ cursor = 0
  /\ lines = [i \in 0..Lines - 1 |-> [c \in Columns |-> Space]]
  /\ lens = [i \in 0..Lines - 1 |-> 0]
  /\ count = 0
  /\ surface = [r \in 0..(IF app = "editor" THEN EditRows - 1 ELSE Lines) |->
                  IF r = 0 THEN BannerRow ELSE BlankRow]
  /\ shown = surface
  /\ doc = [r \in 0..EditRows - 1 |-> <<>>]
  /\ past = <<>>

TextNext ==
  \/ Prefix
  \/ \E b \in Bytes :
       \/ NoKey(b)
       \/ EditorPut(b, "ascii", 1, Char(b))
       \/ EditorPut(b, "tab", TabWidth, Space)
       \/ EditorBackspace(b)
       \/ EditorEnter(b)
       \/ EditorLeft(b)
       \/ EditorRight(b)
       \/ EditorUp(b)
       \/ EditorDown(b)
       \/ TerminalPut(b, "ascii", 1, Char(b))
       \/ TerminalPut(b, "tab", TabWidth, Space)
       \/ TerminalBackspace(b)
       \/ TerminalMove(b, "left", Max({cursor - 1, 0}))
       \/ TerminalMove(b, "right", Min({cursor + 1, currentLen}))
       \/ TerminalEnter(b)
       \/ TerminalIgnores(b)

TextSpec == TextInit /\ [][TextNext]_textVars

-----------------------------------------------------------------------------

(* A row that shows a text, and the cursor in one place or nowhere (-1).   *)
Shows(cells, text, at) ==
  \A c \in Columns : cells[c] = Cell(IF c < Len(text) THEN text[c + 1] ELSE Space, c = at)

(* From the first key that draws anything, the editor's window shows the   *)
(* text that the same keys give in a plain sequence per row, characters    *)
(* falling off only at the end of a full row, with exactly one cursor and  *)
(* at the place where the next character goes (_start of text_editor).     *)
EditorTrue ==
  /\ \A r \in 0..EditRows - 1 : Leading(buf[r], rowLen[r]) = doc[r]
  /\ col <= rowLen[row]
  /\ \/ shown[0] = BannerRow /\ \A r \in 0..EditRows - 1 : doc[r] = <<>>
     \/ \A r \in 0..EditRows - 1 : Shows(shown[r], doc[r], IF r = row THEN col ELSE -1)

(* The terminal's last row shows the line being typed and the cursor, its  *)
(* history holds the newest lines in order, and the row of each line that  *)
(* is not empty begins with it.  Nothing is said about the rest of that    *)
(* row, or about the row of an empty line: render does not pad, and what   *)
(* was drawn there before stays.                                           *)
TerminalTrue ==
  /\ Leading(current, currentLen) = doc[0]
  /\ cursor <= currentLen
  /\ \/ shown[Lines] = BlankRow /\ doc[0] = <<>>
     \/ Shows(shown[Lines], doc[0], cursor)
  /\ count = Len(past)
  /\ \A i \in 0..count - 1 :
       /\ Leading(lines[i], lens[i]) = past[i + 1]
       /\ \A c \in 0..lens[i] - 1 : shown[i][c] = Cell(past[i + 1][c + 1], FALSE)

(* What the text applications show is what was typed (text_editor and      *)
(* terminal_emulator, through any sequence of scancodes).                  *)
ScreenTrue == IF app = "editor" THEN EditorTrue ELSE TerminalTrue
=============================================================================
