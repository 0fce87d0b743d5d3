------------------------------- MODULE Screen -------------------------------
(***************************************************************************)
(* What a virtual console promises to the programs that write to it: a     *)
(* grid of characters with a cursor and a scrolling region, after the      *)
(* VT102.  It knows nothing of video memory, of scrolling by moving the    *)
(* start address, of the parser of escape sequences, or of which console   *)
(* is on the screen: switching consoles changes nothing here.              *)
(*                                                                         *)
(* The cursor may stand one place right of the last column: the next       *)
(* character goes to the next line.                                        *)
(***************************************************************************)
EXTENDS Integers

CONSTANTS Con,      \* the consoles
          Cols,     \* video_num_columns
          Lines,    \* video_num_lines
          Tab,      \* distance of the tabulator stops
          Blank,    \* the erased character
          Glyph     \* the characters that can be written

VARIABLE screen    \* [Con -> [cell, x, y, top, bottom, sx, sy]]

Row == 0..Lines - 1
Col == 0..Cols - 1

(* The lines t to b - 1 move one up or down. *)
Scroll(s, t, b, up) ==
    [s EXCEPT !.cell = [r \in Row |->
        IF r \notin t..b - 1 THEN @[r]
        ELSE IF up THEN IF r = b - 1 THEN [c \in Col |-> Blank] ELSE @[r + 1]
        ELSE IF r = t THEN [c \in Col |-> Blank] ELSE @[r - 1]]]

LineFeed(s) == IF s.y + 1 < s.bottom THEN [s EXCEPT !.y = @ + 1] ELSE Scroll(s, s.top, s.bottom, TRUE)
ReverseIndex(s) == IF s.y > s.top THEN [s EXCEPT !.y = @ - 1] ELSE Scroll(s, s.top, s.bottom, FALSE)

Return(s) == [s EXCEPT !.x = 0]
Delete(s) == IF s.x > 0 THEN [s EXCEPT !.x = @ - 1, !.cell[s.y][s.x - 1] = Blank] ELSE s

Put(s, g) ==
    LET n == IF s.x >= Cols THEN LineFeed(Return(s)) ELSE s
    IN  [n EXCEPT !.cell[n.y][n.x] = g, !.x = @ + 1]

Tabulate(s) ==
    LET x == s.x + Tab - (s.x % Tab)
    IN  IF x > Cols THEN LineFeed([s EXCEPT !.x = x - Cols]) ELSE [s EXCEPT !.x = x]

(* The cursor goes to a place of the screen, or right of a line. *)
MoveTo(s, x, y) == [s EXCEPT !.x = x, !.y = y]

(* Erase the places at which E holds. *)
Erase(s, E(_, _)) ==
    [s EXCEPT !.cell = [r \in Row |-> [c \in Col |-> IF E(r, c) THEN Blank ELSE @[r][c]]]]

After(s, r, c) == r > s.y \/ (r = s.y /\ c >= s.x)
EraseDisplay(s, n) ==
    CASE n = 0 -> Erase(s, LAMBDA r, c : After(s, r, c))
      [] n = 1 -> Erase(s, LAMBDA r, c : ~After(s, r, c))
      [] n = 2 -> Erase(s, LAMBDA r, c : TRUE)
EraseLine(s, n) ==
    CASE n = 0 -> Erase(s, LAMBDA r, c : r = s.y /\ c >= s.x)
      [] n = 1 -> Erase(s, LAMBDA r, c : r = s.y /\ c < s.x)
      [] n = 2 -> Erase(s, LAMBDA r, c : r = s.y)

Shifted(s, c, by) ==    \* the line of the cursor, moved from the cursor on
    IF c < s.x THEN s.cell[s.y][c] ELSE IF c + by \in s.x..Cols - 1 THEN s.cell[s.y][c + by] ELSE Blank
InsertChars(s, n) == [s EXCEPT !.cell[s.y] = [c \in Col |-> Shifted(s, c, -n)]]
DeleteChars(s, n) == [s EXCEPT !.cell[s.y] = [c \in Col |-> Shifted(s, c, n)]]

(* Lines are inserted and deleted down to the last one of the screen,      *)
(* whatever the region.                                                    *)
RowShifted(s, r, by) ==
    IF r < s.y THEN s.cell[r] ELSE IF r + by \in s.y..Lines - 1 THEN s.cell[r + by] ELSE [c \in Col |-> Blank]
InsertLines(s, n) == [s EXCEPT !.cell = [r \in Row |-> RowShifted(s, r, -n)]]
DeleteLines(s, n) == [s EXCEPT !.cell = [r \in Row |-> RowShifted(s, r, n)]]

SetRegion(s, t, b) == [s EXCEPT !.top = t, !.bottom = b]
Save(s) == [s EXCEPT !.sx = s.x, !.sy = s.y]

(* What one character, or one sequence, may do to a screen: move or save   *)
(* the cursor, set the region, or change the text.                         *)
Moves(s, t) == t.x \in 0..Cols /\ t.y \in Row /\ t = MoveTo(s, t.x, t.y)
Frames(s, t) == t.top \in 0..t.bottom - 1 /\ t.bottom <= Lines /\ t = SetRegion(s, t.top, t.bottom)
Writes(s, t) ==
    \/ \E g \in Glyph : t = Put(s, g)
    \/ t \in {LineFeed(s), LineFeed(Return(s)), ReverseIndex(s), Delete(s), Tabulate(s)}
    \/ \E n \in 0..2 : t = EraseDisplay(s, n) \/ t = EraseLine(s, n)
    \/ \E n \in 1..Cols : t = InsertChars(s, n) \/ t = DeleteChars(s, n)
    \/ \E n \in 1..Lines : t = InsertLines(s, n) \/ t = DeleteLines(s, n)

(* The BIOS may have left any text, and the cursor anywhere. *)
Init ==
    \A c \in Con :
        /\ screen[c].x \in 0..Cols /\ screen[c].y \in Row
        /\ screen[c].top = 0 /\ screen[c].bottom = Lines
        /\ screen[c].sx = 0 /\ screen[c].sy = 0

(* Characters go to one console, and no other screen changes. *)
Next ==
    LET old == screen
        new == screen'
    IN  \E c \in Con :
          /\ \A d \in Con \ {c} : new[d] = old[d]
          /\ \/ Moves(old[c], new[c]) \/ Frames(old[c], new[c]) \/ new[c] = Save(old[c])
             \/ Writes(old[c], new[c])

Spec == Init /\ [][Next]_screen
=============================================================================
