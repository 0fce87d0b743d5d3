------------------------------ MODULE Console ------------------------------
(***************************************************************************)
(* The virtual consoles (kernel/chr_drv/console.c): the parser of escape   *)
(* sequences of con_write, and the screens in memory.  Video memory holds  *)
(* the console in the foreground, which on an EGA scrolls by moving its    *)
(* origin and copies itself back to the start when it meets the end; the   *)
(* other consoles have a buffer of one screen each.                        *)
(*                                                                         *)
(* An address counts characters; the two bytes of a place are one cell.    *)
(* Attributes, character sets, the keypad modes, the bell and the blanking *)
(* timer are left out.  update_screen is modelled as it is defined, with   *)
(* the number of the new console; change_console calls it without one.     *)
(***************************************************************************)
EXTENDS Integers, FiniteSets

CONSTANTS Con,          \* the consoles; 0 is in the foreground at first
          Cols, Lines,  \* video_num_columns, video_num_lines
          Tab,          \* the distance 8 of tabulator stops
          VideoCells,   \* places of the video memory
          NPAR,         \* parameters of a sequence
          Digits,       \* digits that are typed
          Boot,         \* where the BIOS may have left the cursor
          MaxPar,       \* bound: no digit is added to a parameter above it
          MaxOps        \* bound: characters and sequences begun

ASSUME ConsoleSizes ==
    /\ IsFiniteSet(Con) /\ Con = 0..Cardinality(Con) - 1 /\ 0 \in Con
    /\ Cols \in Nat /\ Cols > 0 /\ Cols % 2 = 0
    /\ Lines \in Nat /\ Lines > 0
    /\ Tab \in 1..Cols
    /\ VideoCells \in Nat /\ VideoCells >= Cols * Lines
    /\ NPAR \in Nat /\ NPAR > 1
    /\ Digits \subseteq {"0", "1", "2", "3", "4", "5", "6", "7", "8", "9"}
    /\ MaxPar \in Nat
    /\ Boot \subseteq (0..Cols - 1) \X (0..Lines - 1)

VARIABLES egac,   \* the adapter is an EGA: set_origin works
          fg,     \* fg_console
          mem,    \* video memory, then the buffers vc_scrbuf
          vc,     \* vc_cons
          start,  \* the start address that the adapter shows
          ops     \* characters and sequences so far

vars == <<egac, fg, mem, vc, start, ops>>

screen_size == Cols * Lines
ScrBuf(c) == VideoCells + c * screen_size
Address == 0..ScrBuf(Cardinality(Con)) - 1

(* The erased character; other cells hold numbers: what the memory held at *)
(* first, or -1 for what is written.                                       *)
Erased == -2
Written == -1

-----------------------------------------------------------------------------
(* Operations work on k: a console v with the memory and the start address.*)

gotoxy(k, x, y) ==
    IF x \notin 0..Cols \/ y \notin 0..Lines - 1 THEN k
    ELSE [k EXCEPT !.v.x = x, !.v.y = y, !.v.pos = k.v.origin + y * Cols + x]

Fill(k, at, n) ==
    [k EXCEPT !.mem = [a \in Address |-> IF a \in at..at + n - 1 THEN Erased ELSE @[a]]]
Move(k, to, from, n) ==
    [k EXCEPT !.mem = [a \in Address |-> IF a \in to..to + n - 1 THEN @[from + a - to] ELSE @[a]]]

set_origin(k) == IF egac /\ k.fg THEN [k EXCEPT !.start = k.v.origin] ELSE k

\* Mutant: the screen is copied back only when it lies wholly past the end.
HardScrollLate(k) ==
    LET v == [k.v EXCEPT !.origin = @ + Cols, !.pos = @ + Cols, !.scr_end = @ + Cols]
        m == [k EXCEPT !.v = v]
        back == Fill(Move(m, v.start, v.origin, (Lines - 1) * Cols), v.start + (Lines - 1) * Cols, Cols)
    IN  set_origin(IF v.scr_end > v.end + Cols
                   THEN [back EXCEPT !.v.scr_end = v.scr_end - (v.origin - v.start),
                                     !.v.pos = v.pos - (v.origin - v.start), !.v.origin = v.start]
                   ELSE Fill(m, v.scr_end - Cols, Cols))

(* The scroll of a whole EGA screen: one line further in memory, or back   *)
(* to the start of it.                                                     *)
HardScroll(k) ==
    LET v == [k.v EXCEPT !.origin = @ + Cols, !.pos = @ + Cols, !.scr_end = @ + Cols]
        m == [k EXCEPT !.v = v]
        back == Fill(Move(m, v.start, v.origin, (Lines - 1) * Cols), v.start + (Lines - 1) * Cols, Cols)
    IN  set_origin(IF v.scr_end > v.end
                   THEN [back EXCEPT !.v.scr_end = v.scr_end - (v.origin - v.start),
                                     !.v.pos = v.pos - (v.origin - v.start), !.v.origin = v.start]
                   ELSE Fill(m, v.scr_end - Cols, Cols))

scrup(k, t, b) ==
    IF b > Lines \/ t >= b THEN k
    ELSE IF egac /\ t = 0 /\ b = Lines THEN HardScroll(k)
    ELSE Fill(Move(k, k.v.origin + Cols * t, k.v.origin + Cols * (t + 1), (b - t - 1) * Cols),
              k.v.origin + Cols * (b - 1), Cols)

scrdown(k, t, b) ==
    IF b > Lines \/ t >= b THEN k
    ELSE Fill(Move(k, k.v.origin + Cols * (t + 1), k.v.origin + Cols * t, (b - t - 1) * Cols),
              k.v.origin + Cols * t, Cols)

lf(k) == IF k.v.y + 1 < k.v.bottom THEN [k EXCEPT !.v.y = @ + 1, !.v.pos = @ + Cols]
         ELSE scrup(k, k.v.top, k.v.bottom)

ri(k) == IF k.v.y > k.v.top THEN [k EXCEPT !.v.y = @ - 1, !.v.pos = @ - Cols]
         ELSE scrdown(k, k.v.top, k.v.bottom)

cr(k) == [k EXCEPT !.v.pos = @ - k.v.x, !.v.x = 0]

bs(k) == IF k.v.x = 0 THEN k ELSE [k EXCEPT !.v.x = @ - 1, !.v.pos = @ - 1]
del(k) == IF k.v.x = 0 THEN k ELSE LET b == bs(k) IN Fill(b, b.v.pos, 1)

(* Past the last column the cursor goes to the next line. *)
Wrapped(k) == lf([k EXCEPT !.v.x = @ - Cols, !.v.pos = @ - Cols])

tab(k) ==
    LET n == Tab - (k.v.x % Tab)
        m == [k EXCEPT !.v.x = @ + n, !.v.pos = @ + n]
    IN  IF m.v.x > Cols THEN Wrapped(m) ELSE m

put(k) ==
    LET m == IF k.v.x >= Cols THEN Wrapped(k) ELSE k
    IN  [m EXCEPT !.mem[m.v.pos] = Written, !.v.pos = @ + 1, !.v.x = @ + 1]

csi_J(k, n) ==
    CASE n = 0 -> Fill(k, k.v.pos, k.v.scr_end - k.v.pos)
      [] n = 1 -> Fill(k, k.v.origin, k.v.pos - k.v.origin)
      [] n = 2 -> Fill(k, k.v.origin, Cols * Lines)
      [] OTHER -> k

csi_K(k, n) ==
    CASE n = 0 -> IF k.v.x >= Cols THEN k ELSE Fill(k, k.v.pos, Cols - k.v.x)
      [] n = 1 -> Fill(k, k.v.pos - k.v.x, IF k.v.x < Cols THEN k.v.x ELSE Cols)
      [] n = 2 -> Fill(k, k.v.pos - k.v.x, Cols)
      [] OTHER -> k

Clamp(n, size) == IF n > size THEN size ELSE IF n = 0 THEN 1 ELSE n

(* insert_char and delete_char, nr times: the rest of the line moves. *)
insert_char(k, nr) ==
    LET rest == Cols - k.v.x
    IN  IF nr >= rest THEN Fill(k, k.v.pos, rest)
        ELSE Fill(Move(k, k.v.pos + nr, k.v.pos, rest - nr), k.v.pos, nr)
delete_char(k, nr) ==
    LET rest == Cols - k.v.x
    IN  IF nr >= rest THEN Fill(k, k.v.pos, rest)
        ELSE Fill(Move(k, k.v.pos, k.v.pos + nr, rest - nr), k.v.pos + rest - nr, nr)

csi_at(k, n) == insert_char(k, Clamp(n, Cols))
csi_P(k, n) == delete_char(k, Clamp(n, Cols))

(* Whatever the region, lines move from that of the cursor to the last. *)
insert_line(k) == scrdown(k, k.v.y, Lines)
delete_line(k) == scrup(k, k.v.y, Lines)

Repeat(k, n, Op(_)) ==
    LET f[i \in 0..Lines] == IF i = 0 THEN k ELSE Op(f[i - 1])
    IN  f[Clamp(n, Lines)]
csi_L(k, n) == Repeat(k, n, insert_line)
csi_M(k, n) == Repeat(k, n, delete_line)

save_cur(k) == [k EXCEPT !.v.sx = k.v.x, !.v.sy = k.v.y]
restore_cur(k) == gotoxy(k, k.v.sx, k.v.sy)

set_region(k, t, b) ==
    IF t < b /\ b <= Lines THEN [k EXCEPT !.v.top = t, !.v.bottom = b] ELSE k

-----------------------------------------------------------------------------
(* con_write, one character c; the states of its parser *)

Dec(n) == IF n > 0 THEN n - 1 ELSE 0
Inc(n) == IF n = 0 THEN 1 ELSE n

State(k, s) == [k EXCEPT !.v.state = s]

(* ESnormal; "can" is the character that aborts a sequence. *)
Normal(k, c) ==
    CASE c = "x" -> put(k)
      [] c = "esc" -> State(k, "ESesc")
      [] c = "lf" -> lf(k)
      [] c = "cr" -> cr(k)
      [] c = "del" -> del(k)
      [] c = "bs" -> bs(k)
      [] c = "tab" -> tab(k)
      [] OTHER -> k

(* ESesc; after # one more character is skipped. *)
Esc(k, c) ==
    LET n == State(k, "ESnormal")
    IN  CASE c = "[" -> State(k, "ESsquare")
          [] c = "E" -> gotoxy(n, 0, n.v.y + 1)
          [] c = "M" -> ri(n)
          [] c = "D" -> lf(n)
          [] c = "7" -> save_cur(n)
          [] c = "8" -> restore_cur(n)
          [] c \in {"(", "P", "#"} -> State(k, "ESskip")
          [] c = "c" -> set_region(n, 0, Lines)
          [] OTHER -> n

(* The end of a control sequence *)
GotPars(k, c) ==
    LET n == [State(k, "ESnormal") EXCEPT !.v.ques = FALSE]
        p == k.v.par[0]
        q == k.v.par[1]
        x == k.v.x
        y == k.v.y
    IN  IF k.v.ques THEN n
        ELSE CASE c = "G" -> gotoxy(n, Dec(p), y)
               [] c = "A" -> gotoxy(n, x, y - Inc(p))
               [] c = "B" -> gotoxy(n, x, y + Inc(p))
               [] c = "C" -> gotoxy(n, x + Inc(p), y)
               [] c = "D" -> gotoxy(n, x - Inc(p), y)
               [] c = "E" -> gotoxy(n, 0, y + Inc(p))
               [] c = "F" -> gotoxy(n, 0, y - Inc(p))
               [] c = "d" -> gotoxy(n, x, Dec(p))
               [] c = "H" -> gotoxy(n, Dec(q), Dec(p))
               [] c = "J" -> csi_J(n, p)
               [] c = "K" -> csi_K(n, p)
               [] c = "L" -> csi_L(n, p)
               [] c = "M" -> csi_M(n, p)
               [] c = "P" -> csi_P(n, p)
               [] c = "@" -> csi_at(n, p)
               [] c = "r" -> set_region(n, Dec(p), IF q = 0 THEN Lines ELSE q)
               [] c = "s" -> save_cur(n)
               [] c = "u" -> restore_cur(n)
               [] OTHER -> n

Value(c) == CHOOSE i \in 0..9 : <<"0", "1", "2", "3", "4", "5", "6", "7", "8", "9">>[i + 1] = c

GetPars(k, c) ==
    IF c = ";" /\ k.v.npar < NPAR - 1 THEN [k EXCEPT !.v.npar = @ + 1]
    ELSE IF c \in Digits THEN [k EXCEPT !.v.par[k.v.npar] = 10 * @ + Value(c)]
    ELSE GotPars(k, c)

NoPars == [i \in 0..NPAR - 1 |-> 0]

Square(k, c) ==
    LET n == [State(k, "ESgetpars") EXCEPT !.v.par = NoPars, !.v.npar = 0, !.v.ques = c = "?"]
    IN  CASE c = "[" -> State(n, "ESskip")
          [] c = "?" -> n
          [] OTHER -> GetPars(n, c)

Parse(k, c) ==
    IF c = "can" THEN State(k, "ESnormal")
    ELSE CASE k.v.state = "ESnormal" -> Normal(k, c)
           [] k.v.state = "ESesc" -> Esc(k, c)
           [] k.v.state = "ESsquare" -> Square(k, c)
           [] k.v.state = "ESgetpars" -> GetPars(k, c)
           [] OTHER -> State(k, "ESnormal")

(* The characters that a state of the parser tells apart *)
Finals == {"G", "A", "B", "C", "D", "E", "F", "d", "H", "J", "K", "L", "M", "P", "@", "r", "s", "u", "x"}
Input(s) ==
    CASE s = "ESnormal" -> {"x", "esc", "lf", "cr", "del", "bs", "tab"}
      [] s = "ESesc" -> {"[", "E", "M", "D", "7", "8", "(", "c", "x", "can"}
      [] s = "ESsquare" -> {"[", "?", ";", "can"} \cup Digits \cup Finals
      [] s = "ESgetpars" -> {";", "can"} \cup Digits \cup Finals
      [] OTHER -> {"x"}

-----------------------------------------------------------------------------
(* con_init: console 0 in video memory, the cursor where the BIOS left it, *)
(* the others in their buffers.                                            *)
Screenful(s, e, x, y) ==
    [origin |-> s, start |-> s, end |-> e, scr_end |-> s + screen_size, x |-> x, y |-> y,
     pos |-> s + y * Cols + x, top |-> 0, bottom |-> Lines, sx |-> 0, sy |-> 0,
     state |-> "ESnormal", npar |-> 0, par |-> NoPars, ques |-> FALSE]

Init ==
    /\ egac \in BOOLEAN
    /\ fg = 0
    /\ mem = [a \in Address |-> IF a < VideoCells THEN a ELSE Erased]
    /\ \E p \in Boot :
         vc = [c \in Con |-> IF c = 0 THEN Screenful(0, VideoCells, p[1], p[2])
                             ELSE Screenful(ScrBuf(c), ScrBuf(c) + screen_size, 0, 0)]
    /\ start = 0
    /\ ops = 0

Console(c) == [mem |-> mem, v |-> vc[c], start |-> start, fg |-> c = fg]

Install(c, k) ==
    /\ mem' = k.mem /\ start' = k.start
    /\ vc' = [vc EXCEPT ![c] = k.v]
    /\ UNCHANGED <<egac, fg>>

(* con_write on console c takes one more character *)
con_write(c) ==
    /\ \E x \in Input(vc[c].state) :
         /\ x \in Digits => vc[c].state = "ESsquare" \/ vc[c].par[vc[c].npar] <= MaxPar
         /\ Install(c, Parse(Console(c), x))
    /\ IF vc[c].state = "ESnormal" THEN ops < MaxOps /\ ops' = ops + 1 ELSE UNCHANGED ops

(* console_print of printk and panic: no sequences, and a line feed is     *)
(* also a return.                                                          *)
console_print ==
    /\ ops < MaxOps /\ ops' = ops + 1
    /\ \E x \in {"lf", "cr", "x"} :
         Install(fg, CASE x = "lf" -> lf(cr(Console(fg))) [] x = "cr" -> cr(Console(fg)) [] OTHER -> put(Console(fg)))

Copied(m, to, from) ==
    [a \in Address |-> IF a \in to..to + screen_size - 1 THEN m[from + a - to] ELSE m[a]]
Placed(v, s, e) ==
    [v EXCEPT !.start = s, !.origin = s, !.end = e, !.scr_end = s + screen_size, !.pos = s + v.y * Cols + v.x]

\* Mutant: the screen is saved from the start of video memory.
get_scrmem_Start(m) == Copied(m, ScrBuf(fg), vc[fg].start)

(* get_scrmem: the screen in the foreground goes to its buffer. *)
get_scrmem(m) == Copied(m, ScrBuf(fg), vc[fg].origin)

\* Mutant: the start address is left where the old console had scrolled to.
update_screen_Start(new) ==
    /\ new # fg /\ ops < MaxOps /\ ops' = ops + 1
    /\ mem' = Copied(get_scrmem(mem), 0, ScrBuf(new))
    /\ vc' = [vc EXCEPT ![fg] = Placed(@, ScrBuf(fg), ScrBuf(fg) + screen_size),
                        ![new] = Placed(@, 0, VideoCells)]
    /\ fg' = new
    /\ UNCHANGED <<egac, start>>

(* update_screen: then set_scrmem takes the new one to video memory. *)
update_screen(new) ==
    /\ new # fg /\ ops < MaxOps /\ ops' = ops + 1
    /\ mem' = Copied(get_scrmem(mem), 0, ScrBuf(new))
    /\ vc' = [vc EXCEPT ![fg] = Placed(@, ScrBuf(fg), ScrBuf(fg) + screen_size),
                        ![new] = Placed(@, 0, VideoCells)]
    /\ fg' = new
    /\ start' = IF egac THEN 0 ELSE start
    /\ UNCHANGED egac

Next == \/ \E c \in Con : con_write(c) \/ update_screen(c)
        \/ console_print

Spec == Init /\ [][Next]_vars

-----------------------------------------------------------------------------
(* Properties *)

(* Whatever is written, the cursor lies on the screen or right of a line,  *)
(* pos is its address, the screen lies in the memory of its console, and   *)
(* the region holds at least one line: no write goes astray.               *)
Geometry ==
    \A c \in Con :
        LET v == vc[c]
        IN  /\ v.x \in 0..Cols /\ v.y \in 0..Lines - 1
            /\ v.pos = v.origin + v.y * Cols + v.x
            /\ v.scr_end = v.origin + screen_size
            /\ v.start <= v.origin /\ v.scr_end <= v.end
            /\ v.top < v.bottom /\ v.bottom <= Lines
            /\ v.start = (IF c = fg THEN 0 ELSE ScrBuf(c))

(* The adapter shows the screen of the console in the foreground. *)
ForegroundShown == start = vc[fg].origin

(* The text of each console, wherever it is in memory. *)
Text ==
    [c \in Con |->
        [cell |-> [r \in 0..Lines - 1 |-> [i \in 0..Cols - 1 |-> mem[vc[c].origin + r * Cols + i]]],
         x |-> vc[c].x, y |-> vc[c].y, top |-> vc[c].top, bottom |-> vc[c].bottom,
         sx |-> vc[c].sx, sy |-> vc[c].sy]]

S == INSTANCE Screen WITH
        Blank <- Erased, Glyph <- {Written}, screen <- Text

(* The promise of module Screen: the parser and the screens in memory do   *)
(* to the text of each console what the VT102 prescribes and nothing else, *)
(* through hard scrolls, copies back to the start, and switches.           *)
ImplementsScreen == S!Spec
=============================================================================
