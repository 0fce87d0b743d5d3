--------------------------- MODULE ConsoleProofs ---------------------------
(***************************************************************************)
(* Proofs about module Console: the screens stay in their memory, the      *)
(* adapter shows the one in the foreground, and the consoles implement     *)
(* module Screen, for every size of the screen, of video memory and of the *)
(* list of parameters, every number of consoles, and any characters.       *)
(*                                                                         *)
(* The argument goes through one console k at a time, with the memory that *)
(* it can reach.  Sound(k) says that the console is well formed, Keeps(k,  *)
(* m) that an operation left alone what is not its own, and Grid(k) is its *)
(* text: Does(k, m, h) says that an operation of console.c took k to m and *)
(* the text to h, which is the same operation of module Screen.            *)
(***************************************************************************)
EXTENDS Console, FiniteSetTheorems, WellFoundedInduction, TLAPS

-----------------------------------------------------------------------------
(* The types *)
States == {"ESnormal", "ESesc", "ESsquare", "ESgetpars", "ESskip"}

VcStruct ==
    [origin : Nat, start : Nat, end : Nat, scr_end : Nat, x : 0..Cols, y : 0..Lines - 1, pos : Nat,
     top : 0..Lines, bottom : 0..Lines, sx : 0..Cols, sy : 0..Lines - 1,
     state : States, npar : 0..NPAR - 1, par : [0..NPAR - 1 -> Nat], ques : BOOLEAN]

MemEnd == ScrBuf(Cardinality(Con))

Konsole == [mem : [Address -> Int], v : VcStruct, start : Nat, fg : BOOLEAN]

(* The screen of one console lies where Geometry says. *)
InPlace(v) ==
    /\ v.pos = v.origin + v.y * Cols + v.x
    /\ v.scr_end = v.origin + screen_size
    /\ v.start <= v.origin /\ v.scr_end <= v.end /\ v.end <= MemEnd
    /\ v.top < v.bottom
    /\ ~egac => v.origin = v.start

(* A console that is well formed, and shown if it is in the foreground *)
Sound(k) ==
    /\ k \in Konsole
    /\ InPlace(k.v)
    /\ k.fg => k.start = k.v.origin

(* What an operation leaves alone: where the memory of the console is, and *)
(* everything outside of it.                                               *)
Outside(k, m, lo, hi) == \A a \in Address : a \notin lo..hi - 1 => m.mem[a] = k.mem[a]

Keeps(k, m) ==
    /\ m.fg = k.fg /\ m.v.start = k.v.start /\ m.v.end = k.v.end
    /\ ~k.fg => m.start = k.start
    /\ Outside(k, m, k.v.start, k.v.end)

-----------------------------------------------------------------------------
(* The sizes of the screen and of the memory, as numbers *)
LEMMA Sizes ==
    /\ Cols \in Nat /\ Cols > 0 /\ Lines \in Nat /\ Lines > 0 /\ screen_size \in Nat /\ VideoCells \in Nat
    /\ VideoCells >= screen_size /\ Tab \in Nat /\ 1 <= Tab /\ Tab <= Cols /\ NPAR \in Nat /\ NPAR > 1
BY ConsoleSizes DEF screen_size

(* The address of a row from that of its neighbours *)
LEMMA Rows ==
    ASSUME NEW y \in Int
    PROVE  /\ (y + 1) * Cols = y * Cols + Cols /\ (y - 1) * Cols = y * Cols - Cols
           /\ Cols * y = y * Cols /\ y * Cols \in Int
           /\ y >= 0 => y * Cols >= 0
           /\ y <= Lines - 1 => y * Cols + Cols <= screen_size
BY ConsoleSizes, SMTT(30) DEF screen_size

(* The buffers lie behind video memory, one after the other. *)
LEMMA Buffers ==
    /\ MemEnd \in Nat /\ Address = 0..MemEnd - 1 /\ VideoCells <= MemEnd
    /\ \A c \in Con : /\ c \in Nat /\ ScrBuf(c) \in Nat /\ VideoCells <= ScrBuf(c)
                      /\ ScrBuf(c) + screen_size <= MemEnd
    /\ \A c, d \in Con : c < d => ScrBuf(c) + screen_size <= ScrBuf(d)
<1> DEFINE N == Cardinality(Con)
<1>1. N \in Nat /\ Con = 0..N - 1
  BY ConsoleSizes, FS_CardinalityType
<1> HIDE DEF N
<1>2. \A a, b, z \in Nat : a < b => a * z + z <= b * z
  <2> TAKE a, b, z \in Nat
  <2> HAVE a < b
  <2>1. PICK d \in Nat : b = a + 1 + d
    <3>1. b - a - 1 \in Nat /\ b = a + 1 + (b - a - 1)
      OBVIOUS
    <3> QED
      BY <3>1
  <2>2. b * z = a * z + z + d * z /\ d * z >= 0
    BY <2>1, SMTT(30)
  <2> QED
    BY <2>2
<1>3. \A a, z \in Nat : a * z \in Nat
  OBVIOUS
<1>4. MemEnd = VideoCells + N * screen_size /\ \A c \in Con : ScrBuf(c) = VideoCells + c * screen_size
  BY DEF MemEnd, ScrBuf, N
<1>5. screen_size \in Nat /\ VideoCells \in Nat
  BY Sizes
<1>6. N * screen_size \in Nat /\ \A c \in Con : c \in Nat /\ c * screen_size \in Nat
  BY <1>1, <1>3, <1>5
<1>7. \A c \in Con : c < N /\ c * screen_size + screen_size <= N * screen_size
  BY <1>1, <1>2, <1>5
<1>8. \A c, d \in Con : c < d => c * screen_size + screen_size <= d * screen_size
  BY <1>2, <1>5, <1>6
<1>9. Address = 0..MemEnd - 1
  BY DEF Address, MemEnd
<1> DEFINE M(c) == c * screen_size
<1>10. /\ MemEnd = VideoCells + M(N) /\ M(N) \in Nat
       /\ \A c \in Con : ScrBuf(c) = VideoCells + M(c) /\ c \in Nat /\ M(c) \in Nat /\ M(c) + screen_size <= M(N)
       /\ \A c, d \in Con : c < d => M(c) + screen_size <= M(d)
  BY <1>4, <1>6, <1>7, <1>8
<1> HIDE DEF M
<1> QED
  BY <1>5, <1>9, <1>10

-----------------------------------------------------------------------------
(* The fields of a record VcStruct, one by one. *)
Fields(v) ==
    /\ v.origin \in Nat /\ v.start \in Nat /\ v.end \in Nat /\ v.scr_end \in Nat
    /\ v.x \in 0..Cols /\ v.y \in 0..Lines - 1 /\ v.pos \in Nat
    /\ v.top \in 0..Lines /\ v.bottom \in 0..Lines /\ v.sx \in 0..Cols /\ v.sy \in 0..Lines - 1
    /\ v.state \in States /\ v.npar \in 0..NPAR - 1 /\ v.par \in [0..NPAR - 1 -> Nat] /\ v.ques \in BOOLEAN

(* The parts of a console and their types *)
LEMMA KonsoleFields ==
    ASSUME NEW STATE k, k \in Konsole
    PROVE  /\ k.v \in VcStruct /\ k.mem \in [Address -> Int] /\ k.start \in Nat /\ k.fg \in BOOLEAN
           /\ Fields(k.v)
<1>1. k.v \in VcStruct /\ k.mem \in [Address -> Int] /\ k.start \in Nat /\ k.fg \in BOOLEAN
  BY DEF Konsole
<1>2. Fields(k.v)
  BY <1>1 DEF VcStruct, Fields
<1> QED
  BY <1>1, <1>2

(* What a sound console is known by *)
LEMMA SoundFields ==
    ASSUME NEW STATE k, Sound(k)
    PROVE  /\ k \in Konsole /\ k.v \in VcStruct /\ k.mem \in [Address -> Int] /\ k.start \in Nat /\ k.fg \in BOOLEAN
           /\ Fields(k.v) /\ InPlace(k.v)
           /\ k.fg => k.start = k.v.origin
BY KonsoleFields DEF Sound

(* The place of the cursor, in numbers. *)
LEMMA Cursor ==
    ASSUME NEW STATE k, Sound(k)
    PROVE  /\ k.v.pos = k.v.origin + k.v.y * Cols + k.v.x
           /\ k.v.y * Cols \in Nat /\ k.v.y * Cols + Cols <= screen_size
           /\ k.v.origin + screen_size <= k.v.end /\ k.v.start <= k.v.origin
           /\ k.v.pos \in Nat /\ k.v.origin \in Nat /\ k.v.start \in Nat /\ k.v.end \in Nat
           /\ k.v.x \in Nat /\ k.v.x <= Cols /\ k.v.y \in Nat /\ k.v.y <= Lines - 1
<1>1. k.v.y \in 0..Lines - 1 /\ InPlace(k.v) /\ Fields(k.v)
  BY SoundFields DEF Fields
<1>0. /\ k.v.pos \in Nat /\ k.v.origin \in Nat /\ k.v.start \in Nat /\ k.v.end \in Nat
      /\ k.v.x \in Nat /\ k.v.x <= Cols /\ k.v.y \in Nat /\ k.v.y <= Lines - 1
  BY <1>1, Sizes DEF Fields
<1> DEFINE r == k.v.y * Cols
<1>2. r \in Nat /\ r + Cols <= screen_size
  BY <1>0, Rows
<1>3. k.v.pos = k.v.origin + r + k.v.x /\ k.v.scr_end = k.v.origin + screen_size
  BY <1>1 DEF InPlace
<1>4. k.v.scr_end <= k.v.end /\ k.v.start <= k.v.origin
  BY <1>1 DEF InPlace
<1> HIDE DEF r
<1>5. k.v.origin + screen_size <= k.v.end
  BY <1>3, <1>4
<1> USE DEF r
<1> QED
  BY <1>0, <1>2, <1>3, <1>4, <1>5

(* What each of two operations leaves alone, both leave alone. *)
LEMMA KeepsTrans ==
    ASSUME NEW STATE k, NEW STATE m, NEW STATE n, Keeps(k, m), Keeps(m, n) PROVE Keeps(k, n)
BY DEF Keeps, Outside

(* Nothing is done. *)
LEMMA KeepsItself ==
    ASSUME NEW STATE k PROVE Keeps(k, k)
BY DEF Keeps, Outside

-----------------------------------------------------------------------------
(* Only the cursor moves. *)
At(k, m, x, y) ==
    /\ m \in Konsole /\ m.mem = k.mem /\ m.start = k.start /\ m.fg = k.fg
    /\ m.v.x = x /\ m.v.y = y /\ m.v.pos = k.v.origin + y * Cols + x
    /\ m.v.origin = k.v.origin /\ m.v.start = k.v.start /\ m.v.end = k.v.end /\ m.v.scr_end = k.v.scr_end
    /\ m.v.top = k.v.top /\ m.v.bottom = k.v.bottom /\ m.v.sx = k.v.sx /\ m.v.sy = k.v.sy

(* A cursor that moves on the screen leaves the console sound. *)
LEMMA AtSound ==
    ASSUME NEW STATE k, Sound(k), NEW STATE m, NEW STATE x, NEW STATE y, At(k, m, x, y)
    PROVE  Sound(m) /\ Keeps(k, m)
BY DEF At, Sound, InPlace, Keeps, Outside

(* gotoxy moves the cursor within the screen. *)
LEMMA GotoxyAt ==
    ASSUME NEW STATE k, Sound(k), NEW STATE x, x \in 0..Cols, NEW STATE y, y \in 0..Lines - 1
    PROVE  At(k, gotoxy(k, x, y), x, y)
<1> DEFINE m == gotoxy(k, x, y)
           p == k.v.origin + y * Cols + x
           w == [k.v EXCEPT !.x = x, !.y = y, !.pos = p]
<1>1. m = [k EXCEPT !.v = w]
  BY SoundFields DEF gotoxy, Konsole
<1>2. p \in Nat
  <2> DEFINE r == y * Cols
  <2>1. r \in Nat
    BY Rows
  <2>2. k.v.origin \in Nat /\ x \in Nat
    BY SoundFields, Sizes DEF Fields
  <2>3. p = k.v.origin + r + x
    OBVIOUS
  <2> HIDE DEF r, p
  <2> QED
    BY <2>1, <2>2, <2>3
<1>3. k.v \in VcStruct /\ w = [k.v EXCEPT !.x = x, !.y = y, !.pos = p]
  BY SoundFields
<1> HIDE DEF p, w
<1>4. /\ w \in VcStruct /\ w.x = x /\ w.y = y /\ w.pos = p
      /\ w.origin = k.v.origin /\ w.start = k.v.start /\ w.end = k.v.end /\ w.scr_end = k.v.scr_end
      /\ w.top = k.v.top /\ w.bottom = k.v.bottom /\ w.sx = k.v.sx /\ w.sy = k.v.sy
  BY <1>2, <1>3 DEF VcStruct
<1>5. m \in Konsole /\ m.v = w /\ m.mem = k.mem /\ m.start = k.start /\ m.fg = k.fg
  BY <1>1, <1>4, SoundFields DEF Konsole
<1> QED
  BY <1>4, <1>5 DEF At, p

(* gotoxy ignores a place outside of the screen. *)
LEMMA GotoxySound ==
    ASSUME NEW STATE k, Sound(k), NEW STATE x, NEW STATE y
    PROVE  Sound(gotoxy(k, x, y)) /\ Keeps(k, gotoxy(k, x, y))
<1>1. CASE x \in 0..Cols /\ y \in 0..Lines - 1
  BY <1>1, GotoxyAt, AtSound
<1>2. CASE ~(x \in 0..Cols /\ y \in 0..Lines - 1)
  BY <1>2, KeepsItself DEF gotoxy
<1> QED
  BY <1>1, <1>2

(* cr moves the cursor to column 0. *)
LEMMA CrAt ==
    ASSUME NEW STATE k, Sound(k) PROVE At(k, cr(k), 0, k.v.y)
<1> DEFINE m == cr(k)
           r == k.v.y * Cols
<1>1. r \in Nat /\ k.v.pos = k.v.origin + r + k.v.x
      /\ k.v.origin \in Nat /\ k.v.x \in Nat /\ k.v.x <= Cols
  BY Cursor, Sizes
<1>2. k \in Konsole /\ Fields(k.v) /\ k.v \in VcStruct
  BY SoundFields
<1>3. m = [k EXCEPT !.v = [k.v EXCEPT !.pos = @ - k.v.x, !.x = 0]]
  BY <1>2 DEF cr, Konsole
<1> HIDE DEF r, m
<1>4. k.v.pos - k.v.x = k.v.origin + r /\ k.v.origin + r \in Nat /\ 0 \in 0..Cols
  BY <1>1, Sizes
<1> DEFINE w == [k.v EXCEPT !.pos = @ - k.v.x, !.x = 0]
<1>5. /\ w \in VcStruct /\ w.x = 0 /\ w.y = k.v.y /\ w.pos = k.v.origin + r
      /\ w.origin = k.v.origin /\ w.start = k.v.start /\ w.end = k.v.end /\ w.scr_end = k.v.scr_end
      /\ w.top = k.v.top /\ w.bottom = k.v.bottom /\ w.sx = k.v.sx /\ w.sy = k.v.sy
  BY <1>2, <1>4 DEF VcStruct
<1> HIDE DEF w
<1>6. m \in Konsole /\ m.v = w /\ m.mem = k.mem /\ m.start = k.start /\ m.fg = k.fg
  BY <1>2, <1>3, <1>5 DEF Konsole, w
<1> QED
  BY <1>4, <1>5, <1>6 DEF At, r, m

(* bs moves the cursor one column back. *)
LEMMA BsAt ==
    ASSUME NEW STATE k, Sound(k), k.v.x # 0 PROVE At(k, bs(k), k.v.x - 1, k.v.y)
<1> DEFINE m == bs(k)
           r == k.v.y * Cols
<1>1. r \in Nat /\ k.v.pos = k.v.origin + r + k.v.x
      /\ k.v.origin \in Nat /\ k.v.x \in Nat /\ k.v.x <= Cols
  BY Cursor
<1>2. k \in Konsole /\ Fields(k.v) /\ k.v \in VcStruct
  BY SoundFields
<1>3. m = [k EXCEPT !.v = [k.v EXCEPT !.x = @ - 1, !.pos = @ - 1]]
  BY <1>2 DEF bs, Konsole
<1> HIDE DEF r, m
<1>4. k.v.pos - 1 = k.v.origin + r + (k.v.x - 1) /\ k.v.pos - 1 \in Nat /\ k.v.x - 1 \in 0..Cols
  BY <1>1, Sizes
<1> DEFINE w == [k.v EXCEPT !.x = @ - 1, !.pos = @ - 1]
<1>5. /\ w \in VcStruct /\ w.x = k.v.x - 1 /\ w.y = k.v.y /\ w.pos = k.v.pos - 1
      /\ w.origin = k.v.origin /\ w.start = k.v.start /\ w.end = k.v.end /\ w.scr_end = k.v.scr_end
      /\ w.top = k.v.top /\ w.bottom = k.v.bottom /\ w.sx = k.v.sx /\ w.sy = k.v.sy
  BY <1>2, <1>4 DEF VcStruct
<1>6. m \in Konsole /\ m.v = w /\ m.mem = k.mem /\ m.start = k.start /\ m.fg = k.fg
  BY <1>2, <1>3, <1>5 DEF Konsole
<1> HIDE DEF w
<1> QED
  BY <1>4, <1>5, <1>6 DEF At, r, m

(* One line up or down. *)
LEMMA LineAt ==
    ASSUME NEW STATE k, Sound(k), NEW STATE m, NEW STATE d, d \in {-1, 1},
           m = [k EXCEPT !.v = [k.v EXCEPT !.y = @ + d, !.pos = @ + d * Cols]], k.v.y + d \in 0..Lines - 1
    PROVE  At(k, m, k.v.x, k.v.y + d)
<1> DEFINE r == k.v.y * Cols
           s == (k.v.y + d) * Cols
           e == d * Cols
<1>1. r \in Nat /\ k.v.pos = k.v.origin + r + k.v.x
      /\ k.v.origin \in Nat /\ k.v.x \in Nat /\ k.v.x <= Cols
  BY Cursor
<1>2. k \in Konsole /\ Fields(k.v) /\ k.v \in VcStruct
  BY SoundFields
<1>3. s = r + e /\ s \in Nat /\ e \in Int
  <2>1. k.v.y \in Int
    BY <1>2, Sizes DEF Fields
  <2>2. CASE d = 1
    BY <2>1, <2>2, Rows, Sizes
  <2>3. CASE d = -1
    BY <2>1, <2>3, Rows, Sizes
  <2> QED
    BY <2>2, <2>3
<1> HIDE DEF r, s, e
<1>4. k.v.pos + e = k.v.origin + s + k.v.x /\ k.v.pos + e \in Nat
  BY <1>1, <1>3, Sizes
<1> DEFINE w == [k.v EXCEPT !.y = @ + d, !.pos = @ + e]
<1>5. /\ w \in VcStruct /\ w.x = k.v.x /\ w.y = k.v.y + d /\ w.pos = k.v.pos + e
      /\ w.origin = k.v.origin /\ w.start = k.v.start /\ w.end = k.v.end /\ w.scr_end = k.v.scr_end
      /\ w.top = k.v.top /\ w.bottom = k.v.bottom /\ w.sx = k.v.sx /\ w.sy = k.v.sy
  BY <1>2, <1>4 DEF VcStruct
<1>6. m = [k EXCEPT !.v = w]
  BY DEF e
<1> HIDE DEF w
<1>7. m \in Konsole /\ m.v = w /\ m.mem = k.mem /\ m.start = k.start /\ m.fg = k.fg
  BY <1>2, <1>5, <1>6 DEF Konsole
<1> QED
  BY <1>4, <1>5, <1>7 DEF At, s

-----------------------------------------------------------------------------
(* Only memory changes. *)
Inked(k, m) == m \in Konsole /\ m.v = k.v /\ m.start = k.start /\ m.fg = k.fg

(* Writing in the memory of the console leaves it sound. *)
LEMMA InkedSound ==
    ASSUME NEW STATE k, Sound(k), NEW STATE m, Inked(k, m), Outside(k, m, k.v.start, k.v.end)
    PROVE  Sound(m) /\ Keeps(k, m)
BY DEF Inked, Sound, Keeps

Filled(k, m, at, n) ==
    \A a \in Address : m.mem[a] = IF a \in at..at + n - 1 THEN Erased ELSE k.mem[a]
Moved(k, m, to, from, n) ==
    \A a \in Address : m.mem[a] = IF a \in to..to + n - 1 THEN k.mem[from + a - to] ELSE k.mem[a]

(* What Fill writes *)
LEMMA FillIs ==
    ASSUME NEW STATE k, k \in Konsole, NEW STATE at, NEW STATE n
    PROVE  Inked(k, Fill(k, at, n)) /\ Filled(k, Fill(k, at, n), at, n)
<1> DEFINE f == [a \in Address |-> IF a \in at..at + n - 1 THEN Erased ELSE k.mem[a]]
           m == Fill(k, at, n)
<1>1. m = [k EXCEPT !.mem = f]
  BY DEF Fill
<1>2. f \in [Address -> Int]
  <2>1. k.mem \in [Address -> Int]
    BY KonsoleFields
  <2> QED
    BY <2>1 DEF Erased
<1>3. \A a \in Address : f[a] = IF a \in at..at + n - 1 THEN Erased ELSE k.mem[a]
  OBVIOUS
<1> HIDE DEF f, m
<1>4. m \in Konsole /\ m.v = k.v /\ m.start = k.start /\ m.fg = k.fg /\ m.mem = f
  BY <1>1, <1>2 DEF Konsole
<1> QED
  BY <1>3, <1>4 DEF Inked, Filled, m

(* What Move writes *)
LEMMA MoveIs ==
    ASSUME NEW STATE k, k \in Konsole, NEW STATE to, to \in Int, NEW STATE from, from \in Int, NEW STATE n, n \in Int,
           0 <= from, from + n <= MemEnd
    PROVE  Inked(k, Move(k, to, from, n)) /\ Moved(k, Move(k, to, from, n), to, from, n)
<1> DEFINE f == [a \in Address |-> IF a \in to..to + n - 1 THEN k.mem[from + a - to] ELSE k.mem[a]]
           m == Move(k, to, from, n)
<1>1. m = [k EXCEPT !.mem = f]
  BY DEF Move
<1>2. f \in [Address -> Int]
  <2>1. k.mem \in [Address -> Int] /\ Address = 0..MemEnd - 1 /\ MemEnd \in Nat
    BY KonsoleFields, Buffers
  <2>2. \A a \in Address : a \in to..to + n - 1 => from + a - to \in Address
    BY <2>1
  <2> QED
    BY <2>1, <2>2
<1>3. \A a \in Address : f[a] = IF a \in to..to + n - 1 THEN k.mem[from + a - to] ELSE k.mem[a]
  OBVIOUS
<1> HIDE DEF f, m
<1>4. m \in Konsole /\ m.v = k.v /\ m.start = k.start /\ m.fg = k.fg /\ m.mem = f
  BY <1>1, <1>2 DEF Konsole
<1> QED
  BY <1>3, <1>4 DEF Inked, Moved, m

(* Fill within the memory of the console *)
LEMMA FillSound ==
    ASSUME NEW STATE k, Sound(k), NEW STATE at, at \in Int, NEW STATE n, n \in Int,
           k.v.start <= at, at + n <= k.v.end
    PROVE  Sound(Fill(k, at, n)) /\ Keeps(k, Fill(k, at, n)) /\ Fill(k, at, n).v = k.v
<1> DEFINE m == Fill(k, at, n)
<1>1. k \in Konsole /\ k.v.start \in Nat /\ k.v.end \in Nat
  BY SoundFields DEF Fields
<1>2. Inked(k, m) /\ Filled(k, m, at, n)
  BY <1>1, FillIs
<1> HIDE DEF m
<1>3. Outside(k, m, k.v.start, k.v.end)
  BY <1>1, <1>2, Buffers DEF Outside, Filled
<1>4. Sound(m) /\ Keeps(k, m) /\ m.v = k.v
  BY <1>2, <1>3, InkedSound DEF Inked
<1> QED
  BY <1>4 DEF m

(* Move within the memory of the console *)
LEMMA MoveSound ==
    ASSUME NEW STATE k, Sound(k), NEW STATE to, to \in Int, NEW STATE from, from \in Int, NEW STATE n, n \in Int,
           k.v.start <= to, to + n <= k.v.end, k.v.start <= from, from + n <= k.v.end
    PROVE  Sound(Move(k, to, from, n)) /\ Keeps(k, Move(k, to, from, n)) /\ Move(k, to, from, n).v = k.v
<1> DEFINE m == Move(k, to, from, n)
<1>0. k \in Konsole /\ k.v.start \in Nat /\ k.v.end \in Nat /\ MemEnd \in Nat
  BY SoundFields, Buffers DEF Fields
<1>1. k \in Konsole /\ k.v.start \in Nat /\ k.v.end \in Nat /\ k.v.end <= MemEnd /\ MemEnd \in Nat
  BY <1>0, SoundFields DEF InPlace
<1>2. 0 <= from /\ from + n <= MemEnd
  BY <1>1
<1>3. Inked(k, m) /\ Moved(k, m, to, from, n)
  BY <1>1, <1>2, MoveIs
<1> HIDE DEF m
<1>4. Outside(k, m, k.v.start, k.v.end)
  BY <1>1, <1>3, Buffers DEF Outside, Moved
<1>5. Sound(m) /\ Keeps(k, m) /\ m.v = k.v
  BY <1>3, <1>4, InkedSound DEF Inked
<1> QED
  BY <1>5 DEF m

-----------------------------------------------------------------------------
(* Places of the screen *)
Row == 0..Lines - 1
Col == 0..Cols - 1
Cell(k, r, i) == k.mem[k.v.origin + r * Cols + i]

SameCursor(k, m) ==
    /\ m.v.x = k.v.x /\ m.v.y = k.v.y /\ m.v.top = k.v.top /\ m.v.bottom = k.v.bottom
    /\ m.v.sx = k.v.sx /\ m.v.sy = k.v.sy

(* Of two lines, the first ends before the second begins. *)
LEMMA RowOrder ==
    ASSUME NEW r \in Int, NEW s \in Int
    PROVE  /\ r * Cols \in Int /\ s * Cols \in Int
           /\ r < s => r * Cols + Cols <= s * Cols
           /\ r <= s => r * Cols <= s * Cols
<1>1. Cols \in Nat
  BY Sizes
<1>2. CASE r < s
  <2>1. (s - r - 1) * Cols >= 0
    BY <1>1, <1>2, SMTT(30)
  <2>2. (s - r - 1) * Cols = s * Cols - r * Cols - Cols
    BY <1>1, SMTT(30)
  <2> DEFINE R == r * Cols
             S0 == s * Cols
             D == (s - r - 1) * Cols
  <2>3. D >= 0 /\ D = S0 - R - Cols /\ R \in Int /\ S0 \in Int /\ D \in Int
    BY <1>1, <2>1, <2>2
  <2> HIDE DEF R, S0, D
  <2>4. R + Cols <= S0 /\ R <= S0
    BY <1>1, <2>3
  <2> USE DEF R, S0
  <2> QED
    BY <1>1, <2>4
<1>3. CASE r = s
  BY <1>1, <1>3
<1>4. CASE r > s
  BY <1>1, <1>4
<1> QED
  BY <1>2, <1>3, <1>4

(* The address of a place within the screen *)
LEMMA Place ==
    ASSUME NEW r \in Row, NEW i \in Col
    PROVE  /\ r * Cols \in Nat /\ r * Cols + i \in Nat /\ r * Cols + Cols <= screen_size
           /\ (r + 1) * Cols = r * Cols + Cols /\ (r - 1) * Cols = r * Cols - Cols
           /\ r = Lines - 1 => r * Cols = screen_size - Cols
           /\ r < Lines - 1 => r * Cols + Cols <= screen_size - Cols
<1>1. r \in Int /\ r >= 0 /\ r <= Lines - 1 /\ i \in Nat /\ Cols \in Nat /\ Lines \in Nat /\ screen_size \in Nat
  BY Sizes DEF Row, Col
<1>2. /\ (r + 1) * Cols = r * Cols + Cols /\ (r - 1) * Cols = r * Cols - Cols
      /\ r * Cols \in Int /\ r * Cols >= 0 /\ r * Cols + Cols <= screen_size
  BY <1>1, Rows
<1>3. (Lines - 1) * Cols = screen_size - Cols
  BY <1>1, Rows DEF screen_size
<1>4. r < Lines - 1 => r * Cols + Cols <= (Lines - 1) * Cols
  BY <1>1, RowOrder
<1> DEFINE R == r * Cols
           Z == (Lines - 1) * Cols
<1>5. /\ R \in Int /\ R >= 0 /\ R + Cols <= screen_size /\ Z = screen_size - Cols
      /\ r < Lines - 1 => R + Cols <= Z
      /\ r = Lines - 1 => R = Z
  BY <1>2, <1>3, <1>4
<1> HIDE DEF R, Z
<1>6. /\ R \in Nat /\ R + i \in Nat /\ R + Cols <= screen_size
      /\ r = Lines - 1 => R = screen_size - Cols
      /\ r < Lines - 1 => R + Cols <= screen_size - Cols
  BY <1>1, <1>5
<1> USE DEF R
<1> QED
  BY <1>2, <1>6

-----------------------------------------------------------------------------
(* The lines t to b - 1 move one up or down, and a blank one comes in. *)
ScrolledUp(k, m, t, b) ==
    \A r \in Row, i \in Col :
        Cell(m, r, i) = IF r \notin t..b - 1 THEN Cell(k, r, i)
                        ELSE IF r = b - 1 THEN Erased ELSE Cell(k, r + 1, i)
ScrolledDown(k, m, t, b) ==
    \A r \in Row, i \in Col :
        Cell(m, r, i) = IF r \notin t..b - 1 THEN Cell(k, r, i)
                        ELSE IF r = t THEN Erased ELSE Cell(k, r - 1, i)

Stays(k, m) == Sound(m) /\ Keeps(k, m) /\ SameCursor(k, m)

(* The lines of a region, in addresses *)
LEMMA Region ==
    ASSUME NEW t \in Row, NEW b \in 0..Lines, t < b
    PROVE  /\ Cols * t = t * Cols /\ Cols * (t + 1) = t * Cols + Cols /\ Cols * (b - 1) = b * Cols - Cols
           /\ (b - t - 1) * Cols = b * Cols - t * Cols - Cols
           /\ t * Cols \in Nat /\ b * Cols \in Nat
           /\ t * Cols + Cols <= b * Cols /\ b * Cols <= screen_size
<1>1. t \in Int /\ b \in Int /\ 0 <= t /\ b <= Lines /\ Cols \in Nat /\ Lines \in Nat
  BY Sizes DEF Row
<1>2. Cols * t = t * Cols /\ Cols * (t + 1) = t * Cols + Cols /\ Cols * (b - 1) = b * Cols - Cols
  BY <1>1, SMTT(30)
<1>3. (b - t - 1) * Cols = b * Cols - t * Cols - Cols
  BY <1>1, SMTT(30)
<1>4. t * Cols + Cols <= b * Cols /\ b * Cols <= Lines * Cols /\ 0 * Cols <= t * Cols /\ 0 * Cols <= b * Cols
  BY <1>1, RowOrder
<1>5. Lines * Cols = screen_size /\ 0 * Cols = 0 /\ t * Cols \in Int /\ b * Cols \in Int
  BY <1>1 DEF screen_size
<1> QED
  BY <1>2, <1>3, <1>4, <1>5

(* A place of the screen is in the memory of the console. *)
LEMMA PlaceIn ==
    ASSUME NEW STATE k, Sound(k), NEW STATE r, r \in Row, NEW STATE i, i \in Col
    PROVE  /\ k.v.origin + r * Cols + i \in Address
           /\ k.v.start <= k.v.origin + r * Cols + i /\ k.v.origin + r * Cols + i < k.v.end
<1> DEFINE R == r * Cols
<1>1. R \in Nat /\ R + Cols <= screen_size /\ i \in Nat /\ i < Cols
  BY Place, Sizes DEF Col
<1>2. k.v.end <= MemEnd /\ MemEnd \in Nat /\ Address = 0..MemEnd - 1
  BY SoundFields, Buffers DEF InPlace
<1>3. /\ k.v.origin \in Nat /\ k.v.start \in Nat /\ k.v.end \in Nat /\ screen_size \in Nat /\ Cols \in Nat
      /\ k.v.start <= k.v.origin /\ k.v.origin + screen_size <= k.v.end
  BY Cursor, Sizes
<1> DEFINE a == k.v.origin + R + i
<1> HIDE DEF R
<1>4. a \in Nat /\ k.v.start <= a /\ a < k.v.end
  BY <1>1, <1>3
<1>5. a \in Address
  BY <1>2, <1>3, <1>4
<1> QED
  BY <1>4, <1>5 DEF R

(* scrup by moving the lines in memory *)
LEMMA SoftUp ==
    ASSUME NEW STATE k, Sound(k), NEW STATE t, t \in Row, NEW STATE b, b \in 0..Lines, t < b, NEW STATE m,
           m = Fill(Move(k, k.v.origin + Cols * t, k.v.origin + Cols * (t + 1), (b - t - 1) * Cols),
                    k.v.origin + Cols * (b - 1), Cols)
    PROVE  Stays(k, m) /\ ScrolledUp(k, m, t, b)
<1> DEFINE o == k.v.origin
           T == t * Cols
           B == b * Cols
           n == Move(k, o + T, o + T + Cols, B - T - Cols)
<1>1. /\ T \in Nat /\ B \in Nat /\ T + Cols <= B /\ B <= screen_size
      /\ Cols * t = T /\ Cols * (t + 1) = T + Cols /\ Cols * (b - 1) = B - Cols /\ (b - t - 1) * Cols = B - T - Cols
  BY Region
<1>2. /\ o \in Nat /\ k.v.start <= o /\ o + screen_size <= k.v.end /\ Cols \in Nat /\ screen_size \in Nat
      /\ k.v.start \in Nat /\ k.v.end \in Nat
  BY Cursor, Sizes
<1> HIDE DEF o, T, B, n
<1>3. o + (T + Cols) = o + T + Cols /\ o + (B - Cols) \in Int
  BY <1>1, <1>2
<1>4. m = Fill(n, o + (B - Cols), Cols)
  BY <1>1, <1>3 DEF n, o
<1> HIDE DEF n
<1>5. /\ o + T \in Int /\ o + T + Cols \in Int /\ B - T - Cols \in Int
      /\ k.v.start <= o + T /\ o + T + (B - T - Cols) <= k.v.end
      /\ k.v.start <= o + T + Cols /\ o + T + Cols + (B - T - Cols) <= k.v.end
      /\ k.v.start <= o + (B - Cols) /\ o + (B - Cols) + Cols <= k.v.end
  BY <1>1, <1>2
<1>6. Sound(n) /\ Keeps(k, n) /\ n.v = k.v
  BY <1>5, MoveSound DEF n
<1>7. Sound(m) /\ Keeps(n, m) /\ m.v = k.v
  BY <1>2, <1>3, <1>4, <1>5, <1>6, FillSound
<1>8. Stays(k, m)
  BY <1>6, <1>7, KeepsTrans DEF Stays, SameCursor
<1>9. Filled(n, m, o + (B - Cols), Cols)
  BY <1>4, <1>6, FillIs, SoundFields
<1>10. Moved(k, n, o + T, o + T + Cols, B - T - Cols)
  <2>1. 0 <= o + T + Cols /\ o + T + Cols + (B - T - Cols) <= MemEnd
    <3>1. k.v.end <= MemEnd /\ MemEnd \in Nat
      BY SoundFields, Buffers DEF InPlace
    <3> QED
      BY <1>1, <1>2, <1>5, <3>1
  <2>2. k \in Konsole
    BY SoundFields
  <2> QED
    BY <1>5, <2>1, <2>2, MoveIs DEF n
<1>11. ScrolledUp(k, m, t, b)
  <2> SUFFICES ASSUME NEW r \in Row, NEW i \in Col
               PROVE  Cell(m, r, i) = IF r \notin t..b - 1 THEN Cell(k, r, i)
                                      ELSE IF r = b - 1 THEN Erased ELSE Cell(k, r + 1, i)
    BY DEF ScrolledUp
  <2> DEFINE R == r * Cols
             a == o + R + i
  <2>1. R \in Nat /\ R + Cols <= screen_size /\ (r + 1) * Cols = R + Cols
    BY Place
  <2>2. r \in Int /\ t \in Int /\ b \in Int /\ i \in Nat /\ i < Cols
    BY Sizes DEF Row, Col
  <2>3. /\ r < t => R + Cols <= T
        /\ r >= t => T <= R
        /\ r >= b => B <= R
        /\ r < b - 1 => R + Cols <= (b - 1) * Cols
        /\ r = b - 1 => R = (b - 1) * Cols
        /\ r + 1 <= b => R + Cols <= B
    BY <2>1, <2>2, RowOrder DEF T, B
  <2>4. (b - 1) * Cols = B - Cols
    BY <2>2, Rows DEF B
  <2>5. Cell(m, r, i) = m.mem[a] /\ Cell(k, r, i) = k.mem[a] /\ Cell(k, r + 1, i) = k.mem[o + (R + Cols) + i]
    BY <1>7, <2>1 DEF Cell, o
  <2>6. a \in Address
    BY PlaceIn DEF o
  <2> HIDE DEF R
  <2>7. CASE r < t \/ r >= b
    <3>1. a \notin o + (B - Cols)..o + (B - Cols) + Cols - 1 /\ a \notin o + T..o + T + (B - T - Cols) - 1
      BY <1>1, <1>2, <2>1, <2>2, <2>3, <2>7
    <3> HIDE DEF a
    <3>2. m.mem[a] = k.mem[a]
      BY <1>9, <1>10, <2>6, <3>1 DEF Filled, Moved
    <3> QED
      BY <2>2, <2>5, <2>7, <3>2
  <2>8. CASE r = b - 1
    <3>1. a \in o + (B - Cols)..o + (B - Cols) + Cols - 1
      BY <1>1, <1>2, <2>1, <2>2, <2>3, <2>4, <2>8
    <3> HIDE DEF a
    <3>2. m.mem[a] = Erased
      BY <1>9, <2>6, <3>1 DEF Filled
    <3> QED
      BY <2>2, <2>5, <2>8, <3>2
  <2>9. CASE t <= r /\ r < b - 1
    <3>1. a \notin o + (B - Cols)..o + (B - Cols) + Cols - 1 /\ a \in o + T..o + T + (B - T - Cols) - 1
      BY <1>1, <1>2, <2>1, <2>2, <2>3, <2>4, <2>9
    <3>2. o + T + Cols + a - (o + T) = o + (R + Cols) + i
      BY <1>1, <1>2, <2>1, <2>2
    <3> HIDE DEF a
    <3>3. m.mem[a] = k.mem[o + T + Cols + a - (o + T)]
      BY <1>9, <1>10, <2>6, <3>1 DEF Filled, Moved
    <3> QED
      BY <2>2, <2>5, <2>9, <3>2, <3>3
  <2> QED
    BY <2>2, <2>7, <2>8, <2>9
<1> QED
  BY <1>8, <1>11

(* scrdown *)
LEMMA SoftDown ==
    ASSUME NEW STATE k, Sound(k), NEW STATE t, t \in Row, NEW STATE b, b \in 0..Lines, t < b, NEW STATE m,
           m = Fill(Move(k, k.v.origin + Cols * (t + 1), k.v.origin + Cols * t, (b - t - 1) * Cols),
                    k.v.origin + Cols * t, Cols)
    PROVE  Stays(k, m) /\ ScrolledDown(k, m, t, b)
<1> DEFINE o == k.v.origin
           T == t * Cols
           B == b * Cols
           n == Move(k, o + T + Cols, o + T, B - T - Cols)
<1>1. /\ T \in Nat /\ B \in Nat /\ T + Cols <= B /\ B <= screen_size
      /\ Cols * t = T /\ Cols * (t + 1) = T + Cols /\ Cols * (b - 1) = B - Cols /\ (b - t - 1) * Cols = B - T - Cols
  BY Region
<1>2. /\ o \in Nat /\ k.v.start <= o /\ o + screen_size <= k.v.end /\ Cols \in Nat /\ screen_size \in Nat
      /\ k.v.start \in Nat /\ k.v.end \in Nat
  BY Cursor, Sizes
<1> HIDE DEF o, T, B, n
<1>3. o + (T + Cols) = o + T + Cols /\ o + T \in Int
  BY <1>1, <1>2
<1>4. m = Fill(n, o + T, Cols)
  BY <1>1, <1>3 DEF n, o
<1> HIDE DEF n
<1>5. /\ o + T \in Int /\ o + T + Cols \in Int /\ B - T - Cols \in Int
      /\ k.v.start <= o + T /\ o + T + (B - T - Cols) <= k.v.end
      /\ k.v.start <= o + T + Cols /\ o + T + Cols + (B - T - Cols) <= k.v.end
      /\ o + T + Cols <= k.v.end
  BY <1>1, <1>2
<1>6. Sound(n) /\ Keeps(k, n) /\ n.v = k.v
  BY <1>5, MoveSound DEF n
<1>7. Sound(m) /\ Keeps(n, m) /\ m.v = k.v
  BY <1>2, <1>3, <1>4, <1>5, <1>6, FillSound
<1>8. Stays(k, m)
  BY <1>6, <1>7, KeepsTrans DEF Stays, SameCursor
<1>9. Filled(n, m, o + T, Cols)
  BY <1>4, <1>6, FillIs, SoundFields
<1>10. Moved(k, n, o + T + Cols, o + T, B - T - Cols)
  <2>1. 0 <= o + T /\ o + T + (B - T - Cols) <= MemEnd
    <3>1. k.v.end <= MemEnd /\ MemEnd \in Nat
      BY SoundFields, Buffers DEF InPlace
    <3> QED
      BY <1>1, <1>2, <1>5, <3>1
  <2>2. k \in Konsole
    BY SoundFields
  <2> QED
    BY <1>5, <2>1, <2>2, MoveIs DEF n
<1>11. ScrolledDown(k, m, t, b)
  <2> SUFFICES ASSUME NEW r \in Row, NEW i \in Col
               PROVE  Cell(m, r, i) = IF r \notin t..b - 1 THEN Cell(k, r, i)
                                      ELSE IF r = t THEN Erased ELSE Cell(k, r - 1, i)
    BY DEF ScrolledDown
  <2> DEFINE R == r * Cols
             a == o + R + i
  <2>1. R \in Nat /\ R + Cols <= screen_size /\ (r - 1) * Cols = R - Cols
    BY Place
  <2>2. r \in Int /\ t \in Int /\ b \in Int /\ i \in Nat /\ i < Cols
    BY Sizes DEF Row, Col
  <2>3. /\ r < t => R + Cols <= T
        /\ r >= t => T <= R
        /\ r >= b => B <= R
        /\ r > t => T + Cols <= R
        /\ r = t => R = T
        /\ r + 1 <= b => R + Cols <= B
    BY <2>1, <2>2, RowOrder DEF T, B
  <2>5. Cell(m, r, i) = m.mem[a] /\ Cell(k, r, i) = k.mem[a] /\ Cell(k, r - 1, i) = k.mem[o + (R - Cols) + i]
    BY <1>7, <2>1 DEF Cell, o
  <2>6. a \in Address
    BY PlaceIn DEF o
  <2> HIDE DEF R
  <2>7. CASE r < t \/ r >= b
    <3>1. a \notin o + T..o + T + Cols - 1 /\ a \notin o + T + Cols..o + T + Cols + (B - T - Cols) - 1
      BY <1>1, <1>2, <2>1, <2>2, <2>3, <2>7
    <3> HIDE DEF a
    <3>2. m.mem[a] = k.mem[a]
      BY <1>9, <1>10, <2>6, <3>1 DEF Filled, Moved
    <3> QED
      BY <2>2, <2>5, <2>7, <3>2
  <2>8. CASE r = t
    <3>1. a \in o + T..o + T + Cols - 1
      BY <1>1, <1>2, <2>1, <2>2, <2>3, <2>8
    <3> HIDE DEF a
    <3>2. m.mem[a] = Erased
      BY <1>9, <2>6, <3>1 DEF Filled
    <3> QED
      BY <2>2, <2>5, <2>8, <3>2
  <2>9. CASE t < r /\ r < b
    <3>1. a \notin o + T..o + T + Cols - 1 /\ a \in o + T + Cols..o + T + Cols + (B - T - Cols) - 1
      BY <1>1, <1>2, <2>1, <2>2, <2>3, <2>9
    <3>2. o + T + a - (o + T + Cols) = o + (R - Cols) + i
      BY <1>1, <1>2, <2>1, <2>2
    <3> HIDE DEF a
    <3>3. m.mem[a] = k.mem[o + T + a - (o + T + Cols)]
      BY <1>9, <1>10, <2>6, <3>1 DEF Filled, Moved
    <3> QED
      BY <2>2, <2>5, <2>9, <3>2, <3>3
  <2> QED
    BY <2>2, <2>7, <2>8, <2>9
<1> QED
  BY <1>8, <1>11

(* The scroll of the whole screen in video memory *)
LEMMA HardUp ==
    ASSUME NEW STATE k, Sound(k), egac
    PROVE  Stays(k, HardScroll(k)) /\ ScrolledUp(k, HardScroll(k), 0, Lines)
<1> DEFINE v == [k.v EXCEPT !.origin = @ + Cols, !.pos = @ + Cols, !.scr_end = @ + Cols]
           n == [k EXCEPT !.v = v]
           far == v.scr_end > v.end
           d == v.origin - v.start
           moved == Move(n, v.start, v.origin, (Lines - 1) * Cols)
           back == Fill(moved, v.start + (Lines - 1) * Cols, Cols)
           home == [back EXCEPT !.v.scr_end = v.scr_end - (v.origin - v.start),
                                !.v.pos = v.pos - (v.origin - v.start), !.v.origin = v.start]
           on == Fill(n, v.scr_end - Cols, Cols)
           m == HardScroll(k)
<1>1. m = set_origin(IF far THEN home ELSE on)
  BY DEF HardScroll
<1>2. /\ k \in Konsole /\ k.v \in VcStruct /\ InPlace(k.v) /\ Cols \in Nat /\ screen_size \in Nat
      /\ k.v.origin \in Nat /\ k.v.pos \in Nat /\ k.v.scr_end \in Nat /\ k.v.end \in Nat /\ k.v.start \in Nat
      /\ k.fg \in BOOLEAN
  BY SoundFields, Sizes DEF Fields
<1>3. (Lines - 1) * Cols = screen_size - Cols /\ Cols <= screen_size
  BY Place, Sizes DEF Row, Col
<1>4. k.v.origin + Cols \in Nat /\ k.v.pos + Cols \in Nat /\ k.v.scr_end + Cols \in Nat
  BY <1>2
<1>5. /\ v \in VcStruct /\ v.origin = k.v.origin + Cols /\ v.pos = k.v.pos + Cols /\ v.scr_end = k.v.scr_end + Cols
      /\ v.start = k.v.start /\ v.end = k.v.end /\ v.x = k.v.x /\ v.y = k.v.y
      /\ v.top = k.v.top /\ v.bottom = k.v.bottom /\ v.sx = k.v.sx /\ v.sy = k.v.sy
  BY <1>2, <1>4 DEF VcStruct
<1> HIDE DEF v
<1>6. n \in Konsole /\ n.v = v /\ n.mem = k.mem /\ n.start = k.start /\ n.fg = k.fg
  BY <1>2, <1>5 DEF Konsole
<1>7. /\ k.v.scr_end = k.v.origin + screen_size /\ k.v.start <= k.v.origin /\ k.v.scr_end <= k.v.end
      /\ k.v.end <= MemEnd /\ MemEnd \in Nat
  BY <1>2, Buffers DEF InPlace
<1> HIDE DEF n
<1> DEFINE o == k.v.origin
           st == k.v.start
           z == screen_size - Cols
<1>8. CASE far
  <2>1. back = Fill(Move(n, st, o + Cols, z), st + z, Cols)
    BY <1>3, <1>5
  <2>2. st \in Int /\ o + Cols \in Int /\ z \in Int /\ 0 <= o + Cols /\ o + Cols + z <= MemEnd
    BY <1>2, <1>3, <1>7
  <2>3. Inked(n, moved) /\ Moved(n, moved, st, o + Cols, z)
    BY <1>3, <1>5, <1>6, <2>2, MoveIs
  <2>4. Inked(moved, back) /\ Filled(moved, back, st + z, Cols)
    BY <1>3, <1>5, <2>3, FillIs DEF Inked
  <2> HIDE DEF back, moved
  <2>5. back \in Konsole /\ back.v = v /\ back.start = k.start /\ back.fg = k.fg
    BY <1>6, <2>3, <2>4 DEF Inked
  <2> DEFINE se == v.scr_end - (v.origin - v.start)
             p == v.pos - (v.origin - v.start)
             w == [v EXCEPT !.scr_end = se, !.pos = p, !.origin = v.start]
             R == k.v.y * Cols
  <2>6. k.v.pos = o + R + k.v.x /\ R \in Nat /\ k.v.x \in Nat
    BY Cursor
  <2> HIDE DEF R
  <2>7. se = st + screen_size /\ p = st + R + k.v.x /\ se \in Nat /\ p \in Nat /\ v.start \in Nat
    BY <1>2, <1>5, <1>7, <2>6
  <2>8. home = [back EXCEPT !.v = w]
    BY <2>5 DEF Konsole
  <2> HIDE DEF se, p
  <2>9. /\ w \in VcStruct /\ w.origin = st /\ w.pos = p /\ w.scr_end = se
        /\ w.start = v.start /\ w.end = v.end /\ w.x = v.x /\ w.y = v.y
        /\ w.top = v.top /\ w.bottom = v.bottom /\ w.sx = v.sx /\ w.sy = v.sy
    BY <1>5, <2>7 DEF VcStruct
  <2> HIDE DEF w, home
  <2>10. home \in Konsole /\ home.v = w /\ home.mem = back.mem /\ home.start = k.start /\ home.fg = k.fg
    BY <2>5, <2>8, <2>9 DEF Konsole
  <2>11. m = set_origin(home)
    BY <1>1, <1>8
  <2> HIDE DEF m
  <2>12. m \in Konsole /\ m.v = w /\ m.mem = back.mem /\ m.start = (IF k.fg THEN st ELSE k.start) /\ m.fg = k.fg
    BY <1>2, <2>9, <2>10, <2>11 DEF set_origin, Konsole
  <2>13. \A a \in Address : m.mem[a] = IF a \in st + z..st + screen_size - 1 THEN Erased
                                      ELSE IF a \in st..st + z - 1 THEN k.mem[a + (o + Cols - st)] ELSE k.mem[a]
    <3> SUFFICES ASSUME NEW a \in Address
                 PROVE  m.mem[a] = IF a \in st + z..st + screen_size - 1 THEN Erased
                                   ELSE IF a \in st..st + z - 1 THEN k.mem[a + (o + Cols - st)] ELSE k.mem[a]
      OBVIOUS
    <3>1. a \in Nat
      BY Buffers
    <3>2. st + z + Cols - 1 = st + screen_size - 1 /\ o + Cols + a - st = a + (o + Cols - st)
      BY <1>2, <1>3, <3>1
    <3>3. m.mem[a] = IF a \in st + z..st + z + Cols - 1 THEN Erased ELSE moved.mem[a]
      BY <2>4, <2>12 DEF Filled
    <3>4. moved.mem[a] = IF a \in st..st + z - 1 THEN k.mem[o + Cols + a - st] ELSE k.mem[a]
      BY <1>6, <2>3 DEF Moved
    <3> QED
      BY <3>2, <3>3, <3>4
  <2> HIDE DEF z
  <2>14. Outside(k, m, k.v.start, k.v.end)
    <3> SUFFICES ASSUME NEW a \in Address, a \notin k.v.start..k.v.end - 1 PROVE m.mem[a] = k.mem[a]
      BY DEF Outside
    <3>1. a \in Nat
      BY Buffers
    <3>2. a \notin st + z..st + screen_size - 1 /\ a \notin st..st + z - 1
      BY <1>2, <1>3, <1>7, <3>1 DEF z
    <3> QED
      BY <2>13, <3>2
  <2>15. SameCursor(k, m)
    BY <1>5, <2>9, <2>12 DEF SameCursor
  <2>16. Sound(m)
    <3>1. m.v.pos = m.v.origin + m.v.y * Cols + m.v.x
      BY <1>5, <2>7, <2>9, <2>12 DEF R
    <3>2. /\ m.v.scr_end = m.v.origin + screen_size /\ m.v.start <= m.v.origin /\ m.v.scr_end <= m.v.end
          /\ m.v.end <= MemEnd /\ m.v.top < m.v.bottom
      <4>1. k.v.top < k.v.bottom
        BY <1>2 DEF InPlace
      <4> QED
        BY <1>2, <1>5, <1>7, <2>7, <2>9, <2>12, <4>1
    <3> QED
      BY <2>9, <2>12, <3>1, <3>2 DEF Sound, InPlace
  <2>17. Keeps(k, m)
    BY <1>5, <2>9, <2>12, <2>14 DEF Keeps
  <2>18. ScrolledUp(k, m, 0, Lines)
    <3> SUFFICES ASSUME NEW r \in Row, NEW i \in Col
                 PROVE  Cell(m, r, i) = IF r = Lines - 1 THEN Erased ELSE Cell(k, r + 1, i)
      BY Sizes DEF ScrolledUp, Row
    <3> DEFINE Q == r * Cols
    <3>1. /\ Q \in Nat /\ Q + Cols <= screen_size /\ (r = Lines - 1 => Q = screen_size - Cols)
          /\ (r < Lines - 1 => Q + Cols <= screen_size - Cols)
      BY Place
    <3>2. i \in Nat /\ i < Cols /\ r \in Int /\ r <= Lines - 1
      BY Sizes DEF Row, Col
    <3>3. Cell(m, r, i) = m.mem[st + Q + i] /\ Cell(k, r + 1, i) = k.mem[o + (Q + Cols) + i]
      BY <2>9, <2>12, Place DEF Cell
    <3>4. st + Q + i \in Address
      BY <2>9, <2>12, <2>16, PlaceIn
    <3> HIDE DEF Q
    <3>5. CASE r = Lines - 1
      <4>1. st + Q + i \in st + z..st + screen_size - 1
        BY <1>2, <1>3, <3>1, <3>2, <3>5 DEF z
      <4> QED
        BY <2>13, <3>3, <3>4, <3>5, <4>1
    <3>6. CASE r # Lines - 1
      <4>1. st + Q + i \notin st + z..st + screen_size - 1 /\ st + Q + i \in st..st + z - 1
        BY <1>2, <1>3, <3>1, <3>2, <3>6, Sizes DEF z
      <4>2. st + Q + i + (o + Cols - st) = o + (Q + Cols) + i
        BY <1>2, <3>1, <3>2
      <4> QED
        BY <2>13, <3>3, <3>4, <3>6, <4>1, <4>2
    <3> QED
      BY <3>5, <3>6
  <2> QED
    BY <2>15, <2>16, <2>17, <2>18 DEF Stays, m
<1>9. CASE ~far
  <2>1. on = Fill(n, o + screen_size, Cols)
    BY <1>2, <1>5, <1>7
  <2>2. Inked(n, on) /\ Filled(n, on, o + screen_size, Cols)
    BY <1>6, <2>1, FillIs
  <2> HIDE DEF on
  <2>3. on \in Konsole /\ on.v = v /\ on.start = k.start /\ on.fg = k.fg
    BY <1>6, <2>2 DEF Inked
  <2>4. m = set_origin(on)
    BY <1>1, <1>9
  <2>5. o + Cols + screen_size <= k.v.end
    BY <1>2, <1>5, <1>7, <1>9
  <2> HIDE DEF m
  <2>6. m \in Konsole /\ m.v = v /\ m.mem = on.mem /\ m.start = (IF k.fg THEN v.origin ELSE k.start) /\ m.fg = k.fg
    BY <1>2, <1>4, <1>5, <2>3, <2>4 DEF set_origin, Konsole
  <2>7. \A a \in Address : m.mem[a] = IF a \in o + screen_size..o + screen_size + Cols - 1 THEN Erased ELSE k.mem[a]
    BY <1>6, <2>2, <2>6 DEF Filled
  <2>8. Outside(k, m, k.v.start, k.v.end)
    <3> SUFFICES ASSUME NEW a \in Address, a \notin k.v.start..k.v.end - 1 PROVE m.mem[a] = k.mem[a]
      BY DEF Outside
    <3>1. a \in Nat
      BY Buffers
    <3>2. a \notin o + screen_size..o + screen_size + Cols - 1
      BY <1>2, <1>3, <1>7, <2>5, <3>1
    <3> QED
      BY <2>7, <3>2
  <2>9. SameCursor(k, m)
    BY <1>5, <2>6 DEF SameCursor
  <2>10. Sound(m)
    <3> DEFINE R == k.v.y * Cols
    <3>1. k.v.pos = o + R + k.v.x /\ R \in Nat /\ k.v.x \in Nat
      BY Cursor
    <3> HIDE DEF R
    <3>2. k.v.pos + Cols = o + Cols + R + k.v.x
      BY <1>2, <3>1
    <3>3. m.v.pos = m.v.origin + m.v.y * Cols + m.v.x
      BY <1>5, <2>6, <3>2 DEF R
    <3>4. /\ m.v.scr_end = m.v.origin + screen_size /\ m.v.start <= m.v.origin /\ m.v.scr_end <= m.v.end
          /\ m.v.end <= MemEnd /\ m.v.top < m.v.bottom
      <4>1. k.v.top < k.v.bottom
        BY <1>2 DEF InPlace
      <4> QED
        BY <1>2, <1>5, <1>7, <2>5, <2>6, <4>1
    <3> QED
      BY <2>6, <3>3, <3>4 DEF Sound, InPlace
  <2>11. Keeps(k, m)
    BY <1>5, <2>6, <2>8 DEF Keeps
  <2>12. ScrolledUp(k, m, 0, Lines)
    <3> SUFFICES ASSUME NEW r \in Row, NEW i \in Col
                 PROVE  Cell(m, r, i) = IF r = Lines - 1 THEN Erased ELSE Cell(k, r + 1, i)
      BY Sizes DEF ScrolledUp, Row
    <3> DEFINE Q == r * Cols
    <3>1. /\ Q \in Nat /\ Q + Cols <= screen_size /\ (r = Lines - 1 => Q = screen_size - Cols)
          /\ (r < Lines - 1 => Q + Cols <= screen_size - Cols)
      BY Place
    <3>2. i \in Nat /\ i < Cols /\ r \in Int /\ r <= Lines - 1
      BY Sizes DEF Row, Col
    <3>3. Cell(m, r, i) = m.mem[o + Cols + Q + i] /\ Cell(k, r + 1, i) = k.mem[o + (Q + Cols) + i]
      BY <1>5, <2>6, Place DEF Cell
    <3>4. o + Cols + Q + i \in Address
      BY <1>5, <2>6, <2>10, PlaceIn
    <3> HIDE DEF Q
    <3>5. CASE r = Lines - 1
      <4>1. o + Cols + Q + i \in o + screen_size..o + screen_size + Cols - 1
        BY <1>2, <1>3, <3>1, <3>2, <3>5
      <4> QED
        BY <2>7, <3>3, <3>4, <3>5, <4>1
    <3>6. CASE r # Lines - 1
      <4>1. o + Cols + Q + i \notin o + screen_size..o + screen_size + Cols - 1
        BY <1>2, <1>3, <3>1, <3>2, <3>6, Sizes
      <4>2. o + Cols + Q + i = o + (Q + Cols) + i
        BY <1>2, <3>1, <3>2
      <4> QED
        BY <2>7, <3>3, <3>4, <3>6, <4>1, <4>2
    <3> QED
      BY <3>5, <3>6
  <2> QED
    BY <2>9, <2>10, <2>11, <2>12 DEF Stays, m
<1> QED
  BY <1>8, <1>9

(* scrup, by the start address or by moving the lines *)
LEMMA ScrupOk ==
    ASSUME NEW STATE k, Sound(k), NEW STATE t, t \in Row, NEW STATE b, b \in 0..Lines, t < b
    PROVE  Stays(k, scrup(k, t, b)) /\ ScrolledUp(k, scrup(k, t, b), t, b)
<1>1. ~(b > Lines \/ t >= b)
  BY Sizes DEF Row
<1>2. CASE egac /\ t = 0 /\ b = Lines
  BY <1>1, <1>2, HardUp DEF scrup
<1>3. CASE ~(egac /\ t = 0 /\ b = Lines)
  <2> DEFINE m == Fill(Move(k, k.v.origin + Cols * t, k.v.origin + Cols * (t + 1), (b - t - 1) * Cols),
                       k.v.origin + Cols * (b - 1), Cols)
  <2>1. scrup(k, t, b) = m
    BY <1>1, <1>3 DEF scrup
  <2>2. Stays(k, m) /\ ScrolledUp(k, m, t, b)
    BY SoftUp
  <2> QED
    BY <2>1, <2>2
<1> QED
  BY <1>2, <1>3

(* scrdown of a region that is not empty *)
LEMMA ScrdownOk ==
    ASSUME NEW STATE k, Sound(k), NEW STATE t, t \in Row, NEW STATE b, b \in 0..Lines, t < b
    PROVE  Stays(k, scrdown(k, t, b)) /\ ScrolledDown(k, scrdown(k, t, b), t, b)
<1>1. ~(b > Lines \/ t >= b)
  BY Sizes DEF Row
<1> DEFINE m == Fill(Move(k, k.v.origin + Cols * (t + 1), k.v.origin + Cols * t, (b - t - 1) * Cols),
                     k.v.origin + Cols * t, Cols)
<1>2. scrdown(k, t, b) = m
  BY <1>1 DEF scrdown
<1>3. Stays(k, m) /\ ScrolledDown(k, m, t, b)
  BY SoftDown
<1> QED
  BY <1>2, <1>3

-----------------------------------------------------------------------------
(* The text that a console shows *)
Cells(k) == [r \in Row |-> [i \in Col |-> Cell(k, r, i)]]
Grid(k) == [cell |-> Cells(k), x |-> k.v.x, y |-> k.v.y, top |-> k.v.top, bottom |-> k.v.bottom,
            sx |-> k.v.sx, sy |-> k.v.sy]

(* An operation takes k to m, and the text from g to h. *)
Does(k, m, h) == Sound(m) /\ Keeps(k, m) /\ Grid(m) = h

(* Nothing is done to the text. *)
LEMMA DoesNothing ==
    ASSUME NEW STATE k, Sound(k) PROVE Does(k, k, Grid(k))
BY KeepsItself DEF Does

(* A cursor that moves is MoveTo. *)
LEMMA AtGrid ==
    ASSUME NEW STATE k, Sound(k), NEW STATE m, NEW STATE x, NEW STATE y, At(k, m, x, y)
    PROVE  Does(k, m, S!MoveTo(Grid(k), x, y))
<1>1. Sound(m) /\ Keeps(k, m)
  BY AtSound
<1> DEFINE e == Cells(k)
           h == [Grid(k) EXCEPT !.x = x]
<1>2. Cells(m) = e /\ Cells(k) = e
  BY DEF At, Cells, Cell
<1>3. /\ m.v.x = x /\ m.v.y = y /\ m.v.top = k.v.top /\ m.v.bottom = k.v.bottom
      /\ m.v.sx = k.v.sx /\ m.v.sy = k.v.sy
  BY DEF At
<1>4. S!MoveTo(Grid(k), x, y) = [h EXCEPT !.y = y]
  BY DEF S!MoveTo
<1> HIDE DEF e
<1>5. h = [cell |-> e, x |-> x, y |-> k.v.y, top |-> k.v.top, bottom |-> k.v.bottom, sx |-> k.v.sx, sy |-> k.v.sy]
  BY <1>2 DEF Grid
<1> HIDE DEF h
<1>6. [h EXCEPT !.y = y] = Grid(m)
  BY <1>2, <1>3, <1>5 DEF Grid
<1> QED
  BY <1>1, <1>4, <1>6 DEF Does

(* Only the text changes. *)
LEMMA StaysGrid ==
    ASSUME NEW STATE k, Sound(k), NEW STATE m, Stays(k, m), NEW STATE F, Cells(m) = F
    PROVE  Does(k, m, [Grid(k) EXCEPT !.cell = F])
<1>1. Grid(m) = [Grid(k) EXCEPT !.cell = F]
  BY DEF Stays, SameCursor, Grid
<1> QED
  BY <1>1 DEF Stays, Does

(* scrup is Scroll of the text. *)
LEMMA ScrupGrid ==
    ASSUME NEW STATE k, Sound(k), NEW STATE m, Stays(k, m), NEW STATE t, t \in Row, NEW STATE b, b \in 0..Lines,
           ScrolledUp(k, m, t, b)
    PROVE  Does(k, m, S!Scroll(Grid(k), t, b, TRUE))
<1> DEFINE F == [r \in Row |->
                   IF r \notin t..b - 1 THEN Cells(k)[r]
                   ELSE IF r = b - 1 THEN [i \in Col |-> Erased] ELSE Cells(k)[r + 1]]
<1>1. S!Scroll(Grid(k), t, b, TRUE) = [Grid(k) EXCEPT !.cell = F]
  BY DEF S!Scroll, S!Row, S!Col, Row, Col, Grid
<1>2. \A r \in Row : Cells(m)[r] = F[r]
  <2> SUFFICES ASSUME NEW r \in Row PROVE Cells(m)[r] = F[r]
    OBVIOUS
  <2>1. Cells(m)[r] = [i \in Col |-> Cell(m, r, i)] /\ Cells(k)[r] = [i \in Col |-> Cell(k, r, i)]
    BY DEF Cells
  <2>2. r + 1 \in Row => Cells(k)[r + 1] = [i \in Col |-> Cell(k, r + 1, i)]
    BY DEF Cells
  <2>3. r \in t..b - 1 /\ r # b - 1 => r + 1 \in Row
    BY Sizes DEF Row
  <2>4. CASE r \notin t..b - 1
    <3>1. \A i \in Col : Cell(m, r, i) = Cell(k, r, i)
      BY <2>4 DEF ScrolledUp
    <3> QED
      BY <2>1, <2>4, <3>1
  <2>5. CASE r \in t..b - 1 /\ r = b - 1
    <3>1. \A i \in Col : Cell(m, r, i) = Erased
      BY <2>5 DEF ScrolledUp
    <3> QED
      BY <2>1, <2>5, <3>1
  <2>6. CASE r \in t..b - 1 /\ r # b - 1
    <3>1. \A i \in Col : Cell(m, r, i) = Cell(k, r + 1, i)
      BY <2>6 DEF ScrolledUp
    <3> QED
      BY <2>1, <2>2, <2>3, <2>6, <3>1
  <2> QED
    BY <2>4, <2>5, <2>6
<1>4. Cells(m) = F
  BY <1>2 DEF Cells
<1> HIDE DEF F
<1>3. Does(k, m, [Grid(k) EXCEPT !.cell = F])
  BY <1>4, StaysGrid
<1> QED
  BY <1>1, <1>3
LEMMA ScrdownGrid ==
    ASSUME NEW STATE k, Sound(k), NEW STATE m, Stays(k, m), NEW STATE t, t \in Row, NEW STATE b, b \in 0..Lines,
           ScrolledDown(k, m, t, b)
    PROVE  Does(k, m, S!Scroll(Grid(k), t, b, FALSE))
<1> DEFINE F == [r \in Row |->
                   IF r \notin t..b - 1 THEN Cells(k)[r]
                   ELSE IF r = t THEN [i \in Col |-> Erased] ELSE Cells(k)[r - 1]]
<1>1. S!Scroll(Grid(k), t, b, FALSE) = [Grid(k) EXCEPT !.cell = F]
  BY DEF S!Scroll, S!Row, S!Col, Row, Col, Grid
<1>2. \A r \in Row : Cells(m)[r] = F[r]
  <2> SUFFICES ASSUME NEW r \in Row PROVE Cells(m)[r] = F[r]
    OBVIOUS
  <2>1. Cells(m)[r] = [i \in Col |-> Cell(m, r, i)] /\ Cells(k)[r] = [i \in Col |-> Cell(k, r, i)]
    BY DEF Cells
  <2>2. r - 1 \in Row => Cells(k)[r - 1] = [i \in Col |-> Cell(k, r - 1, i)]
    BY DEF Cells
  <2>3. r \in t..b - 1 /\ r # t => r - 1 \in Row
    BY Sizes DEF Row
  <2>4. CASE r \notin t..b - 1
    <3>1. \A i \in Col : Cell(m, r, i) = Cell(k, r, i)
      BY <2>4 DEF ScrolledDown
    <3> QED
      BY <2>1, <2>4, <3>1
  <2>5. CASE r \in t..b - 1 /\ r = t
    <3>1. \A i \in Col : Cell(m, r, i) = Erased
      BY <2>5 DEF ScrolledDown
    <3> QED
      BY <2>1, <2>5, <3>1
  <2>6. CASE r \in t..b - 1 /\ r # t
    <3>1. \A i \in Col : Cell(m, r, i) = Cell(k, r - 1, i)
      BY <2>6 DEF ScrolledDown
    <3> QED
      BY <2>1, <2>2, <2>3, <2>6, <3>1
  <2> QED
    BY <2>4, <2>5, <2>6
<1>4. Cells(m) = F
  BY <1>2 DEF Cells
<1> HIDE DEF F
<1>3. Does(k, m, [Grid(k) EXCEPT !.cell = F])
  BY <1>4, StaysGrid
<1> QED
  BY <1>1, <1>3

-----------------------------------------------------------------------------
(* The cursor goes along a line, or along a column. *)
LEMMA GridMoves ==
    ASSUME NEW STATE k
    PROVE  /\ \A y : [Grid(k) EXCEPT !.y = y] = S!MoveTo(Grid(k), k.v.x, y)
           /\ \A x : [Grid(k) EXCEPT !.x = x] = S!MoveTo(Grid(k), x, k.v.y)
           /\ Grid(k).x = k.v.x /\ Grid(k).y = k.v.y /\ Grid(k).top = k.v.top /\ Grid(k).bottom = k.v.bottom
           /\ Grid(k).sx = k.v.sx /\ Grid(k).sy = k.v.sy /\ Grid(k).cell = Cells(k)
<1> DEFINE e == Cells(k)
           g == Grid(k)
<1>1. g = [cell |-> e, x |-> k.v.x, y |-> k.v.y, top |-> k.v.top, bottom |-> k.v.bottom, sx |-> k.v.sx, sy |-> k.v.sy]
  BY DEF Grid
<1> HIDE DEF e, g
<1>2. ASSUME NEW y PROVE [g EXCEPT !.y = y] = S!MoveTo(g, k.v.x, y)
  <2> DEFINE h == [g EXCEPT !.x = k.v.x]
  <2>1. h = g
    BY <1>1
  <2>2. S!MoveTo(g, k.v.x, y) = [h EXCEPT !.y = y]
    BY DEF S!MoveTo
  <2> HIDE DEF h
  <2> QED
    BY <2>1, <2>2
<1>3. ASSUME NEW x PROVE [g EXCEPT !.x = x] = S!MoveTo(g, x, k.v.y)
  <2> DEFINE h == [g EXCEPT !.x = x]
  <2>1. S!MoveTo(g, x, k.v.y) = [h EXCEPT !.y = k.v.y]
    BY DEF S!MoveTo
  <2>2. h = [cell |-> e, x |-> x, y |-> k.v.y, top |-> k.v.top, bottom |-> k.v.bottom, sx |-> k.v.sx, sy |-> k.v.sy]
    BY <1>1
  <2> HIDE DEF h
  <2>3. [h EXCEPT !.y = k.v.y] = h
    BY <2>2
  <2> QED
    BY <2>1, <2>3 DEF h
<1>4. /\ g.x = k.v.x /\ g.y = k.v.y /\ g.top = k.v.top /\ g.bottom = k.v.bottom
      /\ g.sx = k.v.sx /\ g.sy = k.v.sy /\ g.cell = e
  BY <1>1
<1> QED
  BY <1>2, <1>3, <1>4 DEF g, e

(* lf is LineFeed. *)
LEMMA LfOk ==
    ASSUME NEW STATE k, Sound(k) PROVE Does(k, lf(k), S!LineFeed(Grid(k)))
<1>1. /\ k \in Konsole /\ Fields(k.v) /\ k.v.top < k.v.bottom
  BY SoundFields DEF InPlace
<1>2. k.v.top \in Row /\ k.v.bottom \in 0..Lines /\ k.v.y \in Int /\ k.v.bottom \in Int /\ Lines \in Nat /\ k.v.y >= 0
  <2>1. k.v.top \in 0..Lines /\ k.v.bottom \in 0..Lines /\ k.v.y \in 0..Lines - 1 /\ k.v.top < k.v.bottom
    BY <1>1 DEF Fields
  <2>2. Lines \in Nat
    BY Sizes
  <2> QED
    BY <2>1, <2>2 DEF Row
<1>3. Grid(k).y = k.v.y /\ Grid(k).top = k.v.top /\ Grid(k).bottom = k.v.bottom
  BY GridMoves
<1>4. CASE k.v.y + 1 < k.v.bottom
  <2> DEFINE m == [k EXCEPT !.v = [k.v EXCEPT !.y = @ + 1, !.pos = @ + 1 * Cols]]
  <2>1. lf(k) = m
    <3>1. 1 * Cols = Cols
      BY Sizes
    <3> QED
      BY <1>1, <1>4, <3>1 DEF lf, Konsole
  <2>2. k.v.y + 1 \in 0..Lines - 1
    BY <1>2, <1>4
  <2>3. At(k, m, k.v.x, k.v.y + 1)
    BY <2>2, LineAt
  <2> HIDE DEF m
  <2>4. Does(k, m, S!MoveTo(Grid(k), k.v.x, k.v.y + 1))
    BY <2>3, AtGrid
  <2>5. S!LineFeed(Grid(k)) = [Grid(k) EXCEPT !.y = k.v.y + 1]
    BY <1>3, <1>4 DEF S!LineFeed
  <2>6. S!LineFeed(Grid(k)) = S!MoveTo(Grid(k), k.v.x, k.v.y + 1)
    BY <2>5, GridMoves
  <2> QED
    BY <2>1, <2>4, <2>6
<1>5. CASE ~(k.v.y + 1 < k.v.bottom)
  <2> DEFINE m == scrup(k, k.v.top, k.v.bottom)
  <2>1. lf(k) = m
    BY <1>5 DEF lf
  <2>2. Stays(k, m) /\ ScrolledUp(k, m, k.v.top, k.v.bottom)
    BY <1>1, <1>2, ScrupOk
  <2> HIDE DEF m
  <2>3. Does(k, m, S!Scroll(Grid(k), k.v.top, k.v.bottom, TRUE))
    BY <1>2, <2>2, ScrupGrid
  <2>4. S!LineFeed(Grid(k)) = S!Scroll(Grid(k), k.v.top, k.v.bottom, TRUE)
    BY <1>3, <1>5 DEF S!LineFeed
  <2> QED
    BY <2>1, <2>3, <2>4
<1> QED
  BY <1>4, <1>5

(* ri is ReverseIndex. *)
LEMMA RiOk ==
    ASSUME NEW STATE k, Sound(k) PROVE Does(k, ri(k), S!ReverseIndex(Grid(k)))
<1>1. /\ k \in Konsole /\ Fields(k.v) /\ k.v.top < k.v.bottom
  BY SoundFields DEF InPlace
<1>2. /\ k.v.top \in Row /\ k.v.bottom \in 0..Lines /\ k.v.y \in Int /\ k.v.top \in Int /\ Lines \in Nat
      /\ k.v.y <= Lines - 1 /\ k.v.top >= 0
  <2>1. k.v.top \in 0..Lines /\ k.v.bottom \in 0..Lines /\ k.v.y \in 0..Lines - 1 /\ k.v.top < k.v.bottom
    BY <1>1 DEF Fields
  <2>2. Lines \in Nat
    BY Sizes
  <2> QED
    BY <2>1, <2>2 DEF Row
<1>3. Grid(k).y = k.v.y /\ Grid(k).top = k.v.top /\ Grid(k).bottom = k.v.bottom
  BY GridMoves
<1>4. CASE k.v.y > k.v.top
  <2> DEFINE m == [k EXCEPT !.v = [k.v EXCEPT !.y = @ + (-1), !.pos = @ + (-1) * Cols]]
  <2>1. ri(k) = m
    <3>1. k.v.y + (-1) = k.v.y - 1 /\ k.v.pos + (-1) * Cols = k.v.pos - Cols
      BY <1>2, Cursor, Sizes
    <3>2. ri(k) = [k EXCEPT !.v = [k.v EXCEPT !.y = @ - 1, !.pos = @ - Cols]]
      BY <1>1, <1>4 DEF ri, Konsole
    <3> QED
      BY <3>1, <3>2
  <2>2. k.v.y + (-1) \in 0..Lines - 1
    BY <1>2, <1>4
  <2>3. At(k, m, k.v.x, k.v.y + (-1))
    BY <2>2, LineAt
  <2> HIDE DEF m
  <2>4. Does(k, m, S!MoveTo(Grid(k), k.v.x, k.v.y - 1))
    BY <1>2, <2>3, AtGrid
  <2>5. S!ReverseIndex(Grid(k)) = [Grid(k) EXCEPT !.y = k.v.y - 1]
    BY <1>3, <1>4 DEF S!ReverseIndex
  <2>6. S!ReverseIndex(Grid(k)) = S!MoveTo(Grid(k), k.v.x, k.v.y - 1)
    BY <2>5, GridMoves
  <2> QED
    BY <2>1, <2>4, <2>6
<1>5. CASE ~(k.v.y > k.v.top)
  <2> DEFINE m == scrdown(k, k.v.top, k.v.bottom)
  <2>1. ri(k) = m
    BY <1>5 DEF ri
  <2>2. Stays(k, m) /\ ScrolledDown(k, m, k.v.top, k.v.bottom)
    BY <1>1, <1>2, ScrdownOk
  <2> HIDE DEF m
  <2>3. Does(k, m, S!Scroll(Grid(k), k.v.top, k.v.bottom, FALSE))
    BY <1>2, <2>2, ScrdownGrid
  <2>4. S!ReverseIndex(Grid(k)) = S!Scroll(Grid(k), k.v.top, k.v.bottom, FALSE)
    BY <1>3, <1>5 DEF S!ReverseIndex
  <2> QED
    BY <2>1, <2>3, <2>4
<1> QED
  BY <1>4, <1>5

(* One operation after another *)
LEMMA DoesAfter ==
    ASSUME NEW STATE k, NEW STATE m, NEW STATE n, NEW STATE h, Keeps(k, m), Does(m, n, h)
    PROVE  Does(k, n, h)
BY KeepsTrans DEF Does

(* cr is Return. *)
LEMMA CrOk ==
    ASSUME NEW STATE k, Sound(k)
    PROVE  Does(k, cr(k), S!Return(Grid(k))) /\ S!Return(Grid(k)) = S!MoveTo(Grid(k), 0, k.v.y)
<1>1. Does(k, cr(k), S!MoveTo(Grid(k), 0, k.v.y))
  BY CrAt, AtGrid
<1>2. S!Return(Grid(k)) = [Grid(k) EXCEPT !.x = 0]
  BY DEF S!Return
<1>3. S!Return(Grid(k)) = S!MoveTo(Grid(k), 0, k.v.y)
  BY <1>2, GridMoves
<1> QED
  BY <1>1, <1>3

(* bs moves the cursor back, unless it is in column 0. *)
LEMMA BsOk ==
    ASSUME NEW STATE k, Sound(k)
    PROVE  \/ bs(k) = k /\ k.v.x = 0
           \/ /\ k.v.x > 0 /\ At(k, bs(k), k.v.x - 1, k.v.y)
              /\ Does(k, bs(k), S!MoveTo(Grid(k), k.v.x - 1, k.v.y))
<1>1. k.v.x \in Nat
  BY Cursor
<1>2. CASE k.v.x = 0
  BY <1>2 DEF bs
<1>3. CASE k.v.x # 0
  <2>1. At(k, bs(k), k.v.x - 1, k.v.y)
    BY <1>3, BsAt
  <2>2. Does(k, bs(k), S!MoveTo(Grid(k), k.v.x - 1, k.v.y))
    BY <2>1, AtGrid
  <2> QED
    BY <1>1, <1>3, <2>1, <2>2
<1> QED
  BY <1>2, <1>3

(* Two places of the screen have two addresses. *)
LEMMA PlacesDiffer ==
    ASSUME NEW r \in Row, NEW i \in Col, NEW s \in Row, NEW j \in Col, NEW o \in Nat,
           o + r * Cols + i = o + s * Cols + j
    PROVE  r = s /\ i = j
<1> DEFINE R == r * Cols
           Q == s * Cols
<1>1. /\ R \in Int /\ Q \in Int /\ (r < s => R + Cols <= Q) /\ (s < r => Q + Cols <= R)
      /\ r \in Int /\ s \in Int /\ i \in Nat /\ j \in Nat /\ i < Cols /\ j < Cols /\ Cols \in Nat
      /\ (r = s => R = Q) /\ o + R + i = o + Q + j
  BY RowOrder, Sizes DEF Row, Col
<1> HIDE DEF R, Q
<1> QED
  BY <1>1

(* One place of the screen is written. *)
OneSet(k, m, at, g) == \A a \in Address : m.mem[a] = IF a = at THEN g ELSE k.mem[a]
CellPut(e, y, x, g) == [e EXCEPT ![y] = [e[y] EXCEPT ![x] = g]]

(* One address written is one character of the text written. *)
LEMMA CellsSet ==
    ASSUME NEW STATE k, Sound(k), NEW STATE m, NEW STATE x, x \in Col, NEW STATE y, y \in Row, NEW STATE g,
           m.v.origin = k.v.origin,
           NEW STATE at, at = k.v.origin + y * Cols + x, OneSet(k, m, at, g)
    PROVE  Cells(m) = CellPut(Cells(k), y, x, g)
<1> DEFINE F == [Cells(k) EXCEPT ![y] = [Cells(k)[y] EXCEPT ![x] = g]]
<1>1. k.v.origin \in Nat
  BY Cursor
<1>2. ASSUME NEW r \in Row, NEW i \in Col
      PROVE  Cell(m, r, i) = IF r = y /\ i = x THEN g ELSE Cell(k, r, i)
  <2> DEFINE a == k.v.origin + r * Cols + i
  <2>1. a \in Address /\ Cell(m, r, i) = m.mem[a] /\ Cell(k, r, i) = k.mem[a]
    BY PlaceIn DEF Cell
  <2>2. a = at <=> r = y /\ i = x
    BY <1>1, PlacesDiffer
  <2>3. m.mem[a] = IF a = at THEN g ELSE k.mem[a]
    BY <2>1 DEF OneSet
  <2> HIDE DEF a
  <2> QED
    BY <2>1, <2>2, <2>3
<1>3. ASSUME NEW r \in Row PROVE Cells(m)[r] = F[r]
  <2>1. /\ Cells(m)[r] = [i \in Col |-> Cell(m, r, i)] /\ Cells(k)[r] = [i \in Col |-> Cell(k, r, i)]
        /\ Cells(k) = [q \in Row |-> Cells(k)[q]]
    BY DEF Cells
  <2>2. CASE r = y
    <3>1. F[r] = [Cells(k)[y] EXCEPT ![x] = g]
      BY <2>1, <2>2
    <3>2. [Cells(k)[y] EXCEPT ![x] = g] = [i \in Col |-> IF i = x THEN g ELSE Cell(k, r, i)]
      BY <2>1, <2>2
    <3>3. [i \in Col |-> Cell(m, r, i)] = [i \in Col |-> IF i = x THEN g ELSE Cell(k, r, i)]
      BY <1>2, <2>2
    <3> QED
      BY <2>1, <3>1, <3>2, <3>3
  <2>3. CASE r # y
    <3>1. F[r] = Cells(k)[r]
      BY <2>1, <2>3
    <3>2. [i \in Col |-> Cell(m, r, i)] = [i \in Col |-> Cell(k, r, i)]
      BY <1>2, <2>3
    <3> QED
      BY <2>1, <3>1, <3>2
  <2> QED
    BY <2>2, <2>3
<1>4. F = [r \in Row |-> F[r]] /\ Cells(m) = [r \in Row |-> Cells(m)[r]]
  BY DEF Cells
<1> HIDE DEF F
<1>5. Cells(m) = F
  BY <1>3, <1>4
<1> QED
  BY <1>5 DEF F, CellPut

(* del is Delete. *)
LEMMA DelOk ==
    ASSUME NEW STATE k, Sound(k) PROVE Does(k, del(k), S!Delete(Grid(k)))
<1>1. k.v.x \in Nat /\ k.v.x <= Cols /\ Cols \in Nat
  BY Cursor, Sizes
<1>2. Grid(k).x = k.v.x /\ Grid(k).y = k.v.y /\ Grid(k).cell = Cells(k)
  BY GridMoves
<1>3. CASE k.v.x = 0
  <2>1. del(k) = k /\ S!Delete(Grid(k)) = Grid(k)
    BY <1>1, <1>2, <1>3 DEF del, S!Delete
  <2> QED
    BY <2>1, DoesNothing
<1>4. CASE k.v.x # 0
  <2> DEFINE n == bs(k)
             m == Fill(n, n.v.pos, 1)
             x == k.v.x - 1
             y == k.v.y
  <2>1. del(k) = m
    BY <1>4 DEF del
  <2>2. At(k, n, x, y) /\ Does(k, n, S!MoveTo(Grid(k), x, y))
    BY <1>4, BsOk
  <2>3. Sound(n) /\ Keeps(k, n) /\ n.v.x = x /\ n.v.y = y /\ n.v.pos = k.v.origin + y * Cols + x /\ n.v.origin = k.v.origin
    BY <2>2 DEF At, Does
  <2>4. x \in Col /\ y \in Row
    BY <1>1, <1>4, Cursor DEF Col, Row
  <2> HIDE DEF n, m, x, y
  <2>5. Stays(n, m)
    <3>1. n.v.pos \in Int /\ n.v.start <= n.v.pos /\ n.v.pos < n.v.end /\ n.v.end \in Int
      BY <2>3, <2>4, PlaceIn, Cursor
    <3>2. n.v.pos + 1 <= n.v.end /\ 1 \in Int
      BY <3>1
    <3> QED
      BY <2>3, <3>1, <3>2, FillSound DEF m, Stays, SameCursor
  <2>6. OneSet(n, m, n.v.pos, Erased)
    <3>1. Filled(n, m, n.v.pos, 1)
      BY <2>3, FillIs, SoundFields DEF m
    <3>2. n.v.pos \in Int /\ n.v.pos..n.v.pos + 1 - 1 = {n.v.pos}
      BY <2>3, Cursor
    <3> QED
      BY <3>1, <3>2 DEF Filled, OneSet
  <2> DEFINE F == [Cells(n) EXCEPT ![y] = [Cells(n)[y] EXCEPT ![x] = Erased]]
  <2>7. Cells(m) = F
    <3>1. m.v.origin = n.v.origin
      BY <2>3, FillIs, SoundFields DEF m, Inked
    <3>2. n.v.pos = n.v.origin + y * Cols + x
      BY <2>3
    <3>3. Cells(m) = CellPut(Cells(n), y, x, Erased)
      BY <2>3, <2>4, <2>6, <3>1, <3>2, CellsSet
    <3> QED
      BY <3>3 DEF CellPut
  <2>8. Cells(n) = Cells(k)
    BY <2>2 DEF At, Cells, Cell
  <2>9. S!Delete(Grid(k)) = [[Grid(k) EXCEPT !.x = x] EXCEPT !.cell = F]
    <3>1. k.v.x > 0
      BY <1>1, <1>4
    <3>2. S!Delete(Grid(k)) = [Grid(k) EXCEPT !.x = x, !.cell = [Cells(k) EXCEPT ![y] = [Cells(k)[y] EXCEPT ![x] = Erased]]]
      BY <1>2, <3>1 DEF S!Delete, x, y, Grid
    <3> QED
      BY <2>8, <3>2
  <2>10. [Grid(k) EXCEPT !.x = x] = Grid(n)
    BY <2>2, GridMoves DEF Does, y
  <2> HIDE DEF F
  <2>11. Does(n, m, [Grid(n) EXCEPT !.cell = F])
    BY <2>3, <2>5, <2>7, StaysGrid
  <2>12. Does(n, m, S!Delete(Grid(k)))
    BY <2>9, <2>10, <2>11
  <2> QED
    BY <2>1, <2>3, <2>12, DoesAfter
<1> QED
  BY <1>3, <1>4

(* The cursor goes to column x of its line. *)
LEMMA ColumnAt ==
    ASSUME NEW STATE k, Sound(k), NEW STATE m, NEW STATE x, x \in 0..Cols, NEW STATE w,
           w = [k.v EXCEPT !.x = x, !.pos = k.v.origin + k.v.y * Cols + x], m = [k EXCEPT !.v = w]
    PROVE  At(k, m, x, k.v.y)
<1> DEFINE r == k.v.y * Cols
           p == k.v.origin + r + x
<1>1. r \in Nat /\ k.v.origin \in Nat /\ Cols \in Nat
  BY Cursor, Sizes
<1>2. k \in Konsole /\ k.v \in VcStruct
  BY SoundFields
<1> HIDE DEF r
<1>3. p \in Nat
  BY <1>1
<1>4. w = [k.v EXCEPT !.x = x, !.pos = p]
  BY DEF r
<1> HIDE DEF p
<1>5. /\ w \in VcStruct /\ w.x = x /\ w.y = k.v.y /\ w.pos = p
      /\ w.origin = k.v.origin /\ w.start = k.v.start /\ w.end = k.v.end /\ w.scr_end = k.v.scr_end
      /\ w.top = k.v.top /\ w.bottom = k.v.bottom /\ w.sx = k.v.sx /\ w.sy = k.v.sy
  BY <1>2, <1>3, <1>4 DEF VcStruct
<1>6. m \in Konsole /\ m.v = w /\ m.mem = k.mem /\ m.start = k.start /\ m.fg = k.fg
  BY <1>2, <1>5 DEF Konsole
<1> QED
  BY <1>5, <1>6 DEF At, p, r

(* The cursor has passed the last column by x places. *)
LEMMA WrapOk ==
    ASSUME NEW STATE k, Sound(k), NEW STATE n, NEW STATE x, x \in 0..Cols,
           n = [k EXCEPT !.v = [k.v EXCEPT !.x = Cols + x, !.pos = k.v.origin + k.v.y * Cols + (Cols + x)]]
    PROVE  Does(k, Wrapped(n), S!LineFeed(S!MoveTo(Grid(k), x, k.v.y)))
<1> DEFINE r == k.v.y * Cols
           m == [n EXCEPT !.v.x = @ - Cols, !.v.pos = @ - Cols]
           u == [k.v EXCEPT !.x = Cols + x, !.pos = k.v.origin + r + (Cols + x)]
           w == [k.v EXCEPT !.x = x, !.pos = k.v.origin + r + x]
<1>1. r \in Nat /\ k.v.origin \in Nat /\ Cols \in Nat
  BY Cursor, Sizes
<1>2. k \in Konsole /\ k.v \in VcStruct
  BY SoundFields
<1>3. Wrapped(n) = lf(m)
  BY DEF Wrapped
<1>4. n = [k EXCEPT !.v = u]
  OBVIOUS
<1> HIDE DEF r
<1> DEFINE p == k.v.origin + r + (Cols + x)
           q == k.v.origin + r + x
           c == Cols + x
<1>7. [u EXCEPT !.x = @ - Cols, !.pos = @ - Cols] = w
  <2>1. u = [k.v EXCEPT !.x = c, !.pos = p] /\ w = [k.v EXCEPT !.x = x, !.pos = q]
    OBVIOUS
  <2>7. u.x = c /\ u.pos = p
    BY <1>2 DEF VcStruct
  <2>8. c - Cols = x /\ p - Cols = q
    BY <1>1
  <2> HIDE DEF u, w, p, q, c
  <2>2. u.x - Cols = x /\ u.pos - Cols = q
    BY <2>7, <2>8
  <2> DEFINE t == [u EXCEPT !.x = x]
  <2>3. [u EXCEPT !.x = @ - Cols, !.pos = @ - Cols] = [t EXCEPT !.pos = @ - Cols]
    BY <2>2
  <2>5. t.pos = u.pos
    BY <1>2, <2>1 DEF VcStruct
  <2>6. [t EXCEPT !.pos = @ - Cols] = [t EXCEPT !.pos = q]
    <3> HIDE DEF t
    <3> QED
      BY <2>2, <2>5
  <2>4. [u EXCEPT !.x = x, !.pos = q] = w
    BY <1>2, <2>1 DEF VcStruct
  <2> QED
    BY <2>3, <2>4, <2>6
<1> HIDE DEF u, w, p, q, c
<1>8. n.v = u
  BY <1>2, <1>4 DEF Konsole
<1>9. m = [k EXCEPT !.v = w]
  BY <1>2, <1>4, <1>7, <1>8 DEF Konsole
<1> HIDE DEF m
<1>10. At(k, m, x, k.v.y)
  BY <1>9, ColumnAt DEF r, w
<1>11. Does(k, m, S!MoveTo(Grid(k), x, k.v.y))
  BY <1>10, AtGrid
<1>12. Does(m, lf(m), S!LineFeed(Grid(m)))
  BY <1>11, LfOk DEF Does
<1> QED
  BY <1>3, <1>11, <1>12, DoesAfter DEF Does

(* A character goes to a place within a line. *)
Ink(k) == [k EXCEPT !.mem[k.v.pos] = Written, !.v.pos = @ + 1, !.v.x = @ + 1]

(* A character is written and the cursor moves on. *)
LEMMA InkOk ==
    ASSUME NEW STATE k, Sound(k), k.v.x < Cols
    PROVE  Does(k, Ink(k), [[Grid(k) EXCEPT !.cell[k.v.y][k.v.x] = Written] EXCEPT !.x = k.v.x + 1])
<1> DEFINE m == Ink(k)
           r == k.v.y * Cols
           p == k.v.pos
           M == [k.mem EXCEPT ![p] = Written]
           w == [k.v EXCEPT !.pos = p + 1, !.x = k.v.x + 1]
<1>1. /\ r \in Nat /\ k.v.origin \in Nat /\ Cols \in Nat /\ p \in Nat /\ p = k.v.origin + r + k.v.x /\ k.v.x \in Nat
      /\ k.v.y \in Nat /\ k.v.y <= Lines - 1 /\ Lines \in Nat
  BY Cursor, Sizes
<1>2. k \in Konsole /\ k.v \in VcStruct /\ k.mem \in [Address -> Int] /\ InPlace(k.v) /\ (k.fg => k.start = k.v.origin)
  BY SoundFields
<1> HIDE DEF r, p
<1>3. p + 1 \in Nat /\ p + 1 = k.v.origin + r + (k.v.x + 1) /\ k.v.x + 1 \in 0..Cols
  BY <1>1
<1>4. k.v.x \in Col /\ k.v.y \in Row
  BY <1>1 DEF Row, Col
<1>5. p \in Address /\ k.v.start <= p /\ p < k.v.end
  BY <1>1, <1>4, PlaceIn DEF r
<1>6. /\ w \in VcStruct /\ w.x = k.v.x + 1 /\ w.y = k.v.y /\ w.pos = p + 1
      /\ w.origin = k.v.origin /\ w.start = k.v.start /\ w.end = k.v.end /\ w.scr_end = k.v.scr_end
      /\ w.top = k.v.top /\ w.bottom = k.v.bottom /\ w.sx = k.v.sx /\ w.sy = k.v.sy
  BY <1>2, <1>3 DEF VcStruct
<1>7. m = [[k EXCEPT !.mem = M] EXCEPT !.v = w]
  BY <1>2 DEF Konsole, p, Ink
<1>8. M \in [Address -> Int] /\ \A a \in Address : M[a] = IF a = p THEN Written ELSE k.mem[a]
  <2>1. Written \in Int
    BY DEF Written
  <2> QED
    BY <1>2, <2>1
<1> HIDE DEF M, w, m
<1>9. m \in Konsole /\ m.v = w /\ m.mem = M /\ m.start = k.start /\ m.fg = k.fg
  BY <1>2, <1>6, <1>7, <1>8 DEF Konsole
<1>10. Sound(m)
  <2>1. m.v.pos = m.v.origin + m.v.y * Cols + m.v.x
    BY <1>3, <1>6, <1>9 DEF r
  <2> QED
    BY <1>2, <1>6, <1>9, <2>1 DEF Sound, InPlace
<1>11. Keeps(k, m)
  <2>1. \A a \in Address : a \notin k.v.start..k.v.end - 1 => a # p
    BY <1>1, <1>5, Cursor
  <2>2. Outside(k, m, k.v.start, k.v.end)
    BY <1>8, <1>9, <2>1 DEF Outside
  <2> QED
    BY <1>6, <1>9, <2>2 DEF Keeps
<1> DEFINE F == [Cells(k) EXCEPT ![k.v.y] = [Cells(k)[k.v.y] EXCEPT ![k.v.x] = Written]]
<1>12. Cells(m) = F
  <2>1. m.v.origin = k.v.origin
    BY <1>6, <1>9
  <2>2. p = k.v.origin + k.v.y * Cols + k.v.x /\ OneSet(k, m, p, Written)
    BY <1>1, <1>8, <1>9 DEF r, OneSet
  <2>3. Cells(m) = CellPut(Cells(k), k.v.y, k.v.x, Written)
    BY <1>4, <2>1, <2>2, CellsSet
  <2> QED
    BY <2>3 DEF CellPut
<1>13. [Grid(k) EXCEPT !.cell[k.v.y][k.v.x] = Written] = [Grid(k) EXCEPT !.cell = F]
  BY DEF Grid
<1> DEFINE h == [Grid(k) EXCEPT !.cell = F]
<1> HIDE DEF F
<1>14. h = [cell |-> F, x |-> k.v.x, y |-> k.v.y, top |-> k.v.top, bottom |-> k.v.bottom, sx |-> k.v.sx, sy |-> k.v.sy]
  BY DEF Grid
<1> HIDE DEF h
<1>15. [h EXCEPT !.x = k.v.x + 1] = Grid(m)
  BY <1>6, <1>9, <1>12, <1>14 DEF Grid
<1> QED
  BY <1>10, <1>11, <1>13, <1>15 DEF Does, h, m

(* put is Put. *)
LEMMA PutOk ==
    ASSUME NEW STATE k, Sound(k) PROVE Does(k, put(k), S!Put(Grid(k), Written))
<1>1. k.v.x \in Nat /\ k.v.x <= Cols /\ Cols \in Nat /\ Cols > 0
  BY Cursor, Sizes
<1> DEFINE n == IF k.v.x >= Cols THEN Wrapped(k) ELSE k
           g == IF k.v.x >= Cols THEN S!LineFeed(S!Return(Grid(k))) ELSE Grid(k)
           m == put(k)
<1>2. Does(k, n, g) /\ n.v.x < Cols
  <2>1. CASE k.v.x < Cols
    BY <1>1, <2>1, DoesNothing
  <2>2. CASE k.v.x = Cols
    <3>1. k.v = [k.v EXCEPT !.x = Cols + 0, !.pos = k.v.origin + k.v.y * Cols + (Cols + 0)]
      <4>1. k.v.x = Cols + 0 /\ k.v.pos = k.v.origin + k.v.y * Cols + (Cols + 0)
        BY <1>1, <2>2, Cursor
      <4>2. k.v \in VcStruct
        BY SoundFields
      <4> DEFINE a == Cols + 0
                 b == k.v.origin + k.v.y * Cols + (Cols + 0)
      <4>3. k.v.x = a /\ k.v.pos = b
        BY <4>1
      <4> HIDE DEF a, b
      <4>4. k.v = [k.v EXCEPT !.x = a, !.pos = b]
        BY <4>2, <4>3 DEF VcStruct
      <4> QED
        BY <4>4 DEF a, b
    <3>2. k = [k EXCEPT !.v = k.v]
      BY SoundFields DEF Konsole
    <3>3. k = [k EXCEPT !.v = [k.v EXCEPT !.x = Cols + 0, !.pos = k.v.origin + k.v.y * Cols + (Cols + 0)]]
      BY <3>1, <3>2
    <3>4. 0 \in 0..Cols
      BY <1>1
    <3>5. Does(k, Wrapped(k), S!LineFeed(S!MoveTo(Grid(k), 0, k.v.y)))
      BY <3>3, <3>4, WrapOk
    <3>6. S!LineFeed(S!Return(Grid(k))) = S!LineFeed(S!MoveTo(Grid(k), 0, k.v.y))
      BY CrOk
    <3>7. Does(k, n, g)
      BY <1>1, <2>2, <3>5, <3>6
    <3>8. g.x = 0
      <4> DEFINE s == S!MoveTo(Grid(k), 0, k.v.y)
      <4>1. s.x = 0 /\ "x" \in DOMAIN s
        BY DEF S!MoveTo, Grid
      <4>2. g = S!LineFeed(s)
        BY <1>1, <2>2, <3>6
      <4> HIDE DEF s, g
      <4> QED
        BY <4>1, <4>2 DEF S!LineFeed, S!Scroll
    <3> QED
      BY <1>1, <3>7, <3>8 DEF Does, Grid
  <2> QED
    BY <1>1, <2>1, <2>2
<1>3. m = Ink(n)
  BY DEF put, Ink
<1>4. S!Put(Grid(k), Written) = [[g EXCEPT !.cell[g.y][g.x] = Written] EXCEPT !.x = @ + 1]
  <2>1. Grid(k).x = k.v.x
    BY GridMoves
  <2> QED
    BY <2>1 DEF S!Put
<1> HIDE DEF n, g, m
<1>5. Sound(n) /\ Keeps(k, n) /\ Grid(n) = g
  BY <1>2 DEF Does
<1>6. Does(n, m, [[g EXCEPT !.cell[n.v.y][n.v.x] = Written] EXCEPT !.x = n.v.x + 1])
  BY <1>2, <1>3, <1>5, InkOk
<1>7. g.x = n.v.x /\ g.y = n.v.y
  BY <1>5, GridMoves
<1>8. [[g EXCEPT !.cell[g.y][g.x] = Written] EXCEPT !.x = @ + 1]
      = [[g EXCEPT !.cell[n.v.y][n.v.x] = Written] EXCEPT !.x = n.v.x + 1]
  BY <1>5, <1>7 DEF Grid
<1> QED
  BY <1>4, <1>5, <1>6, <1>8, DoesAfter DEF m

(* tab is Tabulate. *)
LEMMA TabOk ==
    ASSUME NEW STATE k, Sound(k) PROVE Does(k, tab(k), S!Tabulate(Grid(k)))
<1> DEFINE q == k.v.x % Tab
           n == Tab - q
           r == k.v.y * Cols
           m == [k EXCEPT !.v.x = @ + n, !.v.pos = @ + n]
           x == k.v.x + n
           w == [k.v EXCEPT !.x = x, !.pos = k.v.origin + r + x]
<1>1. /\ k.v.x \in Nat /\ k.v.x <= Cols /\ Cols \in Nat /\ Tab \in Nat /\ 1 <= Tab /\ Tab <= Cols
      /\ k.v.pos = k.v.origin + r + k.v.x /\ r \in Nat /\ k.v.origin \in Nat
  BY Cursor, Sizes
<1>2. q \in Nat /\ q < Tab
  BY <1>1
<1>3. k \in Konsole /\ k.v \in VcStruct /\ Grid(k).x = k.v.x
  BY SoundFields, GridMoves
<1>4. tab(k) = IF m.v.x > Cols THEN Wrapped(m) ELSE m
  BY DEF tab
<1> DEFINE X == Grid(k).x + Tab - (Grid(k).x % Tab)
<1>5. /\ S!Tabulate(Grid(k)) = IF X > Cols THEN S!LineFeed([Grid(k) EXCEPT !.x = X - Cols]) ELSE [Grid(k) EXCEPT !.x = X]
      /\ X = k.v.x + Tab - q
  <2>1. X = k.v.x + Tab - q
    BY <1>3
  <2> QED
    BY <2>1 DEF S!Tabulate
<1> HIDE DEF q, r, X
<1>6. x = X /\ x \in Nat /\ x <= Cols + Cols /\ k.v.pos + n = k.v.origin + r + x
  BY <1>1, <1>2, <1>5
<1> HIDE DEF n
<1> DEFINE p == k.v.origin + r + x
<1>7. m = [k EXCEPT !.v = w]
  <2>1. m.v = [k.v EXCEPT !.x = @ + n, !.pos = @ + n] /\ m = [k EXCEPT !.v = m.v]
    BY <1>3 DEF Konsole
  <2> HIDE DEF m
  <2> DEFINE t == [k.v EXCEPT !.x = x]
  <2>2. [k.v EXCEPT !.x = @ + n, !.pos = @ + n] = [t EXCEPT !.pos = @ + n]
    OBVIOUS
  <2>3. t.pos = k.v.pos
    BY <1>3 DEF VcStruct
  <2>4. k.v.pos + n = p
    BY <1>6
  <2> HIDE DEF x, p
  <2>5. w = [t EXCEPT !.pos = p]
    BY DEF p
  <2> HIDE DEF t, w
  <2>6. [t EXCEPT !.pos = @ + n] = [t EXCEPT !.pos = p]
    BY <2>3, <2>4
  <2> QED
    BY <2>1, <2>2, <2>5, <2>6
<1>8. m.v.x = x
  <2>1. w.x = x
    BY <1>3 DEF VcStruct
  <2>2. m.v = w
    <3> HIDE DEF m, w
    <3> QED
      BY <1>3, <1>7 DEF Konsole
  <2> QED
    BY <2>1, <2>2
<1>9. CASE x > Cols
  <2> DEFINE c == x - Cols
  <2>1. c \in 0..Cols /\ Cols + c = x
    BY <1>1, <1>6, <1>9
  <2>2. tab(k) = Wrapped(m)
    BY <1>4, <1>8, <1>9
  <2>3. w = [k.v EXCEPT !.x = Cols + c, !.pos = k.v.origin + r + (Cols + c)]
    BY <2>1
  <2> HIDE DEF m, c
  <2>4. Does(k, Wrapped(m), S!LineFeed(S!MoveTo(Grid(k), c, k.v.y)))
    <3>1. m = [k EXCEPT !.v = [k.v EXCEPT !.x = Cols + c, !.pos = k.v.origin + k.v.y * Cols + (Cols + c)]]
      BY <1>7, <2>3 DEF r
    <3> QED
      BY <2>1, <3>1, WrapOk
  <2>5. S!Tabulate(Grid(k)) = S!LineFeed([Grid(k) EXCEPT !.x = c])
    BY <1>5, <1>6, <1>9 DEF c
  <2>6. [Grid(k) EXCEPT !.x = c] = S!MoveTo(Grid(k), c, k.v.y)
    BY GridMoves
  <2> QED
    BY <2>2, <2>4, <2>5, <2>6
<1>10. CASE ~(x > Cols)
  <2>1. x \in 0..Cols
    BY <1>1, <1>6, <1>10
  <2>2. tab(k) = m
    BY <1>4, <1>8, <1>10
  <2>3. S!Tabulate(Grid(k)) = [Grid(k) EXCEPT !.x = x]
    BY <1>5, <1>6, <1>10
  <2> HIDE DEF m, x
  <2>4. At(k, m, x, k.v.y)
    BY <1>7, <2>1, ColumnAt DEF r, w
  <2>5. Does(k, m, S!MoveTo(Grid(k), x, k.v.y))
    BY <2>4, AtGrid
  <2>6. [Grid(k) EXCEPT !.x = x] = S!MoveTo(Grid(k), x, k.v.y)
    BY GridMoves
  <2> QED
    BY <2>2, <2>3, <2>5, <2>6
<1> QED
  BY <1>9, <1>10

-----------------------------------------------------------------------------
(* The places E of the screen are erased. *)
ErasedIn(k, E) == [r \in Row |-> [i \in Col |-> IF <<r, i>> \in E THEN Erased ELSE Cells(k)[r][i]]]

Wiped(k, E) == [Grid(k) EXCEPT !.cell = ErasedIn(k, E)]
Covers(k, at, n, E) == \A r \in Row, i \in Col : k.v.origin + r * Cols + i \in at..at + n - 1 <=> <<r, i>> \in E

(* Fill wipes the places that its addresses cover. *)
LEMMA FillCells ==
    ASSUME NEW STATE k, Sound(k), NEW STATE at, at \in Int, NEW STATE n, n \in Int, k.v.start <= at, at + n <= k.v.end,
           NEW STATE E, Covers(k, at, n, E)
    PROVE  Does(k, Fill(k, at, n), Wiped(k, E))
<1> DEFINE m == Fill(k, at, n)
<1>1. Sound(m) /\ Keeps(k, m) /\ m.v = k.v
  BY FillSound
<1>2. Filled(k, m, at, n)
  BY FillIs, SoundFields
<1> HIDE DEF m
<1>3. ASSUME NEW r \in Row, NEW i \in Col PROVE Cell(m, r, i) = IF <<r, i>> \in E THEN Erased ELSE Cells(k)[r][i]
  <2> DEFINE a == k.v.origin + r * Cols + i
  <2>1. a \in Address /\ Cell(m, r, i) = m.mem[a] /\ Cells(k)[r][i] = k.mem[a]
    BY <1>1, PlaceIn DEF Cell, Cells
  <2>2. a \in at..at + n - 1 <=> <<r, i>> \in E
    BY DEF Covers
  <2> HIDE DEF a
  <2> QED
    BY <1>2, <2>1, <2>2 DEF Filled
<1>4. Cells(m) = ErasedIn(k, E)
  BY <1>3 DEF Cells, ErasedIn
<1>5. Stays(k, m)
  BY <1>1 DEF Stays, SameCursor
<1>6. Does(k, m, Wiped(k, E))
  BY <1>4, <1>5, StaysGrid DEF Wiped
<1> QED
  BY <1>6 DEF m

(* The order of places is that of their addresses. *)
LEMMA PlaceOrder ==
    ASSUME NEW r \in Row, NEW i \in Col, NEW y \in Row, NEW x \in 0..Cols, NEW o \in Nat
    PROVE  o + y * Cols + x <= o + r * Cols + i <=> r > y \/ (r = y /\ i >= x)
<1> DEFINE R == r * Cols
           Q == y * Cols
<1>1. /\ R \in Int /\ Q \in Int /\ (r < y => R + Cols <= Q) /\ (y < r => Q + Cols <= R) /\ (r = y => R = Q)
      /\ r \in Int /\ y \in Int /\ i \in Nat /\ x \in Nat /\ i < Cols /\ x <= Cols /\ Cols \in Nat
  BY RowOrder, Sizes DEF Row, Col
<1> HIDE DEF R, Q
<1>2. o + Q + x <= o + R + i <=> r > y \/ (r = y /\ i >= x)
  <2>1. CASE r < y
    BY <1>1, <2>1
  <2>2. CASE r = y
    BY <1>1, <2>2
  <2>3. CASE r > y
    BY <1>1, <2>3
  <2> QED
    BY <1>1, <2>1, <2>2, <2>3
<1> QED
  BY <1>2 DEF R, Q

(* csi_J is EraseDisplay. *)
LEMMA CsiJOk ==
    ASSUME NEW STATE k, Sound(k), NEW STATE n, n \in 0..2 PROVE Does(k, csi_J(k, n), S!EraseDisplay(Grid(k), n))
<1>1. /\ k.v.pos = k.v.origin + k.v.y * Cols + k.v.x /\ k.v.y \in Row /\ k.v.x \in 0..Cols /\ k.v.origin \in Nat
      /\ k.v.pos \in Nat /\ screen_size \in Nat /\ k.v.end \in Nat /\ k.v.start \in Nat
      /\ k.v.start <= k.v.origin /\ k.v.origin + screen_size <= k.v.end
      /\ k.v.scr_end = k.v.origin + screen_size
  <2>1. k.v.scr_end = k.v.origin + screen_size
    BY SoundFields DEF InPlace
  <2> QED
    BY <2>1, Cursor, Sizes DEF Row
<1>2. k.v.origin <= k.v.pos /\ k.v.pos <= k.v.scr_end
  <2> DEFINE r == k.v.y * Cols
  <2>1. r \in Nat /\ r + Cols <= screen_size /\ k.v.pos = k.v.origin + r + k.v.x /\ k.v.x \in Nat /\ k.v.x <= Cols /\ Cols \in Nat
    BY Cursor, Sizes
  <2> HIDE DEF r
  <2> QED
    BY <1>1, <2>1
<1>3. ASSUME NEW r \in Row, NEW i \in Col
      PROVE  /\ k.v.origin + r * Cols + i \in Nat
             /\ k.v.origin <= k.v.origin + r * Cols + i /\ k.v.origin + r * Cols + i < k.v.scr_end
             /\ k.v.pos <= k.v.origin + r * Cols + i <=> r > k.v.y \/ (r = k.v.y /\ i >= k.v.x)
  <2> DEFINE R == r * Cols
  <2>1. R \in Nat /\ R + Cols <= screen_size /\ i \in Nat /\ i < Cols /\ Cols \in Nat
    BY Place, Sizes DEF Col
  <2>2. k.v.pos <= k.v.origin + R + i <=> r > k.v.y \/ (r = k.v.y /\ i >= k.v.x)
    BY <1>1, PlaceOrder
  <2> HIDE DEF R
  <2>3. k.v.origin + R + i \in Nat /\ k.v.origin <= k.v.origin + R + i /\ k.v.origin + R + i < k.v.scr_end
    BY <1>1, <2>1
  <2> QED
    BY <2>2, <2>3 DEF R
<1> DEFINE g == Grid(k)
<1>4. g.x = k.v.x /\ g.y = k.v.y /\ g.cell = Cells(k)
  BY GridMoves
<1> HIDE DEF g
<1>5. CASE n = 0
  <2> DEFINE E == {p \in Row \X Col : p[1] > k.v.y \/ (p[1] = k.v.y /\ p[2] >= k.v.x)}
             c == k.v.scr_end - k.v.pos
  <2>1. csi_J(k, n) = Fill(k, k.v.pos, c)
    BY <1>5 DEF csi_J
  <2>2. c \in Int /\ k.v.start <= k.v.pos /\ k.v.pos + c <= k.v.end /\ k.v.pos + c - 1 = k.v.scr_end - 1
    BY <1>1, <1>2
  <2>3. Covers(k, k.v.pos, c, E)
    <3> SUFFICES ASSUME NEW r \in Row, NEW i \in Col
                 PROVE  k.v.origin + r * Cols + i \in k.v.pos..k.v.pos + c - 1 <=> <<r, i>> \in E
      BY DEF Covers
    <3> DEFINE a == k.v.origin + r * Cols + i
    <3>1. a \in Nat /\ a < k.v.scr_end /\ (k.v.pos <= a <=> r > k.v.y \/ (r = k.v.y /\ i >= k.v.x))
      BY <1>3
    <3>2. <<r, i>> \in E <=> r > k.v.y \/ (r = k.v.y /\ i >= k.v.x)
      OBVIOUS
    <3> HIDE DEF a, E
    <3>3. a \in k.v.pos..k.v.scr_end - 1 <=> k.v.pos <= a
      BY <1>1, <3>1
    <3>4. a \in k.v.pos..k.v.pos + c - 1 <=> <<r, i>> \in E
      BY <2>2, <3>1, <3>2, <3>3
    <3> QED
      BY <3>4 DEF a
  <2>4. S!EraseDisplay(g, n) = [g EXCEPT !.cell = ErasedIn(k, E)]
    <3>1. S!EraseDisplay(g, n) =
            [g EXCEPT !.cell = [r \in Row |-> [i \in Col |-> IF S!After(g, r, i) THEN Erased ELSE g.cell[r][i]]]]
      BY <1>5 DEF S!EraseDisplay, S!Erase, S!Row, S!Col, Row, Col
    <3>2. [r \in Row |-> [i \in Col |-> IF S!After(g, r, i) THEN Erased ELSE g.cell[r][i]]] = ErasedIn(k, E)
      BY <1>4 DEF S!After, ErasedIn
    <3> QED
      BY <3>1, <3>2
  <2> HIDE DEF E, c
  <2>5. Does(k, Fill(k, k.v.pos, c), Wiped(k, E))
    BY <1>1, <2>2, <2>3, FillCells
  <2> QED
    BY <2>1, <2>4, <2>5 DEF g, Wiped
<1>6. CASE n = 1
  <2> DEFINE E == {p \in Row \X Col : ~(p[1] > k.v.y \/ (p[1] = k.v.y /\ p[2] >= k.v.x))}
             c == k.v.pos - k.v.origin
  <2>1. csi_J(k, n) = Fill(k, k.v.origin, c)
    BY <1>6 DEF csi_J
  <2>2. c \in Int /\ k.v.origin + c <= k.v.end /\ k.v.origin + c - 1 = k.v.pos - 1
    BY <1>1, <1>2
  <2>3. Covers(k, k.v.origin, c, E)
    <3> SUFFICES ASSUME NEW r \in Row, NEW i \in Col
                 PROVE  k.v.origin + r * Cols + i \in k.v.origin..k.v.origin + c - 1 <=> <<r, i>> \in E
      BY DEF Covers
    <3> DEFINE a == k.v.origin + r * Cols + i
    <3>1. a \in Nat /\ k.v.origin <= a /\ (k.v.pos <= a <=> r > k.v.y \/ (r = k.v.y /\ i >= k.v.x))
      BY <1>3
    <3>2. <<r, i>> \in E <=> ~(r > k.v.y \/ (r = k.v.y /\ i >= k.v.x))
      OBVIOUS
    <3> HIDE DEF a, E
    <3>3. a \in k.v.origin..k.v.pos - 1 <=> ~(k.v.pos <= a)
      BY <1>1, <3>1
    <3>4. a \in k.v.origin..k.v.origin + c - 1 <=> <<r, i>> \in E
      BY <2>2, <3>1, <3>2, <3>3
    <3> QED
      BY <3>4 DEF a
  <2>4. S!EraseDisplay(g, n) = [g EXCEPT !.cell = ErasedIn(k, E)]
    <3>1. S!EraseDisplay(g, n) =
            [g EXCEPT !.cell = [r \in Row |-> [i \in Col |-> IF ~S!After(g, r, i) THEN Erased ELSE g.cell[r][i]]]]
      BY <1>6 DEF S!EraseDisplay, S!Erase, S!Row, S!Col, Row, Col
    <3>2. [r \in Row |-> [i \in Col |-> IF ~S!After(g, r, i) THEN Erased ELSE g.cell[r][i]]] = ErasedIn(k, E)
      BY <1>4 DEF S!After, ErasedIn
    <3> QED
      BY <3>1, <3>2
  <2> HIDE DEF E, c
  <2>5. Does(k, Fill(k, k.v.origin, c), Wiped(k, E))
    BY <1>1, <2>2, <2>3, FillCells
  <2> QED
    BY <2>1, <2>4, <2>5 DEF g, Wiped
<1>7. CASE n = 2
  <2> DEFINE E == Row \X Col
  <2>1. csi_J(k, n) = Fill(k, k.v.origin, screen_size)
    BY <1>7 DEF csi_J, screen_size
  <2>2. k.v.origin + screen_size - 1 = k.v.scr_end - 1
    BY <1>1
  <2>3. Covers(k, k.v.origin, screen_size, E)
    <3> SUFFICES ASSUME NEW r \in Row, NEW i \in Col
                 PROVE  k.v.origin + r * Cols + i \in k.v.origin..k.v.origin + screen_size - 1
      BY DEF Covers
    <3> DEFINE a == k.v.origin + r * Cols + i
    <3>1. a \in Nat /\ k.v.origin <= a /\ a < k.v.scr_end
      BY <1>3
    <3> HIDE DEF a
    <3>2. a \in k.v.origin..k.v.origin + screen_size - 1
      BY <1>1, <2>2, <3>1
    <3> QED
      BY <3>2 DEF a
  <2>4. S!EraseDisplay(g, n) = [g EXCEPT !.cell = ErasedIn(k, E)]
    <3>1. S!EraseDisplay(g, n) = [g EXCEPT !.cell = [r \in Row |-> [i \in Col |-> Erased]]]
      BY <1>7 DEF S!EraseDisplay, S!Erase, S!Row, S!Col, Row, Col
    <3>2. [r \in Row |-> [i \in Col |-> Erased]] = ErasedIn(k, E)
      BY DEF ErasedIn
    <3> QED
      BY <3>1, <3>2
  <2> HIDE DEF E
  <2>5. Does(k, Fill(k, k.v.origin, screen_size), Wiped(k, E))
    BY <1>1, <2>3, FillCells
  <2> QED
    BY <2>1, <2>4, <2>5 DEF g, Wiped
<1> QED
  BY <1>5, <1>6, <1>7

(* The places from column x to column z of the cursor's line *)
LinePart(k, x, z) == {p \in Row \X Col : p[1] = k.v.y /\ x <= p[2] /\ p[2] < z}

(* Addresses that follow each other on the line of the cursor *)
LEMMA LineCovers ==
    ASSUME NEW STATE k, Sound(k), NEW STATE x, x \in 0..Cols, NEW STATE z, z \in 0..Cols, x <= z,
           NEW STATE at, at = k.v.origin + k.v.y * Cols + x, NEW STATE n, n = z - x
    PROVE  /\ at \in Int /\ n \in Int /\ k.v.start <= at /\ at + n <= k.v.end
           /\ Covers(k, at, n, LinePart(k, x, z))
<1> DEFINE Q == k.v.y * Cols
           o == k.v.origin
<1>1. /\ Q \in Nat /\ Q + Cols <= screen_size /\ o \in Nat /\ o + screen_size <= k.v.end /\ k.v.start <= o
      /\ k.v.start \in Nat /\ k.v.end \in Nat /\ k.v.y \in Nat /\ k.v.y <= Lines - 1
      /\ Cols \in Nat /\ screen_size \in Nat /\ x \in Nat /\ z \in Nat /\ z <= Cols /\ Lines \in Nat
  BY Cursor, Sizes
<1>2. at = o + Q + x
  OBVIOUS
<1> HIDE DEF Q, o
<1>3. at \in Int /\ n \in Int /\ k.v.start <= at /\ at + n <= k.v.end /\ at + n - 1 = o + Q + z - 1
  BY <1>1, <1>2
<1>4. ASSUME NEW r \in Row, NEW i \in Col
      PROVE  k.v.origin + r * Cols + i \in at..at + n - 1 <=> <<r, i>> \in LinePart(k, x, z)
  <2> DEFINE R == r * Cols
  <2>1. /\ R \in Nat /\ r \in Int /\ i \in Nat /\ i < Cols
        /\ (r < k.v.y => R + Cols <= Q) /\ (k.v.y < r => Q + Cols <= R) /\ (r = k.v.y => R = Q)
    <3>1. r \in Int /\ k.v.y \in Int
      BY <1>1, Sizes DEF Row
    <3> QED
      BY <3>1, Place, RowOrder, Sizes DEF Col, Q
  <2>2. <<r, i>> \in LinePart(k, x, z) <=> r = k.v.y /\ x <= i /\ i < z
    BY DEF LinePart
  <2> HIDE DEF R
  <2>3. o + R + i \in at..o + Q + z - 1 <=> r = k.v.y /\ x <= i /\ i < z
    <3>1. CASE r < k.v.y
      BY <1>1, <1>2, <2>1, <3>1
    <3>2. CASE r = k.v.y
      BY <1>1, <1>2, <2>1, <3>2
    <3>3. CASE r > k.v.y
      BY <1>1, <1>2, <2>1, <3>3
    <3> QED
      BY <1>1, <2>1, <3>1, <3>2, <3>3
  <2> QED
    BY <1>3, <2>2, <2>3 DEF R, o
<1> QED
  BY <1>3, <1>4 DEF Covers

(* csi_K is EraseLine, or nothing right of the last column. *)
LEMMA CsiKOk ==
    ASSUME NEW STATE k, Sound(k), NEW STATE n, n \in 0..2
    PROVE  csi_K(k, n) = k \/ Does(k, csi_K(k, n), S!EraseLine(Grid(k), n))
<1> DEFINE g == Grid(k)
<1>1. g.x = k.v.x /\ g.y = k.v.y /\ g.cell = Cells(k)
  BY GridMoves
<1>2. /\ k.v.pos = k.v.origin + k.v.y * Cols + k.v.x
      /\ k.v.x \in Nat /\ k.v.x <= Cols /\ k.v.x \in 0..Cols /\ Cols \in Nat /\ Cols \in 0..Cols /\ 0 \in 0..Cols
  BY Cursor, Sizes
<1>3. k.v.pos - k.v.x = k.v.origin + k.v.y * Cols + 0
  <2> DEFINE Q == k.v.y * Cols
  <2>1. k.v.pos = k.v.origin + Q + k.v.x /\ Q \in Nat /\ k.v.origin \in Nat
    BY Cursor
  <2> HIDE DEF Q
  <2>2. k.v.pos - k.v.x = k.v.origin + Q + 0
    BY <1>2, <2>1
  <2> QED
    BY <2>2 DEF Q
<1> HIDE DEF g
<1>4. CASE n = 0
  <2>1. CASE k.v.x >= Cols
    BY <1>4, <2>1 DEF csi_K
  <2>2. CASE ~(k.v.x >= Cols)
    <3> DEFINE c == Cols - k.v.x
               E == LinePart(k, k.v.x, Cols)
    <3>1. csi_K(k, n) = Fill(k, k.v.pos, c)
      BY <1>4, <2>2 DEF csi_K
    <3>2. /\ k.v.pos \in Int /\ c \in Int /\ k.v.start <= k.v.pos /\ k.v.pos + c <= k.v.end
          /\ Covers(k, k.v.pos, c, E)
      BY <1>2, LineCovers
    <3>3. S!EraseLine(g, n) = [g EXCEPT !.cell = ErasedIn(k, E)]
      <4>1. S!EraseLine(g, n) =
              [g EXCEPT !.cell = [r \in Row |-> [i \in Col |-> IF r = g.y /\ i >= g.x THEN Erased ELSE g.cell[r][i]]]]
        BY <1>4 DEF S!EraseLine, S!Erase, S!Row, S!Col, Row, Col
      <4>2. \A r \in Row, i \in Col : <<r, i>> \in E <=> r = k.v.y /\ i >= k.v.x
        BY <1>2 DEF LinePart, Col
      <4> HIDE DEF E
      <4>3. [r \in Row |-> [i \in Col |-> IF r = g.y /\ i >= g.x THEN Erased ELSE g.cell[r][i]]] = ErasedIn(k, E)
        BY <1>1, <4>2 DEF ErasedIn
      <4> QED
        BY <4>1, <4>3
    <3> HIDE DEF E, c
    <3>4. Does(k, Fill(k, k.v.pos, c), Wiped(k, E))
      BY <3>2, FillCells
    <3> QED
      BY <3>1, <3>3, <3>4 DEF g, Wiped
  <2> QED
    BY <2>1, <2>2
<1>5. CASE n = 1
  <2> DEFINE c == k.v.x
             at == k.v.pos - k.v.x
             E == LinePart(k, 0, k.v.x)
  <2>1. csi_K(k, n) = Fill(k, at, c)
    BY <1>2, <1>5 DEF csi_K
  <2>2. at \in Int /\ c \in Int /\ k.v.start <= at /\ at + c <= k.v.end /\ Covers(k, at, c, E)
    <3>1. k.v.x = k.v.x - 0 /\ 0 <= k.v.x
      BY <1>2
    <3>2. at = k.v.origin + k.v.y * Cols + 0
      BY <1>3
    <3> HIDE DEF at
    <3> QED
      BY <1>2, <3>1, <3>2, LineCovers
  <2>3. S!EraseLine(g, n) = [g EXCEPT !.cell = ErasedIn(k, E)]
    <3>1. S!EraseLine(g, n) =
            [g EXCEPT !.cell = [r \in Row |-> [i \in Col |-> IF r = g.y /\ i < g.x THEN Erased ELSE g.cell[r][i]]]]
      BY <1>5 DEF S!EraseLine, S!Erase, S!Row, S!Col, Row, Col
    <3>2. \A r \in Row, i \in Col : <<r, i>> \in E <=> r = k.v.y /\ i < k.v.x
      BY <1>2 DEF LinePart, Col
    <3> HIDE DEF E
    <3>3. [r \in Row |-> [i \in Col |-> IF r = g.y /\ i < g.x THEN Erased ELSE g.cell[r][i]]] = ErasedIn(k, E)
      BY <1>1, <3>2 DEF ErasedIn
    <3> QED
      BY <3>1, <3>3
  <2> HIDE DEF E, c, at
  <2>4. Does(k, Fill(k, at, c), Wiped(k, E))
    BY <2>2, FillCells
  <2> QED
    BY <2>1, <2>3, <2>4 DEF g, Wiped
<1>6. CASE n = 2
  <2> DEFINE at == k.v.pos - k.v.x
             E == LinePart(k, 0, Cols)
  <2>1. csi_K(k, n) = Fill(k, at, Cols)
    BY <1>6 DEF csi_K
  <2>2. at \in Int /\ Cols \in Int /\ k.v.start <= at /\ at + Cols <= k.v.end /\ Covers(k, at, Cols, E)
    <3>1. Cols = Cols - 0 /\ 0 <= Cols
      BY <1>2
    <3>2. at = k.v.origin + k.v.y * Cols + 0
      BY <1>3
    <3> HIDE DEF at
    <3> QED
      BY <1>2, <3>1, <3>2, LineCovers
  <2>3. S!EraseLine(g, n) = [g EXCEPT !.cell = ErasedIn(k, E)]
    <3>1. S!EraseLine(g, n) =
            [g EXCEPT !.cell = [r \in Row |-> [i \in Col |-> IF r = g.y THEN Erased ELSE g.cell[r][i]]]]
      BY <1>6 DEF S!EraseLine, S!Erase, S!Row, S!Col, Row, Col
    <3>2. \A r \in Row, i \in Col : <<r, i>> \in E <=> r = k.v.y
      BY <1>2 DEF LinePart, Col
    <3> HIDE DEF E
    <3>3. [r \in Row |-> [i \in Col |-> IF r = g.y THEN Erased ELSE g.cell[r][i]]] = ErasedIn(k, E)
      BY <1>1, <3>2 DEF ErasedIn
    <3> QED
      BY <3>1, <3>3
  <2> HIDE DEF E, at
  <2>4. Does(k, Fill(k, at, Cols), Wiped(k, E))
    BY <2>2, FillCells
  <2> QED
    BY <2>1, <2>3, <2>4 DEF g, Wiped
<1> QED
  BY <1>4, <1>5, <1>6

-----------------------------------------------------------------------------
(* The line of the cursor becomes L, the others stay. *)
LEMMA LineOk ==
    ASSUME NEW STATE k, Sound(k), NEW STATE m, Stays(k, m), NEW STATE L,
           \A i \in Col : Cell(m, k.v.y, i) = L[i], L = [i \in Col |-> L[i]],
           \A r \in Row, i \in Col : r # k.v.y => Cell(m, r, i) = Cell(k, r, i)
    PROVE  Does(k, m, [Grid(k) EXCEPT !.cell[k.v.y] = L])
<1> DEFINE F == [Cells(k) EXCEPT ![k.v.y] = L]
<1>1. k.v.y \in Row
  BY Cursor DEF Row
<1>2. ASSUME NEW r \in Row PROVE Cells(m)[r] = F[r]
  <2>1. /\ Cells(m)[r] = [i \in Col |-> Cell(m, r, i)] /\ Cells(k)[r] = [i \in Col |-> Cell(k, r, i)]
        /\ Cells(k) = [q \in Row |-> Cells(k)[q]]
    BY DEF Cells
  <2>2. CASE r = k.v.y
    BY <2>1, <2>2
  <2>3. CASE r # k.v.y
    BY <2>1, <2>3
  <2> QED
    BY <2>2, <2>3
<1>3. F = [r \in Row |-> F[r]] /\ Cells(m) = [r \in Row |-> Cells(m)[r]]
  BY DEF Cells
<1>4. [Grid(k) EXCEPT !.cell[k.v.y] = L] = [Grid(k) EXCEPT !.cell = F]
  BY DEF Grid
<1> HIDE DEF F
<1>5. Cells(m) = F
  BY <1>2, <1>3
<1>6. Does(k, m, [Grid(k) EXCEPT !.cell = F])
  BY <1>5, StaysGrid
<1> QED
  BY <1>4, <1>6

(* The addresses of the cursor's line, and the others *)
LineStart(k) == k.v.origin + k.v.y * Cols
OnLine(k, a) == LineStart(k) <= a /\ a < LineStart(k) + Cols

(* An operation writes on that line only, and leaves L there. *)
LineOnly(k, m) == \A a \in Address : ~OnLine(k, a) => m.mem[a] = k.mem[a]
LineIs(k, m, L) == \A i \in Col : m.mem[LineStart(k) + i] = L[i]

(* The line of the cursor in memory, apart from the others *)
LEMMA LinePlaces ==
    ASSUME NEW STATE k, Sound(k)
    PROVE  /\ LineStart(k) \in Nat /\ k.v.start <= LineStart(k) /\ LineStart(k) + Cols <= k.v.end
           /\ k.v.pos = LineStart(k) + k.v.x
           /\ k.v.start \in Nat /\ k.v.end \in Nat /\ k.v.end <= MemEnd /\ MemEnd \in Nat /\ Cols \in Nat
           /\ k.v.x \in Nat /\ k.v.x <= Cols /\ Address = 0..MemEnd - 1
           /\ \A i \in Col : i \in Nat /\ i < Cols /\ Cell(k, k.v.y, i) = k.mem[LineStart(k) + i]
           /\ \A r \in Row, i \in Col : r # k.v.y => ~OnLine(k, k.v.origin + r * Cols + i)
<1> DEFINE Q == k.v.y * Cols
           o == k.v.origin
           p == LineStart(k)
<1>1. /\ Q \in Nat /\ Q + Cols <= screen_size /\ o \in Nat /\ o + screen_size <= k.v.end /\ k.v.start <= o
      /\ k.v.start \in Nat /\ k.v.end \in Nat /\ k.v.y \in Nat /\ k.v.y <= Lines - 1 /\ k.v.pos = o + Q + k.v.x
      /\ Cols \in Nat /\ screen_size \in Nat /\ k.v.x \in Nat /\ k.v.x <= Cols /\ Lines \in Nat
  BY Cursor, Sizes
<1>2. k.v.end <= MemEnd /\ MemEnd \in Nat /\ Address = 0..MemEnd - 1
  BY SoundFields, Buffers DEF InPlace
<1>3. p = o + Q /\ \A i \in Col : i \in Nat /\ i < Cols /\ Cell(k, k.v.y, i) = k.mem[p + i]
  BY Sizes DEF Cell, Col, LineStart
<1>4. ASSUME NEW r \in Row, NEW i \in Col, r # k.v.y
      PROVE  ~OnLine(k, k.v.origin + r * Cols + i)
  <2> DEFINE R == r * Cols
  <2>1. R \in Nat /\ i \in Nat /\ i < Cols /\ (r < k.v.y => R + Cols <= Q) /\ (k.v.y < r => Q + Cols <= R) /\ r \in Int
    <3>1. r \in Int /\ k.v.y \in Int
      BY <1>1, Sizes DEF Row
    <3> QED
      BY <3>1, Place, RowOrder, Sizes DEF Col
  <2> HIDE DEF R, Q, o, p
  <2>3. ~(p <= o + R + i /\ o + R + i < p + Cols)
    BY <1>1, <1>3, <1>4, <2>1
  <2> QED
    BY <2>3 DEF R, o, OnLine, p
<1> HIDE DEF Q, o, p
<1>5. p \in Nat /\ k.v.start <= p /\ p + Cols <= k.v.end /\ k.v.pos = p + k.v.x
  BY <1>1, <1>3
<1> QED
  BY <1>1, <1>2, <1>3, <1>4, <1>5 DEF p

(* What is written on that line is the new text of it. *)
LEMMA LineWritten ==
    ASSUME NEW STATE k, Sound(k), NEW STATE m, Inked(k, m), LineOnly(k, m),
           NEW STATE L, L = [i \in Col |-> L[i]], LineIs(k, m, L)
    PROVE  Does(k, m, [Grid(k) EXCEPT !.cell[k.v.y] = L])
<1> DEFINE p == LineStart(k)
<1>1. p \in Nat /\ k.v.start <= p /\ p + Cols <= k.v.end /\ k.v.start \in Nat /\ k.v.end \in Nat /\ Cols \in Nat
  BY LinePlaces
<1>2. \A r \in Row, i \in Col : r # k.v.y => ~OnLine(k, k.v.origin + r * Cols + i)
  BY LinePlaces
<1>3. m.v = k.v
  BY DEF Inked
<1>4. Stays(k, m)
  <2>1. Outside(k, m, k.v.start, k.v.end)
    <3> SUFFICES ASSUME NEW a \in Address, a \notin k.v.start..k.v.end - 1 PROVE m.mem[a] = k.mem[a]
      BY DEF Outside
    <3>1. a \in Nat
      BY Buffers
    <3> HIDE DEF p
    <3>2. ~(p <= a /\ a < p + Cols)
      BY <1>1, <3>1
    <3>3. ~OnLine(k, a)
      BY <3>2 DEF OnLine, p
    <3> QED
      BY <3>3 DEF LineOnly
  <2>2. Sound(m) /\ Keeps(k, m)
    BY <2>1, InkedSound
  <2> QED
    BY <1>3, <2>2 DEF Stays, SameCursor
<1>5. ASSUME NEW i \in Col PROVE Cell(m, k.v.y, i) = L[i]
  <2>1. Cell(m, k.v.y, i) = m.mem[LineStart(k) + i]
    BY <1>3 DEF Cell, LineStart
  <2> QED
    BY <2>1 DEF LineIs
<1>6. ASSUME NEW r \in Row, NEW i \in Col, r # k.v.y PROVE Cell(m, r, i) = Cell(k, r, i)
  <2> DEFINE a == k.v.origin + r * Cols + i
  <2>1. a \in Address /\ Cell(m, r, i) = m.mem[a] /\ Cell(k, r, i) = k.mem[a]
    BY <1>3, PlaceIn DEF Cell
  <2>2. ~OnLine(k, a)
    BY <1>2, <1>6
  <2> HIDE DEF a
  <2> QED
    BY <2>1, <2>2 DEF LineOnly
<1> QED
  BY <1>4, <1>5, <1>6, LineOk

(* What a line of characters becomes when nr places are inserted or deleted *)
(* at the cursor, in terms of the memory.                                  *)
Opened(k, nr, i) ==
    IF i < k.v.x THEN k.mem[LineStart(k) + i]
    ELSE IF i - nr >= k.v.x THEN k.mem[LineStart(k) + (i - nr)] ELSE Erased
Closed(k, nr, i) ==
    IF i < k.v.x THEN k.mem[LineStart(k) + i]
    ELSE IF i + nr < Cols THEN k.mem[LineStart(k) + (i + nr)] ELSE Erased

(* The line that InsertChars and DeleteChars leave *)
LEMMA InsertedLine ==
    ASSUME NEW STATE k, Sound(k), NEW STATE nr, nr \in 1..Cols, NEW i \in Col
    PROVE  S!Shifted(Grid(k), i, -nr) = Opened(k, nr, i) /\ S!Shifted(Grid(k), i, nr) = Closed(k, nr, i)
<1> DEFINE x == k.v.x
           p == LineStart(k)
           C == Cells(k)[k.v.y]
<1>1. Grid(k).x = x /\ Grid(k).y = k.v.y /\ Grid(k).cell = Cells(k) /\ k.v.y \in Row
  BY GridMoves, Cursor DEF Row
<1>2. x \in Nat /\ x <= Cols /\ Cols \in Nat /\ nr \in Nat /\ nr >= 1 /\ i \in Nat /\ i < Cols
  BY LinePlaces
<1>3. \A j \in Col : C[j] = k.mem[p + j]
  BY <1>1, LinePlaces DEF Cells
<1>4. S!Shifted(Grid(k), i, -nr) = IF i < x THEN C[i] ELSE IF i + (-nr) \in x..Cols - 1 THEN C[i + (-nr)] ELSE Erased
  BY <1>1 DEF S!Shifted
<1>5. S!Shifted(Grid(k), i, nr) = IF i < x THEN C[i] ELSE IF i + nr \in x..Cols - 1 THEN C[i + nr] ELSE Erased
  BY <1>1 DEF S!Shifted
<1> HIDE DEF x, p, C
<1>6. i + (-nr) = i - nr /\ (i - nr \in x..Cols - 1 <=> i - nr >= x) /\ (i - nr >= x => i - nr \in Col)
  BY <1>2 DEF Col
<1>7. ~(i < x) => (i + nr \in x..Cols - 1 <=> i + nr < Cols) /\ (i + nr < Cols => i + nr \in Col)
  BY <1>2 DEF Col
<1> DEFINE sl == S!Shifted(Grid(k), i, -nr)
           sr == S!Shifted(Grid(k), i, nr)
<1> HIDE DEF sl, sr
<1>8. sl = IF i < x THEN k.mem[p + i] ELSE IF i - nr >= x THEN k.mem[p + (i - nr)] ELSE Erased
  <2>1. CASE i < x
    BY <1>3, <1>4, <2>1 DEF sl
  <2>2. CASE ~(i < x) /\ i - nr >= x
    BY <1>3, <1>4, <1>6, <2>2 DEF sl
  <2>3. CASE ~(i < x) /\ ~(i - nr >= x)
    BY <1>3, <1>4, <1>6, <2>3 DEF sl
  <2> QED
    BY <2>1, <2>2, <2>3
<1>9. sr = IF i < x THEN k.mem[p + i] ELSE IF i + nr < Cols THEN k.mem[p + (i + nr)] ELSE Erased
  <2>1. CASE i < x
    BY <1>3, <1>5, <2>1 DEF sr
  <2>2. CASE ~(i < x) /\ i + nr < Cols
    BY <1>3, <1>5, <1>7, <2>2 DEF sr
  <2>3. CASE ~(i < x) /\ ~(i + nr < Cols)
    BY <1>3, <1>5, <1>7, <2>3 DEF sr
  <2> QED
    BY <2>1, <2>2, <2>3
<1> QED
  BY <1>8, <1>9 DEF sl, sr, x, p, Opened, Closed

(* The rest of the line is wiped. *)
LEMMA RestWiped ==
    ASSUME NEW STATE k, Sound(k), NEW STATE m, m = Fill(k, k.v.pos, Cols - k.v.x)
    PROVE  /\ Inked(k, m) /\ LineOnly(k, m)
           /\ \A i \in Col : m.mem[LineStart(k) + i] = IF i < k.v.x THEN k.mem[LineStart(k) + i] ELSE Erased
<1> DEFINE x == k.v.x
           p == LineStart(k)
           rest == Cols - x
           pos == k.v.pos
<1>1. /\ p \in Nat /\ p + Cols <= MemEnd /\ pos = p + x /\ MemEnd \in Nat /\ Cols \in Nat
      /\ x \in Nat /\ x <= Cols /\ Address = 0..MemEnd - 1
  BY LinePlaces
<1>2. Inked(k, m) /\ Filled(k, m, pos, rest)
  BY SoundFields, FillIs
<1> HIDE DEF x, p, pos
<1>3. \A a \in Address : m.mem[a] = IF a \in pos..pos + rest - 1 THEN Erased ELSE k.mem[a]
  BY <1>2 DEF Filled
<1>4. \A a \in Nat : a \in pos..pos + rest - 1 <=> p + x <= a /\ a < p + Cols
  BY <1>1
<1>5. ASSUME NEW a \in Address, ~OnLine(k, a) PROVE m.mem[a] = k.mem[a]
  <2>1. a \in Nat /\ ~(p <= a /\ a < p + Cols)
    BY <1>1, <1>5 DEF OnLine, p
  <2>2. ~(p + x <= a /\ a < p + Cols)
    BY <1>1, <2>1
  <2> QED
    BY <1>3, <1>4, <2>1, <2>2
<1>6. ASSUME NEW i \in Col PROVE m.mem[p + i] = IF i < x THEN k.mem[p + i] ELSE Erased
  <2> DEFINE a == p + i
  <2>1. i \in Nat /\ i < Cols
    BY <1>1 DEF Col
  <2>2. a \in Nat /\ a \in Address /\ (p + x <= a /\ a < p + Cols <=> ~(i < x))
    BY <1>1, <2>1
  <2> HIDE DEF a
  <2>3. m.mem[a] = IF i < x THEN k.mem[a] ELSE Erased
    BY <1>3, <1>4, <2>2
  <2> QED
    BY <2>3 DEF a
<1> QED
  BY <1>2, <1>5, <1>6 DEF LineOnly, x, p

(* insert_char, nr times, is InsertChars. *)
LEMMA InsertCharOk ==
    ASSUME NEW STATE k, Sound(k), NEW STATE nr, nr \in 1..Cols
    PROVE  Does(k, insert_char(k, nr), S!InsertChars(Grid(k), nr))
<1> DEFINE x == k.v.x
           p == LineStart(k)
           pos == k.v.pos
           rest == Cols - k.v.x
           L == [c \in Col |-> Opened(k, nr, c)]
           m == insert_char(k, nr)
<1>1. /\ p \in Nat /\ p + Cols <= MemEnd /\ pos = p + x /\ MemEnd \in Nat /\ Cols \in Nat
      /\ x \in Nat /\ x <= Cols /\ Address = 0..MemEnd - 1 /\ nr \in Nat /\ nr >= 1
  BY LinePlaces
<1>2. \A i \in Col : i \in Nat /\ i < Cols
  BY <1>1 DEF Col
<1>3. S!InsertChars(Grid(k), nr) = [Grid(k) EXCEPT !.cell[k.v.y] = L]
  <2>1. [c \in Col |-> S!Shifted(Grid(k), c, -nr)] = L
    BY InsertedLine
  <2>2. S!InsertChars(Grid(k), nr) = [Grid(k) EXCEPT !.cell[k.v.y] = [c \in Col |-> S!Shifted(Grid(k), c, -nr)]]
    BY GridMoves DEF S!InsertChars, S!Col, Col
  <2> HIDE DEF L
  <2> QED
    BY <2>1, <2>2
<1>4. Inked(k, m) /\ LineOnly(k, m) /\ \A i \in Col : m.mem[p + i] = Opened(k, nr, i)
  <2>1. CASE nr >= rest
    <3>1. m = Fill(k, k.v.pos, Cols - k.v.x)
      BY <2>1 DEF insert_char
    <3> HIDE DEF m
    <3>2. /\ Inked(k, m) /\ LineOnly(k, m)
          /\ \A i \in Col : m.mem[p + i] = IF i < x THEN k.mem[p + i] ELSE Erased
      BY <3>1, RestWiped
    <3>3. ASSUME NEW i \in Col PROVE m.mem[p + i] = Opened(k, nr, i)
      <4>1. Opened(k, nr, i) = IF i < x THEN k.mem[p + i] ELSE Erased
        <5> HIDE DEF x, p
        <5>1. i < x \/ ~(i - nr >= x)
          BY <1>1, <1>2, <2>1 DEF x
        <5> QED
          BY <5>1 DEF Opened, x, p
      <4> QED
        BY <3>2, <4>1
    <3> QED
      BY <3>2, <3>3
  <2>2. CASE ~(nr >= rest)
    <3> DEFINE to == k.v.pos + nr
               from == k.v.pos
               cnt == rest - nr
               at == k.v.pos
               n == Move(k, to, from, cnt)
    <3>1. m = Fill(n, at, nr)
      BY <2>2 DEF insert_char
    <3>2. k.v.x = x /\ rest = Cols - x /\ k.v.pos = pos
      OBVIOUS
    <3> HIDE DEF x, p, pos
    <3>3. /\ rest \in Nat /\ nr < rest /\ cnt \in Int /\ to \in Int /\ from \in Int
          /\ 0 <= from /\ from + cnt <= MemEnd
      BY <1>1, <2>2, <3>2
    <3> HIDE DEF m, n, rest
    <3>4. Inked(k, n) /\ Moved(k, n, to, from, cnt)
      <4> HIDE DEF to, from, cnt
      <4> QED
        BY <3>3, SoundFields, MoveIs DEF n
    <3>5. Inked(n, m) /\ Filled(n, m, at, nr)
      BY <3>1, <3>4, FillIs DEF Inked
    <3>6. Inked(k, m)
      BY <3>4, <3>5 DEF Inked
    <3>7. ASSUME NEW a \in Address
          PROVE  m.mem[a] = IF p + x <= a /\ a < p + x + nr THEN Erased
                            ELSE IF p + x + nr <= a /\ a < p + Cols THEN k.mem[a - nr] ELSE k.mem[a]
      <4>1. n.mem[a] = IF a \in to..to + cnt - 1 THEN k.mem[from + a - to] ELSE k.mem[a]
        BY <3>4 DEF Moved
      <4>2. m.mem[a] = IF a \in at..at + nr - 1 THEN Erased ELSE n.mem[a]
        BY <3>5 DEF Filled
      <4>3. a \in Nat
        BY <1>1
      <4>4. /\ (a \in to..to + cnt - 1 <=> p + x + nr <= a /\ a < p + Cols)
            /\ (a \in at..at + nr - 1 <=> p + x <= a /\ a < p + x + nr)
            /\ from + a - to = a - nr
        BY <1>1, <3>2, <3>3, <4>3
      <4> HIDE DEF to, from, cnt, at
      <4> QED
        BY <1>1, <3>3, <4>1, <4>2, <4>3, <4>4
    <3>8. ASSUME NEW a \in Address, ~OnLine(k, a) PROVE m.mem[a] = k.mem[a]
      <4>1. a \in Nat /\ ~(p <= a /\ a < p + Cols)
        BY <1>1, <3>8 DEF OnLine, p
      <4>2. ~(p + x <= a /\ a < p + Cols)
        BY <1>1, <4>1
      <4>3. ~(p + x <= a /\ a < p + x + nr) /\ ~(p + x + nr <= a /\ a < p + Cols)
        BY <1>1, <3>2, <3>3, <4>1, <4>2
      <4> QED
        BY <3>7, <4>3
    <3>9. ASSUME NEW i \in Col PROVE m.mem[p + i] = Opened(k, nr, i)
      <4> DEFINE a == p + i
                 b == p + (i - nr)
      <4>1. a \in Address /\ a \in Nat /\ a - nr = b
        BY <1>1, <1>2
      <4>2. /\ (p + x <= a /\ a < p + x + nr <=> ~(i < x) /\ ~(i - nr >= x))
            /\ (p + x + nr <= a /\ a < p + Cols <=> ~(i < x) /\ i - nr >= x)
        <5>1. i \in Nat /\ i < Cols /\ nr < Cols - x
          BY <1>2, <3>2, <3>3
        <5>2. a = p + i
          OBVIOUS
        <5> HIDE DEF a
        <5> QED
          BY <1>1, <5>1, <5>2
      <4>3. Opened(k, nr, i) = IF i < x THEN k.mem[a] ELSE IF i - nr >= x THEN k.mem[b] ELSE Erased
        BY DEF Opened, x, p
      <4> HIDE DEF a, b
      <4>4. m.mem[a] = IF i < x THEN k.mem[a] ELSE IF i - nr >= x THEN k.mem[b] ELSE Erased
        BY <3>7, <4>1, <4>2
      <4> QED
        BY <4>3, <4>4 DEF a
    <3> QED
      BY <3>6, <3>8, <3>9 DEF LineOnly
  <2> QED
    BY <2>1, <2>2
<1> HIDE DEF m
<1>5. L = [i \in Col |-> L[i]] /\ LineIs(k, m, L)
  BY <1>4 DEF LineIs
<1> HIDE DEF L
<1>6. Does(k, m, [Grid(k) EXCEPT !.cell[k.v.y] = L])
  BY <1>4, <1>5, LineWritten
<1> QED
  BY <1>3, <1>6 DEF m

(* delete_char, nr times, is DeleteChars. *)
LEMMA DeleteCharOk ==
    ASSUME NEW STATE k, Sound(k), NEW STATE nr, nr \in 1..Cols
    PROVE  Does(k, delete_char(k, nr), S!DeleteChars(Grid(k), nr))
<1> DEFINE x == k.v.x
           p == LineStart(k)
           pos == k.v.pos
           rest == Cols - k.v.x
           L == [c \in Col |-> Closed(k, nr, c)]
           m == delete_char(k, nr)
<1>1. /\ p \in Nat /\ p + Cols <= MemEnd /\ pos = p + x /\ MemEnd \in Nat /\ Cols \in Nat
      /\ x \in Nat /\ x <= Cols /\ Address = 0..MemEnd - 1 /\ nr \in Nat /\ nr >= 1
  BY LinePlaces
<1>2. \A i \in Col : i \in Nat /\ i < Cols
  BY <1>1 DEF Col
<1>3. S!DeleteChars(Grid(k), nr) = [Grid(k) EXCEPT !.cell[k.v.y] = L]
  <2>1. [c \in Col |-> S!Shifted(Grid(k), c, nr)] = L
    BY InsertedLine
  <2>2. S!DeleteChars(Grid(k), nr) = [Grid(k) EXCEPT !.cell[k.v.y] = [c \in Col |-> S!Shifted(Grid(k), c, nr)]]
    BY GridMoves DEF S!DeleteChars, S!Col, Col
  <2> HIDE DEF L
  <2> QED
    BY <2>1, <2>2
<1>4. Inked(k, m) /\ LineOnly(k, m) /\ \A i \in Col : m.mem[p + i] = Closed(k, nr, i)
  <2>1. CASE nr >= rest
    <3>1. m = Fill(k, k.v.pos, Cols - k.v.x)
      BY <2>1 DEF delete_char
    <3> HIDE DEF m
    <3>2. /\ Inked(k, m) /\ LineOnly(k, m)
          /\ \A i \in Col : m.mem[p + i] = IF i < x THEN k.mem[p + i] ELSE Erased
      BY <3>1, RestWiped
    <3>3. ASSUME NEW i \in Col PROVE m.mem[p + i] = Closed(k, nr, i)
      <4>1. Closed(k, nr, i) = IF i < x THEN k.mem[p + i] ELSE Erased
        <5> HIDE DEF x, p
        <5>1. i < x \/ ~(i + nr < Cols)
          BY <1>1, <1>2, <2>1 DEF x
        <5> QED
          BY <5>1 DEF Closed, x, p
      <4> QED
        BY <3>2, <4>1
    <3> QED
      BY <3>2, <3>3
  <2>2. CASE ~(nr >= rest)
    <3> DEFINE to == k.v.pos
               from == k.v.pos + nr
               cnt == rest - nr
               at == k.v.pos + rest - nr
               n == Move(k, to, from, cnt)
    <3>1. m = Fill(n, at, nr)
      BY <2>2 DEF delete_char
    <3>2. k.v.x = x /\ rest = Cols - x /\ k.v.pos = pos
      OBVIOUS
    <3> HIDE DEF x, p, pos
    <3>3. /\ rest \in Nat /\ nr < rest /\ cnt \in Int /\ to \in Int /\ from \in Int
          /\ 0 <= from /\ from + cnt <= MemEnd
      BY <1>1, <2>2, <3>2
    <3> HIDE DEF m, n, rest
    <3>4. Inked(k, n) /\ Moved(k, n, to, from, cnt)
      <4> HIDE DEF to, from, cnt
      <4> QED
        BY <3>3, SoundFields, MoveIs DEF n
    <3>5. Inked(n, m) /\ Filled(n, m, at, nr)
      BY <3>1, <3>4, FillIs DEF Inked
    <3>6. Inked(k, m)
      BY <3>4, <3>5 DEF Inked
    <3>7. ASSUME NEW a \in Address
          PROVE  m.mem[a] = IF p + Cols - nr <= a /\ a < p + Cols THEN Erased
                            ELSE IF p + x <= a /\ a < p + Cols - nr THEN k.mem[a + nr] ELSE k.mem[a]
      <4>1. n.mem[a] = IF a \in to..to + cnt - 1 THEN k.mem[from + a - to] ELSE k.mem[a]
        BY <3>4 DEF Moved
      <4>2. m.mem[a] = IF a \in at..at + nr - 1 THEN Erased ELSE n.mem[a]
        BY <3>5 DEF Filled
      <4>3. a \in Nat
        BY <1>1
      <4>4. /\ (a \in to..to + cnt - 1 <=> p + x <= a /\ a < p + Cols - nr)
            /\ (a \in at..at + nr - 1 <=> p + Cols - nr <= a /\ a < p + Cols)
            /\ from + a - to = a + nr
        <5>1. to = p + x /\ from = p + x + nr /\ cnt = Cols - x - nr /\ at = p + Cols - nr
          BY <1>1, <3>2
        <5> HIDE DEF to, from, cnt, at
        <5>2. to..to + cnt - 1 = p + x..p + Cols - nr - 1
          BY <1>1, <5>1
        <5>3. at..at + nr - 1 = p + Cols - nr..p + Cols - 1
          BY <1>1, <5>1
        <5>4. from + a - to = a + nr
          BY <1>1, <4>3, <5>1
        <5>5. /\ (a \in p + x..p + Cols - nr - 1 <=> p + x <= a /\ a < p + Cols - nr)
              /\ (a \in p + Cols - nr..p + Cols - 1 <=> p + Cols - nr <= a /\ a < p + Cols)
          BY <1>1, <4>3
        <5> QED
          BY <5>2, <5>3, <5>4, <5>5
      <4> HIDE DEF to, from, cnt, at
      <4> QED
        BY <1>1, <3>3, <4>1, <4>2, <4>3, <4>4
    <3>8. ASSUME NEW a \in Address, ~OnLine(k, a) PROVE m.mem[a] = k.mem[a]
      <4>1. a \in Nat /\ ~(p <= a /\ a < p + Cols)
        BY <1>1, <3>8 DEF OnLine, p
      <4>2. ~(p + x <= a /\ a < p + Cols)
        BY <1>1, <4>1
      <4>3. ~(p + Cols - nr <= a /\ a < p + Cols) /\ ~(p + x <= a /\ a < p + Cols - nr)
        <5>1. nr < Cols - x
          BY <3>2, <3>3
        <5> QED
          BY <1>1, <4>1, <4>2, <5>1
      <4> QED
        BY <3>7, <4>3
    <3>9. ASSUME NEW i \in Col PROVE m.mem[p + i] = Closed(k, nr, i)
      <4> DEFINE a == p + i
                 b == p + (i + nr)
      <4>1. a \in Address /\ a \in Nat /\ a + nr = b
        BY <1>1, <1>2
      <4>2. /\ (p + Cols - nr <= a /\ a < p + Cols <=> ~(i < x) /\ ~(i + nr < Cols))
            /\ (p + x <= a /\ a < p + Cols - nr <=> ~(i < x) /\ i + nr < Cols)
        <5>1. i \in Nat /\ i < Cols /\ nr < Cols - x
          BY <1>2, <3>2, <3>3
        <5>2. a = p + i
          OBVIOUS
        <5> HIDE DEF a
        <5> QED
          BY <1>1, <5>1, <5>2
      <4>3. Closed(k, nr, i) = IF i < x THEN k.mem[a] ELSE IF i + nr < Cols THEN k.mem[b] ELSE Erased
        BY DEF Closed, x, p
      <4> HIDE DEF a, b
      <4>4. m.mem[a] = IF i < x THEN k.mem[a] ELSE IF i + nr < Cols THEN k.mem[b] ELSE Erased
        BY <3>7, <4>1, <4>2
      <4> QED
        BY <4>3, <4>4 DEF a
    <3> QED
      BY <3>6, <3>8, <3>9 DEF LineOnly
  <2> QED
    BY <2>1, <2>2
<1> HIDE DEF m
<1>5. L = [i \in Col |-> L[i]] /\ LineIs(k, m, L)
  BY <1>4 DEF LineIs
<1> HIDE DEF L
<1>6. Does(k, m, [Grid(k) EXCEPT !.cell[k.v.y] = L])
  BY <1>4, <1>5, LineWritten
<1> QED
  BY <1>3, <1>6 DEF m

(* A count is brought into its bounds. *)
LEMMA ClampIs ==
    ASSUME NEW STATE n, n \in Nat, NEW STATE size, size \in Nat, size > 0
    PROVE  Clamp(n, size) \in 1..size
BY DEF Clamp

(* csi_at is InsertChars. *)
LEMMA CsiAtOk ==
    ASSUME NEW STATE k, Sound(k), NEW STATE n, n \in Nat
    PROVE  \E c \in 1..Cols : Does(k, csi_at(k, n), S!InsertChars(Grid(k), c))
<1>1. Clamp(n, Cols) \in 1..Cols
  BY ClampIs, Sizes
<1>2. Does(k, insert_char(k, Clamp(n, Cols)), S!InsertChars(Grid(k), Clamp(n, Cols)))
  BY <1>1, InsertCharOk
<1> QED
  BY <1>1, <1>2 DEF csi_at

(* csi_P is DeleteChars. *)
LEMMA CsiPOk ==
    ASSUME NEW STATE k, Sound(k), NEW STATE n, n \in Nat
    PROVE  \E c \in 1..Cols : Does(k, csi_P(k, n), S!DeleteChars(Grid(k), c))
<1>1. Clamp(n, Cols) \in 1..Cols
  BY ClampIs, Sizes
<1>2. Does(k, delete_char(k, Clamp(n, Cols)), S!DeleteChars(Grid(k), Clamp(n, Cols)))
  BY <1>1, DeleteCharOk
<1> QED
  BY <1>1, <1>2 DEF csi_P

-----------------------------------------------------------------------------
(* Every nonempty set of numbers has a least one. *)
LEMMA LeastNat ==
    ASSUME NEW T, T \subseteq Nat, T # {} PROVE \E x \in T : \A y \in T : x <= y
<1> DEFINE R == OpToRel(<, Nat)
<1>1. IsWellFoundedOn(R, Nat)
  BY NatLessThanWellFounded, Zenon
<1>2. PICK x \in T : \A y \in T : ~(<<y, x>> \in R)
  <2> HIDE DEF R
  <2> QED
    BY <1>1, WFMin
<1>3. \A y \in T : ~(y < x)
  BY <1>2 DEF OpToRel
<1> QED
  BY <1>3

(* A function can be applied to k any number of times. *)
IteratesTo(X, F, k, n) == \E h \in [0..n -> X] : h[0] = k /\ \A i \in 1..n : h[i] = F[h[i - 1]]

(* There is such a sequence of values, by induction on n. *)
LEMMA Iterates ==
    ASSUME NEW X, NEW F \in [X -> X], NEW k \in X, NEW N \in Nat
    PROVE  IteratesTo(X, F, k, N)
<1> DEFINE Bad == {n \in Nat : ~IteratesTo(X, F, k, n)}
<1>1. IteratesTo(X, F, k, 0)
  <2> DEFINE h == [i \in 0..0 |-> k]
  <2>1. h \in [0..0 -> X] /\ h[0] = k
    OBVIOUS
  <2> HIDE DEF h
  <2>2. \A i \in 1..0 : h[i] = F[h[i - 1]]
    OBVIOUS
  <2> QED
    BY <2>1, <2>2 DEF IteratesTo
<1>2. ASSUME NEW n \in Nat, IteratesTo(X, F, k, n) PROVE IteratesTo(X, F, k, n + 1)
  <2>1. PICK h \in [0..n -> X] : h[0] = k /\ \A i \in 1..n : h[i] = F[h[i - 1]]
    BY <1>2 DEF IteratesTo
  <2> DEFINE g == [i \in 0..n + 1 |-> IF i = n + 1 THEN F[h[n]] ELSE h[i]]
  <2>2. \A i \in 0..n + 1 : g[i] = IF i = n + 1 THEN F[h[n]] ELSE h[i]
    OBVIOUS
  <2>3. g \in [0..n + 1 -> X]
    OBVIOUS
  <2> HIDE DEF g
  <2>4. g[0] = k
    BY <2>1, <2>2
  <2>5. ASSUME NEW i \in 1..n + 1 PROVE g[i] = F[g[i - 1]]
    <3>1. i \in 0..n + 1 /\ i - 1 \in 0..n + 1 /\ i - 1 # n + 1
      OBVIOUS
    <3>2. CASE i = n + 1
      <4>1. i - 1 = n
        BY <3>2
      <4> QED
        BY <2>2, <3>1, <3>2, <4>1
    <3>3. CASE i # n + 1
      <4>1. i \in 1..n
        BY <3>3
      <4> QED
        BY <2>1, <2>2, <3>1, <3>3, <4>1
    <3> QED
      BY <3>2, <3>3
  <2> QED
    BY <2>3, <2>4, <2>5 DEF IteratesTo
<1> SUFFICES ASSUME Bad # {} PROVE FALSE
  OBVIOUS
<1>3. PICK b \in Bad : \A c \in Bad : b <= c
  BY LeastNat
<1>4. b \in Nat /\ b # 0 /\ ~IteratesTo(X, F, k, b)
  BY <1>1
<1>5. b - 1 \in Nat /\ b - 1 \notin Bad /\ b = b - 1 + 1
  BY <1>3, <1>4
<1>6. IteratesTo(X, F, k, b - 1)
  BY <1>5
<1>7. IteratesTo(X, F, k, (b - 1) + 1)
  BY <1>2, <1>5, <1>6
<1> QED
  BY <1>4, <1>5, <1>7

-----------------------------------------------------------------------------
(* j lines inserted at that of the cursor, or deleted *)
DownLines(k, m, j) ==
    /\ Stays(k, m)
    /\ \A r \in Row, i \in Col :
         Cell(m, r, i) = IF r < k.v.y THEN Cell(k, r, i) ELSE IF r - j >= k.v.y THEN Cell(k, r - j, i) ELSE Erased
UpLines(k, m, j) ==
    /\ Stays(k, m)
    /\ \A r \in Row, i \in Col :
         Cell(m, r, i) = IF r < k.v.y THEN Cell(k, r, i) ELSE IF r + j < Lines THEN Cell(k, r + j, i) ELSE Erased

(* No line is inserted or deleted. *)
LEMMA NoLines ==
    ASSUME NEW STATE k, Sound(k) PROVE DownLines(k, k, 0) /\ UpLines(k, k, 0)
<1>1. Stays(k, k)
  BY KeepsItself DEF Stays, SameCursor
<1>2. k.v.y \in Nat /\ Lines \in Nat
  BY Cursor, Sizes
<1>3. \A r \in Row : r - 0 = r /\ r + 0 = r /\ (r < k.v.y \/ r - 0 >= k.v.y) /\ r + 0 < Lines
  BY <1>2 DEF Row
<1> QED
  BY <1>1, <1>3 DEF DownLines, UpLines

(* insert_line once more *)
LEMMA OneMoreDown ==
    ASSUME NEW STATE k, Sound(k), NEW STATE m, NEW STATE j, j \in Nat, DownLines(k, m, j)
    PROVE  DownLines(k, insert_line(m), j + 1)
<1> DEFINE n == insert_line(m)
           y == k.v.y
<1>1. y \in Nat /\ y <= Lines - 1 /\ Lines \in Nat /\ y \in Row /\ Lines \in 0..Lines /\ y < Lines
  BY Cursor, Sizes DEF Row
<1>2. Sound(m) /\ m.v.y = y /\ Keeps(k, m) /\ SameCursor(k, m)
  BY DEF DownLines, Stays, SameCursor
<1>3. n = scrdown(m, y, Lines)
  BY <1>2 DEF insert_line
<1> HIDE DEF n, y
<1>4. Stays(m, n) /\ ScrolledDown(m, n, y, Lines)
  BY <1>1, <1>2, <1>3, ScrdownOk
<1>5. Stays(k, n)
  BY <1>2, <1>4, KeepsTrans DEF Stays, SameCursor
<1>6. ASSUME NEW r \in Row, NEW i \in Col
      PROVE  Cell(n, r, i) = IF r < y THEN Cell(k, r, i) ELSE IF r - (j + 1) >= y THEN Cell(k, r - (j + 1), i) ELSE Erased
  <2>1. r \in Nat /\ r < Lines
    BY <1>1 DEF Row
  <2>2. Cell(n, r, i) = IF r \notin y..Lines - 1 THEN Cell(m, r, i) ELSE IF r = y THEN Erased ELSE Cell(m, r - 1, i)
    BY <1>4 DEF ScrolledDown
  <2>3. \A q \in Row : Cell(m, q, i) = IF q < y THEN Cell(k, q, i) ELSE IF q - j >= y THEN Cell(k, q - j, i) ELSE Erased
    BY DEF DownLines, y
  <2>4. CASE r < y
    <3>1. r \notin y..Lines - 1
      BY <1>1, <2>1, <2>4
    <3> QED
      BY <2>2, <2>3, <2>4, <3>1
  <2>5. CASE r = y
    <3>1. r \in y..Lines - 1 /\ ~(r < y) /\ ~(r - (j + 1) >= y)
      BY <1>1, <2>1, <2>5
    <3> QED
      BY <2>2, <2>5, <3>1
  <2>6. CASE r > y
    <3>1. r \in y..Lines - 1 /\ ~(r < y) /\ r # y /\ r - 1 \in Row /\ ~(r - 1 < y) /\ (r - 1) - j = r - (j + 1)
      BY <1>1, <2>1, <2>6 DEF Row
    <3>2. Cell(n, r, i) = Cell(m, r - 1, i)
      BY <2>2, <3>1
    <3>3. Cell(m, r - 1, i) = IF (r - 1) - j >= y THEN Cell(k, (r - 1) - j, i) ELSE Erased
      BY <2>3, <3>1
    <3> QED
      BY <3>1, <3>2, <3>3
  <2> QED
    BY <1>1, <2>1, <2>4, <2>5, <2>6
<1> QED
  BY <1>5, <1>6 DEF DownLines, n, y

(* delete_line once more *)
LEMMA OneMoreUp ==
    ASSUME NEW STATE k, Sound(k), NEW STATE m, NEW STATE j, j \in Nat, UpLines(k, m, j)
    PROVE  UpLines(k, delete_line(m), j + 1)
<1> DEFINE n == delete_line(m)
           y == k.v.y
<1>1. y \in Nat /\ y <= Lines - 1 /\ Lines \in Nat /\ y \in Row /\ Lines \in 0..Lines /\ y < Lines
  BY Cursor, Sizes DEF Row
<1>2. Sound(m) /\ m.v.y = y /\ Keeps(k, m) /\ SameCursor(k, m)
  BY DEF UpLines, Stays, SameCursor
<1>3. n = scrup(m, y, Lines)
  BY <1>2 DEF delete_line
<1> HIDE DEF n, y
<1>4. Stays(m, n) /\ ScrolledUp(m, n, y, Lines)
  BY <1>1, <1>2, <1>3, ScrupOk
<1>5. Stays(k, n)
  BY <1>2, <1>4, KeepsTrans DEF Stays, SameCursor
<1>6. ASSUME NEW r \in Row, NEW i \in Col
      PROVE  Cell(n, r, i) = IF r < y THEN Cell(k, r, i) ELSE IF r + (j + 1) < Lines THEN Cell(k, r + (j + 1), i) ELSE Erased
  <2>1. r \in Nat /\ r < Lines
    BY <1>1 DEF Row
  <2>2. Cell(n, r, i) = IF r \notin y..Lines - 1 THEN Cell(m, r, i) ELSE IF r = Lines - 1 THEN Erased ELSE Cell(m, r + 1, i)
    BY <1>4 DEF ScrolledUp
  <2>3. \A q \in Row : Cell(m, q, i) = IF q < y THEN Cell(k, q, i) ELSE IF q + j < Lines THEN Cell(k, q + j, i) ELSE Erased
    BY DEF UpLines, y
  <2>4. CASE r < y
    <3>1. r \notin y..Lines - 1
      BY <1>1, <2>1, <2>4
    <3> QED
      BY <2>2, <2>3, <2>4, <3>1
  <2>5. CASE r >= y /\ r = Lines - 1
    <3>1. r \in y..Lines - 1 /\ ~(r < y) /\ ~(r + (j + 1) < Lines)
      BY <1>1, <2>1, <2>5
    <3> QED
      BY <2>2, <2>5, <3>1
  <2>6. CASE r >= y /\ r # Lines - 1
    <3>1. r \in y..Lines - 1 /\ ~(r < y) /\ r + 1 \in Row /\ ~(r + 1 < y) /\ (r + 1) + j = r + (j + 1)
      BY <1>1, <2>1, <2>6 DEF Row
    <3>2. Cell(n, r, i) = Cell(m, r + 1, i)
      BY <2>2, <2>6, <3>1
    <3>3. Cell(m, r + 1, i) = IF (r + 1) + j < Lines THEN Cell(k, (r + 1) + j, i) ELSE Erased
      BY <2>3, <3>1
    <3> QED
      BY <3>1, <3>2, <3>3
  <2> QED
    BY <1>1, <2>1, <2>4, <2>5, <2>6
<1> QED
  BY <1>5, <1>6 DEF UpLines, n, y

(* The steps of csi_L and csi_M *)
LineSteps(k, f) == f = [i \in 0..Lines |-> IF i = 0 THEN k ELSE insert_line(f[i - 1])]
LineCuts(k, f) == f = [i \in 0..Lines |-> IF i = 0 THEN k ELSE delete_line(f[i - 1])]

(* The functions that csi_L and csi_M define exist. *)
LEMMA StepsExist ==
    ASSUME NEW STATE k, Sound(k) PROVE (\E f : LineSteps(k, f)) /\ (\E f : LineCuts(k, f))
<1> DEFINE X == {m \in Konsole : Sound(m)}
           D == [m \in X |-> insert_line(m)]
           U == [m \in X |-> delete_line(m)]
<1>1. ASSUME NEW m \in X PROVE insert_line(m) \in X /\ delete_line(m) \in X
  <2>1. Sound(m)
    OBVIOUS
  <2>2. DownLines(m, m, 0) /\ UpLines(m, m, 0) /\ 0 \in Nat
    BY <2>1, NoLines
  <2>3. DownLines(m, insert_line(m), 0 + 1) /\ UpLines(m, delete_line(m), 0 + 1)
    BY <2>1, <2>2, OneMoreDown, OneMoreUp
  <2> QED
    BY <2>3 DEF DownLines, UpLines, Stays, Sound
<1>2. D \in [X -> X] /\ U \in [X -> X] /\ k \in X /\ Lines \in Nat
  BY <1>1, Sizes DEF Sound
<1>3. \A m \in X : D[m] = insert_line(m) /\ U[m] = delete_line(m)
  OBVIOUS
<1> HIDE DEF X, D, U
<1>4. IteratesTo(X, D, k, Lines) /\ IteratesTo(X, U, k, Lines)
  BY <1>2, Iterates
<1>5. \E f : LineSteps(k, f)
  <2>1. PICK h \in [0..Lines -> X] : h[0] = k /\ \A i \in 1..Lines : h[i] = D[h[i - 1]]
    BY <1>4 DEF IteratesTo
  <2>2. ASSUME NEW i \in 0..Lines PROVE h[i] = IF i = 0 THEN k ELSE insert_line(h[i - 1])
    <3>1. i # 0 => i \in 1..Lines /\ i - 1 \in 0..Lines
      BY <1>2
    <3> QED
      BY <1>3, <2>1, <3>1
  <2>3. h = [i \in 0..Lines |-> IF i = 0 THEN k ELSE insert_line(h[i - 1])]
    BY <2>2
  <2> QED
    BY <2>3 DEF LineSteps
<1>6. \E f : LineCuts(k, f)
  <2>1. PICK h \in [0..Lines -> X] : h[0] = k /\ \A i \in 1..Lines : h[i] = U[h[i - 1]]
    BY <1>4 DEF IteratesTo
  <2>2. ASSUME NEW i \in 0..Lines PROVE h[i] = IF i = 0 THEN k ELSE delete_line(h[i - 1])
    <3>1. i # 0 => i \in 1..Lines /\ i - 1 \in 0..Lines
      BY <1>2
    <3> QED
      BY <1>3, <2>1, <3>1
  <2>3. h = [i \in 0..Lines |-> IF i = 0 THEN k ELSE delete_line(h[i - 1])]
    BY <2>2
  <2> QED
    BY <2>3 DEF LineCuts
<1> QED
  BY <1>5, <1>6

(* After j steps j lines are inserted, or deleted. *)
LEMMA StepsAre ==
    ASSUME NEW STATE k, Sound(k), NEW STATE f, NEW STATE j, j \in 0..Lines
    PROVE  (LineSteps(k, f) => DownLines(k, f[j], j)) /\ (LineCuts(k, f) => UpLines(k, f[j], j))
<1>0. Lines \in Nat
  BY Sizes
<1>1. ASSUME LineSteps(k, f) PROVE DownLines(k, f[j], j)
  <2> DEFINE Bad == {i \in 0..Lines : ~DownLines(k, f[i], i)}
  <2>1. \A i \in 0..Lines : f[i] = IF i = 0 THEN k ELSE insert_line(f[i - 1])
    BY <1>1 DEF LineSteps
  <2> SUFFICES ASSUME Bad # {} PROVE FALSE
    OBVIOUS
  <2>2. Bad \subseteq Nat
    BY <1>0
  <2>3. PICK b \in Bad : \A c \in Bad : b <= c
    BY <2>2, LeastNat
  <2>4. b \in 0..Lines /\ ~DownLines(k, f[b], b)
    OBVIOUS
  <2>5. b # 0
    <3>1. f[0] = k
      BY <1>0, <2>1
    <3> QED
      BY <2>4, <3>1, NoLines
  <2> DEFINE c == b - 1
  <2>6. c \in Nat /\ c \in 0..Lines /\ ~(b <= c) /\ c + 1 = b
    BY <1>0, <2>4, <2>5
  <2>7. f[b] = insert_line(f[c])
    BY <2>1, <2>4, <2>5
  <2>8. c \notin Bad
    BY <2>3, <2>6
  <2> HIDE DEF c
  <2>9. DownLines(k, f[c], c)
    BY <2>6, <2>8
  <2>10. DownLines(k, f[b], c + 1)
    BY <2>6, <2>7, <2>9, OneMoreDown
  <2> QED
    BY <2>4, <2>6, <2>10
<1>2. ASSUME LineCuts(k, f) PROVE UpLines(k, f[j], j)
  <2> DEFINE Bad == {i \in 0..Lines : ~UpLines(k, f[i], i)}
  <2>1. \A i \in 0..Lines : f[i] = IF i = 0 THEN k ELSE delete_line(f[i - 1])
    BY <1>2 DEF LineCuts
  <2> SUFFICES ASSUME Bad # {} PROVE FALSE
    OBVIOUS
  <2>2. Bad \subseteq Nat
    BY <1>0
  <2>3. PICK b \in Bad : \A c \in Bad : b <= c
    BY <2>2, LeastNat
  <2>4. b \in 0..Lines /\ ~UpLines(k, f[b], b)
    OBVIOUS
  <2>5. b # 0
    <3>1. f[0] = k
      BY <1>0, <2>1
    <3> QED
      BY <2>4, <3>1, NoLines
  <2> DEFINE c == b - 1
  <2>6. c \in Nat /\ c \in 0..Lines /\ ~(b <= c) /\ c + 1 = b
    BY <1>0, <2>4, <2>5
  <2>7. f[b] = delete_line(f[c])
    BY <2>1, <2>4, <2>5
  <2>8. c \notin Bad
    BY <2>3, <2>6
  <2> HIDE DEF c
  <2>9. UpLines(k, f[c], c)
    BY <2>6, <2>8
  <2>10. UpLines(k, f[b], c + 1)
    BY <2>6, <2>7, <2>9, OneMoreUp
  <2> QED
    BY <2>4, <2>6, <2>10
<1> QED
  BY <1>1, <1>2

(* csi_L and csi_M insert and delete as many lines as they are asked. *)
LEMMA CsiLMove ==
    ASSUME NEW STATE k, Sound(k), NEW STATE n, n \in Nat
    PROVE  /\ DownLines(k, csi_L(k, n), Clamp(n, Lines)) /\ UpLines(k, csi_M(k, n), Clamp(n, Lines))
           /\ Clamp(n, Lines) \in 1..Lines
<1> DEFINE j == Clamp(n, Lines)
           f == CHOOSE g : g = [i \in 0..Lines |-> IF i = 0 THEN k ELSE insert_line(g[i - 1])]
           e == CHOOSE g : g = [i \in 0..Lines |-> IF i = 0 THEN k ELSE delete_line(g[i - 1])]
<1>1. j \in 1..Lines /\ j \in 0..Lines
  <2>1. j \in 1..Lines /\ Lines \in Nat
    BY Sizes, ClampIs
  <2> QED
    BY <2>1
<1>2. csi_L(k, n) = f[j] /\ csi_M(k, n) = e[j]
  BY DEF csi_L, csi_M, Repeat
<1>3. f = CHOOSE g : LineSteps(k, g)
  BY DEF LineSteps
<1>4. e = CHOOSE g : LineCuts(k, g)
  BY DEF LineCuts
<1> HIDE DEF f, e, j
<1>5. LineSteps(k, f) /\ LineCuts(k, e)
  BY <1>3, <1>4, StepsExist
<1>6. DownLines(k, f[j], j) /\ UpLines(k, e[j], j)
  BY <1>1, <1>5, StepsAre
<1> QED
  BY <1>1, <1>2, <1>6 DEF j

(* csi_L is InsertLines, and csi_M is DeleteLines. *)
LEMMA CsiLOk ==
    ASSUME NEW STATE k, Sound(k), NEW STATE n, n \in Nat
    PROVE  /\ \E c \in 1..Lines : Does(k, csi_L(k, n), S!InsertLines(Grid(k), c))
           /\ \E c \in 1..Lines : Does(k, csi_M(k, n), S!DeleteLines(Grid(k), c))
<1> DEFINE y == k.v.y
           j == Clamp(n, Lines)
           d == csi_L(k, n)
           u == csi_M(k, n)
           B == [i \in Col |-> Erased]
           R(r) == Cells(k)[r]
           ID(r) == IF r < y THEN R(r) ELSE IF r + (-j) \in y..Lines - 1 THEN R(r + (-j)) ELSE B
           IU(r) == IF r < y THEN R(r) ELSE IF r + j \in y..Lines - 1 THEN R(r + j) ELSE B
           D == [r \in Row |-> ID(r)]
           U == [r \in Row |-> IU(r)]
<1>1. DownLines(k, d, j) /\ UpLines(k, u, j) /\ j \in 1..Lines
  BY CsiLMove
<1>2. y \in Nat /\ y < Lines /\ Lines \in Nat
  BY Cursor, Sizes
<1>3. S!InsertLines(Grid(k), j) = [Grid(k) EXCEPT !.cell = D]
  BY GridMoves DEF S!InsertLines, S!RowShifted, S!Row, S!Col, Row, Col
<1>4. S!DeleteLines(Grid(k), j) = [Grid(k) EXCEPT !.cell = U]
  BY GridMoves DEF S!DeleteLines, S!RowShifted, S!Row, S!Col, Row, Col
<1>5. \A r \in Row : Cells(k)[r] = [i \in Col |-> Cell(k, r, i)]
  BY DEF Cells
<1>6. Cells(d) = [r \in Row |-> [i \in Col |-> Cell(d, r, i)]] /\ Cells(u) = [r \in Row |-> [i \in Col |-> Cell(u, r, i)]]
  BY DEF Cells
<1>7. /\ \A r \in Row, i \in Col : Cell(d, r, i) = IF r < y THEN Cell(k, r, i)
                                                   ELSE IF r - j >= y THEN Cell(k, r - j, i) ELSE Erased
      /\ \A r \in Row, i \in Col : Cell(u, r, i) = IF r < y THEN Cell(k, r, i)
                                                   ELSE IF r + j < Lines THEN Cell(k, r + j, i) ELSE Erased
  BY <1>1 DEF DownLines, UpLines
<1> HIDE DEF d, u, j, y, R
<1>8. ASSUME NEW r \in Row PROVE [i \in Col |-> Cell(d, r, i)] = ID(r) /\ [i \in Col |-> Cell(u, r, i)] = IU(r)
  <2>1. /\ r \in Nat /\ r < Lines /\ r + (-j) = r - j
        /\ (r - j \in y..Lines - 1 <=> r - j >= y) /\ (r - j >= y => r - j \in Row)
        /\ (~(r < y) => (r + j \in y..Lines - 1 <=> r + j < Lines)) /\ (r + j < Lines => r + j \in Row)
    BY <1>1, <1>2 DEF Row
  <2>2. \A q \in Row : R(q) = [i \in Col |-> Cell(k, q, i)]
    BY <1>5 DEF R
  <2>3. [i \in Col |-> Cell(d, r, i)] = ID(r)
    <3>1. CASE r < y
      BY <1>7, <2>2, <3>1
    <3>2. CASE ~(r < y) /\ r - j >= y
      BY <1>7, <2>1, <2>2, <3>2
    <3>3. CASE ~(r < y) /\ ~(r - j >= y)
      BY <1>7, <2>1, <3>3
    <3> QED
      BY <3>1, <3>2, <3>3
  <2>4. [i \in Col |-> Cell(u, r, i)] = IU(r)
    <3>1. CASE r < y
      BY <1>7, <2>2, <3>1
    <3>2. CASE ~(r < y) /\ r + j < Lines
      BY <1>7, <2>1, <2>2, <3>2
    <3>3. CASE ~(r < y) /\ ~(r + j < Lines)
      BY <1>7, <2>1, <3>3
    <3> QED
      BY <3>1, <3>2, <3>3
  <2> QED
    BY <2>3, <2>4
<1> HIDE DEF ID, IU
<1>9. Cells(d) = D /\ Cells(u) = U
  BY <1>6, <1>8
<1> HIDE DEF D, U
<1>10. Does(k, d, [Grid(k) EXCEPT !.cell = D]) /\ Does(k, u, [Grid(k) EXCEPT !.cell = U])
  BY <1>1, <1>9, StaysGrid DEF DownLines, UpLines
<1> QED
  BY <1>1, <1>3, <1>4, <1>10 DEF d, u

-----------------------------------------------------------------------------
(* The cursor is saved and restored, and a region is set. *)
Unwritten(k, m) ==
    /\ m \in Konsole /\ m.mem = k.mem /\ m.start = k.start /\ m.fg = k.fg
    /\ m.v.x = k.v.x /\ m.v.y = k.v.y /\ m.v.pos = k.v.pos
    /\ m.v.origin = k.v.origin /\ m.v.start = k.v.start /\ m.v.end = k.v.end /\ m.v.scr_end = k.v.scr_end

(* A console with another saved place or region *)
LEMMA UnwrittenSound ==
    ASSUME NEW STATE k, Sound(k), NEW STATE m, Unwritten(k, m), m.v.top < m.v.bottom
    PROVE  Sound(m) /\ Keeps(k, m) /\ Cells(m) = Cells(k)
<1>1. Sound(m) /\ Keeps(k, m)
  BY DEF Unwritten, Sound, InPlace, Keeps, Outside
<1>2. \A r \in Row, i \in Col : Cell(m, r, i) = Cell(k, r, i)
  BY DEF Unwritten, Cell
<1> QED
  BY <1>1, <1>2 DEF Cells

(* save_cur is Save. *)
LEMMA SaveOk ==
    ASSUME NEW STATE k, Sound(k) PROVE Does(k, save_cur(k), S!Save(Grid(k)))
<1> DEFINE m == save_cur(k)
           w == [k.v EXCEPT !.sx = k.v.x, !.sy = k.v.y]
<1>1. k \in Konsole /\ k.v \in VcStruct /\ Fields(k.v) /\ k.v.top < k.v.bottom
  BY SoundFields DEF InPlace
<1>2. m = [k EXCEPT !.v = w]
  BY <1>1 DEF save_cur, Konsole
<1>3. k.v.x \in 0..Cols /\ k.v.y \in 0..Lines - 1
  BY <1>1 DEF Fields
<1>4. /\ w \in VcStruct /\ w.x = k.v.x /\ w.y = k.v.y /\ w.pos = k.v.pos /\ w.sx = k.v.x /\ w.sy = k.v.y
      /\ w.origin = k.v.origin /\ w.start = k.v.start /\ w.end = k.v.end /\ w.scr_end = k.v.scr_end
      /\ w.top = k.v.top /\ w.bottom = k.v.bottom
  BY <1>1, <1>3 DEF VcStruct
<1> HIDE DEF w
<1>5. m \in Konsole /\ m.v = w /\ m.mem = k.mem /\ m.start = k.start /\ m.fg = k.fg
  BY <1>1, <1>2, <1>4 DEF Konsole
<1> HIDE DEF m
<1>6. Sound(m) /\ Keeps(k, m) /\ Cells(m) = Cells(k)
  BY <1>1, <1>4, <1>5, UnwrittenSound DEF Unwritten
<1>7. Grid(m) = S!Save(Grid(k))
  <2> DEFINE c == Cells(k)
             h == [Grid(k) EXCEPT !.sx = k.v.x]
  <2>1. S!Save(Grid(k)) = [h EXCEPT !.sy = k.v.y]
    BY GridMoves DEF S!Save
  <2>2. Grid(m) = [cell |-> c, x |-> k.v.x, y |-> k.v.y, top |-> k.v.top, bottom |-> k.v.bottom, sx |-> k.v.x, sy |-> k.v.y]
    BY <1>4, <1>5, <1>6 DEF Grid
  <2>3. h = [cell |-> c, x |-> k.v.x, y |-> k.v.y, top |-> k.v.top, bottom |-> k.v.bottom, sx |-> k.v.x, sy |-> k.v.sy]
    BY DEF Grid
  <2> HIDE DEF h, c
  <2>4. [h EXCEPT !.sy = k.v.y] =
          [cell |-> c, x |-> k.v.x, y |-> k.v.y, top |-> k.v.top, bottom |-> k.v.bottom, sx |-> k.v.x, sy |-> k.v.y]
    BY <2>3
  <2> QED
    BY <2>1, <2>2, <2>4
<1> QED
  BY <1>6, <1>7 DEF Does, m

(* set_region is SetRegion, when the region holds a line. *)
LEMMA RegionOk ==
    ASSUME NEW STATE k, Sound(k), NEW STATE t, t \in Nat, NEW STATE b, b \in Nat, t < b, b <= Lines
    PROVE  Does(k, set_region(k, t, b), S!SetRegion(Grid(k), t, b))
<1> DEFINE m == set_region(k, t, b)
           w == [k.v EXCEPT !.top = t, !.bottom = b]
<1>1. k \in Konsole /\ k.v \in VcStruct /\ Fields(k.v)
  BY SoundFields
<1>2. m = [k EXCEPT !.v = w]
  BY <1>1 DEF set_region, Konsole
<1>3. t \in 0..Lines /\ b \in 0..Lines
  BY Sizes
<1>4. /\ w \in VcStruct /\ w.x = k.v.x /\ w.y = k.v.y /\ w.pos = k.v.pos /\ w.sx = k.v.sx /\ w.sy = k.v.sy
      /\ w.origin = k.v.origin /\ w.start = k.v.start /\ w.end = k.v.end /\ w.scr_end = k.v.scr_end
      /\ w.top = t /\ w.bottom = b
  BY <1>1, <1>3 DEF VcStruct
<1> HIDE DEF w
<1>5. m \in Konsole /\ m.v = w /\ m.mem = k.mem /\ m.start = k.start /\ m.fg = k.fg
  BY <1>1, <1>2, <1>4 DEF Konsole
<1> HIDE DEF m
<1>6. Sound(m) /\ Keeps(k, m) /\ Cells(m) = Cells(k)
  BY <1>4, <1>5, UnwrittenSound DEF Unwritten
<1>7. Grid(m) = S!SetRegion(Grid(k), t, b)
  <2> DEFINE c == Cells(k)
             h == [Grid(k) EXCEPT !.top = t]
  <2>1. S!SetRegion(Grid(k), t, b) = [h EXCEPT !.bottom = b]
    BY DEF S!SetRegion
  <2>2. Grid(m) = [cell |-> c, x |-> k.v.x, y |-> k.v.y, top |-> t, bottom |-> b, sx |-> k.v.sx, sy |-> k.v.sy]
    BY <1>4, <1>5, <1>6 DEF Grid
  <2>3. h = [cell |-> c, x |-> k.v.x, y |-> k.v.y, top |-> t, bottom |-> k.v.bottom, sx |-> k.v.sx, sy |-> k.v.sy]
    BY DEF Grid
  <2> HIDE DEF h, c
  <2>4. [h EXCEPT !.bottom = b] =
          [cell |-> c, x |-> k.v.x, y |-> k.v.y, top |-> t, bottom |-> b, sx |-> k.v.sx, sy |-> k.v.sy]
    BY <2>3
  <2> QED
    BY <2>1, <2>2, <2>4
<1> QED
  BY <1>6, <1>7 DEF Does, m

-----------------------------------------------------------------------------
(* What a character may do to the screen of its console: one of the things *)
(* that module Screen allows, or nothing.                                  *)
Allowed(s, t) ==
    t = s \/ S!Moves(s, t) \/ S!Frames(s, t) \/ t = S!Save(s) \/ S!Writes(s, t)
Good(k, m) == Sound(m) /\ Keeps(k, m) /\ Allowed(Grid(k), Grid(m))

(* Only the parser moves on. *)
Quiet(k, m) == Sound(m) /\ Keeps(k, m) /\ Grid(m) = Grid(k) /\ m.v.x = k.v.x /\ m.v.y = k.v.y

(* The parser moves on. *)
LEMMA GoodQuiet ==
    ASSUME NEW STATE k, NEW STATE m, Quiet(k, m) PROVE Good(k, m)
BY DEF Quiet, Good, Allowed

(* The parser moves on, then something is done. *)
LEMMA GoodAfter ==
    ASSUME NEW STATE k, NEW STATE n, NEW STATE m, Quiet(k, n), Good(n, m) PROVE Good(k, m)
BY KeepsTrans DEF Quiet, Good

(* Nothing is done. *)
LEMMA GoodItself ==
    ASSUME NEW STATE k, Sound(k) PROVE Good(k, k)
BY KeepsItself DEF Good, Allowed

(* The cursor moves on the screen. *)
LEMMA GoodAt ==
    ASSUME NEW STATE k, Sound(k), NEW STATE m, NEW STATE x, x \in 0..Cols, NEW STATE y, y \in 0..Lines - 1, At(k, m, x, y)
    PROVE  Good(k, m)
<1>1. Does(k, m, S!MoveTo(Grid(k), x, y))
  BY AtGrid
<1>2. Grid(m).x = x /\ Grid(m).y = y
  BY GridMoves DEF At
<1>3. S!Moves(Grid(k), Grid(m))
  BY <1>1, <1>2 DEF Does, S!Moves, S!Row
<1> QED
  BY <1>1, <1>3 DEF Does, Good, Allowed

(* The text changes. *)
LEMMA GoodWrites ==
    ASSUME NEW STATE k, NEW STATE m, NEW STATE h, Does(k, m, h), S!Writes(Grid(k), h)
    PROVE  Good(k, m)
BY DEF Does, Good, Allowed

(* gotoxy, whatever its arguments *)
LEMMA GoodGotoxy ==
    ASSUME NEW STATE k, Sound(k), NEW STATE x, NEW STATE y PROVE Good(k, gotoxy(k, x, y))
<1>1. CASE x \in 0..Cols /\ y \in 0..Lines - 1
  BY <1>1, GotoxyAt, GoodAt
<1>2. CASE ~(x \in 0..Cols /\ y \in 0..Lines - 1)
  BY <1>2, GoodItself DEF gotoxy
<1> QED
  BY <1>1, <1>2

(* The operations without a parameter *)
LEMMA GoodChars ==
    ASSUME NEW STATE k, Sound(k)
    PROVE  /\ Good(k, lf(k)) /\ Good(k, ri(k)) /\ Good(k, cr(k)) /\ Good(k, bs(k)) /\ Good(k, del(k))
           /\ Good(k, tab(k)) /\ Good(k, put(k)) /\ Good(k, lf(cr(k))) /\ Good(k, save_cur(k)) /\ Good(k, restore_cur(k))
<1>0. k.v.x \in 0..Cols /\ k.v.y \in 0..Lines - 1 /\ 0 \in 0..Cols /\ Cols \in Nat
  BY SoundFields, Sizes DEF Fields
<1>1. Good(k, lf(k))
  BY LfOk, GoodWrites DEF S!Writes
<1>2. Good(k, ri(k))
  BY RiOk, GoodWrites DEF S!Writes
<1>3. Good(k, cr(k))
  BY <1>0, CrAt, GoodAt
<1>4. Good(k, bs(k))
  <2>1. CASE bs(k) = k
    BY <2>1, GoodItself
  <2>2. CASE k.v.x > 0 /\ At(k, bs(k), k.v.x - 1, k.v.y)
    <3>1. k.v.x - 1 \in 0..Cols
      BY <1>0, <2>2
    <3> QED
      BY <1>0, <2>2, <3>1, GoodAt
  <2> QED
    BY <2>1, <2>2, BsOk
<1>5. Good(k, del(k))
  BY DelOk, GoodWrites DEF S!Writes
<1>6. Good(k, tab(k))
  BY TabOk, GoodWrites DEF S!Writes
<1>7. Good(k, put(k))
  BY PutOk, GoodWrites DEF S!Writes
<1>8. Good(k, lf(cr(k)))
  <2>1. Does(k, cr(k), S!Return(Grid(k)))
    BY CrOk
  <2>2. Sound(cr(k)) /\ Keeps(k, cr(k)) /\ Grid(cr(k)) = S!Return(Grid(k))
    BY <2>1 DEF Does
  <2>3. Does(cr(k), lf(cr(k)), S!LineFeed(S!Return(Grid(k))))
    BY <2>2, LfOk
  <2>4. Does(k, lf(cr(k)), S!LineFeed(S!Return(Grid(k))))
    BY <2>2, <2>3, DoesAfter
  <2> QED
    BY <2>4, GoodWrites DEF S!Writes
<1>9. Good(k, save_cur(k))
  BY SaveOk DEF Does, Good, Allowed
<1>10. Good(k, restore_cur(k))
  BY GoodGotoxy DEF restore_cur
<1> QED
  BY <1>1, <1>2, <1>3, <1>4, <1>5, <1>6, <1>7, <1>8, <1>9, <1>10

(* The operations with a parameter *)
LEMMA GoodSequences ==
    ASSUME NEW STATE k, Sound(k), NEW STATE n, n \in Nat
    PROVE  /\ Good(k, csi_J(k, n)) /\ Good(k, csi_K(k, n)) /\ Good(k, csi_L(k, n)) /\ Good(k, csi_M(k, n))
           /\ Good(k, csi_P(k, n)) /\ Good(k, csi_at(k, n))
<1>1. Good(k, csi_J(k, n)) /\ Good(k, csi_K(k, n))
  <2>1. CASE n \in 0..2
    <3>1. Good(k, csi_J(k, n))
      BY <2>1, CsiJOk, GoodWrites DEF S!Writes
    <3>2. Good(k, csi_K(k, n))
      <4>1. CASE csi_K(k, n) = k
        BY <4>1, GoodItself
      <4>2. CASE Does(k, csi_K(k, n), S!EraseLine(Grid(k), n))
        BY <2>1, <4>2, GoodWrites DEF S!Writes
      <4> QED
        BY <2>1, <4>1, <4>2, CsiKOk
    <3> QED
      BY <3>1, <3>2
  <2>2. CASE n \notin 0..2
    <3>1. n # 0 /\ n # 1 /\ n # 2
      BY <2>2
    <3>2. csi_J(k, n) = k /\ csi_K(k, n) = k
      BY <3>1 DEF csi_J, csi_K
    <3> QED
      BY <3>2, GoodItself
  <2> QED
    BY <2>1, <2>2
<1>2. Good(k, csi_L(k, n))
  <2>1. PICK c \in 1..Lines : Does(k, csi_L(k, n), S!InsertLines(Grid(k), c))
    BY CsiLOk
  <2> QED
    BY <2>1, GoodWrites DEF S!Writes
<1>3. Good(k, csi_M(k, n))
  <2>1. PICK c \in 1..Lines : Does(k, csi_M(k, n), S!DeleteLines(Grid(k), c))
    BY CsiLOk
  <2> QED
    BY <2>1, GoodWrites DEF S!Writes
<1>4. Good(k, csi_P(k, n))
  <2>1. PICK c \in 1..Cols : Does(k, csi_P(k, n), S!DeleteChars(Grid(k), c))
    BY CsiPOk
  <2> QED
    BY <2>1, GoodWrites DEF S!Writes
<1>5. Good(k, csi_at(k, n))
  <2>1. PICK c \in 1..Cols : Does(k, csi_at(k, n), S!InsertChars(Grid(k), c))
    BY CsiAtOk
  <2> QED
    BY <2>1, GoodWrites DEF S!Writes
<1> QED
  BY <1>1, <1>2, <1>3, <1>4, <1>5

(* set_region, whatever its arguments *)
LEMMA GoodRegion ==
    ASSUME NEW STATE k, Sound(k), NEW STATE t, t \in Nat, NEW STATE b, b \in Nat
    PROVE  Good(k, set_region(k, t, b))
<1>1. CASE t < b /\ b <= Lines
  <2>1. Does(k, set_region(k, t, b), S!SetRegion(Grid(k), t, b))
    BY <1>1, RegionOk
  <2> DEFINE g == Grid(set_region(k, t, b))
  <2>2. g.top = t /\ g.bottom = b
    <3>1. k \in Konsole /\ k.v \in VcStruct
      BY SoundFields
    <3>2. set_region(k, t, b).v.top = t /\ set_region(k, t, b).v.bottom = b
      BY <1>1, <3>1 DEF set_region, Konsole, VcStruct
    <3> QED
      BY <3>2, GridMoves
  <2>3. t \in 0..b - 1
    BY <1>1
  <2>4. S!Frames(Grid(k), g)
    BY <1>1, <2>1, <2>2, <2>3 DEF S!Frames, Does
  <2> QED
    BY <2>1, <2>4 DEF Good, Allowed, Does
<1>2. CASE ~(t < b /\ b <= Lines)
  BY <1>2, GoodItself DEF set_region
<1> QED
  BY <1>1, <1>2

-----------------------------------------------------------------------------
(* The parser *)

(* Fields of the parser do not touch the screen. *)
LEMMA ParserQuiet ==
    ASSUME NEW STATE k, Sound(k), NEW STATE m, Unwritten(k, m),
           m.v.top = k.v.top, m.v.bottom = k.v.bottom, m.v.sx = k.v.sx, m.v.sy = k.v.sy
    PROVE  Quiet(k, m)
<1>1. k.v.top < k.v.bottom
  BY SoundFields DEF InPlace
<1>2. Sound(m) /\ Keeps(k, m) /\ Cells(m) = Cells(k)
  BY <1>1, UnwrittenSound
<1>3. Grid(m) = Grid(k)
  BY <1>2 DEF Grid, Unwritten
<1> QED
  BY <1>2, <1>3 DEF Quiet, Unwritten

(* A console with other values in the fields of the parser *)
Parsing(v, w) ==
    /\ w.x = v.x /\ w.y = v.y /\ w.pos = v.pos /\ w.sx = v.sx /\ w.sy = v.sy
    /\ w.origin = v.origin /\ w.start = v.start /\ w.end = v.end /\ w.scr_end = v.scr_end
    /\ w.top = v.top /\ w.bottom = v.bottom

(* Other values in the fields of the parser *)
LEMMA ParsingQuiet ==
    ASSUME NEW STATE k, Sound(k), NEW STATE m, NEW STATE w, w \in VcStruct, m = [k EXCEPT !.v = w], Parsing(k.v, w)
    PROVE  Quiet(k, m) /\ m.v = w
<1>1. k \in Konsole
  BY SoundFields
<1>2. m \in Konsole /\ m.v = w /\ m.mem = k.mem /\ m.start = k.start /\ m.fg = k.fg
  BY <1>1 DEF Konsole
<1>3. Unwritten(k, m)
  BY <1>2 DEF Unwritten, Parsing
<1>4. m.v.top = k.v.top /\ m.v.bottom = k.v.bottom /\ m.v.sx = k.v.sx /\ m.v.sy = k.v.sy
  BY <1>2 DEF Parsing
<1> QED
  BY <1>2, <1>3, <1>4, ParserQuiet

(* Another state of the parser *)
LEMMA StateQuiet ==
    ASSUME NEW STATE k, Sound(k), NEW STATE s, s \in States
    PROVE  /\ Quiet(k, State(k, s)) /\ Sound(State(k, s))
           /\ State(k, s).v = [k.v EXCEPT !.state = s] /\ Parsing(k.v, State(k, s).v)
<1> DEFINE w == [k.v EXCEPT !.state = s]
           m == State(k, s)
<1>1. k \in Konsole /\ k.v \in VcStruct
  BY SoundFields
<1>2. m = [k EXCEPT !.v = w]
  BY <1>1 DEF State, Konsole
<1>3. w \in VcStruct /\ Parsing(k.v, w)
  BY <1>1 DEF VcStruct, Parsing
<1> HIDE DEF w, m
<1>4. Quiet(k, m) /\ m.v = w
  BY <1>2, <1>3, ParsingQuiet
<1> QED
  BY <1>3, <1>4 DEF w, m, Quiet

(* A digit is a number. *)
LEMMA ValueIs ==
    ASSUME NEW STATE c, c \in Digits PROVE Value(c) \in Nat
<1> DEFINE D == <<"0", "1", "2", "3", "4", "5", "6", "7", "8", "9">>
<1>1. c \in {"0", "1", "2", "3", "4", "5", "6", "7", "8", "9"}
  BY ConsoleSizes
<1>2. \E i \in 0..9 : D[i + 1] = c
  <2>1. CASE c = "0"
    <3>1. D[0 + 1] = c /\ 0 \in 0..9
      BY <2>1
    <3> QED
      BY <3>1
  <2>2. CASE c = "1"
    <3>1. D[1 + 1] = c /\ 1 \in 0..9
      BY <2>2
    <3> QED
      BY <3>1
  <2>3. CASE c = "2"
    <3>1. D[2 + 1] = c /\ 2 \in 0..9
      BY <2>3
    <3> QED
      BY <3>1
  <2>4. CASE c = "3"
    <3>1. D[3 + 1] = c /\ 3 \in 0..9
      BY <2>4
    <3> QED
      BY <3>1
  <2>5. CASE c = "4"
    <3>1. D[4 + 1] = c /\ 4 \in 0..9
      BY <2>5
    <3> QED
      BY <3>1
  <2>6. CASE c = "5"
    <3>1. D[5 + 1] = c /\ 5 \in 0..9
      BY <2>6
    <3> QED
      BY <3>1
  <2>7. CASE c = "6"
    <3>1. D[6 + 1] = c /\ 6 \in 0..9
      BY <2>7
    <3> QED
      BY <3>1
  <2>8. CASE c = "7"
    <3>1. D[7 + 1] = c /\ 7 \in 0..9
      BY <2>8
    <3> QED
      BY <3>1
  <2>9. CASE c = "8"
    <3>1. D[8 + 1] = c /\ 8 \in 0..9
      BY <2>9
    <3> QED
      BY <3>1
  <2>10. CASE c = "9"
    <3>1. D[9 + 1] = c /\ 9 \in 0..9
      BY <2>10
    <3> QED
      BY <3>1
  <2> QED
    BY <1>1, <2>1, <2>2, <2>3, <2>4, <2>5, <2>6, <2>7, <2>8, <2>9, <2>10
<1> HIDE DEF D
<1>3. Value(c) = CHOOSE i \in 0..9 : D[i + 1] = c
  BY DEF Value, D
<1>4. Value(c) \in 0..9
  BY <1>2, <1>3
<1> QED
  BY <1>4

(* A character outside of a sequence *)
LEMMA NormalGood ==
    ASSUME NEW STATE k, Sound(k), NEW STATE c PROVE Good(k, Normal(k, c))
<1>1. Good(k, State(k, "ESesc"))
  BY StateQuiet, GoodQuiet DEF States
<1> QED
  BY <1>1, GoodChars, GoodItself DEF Normal

(* A character after escape *)
LEMMA EscGood ==
    ASSUME NEW STATE k, Sound(k), NEW STATE c PROVE Good(k, Esc(k, c))
<1> DEFINE n == State(k, "ESnormal")
<1>1. Quiet(k, n) /\ Sound(n)
  BY StateQuiet DEF States
<1>2. Good(k, State(k, "ESsquare")) /\ Good(k, State(k, "ESskip"))
  BY StateQuiet, GoodQuiet DEF States
<1>3. Esc(k, c) = CASE c = "[" -> State(k, "ESsquare")
          [] c = "E" -> gotoxy(n, 0, n.v.y + 1)
          [] c = "M" -> ri(n)
          [] c = "D" -> lf(n)
          [] c = "7" -> save_cur(n)
          [] c = "8" -> restore_cur(n)
          [] c \in {"(", "P", "#"} -> State(k, "ESskip")
          [] c = "c" -> set_region(n, 0, Lines)
          [] OTHER -> n
  BY DEF Esc
<1> HIDE DEF n
<1>4. /\ Good(n, gotoxy(n, 0, n.v.y + 1)) /\ Good(n, ri(n)) /\ Good(n, lf(n)) /\ Good(n, save_cur(n))
      /\ Good(n, restore_cur(n)) /\ Good(n, set_region(n, 0, Lines)) /\ Good(n, n)
  <2>1. 0 \in Nat /\ Lines \in Nat
    BY Sizes
  <2> QED
    BY <1>1, <2>1, GoodGotoxy, GoodChars, GoodRegion, GoodItself
<1>5. /\ Good(k, gotoxy(n, 0, n.v.y + 1)) /\ Good(k, ri(n)) /\ Good(k, lf(n)) /\ Good(k, save_cur(n))
      /\ Good(k, restore_cur(n)) /\ Good(k, set_region(n, 0, Lines)) /\ Good(k, n)
  BY <1>1, <1>4, GoodAfter
<1> QED
  BY <1>2, <1>3, <1>5

(* The end of a control sequence *)
LEMMA GotParsGood ==
    ASSUME NEW STATE k, Sound(k), NEW STATE c PROVE Good(k, GotPars(k, c))
<1> DEFINE n == [State(k, "ESnormal") EXCEPT !.v.ques = FALSE]
           p == k.v.par[0]
           q == k.v.par[1]
           x == k.v.x
           y == k.v.y
           b == IF q = 0 THEN Lines ELSE q
<1>1. Quiet(k, n) /\ Sound(n)
  <2> DEFINE m == State(k, "ESnormal")
             w == [m.v EXCEPT !.ques = FALSE]
  <2>1. Quiet(k, m) /\ Sound(m)
    BY StateQuiet DEF States
  <2>2. n = [m EXCEPT !.v = w]
    OBVIOUS
  <2> HIDE DEF m, n
  <2>3. m.v \in VcStruct
    BY <2>1, SoundFields
  <2>4. w \in VcStruct /\ Parsing(m.v, w)
    BY <2>3 DEF VcStruct, Parsing
  <2> HIDE DEF w
  <2>5. Quiet(m, n)
    BY <2>1, <2>2, <2>4, ParsingQuiet
  <2> QED
    BY <2>1, <2>5, KeepsTrans DEF Quiet
<1>2. p \in Nat /\ q \in Nat
  BY SoundFields, Sizes DEF Fields
<1>3. Dec(p) \in Nat /\ b \in Nat
  BY <1>2, Sizes DEF Dec
<1>4. GotPars(k, c) =
        IF k.v.ques THEN n
        ELSE CASE c = "G" -> gotoxy(n, Dec(p), y)
               [] c = "A" -> gotoxy(n, x, y - Inc(p))
               [] c = "B" -> gotoxy(n, x, y + Inc(p))
               [] c = "C" -> gotoxy(n, x + Inc(p), y)
               [] c = "D" -> gotoxy(n, x - Inc(p), y)
               [] c = "E" -> gotoxy(n, 0, y + Inc(p))
               [] c = "F" -> gotoxy(n, 0, y - Inc(p))
               [] c = "d" -> gotoxy(n, x, Dec(p))
               [] c = "H" -> gotoxy(n, Dec(q), Dec(p))
               [] c = "J" -> csi_J(n, p)
               [] c = "K" -> csi_K(n, p)
               [] c = "L" -> csi_L(n, p)
               [] c = "M" -> csi_M(n, p)
               [] c = "P" -> csi_P(n, p)
               [] c = "@" -> csi_at(n, p)
               [] c = "r" -> set_region(n, Dec(p), b)
               [] c = "s" -> save_cur(n)
               [] c = "u" -> restore_cur(n)
               [] OTHER -> n
  BY DEF GotPars
<1> HIDE DEF n, p, q, x, y, b
<1>5. /\ Good(n, n) /\ Good(n, csi_J(n, p)) /\ Good(n, csi_K(n, p)) /\ Good(n, csi_L(n, p)) /\ Good(n, csi_M(n, p))
      /\ Good(n, csi_P(n, p)) /\ Good(n, csi_at(n, p)) /\ Good(n, set_region(n, Dec(p), b))
      /\ Good(n, save_cur(n)) /\ Good(n, restore_cur(n))
  BY <1>1, <1>2, <1>3, GoodItself, GoodSequences, GoodRegion, GoodChars
<1>6. \A i, j : Good(n, gotoxy(n, i, j))
  BY <1>1, GoodGotoxy
<1>7. \A m : Good(n, m) => Good(k, m)
  BY <1>1, GoodAfter
<1>8. Good(n, GotPars(k, c))
  BY <1>4, <1>5, <1>6
<1> QED
  BY <1>7, <1>8

(* A character among parameters *)
LEMMA GetParsGood ==
    ASSUME NEW STATE k, Sound(k), NEW STATE c PROVE Good(k, GetPars(k, c))
<1>1. k \in Konsole /\ k.v \in VcStruct /\ k.v.npar \in 0..NPAR - 1 /\ k.v.par \in [0..NPAR - 1 -> Nat] /\ NPAR \in Nat
  BY SoundFields, Sizes DEF Fields
<1>2. CASE c = ";" /\ k.v.npar < NPAR - 1
  <2> DEFINE w == [k.v EXCEPT !.npar = @ + 1]
             m == GetPars(k, c)
  <2>1. m = [k EXCEPT !.v = w]
    BY <1>1, <1>2 DEF GetPars, Konsole
  <2>2. k.v.npar + 1 \in 0..NPAR - 1
    <3> DEFINE a == k.v.npar
    <3>1. a \in 0..NPAR - 1 /\ a < NPAR - 1 /\ NPAR \in Nat
      BY <1>1, <1>2
    <3> HIDE DEF a
    <3>2. a + 1 \in 0..NPAR - 1
      BY <3>1
    <3> QED
      BY <3>2 DEF a
  <2>3. w \in VcStruct /\ Parsing(k.v, w)
    BY <1>1, <2>2 DEF VcStruct, Parsing
  <2> HIDE DEF w, m
  <2>4. Quiet(k, m)
    BY <2>1, <2>3, ParsingQuiet
  <2> QED
    BY <2>4, GoodQuiet DEF m
<1>3. CASE ~(c = ";" /\ k.v.npar < NPAR - 1) /\ c \in Digits
  <2> DEFINE a == k.v.npar
             f == [k.v.par EXCEPT ![a] = 10 * @ + Value(c)]
             w == [k.v EXCEPT !.par = f]
             m == GetPars(k, c)
  <2>1. m = [k EXCEPT !.v = w]
    BY <1>1, <1>3 DEF GetPars, Konsole, VcStruct
  <2>2. f \in [0..NPAR - 1 -> Nat]
    <3>1. Value(c) \in Nat
      BY <1>3, ValueIs
    <3>2. \A i \in Nat : 10 * i + Value(c) \in Nat
      BY <3>1
    <3> QED
      BY <1>1, <3>2
  <2> HIDE DEF f
  <2>3. w \in VcStruct /\ Parsing(k.v, w)
    BY <1>1, <2>2 DEF VcStruct, Parsing
  <2> HIDE DEF w, m
  <2>4. Quiet(k, m)
    BY <2>1, <2>3, ParsingQuiet
  <2> QED
    BY <2>4, GoodQuiet DEF m
<1>4. CASE ~(c = ";" /\ k.v.npar < NPAR - 1) /\ c \notin Digits
  BY <1>4, GotParsGood DEF GetPars
<1> QED
  BY <1>2, <1>3, <1>4

(* The first character of a control sequence *)
LEMMA SquareGood ==
    ASSUME NEW STATE k, Sound(k), NEW STATE c PROVE Good(k, Square(k, c))
<1> DEFINE m == State(k, "ESgetpars")
           n == [m EXCEPT !.v.par = NoPars, !.v.npar = 0, !.v.ques = c = "?"]
           w == [m.v EXCEPT !.par = NoPars, !.npar = 0, !.ques = c = "?"]
<1>1. Quiet(k, m) /\ Sound(m)
  BY StateQuiet DEF States
<1>2. Square(k, c) = CASE c = "[" -> State(n, "ESskip") [] c = "?" -> n [] OTHER -> GetPars(n, c)
  BY DEF Square
<1>3. m \in Konsole /\ m.v \in VcStruct
  BY <1>1, SoundFields
<1>4. NoPars \in [0..NPAR - 1 -> Nat] /\ 0 \in 0..NPAR - 1 /\ (c = "?") \in BOOLEAN
  BY Sizes DEF NoPars
<1> HIDE DEF m
<1>5. n = [m EXCEPT !.v = w]
  BY <1>3 DEF Konsole
<1>6. w \in VcStruct /\ Parsing(m.v, w)
  BY <1>3, <1>4 DEF VcStruct, Parsing
<1> HIDE DEF n, w
<1>7. Quiet(m, n)
  BY <1>1, <1>5, <1>6, ParsingQuiet
<1>8. Quiet(k, n) /\ Sound(n)
  BY <1>1, <1>7, KeepsTrans DEF Quiet
<1>9. Good(n, State(n, "ESskip")) /\ Good(n, GetPars(n, c)) /\ Good(n, n)
  BY <1>8, StateQuiet, GoodQuiet, GetParsGood, GoodItself DEF States
<1>10. Good(n, Square(k, c))
  BY <1>2, <1>9
<1> QED
  BY <1>8, <1>10, GoodAfter

(* Any character in any state of the parser *)
LEMMA ParseGood ==
    ASSUME NEW STATE k, Sound(k), NEW STATE c PROVE Good(k, Parse(k, c))
<1>1. Good(k, State(k, "ESnormal"))
  BY StateQuiet, GoodQuiet DEF States
<1> QED
  BY <1>1, NormalGood, EscGood, SquareGood, GetParsGood DEF Parse

-----------------------------------------------------------------------------
(* The inductive invariant: each console keeps to its own memory, all of   *)
(* video memory for the one in the foreground, and the adapter shows that. *)
HomeStart(c) == IF c = fg THEN 0 ELSE ScrBuf(c)
HomeEnd(c) == IF c = fg THEN VideoCells ELSE ScrBuf(c) + screen_size
AtHome(c) == InPlace(vc[c]) /\ vc[c].start = HomeStart(c) /\ vc[c].end = HomeEnd(c)

ConsoleInv ==
    /\ egac \in BOOLEAN /\ fg \in Con /\ mem \in [Address -> Int] /\ vc \in [Con -> VcStruct]
    /\ \A c \in Con : AtHome(c)
    /\ start = vc[fg].origin

(* No two consoles share memory. *)
LEMMA Homes ==
    ASSUME ConsoleInv, NEW c \in Con, NEW d \in Con, c # d
    PROVE  /\ HomeStart(c) \in Nat /\ HomeEnd(c) \in Nat /\ HomeStart(d) \in Nat /\ HomeEnd(d) \in Nat
           /\ HomeEnd(c) <= HomeStart(d) \/ HomeEnd(d) <= HomeStart(c)
<1>1. /\ c \in Nat /\ ScrBuf(c) \in Nat /\ d \in Nat /\ ScrBuf(d) \in Nat /\ screen_size \in Nat /\ VideoCells \in Nat
      /\ VideoCells <= ScrBuf(c) /\ VideoCells <= ScrBuf(d)
      /\ c < d => ScrBuf(c) + screen_size <= ScrBuf(d)
      /\ d < c => ScrBuf(d) + screen_size <= ScrBuf(c)
  BY Buffers, Sizes
<1> QED
  BY <1>1 DEF HomeStart, HomeEnd

(* Each console is sound. *)
LEMMA EachSound ==
    ASSUME ConsoleInv, NEW c \in Con
    PROVE  /\ Sound(Console(c)) /\ Console(c).v = vc[c] /\ Console(c).mem = mem /\ Console(c).start = start
           /\ Console(c).fg = (c = fg)
<1>1. mem \in [Address -> Int] /\ vc[c] \in VcStruct /\ start \in Nat /\ (c = fg) \in BOOLEAN /\ InPlace(vc[c])
  <2>1. vc[fg] \in VcStruct
    BY DEF ConsoleInv
  <2>2. start \in Nat
    BY <2>1 DEF ConsoleInv, VcStruct
  <2> QED
    BY <2>2 DEF ConsoleInv, AtHome
<1>2. Console(c) \in Konsole
  BY <1>1 DEF Console, Konsole
<1>3. Console(c).v = vc[c] /\ Console(c).mem = mem /\ Console(c).start = start /\ Console(c).fg = (c = fg)
  BY DEF Console
<1>4. c = fg => start = vc[c].origin
  BY DEF ConsoleInv
<1> QED
  BY <1>1, <1>2, <1>3, <1>4 DEF Sound

(* The text of a console, before and after a step *)
LEMMA TextIs ==
    /\ Text = [c \in Con |-> Text[c]] /\ Text' = [c \in Con |-> Text'[c]]
    /\ \A c \in Con : Text[c] = Grid(Console(c)) /\ Text'[c] = Grid(Console(c)')
<1>1. Text = [c \in Con |-> Text[c]] /\ Text' = [c \in Con |-> Text'[c]]
  BY DEF Text
<1>2. ASSUME NEW c \in Con PROVE Text[c] = Grid(Console(c)) /\ Text'[c] = Grid(Console(c)')
  <2>1. Text[c] = Grid(Console(c))
    BY DEF Text, Grid, Cells, Cell, Console, Row, Col
  <2>2. Text'[c] = Grid(Console(c)')
    BY DEF Text, Grid, Cells, Cell, Console, Row, Col
  <2> QED
    BY <2>1, <2>2
<1> QED
  BY <1>1, <1>2

(* The screen of a console depends on its own memory only. *)
LEMMA GridElsewhere ==
    ASSUME NEW STATE k, Sound(k), NEW n, n.v = k.v, \A a \in Address : k.v.start <= a /\ a < k.v.end => n.mem[a] = k.mem[a]
    PROVE  Grid(n) = Grid(k)
<1>1. ASSUME NEW r \in Row, NEW i \in Col PROVE Cell(n, r, i) = Cell(k, r, i)
  BY PlaceIn DEF Cell
<1>2. Cells(n) = Cells(k)
  BY <1>1 DEF Cells
<1> QED
  BY <1>2 DEF Grid

(* What is written on one console is a step of its screen and of no other. *)
LEMMA InstallKeeps ==
    ASSUME ConsoleInv, NEW c \in Con, NEW STATE m, Good(Console(c), m), Install(c, m)
    PROVE  ConsoleInv' /\ [S!Next]_Text
<1> DEFINE k == Console(c)
<1>1. Sound(k) /\ k.v = vc[c] /\ k.mem = mem /\ k.start = start /\ k.fg = (c = fg)
  BY EachSound
<1>2. Sound(m) /\ Keeps(k, m) /\ Allowed(Grid(k), Grid(m))
  BY DEF Good
<1>3. m.v \in VcStruct /\ m.mem \in [Address -> Int] /\ InPlace(m.v) /\ m.fg \in BOOLEAN
  BY <1>2, SoundFields
<1>4. mem' = m.mem /\ start' = m.start /\ vc' = [vc EXCEPT ![c] = m.v] /\ egac' = egac /\ fg' = fg
  BY DEF Install
<1>5. vc \in [Con -> VcStruct] /\ fg \in Con /\ egac \in BOOLEAN /\ start = vc[fg].origin
  BY DEF ConsoleInv
<1>6. vc'[c] = m.v /\ \A d \in Con : d # c => vc'[d] = vc[d]
  BY <1>4, <1>5
<1> HIDE DEF k
<1>7. ConsoleInv'
  <2>1. vc' \in [Con -> VcStruct]
    BY <1>3, <1>4, <1>5
  <2>2. ASSUME NEW d \in Con PROVE AtHome(d)'
    <3>1. AtHome(d)
      BY DEF ConsoleInv
    <3>2. CASE d = c
      <4>1. m.v.start = HomeStart(d) /\ m.v.end = HomeEnd(d)
        BY <1>1, <1>2, <3>1, <3>2 DEF Keeps, AtHome
      <4>2. vc'[d] = m.v
        BY <1>6, <3>2
      <4> QED
        BY <1>3, <1>4, <4>1, <4>2 DEF AtHome, InPlace, HomeStart, HomeEnd
    <3>3. CASE d # c
      <4>1. vc'[d] = vc[d]
        BY <1>6, <3>3
      <4> QED
        BY <1>4, <3>1, <4>1 DEF AtHome, InPlace, HomeStart, HomeEnd
    <3> QED
      BY <3>2, <3>3
  <2>3. start' = vc'[fg'].origin
    <3>1. CASE c = fg
      <4>1. m.fg
        BY <1>1, <1>2, <3>1 DEF Keeps
      <4>2. m.start = m.v.origin
        BY <1>2, <4>1 DEF Sound
      <4> QED
        BY <1>4, <1>6, <3>1, <4>2
    <3>2. CASE c # fg
      <4>1. m.start = start
        BY <1>1, <1>2, <3>2 DEF Keeps
      <4> QED
        BY <1>4, <1>5, <1>6, <3>2, <4>1
    <3> QED
      BY <3>1, <3>2
  <2> QED
    BY <1>3, <1>4, <1>5, <2>1, <2>2, <2>3 DEF ConsoleInv
<1>8. ASSUME NEW d \in Con, d # c PROVE Text'[d] = Text[d]
  <2> DEFINE l == Console(d)
             n == Console(d)'
  <2>1. Sound(l) /\ l.v = vc[d] /\ l.mem = mem
    BY EachSound
  <2>2. n.v = vc'[d] /\ n.mem = mem'
    BY DEF Console
  <2>3. Text[d] = Grid(l) /\ Text'[d] = Grid(n)
    BY TextIs
  <2>4. /\ HomeStart(c) \in Nat /\ HomeEnd(c) \in Nat /\ HomeStart(d) \in Nat /\ HomeEnd(d) \in Nat
        /\ HomeEnd(c) <= HomeStart(d) \/ HomeEnd(d) <= HomeStart(c)
    BY <1>8, Homes
  <2>5. vc[c].start = HomeStart(c) /\ vc[c].end = HomeEnd(c) /\ vc[d].start = HomeStart(d) /\ vc[d].end = HomeEnd(d)
    BY DEF ConsoleInv, AtHome
  <2>6. \A a \in Address : a \notin HomeStart(c)..HomeEnd(c) - 1 => mem'[a] = mem[a]
    BY <1>1, <1>2, <1>4, <2>5 DEF Keeps, Outside
  <2>7. ASSUME NEW a \in Address, HomeStart(d) <= a, a < HomeEnd(d) PROVE mem'[a] = mem[a]
    <3>1. a \in Nat
      BY Buffers
    <3>2. a \notin HomeStart(c)..HomeEnd(c) - 1
      BY <2>4, <2>7, <3>1
    <3> QED
      BY <2>6, <3>2
  <2> HIDE DEF l, n
  <2>8. \A a \in Address : l.v.start <= a /\ a < l.v.end => n.mem[a] = l.mem[a]
    BY <2>1, <2>2, <2>5, <2>7
  <2>9. n.v = l.v
    BY <1>6, <1>8, <2>1, <2>2
  <2>10. Grid(n) = Grid(l)
    BY <2>1, <2>8, <2>9, GridElsewhere
  <2> QED
    BY <2>3, <2>10
<1>9. Text[c] = Grid(k) /\ Text'[c] = Grid(m)
  <2> DEFINE n == Console(c)'
  <2>1. Text[c] = Grid(k) /\ Text'[c] = Grid(n)
    BY TextIs DEF k
  <2>2. n.v = m.v /\ n.mem = m.mem
    BY <1>4, <1>6 DEF Console
  <2> HIDE DEF n
  <2>3. Grid(n) = Grid(m)
    BY <2>2 DEF Grid, Cells, Cell
  <2> QED
    BY <2>1, <2>3
<1>10. [S!Next]_Text
  <2>1. CASE Text'[c] = Text[c]
    <3>1. \A d \in Con : Text'[d] = Text[d]
      BY <1>8, <2>1
    <3>2. Text' = Text
      BY <3>1, TextIs
    <3> QED
      BY <3>2
  <2>2. CASE Text'[c] # Text[c]
    <3>1. \/ S!Moves(Text[c], Text'[c]) \/ S!Frames(Text[c], Text'[c]) \/ Text'[c] = S!Save(Text[c])
          \/ S!Writes(Text[c], Text'[c])
      BY <1>2, <1>9, <2>2 DEF Allowed
    <3>2. \A d \in Con \ {c} : Text'[d] = Text[d]
      BY <1>8
    <3>3. S!Next
      BY <3>1, <3>2 DEF S!Next
    <3> QED
      BY <3>3
  <2> QED
    BY <2>1, <2>2
<1> QED
  BY <1>7, <1>10

(* con_write takes a character. *)
LEMMA WriteKeeps ==
    ASSUME ConsoleInv, NEW c \in Con, con_write(c) PROVE ConsoleInv' /\ [S!Next]_Text
<1>1. PICK x \in Input(vc[c].state) : Install(c, Parse(Console(c), x))
  BY DEF con_write
<1>2. Good(Console(c), Parse(Console(c), x))
  BY EachSound, ParseGood
<1> DEFINE m == Parse(Console(c), x)
<1> HIDE DEF m
<1>3. Good(Console(c), m) /\ Install(c, m)
  BY <1>1, <1>2 DEF m
<1> QED
  BY <1>3, InstallKeeps

(* console_print writes on the console in the foreground. *)
LEMMA PrintKeeps ==
    ASSUME ConsoleInv, console_print PROVE ConsoleInv' /\ [S!Next]_Text
<1> DEFINE k == Console(fg)
           M(x) == CASE x = "lf" -> lf(cr(k)) [] x = "cr" -> cr(k) [] OTHER -> put(k)
<1>1. fg \in Con /\ Sound(k)
  <2>1. fg \in Con
    BY DEF ConsoleInv
  <2> QED
    BY <2>1, EachSound
<1>2. PICK x \in {"lf", "cr", "x"} : Install(fg, M(x))
  BY DEF console_print
<1> HIDE DEF k
<1>3. Good(k, M(x))
  BY <1>1, GoodChars
<1> HIDE DEF M
<1>4. Good(Console(fg), M(x))
  BY <1>3 DEF k
<1> DEFINE m == M(x)
<1> HIDE DEF m
<1>5. Good(Console(fg), m) /\ Install(fg, m)
  BY <1>2, <1>4 DEF m
<1> QED
  BY <1>1, <1>5, InstallKeeps

-----------------------------------------------------------------------------
(* The switch of consoles *)

(* What a copy of a screen writes *)
LEMMA CopiedIs ==
    ASSUME NEW STATE m, m \in [Address -> Int], NEW STATE to, to \in Nat, NEW STATE from, from \in Nat,
           from + screen_size <= MemEnd, to + screen_size <= MemEnd
    PROVE  /\ Copied(m, to, from) \in [Address -> Int]
           /\ \A i \in 0..screen_size - 1 : Copied(m, to, from)[to + i] = m[from + i]
           /\ \A a \in Address : ~(to <= a /\ a < to + screen_size) => Copied(m, to, from)[a] = m[a]
<1> DEFINE g == Copied(m, to, from)
<1>1. Address = 0..MemEnd - 1 /\ MemEnd \in Nat /\ screen_size \in Nat
  BY Buffers, Sizes
<1>2. g = [a \in Address |-> IF a \in to..to + screen_size - 1 THEN m[from + a - to] ELSE m[a]]
  BY DEF Copied
<1> HIDE DEF g
<1>3. \A a \in Address : a \in to..to + screen_size - 1 => from + a - to \in Address
  BY <1>1
<1>4. g \in [Address -> Int]
  BY <1>2, <1>3
<1>5. ASSUME NEW i \in 0..screen_size - 1 PROVE g[to + i] = m[from + i]
  <2>1. to + i \in Address /\ to + i \in to..to + screen_size - 1 /\ from + (to + i) - to = from + i
    BY <1>1
  <2> QED
    BY <1>2, <2>1
<1>6. ASSUME NEW a \in Address, ~(to <= a /\ a < to + screen_size) PROVE g[a] = m[a]
  <2>1. a \notin to..to + screen_size - 1
    BY <1>1, <1>6
  <2> QED
    BY <1>2, <2>1
<1> QED
  BY <1>4, <1>5, <1>6 DEF g

(* A console not in the foreground fills its buffer. *)
LEMMA BufferFull ==
    ASSUME ConsoleInv, NEW c \in Con, c # fg PROVE vc[c].origin = ScrBuf(c)
<1>1. InPlace(vc[c]) /\ vc[c].start = ScrBuf(c) /\ vc[c].end = ScrBuf(c) + screen_size
  BY DEF ConsoleInv, AtHome, HomeStart, HomeEnd
<1>2. vc[c].origin \in Nat /\ ScrBuf(c) \in Nat /\ screen_size \in Nat
  <2>1. vc[c] \in VcStruct
    BY DEF ConsoleInv
  <2> QED
    BY <2>1, Buffers, Sizes DEF VcStruct
<1>3. vc[c].origin + screen_size <= vc[c].end /\ vc[c].start <= vc[c].origin
  BY <1>1 DEF InPlace
<1> QED
  BY <1>1, <1>2, <1>3

(* The text of a console moves with it. *)
LEMMA GridMoved ==
    ASSUME NEW k, NEW n, k.v.origin \in Nat, n.v.origin \in Nat,
           \A i \in 0..screen_size - 1 : n.mem[n.v.origin + i] = k.mem[k.v.origin + i],
           n.v.x = k.v.x, n.v.y = k.v.y, n.v.top = k.v.top, n.v.bottom = k.v.bottom, n.v.sx = k.v.sx, n.v.sy = k.v.sy
    PROVE  Grid(n) = Grid(k)
<1>1. ASSUME NEW r \in Row, NEW i \in Col PROVE Cell(n, r, i) = Cell(k, r, i)
  <2> DEFINE R == r * Cols
             a == R + i
             ok == k.v.origin
             on == n.v.origin
  <2>1. R \in Nat /\ R + Cols <= screen_size /\ i \in Nat /\ i < Cols /\ screen_size \in Nat /\ Cols \in Nat
    BY Place, Sizes DEF Col
  <2>2. Cell(n, r, i) = n.mem[on + R + i] /\ Cell(k, r, i) = k.mem[ok + R + i]
    BY DEF Cell
  <2>3. ok \in Nat /\ on \in Nat
    OBVIOUS
  <2> HIDE DEF R, ok, on
  <2>4. a \in 0..screen_size - 1 /\ on + R + i = on + a /\ ok + R + i = ok + a
    BY <2>1, <2>3
  <2> HIDE DEF a
  <2>5. n.mem[on + a] = k.mem[ok + a]
    BY <2>4 DEF on, ok
  <2> QED
    BY <2>2, <2>4, <2>5
<1>2. Cells(n) = Cells(k)
  BY <1>1 DEF Cells
<1> QED
  BY <1>2 DEF Grid

PlacedAs(w, v, s, e) ==
    /\ w \in VcStruct /\ w.start = s /\ w.origin = s /\ w.end = e
    /\ w.scr_end = s + screen_size /\ w.pos = s + v.y * Cols + v.x
    /\ w.x = v.x /\ w.y = v.y /\ w.top = v.top /\ w.bottom = v.bottom /\ w.sx = v.sx /\ w.sy = v.sy

(* Where a console is after a switch *)
LEMMA PlacedIs ==
    ASSUME NEW STATE v, v \in VcStruct, NEW STATE s, s \in Nat, NEW STATE e, e \in Nat
    PROVE  PlacedAs(Placed(v, s, e), v, s, e)
<1> DEFINE z == s + screen_size
           R == v.y * Cols
           p == s + R + v.x
           w == Placed(v, s, e)
<1>1. v.y \in 0..Lines - 1 /\ v.x \in 0..Cols
  BY DEF VcStruct
<1>2. z \in Nat /\ p \in Nat
  <2>1. R \in Nat
    BY <1>1, Rows, Sizes
  <2> HIDE DEF R
  <2> QED
    BY <1>1, <2>1, Sizes
<1>3. w = [v EXCEPT !.start = s, !.origin = s, !.end = e, !.scr_end = z, !.pos = p]
  BY DEF Placed
<1> HIDE DEF z, p, w
<1>4. /\ w \in VcStruct /\ w.start = s /\ w.origin = s /\ w.end = e /\ w.scr_end = z /\ w.pos = p
      /\ w.x = v.x /\ w.y = v.y /\ w.top = v.top /\ w.bottom = v.bottom /\ w.sx = v.sx /\ w.sy = v.sy
  BY <1>2, <1>3 DEF VcStruct
<1> QED
  BY <1>4 DEF w, z, p, PlacedAs

(* update_screen exchanges two screens and changes no text. *)
LEMMA SwitchKeeps ==
    ASSUME ConsoleInv, NEW new \in Con, update_screen(new) PROVE ConsoleInv' /\ Text' = Text
<1> DEFINE Z == screen_size
           old == fg
           m1 == get_scrmem(mem)
           m2 == Copied(m1, 0, ScrBuf(new))
           vo == Placed(vc[fg], ScrBuf(fg), ScrBuf(fg) + screen_size)
           vn == Placed(vc[new], 0, VideoCells)
<1>1. /\ new # fg /\ mem' = m2 /\ fg' = new /\ egac' = egac
      /\ start' = IF egac THEN 0 ELSE start
  BY DEF update_screen
<1>2. /\ vc \in [Con -> VcStruct] /\ fg \in Con /\ egac \in BOOLEAN /\ start = vc[fg].origin /\ mem \in [Address -> Int]
      /\ \A c \in Con : AtHome(c)
  BY DEF ConsoleInv
<1>3. vc' = [vc EXCEPT ![fg] = vo, ![new] = vn]
  BY <1>1, <1>2 DEF update_screen
<1>4. /\ Z \in Nat /\ VideoCells \in Nat /\ Z <= VideoCells /\ MemEnd \in Nat /\ VideoCells <= MemEnd
      /\ Address = 0..MemEnd - 1
      /\ \A c \in Con : c \in Nat /\ ScrBuf(c) \in Nat /\ VideoCells <= ScrBuf(c) /\ ScrBuf(c) + Z <= MemEnd
  BY Buffers, Sizes
<1>5. \A c, d \in Con : c # d => ScrBuf(c) + Z <= ScrBuf(d) \/ ScrBuf(d) + Z <= ScrBuf(c)
  <2>1. \A c, d \in Con : (c < d => ScrBuf(c) + Z <= ScrBuf(d)) /\ (d < c => ScrBuf(d) + Z <= ScrBuf(c))
    BY Buffers
  <2> QED
    BY <1>4, <2>1
<1>6. vc[fg].origin \in Nat /\ vc[fg].origin + Z <= MemEnd
  <2>1. Sound(Console(fg)) /\ Console(fg).v = vc[fg]
    BY <1>2, EachSound
  <2>2. InPlace(vc[fg]) /\ Fields(vc[fg])
    BY <2>1, SoundFields
  <2>3. vc[fg].origin \in Nat /\ vc[fg].end \in Nat /\ vc[fg].scr_end = vc[fg].origin + Z
        /\ vc[fg].scr_end <= vc[fg].end /\ vc[fg].end <= MemEnd
    BY <2>2 DEF Fields, InPlace
  <2> QED
    BY <1>4, <2>3
<1> HIDE DEF Z
<1>7. /\ m1 \in [Address -> Int]
      /\ \A i \in 0..Z - 1 : m1[ScrBuf(fg) + i] = mem[vc[fg].origin + i]
      /\ \A a \in Address : ~(ScrBuf(fg) <= a /\ a < ScrBuf(fg) + Z) => m1[a] = mem[a]
  <2>1. m1 = Copied(mem, ScrBuf(fg), vc[fg].origin)
    BY DEF get_scrmem
  <2>2. /\ ScrBuf(fg) \in Nat /\ ScrBuf(fg) + screen_size <= MemEnd
        /\ vc[fg].origin \in Nat /\ vc[fg].origin + screen_size <= MemEnd /\ mem \in [Address -> Int]
    BY <1>2, <1>4, <1>6 DEF Z
  <2> HIDE DEF m1
  <2> QED
    BY <2>1, <2>2, CopiedIs DEF Z
<1> HIDE DEF m1
<1>8. /\ m2 \in [Address -> Int]
      /\ \A i \in 0..Z - 1 : m2[0 + i] = m1[ScrBuf(new) + i]
      /\ \A a \in Address : ~(0 <= a /\ a < 0 + Z) => m2[a] = m1[a]
  <2>1. 0 \in Nat /\ 0 + screen_size <= MemEnd /\ ScrBuf(new) \in Nat /\ ScrBuf(new) + screen_size <= MemEnd
    BY <1>4 DEF Z
  <2> QED
    BY <1>7, <2>1, CopiedIs DEF Z
<1> HIDE DEF m2
<1>9. /\ vo \in VcStruct /\ vn \in VcStruct
      /\ vo.start = ScrBuf(fg) /\ vo.origin = ScrBuf(fg) /\ vo.end = ScrBuf(fg) + screen_size
      /\ vn.start = 0 /\ vn.origin = 0 /\ vn.end = VideoCells
      /\ vo.top = vc[fg].top /\ vo.bottom = vc[fg].bottom /\ vn.top = vc[new].top /\ vn.bottom = vc[new].bottom
      /\ vo.x = vc[fg].x /\ vo.y = vc[fg].y /\ vo.sx = vc[fg].sx /\ vo.sy = vc[fg].sy
      /\ vn.x = vc[new].x /\ vn.y = vc[new].y /\ vn.sx = vc[new].sx /\ vn.sy = vc[new].sy
  <2> DEFINE e == ScrBuf(fg) + screen_size
             f == vc[fg]
             g == vc[new]
             s == ScrBuf(fg)
  <2>1. f \in VcStruct /\ g \in VcStruct /\ e \in Nat /\ s \in Nat /\ 0 \in Nat /\ VideoCells \in Nat
    BY <1>2, <1>4 DEF Z
  <2>2. vo = Placed(f, s, e) /\ vn = Placed(g, 0, VideoCells)
    OBVIOUS
  <2> HIDE DEF vo, vn, e, f, g, s
  <2>3. PlacedAs(vo, f, s, e) /\ PlacedAs(vn, g, 0, VideoCells)
    BY <2>1, <2>2, PlacedIs
  <2>4. /\ vo \in VcStruct /\ vo.start = s /\ vo.origin = s /\ vo.end = e
        /\ vo.top = f.top /\ vo.bottom = f.bottom /\ vo.x = f.x /\ vo.y = f.y /\ vo.sx = f.sx /\ vo.sy = f.sy
    BY <2>3 DEF PlacedAs
  <2>5. /\ vn \in VcStruct /\ vn.start = 0 /\ vn.origin = 0 /\ vn.end = VideoCells
        /\ vn.top = g.top /\ vn.bottom = g.bottom /\ vn.x = g.x /\ vn.y = g.y /\ vn.sx = g.sx /\ vn.sy = g.sy
    BY <2>3 DEF PlacedAs
  <2> QED
    BY <2>4, <2>5 DEF e, f, g, s
<1>10. InPlace(vo) /\ InPlace(vn)
  <2>1. vc[fg].top < vc[fg].bottom /\ vc[new].top < vc[new].bottom
    BY <1>2 DEF AtHome, InPlace
  <2>2. vo.pos = ScrBuf(fg) + vc[fg].y * Cols + vc[fg].x /\ vo.scr_end = ScrBuf(fg) + screen_size
    <3> DEFINE e == ScrBuf(fg) + screen_size
               f == vc[fg]
               s == ScrBuf(fg)
    <3>1. f \in VcStruct /\ e \in Nat /\ s \in Nat
      BY <1>2, <1>4 DEF Z
    <3>2. vo = Placed(f, s, e)
      OBVIOUS
    <3> HIDE DEF vo, e, f, s
    <3>3. vo.pos = s + f.y * Cols + f.x /\ vo.scr_end = s + screen_size
      <4>1. PlacedAs(vo, f, s, e)
        BY <3>1, <3>2, PlacedIs
      <4> QED
        BY <4>1 DEF PlacedAs
    <3> QED
      BY <3>3 DEF s, f
  <2>3. vn.pos = 0 + vc[new].y * Cols + vc[new].x /\ vn.scr_end = 0 + screen_size
    <3>1. PlacedAs(vn, vc[new], 0, VideoCells)
      BY <1>2, <1>4, PlacedIs
    <3> QED
      BY <3>1 DEF PlacedAs
  <2>4. screen_size \in Nat /\ 0 + screen_size <= VideoCells /\ ScrBuf(fg) + screen_size <= MemEnd /\ VideoCells <= MemEnd
        /\ ScrBuf(fg) \in Nat /\ VideoCells \in Nat
    BY <1>2, <1>4 DEF Z
  <2> HIDE DEF vo, vn
  <2>5. InPlace(vo)
    BY <1>9, <2>1, <2>2, <2>4 DEF InPlace
  <2>6. InPlace(vn)
    BY <1>9, <2>1, <2>3, <2>4 DEF InPlace
  <2> QED
    BY <2>5, <2>6
<1> HIDE DEF vo, vn
<1>11. vc'[fg] = vo /\ vc'[new] = vn /\ (\A c \in Con : c # fg /\ c # new => vc'[c] = vc[c]) /\ vc' \in [Con -> VcStruct]
  BY <1>1, <1>2, <1>3, <1>9
<1>12. ConsoleInv'
  <2>1. ASSUME NEW c \in Con PROVE AtHome(c)'
    <3>1. CASE c = old
      <4>1. vc'[c] = vo /\ c # fg'
        BY <1>1, <1>11, <3>1
      <4>2. vo.start = ScrBuf(c) /\ vo.end = ScrBuf(c) + screen_size
        BY <1>9, <3>1
      <4> QED
        BY <1>1, <1>10, <4>1, <4>2 DEF AtHome, InPlace, HomeStart, HomeEnd
    <3>2. CASE c = new
      <4>1. vc'[c] = vn /\ c = fg'
        BY <1>1, <1>11, <3>2
      <4> QED
        BY <1>1, <1>9, <1>10, <4>1 DEF AtHome, InPlace, HomeStart, HomeEnd
    <3>3. CASE c # old /\ c # new
      <4>1. vc'[c] = vc[c] /\ c # fg' /\ c # fg /\ AtHome(c)
        BY <1>1, <1>2, <1>11, <3>3
      <4> QED
        BY <1>1, <4>1 DEF AtHome, InPlace, HomeStart, HomeEnd
    <3> QED
      BY <3>1, <3>2, <3>3
  <2>2. start' = vc'[fg'].origin
    <3>1. vc'[fg'].origin = 0
      BY <1>1, <1>9, <1>11
    <3>2. CASE egac
      BY <1>1, <3>1, <3>2
    <3>3. CASE ~egac
      <4>1. vc[fg].origin = 0
        BY <1>2, <3>3 DEF AtHome, InPlace, HomeStart
      <4> QED
        BY <1>1, <1>2, <3>1, <3>3, <4>1
    <3> QED
      BY <3>2, <3>3
  <2> QED
    BY <1>1, <1>2, <1>8, <1>11, <2>1, <2>2 DEF ConsoleInv
<1>13. ASSUME NEW c \in Con PROVE Text'[c] = Text[c]
  <2> DEFINE k == Console(c)
             n == Console(c)'
  <2>1. k.v = vc[c] /\ k.mem = mem /\ n.v = vc'[c] /\ n.mem = m2
    BY <1>1 DEF Console
  <2>2. Text[c] = Grid(k) /\ Text'[c] = Grid(n)
    BY TextIs
  <2> HIDE DEF k, n
  <2>3. vc[c].origin \in Nat /\ vc'[c].origin \in Nat
    BY <1>2, <1>11 DEF VcStruct
  <2>4. \A i \in 0..Z - 1 : m2[vc'[c].origin + i] = mem[vc[c].origin + i]
    <3> SUFFICES ASSUME NEW i \in 0..Z - 1 PROVE m2[vc'[c].origin + i] = mem[vc[c].origin + i]
      OBVIOUS
    <3> DEFINE a == ScrBuf(c) + i
    <3>1. a \in Address /\ ~(0 <= a /\ a < 0 + Z) /\ 0 + i = i
      BY <1>4
    <3>2. c # fg => ~(ScrBuf(fg) <= a /\ a < ScrBuf(fg) + Z)
      <4>1. c # fg => ScrBuf(c) + Z <= ScrBuf(fg) \/ ScrBuf(fg) + Z <= ScrBuf(c)
        BY <1>2, <1>5
      <4>2. ScrBuf(c) \in Nat /\ ScrBuf(fg) \in Nat
        BY <1>2, <1>4
      <4> QED
        BY <1>4, <4>1, <4>2
    <3>3. c # fg => vc[c].origin = ScrBuf(c)
      BY BufferFull
    <3>4. CASE c = fg
      <4>1. vc'[c].origin = ScrBuf(c)
        BY <1>9, <1>11, <3>4
      <4>2. m2[a] = m1[a]
        BY <1>8, <3>1
      <4>3. m1[ScrBuf(fg) + i] = mem[vc[fg].origin + i]
        BY <1>7
      <4> QED
        BY <3>4, <4>1, <4>2, <4>3
    <3>5. CASE c = new
      <4>1. vc'[c].origin = 0 /\ c # fg
        BY <1>1, <1>9, <1>11, <3>5
      <4>2. m2[0 + i] = m1[a]
        BY <1>8, <3>5
      <4>3. m1[a] = mem[a]
        BY <1>7, <3>1, <3>2, <4>1
      <4> QED
        BY <3>3, <4>1, <4>2, <4>3
    <3>6. CASE c # fg /\ c # new
      <4>1. vc'[c].origin = ScrBuf(c)
        BY <1>11, <3>3, <3>6
      <4>2. m2[a] = m1[a] /\ m1[a] = mem[a]
        BY <1>7, <1>8, <3>1, <3>2, <3>6
      <4> QED
        BY <3>3, <3>6, <4>1, <4>2
    <3> QED
      BY <3>4, <3>5, <3>6
  <2>5. /\ vc'[c].x = vc[c].x /\ vc'[c].y = vc[c].y /\ vc'[c].top = vc[c].top /\ vc'[c].bottom = vc[c].bottom
        /\ vc'[c].sx = vc[c].sx /\ vc'[c].sy = vc[c].sy
    <3>1. CASE c = fg
      BY <1>9, <1>11, <3>1
    <3>2. CASE c = new
      BY <1>9, <1>11, <3>2
    <3>3. CASE c # fg /\ c # new
      BY <1>11, <3>3
    <3> QED
      BY <3>1, <3>2, <3>3
  <2>6. Grid(n) = Grid(k)
    BY <2>1, <2>3, <2>4, <2>5, GridMoved DEF Z
  <2> QED
    BY <2>2, <2>6
<1> QED
  BY <1>12, <1>13, TextIs

(* A screen as con_init leaves it *)
Fresh(w, s, e, x, y) ==
    /\ w \in VcStruct /\ InPlace(w) /\ w.start = s /\ w.end = e /\ w.origin = s
    /\ w.x = x /\ w.y = y /\ w.top = 0 /\ w.bottom = Lines /\ w.sx = 0 /\ w.sy = 0

(* con_init leaves a console in place. *)
LEMMA ScreenfulIs ==
    ASSUME NEW STATE s, s \in Nat, NEW STATE e, e \in Nat, NEW STATE x, x \in 0..Cols, NEW STATE y, y \in 0..Lines - 1,
           s + screen_size <= e, e <= MemEnd
    PROVE  Fresh(Screenful(s, e, x, y), s, e, x, y)
<1> DEFINE w == Screenful(s, e, x, y)
           R == y * Cols
           q == s + R + x
           z == s + screen_size
<1>1. /\ 0 \in 0..Cols /\ 0 \in 0..Lines - 1 /\ 0 \in 0..Lines /\ Lines \in 0..Lines /\ 0 < Lines
      /\ screen_size \in Nat
  BY Sizes
<1>2. q \in Nat /\ z \in Nat
  <2>1. R \in Nat
    BY Rows, Sizes
  <2> HIDE DEF R
  <2> QED
    BY <1>1, <2>1, Sizes
<1>3. w = [origin |-> s, start |-> s, end |-> e, scr_end |-> z, x |-> x, y |-> y,
           pos |-> q, top |-> 0, bottom |-> Lines, sx |-> 0, sy |-> 0,
           state |-> "ESnormal", npar |-> 0, par |-> NoPars, ques |-> FALSE]
  BY DEF Screenful
<1>4. NoPars \in [0..NPAR - 1 -> Nat] /\ 0 \in 0..NPAR - 1 /\ "ESnormal" \in States
  BY Sizes DEF NoPars, States
<1>5. q = s + y * Cols + x /\ z = s + screen_size /\ z <= e /\ s <= s
  OBVIOUS
<1> HIDE DEF w, q, z, R
<1>6. w \in VcStruct
  BY <1>1, <1>2, <1>3, <1>4 DEF VcStruct
<1>7. /\ w.origin = s /\ w.start = s /\ w.end = e /\ w.scr_end = z /\ w.x = x /\ w.y = y /\ w.pos = q
      /\ w.top = 0 /\ w.bottom = Lines /\ w.sx = 0 /\ w.sy = 0
  BY <1>3
<1>8. InPlace(w)
  <2>1. w.pos = w.origin + w.y * Cols + w.x /\ w.scr_end = w.origin + screen_size
    BY <1>5, <1>7
  <2>2. w.start <= w.origin /\ w.scr_end <= w.end /\ w.end <= MemEnd /\ w.top < w.bottom /\ w.origin = w.start
    BY <1>1, <1>5, <1>7
  <2> QED
    BY <2>1, <2>2 DEF InPlace
<1> QED
  BY <1>6, <1>7, <1>8 DEF w, Fresh

(* con_init *)
LEMMA InitHolds == Init => ConsoleInv /\ S!Init
<1> SUFFICES ASSUME Init PROVE ConsoleInv /\ S!Init
  OBVIOUS
<1>1. PICK p \in Boot :
        vc = [c \in Con |-> IF c = 0 THEN Screenful(0, VideoCells, p[1], p[2])
                            ELSE Screenful(ScrBuf(c), ScrBuf(c) + screen_size, 0, 0)]
  BY DEF Init
<1>2. /\ 0 \in Con /\ p[1] \in 0..Cols /\ p[2] \in 0..Lines - 1 /\ 0 \in 0..Cols /\ 0 \in 0..Lines - 1
      /\ 0 \in 0..Lines /\ Lines \in 0..Lines /\ 0 < Lines
  <2>1. p \in (0..Cols - 1) \X (0..Lines - 1) /\ 0 \in Con
    BY ConsoleSizes
  <2> QED
    BY <2>1, Sizes
<1>3. /\ screen_size \in Nat /\ VideoCells \in Nat /\ screen_size <= VideoCells /\ MemEnd \in Nat /\ VideoCells <= MemEnd
      /\ Address = 0..MemEnd - 1
      /\ \A c \in Con : ScrBuf(c) \in Nat /\ ScrBuf(c) + screen_size <= MemEnd
  BY Buffers, Sizes
<1>5. fg = 0 /\ start = 0 /\ egac \in BOOLEAN
  BY DEF Init
<1>6. ASSUME NEW c \in Con
      PROVE  /\ vc[c] \in VcStruct /\ AtHome(c) /\ (c = fg => vc[c].origin = 0)
             /\ vc[c].x \in 0..Cols /\ vc[c].y \in 0..Lines - 1 /\ vc[c].top = 0 /\ vc[c].bottom = Lines
             /\ vc[c].sx = 0 /\ vc[c].sy = 0
  <2>1. CASE c = 0
    <3> DEFINE w == Screenful(0, VideoCells, p[1], p[2])
    <3>1. vc[c] = w
      BY <1>1, <2>1
    <3>2. 0 \in Nat /\ 0 + screen_size <= VideoCells
      BY <1>3
    <3>3. Fresh(w, 0, VideoCells, p[1], p[2])
      BY <1>2, <1>3, <3>2, ScreenfulIs
    <3> HIDE DEF w
    <3> QED
      BY <1>2, <1>5, <2>1, <3>1, <3>3 DEF AtHome, HomeStart, HomeEnd, Fresh
  <2>2. CASE c # 0
    <3> DEFINE e == ScrBuf(c) + screen_size
               w == Screenful(ScrBuf(c), e, 0, 0)
    <3>1. vc[c] = w
      BY <1>1, <2>2
    <3>2. ScrBuf(c) \in Nat /\ e \in Nat /\ ScrBuf(c) + screen_size <= e /\ e <= MemEnd
      BY <1>3
    <3>3. e = ScrBuf(c) + screen_size
      OBVIOUS
    <3> HIDE DEF e
    <3>4. Fresh(w, ScrBuf(c), e, 0, 0)
      BY <1>2, <3>2, ScreenfulIs
    <3> HIDE DEF w
    <3> QED
      BY <1>2, <1>5, <2>2, <3>1, <3>3, <3>4 DEF AtHome, HomeStart, HomeEnd, Fresh
  <2> QED
    BY <2>1, <2>2
<1>7. mem \in [Address -> Int]
  <2>1. mem = [a \in Address |-> IF a < VideoCells THEN a ELSE Erased]
    BY DEF Init
  <2> QED
    BY <1>3, <2>1 DEF Erased
<1>8. vc \in [Con -> VcStruct]
  <2>1. vc = [c \in Con |-> vc[c]]
    BY <1>1
  <2> QED
    BY <1>6, <2>1
<1>9. ConsoleInv
  BY <1>2, <1>5, <1>6, <1>7, <1>8 DEF ConsoleInv
<1>10. S!Init
  BY <1>6 DEF S!Init, S!Row, Text
<1> QED
  BY <1>9, <1>10

(* Every step keeps the invariant and is a step of module Screen. *)
LEMMA NextKeeps == ASSUME ConsoleInv, [Next]_vars PROVE ConsoleInv' /\ [S!Next]_Text
<1>1. ASSUME NEW c \in Con, con_write(c) PROVE ConsoleInv' /\ [S!Next]_Text
  BY <1>1, WriteKeeps
<1>2. ASSUME NEW c \in Con, update_screen(c) PROVE ConsoleInv' /\ [S!Next]_Text
  BY <1>2, SwitchKeeps
<1>3. CASE console_print
  BY <1>3, PrintKeeps
<1>4. CASE UNCHANGED vars
  <2>1. ConsoleInv'
    BY <1>4 DEF vars, ConsoleInv, AtHome, InPlace, HomeStart, HomeEnd
  <2>2. Text' = Text
    BY <1>4 DEF vars, Text
  <2> QED
    BY <2>1, <2>2
<1> QED
  BY <1>1, <1>2, <1>3, <1>4 DEF Next

-----------------------------------------------------------------------------
(* The inductive invariant of the consoles holds in every reachable state, *)
(* whatever is written, printed and switched to.                           *)
THEOREM ConsoleInvariant == Spec => []ConsoleInv
<1>1. Init => ConsoleInv
  BY InitHolds
<1>2. ConsoleInv /\ [Next]_vars => ConsoleInv'
  BY NextKeeps
<1> QED
  BY <1>1, <1>2, PTL DEF Spec

(* No sequence of characters, scrolls and switches takes a cursor off its  *)
(* screen, its address off the cursor, or a screen out of its memory.      *)
THEOREM ScreensInPlace == Spec => []Geometry
<1>1. ConsoleInv => Geometry
  <2> SUFFICES ASSUME ConsoleInv, NEW c \in Con
               PROVE  /\ vc[c].x \in 0..Cols /\ vc[c].y \in 0..Lines - 1
                      /\ vc[c].pos = vc[c].origin + vc[c].y * Cols + vc[c].x
                      /\ vc[c].scr_end = vc[c].origin + screen_size
                      /\ vc[c].start <= vc[c].origin /\ vc[c].scr_end <= vc[c].end
                      /\ vc[c].top < vc[c].bottom /\ vc[c].bottom <= Lines
                      /\ vc[c].start = (IF c = fg THEN 0 ELSE ScrBuf(c))
    BY DEF Geometry
  <2>1. vc[c] \in VcStruct /\ AtHome(c)
    BY DEF ConsoleInv
  <2>2. vc[c].x \in 0..Cols /\ vc[c].y \in 0..Lines - 1 /\ vc[c].bottom \in 0..Lines
    BY <2>1 DEF VcStruct
  <2>3. vc[c].bottom <= Lines
    BY <2>2, Sizes
  <2> QED
    BY <2>1, <2>2, <2>3 DEF AtHome, InPlace, HomeStart
<1> QED
  BY <1>1, ConsoleInvariant, PTL

(* The adapter's start address follows the console in the foreground, on   *)
(* an EGA through every scroll and every switch.                           *)
THEOREM AdapterFollows == Spec => []ForegroundShown
<1>1. ConsoleInv => ForegroundShown
  BY DEF ConsoleInv, ForegroundShown
<1> QED
  BY <1>1, ConsoleInvariant, PTL

(* The consoles implement module Screen: each character does to the text   *)
(* of its console one of the things that a VT102 does, or nothing, and to  *)
(* the others nothing; a switch changes no text.                           *)
THEOREM ScreensAreKept == Spec => ImplementsScreen
<1>1. Init => S!Init
  BY InitHolds
<1>2. ConsoleInv /\ [Next]_vars => [S!Next]_Text
  BY NextKeeps
<1> QED
  BY <1>1, <1>2, ConsoleInvariant, PTL DEF Spec, ImplementsScreen, S!Spec
=============================================================================
