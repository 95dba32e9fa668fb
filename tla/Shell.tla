-------------------------------- MODULE Shell --------------------------------
(***************************************************************************)
(* The keyboard and the command line (teclado.c, shell/shell.c): the cell  *)
(* of one character that the interrupt handler writes and the shell reads, *)
(* the line being edited, its image on the screen, and the history.        *)
(*                                                                         *)
(* Characters are the bytes of the source; char is signed, so that an      *)
(* arrow (0x81 to 0x84) is below ' '.  Of the screen only the row of the   *)
(* cursor is kept: the rows below it are always blank.  The output of a    *)
(* command ends in a newline and is left out.                              *)
(***************************************************************************)
EXTENDS Integers, Sequences, FiniteSets, SequencesExt, TLC

CONSTANTS
  Bytes,          \* what the keyboard sends
  MAX_INPUT, HISTORICO_MAX, ARGS_MAX, VGA_COLS,
  Prompt,         \* what prompt() writes
  tabela,         \* names of the commands
  Tecla,          \* the one that reads the keyboard itself, cmd_tecla()
  MaxKeys         \* bound: characters stored by the interrupt handler

Nul == 0
Backspace == 8
Newline == 10
Esc == 27
Space == 32
Arrows == (72 :> 129) @@ (80 :> 130) @@ (75 :> 131) @@ (77 :> 132)
SetaCima == Arrows[72]
SetaBaixo == Arrows[80]

(* The table of teclado.c, from scancode 1 on; 0x73 is the '/' of ABNT2.    *)
Table == <<
  27, 49, 50, 51, 52, 53, 54, 55, 56, 57, 48, 45, 61, 8, 9, 113,
  119, 101, 114, 116, 121, 117, 105, 111, 112, 96, 91, 10, 0, 97, 115, 100,
  102, 103, 104, 106, 107, 108, 59, 39, 39, 0, 93, 122, 120, 99, 118, 98,
  110, 109, 44, 46, 47, 0, 42, 0, 32, 0, 0, 0, 0, 0, 0, 0,
  0, 0, 0, 0, 0, 0, 55, 56, 57, 45, 52, 53, 54, 43, 49, 50,
  51, 48, 46, 0, 0, 92>>
scancode_map == [s \in 0..127 |-> IF s = 115 THEN 47 ELSE IF s \in DOMAIN Table THEN Table[s] ELSE Nul]
Chars == {scancode_map[s] : s \in Bytes \cap 0..127} \cup {Arrows[s] : s \in DOMAIN Arrows}
Printable(c) == c \in Space..127

ASSUME ShellAssumption ==
  /\ Bytes \subseteq 0..255
  /\ MAX_INPUT \in Nat \ {0} /\ HISTORICO_MAX \in Nat \ {0} /\ ARGS_MAX \in Nat \ {0}
  /\ Prompt \in Seq(Space..127) /\ Len(Prompt) < VGA_COLS
  /\ Tecla \in tabela /\ MaxKeys \in Nat

VARIABLES
  ultimo_char,  \* the cell: a character, and which key it is of
  pressed,      \* keys stored so far
  pc, c,        \* of teclado_ultimo_char(): "read" or "clear", and what it read
  done,         \* the last key the shell acted on
  mode,         \* who reads: shell_init() or cmd_tecla()
  input_buf,    \* the line, input_len characters of it
  historico, hist_total, hist_nav,
  argv,         \* what parser() left
  tela,         \* row and column of the cursor, and whether the line went on to another row
  ran           \* the lines that were run

line == <<input_buf, historico, hist_total, hist_nav, argv, ran>>
vars == <<ultimo_char, pressed, pc, c, done, mode, line, tela>>
-----------------------------------------------------------------------------
(* The screen.                                                             *)
BlankRow == [j \in 0..(VGA_COLS - 1) |-> Space]
NewRow(t) == [t EXCEPT !.row = BlankRow, !.cur_col = 0]

(* shell_write_char() on a character, on '\n' and on '\b'.                 *)
Put(t, ch) ==
  LET u == [t EXCEPT !.row[t.cur_col] = ch, !.cur_col = @ + 1]
  IN  IF u.cur_col = VGA_COLS THEN [NewRow(u) EXCEPT !.wrapped = TRUE] ELSE u

Rubout(t) ==
  IF t.cur_col = 0 THEN t
  ELSE [t EXCEPT !.cur_col = @ - 1, !.row[t.cur_col - 1] = Space]

Write(t, s) == FoldLeft(Put, t, s)
WritePrompt(t) == Write([NewRow(t) EXCEPT !.wrapped = FALSE], Prompt)

(* n cells to the left of the cursor are blanked, the column stopping at 0. *)
Erase(t, n) ==
  LET from == IF n > t.cur_col THEN 0 ELSE t.cur_col - n
  IN  [t EXCEPT !.cur_col = from,
                !.row = [j \in DOMAIN t.row |-> IF n > 0 /\ j >= from THEN Space ELSE @[j]]]

NoTela == [row |-> BlankRow, cur_col |-> 0, wrapped |-> FALSE]
-----------------------------------------------------------------------------
NoKey == [ch |-> Nul, n |-> 0]

Init ==
  /\ ultimo_char = NoKey /\ c = NoKey /\ pc = "read"
  /\ pressed = 0 /\ done = 0
  /\ mode = "shell"
  /\ input_buf = <<>>
  /\ historico = [k \in 0..(HISTORICO_MAX - 1) |-> <<>>] /\ hist_total = 0 /\ hist_nav = -1
  /\ argv = <<>> /\ ran = <<>>
  /\ tela = WritePrompt(NoTela)

(***************************************************************************)
(* teclado_handler().  A byte with bit 7 set is a key released and is      *)
(* dropped; 0xE0, the prefix of the arrows, is one of these, which leaves  *)
(* prefixo_e0 at 0, and an arrow its second byte.  A byte without a        *)
(* character leaves the cell alone.                                        *)
(***************************************************************************)
Store(ch) ==
  /\ pressed < MaxKeys
  /\ pressed' = pressed + 1
  /\ ultimo_char' = [ch |-> ch, n |-> pressed + 1]

Typed(s) == s \in 0..127 \ DOMAIN Arrows /\ scancode_map[s] # Nul

teclado_handler ==
  /\ \E s \in Bytes :
       \/ s \in DOMAIN Arrows /\ Store(Arrows[s])
       \/ Typed(s) /\ Store(scancode_map[s])
       \/ s \notin DOMAIN Arrows /\ ~Typed(s) /\ UNCHANGED <<ultimo_char, pressed>>
  /\ UNCHANGED <<pc, c, done, mode, line, tela>>

(* teclado_ultimo_char(), with interrupts enabled between its two steps.   *)
Read ==
  /\ pc = "read"
  /\ pc' = "clear"
  /\ c' = ultimo_char
  /\ UNCHANGED <<ultimo_char, pressed, done, mode, line, tela>>

EmptyLate == UNCHANGED ultimo_char
Empty == ultimo_char' = NoKey

(* The read ends, and with it the turn of the loop that asked for it: what *)
(* the loop does with the character touches nothing the handler does.      *)
Returns(who) ==
  /\ pc = "clear" /\ mode = who
  /\ pc' = "read"
  /\ c' = NoKey
  /\ Empty
  /\ done' = IF c = NoKey THEN done ELSE c.n
  /\ UNCHANGED pressed
-----------------------------------------------------------------------------
(* parser(): the words of a line, ARGS_MAX at most.                        *)
Grow(p, ch) ==
  IF ch = Space THEN [p EXCEPT !.in = FALSE]
  ELSE IF p.in THEN [p EXCEPT !.argv[Len(p.argv)] = Append(@, ch)]
  ELSE [argv |-> Append(p.argv, <<ch>>), in |-> TRUE]

ParserWide(s) == FoldLeft(Grow, [argv |-> <<>>, in |-> FALSE], s).argv
Parser(s) ==
  LET words == FoldLeft(Grow, [argv |-> <<>>, in |-> FALSE], s).argv
  IN  IF Len(words) > ARGS_MAX THEN SubSeq(words, 1, ARGS_MAX) ELSE words

Ultimo == (hist_total - 1) % HISTORICO_MAX

historico_salvar_off_by_one ==
  IF hist_total > 0 /\ historico[Ultimo] = input_buf
  THEN UNCHANGED <<historico, hist_total>>
  ELSE /\ historico' = [historico EXCEPT ![(hist_total + 1) % HISTORICO_MAX] = input_buf]
       /\ hist_total' = hist_total + 1
historico_salvar ==
  IF hist_total > 0 /\ historico[Ultimo] = input_buf
  THEN UNCHANGED <<historico, hist_total>>
  ELSE /\ historico' = [historico EXCEPT ![hist_total % HISTORICO_MAX] = input_buf]
       /\ hist_total' = hist_total + 1

CarregarNext(pos) == historico[(hist_total + pos) % HISTORICO_MAX]
Carregar(pos) == historico[(hist_total - 1 - pos) % HISTORICO_MAX]

historico_carregar(pos) ==
  /\ input_buf' = Carregar(pos)
  /\ tela' = Write(Erase(tela, Len(input_buf)), Carregar(pos))

NextLine ==
  /\ input_buf' = <<>>
  /\ tela' = WritePrompt(tela)
-----------------------------------------------------------------------------
(* The turns of the loop of shell_init(), by the character read.           *)
Idle ==
  /\ Returns("shell")
  /\ c = NoKey
  /\ UNCHANGED <<mode, line, tela>>

EnterNothing ==
  /\ Returns("shell")
  /\ c.ch = Newline /\ input_buf = <<>>
  /\ NextLine
  /\ UNCHANGED <<mode, historico, hist_total, hist_nav, argv, ran>>

(* comandos_executar(): the command named by the first word.  cmd_tecla()  *)
(* takes over the keyboard; the others return at once.                     *)
Run ==
  IF argv' # <<>> /\ argv'[1] \in tabela /\ argv'[1] = Tecla
  THEN mode' = "tecla" /\ tela' = NewRow(tela) /\ UNCHANGED input_buf
  ELSE UNCHANGED mode /\ NextLine

Enter ==
  /\ Returns("shell")
  /\ c.ch = Newline /\ input_buf # <<>>
  /\ historico_salvar
  /\ hist_nav' = -1
  /\ argv' = Parser(input_buf)
  /\ ran' = Append(ran, input_buf)
  /\ Run

Back ==
  /\ Returns("shell")
  /\ c.ch = Backspace
  /\ input_buf # <<>> 
  /\ input_buf' = Front(input_buf)
  /\ tela' = Rubout(tela)
  /\ UNCHANGED <<mode, historico, hist_total, hist_nav, argv, ran>>

Up ==
  /\ Returns("shell")
  /\ c.ch = SetaCima /\ hist_total > 0
  /\ hist_nav' = IF hist_nav < hist_total - 1 THEN hist_nav + 1 ELSE hist_nav
  /\ historico_carregar(hist_nav')
  /\ UNCHANGED <<mode, historico, hist_total, argv, ran>>

Down ==
  /\ Returns("shell")
  /\ c.ch = SetaBaixo /\ hist_nav > 0
  /\ hist_nav' = hist_nav - 1
  /\ historico_carregar(hist_nav')
  /\ UNCHANGED <<mode, historico, hist_total, argv, ran>>

DownOut ==
  /\ Returns("shell")
  /\ c.ch = SetaBaixo /\ hist_nav = 0
  /\ hist_nav' = -1
  /\ input_buf' = <<>>
  /\ tela' = Erase(tela, Len(input_buf))
  /\ UNCHANGED <<mode, historico, hist_total, argv, ran>>

HasRoom == Len(input_buf) < MAX_INPUT - 1

Type ==
  /\ Returns("shell")
  /\ Printable(c.ch) /\ HasRoom
  /\ input_buf' = Append(input_buf, c.ch)
  /\ tela' = Put(tela, c.ch)
  /\ hist_nav' = -1
  /\ UNCHANGED <<mode, historico, hist_total, argv, ran>>

Ignored(k) ==
  \/ k = Backspace /\ input_buf = <<>>
  \/ k = SetaCima /\ hist_total = 0
  \/ k = SetaBaixo /\ hist_nav = -1
  \/ Printable(k) /\ ~HasRoom
  \/ k \notin {Nul, Newline, Backspace, SetaCima, SetaBaixo} /\ ~Printable(k)

Ignore ==
  /\ Returns("shell")
  /\ Ignored(c.ch) = TRUE
  /\ UNCHANGED <<mode, line, tela>>

(* cmd_tecla(): shows the code of each key, and returns on Esc.            *)
TeclaShows ==
  /\ Returns("tecla")
  /\ c.ch # Esc
  /\ UNCHANGED <<mode, line, tela>>

TeclaEnds ==
  /\ Returns("tecla")
  /\ c.ch = Esc
  /\ mode' = "shell"
  /\ NextLine
  /\ UNCHANGED <<historico, hist_total, hist_nav, argv, ran>>

Next ==
  \/ teclado_handler \/ Read
  \/ Idle \/ EnterNothing \/ Enter \/ Back \/ Up \/ Down \/ DownOut \/ Type \/ Ignore
  \/ TeclaShows \/ TeclaEnds

Spec == Init /\ [][Next]_vars
-----------------------------------------------------------------------------
Key == [ch : Chars, n : 1..MaxKeys] \cup {NoKey}

(* The values the variables of the keyboard and of the shell take: the     *)
(* line leaves room for the final zero, and the cursor is on the row.      *)
TypeOK ==
  /\ ultimo_char \in Key /\ c \in Key
  /\ pressed \in 0..MaxKeys /\ done \in 0..pressed
  /\ pc \in {"read", "clear"} /\ mode \in {"shell", "tecla"}
  /\ input_buf \in Seq(Space..127) /\ Len(input_buf) < MAX_INPUT
  /\ \A k \in 0..(HISTORICO_MAX - 1) : Len(historico[k]) < MAX_INPUT
  /\ hist_total \in 0..MaxKeys /\ hist_nav \in -1..(hist_total - 1)
  /\ Len(argv) <= ARGS_MAX /\ <<>> \notin {argv[k] : k \in DOMAIN argv}
  /\ tela.cur_col \in 0..(VGA_COLS - 1) /\ tela.row \in [0..(VGA_COLS - 1) -> Space..127]

(* A key acts at most once, and the keys act in the order in which they    *)
(* were pressed: a step that changes the line acts on a key newer than the *)
(* last one that acted.  (A key may be lost: stored between the read and   *)
(* the reset of the cell, or before the shell asks again.)                 *)
KeysInOrder == [][line # line' => done' > done]_vars

(* What is on the screen is what Enter will run: the row is the prompt,    *)
(* the line and blanks, through typing, erasing and the history, as long   *)
(* as the line has not gone on to a second row.                            *)
RowShowsInput ==
  mode = "shell" /\ ~tela.wrapped =>
    LET shown == Prompt \o input_buf
    IN  /\ tela.cur_col = Len(shown)
        /\ \A j \in DOMAIN tela.row :
             tela.row[j] = IF j < Len(shown) THEN shown[j + 1] ELSE Space

(* The history is what was run: its entries are the last lines that ran,   *)
(* rows of equal ones counted once, as many as the ring holds.             *)
Distinct(lines) ==
  FoldLeft(LAMBDA d, l : IF d # <<>> /\ Last(d) = l THEN d ELSE Append(d, l), <<>>, lines)

HistoryRecords ==
  LET d == Distinct(ran)
  IN  /\ hist_total = Len(d)
      /\ \A k \in 0..(HISTORICO_MAX - 1) :
           k < hist_total => historico[(hist_total - 1 - k) % HISTORICO_MAX] = d[Len(d) - k]

(* An arrow brings back the command at that distance from the last one,    *)
(* whatever was typed, erased or brought back before, within the length of *)
(* the ring (hist_nav goes on to hist_total - 1, where the ring starts     *)
(* over from the newest).                                                  *)
ArrowRecalls ==
  [][/\ done' # done /\ c.ch \in {SetaCima, SetaBaixo}
     /\ hist_nav' \in 0..(HISTORICO_MAX - 1)
     => LET d == Distinct(ran) IN input_buf' = d[Len(d) - hist_nav']]_vars

(* What is run is the line, word by word: the arguments are its stretches  *)
(* between spaces, in order, up to ARGS_MAX of them.                       *)
Words(s) ==
  LET word(i, j) == /\ \A k \in i..j : s[k] # Space
                    /\ i = 1 \/ s[i - 1] = Space
                    /\ j = Len(s) \/ s[j + 1] = Space
      ends == {w \in (DOMAIN s) \X (DOMAIN s) : w[1] <= w[2] /\ word(w[1], w[2])}
      sorted == SetToSortSeq(ends, LAMBDA v, w : v[1] < w[1])
  IN  [k \in DOMAIN sorted |-> SubSeq(s, sorted[k][1], sorted[k][2])]

RunsTheWords ==
  [][ran' # ran => LET w == Words(Last(ran'))
                   IN  argv' = SubSeq(w, 1, IF Len(w) < ARGS_MAX THEN Len(w) ELSE ARGS_MAX)]_vars

(* What is seen and what is recalled is what was typed and run.            *)
ScreenAndHistory == TypeOK /\ RowShowsInput /\ HistoryRecords
=============================================================================
