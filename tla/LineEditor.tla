------------------------------ MODULE LineEditor ------------------------------
(***************************************************************************)
(* The line editor of the basic input backend                              *)
(* (interactive/basic/term_line_reader.rs) and the loop that reads a       *)
(* command with it (interactive/basic/input_backend.rs).                   *)
(*                                                                         *)
(* The editor keeps a line and a cursor, and mirrors each change on the    *)
(* console with the least output that should do: the rest of the line,     *)
(* some blanks, some backspaces.  Nothing compares the two again, so the   *)
(* model has both: the editor's state and the console it writes to, cell   *)
(* by cell, with wide characters that take two cells and a last row that   *)
(* scrolls.                                                                *)
(*                                                                         *)
(* Left out: the bytes of a character (the cursor counts characters; the   *)
(* code counts bytes and moves by whole characters), characters without a  *)
(* width, the capitals of the selected candidate, the visibility of the    *)
(* console cursor, and lines longer than a row.  Rows above the cursor are *)
(* never written again and are forgotten.                                  *)
(***************************************************************************)
EXTENDS Integers, Sequences, SequencesExt, FiniteSetsExt

CONSTANTS
    Characters,      \* what is shown in a row; "nl", the newline, is not
    Typed,           \* the characters on the keyboard
    WideChars,       \* the characters two cells wide
    HistoryEntries,  \* history_entries: the lines of the history
    CandidateLists,  \* what the completion handler may answer for the word before the cursor
    Prompt, ContinuationPrompt,
    Width, Height,   \* the console's screen buffer
    MaxWidth         \* bound: the width of a line, which always fits its row

VARIABLES
    line, cursor,       \* ReadLineState
    prompt, input_origin,
    history_position,   \* 0 when the history is not being browsed
    history_draft, completion_menu,
    terminal,           \* the console
    read                \* what the read has come to

editor_vars == <<line, cursor, prompt, input_origin, history_position, history_draft, completion_menu, terminal, read>>

-----------------------------------------------------------------------------
(* Widths *)

char_display_width(c) == IF c \in WideChars THEN 2 ELSE 1
display_width(chars) == FoldLeft(LAMBDA n, c : n + char_display_width(c), 0, chars)
truncate_to_display_width(chars, most) ==
    SubSeq(chars, 1, Max({n \in 0..Len(chars) : display_width(SubSeq(chars, 1, n)) <= most}))

RowTexts == Seq(Characters)
Spaces(n) == [i \in 1..n |-> " "]
After(chars, n) == SubSeq(chars, n + 1, Len(chars))
Blank(chars) == ToSet(chars) \subseteq {" "}

(* Prompts, lines of the history and candidates are of one row, and a prompt *)
(* leaves room for a line (after a blank line, for another prompt too).     *)
ASSUME EditorAssumption ==
    /\ Width \in Nat /\ Height \in Nat \ {0} /\ MaxWidth \in Nat
    /\ {" ", "/", ">", "^", "C"} \subseteq Characters \ WideChars
    /\ "nl" \notin Characters /\ "half" \notin Characters
    /\ Typed \subseteq Characters /\ WideChars \subseteq Characters
    /\ HistoryEntries \in Seq(RowTexts) /\ CandidateLists \subseteq Seq(RowTexts)
    /\ Prompt \in RowTexts /\ display_width(Prompt) + MaxWidth < Width
    /\ ContinuationPrompt \in RowTexts
    /\ Len(ContinuationPrompt) + MaxWidth + display_width(ContinuationPrompt) < Width

-----------------------------------------------------------------------------
(* The console (interactive/term.rs and what is printed) *)

(* Rows are counted from 1, columns (as in the console) from 0. *)
EmptyRow == [x \in 1..Width |-> " "]
EmptyRows(n) == [y \in 1..n |-> EmptyRow]

Newline(t) ==
    IF t.y < Height THEN [t EXCEPT !.x = 0, !.y = @ + 1]
    ELSE [t EXCEPT !.x = 0, !.cells = Append(Tail(@), EmptyRow)]

Put(t, c) ==
    IF c = "nl" THEN Newline(t)
    ELSE LET w == char_display_width(c)
             written == IF w = 2 /\ t.x + 1 < Width
                        THEN [t EXCEPT !.cells[t.y][t.x + 1] = c, !.cells[t.y][t.x + 2] = "half"]
                        ELSE [t EXCEPT !.cells[t.y][t.x + 1] = c]
         IN IF t.x + w < Width THEN [written EXCEPT !.x = @ + w] ELSE Newline(written)

Display(t, chars) == FoldLeft(Put, t, chars)
Backspaces(t, n) == [t EXCEPT !.x = Max({0, @ - n})]
set_cursor_position(t, x, y) == [t EXCEPT !.x = x, !.y = y]
ClearRows(t, from, n) ==
    LET below == Min({Height, from + n - 1})
    IN IF below < from THEN t
       ELSE [t EXCEPT !.cells = SubSeq(@, 1, from - 1) \o EmptyRows(below - from + 1) \o SubSeq(@, below + 1, Height)]
clear_current_line(t) == [ClearRows(t, t.y, 1) EXCEPT !.x = 0]
clear_screen == [cells |-> EmptyRows(Height), x |-> 0, y |-> 1]

(* The rows above the cursor are only ever scrolled away. *)
BelowTheLine(t) == ClearRows(t, 1, t.y - 1)

(* The line up to its end, then back to where the cursor is. *)
DisplayLine(t, chars, at) == Backspaces(Display(t, chars), display_width(After(chars, at)))
(* What was printed before the line: the prompt, where the line then starts. *)
display_prompt(t) == Display(t, prompt)
Origin(t) == [x |-> t.x, y |-> t.y]

-----------------------------------------------------------------------------
(* The completion menu *)

NoMenu == [candidates |-> <<>>, insertion_index |-> 0, delete_count |-> 0, selected |-> 0, rows |-> 0, columns |-> 0, rendered_lines |-> 0]
MenuIsOpen == completion_menu # NoMenu

completion_column_len(count, rows, column) == Min({Max({0, count - column * rows}), rows})

format_completion_candidate(candidate) ==
    LET trimmed == IF candidate # <<>> /\ Last(candidate) = "/" THEN Front(candidate) ELSE candidate
    IN After(candidate, Max({0} \cup {i \in DOMAIN trimmed : trimmed[i] = "/"}))

completion_column_width(candidates) ==
    2 + Max({display_width(format_completion_candidate(candidates[i])) : i \in DOMAIN candidates})

format_completion_cell(marker, value, width) ==
    LET shown == truncate_to_display_width(value, width - 2)
    IN <<marker>> \o shown \o Spaces(width - 2 - display_width(shown)) \o <<" ">>

(* Candidates fill the grid column by column; `selected` counts from 0. *)
move_completion_selection_index(m, direction) ==
    LET row == m.selected % m.rows
        column == m.selected \div m.rows
        In(c) == completion_column_len(Len(m.candidates), m.rows, c)
        Beside(c) == c * m.rows + Min({row, In(c) - 1})
    IN CASE direction = "Up" -> IF row > 0 THEN m.selected - 1 ELSE m.selected
         [] direction = "Down" -> IF row + 1 < In(column) THEN m.selected + 1 ELSE m.selected
         [] direction = "Left" -> IF column > 0 THEN Beside(column - 1) ELSE m.selected
         [] direction = "Right" -> IF column + 1 < m.columns /\ In(column + 1) > 0 THEN Beside(column + 1) ELSE m.selected

Grid(m) ==
    LET width == completion_column_width(m.candidates)
        columns == Min({4, Max({1, Width \div width})})
    IN [m EXCEPT !.columns = columns, !.rows = Max({1, (Len(m.candidates) + columns - 1) \div columns})]

Marker(m, index) == IF index = m.selected THEN ">" ELSE " "

Scrolled(t, n) == FoldLeft(LAMBDA s, i : Newline(s), t, Spaces(n))

\* for a mutant: the menu is drawn below the line whatever room there is
TakesTheRoomThereIs(t, rows) == [terminal |-> t, origin |-> input_origin]
(* ensure_completion_menu_space: room below the line, by scrolling it up and printing it anew. *)
ensure_completion_menu_space(t, rows) ==
    LET lines_to_move_up == t.y + rows - Height
        scrolled == Scrolled(t, Height - t.y + lines_to_move_up)
        start == display_prompt(clear_current_line(set_cursor_position(scrolled, 0, Max({1, t.y - lines_to_move_up}))))
    IN IF lines_to_move_up <= 0 THEN [terminal |-> t, origin |-> input_origin]
       ELSE [terminal |-> DisplayLine(start, line, cursor), origin |-> Origin(start)]

MenuRow(m, width, row) ==
    FoldLeft(LAMBDA shown, column :
                LET index == (column - 1) * m.rows + row
                IN IF index < Len(m.candidates)
                   THEN shown \o format_completion_cell(Marker(m, index), format_completion_candidate(m.candidates[index + 1]), width)
                   ELSE shown,
             <<>>, [column \in 1..m.columns |-> column])

Drawn(t, y, m) ==
    FoldLeft(LAMBDA s, row : Display(set_cursor_position(s, 0, y + row),
                                     MenuRow(m, completion_column_width(m.candidates), row - 1)),
             t, [row \in 1..m.rows |-> row])

Listed(t, m) ==
    FoldLeft(LAMBDA s, i : Newline(Display(s, <<Marker(m, i - 1)>> \o format_completion_candidate(m.candidates[i]))),
             t, [i \in DOMAIN m.candidates |-> i])

(* A list too long for the console is printed once, line by line, and the prompt again after it. *)
handle_multiple_completions_fallback(m) ==
    LET start == display_prompt(Listed(Newline(terminal), m))
    IN [terminal |-> DisplayLine(start, line, cursor), origin |-> Origin(start), menu |-> m]

(* render_completion_menu: what it leaves of console, origin and menu. *)
render_completion_menu(menu) ==
    LET m == Grid(menu)
        roomy == ensure_completion_menu_space(terminal, m.rows)
        at == roomy.terminal
        cleared == ClearRows(at, at.y + 1, Max({m.rows, m.rendered_lines}))
        drawn == Drawn(cleared, at.y, m)
    IN IF m.rows >= Height THEN handle_multiple_completions_fallback(m)
       ELSE [terminal |-> set_cursor_position(drawn, at.x, at.y), origin |-> roomy.origin,
             menu |-> [m EXCEPT !.rendered_lines = m.rows]]

(* The console refuses to put the cursor below its last row, and the read fails. *)
MenuFits(menu) ==
    LET m == Grid(menu)
    IN m.rows >= Height \/ ensure_completion_menu_space(terminal, m.rows).terminal.y + m.rows <= Height

(* clear_completion_menu: the console without the rows of the menu. *)
Uncovered == IF MenuIsOpen THEN ClearRows(terminal, terminal.y + 1, completion_menu.rendered_lines) ELSE terminal

-----------------------------------------------------------------------------
(* Reading a command *)

Editing == read = "editing"
Continuing == prompt = ContinuationPrompt

(* ReadLineState::new and display_prompt. *)
Start(t, shown) ==
    LET ready == Display(t, shown)
    IN /\ line' = <<>> /\ cursor' = 0
       /\ prompt' = shown /\ input_origin' = Origin(ready)
       /\ history_position' = 0 /\ history_draft' = <<>> /\ completion_menu' = NoMenu
       /\ terminal' = BelowTheLine(ready)
       /\ read' = "editing"

EditorInit ==
    LET ready == Display(clear_screen, Prompt)
    IN /\ line = <<>> /\ cursor = 0
       /\ prompt = Prompt /\ input_origin = Origin(ready)
       /\ history_position = 0 /\ history_draft = <<>> /\ completion_menu = NoMenu
       /\ terminal = ready
       /\ read = "editing"

(* Common to most keys: the read goes on, with this line, cursor and console, and no menu. *)
Becomes(newLine, newCursor, t) ==
    /\ Editing
    /\ display_width(newLine) <= MaxWidth /\ input_origin.x + display_width(newLine) < Width
    /\ line' = newLine /\ cursor' = newCursor
    /\ terminal' = BelowTheLine(t)
    /\ completion_menu' = NoMenu
    /\ UNCHANGED <<prompt, read>>

KeepBrowsing == UNCHANGED <<history_position, history_draft>>
reset_history_navigation == history_position' = 0 /\ history_draft' = <<>>

(* A character typed: the rest of the line is printed again after it. *)
on_char(c) ==
    LET typed == InsertAt(line, cursor + 1, c)
    IN /\ Becomes(typed, cursor + 1, DisplayLine(Uncovered, After(typed, cursor), 1))
       /\ reset_history_navigation
       /\ UNCHANGED input_origin

\* for a mutant: no blanks over what the line no longer reaches
LeavesTheEnd == DisplayLine(Backspaces(Uncovered, display_width(<<line[cursor]>>)), After(line, cursor), 0)
(* Backspace: the rest of the line moves left, with blanks after it. *)
Erased ==
    LET width == display_width(<<line[cursor]>>)
        rest == After(line, cursor) \o Spaces(width)
    IN DisplayLine(Backspaces(Uncovered, width), rest, 0)

backspace ==
    /\ IF cursor = 0 THEN Becomes(line, cursor, Uncovered) ELSE Becomes(RemoveAt(line, cursor), cursor - 1, Erased)
    /\ reset_history_navigation
    /\ UNCHANGED input_origin

move_cursor_left ==
    /\ ~MenuIsOpen /\ cursor > 0
    /\ Becomes(line, cursor - 1, Backspaces(terminal, display_width(<<line[cursor]>>)))
    /\ KeepBrowsing /\ UNCHANGED input_origin

move_cursor_right ==
    /\ ~MenuIsOpen /\ cursor < Len(line)
    /\ Becomes(line, cursor + 1, Put(terminal, line[cursor + 1]))
    /\ KeepBrowsing /\ UNCHANGED input_origin

(* Ctrl-L. *)
ClearScreen ==
    LET start == display_prompt(clear_screen)
    IN /\ Becomes(line, cursor, Display(start, line))
       /\ input_origin' = Origin(start)
       /\ KeepBrowsing

(* replace_line: the new line over the old one, from where the prompt ended. *)
Replaced(newLine) ==
    LET old_width == display_width(line)
        new_width == display_width(newLine)
        written == Display(Display(set_cursor_position(terminal, input_origin.x, input_origin.y), newLine),
                         Spaces(Max({0, old_width - new_width})))
    IN set_cursor_position(written, input_origin.x + new_width, input_origin.y)

replace_line(newLine) ==
    /\ Becomes(newLine, Len(newLine), Replaced(newLine))
    /\ UNCHANGED input_origin

move_history_previous ==
    /\ ~MenuIsOpen /\ HistoryEntries # <<>>
    /\ history_position' = IF history_position = 0 THEN Len(HistoryEntries) ELSE Max({1, history_position - 1})
    /\ history_draft' = IF history_position = 0 THEN line ELSE history_draft
    /\ replace_line(HistoryEntries[history_position'])

move_history_next ==
    /\ ~MenuIsOpen /\ history_position # 0
    /\ IF history_position < Len(HistoryEntries)
       THEN /\ history_position' = history_position + 1
            /\ UNCHANGED history_draft
            /\ replace_line(HistoryEntries[history_position + 1])
       ELSE /\ history_position' = 0 /\ history_draft' = <<>>
            /\ replace_line(history_draft)

(* The span the handler answers for: the word before the cursor. *)
WordStart == Max({0} \cup {i \in 1..cursor : line[i] = " "})

WithCandidate(start, candidate) == SubSeq(line, 1, start) \o candidate \o After(line, cursor)

(* handle_single_completion: only what changed is printed. *)
CompleteOne(candidate) ==
    LET typed == SubSeq(line, WordStart + 1, cursor)
        extends == typed # <<>> /\ IsPrefix(typed, candidate)
        completed == WithCandidate(WordStart, candidate)
        from == IF extends THEN cursor ELSE WordStart
        back == IF extends THEN 0 ELSE display_width(typed)
        at == WordStart + Len(candidate)
    IN /\ Becomes(completed, at, Backspaces(Display(Backspaces(terminal, back), After(completed, from)),
                                           display_width(After(completed, at))))
       /\ KeepBrowsing /\ UNCHANGED input_origin

Shows(shown) ==
    /\ terminal' = BelowTheLine(shown.terminal)
    /\ input_origin' = shown.origin
    /\ completion_menu' = shown.menu

(* The menu is drawn, or the console refuses and the error ends the read. *)
OpenMenu(menu) ==
    /\ Editing
    /\ IF MenuFits(menu)
       THEN Shows(render_completion_menu(menu)) /\ UNCHANGED read
       ELSE /\ read' = "failed"
            /\ completion_menu' = NoMenu
            /\ UNCHANGED <<terminal, input_origin>>
    /\ UNCHANGED <<line, cursor, prompt, history_position, history_draft>>

handle_tab ==
    /\ ~MenuIsOpen
    /\ \E candidates \in CandidateLists :
         /\ candidates # <<>>
         /\ IF Len(candidates) = 1 THEN CompleteOne(candidates[1])
            ELSE OpenMenu([NoMenu EXCEPT !.candidates = candidates, !.insertion_index = WordStart,
                                         !.delete_count = cursor - WordStart, !.rows = 1, !.columns = 1])

move_completion_selection(direction) ==
    /\ MenuIsOpen
    /\ OpenMenu([completion_menu EXCEPT !.selected = move_completion_selection_index(completion_menu, direction)])

(* accept_completion_selection, apply_completion: the line is printed anew. *)
accept_completion_selection ==
    LET candidate == completion_menu.candidates[completion_menu.selected + 1]
        start == display_prompt(clear_current_line(Uncovered))
        completed == WithCandidate(completion_menu.insertion_index, candidate)
        at == completion_menu.insertion_index + Len(candidate)
    IN /\ MenuIsOpen
       /\ Becomes(completed, at, DisplayLine(start, completed, at))
       /\ input_origin' = Origin(start)
       /\ KeepBrowsing

(* The read ends, and its state with it; the line is its result. *)
Ends(outcome, t) ==
    /\ Editing
    /\ read' = outcome
    /\ terminal' = BelowTheLine(t)
    /\ completion_menu' = NoMenu
    /\ cursor' = 0 /\ history_position' = 0 /\ history_draft' = <<>>
    /\ UNCHANGED <<line, prompt, input_origin>>

Submitted == IF Blank(line) THEN Uncovered ELSE Newline(Uncovered)

(* Enter or Ctrl-J on a line that ends the command. *)
Submit(ctrl_j) ==
    /\ ctrl_j \/ ~MenuIsOpen
    /\ Ends("input", Submitted)

(* The parser wants more (is_complete_input): another line, after the        *)
(* continuation prompt.  A blank line moves to no new row, and the prompts  *)
(* pile up; one blank line a command is enough (bound).                     *)
Continue(ctrl_j) ==
    /\ Editing
    /\ ctrl_j \/ ~MenuIsOpen
    /\ Blank(line) => Continuing /\ input_origin.x = Len(ContinuationPrompt)
    /\ Start(Submitted, ContinuationPrompt)

Interrupt == Ends("interrupted", Newline(Display(Uncovered, <<"^", "C">>)))
(* Ctrl-D on an empty line; the lines before it are a command all the same. *)
EndOfInput == line = <<>> /\ Ends(IF Continuing THEN "input" ELSE "eof", Newline(Uncovered))

(* The next command's prompt, on a new row when the last command was blank (pending_prompt_newline). *)
ReadAgain ==
    /\ read \in {"input", "interrupted"}
    /\ Start(terminal, IF read = "input" /\ Blank(line) /\ ~Continuing THEN <<"nl">> \o Prompt ELSE Prompt)

Over == read \in {"eof", "failed"} /\ UNCHANGED editor_vars

EditorNext ==
    \/ \E c \in Typed : on_char(c)
    \/ backspace \/ move_cursor_left \/ move_cursor_right \/ ClearScreen
    \/ move_history_previous \/ move_history_next
    \/ handle_tab \/ accept_completion_selection
    \/ \E direction \in {"Up", "Down", "Left", "Right"} : move_completion_selection(direction)
    \/ \E ctrl_j \in BOOLEAN : Submit(ctrl_j) \/ Continue(ctrl_j)
    \/ Interrupt \/ EndOfInput \/ ReadAgain \/ Over

EditorSpec == EditorInit /\ [][EditorNext]_editor_vars

-----------------------------------------------------------------------------
(* Properties *)

(* The cells a text takes. *)
Cells(chars) == FoldLeft(LAMBDA cells, c : cells \o (IF c \in WideChars THEN <<c, "half">> ELSE <<c>>), <<>>, chars)
RowShows(t, y, from, chars) ==
    SubSeq(t.cells[y], from + 1, Width) = Cells(chars) \o Spaces(Width - from - Len(Cells(chars)))

(* A prompt without the newline it may start with. *)
PromptShown(p) == IF p # <<>> /\ p[1] = "nl" THEN After(p, 1) ELSE p

(* A menu is drawn under the line, unless it was printed as a list. *)
MenuRowShown(m, row) ==
    IF m.rendered_lines > 0 /\ row < m.rows THEN MenuRow(m, completion_column_width(m.candidates), row) ELSE <<>>

(* What the user sees is what the editor holds: prompt and line, the       *)
(* cursor where the next key takes effect, the menu with its choice        *)
(* marked, and nothing else below.                                         *)
InStep(t, origin, p, chars, at, m) ==
    /\ t.y = origin.y
    /\ t.x = origin.x + display_width(SubSeq(chars, 1, at))
    /\ origin.x >= display_width(PromptShown(p))
    /\ RowShows(t, origin.y, origin.x - display_width(PromptShown(p)), PromptShown(p) \o chars)
    /\ \A y \in t.y + 1..Height : RowShows(t, y, 0, MenuRowShown(m, y - t.y - 1))

(* Three keys are known to part them.  Ctrl-L prints the line and leaves   *)
(* the cursor at its end.  A single candidate narrower than the word it    *)
(* replaces leaves the end of the old line on the screen.  A menu that     *)
(* fills the last cell of the last row scrolls the screen.                 *)
Parts ==
    \/ cursor < Len(line) /\ <<line, cursor>>' = <<line, cursor>> /\ ClearScreen
    \/ display_width(line') < display_width(line) /\ handle_tab
    \/ /\ completion_menu' # NoMenu
       /\ completion_menu'.columns * completion_column_width(completion_menu'.candidates) >= Width

(* Every other key keeps screen and line in step, however they were        *)
(* reached: the least output each handler prints is enough.  (That         *)
(* something changes only spares TLC the steps of others.)                 *)
KeepsTheScreen ==
    Editing /\ Editing' /\ editor_vars' # editor_vars =>
      \/ InStep(terminal', input_origin', prompt', line', cursor', completion_menu')
      \/ Parts
      \/ ~InStep(terminal, input_origin, prompt, line, cursor, completion_menu)
KeysKeepTheScreen == [][KeepsTheScreen]_editor_vars

(* A command is read from start to end without an error of the console,    *)
(* unless a menu is opened at the bottom after a blank line, when the      *)
(* prompt starts with a newline that nobody made room for.                 *)
ReadsFailOnlyAtTheBottom == read = "failed" => Len(PromptShown(prompt)) < Len(prompt)
=============================================================================
