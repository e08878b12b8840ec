------------------------------ MODULE History ------------------------------
(***************************************************************************)
(* The command history of interactive sessions that share one history      *)
(* file: History (src/src/engine/history.rs), its use by the shell         *)
(* (engine/shell/history.rs, builtins/history.rs) and the copy of it the   *)
(* line editor keeps (BasicInputBackend::sync_history_entries,             *)
(* interactive/basic/input_backend.rs).                                    *)
(*                                                                         *)
(* Commands are numbered as they are entered, in whichever session; what   *)
(* matters of one is its shape: how each of its lines would be read back.  *)
(* The file is a sequence of lines.  One session does nothing else while   *)
(* it writes the file, but other sessions are other processes: they run    *)
(* between any two of its records.                                         *)
(***************************************************************************)
EXTENDS Naturals, Sequences, SequencesExt

CONSTANTS
  Sessions,
  Shapes,       \* the commands one enters
  MaxCommands,  \* bound: commands entered, in all sessions together
  MaxLines,     \* bound: the file's length at which nobody starts to write it
  HistSize      \* HISTSIZE

(* A line of a command is read back as itself, as a comment (`# ...`) or as *)
(* a timestamp (`#5`).  A command has one line or two.                     *)
Kinds == {"plain", "comment", "stamp"}

ASSUME HistoryAssumption == /\ Shapes \subseteq Seq(Kinds)
                            /\ \A kinds \in Shapes : Len(kinds) \in {1, 2}
                            /\ MaxCommands \in Nat
                            /\ MaxLines \in Nat
                            /\ HistSize \in Nat

VARIABLES
  shape,     \* the commands entered so far, by number
  file,      \* the history file
  up,        \* the sessions that run
  items,     \* History.items with their dirty marks
  entries,   \* BasicInputBackend.history_entries
  changed,   \* history_revision is not History.revision
  rewritten, \* history_non_append_revision is not the history's
  flush      \* the write a session is in the middle of

history == <<items, changed, rewritten>>
vars == <<shape, file, up, history, entries, flush>>

Commands == 1 .. Len(shape)

-----------------------------------------------------------------------------
(* Lines and records.  The boundary a record is written with is a line `#`  *)
(* and its timestamp; whatever line looks like one is read as one.          *)
Boundary == [command |-> 0, part |-> 0]

Line(c, n) == [command |-> c, part |-> n]

Text(c) == [n \in DOMAIN shape[c] |-> Line(c, n)]

Is(line, kind) == line # Boundary /\ shape[line.command][line.part] = kind

IsBoundary(line) == line = Boundary \/ Is(line, "stamp")

IsComment(line) == Is(line, "comment")

(* An item's text is a sequence of lines; one that was imported may be the *)
(* lines of several commands.                                              *)
Item(text, dirty) == [text |-> text, dirty |-> dirty]

MultiLine(item) == Len(item.text) > 1

Texts(its) == [i \in DOMAIN its |-> its[i].text]

(***************************************************************************)
(* History::import_with_limit.  Up to the first boundary every line is a   *)
(* command, but for comments; from there on a command is what stands       *)
(* between two boundaries.                                                 *)
(***************************************************************************)
Boundaries(f) == {i \in DOMAIN f : IsBoundary(f[i])}

FirstFrom(S, last) == IF S = {} THEN last + 1 ELSE CHOOSE i \in S : \A j \in S : i <= j

(* The elements of a sequence at some of its positions, in their order.     *)
Picked(seq, positions) ==
  LET picked[n \in 0 .. Len(seq)] ==
        IF n = 0 THEN <<>>
        ELSE IF n \in positions THEN Append(picked[n - 1], seq[n]) ELSE picked[n - 1]
  IN picked[Len(seq)]

PlainEnd(f) == FirstFrom(Boundaries(f), Len(f)) - 1

Plain(f) == Picked([i \in 1 .. Len(f) |-> <<f[i]>>], {i \in 1 .. PlainEnd(f) : ~IsComment(f[i])})

Between(f, from) ==
  SubSeq(f, from + 1, FirstFrom({b \in Boundaries(f) : b > from}, Len(f)) - 1)

Extended(f) ==
  Picked([i \in 1 .. Len(f) |-> Between(f, i)], {b \in Boundaries(f) : Between(f, b) # <<>>})

Newest(s, n) == IF Len(s) <= n THEN s ELSE SubSeq(s, Len(s) - n + 1, Len(s))

Imported(f) == Plain(f) \o Extended(f)

-----------------------------------------------------------------------------
(***************************************************************************)
(* A session starts with the newest HISTSIZE records of the file, or with  *)
(* none when the file cannot be read.  The editor has no copy yet.         *)
(***************************************************************************)
load_history(s) ==
  LET kept == Newest(Imported(file), HistSize)
  IN items' = [items EXCEPT ![s] = [i \in DOMAIN kept |-> Item(kept[i], FALSE)]]

Writing(s) == flush[s] # <<>>

Idle(s) == s \in up /\ ~Writing(s)

SessionStarts(s) ==
  /\ s \notin up
  /\ up' = up \union {s}
  /\ load_history(s) \/ UNCHANGED items
  /\ entries' = [entries EXCEPT ![s] = <<>>]
  /\ changed' = [changed EXCEPT ![s] = TRUE]
  /\ rewritten' = [rewritten EXCEPT ![s] = TRUE]
  /\ UNCHANGED <<shape, file, flush>>

(* sync_history_entries, before a line is read. *)
OnlyAppended(s) == ~rewritten[s] /\ Len(items[s]) >= Len(entries[s])

SyncEntries(s) ==
  /\ Idle(s)
  /\ changed[s]
  /\ entries' = [entries EXCEPT ![s] =
       IF OnlyAppended(s)
       THEN @ \o SubSeq(Texts(items[s]), Len(@) + 1, Len(items[s]))
       ELSE Texts(items[s])]
  /\ changed' = [changed EXCEPT ![s] = FALSE]
  /\ rewritten' = [rewritten EXCEPT ![s] = FALSE]
  /\ UNCHANGED <<shape, file, up, items, flush>>

-----------------------------------------------------------------------------
TruncatedQuietly(s, its) ==
  /\ items' = [items EXCEPT ![s] = Newest(its, HistSize)]
  /\ UNCHANGED rewritten

(* truncate_to_max_items notes a change that is not an append. *)
truncate_to_max_items(s, its) ==
  /\ items' = [items EXCEPT ![s] = Newest(its, HistSize)]
  /\ rewritten' = [rewritten EXCEPT ![s] = @ \/ Len(its) > HistSize]

NextCommand == Len(shape) + 1

Entered(s, kind) ==
  Append(items[s], Item([n \in DOMAIN kind |-> Line(NextCommand, n)], TRUE))

(* A command line is read: add_to_history. *)
AddToHistory(s, kind) ==
  /\ Idle(s)
  /\ NextCommand <= MaxCommands
  /\ shape' = Append(shape, kind)
  /\ truncate_to_max_items(s, Entered(s, kind))
  /\ changed' = [changed EXCEPT ![s] = TRUE]
  /\ UNCHANGED <<file, up, entries, flush>>

(* `history -s`: HISTSIZE is not looked at. *)
AddSilently(s, kind) ==
  /\ Idle(s)
  /\ NextCommand <= MaxCommands
  /\ shape' = Append(shape, kind)
  /\ items' = [items EXCEPT ![s] = Entered(s, kind)]
  /\ changed' = [changed EXCEPT ![s] = TRUE]
  /\ UNCHANGED <<file, up, entries, rewritten, flush>>

NotAnAppend(s) ==
  /\ changed' = [changed EXCEPT ![s] = TRUE]
  /\ rewritten' = [rewritten EXCEPT ![s] = TRUE]

(* `history -d`, `history -c`. *)
Delete(s, i) ==
  /\ Idle(s)
  /\ i \in DOMAIN items[s]
  /\ items' = [items EXCEPT ![s] = RemoveAt(@, i)]
  /\ NotAnAppend(s)
  /\ UNCHANGED <<shape, file, up, entries, flush>>

Clear(s) ==
  /\ Idle(s)
  /\ items' = [items EXCEPT ![s] = <<>>]
  /\ NotAnAppend(s)
  /\ UNCHANGED <<shape, file, up, entries, flush>>

-----------------------------------------------------------------------------
(***************************************************************************)
(* Writing the file: `history -a` and `shopt -s histappend` at exit append *)
(* what is dirty; `history -w` and exit without histappend write all items *)
(* to a temporary file that then replaces the history file.  Boundaries    *)
(* are written when HISTTIMEFORMAT is set, or when a record of this write  *)
(* has several lines.                                                      *)
(***************************************************************************)
Modes == {"append", "overwrite"}

SelectedNewest(s, mode) == {Len(items[s])} \intersect DOMAIN items[s]

(* The positions of the items a write is to write; none of them moves       *)
(* before the write is over.                                                *)
Selected(s, mode) == {i \in DOMAIN items[s] : mode = "append" => items[s][i].dirty}

AsConfigured(s, batch, timestamps) == timestamps

WriteBoundaries(s, batch, timestamps) ==
  timestamps \/ \E i \in batch : MultiLine(items[s][i])

(* `raced`: another session has replaced the file meanwhile, so the handle *)
(* this one appends to is of the file that is gone.                        *)
FlushBegins(s, mode, timestamps) ==
  /\ Idle(s)
  /\ Len(file) < MaxLines
  /\ flush' = [flush EXCEPT ![s] =
       <<[mode |-> mode, todo |-> Selected(s, mode), temp |-> <<>>,
          boundaries |-> WriteBoundaries(s, Selected(s, mode), timestamps), raced |-> FALSE]>>]
  /\ UNCHANGED <<shape, file, up, history, entries>>

Record(item, boundaries) == (IF boundaries THEN <<Boundary>> ELSE <<>>) \o item.text

StillTo(s, i) == [flush[s][1] EXCEPT !.todo = @ \ {i}]

InPlace(s, i, record) ==
  /\ file' = file \o record
  /\ flush' = [flush EXCEPT ![s] = <<StillTo(s, i)>>]

(* One record, in one buffer. *)
WriteOut(s, i, record) ==
  IF flush[s][1].mode = "append"
  THEN /\ file' = IF flush[s][1].raced THEN file ELSE file \o record
       /\ flush' = [flush EXCEPT ![s] = <<StillTo(s, i)>>]
  ELSE /\ flush' = [flush EXCEPT ![s] = <<[StillTo(s, i) EXCEPT !.temp = @ \o record]>>]
       /\ UNCHANGED file

WriteRecord(s) ==
  /\ Writing(s)
  /\ \E i \in flush[s][1].todo :
       /\ \A j \in flush[s][1].todo : i <= j
       /\ WriteOut(s, i, Record(items[s][i], flush[s][1].boundaries))
  /\ UNCHANGED <<shape, up, history, entries>>

mark_items_saved(its) == [i \in DOMAIN its |-> [its[i] EXCEPT !.dirty = FALSE]]

(* The other sessions' appends go on, in the file that has been replaced.  *)
Raced(s) ==
  [t \in Sessions |-> IF t = s THEN <<>>
                      ELSE IF Writing(t) THEN <<[flush[t][1] EXCEPT !.raced = TRUE]>>
                      ELSE flush[t]]

FlushEnds(s) ==
  /\ Writing(s)
  /\ flush[s][1].todo = {}
  /\ IF flush[s][1].mode = "append"
     THEN /\ flush' = [flush EXCEPT ![s] = <<>>]
          /\ UNCHANGED file
     ELSE /\ file' = flush[s][1].temp
          /\ flush' = Raced(s)
  /\ items' = [items EXCEPT ![s] = mark_items_saved(@)]
  /\ UNCHANGED <<shape, up, entries, changed, rewritten>>

(* A write, the replacement or the flush fails: all marks stay, and a      *)
(* temporary file is removed.                                              *)
FlushFails(s) ==
  /\ Writing(s)
  /\ flush' = [flush EXCEPT ![s] = <<>>]
  /\ UNCHANGED <<shape, file, up, history, entries>>

(* The session ends, after the write on_exit makes or killed at any moment: *)
(* what it keeps in memory goes with it.                                    *)
SessionEnds(s) ==
  /\ s \in up
  /\ up' = up \ {s}
  /\ items' = [items EXCEPT ![s] = <<>>]
  /\ entries' = [entries EXCEPT ![s] = <<>>]
  /\ changed' = [changed EXCEPT ![s] = TRUE]
  /\ rewritten' = [rewritten EXCEPT ![s] = TRUE]
  /\ flush' = [flush EXCEPT ![s] = <<>>]
  /\ UNCHANGED <<shape, file>>

-----------------------------------------------------------------------------
Init ==
  /\ shape = <<>>
  /\ file = <<>>
  /\ up = {}
  /\ items = [s \in Sessions |-> <<>>]
  /\ entries = [s \in Sessions |-> <<>>]
  /\ changed = [s \in Sessions |-> TRUE]
  /\ rewritten = [s \in Sessions |-> TRUE]
  /\ flush = [s \in Sessions |-> <<>>]

Edits(s) ==
  \/ \E kind \in Shapes : AddToHistory(s, kind) \/ AddSilently(s, kind)
  \/ \E i \in 1 .. Len(items[s]) : Delete(s, i)
  \/ Clear(s)

Writes(s) ==
  \/ \E mode \in Modes, timestamps \in BOOLEAN :
       FlushBegins(s, mode, timestamps)
  \/ WriteRecord(s) \/ FlushEnds(s) \/ FlushFails(s)

Next == \E s \in Sessions :
  SessionStarts(s) \/ SyncEntries(s) \/ Edits(s) \/ Writes(s) \/ SessionEnds(s)

Spec == Init /\ [][Next]_vars

-----------------------------------------------------------------------------
Lines == {Boundary} \union [command: Commands, part: {1, 2}]

CommandText == Seq(Lines \ {Boundary})

Items == [text: CommandText, dirty: BOOLEAN]

Flushes == [mode: Modes, todo: SUBSET Nat, temp: Seq(Lines), boundaries: BOOLEAN, raced: BOOLEAN]

TypeOK ==
  /\ shape \in Seq(Shapes)
  /\ file \in Seq(Lines)
  /\ up \subseteq Sessions
  /\ items \in [Sessions -> Seq(Items)]
  /\ entries \in [Sessions -> Seq(CommandText)]
  /\ changed \in [Sessions -> BOOLEAN]
  /\ rewritten \in [Sessions -> BOOLEAN]
  /\ flush \in [Sessions -> Seq(Flushes)]
  /\ \A s \in Sessions : Len(flush[s]) <= 1

(***************************************************************************)
(* What the line editor shows is the history: when the revisions say that  *)
(* nothing changed, its copy is exact, whatever mix of appends, deletions, *)
(* truncations and clears the two revision counters stand for.             *)
(***************************************************************************)
EntriesCurrent ==
  \A s \in up : ~changed[s] => entries[s] = Texts(items[s])

(* A command whose lines stand together, and nothing else with them.       *)
Whole(text) == \E c \in Commands : text = Text(c)

(* A record without a boundary stands after a line that reads as one: the   *)
(* boundary of another record, or a command like `#5`.                      *)
Mixed(f) ==
  \E i, j \in DOMAIN f :
    /\ i < j
    /\ IsBoundary(f[i])
    /\ f[j].part = 1
    /\ ~IsBoundary(f[j - 1])

(* A line of a command of several lines reads as a boundary.                *)
Misleading(c) == Len(shape[c]) > 1 /\ \E n \in DOMAIN shape[c] : shape[c][n] = "stamp"

Regular(f) == ~Mixed(f) /\ \A i \in DOMAIN f : f[i] # Boundary => ~Misleading(f[i].command)

(***************************************************************************)
(* Sessions that write at the same time, fail half-way or are killed leave *)
(* a file that reads back as commands somebody entered, each whole and by  *)
(* itself, as long as all of it is written with boundaries or none is, and *)
(* no command of several lines holds a line like `#5`.                     *)
(***************************************************************************)
RecordsWhole ==
  Regular(file) => \A i \in DOMAIN Imported(file) : Whole(Imported(file)[i])

(***************************************************************************)
(* The same without those conditions, as the comment at the write of a       *)
(* record (boundary and command are not separated under concurrent         *)
(* appends) and the test of multi-line records promise.                    *)
(***************************************************************************)
RecordsRoundTrip == \A i \in DOMAIN Imported(file) : Whole(Imported(file)[i])

Holds(f, text) ==
  \E i \in 0 .. Len(f) - Len(text) : SubSeq(f, i + 1, i + Len(text)) = text

(***************************************************************************)
(* An item is marked saved only by a write that put all its lines into the *)
(* file, unless another session replaced the file under it: nothing that   *)
(* failed half-way is taken for saved and left out of the next append.     *)
(***************************************************************************)
SavedMeansWritten ==
  [][\A s \in up : \A i \in DOMAIN items[s] :
       /\ items[s][i].dirty
       /\ i \in DOMAIN items'[s]
       /\ items'[s][i] = [items[s][i] EXCEPT !.dirty = FALSE]
       /\ Writing(s)
       => flush[s][1].raced \/ Holds(file', items[s][i].text)]_vars

(***************************************************************************)
(* The file is never torn: a step appends one whole record, or replaces    *)
(* the file by a complete image of one session's history; a failure or a   *)
(* crash in the middle of a replacement changes nothing.                   *)
(***************************************************************************)
ImageOf(s) ==
  \E boundaries \in BOOLEAN :
    file' = FlattenSeq([i \in DOMAIN items[s] |-> Record(items[s][i], boundaries)])

NeverTorn ==
  [][file' # file =>
       \/ \E s \in up : \E i \in DOMAIN items[s], boundaries \in BOOLEAN :
            items[s][i].dirty /\ file' = file \o Record(items[s][i], boundaries)
       \/ \E s \in up : ImageOf(s)]_vars
=============================================================================
