----------------------------- MODULE OpenFiles -----------------------------
(***************************************************************************)
(* File descriptors: what the shell has open (Shell.open_files), what the  *)
(* parameters of each command under way lay over it                        *)
(* (ExecutionParameters.open_files), and the operations that change them:  *)
(* redirections, process substitutions, coprocesses, `exec` and subshells  *)
(* (src/src/engine/openfiles.rs, interp.rs, src/src/builtins/exec.rs).     *)
(*                                                                         *)
(* An operating system has one table of descriptors per process, changes   *)
(* it in place and restores what a command redirected when it ends; the    *)
(* ghost `posix` does just that, beside the layers of the code.            *)
(***************************************************************************)
EXTENDS Naturals, Sequences, SequencesExt, FiniteSetsExt

CONSTANTS
  FirstFd,         \* OpenFiles::FIRST_NON_STDIO_FD
  MaxFd,           \* OpenFiles::MAX_FD
  SubstitutionFd,  \* where a process substitution begins to look, 63; at most MaxFd
  MaxDepth,        \* bound: commands inside commands
  MaxFdChanges     \* bound: descriptors changed in one execution

ASSUME OpenFilesAssumption == /\ FirstFd \in Nat /\ MaxFd \in Nat
                              /\ SubstitutionFd \in 0 .. MaxFd

VARIABLES
  files,       \* the open files of each shell, that of the innermost subshell last
  overlay,     \* the parameters of the commands under way, outermost first
  posix,       \* ghost: one table per process, with what is to be restored
  fd_changes,  \* how many changes were made
  masked       \* ghost: exec or coproc changed the shell under an overlay

files_vars == <<files, overlay, posix, fd_changes, masked>>

Fds == 0 .. MaxFd

(* OpenFileEntry: not specified, not present (a tombstone), or a file. *)
NotSpecified == "not specified"
NotPresent == "not present"
Opened == {"terminal", "file", "pipe", "coproc_out", "coproc_in"}
Entries == Opened \union {NotSpecified, NotPresent}

Nothing == [fd \in Fds |-> NotSpecified]

(* The parameters of the commands at the outermost level set nothing. *)
Params(n) == IF n = 0 THEN Nothing ELSE overlay[n].fds

Depth == Len(overlay)

fd_entry(layer, fallback, fd) ==
  IF layer[fd] # NotSpecified THEN layer[fd] ELSE fallback[fd]

(* What a command at depth n sees: FdOverlay over the shell it runs in. *)
Shell == Last(files)

View(fd) == fd_entry(Params(Depth), Shell, fd)

try_fd(fd) == IF View(fd) \in Opened THEN View(fd) ELSE NotPresent

-----------------------------------------------------------------------------
(* One table, and what each command under way has to restore in it.        *)
Restored(table, undo) ==
  [fd \in Fds |-> IF undo[fd] # NotSpecified THEN undo[fd] ELSE table[fd]]

(* The innermost command restores what it found, not what it set before.   *)
Saved(undo, table, fd) ==
  [undo EXCEPT ![fd] = IF @ = NotSpecified THEN table[fd] ELSE @]

PosixSet(p, fd, value) ==
  [table |-> [p.table EXCEPT ![fd] = value],
   undo  |-> Append(Front(p.undo), Saved(Last(p.undo), p.table, fd))]

PosixBegin(fork) ==
  [posix EXCEPT !.undo = Append(@, IF fork THEN posix.table ELSE Nothing)]

PosixEnd ==
  [table |-> Restored(posix.table, Last(posix.undo)), undo |-> Front(posix.undo)]

PosixKeep == [posix EXCEPT !.undo = Front(@)]

-----------------------------------------------------------------------------
(* try_clone copies the parameters, try_fork_subshell the shell too. *)
Begin(fork) ==
  /\ Depth < MaxDepth
  /\ overlay' = Append(overlay, [fds |-> Params(Depth), fork |-> fork])
  /\ files' = IF fork THEN Append(files, Last(files)) ELSE files
  /\ posix' = PosixBegin(fork)
  /\ UNCHANGED <<fd_changes, masked>>

Dropped == IF Last(overlay).fork THEN Front(files) ELSE files

End ==
  /\ Depth > 0
  /\ overlay' = Front(overlay)
  /\ files' = Dropped
  /\ posix' = PosixEnd
  /\ UNCHANGED <<fd_changes, masked>>

ParamsBecome(fds) == overlay' = [overlay EXCEPT ![Depth].fds = fds]

Set(fd, entry) == ParamsBecome([Params(Depth) EXCEPT ![fd] = entry])

Changes(n) ==
  /\ Depth > 0 /\ fd_changes + n <= MaxFdChanges
  /\ fd_changes' = fd_changes + n

(* `n>file`, a here-document, the pipes of a pipeline. *)
Redirect(fd) ==
  /\ Changes(1)
  /\ Set(fd, "file")
  /\ posix' = PosixSet(posix, fd, "file")
  /\ UNCHANGED <<files, masked>>

(* `n>&m`; without the file m the command fails and ends instead. *)
Duplicate(fd, source) ==
  /\ try_fd(source) # NotPresent
  /\ Changes(1)
  /\ Set(fd, View(source))
  /\ posix' = PosixSet(posix, fd, posix.table[source])
  /\ UNCHANGED <<files, masked>>

(* `n>&-` leaves a tombstone that hides the file of the shell. *)
Forgotten(fd) == Set(fd, NotSpecified)

remove_fd(fd) == Set(fd, NotPresent)

Close(fd) ==
  /\ Changes(1)
  /\ remove_fd(fd)
  /\ posix' = PosixSet(posix, fd, NotPresent)
  /\ UNCHANGED <<files, masked>>

(* `n>&m-`: copied, then the source is closed. *)
Move(fd, source) ==
  /\ fd # source /\ try_fd(source) # NotPresent
  /\ Changes(2)
  /\ ParamsBecome([Params(Depth) EXCEPT ![fd] = View(source), ![source] = NotPresent])
  /\ posix' = PosixSet(PosixSet(posix, fd, posix.table[source]), source, NotPresent)
  /\ UNCHANGED <<files, masked>>

(* The descriptor of a process substitution is the highest that nobody has *)
(* opened or closed; none left is an error, which ends the command.        *)
Candidates == {fd \in 1 .. SubstitutionFd : View(fd) = NotSpecified}

Substitute ==
  /\ Candidates # {}
  /\ Changes(1)
  /\ Set(Max(Candidates), "pipe")
  /\ posix' = PosixSet(posix, Max(Candidates), "pipe")
  /\ UNCHANGED <<files, masked>>

(* `n< <(...)`: the pipe is at n as well. *)
RedirectSubstitute(fd) ==
  /\ Candidates # {}
  /\ Changes(2)
  /\ ParamsBecome([Params(Depth) EXCEPT ![Max(Candidates)] = "pipe", ![fd] = "pipe"])
  /\ posix' = PosixSet(PosixSet(posix, Max(Candidates), "pipe"), fd, "pipe")
  /\ UNCHANGED <<files, masked>>

(***************************************************************************)
(* `exec` without a command: the shell gets all that the command sees, and *)
(* the parameters of the commands around it stay as they are.              *)
(***************************************************************************)
iter_fds == [fd \in Fds |-> IF View(fd) \in Opened THEN View(fd) ELSE NotSpecified]

replace_open_files == files' = [files EXCEPT ![Len(files)] = iter_fds]

Exec ==
  /\ Depth > 0 /\ ~Last(overlay).fork
  /\ replace_open_files
  /\ overlay' = Front(overlay)
  /\ posix' = PosixKeep
  /\ masked' = (masked \/ Params(Depth - 1) # Nothing)
  /\ UNCHANGED fd_changes

(***************************************************************************)
(* A coprocess gets two descriptors of the shell, searched upwards among   *)
(* those that have no entry.  When the second cannot be had, or the        *)
(* parameters cannot be copied, what was added is removed again.           *)
(***************************************************************************)
Free(table) == {fd \in FirstFd .. MaxFd : table[fd] = NotSpecified}

WithFiles(table) == files' = [files EXCEPT ![Len(files)] = table]

Coprocess ==
  /\ Cardinality(Free(Shell)) >= 2
  /\ Changes(2)
  /\ LET out == Min(Free(Shell))
         in  == Min(Free(Shell) \ {out})
     IN /\ WithFiles([Shell EXCEPT ![out] = "coproc_out", ![in] = "coproc_in"])
        /\ posix' = [posix EXCEPT !.table =
                        [posix.table EXCEPT ![out] = "coproc_out", ![in] = "coproc_in"]]
        /\ masked' = (masked \/ \E fd \in {out, in} : Params(Depth)[fd] # NotSpecified)
  /\ UNCHANGED overlay

CoprocessFails(n) ==
  /\ Cardinality(Free(Shell)) >= n
  /\ n = 1 => Cardinality(Free(Shell)) = 1
  /\ Changes(n)
  /\ LET out == Min(Free(Shell))
         all == IF n = 1 THEN {out} ELSE {out, Min(Free(Shell) \ {out})}
     IN WithFiles([fd \in Fds |-> IF fd \in all THEN NotPresent ELSE Shell[fd]])
  /\ UNCHANGED <<overlay, posix, masked>>

-----------------------------------------------------------------------------
Stdio == [fd \in Fds |-> IF fd < FirstFd THEN "terminal" ELSE NotSpecified]

FilesInit ==
  /\ files = <<Stdio>>
  /\ overlay = <<>>
  /\ posix = [table |-> [fd \in Fds |-> try_fd(fd)], undo |-> <<>>]
  /\ fd_changes = 0
  /\ masked = FALSE

FilesNext ==
  \/ \E fork \in BOOLEAN : Begin(fork)
  \/ End \/ Exec \/ Substitute \/ Coprocess
  \/ \E n \in 1 .. 2 : CoprocessFails(n)
  \/ \E fd \in Fds : Redirect(fd) \/ Close(fd) \/ RedirectSubstitute(fd)
  \/ \E fd, source \in Fds : Duplicate(fd, source) \/ Move(fd, source)

FilesSpec == FilesInit /\ [][FilesNext]_files_vars

-----------------------------------------------------------------------------
(* What a process finds behind a descriptor: a file or nothing. *)
Found == Opened \union {NotPresent}

FilesTypes ==
  /\ files \in Seq([Fds -> Entries])
  /\ overlay \in Seq([fds: [Fds -> Entries], fork: BOOLEAN])
  /\ posix \in [table: [Fds -> Found], undo: Seq([Fds -> Entries])]
  /\ Len(files) = 1 + Cardinality({i \in DOMAIN overlay : overlay[i].fork})
  /\ Len(posix.undo) = Depth
  /\ masked \in BOOLEAN

(***************************************************************************)
(* Layers are as good as a table: through every nesting of redirections,   *)
(* duplications, closings, moves, subshells, coprocesses and exec, a       *)
(* command sees the files it would see if they were made in the table of   *)
(* one process and undone at the end of each command.                      *)
(***************************************************************************)
PosixSees(fd) == IF posix.table[fd] \in Opened THEN posix.table[fd] ELSE NotPresent

SeenAsInOneTable == \A fd \in Fds : try_fd(fd) = PosixSees(fd)

(* Not so below a redirected command, where exec and coproc change the     *)
(* shell but an outer command's parameters lie over it.                    *)
UnmaskedSeenAsInOneTable == ~masked => SeenAsInOneTable

=============================================================================
