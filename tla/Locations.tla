------------------------------- MODULE Locations -------------------------------
(***************************************************************************)
(* Where the shell is and where it finds its commands (engine/shell/fs.rs,  *)
(* engine/pathcache.rs, engine/pathsearch.rs, the resolution of names in    *)
(* engine/commands.rs; the builtins cd, pushd, popd, dirs, hash, type).     *)
(* The shell keeps a working directory of its own and never changes that of *)
(* the process, against which the operating system resolves relative        *)
(* entries of PATH.  A path is a sequence of names, absolute when it begins *)
(* with "/"; symbolic links, HOME as the system knows it and file name      *)
(* extensions are left out.  External commands are started in the working   *)
(* directory from the location found here.                                  *)
(***************************************************************************)
EXTENDS Integers, Sequences, SequencesExt

CONSTANTS
  Directories,   \* directories there may be, absolute
  ProcessDir,    \* where the process was started
  Home,          \* the value of HOME
  Targets,       \* what cd, pushd and pushd -n are given
  SearchPaths,   \* values of PATH; an empty entry is not among them
  Pinned,        \* the location hash -p is given
  MaxStack

VARIABLES
  working_dir, directory_stack,
  PWD, OLDPWD,               \* OLDPWD is <<>> while unset
  readonly,                  \* which of the two are
  PATH,
  program_location_cache,    \* the location kept for the command, or Nowhere
  key,                       \* the PATH it was kept under, or Unknown
  function, builtin,         \* whether the command is also one of these
  existing,                  \* the directories that exist
  programs,                  \* those of Directories that hold the command
  halfway,                   \* history: a move stopped after it had moved
  previous,                  \* history: the working directory before the last move
  pinned,                    \* history: hash -p gave the location that is kept
  renewed                    \* history: the command came or went since it was kept

place == <<working_dir, directory_stack, PWD, OLDPWD, halfway, previous>>
cache == <<program_location_cache, key, pinned, renewed>>
locations_vars == <<place, cache, readonly, PATH, function, builtin, existing, programs>>

Nowhere == <<>>
Unknown == << <<"?">> >>

ASSUME LocationsAssumption == /\ SearchPaths \subseteq Seq(Seq(STRING) \ {Nowhere})
                              /\ Unknown \notin SearchPaths
                              /\ MaxStack \in Nat

---------------------------------------------------------------------------
(* Paths.                                                                   *)
IsAbsolute(path) == path # <<>> /\ path[1] = "/"
From(dir, path) == IF path = <<>> \/ IsAbsolute(path) THEN path ELSE dir \o path
absolute_path(path) == From(working_dir, path)

(* Of an absolute path; the root is its own parent.                         *)
clean_path_lexically(path) ==
  FoldLeft(LAMBDA clean, name :
             CASE name = "." -> clean
               [] name = ".." -> IF Len(clean) > 1 THEN Front(clean) ELSE clean
               [] OTHER -> Append(clean, name),
           <<>>, path)
Cleaned(path) == clean_path_lexically(absolute_path(path))

---------------------------------------------------------------------------
(* The cache of locations, of one command.                                  *)
reset_path_caches ==
  /\ program_location_cache' = Nowhere
  /\ key' = Unknown
  /\ pinned' = FALSE
  /\ renewed' = FALSE

KeepsWhatItHas(path) == program_location_cache    \* mutant of synchronize_path_values
(* What is kept, when PATH is path: nothing that was found under another.    *)
synchronize_path_values(path) ==
  IF key \in {Unknown, path} THEN program_location_cache ELSE Nowhere

(* The first directory of PATH that holds the command.  The file system is  *)
(* asked for an entry as it stands, which means it from ProcessDir.          *)
Holds(entry, base) ==
  \E dir \in programs \intersect existing : dir = clean_path_lexically(From(base, entry))
find_first_executable_in_path(path) ==
  LET holding == {k \in DOMAIN path : Holds(path[k], ProcessDir)}
  IN IF holding = {} THEN Nowhere ELSE path[CHOOSE k \in holding : \A j \in holding : k <= j]

find_first_executable_in_path_using_cache(path, kept) ==
  IF kept # Nowhere THEN kept ELSE find_first_executable_in_path(path)

(* A look-up: the command is run, perhaps with a PATH of its own, or hashed  *)
(* anew, which drops what is kept first.                                    *)
LooksUp(path, kept) ==
  /\ program_location_cache' = find_first_executable_in_path_using_cache(path, kept)
  /\ key' = path
  /\ pinned' = (pinned /\ kept # Nowhere)
  /\ renewed' = (renewed /\ kept # Nowhere)
  /\ UNCHANGED <<place, readonly, PATH, function, builtin, existing, programs>>

(* What a command is when it runs: a function before a builtin before a      *)
(* program.                                                                 *)
Executes(path) ==
  IF function THEN "function" ELSE IF builtin THEN "builtin"
  ELSE IF find_first_executable_in_path_using_cache(path, synchronize_path_values(path)) = Nowhere
  THEN "none" ELSE "program"
RunsCommand == \E path \in SearchPaths :
  /\ Executes(path) \in {"program", "none"}
  /\ LooksUp(path, synchronize_path_values(path))
HashesCommand == LooksUp(PATH, Nowhere)

(* hash -r, hash -d, hash -p.                                               *)
ForgetsAll == reset_path_caches /\ UNCHANGED <<place, readonly, PATH, function, builtin, existing, programs>>
ForgetsCommand ==
  /\ program_location_cache # Nowhere
  /\ program_location_cache' = Nowhere
  /\ pinned' = FALSE
  /\ renewed' = FALSE
  /\ UNCHANGED <<place, key, readonly, PATH, function, builtin, existing, programs>>
PinsCommand ==
  /\ program_location_cache' = Pinned
  /\ pinned' = TRUE
  /\ UNCHANGED <<place, key, renewed, readonly, PATH, function, builtin, existing, programs>>

(* What type says of the command, and command -v but for functions.          *)
resolve_command ==
  IF function THEN <<"function", Nowhere>> ELSE IF builtin THEN <<"builtin", Nowhere>>
  ELSE LET at == find_first_executable_in_path_using_cache(PATH, program_location_cache)
       IN <<IF at = Nowhere THEN "none" ELSE "program", at>>

---------------------------------------------------------------------------
(* Moving.                                                                  *)
Moves(target) == target # <<>> /\ Cleaned(target) \in existing /\ "PWD" \notin readonly
Completes(target) == Moves(target) /\ "OLDPWD" \notin readonly

set_working_dir(target) ==
  /\ IF Moves(target)
     THEN PWD' = Cleaned(target) /\ working_dir' = Cleaned(target) /\ previous' = working_dir
     ELSE UNCHANGED <<PWD, working_dir, previous>>
  /\ OLDPWD' = IF Completes(target) THEN working_dir ELSE OLDPWD
  /\ halfway' = (halfway \/ (Moves(target) /\ ~Completes(target)))
  /\ IF Completes(target) THEN reset_path_caches ELSE UNCHANGED cache
  /\ UNCHANGED <<readonly, PATH, function, builtin, existing, programs>>

cd ==
  \E target \in Targets \union {OLDPWD, Home} :
    target # <<>> /\ set_working_dir(target) /\ UNCHANGED directory_stack

Stacks(stack) ==
  /\ directory_stack' = stack
  /\ UNCHANGED <<working_dir, PWD, OLDPWD, halfway, previous, cache, readonly, PATH, function, builtin, existing, programs>>

pushd ==
  /\ Len(directory_stack) < MaxStack
  /\ \E target \in Targets :
       \/ /\ set_working_dir(target)
          /\ directory_stack' =
               IF Completes(target) THEN Append(directory_stack, working_dir) ELSE directory_stack
       \/ Stacks(Append(directory_stack, target))

restore_popped_directory(stack, popped) == Append(stack, popped)

popd ==
  /\ directory_stack # <<>>
  /\ LET popped == Last(directory_stack)
         rest == Front(directory_stack)
     IN \/ /\ set_working_dir(popped)
           /\ directory_stack' = IF Completes(popped) THEN rest ELSE restore_popped_directory(rest, popped)
        \/ Stacks(rest)

ClearsStack == directory_stack # <<>> /\ Stacks(<<>>)

(* What dirs prints, and what ~+n (or ~n) and ~-n stand for.                  *)
dirs == <<working_dir>> \o Reverse(directory_stack)
NthDirFromTop(n) ==
  LET count == Len(directory_stack)
  IN IF n = 0 THEN working_dir ELSE IF n <= count THEN directory_stack[count - n + 1] ELSE Nowhere
NthDirTooLow(n) ==    \* mutant of NthDirFromBottom
  LET count == Len(directory_stack)
  IN IF n < count THEN directory_stack[n + 1] ELSE Nowhere
NthDirFromBottom(n) ==
  LET count == Len(directory_stack)
  IN IF n < count THEN directory_stack[n + 1] ELSE IF n = count THEN working_dir ELSE Nowhere

---------------------------------------------------------------------------
LocationsInit ==
  /\ working_dir = ProcessDir
  /\ directory_stack = <<>>
  /\ PWD = ProcessDir
  /\ OLDPWD = <<>>
  /\ readonly = {}
  /\ PATH \in SearchPaths
  /\ program_location_cache = Nowhere
  /\ key = Unknown
  /\ function = FALSE
  /\ builtin = FALSE
  /\ existing = Directories
  /\ programs \in SUBSET Directories
  /\ halfway = FALSE
  /\ previous = <<>>
  /\ pinned = FALSE
  /\ renewed = FALSE

(* Scripts declare a variable readonly, assign PATH, define what the         *)
(* command is; others make and remove directories and programs.              *)
DeclaresReadonly ==
  /\ \E name \in {"PWD", "OLDPWD"} \ readonly : readonly' = readonly \union {name}
  /\ UNCHANGED <<place, cache, PATH, function, builtin, existing, programs>>
AssignsPath ==
  /\ PATH' \in SearchPaths \ {PATH}
  /\ UNCHANGED <<place, cache, readonly, function, builtin, existing, programs>>
Redefines ==
  /\ \/ function' = ~function /\ UNCHANGED builtin
     \/ builtin' = ~builtin /\ UNCHANGED function
  /\ UNCHANGED <<place, cache, readonly, PATH, existing, programs>>
Toggled(set, x) == (set \ {x}) \union ({x} \ set)
(* A directory comes or goes.                                              *)
DirectoriesChange ==
  /\ \E dir \in Directories : existing' = Toggled(existing, dir)
  /\ renewed' = TRUE
  /\ UNCHANGED <<place, program_location_cache, key, pinned, readonly, PATH, function, builtin, programs>>
ProgramsChange ==
  /\ \E dir \in Directories : programs' = Toggled(programs, dir)
  /\ renewed' = TRUE
  /\ UNCHANGED <<place, program_location_cache, key, pinned, readonly, PATH, function, builtin, existing>>

MovesOn == cd \/ pushd \/ popd \/ ClearsStack
LooksOn == RunsCommand \/ HashesCommand \/ ForgetsAll \/ ForgetsCommand \/ PinsCommand
LocationsNext ==
  MovesOn \/ LooksOn \/ DeclaresReadonly \/ AssignsPath \/ Redefines \/ DirectoriesChange \/ ProgramsChange
LocationsSpec == LocationsInit /\ [][LocationsNext]_locations_vars

---------------------------------------------------------------------------
(***************************************************************************)
(* Wherever the shell went and however moves failed, PWD is where it is and *)
(* OLDPWD where it was, unless a readonly OLDPWD stopped a move after it    *)
(* had moved; and ~+n and ~-n stand for the n-th directory of what dirs      *)
(* prints, from either end, and for none beyond its end.                    *)
(***************************************************************************)
PlacesAgree ==
  /\ PWD = working_dir
  /\ ~halfway => OLDPWD = previous
  /\ \A n \in 0..(MaxStack + 1) :
       LET there == n + 1 \in DOMAIN dirs
       IN /\ NthDirFromTop(n) = IF there THEN dirs[n + 1] ELSE Nowhere
          /\ NthDirFromBottom(n) = IF there THEN Reverse(dirs)[n + 1] ELSE Nowhere

(* The location of a search is right when it is the first entry that holds  *)
(* the command as seen from where the shell is, and none when none does.    *)
IsFirstHolding(at, path) ==
  \/ at = Nowhere /\ \A k \in DOMAIN path : ~Holds(path[k], working_dir)
  \/ \E k \in DOMAIN path :
       /\ at = path[k] /\ Holds(path[k], working_dir)
       /\ \A j \in DOMAIN path : j < k => ~Holds(path[j], working_dir)

FoundUnder(path) ==
  LET kept == synchronize_path_values(path)
  IN ~renewed /\ ~(pinned /\ kept # Nowhere) =>
       IsFirstHolding(find_first_executable_in_path_using_cache(path, kept), path)

(* From where the shell is, the path means what it means to the process.     *)
MeansTheSame(path) == working_dir = ProcessDir \/ \A k \in DOMAIN path : IsAbsolute(path[k])

(***************************************************************************)
(* A command given a PATH runs from the first of its directories that holds *)
(* it, whatever was looked up under other values and in other places        *)
(* before: only hash -p, or files that others changed since, let it differ, *)
(* and relative entries while the shell is not where its process is.  And   *)
(* type says what will be run, unless PATH was assigned since.              *)
(***************************************************************************)
FoundAsPathSays ==
  /\ \A path \in SearchPaths : MeansTheSame(path) => FoundUnder(path)
  /\ key \in {Unknown, PATH} => resolve_command[1] = Executes(PATH)

(***************************************************************************)
(* The same wherever the shell is: relative entries of PATH change with the *)
(* working directory, as the comment says where a move empties the caches.  *)
(***************************************************************************)
RelativeEntriesFollow == \A path \in SearchPaths : FoundUnder(path)
================================================================================
