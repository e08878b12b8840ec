-------------------------- MODULE ShellStateProofs --------------------------
(***************************************************************************)
(* Proofs about modules OpenFiles, for any number of descriptors and any   *)
(* nesting of commands and subshells; Locations, for any directories,      *)
(* targets, values of PATH and depth of the directory stack, provided the  *)
(* mark for "found under no PATH" is not a value of PATH; and Getopts, for *)
(* any arguments, options strings and assignments to OPTIND.               *)
(***************************************************************************)
EXTENDS OpenFiles, Locations, Getopts, NatFacts, SequenceTheorems, FiniteSetTheorems

-----------------------------------------------------------------------------
(***************************************************************************)
(* The inductive invariant.  A command has an entry for each descriptor    *)
(* that one around it has an entry for.  The process restores all when a   *)
(* subshell ends, and nothing else but what a command has an entry for.    *)
(***************************************************************************)
Grows ==
  \A i, j \in 0 .. Depth : i <= j =>
    \A fd \in Fds : Params(i)[fd] # NotSpecified => Params(j)[fd] # NotSpecified

Undoes ==
  \A i \in 1 .. Depth : \A fd \in Fds :
    IF overlay[i].fork THEN posix.undo[i][fd] # NotSpecified
    ELSE posix.undo[i][fd] # NotSpecified => Params(i)[fd] # NotSpecified

(* The shell a command at each depth runs in, as an index of `files`. *)
Shells(at) ==
  /\ at \in [0 .. Depth -> 1 .. Len(files)]
  /\ at[Depth] = Len(files)
  /\ \A i \in 1 .. Depth : at[i] = IF overlay[i].fork THEN at[i - 1] + 1 ELSE at[i - 1]
  /\ \A i, j \in 0 .. Depth : i <= j => at[i] <= at[j]

(* The table of the process, now and when each command under way has ended. *)
Tables(t) ==
  /\ t \in [0 .. Depth -> [Fds -> Found]]
  /\ t[Depth] = posix.table
  /\ \A i \in 1 .. Depth : t[i - 1] = Restored(t[i], posix.undo[i])

Behind(entry) == IF entry \in Opened THEN entry ELSE NotPresent

(* The commands around the innermost see the same as in the table, too.    *)
Seen(at, t) ==
  \A i \in 0 .. Depth : \A fd \in Fds :
    Behind(fd_entry(Params(i), files[at[i]], fd)) = t[i][fd]

SeenAtEveryDepth == \E at, t : Shells(at) /\ Tables(t) /\ Seen(at, t)

FilesInv == FilesTypes /\ Grows /\ Undoes /\ (~masked => SeenAtEveryDepth)

-----------------------------------------------------------------------------
LEMMA EntriesAre == /\ Found \subseteq Entries /\ NotSpecified \in Entries
                    /\ NotPresent \in Found /\ NotSpecified \notin Found
                    /\ NotPresent \notin Opened /\ Opened \subseteq Found
                    /\ \A e : Behind(e) \in Found
                    /\ \A e \in Found : Behind(e) = e
                    /\ Behind(NotSpecified) = NotPresent
  BY DEF Entries, Found, Opened, NotSpecified, NotPresent, Behind

LEMMA NothingIs == Nothing \in [Fds -> Entries] /\ \A fd \in Fds : Nothing[fd] = NotSpecified
  BY EntriesAre DEF Nothing

LEMMA ElementOf ==
  ASSUME NEW T, NEW s \in Seq(T), NEW i \in 1 .. Len(s)
  PROVE  s[i] \in T
  OBVIOUS

LEMMA FrontOf ==
  ASSUME NEW T, NEW s \in Seq(T), s # <<>>
  PROVE  /\ Front(s) \in Seq(T)
         /\ Len(s) \in Nat /\ Len(s) >= 1
         /\ Len(Front(s)) = Len(s) - 1
         /\ \A i \in 1 .. Len(s) - 1 : Front(s)[i] = s[i]
         /\ Last(s) = s[Len(s)] /\ Last(s) \in T
<1>. DEFINE n == Len(s)
            m == n - 1
            front == SubSeq(s, 1, m)
<1>1. n \in Nat /\ n >= 1
  OBVIOUS
<1>2. \A i \in 1 .. n : s[i] \in T
  OBVIOUS
<1>3. m \in 0 .. Len(s) /\ \A i \in 1 .. m : s[i] \in T
  BY <1>1, <1>2
<1>4. Last(s) = s[n] /\ Last(s) \in T
  BY <1>1, <1>2 DEF Last
<1>. HIDE DEF n
<1>5. m \in Nat /\ Front(s) = front
  BY <1>1 DEF Front, n
<1>. HIDE DEF m
<1>6. front = [i \in 1 .. m |-> s[i]]
  BY <1>3
<1>7. front \in Seq(T) /\ Len(front) = m /\ \A i \in 1 .. m : front[i] = s[i]
  BY <1>3, <1>5, <1>6
<1>. QED
  BY <1>1, <1>4, <1>5, <1>7 DEF m, n

LEMMA AppendOf ==
  ASSUME NEW T, NEW s \in Seq(T), NEW x \in T
  PROVE  /\ Append(s, x) \in Seq(T) /\ Append(s, x) # <<>>
         /\ Len(s) \in Nat /\ Len(Append(s, x)) = Len(s) + 1
         /\ \A i \in 1 .. Len(s) : Append(s, x)[i] = s[i]
         /\ Append(s, x)[Len(s) + 1] = x /\ Last(Append(s, x)) = x
  BY DEF Last

LEMMA FrontOfAppend ==
  ASSUME NEW T, NEW s \in Seq(T), NEW x \in T
  PROVE  Front(Append(s, x)) = s
<1>. DEFINE longer == Append(s, x)
<1>1. /\ longer \in Seq(T) /\ longer # <<>>
      /\ Len(s) \in Nat /\ Len(longer) = Len(s) + 1
      /\ \A i \in 1 .. Len(s) : longer[i] = s[i]
  BY AppendOf
<1>. HIDE DEF longer
<1>2. /\ Front(longer) \in Seq(T) /\ Len(Front(longer)) = Len(longer) - 1
      /\ \A i \in 1 .. Len(longer) - 1 : Front(longer)[i] = longer[i]
  BY <1>1, FrontOf
<1>3. /\ Front(longer) \in Seq(T) /\ Len(Front(longer)) = Len(s)
      /\ \A i \in 1 .. Len(s) : Front(longer)[i] = s[i]
  BY <1>1, <1>2
<1>4. Front(longer) = s
  BY <1>3
<1>. QED
  BY <1>4 DEF longer

(* What the types say of the state, as the proofs use it. *)
LEMMA StateIs ==
  ASSUME FilesTypes
  PROVE  /\ Depth \in Nat /\ Depth = Len(overlay)
         /\ files # <<>> /\ Len(files) \in Nat /\ Len(files) >= 1
         /\ Shell = files[Len(files)] /\ Shell \in [Fds -> Entries]
         /\ \A i \in 0 .. Depth : Params(i) \in [Fds -> Entries]
         /\ \A i \in 1 .. Depth : Params(i) = overlay[i].fds
         /\ \A fd \in Fds : Params(0)[fd] = NotSpecified
         /\ posix.table \in [Fds -> Found]
         /\ posix.undo \in Seq([Fds -> Entries]) /\ Len(posix.undo) = Depth
         /\ Depth > 0 => posix.undo # <<>> /\ Last(posix.undo) = posix.undo[Depth]
<1>1. Depth \in Nat /\ Depth = Len(overlay)
  BY DEF FilesTypes, Depth
<1>2. files \in Seq([Fds -> Entries])
  BY DEF FilesTypes
<1>3. files # <<>>
  <2>1. IsFiniteSet(DOMAIN overlay)
    BY <1>1, FS_Interval DEF FilesTypes
  <2>2. Cardinality({i \in DOMAIN overlay : overlay[i].fork}) \in Nat
    BY <2>1, FS_Subset, FS_CardinalityType
  <2>3. Len(files) >= 1
    BY <2>2 DEF FilesTypes
  <2>. QED
    BY <2>3
<1>4. Len(files) \in Nat /\ Len(files) >= 1 /\ Shell = files[Len(files)] /\ Shell \in [Fds -> Entries]
  BY <1>2, <1>3, FrontOf DEF Shell
<1>5. ASSUME NEW i \in 1 .. Depth
      PROVE  Params(i) = overlay[i].fds /\ Params(i) \in [Fds -> Entries]
  <2>1. overlay \in Seq([fds: [Fds -> Entries], fork: BOOLEAN])
    BY DEF FilesTypes
  <2>2. i \in 1 .. Len(overlay) /\ i # 0
    BY <1>1
  <2>3. overlay[i] \in [fds: [Fds -> Entries], fork: BOOLEAN]
    BY <2>1, <2>2, ElementOf
  <2>. QED
    BY <2>2, <2>3 DEF Params
<1>6. Params(0) = Nothing
  BY DEF Params
<1>7. \A i \in 0 .. Depth : Params(i) \in [Fds -> Entries]
  BY <1>1, <1>5, <1>6, NothingIs
<1>8. /\ posix.table \in [Fds -> Found]
      /\ posix.undo \in Seq([Fds -> Entries]) /\ Len(posix.undo) = Depth
  BY DEF FilesTypes
<1>9. Depth > 0 => posix.undo # <<>> /\ Last(posix.undo) = posix.undo[Depth]
  BY <1>1, <1>8 DEF Last
<1>. QED
  BY <1>1, <1>3, <1>4, <1>5, <1>6, <1>7, <1>8, <1>9, NothingIs

-----------------------------------------------------------------------------
(* One change of the table of p, and what is to be restored then. *)
SetsOne(p, q, fd, value, now, undo) ==
  /\ now \in [Fds -> Found] /\ undo \in [Fds -> Entries]
  /\ q = [table |-> now, undo |-> Append(Front(p.undo), undo)]
  /\ now[fd] = value /\ \A o \in Fds : o # fd => now[o] = p.table[o]
  /\ Restored(now, undo) = Restored(p.table, Last(p.undo))
  /\ \A o \in Fds : undo[o] # NotSpecified <=> Last(p.undo)[o] # NotSpecified \/ o = fd

LEMMA PosixSetIs ==
  ASSUME NEW p, p.table \in [Fds -> Found], p.undo \in Seq([Fds -> Entries]), p.undo # <<>>,
         NEW fd \in Fds, NEW value \in Found
  PROVE  \E now, undo : SetsOne(p, PosixSet(p, fd, value), fd, value, now, undo)
<1>. DEFINE table == p.table
            undos == p.undo
            before == Last(undos)
            undo == Saved(before, table, fd)
            now == [table EXCEPT ![fd] = value]
<1>1. before \in [Fds -> Entries]
  BY FrontOf
<1>. HIDE DEF before, table, undos
<1>2. now \in [Fds -> Found] /\ now[fd] = value /\ \A o \in Fds : o # fd => now[o] = table[o]
  BY DEF table
<1>3. /\ undo \in [Fds -> Entries]
      /\ undo[fd] = IF before[fd] = NotSpecified THEN table[fd] ELSE before[fd]
      /\ \A o \in Fds : o # fd => undo[o] = before[o]
  BY <1>1, EntriesAre DEF Saved, table
<1>4. undo[fd] # NotSpecified
  BY <1>3, EntriesAre DEF table
<1>5. PosixSet(p, fd, value) = [table |-> now, undo |-> Append(Front(undos), undo)]
  BY DEF PosixSet, undos, before, table
<1>. HIDE DEF undo, now
<1>6. Restored(now, undo) = Restored(table, before)
  BY <1>2, <1>3, <1>4 DEF Restored
<1>7. \A o \in Fds : undo[o] # NotSpecified <=> before[o] # NotSpecified \/ o = fd
  BY <1>3, <1>4
<1>8. SetsOne(p, PosixSet(p, fd, value), fd, value, now, undo)
  BY <1>2, <1>3, <1>5, <1>6, <1>7 DEF SetsOne, table, undos, before
<1>. QED
  BY <1>8

-----------------------------------------------------------------------------
LEMMA FilesInitInv == FilesInit => FilesInv
<1>. SUFFICES ASSUME FilesInit
              PROVE  FilesInv
  OBVIOUS
<1>1. /\ Stdio \in [Fds -> Entries]
      /\ files = <<Stdio>> /\ overlay = <<>> /\ posix.undo = <<>> /\ Depth = 0
  BY EntriesAre DEF FilesInit, Stdio, Depth, Entries, Opened
<1>2. Shell = Stdio /\ Params(0) = Nothing
  BY <1>1 DEF Shell, Last, Params
<1>3. \A fd \in Fds : View(fd) = Stdio[fd]
  BY <1>1, <1>2, NothingIs DEF View, fd_entry
<1>4. \A fd \in Fds : try_fd(fd) \in Found
  BY EntriesAre DEF try_fd
<1>5. posix = [table |-> [fd \in Fds |-> try_fd(fd)], undo |-> <<>>]
  BY DEF FilesInit
<1>6. posix.table \in [Fds -> Found] /\ \A fd \in Fds : posix.table[fd] = Behind(Stdio[fd])
  BY <1>3, <1>4, <1>5 DEF try_fd, Behind
<1>7. FilesTypes
  <2>1. Cardinality({i \in DOMAIN overlay : overlay[i].fork}) = 0
    BY <1>1, FS_EmptySet
  <2>2. posix \in [table: [Fds -> Found], undo: Seq([Fds -> Entries])]
    BY <1>5, <1>6
  <2>3. files \in Seq([Fds -> Entries]) /\ Len(files) = 1
    BY <1>1
  <2>4. Len(posix.undo) = Depth /\ masked \in BOOLEAN
    BY <1>1 DEF FilesInit
  <2>5. overlay \in Seq([fds: [Fds -> Entries], fork: BOOLEAN])
    BY <1>1
  <2>. QED
    BY <2>1, <2>2, <2>3, <2>4, <2>5 DEF FilesTypes
<1>8. Grows /\ Undoes
  BY <1>1 DEF Grows, Undoes
<1>9. SeenAtEveryDepth
  <2>. DEFINE at == [i \in 0 .. 0 |-> 1]
              t == [i \in 0 .. 0 |-> posix.table]
  <2>1. Shells(at)
    BY <1>1 DEF Shells
  <2>2. Tables(t)
    BY <1>1, <1>6 DEF Tables
  <2>3. \A fd \in Fds : fd_entry(Params(0), files[1], fd) = Stdio[fd]
    BY <1>1, <1>2, NothingIs DEF fd_entry
  <2>4. Seen(at, t)
    BY <1>1, <1>6, <2>3 DEF Seen
  <2>. QED
    BY <2>1, <2>2, <2>4 DEF SeenAtEveryDepth
<1>. QED
  BY <1>7, <1>8, <1>9 DEF FilesInv

-----------------------------------------------------------------------------
(***************************************************************************)
(* The innermost command's parameters change, and the table with them.     *)
(* What is restored when it ends stays what it was.                        *)
(***************************************************************************)
LEMMA SetInv ==
  ASSUME FilesInv, Depth > 0,
         NEW fds \in [Fds -> Entries], NEW table \in [Fds -> Found], NEW undo \in [Fds -> Entries],
         ParamsBecome(fds), files' = files, masked' = masked,
         posix' = [table |-> table, undo |-> Append(Front(posix.undo), undo)],
         Restored(table, undo) = Restored(posix.table, Last(posix.undo)),
         \A fd \in Fds : Params(Depth)[fd] # NotSpecified => fds[fd] # NotSpecified,
         \A fd \in Fds : Last(posix.undo)[fd] # NotSpecified => undo[fd] # NotSpecified,
         \A fd \in Fds : undo[fd] # NotSpecified =>
                           Last(posix.undo)[fd] # NotSpecified \/ fds[fd] # NotSpecified,
         ~masked => \A fd \in Fds : Behind(fd_entry(fds, Shell, fd)) = table[fd]
  PROVE  FilesInv'
<1>0. PICK d \in Nat : d = Depth
  BY StateIs DEF FilesInv
<1>1. /\ FilesTypes /\ Grows /\ Undoes /\ (~masked => SeenAtEveryDepth)
      /\ d \in Nat /\ d > 0 /\ d = Len(overlay) /\ Len(posix.undo) = d
  BY <1>0, StateIs DEF FilesInv
<1>2. /\ \A i \in 1 .. d : Params(i) = overlay[i].fds
      /\ \A i \in 0 .. d : Params(i) \in [Fds -> Entries]
      /\ Last(posix.undo) = posix.undo[d] /\ posix.undo # <<>>
      /\ posix.undo \in Seq([Fds -> Entries])
      /\ Shell = files[Len(files)]
  BY <1>0, <1>1, StateIs
<1>3. overlay' = [overlay EXCEPT ![d].fds = fds]
  BY <1>0 DEF ParamsBecome
<1>4. Depth' = d
  BY <1>1, <1>3 DEF Depth
<1>5. /\ Len(overlay') = d /\ DOMAIN overlay' = 1 .. d
      /\ overlay' \in Seq([fds: [Fds -> Entries], fork: BOOLEAN])
      /\ \A i \in 1 .. d : overlay'[i].fork = overlay[i].fork
      /\ \A i \in 1 .. d : overlay'[i].fds = IF i = d THEN fds ELSE overlay[i].fds
  <2>. DEFINE R == [fds: [Fds -> Entries], fork: BOOLEAN]
              one == [overlay[d] EXCEPT !.fds = fds]
  <2>1. overlay \in Seq(R) /\ Len(overlay) = d /\ d \in 1 .. d
    BY <1>1 DEF FilesTypes
  <2>2. overlay[d] \in R
    BY <2>1, ElementOf
  <2>3. one \in R /\ one.fds = fds /\ one.fork = overlay[d].fork
    BY <2>2
  <2>4. overlay' = [overlay EXCEPT ![d] = one]
    BY <1>3
  <2>. HIDE DEF R, one
  <2>5. /\ Len(overlay') = d /\ overlay' \in Seq(R) /\ overlay'[d] = one
        /\ \A i \in 1 .. d : i # d => overlay'[i] = overlay[i]
    BY <2>1, <2>3, <2>4
  <2>6. DOMAIN overlay' = 1 .. d
    BY <2>5
  <2>7. overlay' \in Seq([fds: [Fds -> Entries], fork: BOOLEAN])
    BY <2>5 DEF R
  <2>. QED
    BY <2>3, <2>5, <2>6, <2>7
<1>6. \A i \in 0 .. d : Params(i)' = IF i = d THEN fds ELSE Params(i)
  <2>. SUFFICES ASSUME NEW i \in 0 .. d
                PROVE  Params(i)' = IF i = d THEN fds ELSE Params(i)
    OBVIOUS
  <2>1. CASE i = 0
    BY <1>1, <2>1 DEF Params
  <2>2. CASE i # 0
    <3>0. i \in 1 .. d
      BY <2>2
    <3>1. Params(i)' = overlay'[i].fds
      BY <2>2 DEF Params
    <3>. QED
      BY <1>2, <1>5, <3>0, <3>1
  <2>. QED
    BY <2>1, <2>2
<1>7. /\ posix'.table = table
      /\ posix'.undo \in Seq([Fds -> Entries]) /\ Len(posix'.undo) = d
      /\ posix'.undo[d] = undo
      /\ \A i \in 1 .. d : i # d => posix'.undo[i] = posix.undo[i]
  <2>1. /\ Front(posix.undo) \in Seq([Fds -> Entries])
        /\ Len(Front(posix.undo)) = d - 1
        /\ \A i \in 1 .. d - 1 : Front(posix.undo)[i] = posix.undo[i]
    BY <1>1, <1>2, FrontOf
  <2>2. /\ posix'.undo \in Seq([Fds -> Entries])
        /\ Len(posix'.undo) = Len(Front(posix.undo)) + 1
        /\ \A i \in 1 .. Len(Front(posix.undo)) : posix'.undo[i] = Front(posix.undo)[i]
        /\ posix'.undo[Len(Front(posix.undo)) + 1] = undo
    BY <2>1, AppendOf
  <2>3. d - 1 + 1 = d /\ \A i \in 1 .. d : i # d => i \in 1 .. d - 1
    BY <1>1
  <2>. QED
    BY <2>1, <2>2, <2>3
<1>8. FilesTypes'
  <2>1. {i \in DOMAIN overlay' : overlay'[i].fork} = {i \in DOMAIN overlay : overlay[i].fork}
    BY <1>1, <1>5
  <2>2. posix' \in [table: [Fds -> Found], undo: Seq([Fds -> Entries])]
    BY <1>7
  <2>3. /\ files' \in Seq([Fds -> Entries]) /\ masked' \in BOOLEAN
        /\ Len(files') = 1 + Cardinality({i \in DOMAIN overlay : overlay[i].fork})
    BY <1>1 DEF FilesTypes
  <2>. QED
    BY <1>4, <1>5, <1>7, <2>1, <2>2, <2>3 DEF FilesTypes
<1>9. Grows'
  <2>. SUFFICES ASSUME NEW i \in 0 .. d, NEW j \in 0 .. d, i <= j, NEW fd \in Fds,
                       Params(i)'[fd] # NotSpecified
                PROVE  Params(j)'[fd] # NotSpecified
    BY <1>4 DEF Grows
  <2>1. Params(i)[fd] # NotSpecified => Params(j)[fd] # NotSpecified
    BY <1>0, <1>1 DEF Grows
  <2>2. i = d => j = d
    BY <1>1
  <2>. QED
    BY <1>0, <1>6, <2>1, <2>2
<1>10. Undoes'
  <2>. SUFFICES ASSUME NEW i \in 1 .. d, NEW fd \in Fds
                PROVE  IF overlay'[i].fork THEN posix'.undo[i][fd] # NotSpecified
                       ELSE posix'.undo[i][fd] # NotSpecified => Params(i)'[fd] # NotSpecified
    BY <1>4 DEF Undoes
  <2>1. IF overlay[i].fork THEN posix.undo[i][fd] # NotSpecified
        ELSE posix.undo[i][fd] # NotSpecified => Params(i)[fd] # NotSpecified
    BY <1>0, <1>1 DEF Undoes
  <2>2. overlay'[i].fork = overlay[i].fork /\ i \in 0 .. d
    BY <1>5
  <2>3. CASE i # d
    BY <1>6, <1>7, <2>1, <2>2, <2>3
  <2>4. CASE i = d
    BY <1>0, <1>2, <1>6, <1>7, <2>1, <2>2, <2>4
  <2>. QED
    BY <2>3, <2>4
<1>11. ASSUME ~masked'
       PROVE  SeenAtEveryDepth'
  <2>1. PICK at, t : Shells(at) /\ Tables(t) /\ Seen(at, t)
    BY <1>1, <1>11 DEF SeenAtEveryDepth
  <2>. PICK t1 : t1 = [i \in 0 .. d |-> IF i = d THEN table ELSE t[i]]
    OBVIOUS
  <2>2. Shells(at)'
    BY <1>0, <1>4, <1>5, <2>1 DEF Shells
  <2>3. /\ t \in [0 .. d -> [Fds -> Found]] /\ t[d] = posix.table
        /\ \A i \in 1 .. d : t[i - 1] = Restored(t[i], posix.undo[i])
    BY <1>0, <2>1 DEF Tables
  <2>4. Tables(t1)'
    <3>1. t1 \in [0 .. d -> [Fds -> Found]] /\ t1[d] = table
      BY <1>1, <2>3
    <3>2. ASSUME NEW i \in 1 .. d
          PROVE  t1[i - 1] = Restored(t1[i], posix'.undo[i])
      <4>1. i \in 0 .. d /\ i - 1 \in 0 .. d /\ i - 1 # d
        BY <1>1
      <4>2. t1[i - 1] = Restored(t[i], posix.undo[i])
        BY <2>3, <4>1
      <4>3. CASE i # d
        BY <1>7, <4>1, <4>2, <4>3
      <4>4. CASE i = d
        <5>1. t1[i] = table /\ posix'.undo[i] = undo
          BY <1>7, <3>1, <4>4
        <5>2. t1[i - 1] = Restored(posix.table, Last(posix.undo))
          BY <1>2, <2>3, <4>2, <4>4
        <5>. QED
          BY <5>1, <5>2
      <4>. QED
        BY <4>3, <4>4
    <3>. QED
      BY <1>4, <1>7, <3>1, <3>2 DEF Tables
  <2>5. Seen(at, t1)'
    <3>. SUFFICES ASSUME NEW i \in 0 .. d, NEW fd \in Fds
                  PROVE  Behind(fd_entry(Params(i)', files[at[i]], fd)) = t1[i][fd]
      BY <1>4 DEF Seen
    <3>1. Behind(fd_entry(Params(i), files[at[i]], fd)) = t[i][fd]
      BY <1>0, <2>1 DEF Seen
    <3>2. CASE i # d
      BY <1>6, <3>1, <3>2
    <3>3. CASE i = d
      <4>1. files[at[i]] = Shell /\ Params(i)' = fds
        BY <1>0, <1>2, <1>6, <2>1, <3>3 DEF Shells
      <4>. QED
        BY <1>11, <3>3, <4>1
    <3>. QED
      BY <3>2, <3>3
  <2>. QED
    BY <2>2, <2>4, <2>5 DEF SeenAtEveryDepth
<1>. QED
  BY <1>8, <1>9, <1>10, <1>11 DEF FilesInv

-----------------------------------------------------------------------------
(* What the innermost command sees is in the table. *)
LEMMA SeenNow ==
  ASSUME FilesInv, ~masked
  PROVE  \A fd \in Fds : Behind(View(fd)) = posix.table[fd]
<1>1. PICK at, t : Shells(at) /\ Tables(t) /\ Seen(at, t)
  BY DEF FilesInv, SeenAtEveryDepth
<1>2. Depth \in Nat /\ Shell = files[Len(files)]
  BY StateIs DEF FilesInv
<1>3. at[Depth] = Len(files) /\ t[Depth] = posix.table
  BY <1>1 DEF Shells, Tables
<1>4. Depth \in 0 .. Depth
  BY <1>2
<1>5. \A fd \in Fds : Behind(fd_entry(Params(Depth), files[at[Depth]], fd)) = t[Depth][fd]
  BY <1>1, <1>4 DEF Seen
<1>. QED
  BY <1>2, <1>3, <1>5 DEF View

(* A command changes one of its descriptors. *)
LEMMA OneSetInv ==
  ASSUME FilesInv, Depth > 0, NEW fd \in Fds, NEW entry \in Entries, NEW value \in Found,
         ParamsBecome([Params(Depth) EXCEPT ![fd] = entry]), entry # NotSpecified,
         posix' = PosixSet(posix, fd, value), UNCHANGED <<files, masked>>,
         ~masked => Behind(entry) = value
  PROVE  FilesInv'
<1>1. /\ Params(Depth) \in [Fds -> Entries] /\ posix.table \in [Fds -> Found]
      /\ posix.undo \in Seq([Fds -> Entries]) /\ posix.undo # <<>>
  <2>1. FilesTypes /\ Depth \in Nat /\ Depth \in 0 .. Depth
    BY StateIs DEF FilesInv
  <2>. QED
    BY <2>1, StateIs
<1>2. PICK now, undo : SetsOne(posix, posix', fd, value, now, undo)
  BY <1>1, PosixSetIs
<1>3. PICK fds : fds = [Params(Depth) EXCEPT ![fd] = entry]
  OBVIOUS
<1>4. /\ fds \in [Fds -> Entries] /\ fds[fd] = entry
      /\ \A o \in Fds : o # fd => fds[o] = Params(Depth)[o]
  BY <1>1, <1>3
<1>5. ASSUME ~masked, NEW o \in Fds
      PROVE  Behind(fd_entry(fds, Shell, o)) = now[o]
  <2>1. CASE o = fd
    BY <1>2, <1>4, <1>5, <2>1 DEF fd_entry, SetsOne
  <2>2. CASE o # fd
    <3>1. fd_entry(fds, Shell, o) = View(o)
      BY <1>4, <2>2 DEF fd_entry, View
    <3>2. now[o] = posix.table[o]
      BY <1>2, <2>2 DEF SetsOne
    <3>. QED
      BY <1>5, <3>1, <3>2, SeenNow
  <2>. QED
    BY <2>1, <2>2
<1>6. ParamsBecome(fds)
  BY <1>3
<1>7. \A o \in Fds : Params(Depth)[o] # NotSpecified => fds[o] # NotSpecified
  BY <1>4
<1>8. /\ now \in [Fds -> Found] /\ undo \in [Fds -> Entries]
      /\ posix' = [table |-> now, undo |-> Append(Front(posix.undo), undo)]
      /\ Restored(now, undo) = Restored(posix.table, Last(posix.undo))
  BY <1>2 DEF SetsOne
<1>9. \A o \in Fds : /\ Last(posix.undo)[o] # NotSpecified => undo[o] # NotSpecified
                     /\ undo[o] # NotSpecified =>
                          Last(posix.undo)[o] # NotSpecified \/ fds[o] # NotSpecified
  BY <1>2, <1>4 DEF SetsOne
<1>. QED
  BY <1>4, <1>5, <1>6, <1>7, <1>8, <1>9, SetInv

(* A command changes two of them, one after the other. *)
LEMMA TwoSetInv ==
  ASSUME FilesInv, Depth > 0, NEW fd \in Fds, NEW next \in Fds,
         NEW entry \in Entries, NEW value \in Found,
         NEW after \in Entries, NEW other \in Found,
         ParamsBecome([Params(Depth) EXCEPT ![fd] = entry, ![next] = after]),
         entry # NotSpecified, after # NotSpecified,
         posix' = PosixSet(PosixSet(posix, fd, value), next, other),
         UNCHANGED <<files, masked>>,
         ~masked => Behind(entry) = value /\ Behind(after) = other
  PROVE  FilesInv'
<1>1. /\ Params(Depth) \in [Fds -> Entries] /\ posix.table \in [Fds -> Found]
      /\ posix.undo \in Seq([Fds -> Entries]) /\ posix.undo # <<>>
  <2>1. FilesTypes /\ Depth \in Nat /\ Depth \in 0 .. Depth
    BY StateIs DEF FilesInv
  <2>. QED
    BY <2>1, StateIs
<1>2. PICK p : p = PosixSet(posix, fd, value)
  OBVIOUS
<1>3. PICK now, undo : SetsOne(posix, p, fd, value, now, undo)
  BY <1>1, <1>2, PosixSetIs
<1>4. /\ p.table = now /\ p.undo = Append(Front(posix.undo), undo)
      /\ now \in [Fds -> Found] /\ undo \in [Fds -> Entries]
  BY <1>3 DEF SetsOne
<1>5. Front(posix.undo) \in Seq([Fds -> Entries])
  BY <1>1, FrontOf
<1>6. p.undo \in Seq([Fds -> Entries]) /\ p.undo # <<>> /\ Last(p.undo) = undo
  BY <1>4, <1>5, AppendOf
<1>7. Front(p.undo) = Front(posix.undo)
  BY <1>4, <1>5, FrontOfAppend
<1>8. PICK end, undo2 : SetsOne(p, posix', next, other, end, undo2)
  <2>1. posix' = PosixSet(p, next, other)
    BY <1>2
  <2>2. p.table \in [Fds -> Found]
    BY <1>4
  <2>. QED
    BY <1>6, <2>1, <2>2, PosixSetIs
<1>9. PICK fds : fds = [Params(Depth) EXCEPT ![fd] = entry, ![next] = after]
  OBVIOUS
<1>10. /\ fds \in [Fds -> Entries] /\ fds[next] = after /\ (next # fd => fds[fd] = entry)
       /\ \A o \in Fds : o # fd /\ o # next => fds[o] = Params(Depth)[o]
  BY <1>1, <1>9
<1>11. ASSUME ~masked, NEW o \in Fds
       PROVE  Behind(fd_entry(fds, Shell, o)) = end[o]
  <2>1. CASE o = next
    BY <1>8, <1>10, <1>11, <2>1 DEF fd_entry, SetsOne
  <2>2. CASE o = fd /\ o # next
    BY <1>3, <1>4, <1>8, <1>10, <1>11, <2>2 DEF fd_entry, SetsOne
  <2>3. CASE o # fd /\ o # next
    <3>1. fd_entry(fds, Shell, o) = View(o)
      BY <1>10, <2>3 DEF fd_entry, View
    <3>2. end[o] = posix.table[o]
      BY <1>3, <1>4, <1>8, <2>3 DEF SetsOne
    <3>. QED
      BY <1>11, <3>1, <3>2, SeenNow
  <2>. QED
    BY <2>1, <2>2, <2>3
<1>12. ParamsBecome(fds)
  BY <1>9
<1>13. /\ end \in [Fds -> Found] /\ undo2 \in [Fds -> Entries]
       /\ posix' = [table |-> end, undo |-> Append(Front(posix.undo), undo2)]
       /\ Restored(end, undo2) = Restored(posix.table, Last(posix.undo))
  BY <1>3, <1>4, <1>6, <1>7, <1>8 DEF SetsOne
<1>14. \A o \in Fds : /\ undo2[o] # NotSpecified <=>
                           Last(posix.undo)[o] # NotSpecified \/ o = fd \/ o = next
  BY <1>3, <1>6, <1>8 DEF SetsOne
<1>15. \A o \in Fds : /\ undo2[o] # NotSpecified =>
                           Last(posix.undo)[o] # NotSpecified \/ fds[o] # NotSpecified
                      /\ Last(posix.undo)[o] # NotSpecified => undo2[o] # NotSpecified
                      /\ Params(Depth)[o] # NotSpecified => fds[o] # NotSpecified
  BY <1>10, <1>14
<1>. QED
  BY <1>10, <1>11, <1>12, <1>13, <1>15, SetInv

LEMMA RedirectsInv ==
  ASSUME FilesInv, NEW fd \in Fds, NEW source \in Fds,
         \/ Redirect(fd) \/ Close(fd) \/ RedirectSubstitute(fd) \/ Substitute
         \/ Duplicate(fd, source) \/ Move(fd, source)
  PROVE  FilesInv'
<1>1. /\ FilesTypes /\ posix.table \in [Fds -> Found]
      /\ NotPresent \in Entries /\ NotPresent # NotSpecified
      /\ \A e \in {"file", "pipe", NotPresent} :
           /\ e \in Entries /\ e \in Found /\ e # NotSpecified /\ Behind(e) = e
      /\ \A e \in Opened : e \in Entries /\ e # NotSpecified /\ Behind(e) = e
  BY StateIs DEF FilesInv, Entries, Found, Opened, Behind, NotPresent, NotSpecified
<1>2. ASSUME Candidates # {}
      PROVE  Max(Candidates) \in Fds
  <2>1. SubstitutionFd \in Nat /\ SubstitutionFd <= MaxFd /\ MaxFd \in Nat
    BY OpenFilesAssumption
  <2>2. Candidates \in SUBSET (0 .. SubstitutionFd)
    BY <2>1 DEF Candidates
  <2>3. \E m \in Candidates : \A y \in Candidates : y <= m
    BY <1>2, <2>1, <2>2, GreatestExists
  <2>4. \E m \in Candidates : \A y \in Candidates : m >= y
    BY <2>1, <2>2, <2>3
  <2>5. Max(Candidates) \in Candidates
    BY <2>4 DEF Max
  <2>6. \A m \in Candidates : m \in Fds
    BY <2>1, <2>2 DEF Fds
  <2>. QED
    BY <2>5, <2>6
<1>3. ASSUME try_fd(source) # NotPresent
      PROVE  /\ View(source) \in Opened /\ posix.table[source] \in Found
             /\ ~masked => View(source) = posix.table[source]
  <2>1. View(source) \in Opened
    BY <1>3 DEF try_fd
  <2>2. ~masked => Behind(View(source)) = posix.table[source]
    BY SeenNow
  <2>. QED
    BY <1>1, <2>1, <2>2
<1>4. CASE Redirect(fd)
  BY <1>1, <1>4, OneSetInv DEF Redirect, Changes, Set
<1>5. CASE Close(fd)
  BY <1>1, <1>5, OneSetInv DEF Close, Changes, remove_fd, Set
<1>6. CASE Substitute
  <2>1. PICK p : p = Max(Candidates)
    OBVIOUS
  <2>2. /\ Depth > 0 /\ p \in Fds
        /\ ParamsBecome([Params(Depth) EXCEPT ![p] = "pipe"])
        /\ posix' = PosixSet(posix, p, "pipe") /\ UNCHANGED <<files, masked>>
    BY <1>2, <1>6, <2>1 DEF Substitute, Changes, Set
  <2>. QED
    BY <1>1, <2>2, OneSetInv
<1>7. CASE RedirectSubstitute(fd)
  <2>1. PICK p : p = Max(Candidates)
    OBVIOUS
  <2>2. /\ Depth > 0 /\ p \in Fds
        /\ ParamsBecome([Params(Depth) EXCEPT ![p] = "pipe", ![fd] = "pipe"])
        /\ posix' = PosixSet(PosixSet(posix, p, "pipe"), fd, "pipe")
        /\ UNCHANGED <<files, masked>>
    BY <1>2, <1>7, <2>1 DEF RedirectSubstitute, Changes
  <2>. QED
    BY <1>1, <2>2, TwoSetInv
<1>8. CASE Duplicate(fd, source)
  <2>1. PICK e, v : e = View(source) /\ v = posix.table[source]
    OBVIOUS
  <2>2. /\ Depth > 0 /\ ParamsBecome([Params(Depth) EXCEPT ![fd] = e])
        /\ posix' = PosixSet(posix, fd, v) /\ UNCHANGED <<files, masked>>
        /\ try_fd(source) # NotPresent
    BY <1>8, <2>1 DEF Duplicate, Changes, Set
  <2>3. /\ e \in Entries /\ e # NotSpecified /\ v \in Found
        /\ ~masked => Behind(e) = v
    BY <1>1, <1>3, <2>1, <2>2
  <2>. QED
    BY <2>2, <2>3, OneSetInv
<1>9. CASE Move(fd, source)
  <2>1. PICK e, v : e = View(source) /\ v = posix.table[source]
    OBVIOUS
  <2>2. /\ Depth > 0
        /\ ParamsBecome([Params(Depth) EXCEPT ![fd] = e, ![source] = NotPresent])
        /\ posix' = PosixSet(PosixSet(posix, fd, v), source, NotPresent)
        /\ UNCHANGED <<files, masked>>
        /\ try_fd(source) # NotPresent
    BY <1>9, <2>1 DEF Move, Changes
  <2>3. /\ e \in Entries /\ e # NotSpecified /\ v \in Found
        /\ ~masked => Behind(e) = v
    BY <1>1, <1>3, <2>1, <2>2
  <2>. QED
    BY <1>1, <2>2, <2>3, TwoSetInv
<1>. QED
  BY <1>4, <1>5, <1>6, <1>7, <1>8, <1>9

-----------------------------------------------------------------------------
(***************************************************************************)
(* The files of the innermost shell change, and the table with them, where *)
(* no command has an entry; or what is behind them is the same.            *)
(***************************************************************************)
LEMMA ShellInv ==
  ASSUME FilesInv, NEW shell \in [Fds -> Entries], NEW table \in [Fds -> Found],
         WithFiles(shell), overlay' = overlay,
         posix' = [table |-> table, undo |-> posix.undo],
         masked' \in BOOLEAN, masked => masked',
         ~masked' => \A fd \in Fds :
           \/ Params(Depth)[fd] = NotSpecified /\ Behind(shell[fd]) = table[fd]
           \/ Behind(shell[fd]) = Behind(Shell[fd]) /\ table[fd] = posix.table[fd]
  PROVE  FilesInv'
<1>0. PICK d \in Nat, n \in Nat : d = Depth /\ n = Len(files)
  BY StateIs DEF FilesInv
<1>1. /\ FilesTypes /\ Grows /\ Undoes /\ (~masked => SeenAtEveryDepth)
      /\ n >= 1 /\ Shell = files[n] /\ files \in Seq([Fds -> Entries])
      /\ posix.undo \in Seq([Fds -> Entries]) /\ Len(posix.undo) = d
      /\ Params(d) \in [Fds -> Entries]
  <2>1. FilesTypes
    BY DEF FilesInv
  <2>2. files \in Seq([Fds -> Entries])
    BY <2>1 DEF FilesTypes
  <2>3. d \in 0 .. Depth
    BY <1>0
  <2>. QED
    BY <1>0, <2>1, <2>2, <2>3, StateIs DEF FilesInv
<1>2. /\ files' \in Seq([Fds -> Entries]) /\ Len(files') = n
      /\ files'[n] = shell /\ \A k \in 1 .. n : k # n => files'[k] = files[k]
  BY <1>0, <1>1 DEF WithFiles
<1>3. Depth' = d /\ \A i : Params(i)' = Params(i)
  BY <1>0 DEF Depth, Params
<1>4. posix'.table = table /\ posix'.undo = posix.undo
  OBVIOUS
<1>5. FilesTypes'
  <2>1. posix' \in [table: [Fds -> Found], undo: Seq([Fds -> Entries])]
    BY <1>1
  <2>2. /\ overlay' \in Seq([fds: [Fds -> Entries], fork: BOOLEAN])
        /\ Len(files') = 1 + Cardinality({i \in DOMAIN overlay : overlay[i].fork})
    BY <1>0, <1>1, <1>2 DEF FilesTypes
  <2>. QED
    BY <1>1, <1>2, <1>3, <1>4, <2>1, <2>2 DEF FilesTypes
<1>6. Grows' /\ Undoes'
  <2>1. Grows'
    BY <1>0, <1>1, <1>3 DEF Grows
  <2>2. Undoes'
    BY <1>0, <1>1, <1>3, <1>4 DEF Undoes
  <2>. QED
    BY <2>1, <2>2
<1>7. ASSUME ~masked'
      PROVE  SeenAtEveryDepth'
  <2>1. PICK at, t : Shells(at) /\ Tables(t) /\ Seen(at, t)
    BY <1>1, <1>7 DEF SeenAtEveryDepth
  <2>9. PICK free : free = {fd \in Fds : Params(d)[fd] = NotSpecified}
    OBVIOUS
  <2>10. PICK t1 : t1 = [i \in 0 .. d |-> [fd \in Fds |->
                         IF at[i] = n /\ fd \in free THEN Behind(shell[fd]) ELSE t[i][fd]]]
    OBVIOUS
  <2>2. /\ at \in [0 .. d -> 1 .. n] /\ at[d] = n
        /\ \A i \in 1 .. d : at[i] = IF overlay[i].fork THEN at[i - 1] + 1 ELSE at[i - 1]
        /\ t \in [0 .. d -> [Fds -> Found]] /\ t[d] = posix.table
        /\ \A i \in 1 .. d : t[i - 1] = Restored(t[i], posix.undo[i])
    BY <1>0, <2>1 DEF Shells, Tables
  <2>3. \A i \in 0 .. d : \A fd \in Fds : Behind(fd_entry(Params(i), files[at[i]], fd)) = t[i][fd]
    BY <1>0, <2>1 DEF Seen
  <2>4. \A i \in 0 .. d : \A fd \in free : Params(i)[fd] = NotSpecified
    BY <1>0, <1>1, <2>9 DEF Grows
  <2>5. \A fd \in Fds :
           \/ fd \in free /\ Behind(shell[fd]) = table[fd]
           \/ Behind(shell[fd]) = Behind(Shell[fd]) /\ table[fd] = posix.table[fd]
    BY <1>0, <1>7, <2>9
  <2>6. Shells(at)'
    BY <1>0, <1>2, <1>3, <2>1 DEF Shells
  <2>7. Tables(t1)'
    <3>1. t1 \in [0 .. d -> [Fds -> Found]]
      BY <2>2, <2>10, EntriesAre
    <3>2. t1[d] = table
      <4>1. ASSUME NEW fd \in Fds
            PROVE  t1[d][fd] = table[fd]
        <5>1. t1[d][fd] = IF fd \in free THEN Behind(shell[fd]) ELSE posix.table[fd]
          BY <2>2, <2>9, <2>10
        <5>2. Behind(fd_entry(Params(d), Shell, fd)) = posix.table[fd]
          BY <1>1, <2>2, <2>3
        <5>3. fd \in free => posix.table[fd] = Behind(Shell[fd])
          BY <2>9, <5>2 DEF fd_entry
        <5>. QED
          BY <2>5, <5>1, <5>3
      <4>2. t1[d] \in [Fds -> Found] /\ d \in 0 .. d
        BY <3>1
      <4>. QED
        BY <4>1, <4>2
    <3>3. ASSUME NEW i \in 1 .. d
          PROVE  t1[i - 1] = Restored(t1[i], posix.undo[i])
      <4>1. i \in 0 .. d /\ i - 1 \in 0 .. d
        OBVIOUS
      <4>2. /\ at[i] \in 1 .. n /\ at[i - 1] \in 1 .. n
            /\ at[i] = IF overlay[i].fork THEN at[i - 1] + 1 ELSE at[i - 1]
        BY <2>2, <4>1
      <4>3. ASSUME NEW fd \in Fds
            PROVE  t1[i - 1][fd] = IF posix.undo[i][fd] # NotSpecified
                                   THEN posix.undo[i][fd] ELSE t1[i][fd]
        <5>1. t[i - 1][fd] = IF posix.undo[i][fd] # NotSpecified
                             THEN posix.undo[i][fd] ELSE t[i][fd]
          BY <2>2 DEF Restored
        <5>2. IF overlay[i].fork THEN posix.undo[i][fd] # NotSpecified
              ELSE posix.undo[i][fd] # NotSpecified => Params(i)[fd] # NotSpecified
          BY <1>0, <1>1 DEF Undoes
        <5>3. /\ t1[i - 1][fd] = IF at[i - 1] = n /\ fd \in free
                                 THEN Behind(shell[fd]) ELSE t[i - 1][fd]
              /\ t1[i][fd] = IF at[i] = n /\ fd \in free THEN Behind(shell[fd]) ELSE t[i][fd]
          BY <2>10, <4>1
        <5>4. CASE overlay[i].fork
          BY <4>2, <5>1, <5>2, <5>3, <5>4
        <5>5. CASE ~overlay[i].fork
          <6>1. at[i - 1] = at[i]
            BY <4>2, <5>5
          <6>2. fd \in free => posix.undo[i][fd] = NotSpecified
            BY <2>4, <4>1, <5>2, <5>5
          <6>. QED
            BY <5>1, <5>3, <6>1, <6>2
        <5>. QED
          BY <5>4, <5>5
      <4>4. t1[i - 1] \in [Fds -> Found]
        BY <3>1, <4>1
      <4>. QED
        BY <4>3, <4>4 DEF Restored
    <3>. QED
      BY <1>3, <1>4, <3>1, <3>2, <3>3 DEF Tables
  <2>8. Seen(at, t1)'
    <3>. SUFFICES ASSUME NEW i \in 0 .. d, NEW fd \in Fds
                  PROVE  Behind(fd_entry(Params(i), files'[at[i]], fd)) = t1[i][fd]
      BY <1>3 DEF Seen
    <3>1. Behind(fd_entry(Params(i), files[at[i]], fd)) = t[i][fd] /\ at[i] \in 1 .. n
      BY <2>2, <2>3
    <3>2. t1[i][fd] = IF at[i] = n /\ fd \in free THEN Behind(shell[fd]) ELSE t[i][fd]
      BY <2>10
    <3>3. CASE at[i] # n
      BY <1>2, <3>1, <3>2, <3>3
    <3>4. CASE at[i] = n /\ fd \in free
      <4>1. fd_entry(Params(i), files'[at[i]], fd) = shell[fd]
        BY <1>2, <2>4, <3>4 DEF fd_entry
      <4>. QED
        BY <3>2, <3>4, <4>1
    <3>5. CASE at[i] = n /\ fd \notin free
      <4>1. Behind(shell[fd]) = Behind(Shell[fd])
        BY <2>5, <3>5
      <4>2. files'[at[i]] = shell /\ files[at[i]] = Shell
        BY <1>1, <1>2, <3>5
      <4>. QED
        BY <3>1, <3>2, <3>5, <4>1, <4>2 DEF fd_entry
    <3>. QED
      BY <3>3, <3>4, <3>5
  <2>. QED
    BY <2>6, <2>7, <2>8 DEF SeenAtEveryDepth
<1>. QED
  BY <1>5, <1>6, <1>7 DEF FilesInv

LEMMA MinIn ==
  ASSUME NEW S \in SUBSET Nat, S # {}
  PROVE  Min(S) \in S
<1>1. \E m \in S : \A x \in S : m <= x
  BY LeastExists
<1>. QED
  BY <1>1 DEF Min

LEMMA FreeFinite ==
  ASSUME NEW shell
  PROVE  IsFiniteSet(Free(shell)) /\ Cardinality(Free(shell)) \in Nat
<1>1. FirstFd \in Int /\ MaxFd \in Int
  BY OpenFilesAssumption
<1>2. IsFiniteSet(FirstFd .. MaxFd)
  BY <1>1, FS_Interval
<1>3. Free(shell) \subseteq FirstFd .. MaxFd
  BY DEF Free
<1>4. IsFiniteSet(Free(shell))
  BY <1>2, <1>3, FS_Subset
<1>. QED
  BY <1>4, FS_CardinalityType

LEMMA FreeAre ==
  ASSUME FilesTypes
  PROVE  /\ Free(Shell) \in SUBSET Fds /\ Free(Shell) \in SUBSET Nat
         /\ \A fd \in Free(Shell) : Shell[fd] = NotSpecified
         /\ Cardinality(Free(Shell)) >= 1 => Min(Free(Shell)) \in Free(Shell)
         /\ Cardinality(Free(Shell)) >= 2 =>
              Min(Free(Shell) \ {Min(Free(Shell))}) \in Free(Shell) \ {Min(Free(Shell))}
<1>1. PICK S : S = Free(Shell)
  OBVIOUS
<1>2. /\ S \in SUBSET Fds /\ S \in SUBSET Nat /\ S \in SUBSET (FirstFd .. MaxFd)
      /\ \A fd \in S : Shell[fd] = NotSpecified
  BY <1>1, OpenFilesAssumption DEF Free, Fds
<1>3. IsFiniteSet(S) /\ Cardinality(S) \in Nat
  BY <1>1, FreeFinite
<1>4. Cardinality(S) >= 1 => S # {}
  BY FS_EmptySet
<1>5. Cardinality(S) >= 1 => Min(S) \in S
  BY <1>2, <1>4, MinIn
<1>6. ASSUME Cardinality(S) >= 2
      PROVE  S \ {Min(S)} # {}
  <2>1. CASE S \ {Min(S)} = {}
    <3>1. S \subseteq {Min(S)}
      BY <2>1
    <3>2. IsFiniteSet({Min(S)}) /\ Cardinality({Min(S)}) = 1
      BY FS_Singleton
    <3>3. Cardinality(S) <= 1
      BY <3>1, <3>2, FS_Subset
    <3>. QED
      BY <1>3, <1>6, <3>3
  <2>. QED
    BY <2>1
<1>7. S \ {Min(S)} \in SUBSET Nat
  BY <1>2
<1>8. Cardinality(S) >= 2 => Min(S \ {Min(S)}) \in S \ {Min(S)}
  BY <1>6, <1>7, MinIn
<1>. QED
  BY <1>1, <1>2, <1>5, <1>8

LEMMA CoprocessInv ==
  ASSUME FilesInv, Coprocess
  PROVE  FilesInv'
<1>1. FilesTypes /\ Shell \in [Fds -> Entries] /\ posix.table \in [Fds -> Found]
  BY StateIs DEF FilesInv
<1>2. PICK out, in : out = Min(Free(Shell)) /\ in = Min(Free(Shell) \ {out})
  OBVIOUS
<1>3. Cardinality(Free(Shell)) \in Nat /\ Cardinality(Free(Shell)) >= 2
  BY FreeFinite DEF Coprocess
<1>4. /\ out \in Fds /\ in \in Fds /\ in # out
      /\ Shell[out] = NotSpecified /\ Shell[in] = NotSpecified
  BY <1>1, <1>2, <1>3, FreeAre
<1>5. PICK shell, table :
        /\ shell = [Shell EXCEPT ![out] = "coproc_out", ![in] = "coproc_in"]
        /\ table = [posix.table EXCEPT ![out] = "coproc_out", ![in] = "coproc_in"]
  OBVIOUS
<1>6. /\ WithFiles(shell) /\ overlay' = overlay
      /\ posix' = [posix EXCEPT !.table = table]
      /\ masked' = (masked \/ \E fd \in {out, in} : Params(Depth)[fd] # NotSpecified)
  BY <1>2, <1>5 DEF Coprocess
<1>7. posix' = [table |-> table, undo |-> posix.undo]
  BY <1>1, <1>6 DEF FilesTypes
<1>8. /\ "coproc_out" \in Entries /\ "coproc_in" \in Entries
      /\ "coproc_out" \in Found /\ "coproc_in" \in Found
  BY DEF Entries, Found, Opened
<1>9. /\ shell \in [Fds -> Entries] /\ table \in [Fds -> Found]
      /\ \A fd \in Fds : fd \notin {out, in} => shell[fd] = Shell[fd] /\ table[fd] = posix.table[fd]
      /\ \A fd \in {out, in} : shell[fd] = table[fd] /\ table[fd] \in Found
  BY <1>1, <1>4, <1>5, <1>8
<1>10. \A fd \in {out, in} : Behind(shell[fd]) = table[fd]
  BY <1>9, EntriesAre
<1>11. masked' \in BOOLEAN /\ (masked => masked')
  BY <1>1, <1>6 DEF FilesTypes
<1>12. ~masked' => \A fd \in Fds :
           \/ Params(Depth)[fd] = NotSpecified /\ Behind(shell[fd]) = table[fd]
           \/ Behind(shell[fd]) = Behind(Shell[fd]) /\ table[fd] = posix.table[fd]
  BY <1>6, <1>9, <1>10
<1>. QED
  BY <1>6, <1>7, <1>9, <1>11, <1>12, ShellInv

LEMMA CoprocessFailsInv ==
  ASSUME FilesInv, NEW n \in 1 .. 2, CoprocessFails(n)
  PROVE  FilesInv'
<1>1. FilesTypes /\ Shell \in [Fds -> Entries] /\ posix.table \in [Fds -> Found]
  BY StateIs DEF FilesInv
<1>2. PICK out, all :
        /\ out = Min(Free(Shell))
        /\ all = IF n = 1 THEN {out} ELSE {out, Min(Free(Shell) \ {out})}
  OBVIOUS
<1>3. PICK shell : shell = [fd \in Fds |-> IF fd \in all THEN NotPresent ELSE Shell[fd]]
  OBVIOUS
<1>4. /\ WithFiles(shell) /\ overlay' = overlay /\ posix' = posix /\ masked' = masked
      /\ Cardinality(Free(Shell)) >= n
  BY <1>2, <1>3 DEF CoprocessFails
<1>5. Cardinality(Free(Shell)) \in Nat
  BY FreeFinite
<1>6. \A fd \in all : fd \in Fds /\ Shell[fd] = NotSpecified
  <2>1. Cardinality(Free(Shell)) >= 1 /\ (n # 1 => Cardinality(Free(Shell)) >= 2)
    BY <1>4, <1>5
  <2>. QED
    BY <1>1, <1>2, <2>1, FreeAre
<1>7. shell \in [Fds -> Entries] /\ \A fd \in Fds : Behind(shell[fd]) = Behind(Shell[fd])
  BY <1>1, <1>3, <1>6, EntriesAre
<1>8. posix' = [table |-> posix.table, undo |-> posix.undo]
  BY <1>1, <1>4 DEF FilesTypes
<1>9. masked' \in BOOLEAN
  BY <1>1, <1>4 DEF FilesTypes
<1>. QED
  BY <1>1, <1>4, <1>7, <1>8, <1>9, ShellInv

-----------------------------------------------------------------------------
Forks(commands) == {i \in DOMAIN commands : commands[i].fork}

Layers == [fds: [Fds -> Entries], fork: BOOLEAN]

(* The innermost command ends, whatever becomes of its files. *)
LEMMA PopIs ==
  ASSUME FilesInv, Depth > 0, NEW table \in [Fds -> Found],
         overlay' = Front(overlay), posix' = [table |-> table, undo |-> Front(posix.undo)]
  PROVE  /\ Depth \in Nat /\ Depth' = Depth - 1
         /\ \A i \in 1 .. Depth - 1 : overlay'[i] = overlay[i] /\ posix'.undo[i] = posix.undo[i]
         /\ \A i \in 0 .. Depth - 1 : Params(i)' = Params(i)
         /\ overlay' \in Seq(Layers) /\ posix'.table = table
         /\ posix' \in [table: [Fds -> Found], undo: Seq([Fds -> Entries])]
         /\ Len(posix'.undo) = Depth'
         /\ Cardinality(Forks(overlay')) =
              Cardinality(Forks(overlay)) - (IF Last(overlay).fork THEN 1 ELSE 0)
         /\ Last(overlay) = overlay[Depth] /\ Cardinality(Forks(overlay)) \in Nat
         /\ Grows' /\ Undoes'
<1>0. PICK d \in Nat : d = Depth
  BY StateIs DEF FilesInv
<1>1. /\ FilesTypes /\ d = Len(overlay) /\ overlay \in Seq(Layers) /\ overlay # <<>>
      /\ posix.undo \in Seq([Fds -> Entries]) /\ Len(posix.undo) = d /\ posix.undo # <<>>
  <2>1. overlay \in Seq(Layers) /\ FilesTypes
    BY DEF FilesInv, FilesTypes, Layers
  <2>2. d = Len(overlay) /\ overlay # <<>>
    BY <1>0, <2>1 DEF Depth
  <2>. QED
    BY <1>0, <2>1, <2>2, StateIs
<1>2. /\ overlay' \in Seq(Layers) /\ Len(overlay') = d - 1
      /\ \A i \in 1 .. d - 1 : overlay'[i] = overlay[i]
      /\ Last(overlay) = overlay[d]
  BY <1>1, FrontOf
<1>3. /\ posix'.undo \in Seq([Fds -> Entries]) /\ Len(posix'.undo) = d - 1
      /\ \A i \in 1 .. d - 1 : posix'.undo[i] = posix.undo[i]
  BY <1>1, FrontOf
<1>4. Depth' = d - 1 /\ d - 1 \in Nat
  BY <1>0, <1>2 DEF Depth
<1>5. \A i \in 0 .. d - 1 : Params(i)' = Params(i)
  <2>. SUFFICES ASSUME NEW i \in 0 .. d - 1
                PROVE  Params(i)' = Params(i)
    OBVIOUS
  <2>1. CASE i = 0
    BY <2>1 DEF Params
  <2>2. CASE i # 0
    <3>1. i \in 1 .. d - 1
      BY <2>2
    <3>. QED
      BY <1>2, <2>2, <3>1 DEF Params
  <2>. QED
    BY <2>1, <2>2
<1>6. Grows'
  <2>. SUFFICES ASSUME NEW i \in 0 .. d - 1, NEW j \in 0 .. d - 1, i <= j, NEW fd \in Fds,
                       Params(i)[fd] # NotSpecified
                PROVE  Params(j)[fd] # NotSpecified
    BY <1>4, <1>5 DEF Grows
  <2>1. i \in 0 .. d /\ j \in 0 .. d
    OBVIOUS
  <2>. QED
    BY <1>0, <2>1 DEF FilesInv, Grows
<1>7. Undoes'
  <2>. SUFFICES ASSUME NEW i \in 1 .. d - 1, NEW fd \in Fds
                PROVE  IF overlay[i].fork THEN posix.undo[i][fd] # NotSpecified
                       ELSE posix.undo[i][fd] # NotSpecified => Params(i)[fd] # NotSpecified
    <3>1. \A i \in 1 .. d - 1 : i \in 0 .. d - 1
      OBVIOUS
    <3>. QED
      BY <1>2, <1>3, <1>4, <1>5, <3>1 DEF Undoes
  <2>1. i \in 1 .. d
    OBVIOUS
  <2>. QED
    BY <1>0, <2>1 DEF FilesInv, Undoes
<1>8. IsFiniteSet(Forks(overlay)) /\ Cardinality(Forks(overlay)) \in Nat
  <2>1. Forks(overlay) \subseteq 1 .. d
    BY <1>1 DEF Forks
  <2>2. IsFiniteSet(1 .. d)
    BY FS_Interval
  <2>. QED
    BY <2>1, <2>2, FS_Subset, FS_CardinalityType
<1>9. Forks(overlay') = Forks(overlay) \ {d}
  <2>1. DOMAIN overlay' = 1 .. d - 1 /\ DOMAIN overlay = 1 .. d
    BY <1>1, <1>2
  <2>2. 1 .. d - 1 = (1 .. d) \ {d}
    OBVIOUS
  <2>. QED
    BY <1>2, <2>1, <2>2 DEF Forks
<1>10. d \in Forks(overlay) <=> Last(overlay).fork
  <2>1. d \in DOMAIN overlay
    BY <1>0, <1>1
  <2>. QED
    BY <1>2, <2>1 DEF Forks
<1>11. Cardinality(Forks(overlay')) =
         Cardinality(Forks(overlay)) - (IF Last(overlay).fork THEN 1 ELSE 0)
  <2>1. Cardinality(Forks(overlay) \ {d}) =
          IF d \in Forks(overlay) THEN Cardinality(Forks(overlay)) - 1
          ELSE Cardinality(Forks(overlay))
    BY <1>8, FS_RemoveElement
  <2>2. PICK c \in Nat : c = Cardinality(Forks(overlay))
    BY <1>8
  <2>3. CASE Last(overlay).fork
    BY <1>9, <1>10, <2>1, <2>3
  <2>4. CASE ~Last(overlay).fork
    <3>1. Cardinality(Forks(overlay')) = c /\ c - 0 = c
      BY <1>9, <1>10, <2>1, <2>2, <2>4
    <3>. QED
      BY <2>2, <2>4, <3>1
  <2>. QED
    BY <2>3, <2>4
<1>. QED
  BY <1>0, <1>2, <1>3, <1>4, <1>5, <1>6, <1>7, <1>8, <1>11

LEMMA EndInv ==
  ASSUME FilesInv, End
  PROVE  FilesInv'
<1>0. PICK d \in Nat, n \in Nat : d = Depth /\ n = Len(files)
  BY StateIs DEF FilesInv
<1>1. PICK table : table = Restored(posix.table, Last(posix.undo))
  OBVIOUS
<1>2. /\ FilesTypes /\ d > 0 /\ n >= 1 /\ files # <<>> /\ files \in Seq([Fds -> Entries])
      /\ posix.table \in [Fds -> Found] /\ Last(posix.undo) = posix.undo[d]
      /\ Last(posix.undo) \in [Fds -> Entries]
  <2>1. FilesTypes /\ Depth > 0
    BY DEF FilesInv, End
  <2>2. files \in Seq([Fds -> Entries])
    BY <2>1 DEF FilesTypes
  <2>3. /\ posix.undo \in Seq([Fds -> Entries]) /\ posix.undo # <<>>
        /\ posix.table \in [Fds -> Found] /\ Last(posix.undo) = posix.undo[Depth]
        /\ files # <<>> /\ Len(files) >= 1
    BY <2>1, StateIs
  <2>4. Last(posix.undo) \in [Fds -> Entries]
    BY <2>3, FrontOf
  <2>. QED
    BY <1>0, <2>1, <2>2, <2>3, <2>4
<1>3. table \in [Fds -> Found]
  <2>1. \A e \in Entries : e # NotSpecified => e \in Found
    BY DEF Entries, Found
  <2>. QED
    BY <1>1, <1>2, <2>1 DEF Restored
<1>4. /\ overlay' = Front(overlay) /\ files' = Dropped /\ masked' = masked
      /\ posix' = [table |-> table, undo |-> Front(posix.undo)]
  BY <1>1 DEF End, PosixEnd
<1>5. /\ Depth' = d - 1
      /\ \A i \in 1 .. d - 1 : overlay'[i] = overlay[i] /\ posix'.undo[i] = posix.undo[i]
      /\ \A i \in 0 .. d - 1 : Params(i)' = Params(i)
      /\ overlay' \in Seq(Layers) /\ posix'.table = table
      /\ posix' \in [table: [Fds -> Found], undo: Seq([Fds -> Entries])]
      /\ Len(posix'.undo) = Depth'
      /\ Cardinality(Forks(overlay')) =
           Cardinality(Forks(overlay)) - (IF overlay[d].fork THEN 1 ELSE 0)
      /\ Cardinality(Forks(overlay)) \in Nat /\ Last(overlay) = overlay[d]
      /\ Grows' /\ Undoes'
  BY <1>0, <1>2, <1>3, <1>4, PopIs
<1>6. PICK m \in Nat : /\ m = IF overlay[d].fork THEN n - 1 ELSE n
                       /\ m <= n
  BY <1>2
<1>7. /\ files' \in Seq([Fds -> Entries]) /\ Len(files') = m
      /\ \A k \in 1 .. m : files'[k] = files[k]
  <2>1. CASE overlay[d].fork
    <3>1. files' = Front(files) /\ m = n - 1
      BY <1>4, <1>5, <1>6, <2>1 DEF Dropped
    <3>. QED
      BY <1>0, <1>2, <3>1, FrontOf
  <2>2. CASE ~overlay[d].fork
    <3>1. files' = files /\ m = n
      BY <1>4, <1>5, <1>6, <2>2 DEF Dropped
    <3>. QED
      BY <1>0, <1>2, <3>1
  <2>. QED
    BY <2>1, <2>2
<1>8. FilesTypes'
  <2>1. n = 1 + Cardinality(Forks(overlay))
    BY <1>0, <1>2 DEF FilesTypes, Forks
  <2>2. m = 1 + Cardinality(Forks(overlay'))
    <3>1. PICK c \in Nat : c = Cardinality(Forks(overlay))
      BY <1>5
    <3>. QED
      BY <1>5, <1>6, <2>1, <3>1
  <2>3. masked' \in BOOLEAN
    BY <1>2, <1>4 DEF FilesTypes
  <2>. QED
    BY <1>5, <1>7, <2>2, <2>3 DEF FilesTypes, Forks, Layers
<1>9. ASSUME ~masked'
      PROVE  SeenAtEveryDepth'
  <2>1. PICK at, t : Shells(at) /\ Tables(t) /\ Seen(at, t)
    BY <1>4, <1>9 DEF FilesInv, SeenAtEveryDepth
  <2>2. /\ at \in [0 .. d -> 1 .. n] /\ at[d] = n
        /\ \A i \in 1 .. d : at[i] = IF overlay[i].fork THEN at[i - 1] + 1 ELSE at[i - 1]
        /\ \A i, j \in 0 .. d : i <= j => at[i] <= at[j]
        /\ t \in [0 .. d -> [Fds -> Found]] /\ t[d] = posix.table
        /\ \A i \in 1 .. d : t[i - 1] = Restored(t[i], posix.undo[i])
        /\ \A i \in 0 .. d : \A fd \in Fds :
             Behind(fd_entry(Params(i), files[at[i]], fd)) = t[i][fd]
    BY <1>0, <2>1 DEF Shells, Tables, Seen
  <2>3. PICK at1, t1 : /\ at1 = [i \in 0 .. d - 1 |-> at[i]]
                       /\ t1 = [i \in 0 .. d - 1 |-> t[i]]
    OBVIOUS
  <2>4. /\ d - 1 \in 0 .. d /\ d \in 1 .. d /\ d - 1 \in 0 .. d - 1
        /\ \A i \in 0 .. d - 1 : i \in 0 .. d
        /\ \A i \in 1 .. d - 1 : i \in 1 .. d /\ i - 1 \in 0 .. d - 1 /\ i \in 0 .. d - 1
    BY <1>2
  <2>5. at[d - 1] = m
    <3>1. at[d - 1] \in 1 .. n /\ at[d] = n
      BY <2>2, <2>4
    <3>2. at[d] = IF overlay[d].fork THEN at[d - 1] + 1 ELSE at[d - 1]
      BY <2>2, <2>4
    <3>3. PICK k \in 1 .. n : k = at[d - 1]
      BY <3>1
    <3>4. n = IF overlay[d].fork THEN k + 1 ELSE k
      BY <3>1, <3>2, <3>3
    <3>. QED
      BY <1>6, <3>3, <3>4
  <2>6. at1 \in [0 .. d - 1 -> 1 .. m]
    <3>1. ASSUME NEW i \in 0 .. d - 1
          PROVE  at[i] \in 1 .. m
      <4>1. i <= d - 1
        BY <1>2
      <4>2. i \in 0 .. d
        BY <2>4
      <4>3. PICK k \in 1 .. n : k = at[i]
        BY <2>2, <4>2
      <4>4. at[i] <= at[d - 1]
        BY <2>2, <2>4, <4>1, <4>2
      <4>5. k <= m
        BY <2>5, <4>3, <4>4
      <4>6. k \in 1 .. m
        BY <1>6, <4>5
      <4>. QED
        BY <4>3, <4>6
    <3>. QED
      BY <2>3, <3>1
  <2>7. Shells(at1)'
    BY <1>5, <1>7, <2>2, <2>3, <2>4, <2>5, <2>6 DEF Shells
  <2>8. Tables(t1)'
    <3>1. t1 \in [0 .. d - 1 -> [Fds -> Found]]
      BY <2>2, <2>3, <2>4
    <3>2. t1[d - 1] = table
      BY <1>1, <1>2, <2>2, <2>3, <2>4
    <3>3. \A i \in 1 .. d - 1 : t1[i - 1] = Restored(t1[i], posix.undo[i])
      BY <2>2, <2>3, <2>4
    <3>. QED
      BY <1>5, <3>1, <3>2, <3>3 DEF Tables
  <2>9. Seen(at1, t1)'
    <3>4. Depth' = d - 1 /\ \A i \in 0 .. d - 1 : Params(i)' = Params(i)
      BY <1>5
    <3>. SUFFICES ASSUME NEW i \in 0 .. d - 1, NEW fd \in Fds
                  PROVE  Behind(fd_entry(Params(i), files'[at1[i]], fd)) = t1[i][fd]
      BY <3>4 DEF Seen
    <3>1. at1[i] = at[i] /\ t1[i] = t[i] /\ at[i] \in 1 .. m
      BY <2>3, <2>6
    <3>2. files'[at1[i]] = files[at[i]]
      BY <1>7, <3>1
    <3>. QED
      BY <2>2, <2>4, <3>1, <3>2
  <2>. QED
    BY <2>7, <2>8, <2>9 DEF SeenAtEveryDepth
<1>. QED
  BY <1>5, <1>8, <1>9 DEF FilesInv

(* `exec` in a command that is not a subshell, under none that has entries. *)
LEMMA ExecInv ==
  ASSUME FilesInv, Exec
  PROVE  FilesInv'
<1>0. PICK d \in Nat, n \in Nat : d = Depth /\ n = Len(files)
  BY StateIs DEF FilesInv
<1>1. PICK shell : shell = iter_fds
  OBVIOUS
<1>2. /\ FilesTypes /\ d > 0 /\ n >= 1 /\ files \in Seq([Fds -> Entries])
      /\ posix.table \in [Fds -> Found] /\ Shell = files[n]
      /\ \A i \in 0 .. d : Params(i) \in [Fds -> Entries]
  <2>1. FilesTypes /\ Depth > 0
    BY DEF FilesInv, Exec
  <2>2. files \in Seq([Fds -> Entries])
    BY <2>1 DEF FilesTypes
  <2>. QED
    BY <1>0, <2>1, <2>2, StateIs
<1>3. /\ shell \in [Fds -> Entries]
      /\ \A fd \in Fds : shell[fd] = IF View(fd) \in Opened THEN View(fd) ELSE NotSpecified
  BY <1>1, EntriesAre DEF iter_fds
<1>4. /\ overlay' = Front(overlay) /\ WithFiles(shell)
      /\ posix' = [table |-> posix.table, undo |-> Front(posix.undo)]
      /\ masked' = (masked \/ Params(d - 1) # Nothing)
      /\ ~Last(overlay).fork
  BY <1>0, <1>1, <1>2 DEF Exec, replace_open_files, WithFiles, PosixKeep, FilesTypes
<1>5. /\ Depth' = d - 1
      /\ \A i \in 1 .. d - 1 : overlay'[i] = overlay[i] /\ posix'.undo[i] = posix.undo[i]
      /\ \A i \in 0 .. d - 1 : Params(i)' = Params(i)
      /\ overlay' \in Seq(Layers)
      /\ posix' \in [table: [Fds -> Found], undo: Seq([Fds -> Entries])]
      /\ Len(posix'.undo) = Depth'
      /\ Cardinality(Forks(overlay')) =
           Cardinality(Forks(overlay)) - (IF Last(overlay).fork THEN 1 ELSE 0)
      /\ Cardinality(Forks(overlay)) \in Nat /\ Last(overlay) = overlay[d]
      /\ Grows' /\ Undoes'
  BY <1>0, <1>2, <1>4, PopIs
<1>6. /\ files' \in Seq([Fds -> Entries]) /\ Len(files') = n
      /\ files'[n] = shell /\ \A k \in 1 .. n : k # n => files'[k] = files[k]
  BY <1>0, <1>2, <1>3, <1>4 DEF WithFiles
<1>7. FilesTypes'
  <2>1. Cardinality(Forks(overlay')) = Cardinality(Forks(overlay))
    <3>1. PICK c \in Nat : c = Cardinality(Forks(overlay))
      BY <1>5
    <3>2. c - 0 = c
      OBVIOUS
    <3>. QED
      BY <1>4, <1>5, <3>1, <3>2
  <2>2. n = 1 + Cardinality(Forks(overlay)) /\ masked' \in BOOLEAN
    BY <1>0, <1>2, <1>4 DEF FilesTypes, Forks
  <2>. QED
    BY <1>5, <1>6, <2>1, <2>2 DEF FilesTypes, Forks, Layers
<1>8. ASSUME ~masked'
      PROVE  SeenAtEveryDepth'
  <2>1. PICK at, t : Shells(at) /\ Tables(t) /\ Seen(at, t)
    BY <1>4, <1>8 DEF FilesInv, SeenAtEveryDepth
  <2>2. /\ at \in [0 .. d -> 1 .. n] /\ at[d] = n
        /\ \A i \in 1 .. d : at[i] = IF overlay[i].fork THEN at[i - 1] + 1 ELSE at[i - 1]
        /\ \A i, j \in 0 .. d : i <= j => at[i] <= at[j]
        /\ t \in [0 .. d -> [Fds -> Found]] /\ t[d] = posix.table
        /\ \A i \in 1 .. d : t[i - 1] = Restored(t[i], posix.undo[i])
        /\ \A i \in 0 .. d : \A fd \in Fds :
             Behind(fd_entry(Params(i), files[at[i]], fd)) = t[i][fd]
    BY <1>0, <2>1 DEF Shells, Tables, Seen
  <2>3. PICK at1, t1 :
          /\ at1 = [i \in 0 .. d - 1 |-> at[i]]
          /\ t1 = [i \in 0 .. d - 1 |-> IF at[i] = n THEN posix.table ELSE t[i]]
    OBVIOUS
  <2>4. /\ d - 1 \in 0 .. d /\ d \in 1 .. d /\ d - 1 \in 0 .. d - 1
        /\ \A i \in 0 .. d - 1 : i \in 0 .. d
        /\ \A i \in 1 .. d - 1 : i \in 1 .. d /\ i - 1 \in 0 .. d - 1 /\ i \in 0 .. d - 1
    BY <1>2
  <2>5. at[d - 1] = n
    <3>1. at[d] = IF overlay[d].fork THEN at[d - 1] + 1 ELSE at[d - 1]
      BY <2>2, <2>4
    <3>. QED
      BY <1>4, <1>5, <2>2, <3>1
  (* Nothing lies over the files of the shell now. *)
  <2>6. ASSUME NEW i \in 0 .. d - 1, NEW fd \in Fds
        PROVE  Params(i)[fd] = NotSpecified
    <3>1. Params(d - 1)[fd] = NotSpecified
      BY <1>4, <1>8, NothingIs
    <3>2. i \in 0 .. Depth /\ d - 1 \in 0 .. Depth /\ i <= d - 1
      BY <1>0, <2>4
    <3>. QED
      BY <3>1, <3>2 DEF FilesInv, Grows
  <2>7. \A fd \in Fds : Behind(shell[fd]) = posix.table[fd]
    <3>1. ~masked
      BY <1>4, <1>8
    <3>2. \A fd \in Fds : Behind(View(fd)) = posix.table[fd]
      BY <3>1, SeenNow
    <3>3. \A fd \in Fds : Behind(shell[fd]) = Behind(View(fd))
      BY <1>3, EntriesAre DEF Behind
    <3>. QED
      BY <3>2, <3>3
  <2>8. Shells(at1)'
    <3>1. at1 \in [0 .. d - 1 -> 1 .. n]
      BY <2>2, <2>3, <2>4
    <3>2. \A i \in 1 .. d - 1 : at1[i] = IF overlay[i].fork THEN at1[i - 1] + 1 ELSE at1[i - 1]
      BY <2>2, <2>3, <2>4
    <3>3. \A i, j \in 0 .. d - 1 : i <= j => at1[i] <= at1[j]
      BY <2>2, <2>3, <2>4
    <3>4. at1[d - 1] = n
      BY <2>3, <2>4, <2>5
    <3>. QED
      BY <1>5, <1>6, <3>1, <3>2, <3>3, <3>4 DEF Shells
  <2>9. Tables(t1)'
    <3>1. t1 \in [0 .. d - 1 -> [Fds -> Found]]
      BY <1>2, <2>2, <2>3, <2>4
    <3>2. t1[d - 1] = posix.table
      BY <2>3, <2>4, <2>5
    <3>3. ASSUME NEW i \in 1 .. d - 1
          PROVE  t1[i - 1] = Restored(t1[i], posix.undo[i])
      <4>1. /\ i \in 1 .. d /\ i - 1 \in 0 .. d - 1 /\ i \in 0 .. d - 1
            /\ i - 1 \in 0 .. d /\ i \in 0 .. d
        BY <2>4
      <4>2. /\ at[i] = IF overlay[i].fork THEN at[i - 1] + 1 ELSE at[i - 1]
            /\ at[i] \in 1 .. n /\ at[i - 1] \in 1 .. n
        BY <2>2, <4>1
      <4>3. /\ t1[i - 1] = IF at[i - 1] = n THEN posix.table ELSE t[i - 1]
            /\ t1[i] = IF at[i] = n THEN posix.table ELSE t[i]
        BY <2>3, <4>1
      <4>4. t[i - 1] = Restored(t[i], posix.undo[i])
        BY <2>2, <4>1
      <4>5. \A fd \in Fds : IF overlay[i].fork THEN posix.undo[i][fd] # NotSpecified
                            ELSE posix.undo[i][fd] = NotSpecified
        BY <1>0, <2>6, <4>1 DEF FilesInv, Undoes
      <4>6. CASE overlay[i].fork
        <5>1. t1[i - 1] = t[i - 1]
          BY <4>2, <4>3, <4>6
        <5>2. Restored(t1[i], posix.undo[i]) = Restored(t[i], posix.undo[i])
          BY <4>5, <4>6 DEF Restored
        <5>. QED
          BY <4>4, <5>1, <5>2
      <4>7. CASE ~overlay[i].fork /\ at[i] = n
        <5>1. t1[i - 1] = posix.table /\ t1[i] = posix.table
          BY <4>2, <4>3, <4>7
        <5>2. Restored(posix.table, posix.undo[i]) = posix.table
          BY <1>2, <4>5, <4>7 DEF Restored
        <5>. QED
          BY <5>1, <5>2
      <4>8. CASE ~overlay[i].fork /\ at[i] # n
        BY <4>2, <4>3, <4>4, <4>8
      <4>. QED
        BY <4>6, <4>7, <4>8
    <3>. QED
      BY <1>4, <1>5, <3>1, <3>2, <3>3 DEF Tables
  <2>10. Seen(at1, t1)'
    <3>4. Depth' = d - 1 /\ \A i \in 0 .. d - 1 : Params(i)' = Params(i)
      BY <1>5
    <3>. SUFFICES ASSUME NEW i \in 0 .. d - 1, NEW fd \in Fds
                  PROVE  Behind(fd_entry(Params(i), files'[at1[i]], fd)) = t1[i][fd]
      BY <3>4 DEF Seen
    <3>1. at1[i] = at[i] /\ at[i] \in 1 .. n /\ t1[i] = IF at[i] = n THEN posix.table ELSE t[i]
      BY <2>2, <2>3, <2>4
    <3>2. CASE at[i] = n
      <4>1. fd_entry(Params(i), files'[at1[i]], fd) = shell[fd]
        BY <1>6, <2>6, <3>1, <3>2 DEF fd_entry
      <4>. QED
        BY <2>7, <3>1, <3>2, <4>1
    <3>3. CASE at[i] # n
      <4>1. files'[at1[i]] = files[at[i]] /\ t1[i] = t[i] /\ i \in 0 .. d
        BY <1>6, <2>4, <3>1, <3>3
      <4>. QED
        BY <2>2, <4>1
    <3>. QED
      BY <3>2, <3>3
  <2>. QED
    BY <2>8, <2>9, <2>10 DEF SeenAtEveryDepth
<1>. QED
  BY <1>5, <1>7, <1>8 DEF FilesInv

-----------------------------------------------------------------------------
(* A command begins and sees what the one around it saw. *)
LEMMA BeginInv ==
  ASSUME FilesInv, NEW fork \in BOOLEAN, Begin(fork)
  PROVE  FilesInv'
<1>0. PICK d \in Nat, n \in Nat : d = Depth /\ n = Len(files)
  BY StateIs DEF FilesInv
<1>1. /\ FilesTypes /\ n >= 1 /\ files \in Seq([Fds -> Entries]) /\ d = Len(overlay)
      /\ overlay \in Seq(Layers) /\ Last(files) = files[n] /\ files[n] \in [Fds -> Entries]
      /\ \A i \in 0 .. d : Params(i) \in [Fds -> Entries]
      /\ posix.table \in [Fds -> Found]
      /\ posix.undo \in Seq([Fds -> Entries]) /\ Len(posix.undo) = d
  <2>1. FilesTypes
    BY DEF FilesInv
  <2>2. files \in Seq([Fds -> Entries]) /\ overlay \in Seq(Layers)
    BY <2>1 DEF FilesTypes, Layers
  <2>3. Shell = Last(files)
    BY DEF Shell
  <2>. QED
    BY <1>0, <2>1, <2>2, <2>3, StateIs
<1>2. PICK top, undo : /\ top = [fds |-> Params(d), fork |-> fork]
                       /\ undo = IF fork THEN posix.table ELSE Nothing
  OBVIOUS
<1>3. /\ overlay' = Append(overlay, top)
      /\ files' = IF fork THEN Append(files, files[n]) ELSE files
      /\ posix' = [table |-> posix.table, undo |-> Append(posix.undo, undo)]
      /\ masked' = masked
  BY <1>0, <1>1, <1>2 DEF Begin, PosixBegin, FilesTypes
<1>4. /\ top \in Layers /\ top.fds = Params(d) /\ top.fork = fork
      /\ undo \in [Fds -> Entries]
      /\ Restored(posix.table, undo) = posix.table
      /\ \A fd \in Fds : IF fork THEN undo[fd] # NotSpecified ELSE undo[fd] = NotSpecified
  <2>1. d \in 0 .. d
    OBVIOUS
  <2>2. top \in Layers /\ top.fds = Params(d) /\ top.fork = fork
    BY <1>1, <1>2, <2>1 DEF Layers
  <2>3. /\ undo \in [Fds -> Entries]
        /\ \A fd \in Fds : IF fork THEN undo[fd] = posix.table[fd] ELSE undo[fd] = NotSpecified
    BY <1>1, <1>2, NothingIs, EntriesAre
  <2>4. \A fd \in Fds : posix.table[fd] # NotSpecified
    BY <1>1, EntriesAre
  <2>5. Restored(posix.table, undo) = posix.table
    BY <1>1, <2>3 DEF Restored
  <2>. QED
    BY <2>2, <2>3, <2>4, <2>5
<1>5. /\ overlay' \in Seq(Layers) /\ Len(overlay') = d + 1 /\ overlay'[d + 1] = top
      /\ \A i \in 1 .. d : overlay'[i] = overlay[i]
  BY <1>1, <1>3, <1>4, AppendOf
<1>6. /\ posix'.table = posix.table
      /\ posix'.undo \in Seq([Fds -> Entries]) /\ Len(posix'.undo) = d + 1
      /\ posix'.undo[d + 1] = undo
      /\ \A i \in 1 .. d : posix'.undo[i] = posix.undo[i]
  BY <1>1, <1>3, <1>4, AppendOf
<1>7. PICK m \in Nat : m = IF fork THEN n + 1 ELSE n
  OBVIOUS
<1>8. /\ files' \in Seq([Fds -> Entries]) /\ Len(files') = m /\ files'[m] = files[n]
      /\ \A k \in 1 .. n : files'[k] = files[k]
  <2>1. CASE fork
    BY <1>0, <1>1, <1>3, <1>7, <2>1, AppendOf
  <2>2. CASE ~fork
    BY <1>0, <1>1, <1>3, <1>7, <2>2
  <2>. QED
    BY <2>1, <2>2
<1>9. /\ Depth' = d + 1
      /\ \A i \in 0 .. d : Params(i)' = Params(i)
      /\ Params(d + 1)' = Params(d)
  <2>1. Depth' = d + 1
    BY <1>5 DEF Depth
  <2>2. Params(0)' = Params(0)
    BY DEF Params
  <2>3. \A i \in 1 .. d : Params(i)' = Params(i)
    BY <1>5 DEF Params
  <2>4. d + 1 # 0 /\ \A i \in 0 .. d : i = 0 \/ i \in 1 .. d
    OBVIOUS
  <2>5. Params(d + 1)' = overlay'[d + 1].fds
    BY <2>4 DEF Params
  <2>. QED
    BY <1>4, <1>5, <2>1, <2>2, <2>3, <2>4, <2>5
<1>10. /\ \A i \in 0 .. d + 1 : i = d + 1 \/ i \in 0 .. d
       /\ \A i \in 1 .. d + 1 : i = d + 1 \/ i \in 1 .. d
       /\ \A i \in 1 .. d : i - 1 \in 0 .. d /\ i \in 0 .. d
       /\ d \in 0 .. d /\ d + 1 \in 0 .. d + 1 /\ d + 1 - 1 = d /\ d + 1 \notin 0 .. d
  OBVIOUS
<1>11. FilesTypes'
  <2>1. IsFiniteSet(Forks(overlay)) /\ Cardinality(Forks(overlay)) \in Nat
    <3>1. Forks(overlay) \subseteq 1 .. d
      BY <1>1 DEF Forks
    <3>2. IsFiniteSet(1 .. d)
      BY FS_Interval
    <3>. QED
      BY <3>1, <3>2, FS_Subset, FS_CardinalityType
  <2>2. DOMAIN overlay = 1 .. d /\ DOMAIN overlay' = (1 .. d) \union {d + 1}
    BY <1>1, <1>5
  <2>3. d + 1 \notin Forks(overlay)
    BY <2>2 DEF Forks
  <2>4. Forks(overlay') = IF fork THEN Forks(overlay) \union {d + 1} ELSE Forks(overlay)
    BY <1>4, <1>5, <2>2 DEF Forks
  <2>5. Cardinality(Forks(overlay) \union {d + 1}) = Cardinality(Forks(overlay)) + 1
    BY <2>1, <2>3, FS_AddElement
  <2>6. n = 1 + Cardinality(Forks(overlay))
    BY <1>0, <1>1 DEF FilesTypes, Forks
  <2>7. m = 1 + Cardinality(Forks(overlay'))
    <3>1. PICK c \in Nat : c = Cardinality(Forks(overlay))
      BY <2>1
    <3>. QED
      BY <1>7, <2>4, <2>5, <2>6, <3>1
  <2>8. posix' \in [table: [Fds -> Found], undo: Seq([Fds -> Entries])]
    BY <1>1, <1>3, <1>6
  <2>9. masked' \in BOOLEAN
    BY <1>1, <1>3 DEF FilesTypes
  <2>. QED
    BY <1>5, <1>6, <1>8, <1>9, <2>7, <2>8, <2>9 DEF FilesTypes, Forks, Layers
<1>12. Grows'
  <2>. SUFFICES ASSUME NEW i \in 0 .. d + 1, NEW j \in 0 .. d + 1, i <= j, NEW fd \in Fds,
                       Params(i)'[fd] # NotSpecified
                PROVE  Params(j)'[fd] # NotSpecified
    BY <1>9 DEF Grows
  <2>1. \A k, l \in 0 .. d :
          k <= l /\ Params(k)[fd] # NotSpecified => Params(l)[fd] # NotSpecified
    BY <1>0 DEF FilesInv, Grows
  <2>2. CASE i = d + 1
    <3>1. j = d + 1
      BY <2>2
    <3>. QED
      BY <2>2, <3>1
  <2>3. CASE i # d + 1 /\ j = d + 1
    <3>1. i \in 0 .. d /\ i <= d
      BY <2>3
    <3>. QED
      BY <1>9, <1>10, <2>1, <2>3, <3>1
  <2>4. CASE i # d + 1 /\ j # d + 1
    BY <1>9, <1>10, <2>1, <2>4
  <2>. QED
    BY <2>2, <2>3, <2>4
<1>13. Undoes'
  <2>. SUFFICES ASSUME NEW i \in 1 .. d + 1, NEW fd \in Fds
                PROVE  IF overlay'[i].fork THEN posix'.undo[i][fd] # NotSpecified
                       ELSE posix'.undo[i][fd] # NotSpecified => Params(i)'[fd] # NotSpecified
    BY <1>9 DEF Undoes
  <2>1. CASE i = d + 1
    BY <1>4, <1>5, <1>6, <2>1
  <2>2. CASE i \in 1 .. d
    <3>1. IF overlay[i].fork THEN posix.undo[i][fd] # NotSpecified
          ELSE posix.undo[i][fd] # NotSpecified => Params(i)[fd] # NotSpecified
      BY <1>0, <2>2 DEF FilesInv, Undoes
    <3>. QED
      BY <1>5, <1>6, <1>9, <1>10, <2>2, <3>1
  <2>. QED
    BY <1>10, <2>1, <2>2
<1>14. ASSUME ~masked'
       PROVE  SeenAtEveryDepth'
  <2>1. PICK at, t : Shells(at) /\ Tables(t) /\ Seen(at, t)
    BY <1>3, <1>14 DEF FilesInv, SeenAtEveryDepth
  <2>2. /\ at \in [0 .. d -> 1 .. n] /\ at[d] = n
        /\ \A i \in 1 .. d : at[i] = IF overlay[i].fork THEN at[i - 1] + 1 ELSE at[i - 1]
        /\ \A i, j \in 0 .. d : i <= j => at[i] <= at[j]
        /\ t \in [0 .. d -> [Fds -> Found]] /\ t[d] = posix.table
        /\ \A i \in 1 .. d : t[i - 1] = Restored(t[i], posix.undo[i])
        /\ \A i \in 0 .. d : \A fd \in Fds :
             Behind(fd_entry(Params(i), files[at[i]], fd)) = t[i][fd]
    BY <1>0, <2>1 DEF Shells, Tables, Seen
  <2>3. PICK at1, t1 :
          /\ at1 = [i \in 0 .. d + 1 |-> IF i = d + 1 THEN m ELSE at[i]]
          /\ t1 = [i \in 0 .. d + 1 |-> IF i = d + 1 THEN posix.table ELSE t[i]]
    OBVIOUS
  <2>4. /\ at1[d + 1] = m /\ \A i \in 0 .. d : at1[i] = at[i] /\ at[i] \in 1 .. n
        /\ t1[d + 1] = posix.table /\ \A i \in 0 .. d : t1[i] = t[i]
    <3>1. \A i \in 0 .. d : i \in 0 .. d + 1 /\ i # d + 1
      BY <1>10
    <3>2. \A i \in 0 .. d : at1[i] = at[i] /\ t1[i] = t[i]
      BY <2>3, <3>1
    <3>3. at1[d + 1] = m /\ t1[d + 1] = posix.table
      BY <1>10, <2>3
    <3>. QED
      BY <2>2, <3>2, <3>3
  <2>5. m \in 1 .. m /\ \A k \in 1 .. n : k \in 1 .. m /\ k <= m
    BY <1>1, <1>7
  <2>6. Shells(at1)'
    <3>1. at1 \in [0 .. d + 1 -> 1 .. m]
      BY <2>2, <2>3, <2>5, <1>10
    <3>2. ASSUME NEW i \in 1 .. d + 1
          PROVE  at1[i] = IF overlay'[i].fork THEN at1[i - 1] + 1 ELSE at1[i - 1]
      <4>1. CASE i = d + 1
        <5>1. at1[i - 1] = n /\ at1[i] = m
          BY <1>10, <2>2, <2>4, <4>1
        <5>. QED
          BY <1>4, <1>5, <1>7, <4>1, <5>1
      <4>2. CASE i \in 1 .. d
        BY <1>5, <1>10, <2>2, <2>4, <4>2
      <4>. QED
        BY <1>10, <4>1, <4>2
    <3>3. ASSUME NEW i \in 0 .. d + 1, NEW j \in 0 .. d + 1, i <= j
          PROVE  at1[i] <= at1[j]
      <4>1. CASE j = d + 1
        <5>1. at1[i] \in 1 .. m
          BY <3>1
        <5>. QED
          BY <2>4, <4>1, <5>1
      <4>2. CASE j # d + 1
        <5>1. i \in 0 .. d /\ j \in 0 .. d
          BY <3>3, <4>2
        <5>. QED
          BY <2>2, <2>4, <3>3, <5>1
      <4>. QED
        BY <4>1, <4>2
    <3>. QED
      BY <1>8, <1>9, <2>4, <3>1, <3>2, <3>3 DEF Shells
  <2>7. Tables(t1)'
    <3>1. t1 \in [0 .. d + 1 -> [Fds -> Found]]
      BY <1>1, <1>10, <2>2, <2>3
    <3>2. ASSUME NEW i \in 1 .. d + 1
          PROVE  t1[i - 1] = Restored(t1[i], posix'.undo[i])
      <4>1. CASE i = d + 1
        <5>1. t1[i - 1] = posix.table /\ t1[i] = posix.table
          BY <1>10, <2>2, <2>4, <4>1
        <5>. QED
          BY <1>4, <1>6, <4>1, <5>1
      <4>2. CASE i \in 1 .. d
        BY <1>6, <1>10, <2>2, <2>4, <4>2
      <4>. QED
        BY <1>10, <4>1, <4>2
    <3>. QED
      BY <1>6, <1>9, <2>4, <3>1, <3>2 DEF Tables
  <2>8. Seen(at1, t1)'
    <3>. SUFFICES ASSUME NEW i \in 0 .. d + 1, NEW fd \in Fds
                  PROVE  Behind(fd_entry(Params(i)', files'[at1[i]], fd)) = t1[i][fd]
      BY <1>9 DEF Seen
    <3>1. CASE i = d + 1
      <4>1. Params(i)' = Params(d) /\ files'[at1[i]] = files[n] /\ t1[i] = t[d]
        BY <1>8, <1>9, <2>2, <2>4, <3>1
      <4>2. Behind(fd_entry(Params(d), files[at[d]], fd)) = t[d][fd]
        BY <1>10, <2>2
      <4>. QED
        BY <2>2, <4>1, <4>2
    <3>2. CASE i \in 0 .. d
      <4>1. Params(i)' = Params(i) /\ files'[at1[i]] = files[at[i]] /\ t1[i] = t[i]
        BY <1>8, <1>9, <2>4, <3>2
      <4>. QED
        BY <2>2, <3>2, <4>1
    <3>. QED
      BY <1>10, <3>1, <3>2
  <2>. QED
    BY <2>6, <2>7, <2>8 DEF SeenAtEveryDepth
<1>. QED
  BY <1>11, <1>12, <1>13, <1>14 DEF FilesInv

-----------------------------------------------------------------------------
LEMMA FilesStutterInv ==
  ASSUME FilesInv, UNCHANGED files_vars
  PROVE  FilesInv'
<1>. USE DEF files_vars
<1>1. FilesTypes'
  BY DEF FilesInv, FilesTypes, Depth
<1>2. Depth' = Depth /\ \A i : Params(i)' = Params(i)
  BY DEF Depth, Params
<1>3. Grows' /\ Undoes'
  BY <1>2 DEF FilesInv, Grows, Undoes
<1>4. ~masked => SeenAtEveryDepth'
  <2>. SUFFICES ASSUME ~masked
                PROVE  SeenAtEveryDepth'
    OBVIOUS
  <2>1. PICK at, t : Shells(at) /\ Tables(t) /\ Seen(at, t)
    BY DEF FilesInv, SeenAtEveryDepth
  <2>2. Shells(at)' /\ Tables(t)'
    BY <1>2, <2>1 DEF Shells, Tables
  <2>3. Seen(at, t)'
    BY <1>2, <2>1 DEF Seen
  <2>. QED
    BY <2>2, <2>3 DEF SeenAtEveryDepth
<1>. QED
  BY <1>1, <1>3, <1>4 DEF FilesInv

LEMMA FilesNextInv == FilesInv /\ [FilesNext]_files_vars => FilesInv'
<1>. SUFFICES ASSUME FilesInv, [FilesNext]_files_vars
              PROVE  FilesInv'
  OBVIOUS
<1>0. 0 \in Fds
  BY OpenFilesAssumption DEF Fds
<1>1. CASE \E fork \in BOOLEAN : Begin(fork)
  BY <1>1, BeginInv
<1>2. CASE End \/ Exec \/ Substitute \/ Coprocess
  BY <1>0, <1>2, EndInv, ExecInv, RedirectsInv, CoprocessInv
<1>3. CASE \E n \in 1 .. 2 : CoprocessFails(n)
  BY <1>3, CoprocessFailsInv
<1>4. CASE \E fd \in Fds : Redirect(fd) \/ Close(fd) \/ RedirectSubstitute(fd)
  BY <1>4, RedirectsInv
<1>5. CASE \E fd, source \in Fds : Duplicate(fd, source) \/ Move(fd, source)
  BY <1>5, RedirectsInv
<1>6. CASE UNCHANGED files_vars
  BY <1>6, FilesStutterInv
<1>. QED
  BY <1>1, <1>2, <1>3, <1>4, <1>5, <1>6 DEF FilesNext

(***************************************************************************)
(* The inductive invariant: not only the innermost command but every one   *)
(* around it sees, in the layers, what the table of its process will hold  *)
(* when those inside it have ended (FdOverlay over Shell.open_files).      *)
(***************************************************************************)
THEOREM FilesInvariant == FilesSpec => []FilesInv
<1>1. FilesInit => FilesInv
  BY FilesInitInv
<1>2. FilesInv /\ [FilesNext]_files_vars => FilesInv'
  BY FilesNextInv
<1>. QED
  BY <1>1, <1>2, PTL DEF FilesSpec

(* The types of the variables, and one shell for each subshell under way.  *)
THEOREM FilesTypesHold == FilesSpec => []FilesTypes
<1>1. FilesInv => FilesTypes
  BY DEF FilesInv
<1>. QED
  BY <1>1, FilesInvariant, PTL

(***************************************************************************)
(* Through every nesting of redirections, closings, moves, subshells,      *)
(* coprocesses and exec, a command sees the files it would see in the one  *)
(* table of a process, until exec or a coprocess changes the shell under   *)
(* the entries of a command (ExecutionParameters::fd_overlay).             *)
(***************************************************************************)
THEOREM UnmaskedAlwaysAsInOneTable == FilesSpec => []UnmaskedSeenAsInOneTable
<1>1. FilesInv => UnmaskedSeenAsInOneTable
  <2>. SUFFICES ASSUME FilesInv, ~masked, NEW fd \in Fds
                PROVE  try_fd(fd) = PosixSees(fd)
    BY DEF UnmaskedSeenAsInOneTable, SeenAsInOneTable
  <2>1. Behind(View(fd)) = posix.table[fd] /\ posix.table[fd] \in Found
    BY SeenNow, StateIs DEF FilesInv
  <2>. QED
    BY <2>1 DEF try_fd, PosixSees, Behind, Found
<1>. QED
  BY <1>1, FilesInvariant, PTL

-----------------------------------------------------------------------------
(* Where the shell is and where it finds its commands.                      *)
Everywhere == Directories \union Targets \union {ProcessDir}

Types ==
  /\ existing \subseteq Directories
  /\ working_dir \in Everywhere
  /\ directory_stack \in Seq(Everywhere)
  /\ PATH \in SearchPaths
  /\ {halfway, pinned, renewed} \subseteq BOOLEAN

(* PWD and OLDPWD follow the moves.                                         *)
WhereItIs ==
  /\ PWD = working_dir
  /\ ~halfway => OLDPWD = previous

(* What is kept without having been pinned was found, under the PATH it is  *)
(* kept under, and would be found there again while no file has changed.    *)
KeptAsFound ==
  program_location_cache # Nowhere /\ ~pinned =>
    /\ key # Unknown
    /\ ~renewed => program_location_cache = find_first_executable_in_path(key)

LocationsInv == Types /\ WhereItIs /\ KeptAsFound

-----------------------------------------------------------------------------
(* The end of a sequence comes off and can be put back.                     *)
LEMMA FrontLast ==
  ASSUME NEW T, NEW s \in Seq(T), s # <<>>
  PROVE  /\ Front(s) \in Seq(T) /\ Last(s) \in T
         /\ Append(Front(s), Last(s)) = s
<1>. DEFINE n == Len(s)
<1>1. n \in Nat /\ n >= 1
  OBVIOUS
<1>2. \A i \in 1 .. n - 1 : s[i] \in T
  BY <1>1
<1>3. /\ Front(s) \in Seq(T)
      /\ Len(Front(s)) = n - 1
      /\ \A i \in 1 .. n - 1 : Front(s)[i] = s[i]
  <2>. DEFINE m == n - 1
              front == SubSeq(s, 1, m)
  <2>1. m \in 0 .. Len(s) /\ \A i \in 1 .. m : s[i] \in T
    BY <1>1, <1>2
  <2>. HIDE DEF n
  <2>. HIDE DEF m
  <2>2. front = [i \in 1 .. m |-> s[i]]
    BY <2>1
  <2>3. front \in Seq(T) /\ Len(front) = m /\ \A i \in 1 .. m : front[i] = s[i]
    BY <2>1, <2>2
  <2>4. Front(s) = front
    BY DEF Front, m, n
  <2>. QED
    BY <2>3, <2>4 DEF m
<1>4. Last(s) \in T /\ Last(s) = s[n]
  BY <1>1 DEF Last
<1>. DEFINE back == Append(Front(s), Last(s))
<1>5. /\ back \in Seq(T) /\ Len(back) = n
      /\ \A i \in 1 .. n - 1 : back[i] = Front(s)[i]
      /\ back[n] = Last(s)
  BY <1>1, <1>3, <1>4, AppendProperties
<1>. HIDE DEF back
<1>6. \A i \in 1 .. n : back[i] = s[i]
  <2>1. \A i \in 1 .. n : i \in 1 .. n - 1 \/ i = n
    BY <1>1
  <2>. QED
    BY <2>1, <1>3, <1>4, <1>5
<1>7. back = s
  BY <1>5, <1>6, SeqEqual
<1>. QED
  BY <1>3, <1>4, <1>7 DEF back

(***************************************************************************)
(* What ~+n and ~-n stand for is what dirs prints in their place: the      *)
(* directory the shell is in, then the stack from its top.                 *)
(***************************************************************************)
LEMMA DirsInOrder ==
  ASSUME NEW T, directory_stack \in Seq(T), working_dir \in T, NEW n \in Nat
  PROVE  LET there == n + 1 \in DOMAIN dirs
         IN /\ NthDirFromTop(n) = IF there THEN dirs[n + 1] ELSE Nowhere
            /\ NthDirFromBottom(n) = IF there THEN Reverse(dirs)[n + 1] ELSE Nowhere
<1>. DEFINE count == Len(directory_stack)
            tops == Reverse(directory_stack)
<1>1. count \in Nat
  OBVIOUS
<1>2. /\ tops \in Seq(T) /\ Len(tops) = count
      /\ \A i \in 1 .. count : tops[i] = directory_stack[count - i + 1]
  <2>1. \A i \in 1 .. count : directory_stack[(count - i) + 1] \in T
    BY <1>1
  <2>. QED
    BY <1>1, <2>1 DEF Reverse
<1>3. /\ Len(dirs) = count + 1 /\ DOMAIN dirs = 1 .. count + 1
      /\ dirs[1] = working_dir
      /\ \A i \in 1 .. count : dirs[i + 1] = tops[i]
  <2>. DEFINE here == <<working_dir>>
              all == here \o tops
  <2>1. here \in Seq(T) /\ Len(here) = 1 /\ here[1] = working_dir
    OBVIOUS
  <2>. HIDE DEF tops, here
  <2>2. /\ all \in Seq(T) /\ Len(all) = count + 1
        /\ \A i \in 1 .. count + 1 : all[i] = IF i <= 1 THEN here[i] ELSE tops[i - 1]
    BY <1>1, <1>2, <2>1, ConcatProperties
  <2>. HIDE DEF all, count
  <2>3. all[1] = working_dir
    BY <1>1, <2>1, <2>2
  <2>4. ASSUME NEW i \in 1 .. count
        PROVE  all[i + 1] = tops[i]
    <3>1. i + 1 \in 1 .. count + 1 /\ ~(i + 1 <= 1) /\ (i + 1) - 1 = i
      BY <1>1
    <3>. QED
      BY <2>2, <3>1
  <2>5. DOMAIN all = 1 .. count + 1
    BY <2>2
  <2>. QED
    BY <2>2, <2>3, <2>4, <2>5 DEF dirs, all, here, tops
<1>4. \A i \in 1 .. count + 1 : Reverse(dirs)[i] = dirs[(count + 1 - i) + 1]
  BY <1>3 DEF Reverse
<1>. HIDE DEF count, tops
<1>5. n + 1 \in DOMAIN dirs <=> n <= count
  BY <1>1, <1>3
<1>6. NthDirFromTop(n) = IF n <= count THEN dirs[n + 1] ELSE Nowhere
  <2>1. CASE n = 0
    BY <1>1, <1>3, <2>1 DEF NthDirFromTop
  <2>2. CASE n # 0 /\ n <= count
    <3>1. n \in 1 .. count
      BY <1>1, <2>2
    <3>. QED
      BY <1>2, <1>3, <2>2, <3>1 DEF NthDirFromTop, count
  <2>3. CASE n # 0 /\ ~(n <= count)
    BY <2>3 DEF NthDirFromTop, count
  <2>. QED
    BY <2>1, <2>2, <2>3
<1>7. NthDirFromBottom(n) = IF n <= count THEN Reverse(dirs)[n + 1] ELSE Nowhere
  <2>1. CASE n < count
    <3>. DEFINE i == count - n
    <3>1. i \in 1 .. count /\ n + 1 \in 1 .. count + 1 /\ (count + 1 - (n + 1)) + 1 = i + 1 /\ count - i + 1 = n + 1
      BY <1>1, <2>1
    <3>2. Reverse(dirs)[n + 1] = dirs[i + 1]
      BY <1>4, <3>1
    <3>3. dirs[i + 1] = directory_stack[n + 1]
      <4>. HIDE DEF i
      <4>1. dirs[i + 1] = tops[i] /\ tops[i] = directory_stack[count - i + 1]
        BY <1>2, <1>3, <3>1
      <4>. QED
        BY <3>1, <4>1
    <3>4. NthDirFromBottom(n) = directory_stack[n + 1] /\ n <= count
      BY <1>1, <2>1 DEF NthDirFromBottom, count
    <3>. QED
      BY <3>2, <3>3, <3>4
  <2>2. CASE n = count
    <3>1. n + 1 \in 1 .. count + 1 /\ (count + 1 - (n + 1)) + 1 = 1 /\ ~(n < count) /\ n <= count
      BY <1>1, <2>2
    <3>2. Reverse(dirs)[n + 1] = working_dir
      BY <1>3, <1>4, <3>1
    <3>3. NthDirFromBottom(n) = working_dir
      BY <2>2, <3>1 DEF NthDirFromBottom, count
    <3>. QED
      BY <3>1, <3>2, <3>3
  <2>3. CASE n > count
    <3>1. ~(n < count) /\ n # count /\ ~(n <= count)
      BY <1>1, <2>3
    <3>. QED
      BY <3>1 DEF NthDirFromBottom, count
  <2>. QED
    BY <1>1, <2>1, <2>2, <2>3
<1>. QED
  BY <1>5, <1>6, <1>7

-----------------------------------------------------------------------------
LEMMA Starts ==
  ASSUME LocationsInit
  PROVE  LocationsInv
<1>1. directory_stack \in Seq(Everywhere)
  BY DEF LocationsInit
<1>2. /\ existing \subseteq Directories /\ PATH \in SearchPaths
      /\ {halfway, pinned, renewed} \subseteq BOOLEAN
  BY DEF LocationsInit
<1>3. working_dir \in Everywhere
  BY DEF LocationsInit, Everywhere
<1>4. WhereItIs /\ KeptAsFound
  BY DEF LocationsInit, WhereItIs, KeptAsFound
<1>. QED
  BY <1>1, <1>2, <1>3, <1>4 DEF LocationsInv, Types

(* The directory stack as the moves leave it.                               *)
LEMMA StackMoves ==
  ASSUME Types, NEW dir \in Everywhere
  PROVE  /\ Append(directory_stack, dir) \in Seq(Everywhere)
         /\ directory_stack # <<>> =>
              /\ Last(directory_stack) \in Everywhere
              /\ Front(directory_stack) \in Seq(Everywhere)
              /\ restore_popped_directory(Front(directory_stack), Last(directory_stack)) = directory_stack
<1>1. directory_stack \in Seq(Everywhere)
  BY DEF Types
<1>2. Append(directory_stack, dir) \in Seq(Everywhere)
  BY <1>1, AppendProperties
<1>3. ASSUME directory_stack # <<>>
      PROVE  /\ Last(directory_stack) \in Everywhere
             /\ Front(directory_stack) \in Seq(Everywhere)
             /\ Append(Front(directory_stack), Last(directory_stack)) = directory_stack
  BY <1>1, <1>3, FrontLast
<1>. QED
  BY <1>2, <1>3 DEF restore_popped_directory

(* A move, or an attempt at one, but for the stack.                         *)
LEMMA MoveKeeps ==
  ASSUME LocationsInv, NEW target, set_working_dir(target),
         directory_stack' \in Seq(Everywhere)
  PROVE  LocationsInv'
<1>. DEFINE there == Cleaned(target)
<1>1. Types /\ WhereItIs /\ KeptAsFound
  BY DEF LocationsInv
<1>2. UNCHANGED <<PATH, existing, programs>>
  BY DEF set_working_dir
<1>3. Completes(target) => Moves(target)
  BY DEF Completes
<1>4. /\ Moves(target) => PWD' = there /\ working_dir' = there /\ previous' = working_dir /\ there \in existing
      /\ ~Moves(target) => UNCHANGED <<PWD, working_dir, previous>>
  <2>. HIDE DEF there
  <2>1. Moves(target) => there \in existing
    BY DEF Moves, there
  <2>. QED
    BY <2>1 DEF set_working_dir, there
<1>5. /\ OLDPWD' = IF Completes(target) THEN working_dir ELSE OLDPWD
      /\ halfway' = (halfway \/ (Moves(target) /\ ~Completes(target)))
  BY DEF set_working_dir
<1>6. IF Completes(target) THEN reset_path_caches ELSE UNCHANGED cache
  BY DEF set_working_dir
<1>. HIDE DEF there
<1>7. WhereItIs'
  <2>1. PWD' = working_dir'
    BY <1>1, <1>4 DEF WhereItIs
  <2>2. ASSUME ~halfway'
        PROVE  OLDPWD' = previous'
    <3>1. ~halfway /\ (Moves(target) => Completes(target))
      BY <1>5, <2>2
    <3>2. CASE Completes(target)
      BY <1>3, <1>4, <1>5, <3>2
    <3>3. CASE ~Completes(target)
      BY <1>1, <1>4, <1>5, <3>1, <3>3 DEF WhereItIs
    <3>. QED
      BY <3>2, <3>3
  <2>. QED
    BY <2>1, <2>2 DEF WhereItIs
<1>8. KeptAsFound' /\ {pinned', renewed'} \subseteq BOOLEAN
  <2>1. CASE Completes(target)
    BY <1>6, <2>1 DEF reset_path_caches, KeptAsFound
  <2>2. CASE ~Completes(target)
    <3>1. UNCHANGED <<program_location_cache, key, pinned, renewed>>
      BY <1>6, <2>2 DEF cache
    <3>2. \A path : find_first_executable_in_path(path)' = find_first_executable_in_path(path)
      BY <1>2 DEF find_first_executable_in_path, Holds
    <3>. QED
      BY <1>1, <3>1, <3>2 DEF KeptAsFound, Types
  <2>. QED
    BY <2>1, <2>2
<1>9. Types'
  <2>1. working_dir' \in Everywhere
    BY <1>1, <1>4 DEF Types, Everywhere
  <2>2. halfway' \in BOOLEAN
    BY <1>5
  <2>. QED
    BY <1>1, <1>2, <1>8, <2>1, <2>2 DEF Types
<1>. QED
  BY <1>7, <1>8, <1>9 DEF LocationsInv

LEMMA StackKeeps ==
  ASSUME LocationsInv, NEW stack \in Seq(Everywhere), Stacks(stack)
  PROVE  LocationsInv'
<1>1. /\ directory_stack' \in Seq(Everywhere)
      /\ UNCHANGED <<working_dir, PWD, OLDPWD, halfway, previous, PATH, existing, programs>>
      /\ UNCHANGED <<program_location_cache, key, pinned, renewed>>
  BY DEF Stacks, cache
<1>2. \A path : find_first_executable_in_path(path)' = find_first_executable_in_path(path)
  BY <1>1 DEF find_first_executable_in_path, Holds
<1>3. Types' /\ WhereItIs'
  BY <1>1 DEF LocationsInv, Types, WhereItIs
<1>4. KeptAsFound'
  BY <1>1, <1>2 DEF LocationsInv, KeptAsFound
<1>. QED
  BY <1>3, <1>4 DEF LocationsInv

LEMMA MovesKeep ==
  ASSUME LocationsInv, MovesOn
  PROVE  LocationsInv'
<1>1. Types /\ directory_stack \in Seq(Everywhere) /\ working_dir \in Everywhere
  BY DEF LocationsInv, Types
<1>2. CASE cd
  <2>1. PICK target \in Targets \union {OLDPWD, Home} : set_working_dir(target) /\ UNCHANGED directory_stack
    BY <1>2 DEF cd
  <2>. QED
    BY <1>1, <2>1, MoveKeeps
<1>3. CASE pushd
  <2>1. PICK target \in Targets :
          \/ /\ set_working_dir(target)
             /\ directory_stack' =
                  IF Completes(target) THEN Append(directory_stack, working_dir) ELSE directory_stack
          \/ Stacks(Append(directory_stack, target))
    BY <1>3 DEF pushd
  <2>2. Append(directory_stack, working_dir) \in Seq(Everywhere)
    BY <1>1, StackMoves
  <2>3. Append(directory_stack, target) \in Seq(Everywhere)
    <3>1. target \in Everywhere
      BY DEF Everywhere
    <3>. QED
      BY <1>1, <3>1, StackMoves
  <2>4. ASSUME set_working_dir(target),
               directory_stack' =
                 IF Completes(target) THEN Append(directory_stack, working_dir) ELSE directory_stack
        PROVE  LocationsInv'
    <3>1. directory_stack' \in Seq(Everywhere)
      BY <1>1, <2>2, <2>4
    <3>. QED
      BY <2>4, <3>1, MoveKeeps
  <2>5. ASSUME Stacks(Append(directory_stack, target))
        PROVE  LocationsInv'
    BY <2>3, <2>5, StackKeeps
  <2>. QED
    BY <2>1, <2>4, <2>5
<1>4. CASE popd
  <2>. DEFINE popped == Last(directory_stack)
              rest == Front(directory_stack)
              kept == IF Completes(popped) THEN rest ELSE restore_popped_directory(rest, popped)
  <2>1. (set_working_dir(popped) /\ directory_stack' = kept) \/ Stacks(rest)
    BY <1>4 DEF popd
  <2>2. rest \in Seq(Everywhere) /\ restore_popped_directory(rest, popped) = directory_stack
    BY <1>1, <1>4, StackMoves DEF popd
  <2>3. kept \in Seq(Everywhere)
    <3>. HIDE DEF rest, popped
    <3>. QED
      BY <1>1, <2>2
  <2>. HIDE DEF popped, rest, kept
  <2>4. ASSUME set_working_dir(popped), directory_stack' = kept
        PROVE  LocationsInv'
    <3>1. directory_stack' \in Seq(Everywhere)
      BY <2>3, <2>4
    <3>. QED
      BY <2>4, <3>1, MoveKeeps
  <2>5. ASSUME Stacks(rest)
        PROVE  LocationsInv'
    BY <2>2, <2>5, StackKeeps
  <2>. QED
    BY <2>1, <2>4, <2>5
<1>5. CASE ClearsStack
  <2>1. Stacks(<<>>) /\ <<>> \in Seq(Everywhere)
    BY <1>5 DEF ClearsStack
  <2>. QED
    BY <2>1, StackKeeps
<1>. QED
  BY <1>2, <1>3, <1>4, <1>5 DEF MovesOn

(* A look-up under a value of PATH keeps what it found under that value.     *)
LEMMA LookUpKeeps ==
  ASSUME LocationsInv, NEW path \in SearchPaths, path # Unknown,
         NEW kept \in {Nowhere, synchronize_path_values(path)}, LooksUp(path, kept)
  PROVE  LocationsInv'
<1>1. /\ UNCHANGED <<working_dir, directory_stack, PWD, OLDPWD, halfway, previous, PATH, existing, programs>>
      /\ program_location_cache' = find_first_executable_in_path_using_cache(path, kept)
      /\ key' = path
      /\ pinned' = (pinned /\ kept # Nowhere)
      /\ renewed' = (renewed /\ kept # Nowhere)
  BY DEF LooksUp, place
<1>2. find_first_executable_in_path(path)' = find_first_executable_in_path(path)
  BY <1>1 DEF find_first_executable_in_path, Holds
<1>3. Types' /\ WhereItIs'
  BY <1>1 DEF LocationsInv, Types, WhereItIs
<1>4. ASSUME ~pinned', program_location_cache' # Nowhere, ~renewed'
      PROVE  program_location_cache' = find_first_executable_in_path(path)
  <2>1. CASE kept = Nowhere
    BY <1>1, <2>1 DEF find_first_executable_in_path_using_cache
  <2>2. CASE kept # Nowhere
    <3>1. /\ program_location_cache' = kept /\ ~pinned /\ ~renewed
          /\ kept = program_location_cache /\ key \in {Unknown, path}
      BY <1>1, <1>4, <2>2 DEF find_first_executable_in_path_using_cache, synchronize_path_values
    <3>2. key = path /\ program_location_cache = find_first_executable_in_path(key)
      BY <2>2, <3>1 DEF LocationsInv, KeptAsFound
    <3>. QED
      BY <3>1, <3>2
  <2>. QED
    BY <2>1, <2>2
<1>5. KeptAsFound'
  BY <1>1, <1>2, <1>4 DEF KeptAsFound
<1>. QED
  BY <1>3, <1>5 DEF LocationsInv

LEMMA LooksKeep ==
  ASSUME LocationsInv, LooksOn
  PROVE  LocationsInv'
<1>1. CASE RunsCommand
  <2>1. PICK path \in SearchPaths : LooksUp(path, synchronize_path_values(path))
    BY <1>1 DEF RunsCommand
  <2>2. path # Unknown
    BY LocationsAssumption
  <2>. QED
    BY <2>1, <2>2, LookUpKeeps
<1>2. CASE HashesCommand
  <2>1. PATH \in SearchPaths /\ PATH # Unknown
    BY LocationsAssumption DEF LocationsInv, Types
  <2>. QED
    BY <1>2, <2>1, LookUpKeeps DEF HashesCommand
<1>3. CASE ForgetsAll \/ ForgetsCommand
  <2>1. UNCHANGED <<working_dir, directory_stack, PWD, OLDPWD, halfway, previous, PATH, existing>>
    BY <1>3 DEF ForgetsAll, ForgetsCommand, place
  <2>2. program_location_cache' = Nowhere /\ pinned' = FALSE /\ renewed' = FALSE
    BY <1>3 DEF ForgetsAll, ForgetsCommand, reset_path_caches
  <2>. QED
    BY <2>1, <2>2 DEF LocationsInv, Types, WhereItIs, KeptAsFound
<1>4. CASE PinsCommand
  <2>1. /\ UNCHANGED <<working_dir, directory_stack, PWD, OLDPWD, halfway, previous, PATH, existing, renewed>>
        /\ pinned' = TRUE
    BY <1>4 DEF PinsCommand, place
  <2>. QED
    BY <2>1 DEF LocationsInv, Types, WhereItIs, KeptAsFound
<1>. QED
  BY <1>1, <1>2, <1>3, <1>4 DEF LooksOn

(* What others do to the shell's files, and scripts to its variables.       *)
LEMMA OthersKeep ==
  ASSUME LocationsInv, DeclaresReadonly \/ AssignsPath \/ Redefines \/ DirectoriesChange \/ ProgramsChange
  PROVE  LocationsInv'
<1>1. /\ UNCHANGED <<working_dir, directory_stack, PWD, OLDPWD, halfway, previous>>
      /\ UNCHANGED <<program_location_cache, key, pinned>>
  BY DEF DeclaresReadonly, AssignsPath, Redefines, DirectoriesChange, ProgramsChange, place, cache
<1>2. renewed' = TRUE \/ UNCHANGED <<existing, programs, renewed>>
  BY DEF DeclaresReadonly, AssignsPath, Redefines, DirectoriesChange, ProgramsChange, cache
<1>3. PATH' \in SearchPaths /\ existing' \subseteq Directories
  BY DEF DeclaresReadonly, AssignsPath, Redefines, DirectoriesChange, ProgramsChange, Toggled,
         LocationsInv, Types
<1>4. UNCHANGED <<existing, programs>> =>
        \A path : find_first_executable_in_path(path)' = find_first_executable_in_path(path)
  BY DEF find_first_executable_in_path, Holds
<1>5. Types' /\ WhereItIs'
  BY <1>1, <1>2, <1>3 DEF LocationsInv, Types, WhereItIs
<1>6. KeptAsFound'
  BY <1>1, <1>2, <1>4 DEF LocationsInv, KeptAsFound
<1>. QED
  BY <1>5, <1>6 DEF LocationsInv

-----------------------------------------------------------------------------
(* However moves and look-ups follow each other, PWD and OLDPWD follow the  *)
(* moves, and a location kept is one that was found under the PATH it is    *)
(* kept under (set_working_dir, synchronize_path_values,                    *)
(* find_first_executable_in_path_using_cache).                              *)
THEOREM LocationsInvariant == LocationsSpec => []LocationsInv
<1>1. LocationsInit => LocationsInv
  BY Starts
<1>2. LocationsInv /\ [LocationsNext]_locations_vars => LocationsInv'
  <2>. SUFFICES ASSUME LocationsInv, [LocationsNext]_locations_vars
                PROVE  LocationsInv'
    OBVIOUS
  <2>1. CASE LocationsNext
    BY <2>1, MovesKeep, LooksKeep, OthersKeep DEF LocationsNext
  <2>2. CASE UNCHANGED locations_vars
    <3>1. UNCHANGED <<working_dir, directory_stack, PWD, OLDPWD, halfway, previous, program_location_cache,
                      key, pinned, renewed, PATH, existing, programs>>
      BY <2>2 DEF locations_vars, place, cache
    <3>2. \A path : find_first_executable_in_path(path)' = find_first_executable_in_path(path)
      BY <3>1 DEF find_first_executable_in_path, Holds
    <3>3. Types' /\ WhereItIs'
      BY <3>1 DEF LocationsInv, Types, WhereItIs
    <3>4. KeptAsFound'
      BY <3>1, <3>2 DEF LocationsInv, KeptAsFound
    <3>. QED
      BY <3>3, <3>4 DEF LocationsInv
  <2>. QED
    BY <2>1, <2>2
<1>. QED
  BY <1>1, <1>2, PTL DEF LocationsSpec

(* PWD, OLDPWD, dirs, ~+n and ~-n agree about where the shell is and was,    *)
(* for a stack of any depth (cd, pushd, popd, tilde expansion).              *)
THEOREM PlacesAlwaysAgree == LocationsSpec => []PlacesAgree
<1>1. LocationsInv => PlacesAgree
  <2>. SUFFICES ASSUME LocationsInv
                PROVE  PlacesAgree
    OBVIOUS
  <2>1. directory_stack \in Seq(Everywhere) /\ working_dir \in Everywhere
    BY DEF LocationsInv, Types
  <2>2. ASSUME NEW n \in 0 .. MaxStack + 1
        PROVE  LET there == n + 1 \in DOMAIN dirs
               IN /\ NthDirFromTop(n) = IF there THEN dirs[n + 1] ELSE Nowhere
                  /\ NthDirFromBottom(n) = IF there THEN Reverse(dirs)[n + 1] ELSE Nowhere
    <3>1. n \in Nat
      BY LocationsAssumption
    <3>. QED
      BY <2>1, <3>1, DirsInOrder
  <2>3. WhereItIs
    BY DEF LocationsInv
  <2>. QED
    BY <2>2, <2>3 DEF PlacesAgree, WhereItIs
<1>. QED
  BY <1>1, LocationsInvariant, PTL

(* What a search finds is the first entry that holds the command from where *)
(* the shell is, when the path means the same there as to the process.       *)
LEMMA SearchFindsTheFirst ==
  ASSUME NEW path \in SearchPaths, MeansTheSame(path)
  PROVE  IsFirstHolding(find_first_executable_in_path(path), path)
<1>. DEFINE holding == {k \in DOMAIN path : Holds(path[k], ProcessDir)}
            first == CHOOSE k \in holding : \A j \in holding : k <= j
<1>1. DOMAIN path \subseteq Nat
  BY LocationsAssumption
<1>2. ASSUME NEW k \in DOMAIN path
      PROVE  Holds(path[k], working_dir) = Holds(path[k], ProcessDir)
  BY DEF MeansTheSame, Holds, From
<1>3. find_first_executable_in_path(path) = IF holding = {} THEN Nowhere ELSE path[first]
  BY DEF find_first_executable_in_path
<1>4. CASE holding = {}
  BY <1>2, <1>3, <1>4 DEF IsFirstHolding
<1>5. CASE holding # {}
  <2>1. \E k \in holding : \A j \in holding : k <= j
    BY <1>1, <1>5, LeastExists
  <2>2. first \in holding /\ \A j \in holding : first <= j
    BY <2>1
  <2>. HIDE DEF first
  <2>3. first \in DOMAIN path /\ Holds(path[first], working_dir)
    BY <1>2, <2>2
  <2>4. ASSUME NEW j \in DOMAIN path, j < first
        PROVE  ~Holds(path[j], working_dir)
    <3>1. j \notin holding
      BY <1>1, <2>2, <2>3, <2>4
    <3>. QED
      BY <1>2, <3>1
  <2>. QED
    BY <1>3, <1>5, <2>3, <2>4 DEF IsFirstHolding
<1>. QED
  BY <1>4, <1>5

(* A command runs from the first directory of the PATH it is given that has *)
(* it, and type says what will run, whatever was looked up and pinned and   *)
(* forgotten before, unless an entry is relative and the shell away from    *)
(* its process (synchronize_path_values, resolve_command).                  *)
THEOREM AlwaysFoundAsPathSays == LocationsSpec => []FoundAsPathSays
<1>1. LocationsInv => FoundAsPathSays
  <2>. SUFFICES ASSUME LocationsInv
                PROVE  FoundAsPathSays
    OBVIOUS
  <2>1. ASSUME NEW path \in SearchPaths, MeansTheSame(path)
        PROVE  FoundUnder(path)
    <3>. DEFINE kept == synchronize_path_values(path)
    <3>. SUFFICES ASSUME ~renewed, ~(pinned /\ kept # Nowhere)
                  PROVE  IsFirstHolding(find_first_executable_in_path_using_cache(path, kept), path)
      BY DEF FoundUnder
    <3>1. CASE kept = Nowhere
      BY <2>1, <3>1, SearchFindsTheFirst DEF find_first_executable_in_path_using_cache
    <3>2. CASE kept # Nowhere
      <4>1. kept = program_location_cache /\ key \in {Unknown, path} /\ ~pinned
        BY <3>2 DEF synchronize_path_values
      <4>2. key = path /\ program_location_cache = find_first_executable_in_path(key)
        BY <3>2, <4>1 DEF LocationsInv, KeptAsFound
      <4>3. find_first_executable_in_path_using_cache(path, kept) = find_first_executable_in_path(path)
        BY <3>2, <4>1, <4>2 DEF find_first_executable_in_path_using_cache
      <4>. QED
        BY <2>1, <4>3, SearchFindsTheFirst
    <3>. QED
      BY <3>1, <3>2
  <2>2. ASSUME key \in {Unknown, PATH}
        PROVE  resolve_command[1] = Executes(PATH)
    <3>1. synchronize_path_values(PATH) = program_location_cache
      BY <2>2 DEF synchronize_path_values
    <3>. DEFINE found == find_first_executable_in_path_using_cache(PATH, program_location_cache)
    <3>2. /\ resolve_command = IF function THEN <<"function", Nowhere>>
                               ELSE IF builtin THEN <<"builtin", Nowhere>>
                               ELSE <<IF found = Nowhere THEN "none" ELSE "program", found>>
          /\ Executes(PATH) = IF function THEN "function" ELSE IF builtin THEN "builtin"
                              ELSE IF found = Nowhere THEN "none" ELSE "program"
      BY <3>1 DEF resolve_command, Executes
    <3>. HIDE DEF found
    <3>. QED
      BY <3>2
  <2>. QED
    BY <2>1, <2>2 DEF FoundAsPathSays
<1>. QED
  BY <1>1, LocationsInvariant, PTL

-----------------------------------------------------------------------------
(***************************************************************************)
(* getopts: where it has come to in the reading under way.  The answers    *)
(* that a word and those after it still have to give are what is left of   *)
(* the word's letters, from where the next call reads, and the rest.       *)
(***************************************************************************)
Answers == [value : Characters, optarg : Seq(Seq(Characters)), ok : BOOLEAN]

WithinWord(spec, argv, index, char) ==
  index <= Len(argv) /\ IsOption(argv[index]) =>
    char = 1 \/ (char < Len(argv[index]) /\ char + 1 <= FirstTaking(spec, argv[index]))

NextWord(spec, argv, index) == IF TakesNext(spec, argv, index) THEN index + 2 ELSE index + 1

LeftToSay(spec, argv, index, char) ==
  IF index > Len(argv) \/ ~IsOption(argv[index]) THEN <<NoMore>>
  ELSE SubSeq(Flags(spec, argv[index]), char, FirstTaking(spec, argv[index]) - 2)
         \o Option(spec, argv, index) \o Reading(spec, argv, NextWord(spec, argv, index))

Reached(spec, argv, from, said, index, char) ==
  /\ index \in Nat \ {0}
  /\ WithinWord(spec, argv, index, char)
  /\ Reading(spec, argv, from) = said \o LeftToSay(spec, argv, index, char)

OnItsWay ==
  start # 0 /\ ~Over =>
    Reached(parse_option_spec(options), args, start, read, last_optind, next_char)

GetoptsTypes ==
  /\ args \in ArgumentLists
  /\ OPTIND \in Int
  /\ next_char \in Nat \ {0}
  /\ last_optind \in Int
  /\ start \in Nat
  /\ read \in Seq(Answers)

GetoptsInv ==
  /\ GetoptsTypes
  /\ OnItsWay
  /\ SaysWhatIsThere(read, args, start)

LEMMA AnswerIs ==
  ASSUME NEW value \in Characters, NEW optarg \in Seq(Seq(Characters)), NEW ok \in BOOLEAN
  PROVE  /\ Answer(value, optarg, ok) \in Answers
         /\ Answer(value, optarg, ok).ok = ok
  BY DEF Answer, Answers

LEMMA OneOrNone ==
  ASSUME NEW S
  PROVE  <<>> \in Seq(S) /\ \A x \in S : <<x>> \in Seq(S)
  OBVIOUS

LEMMA EmptyIs ==
  ASSUME NEW S, NEW s \in Seq(S)
  PROVE  Len(s) # 0 <=> s # <<>>
  OBVIOUS

Associated(a, b, c) == (a \o b) \o c = a \o (b \o c)

LEMMA Associate ==
  ASSUME NEW S, NEW a \in Seq(S), NEW b \in Seq(S), NEW c \in Seq(S)
  PROVE  Associated(a, b, c)
<1>1. (a \o b) \o c = a \o (b \o c)
  BY ConcatAssociative
<1>. QED
  BY Zenon, <1>1 DEF Associated

Regrouped(a, b, c, d) == (a \o b) \o c \o d = a \o (b \o c \o d)

LEMMA Regroup ==
  ASSUME NEW S, NEW a \in Seq(S), NEW b \in Seq(S), NEW c \in Seq(S), NEW d \in Seq(S)
  PROVE  Regrouped(a, b, c, d) /\ b \o c \o d \in Seq(S)
<1>1. b \o c \in Seq(S)
  BY ConcatProperties
<1>2. Associated(a, b, c)
  BY Associate
<1>3. Associated(a, b \o c, d)
  BY <1>1, Associate
<1>4. b \o c \o d \in Seq(S)
  BY <1>1, ConcatProperties
<1>5. (a \o b) \o c \o d = a \o (b \o c \o d)
  BY Zenon, <1>2, <1>3 DEF Associated
<1>. QED
  BY Zenon, <1>4, <1>5 DEF Regrouped

LEMMA NothingMore ==
  ASSUME NEW S, NEW s \in Seq(S)
  PROVE  <<>> \o <<>> \o s = s
<1>1. <<>> \o <<>> = <<>> /\ <<>> \in Seq(S)
  OBVIOUS
<1>2. <<>> \o s = s
  BY ConcatEmptySeq
<1>. QED
  BY <1>1, <1>2

LEMMA SubSeqFrom ==
  ASSUME NEW S, NEW s \in Seq(S), NEW a \in 1 .. Len(s)
  PROVE  /\ SubSeq(s, a, Len(s)) = <<s[a]>> \o SubSeq(s, a + 1, Len(s))
         /\ SubSeq(s, a + 1, Len(s)) \in Seq(S)
         /\ a = Len(s) => SubSeq(s, a + 1, Len(s)) = <<>>
<1>1. SubSeq(s, a, Len(s)) = <<s[a]>> \o SubSeq(s, a + 1, Len(s))
  BY SubSeqRecursiveFirst
<1>2. SubSeq(s, a + 1, Len(s)) \in Seq(S)
  OBVIOUS
<1>3. a = Len(s) => SubSeq(s, a + 1, Len(s)) = <<>>
  BY SubSeqEmpty
<1>. QED
  BY <1>1, <1>2, <1>3

SplitAt(s, a, b, c) ==
  SubSeq(s, a, Len(s)) \o b \o c = <<s[a]>> \o (SubSeq(s, a + 1, Len(s)) \o b \o c)

LEMMA SubSeqFromThen ==
  ASSUME NEW S, NEW s \in Seq(S), NEW a \in 1 .. Len(s), NEW b \in Seq(S), NEW c \in Seq(S)
  PROVE  /\ SplitAt(s, a, b, c)
         /\ SubSeq(s, a + 1, Len(s)) \o b \o c \in Seq(S)
<1>. PICK more : more = SubSeq(s, a + 1, Len(s))
  OBVIOUS
<1>. PICK one : one = <<s[a]>>
  OBVIOUS
<1>1. SubSeq(s, a, Len(s)) = one \o more /\ more \in Seq(S)
  BY SubSeqFrom
<1>2. one \in Seq(S)
  OBVIOUS
<1>3. Regrouped(one, more, b, c) /\ more \o b \o c \in Seq(S)
  BY <1>1, <1>2, Regroup
<1>4. (one \o more) \o b \o c = one \o (more \o b \o c)
  BY <1>3 DEF Regrouped
<1>. QED
  BY Zenon, <1>1, <1>3, <1>4 DEF SplitAt

LEMMA OptargIs ==
  /\ NoArgument \in Seq(Seq(Characters))
  /\ \A w \in Seq(Characters) : <<w>> \in Seq(Seq(Characters))
  /\ \A c \in Characters : <<<<c>>>> \in Seq(Seq(Characters))
<1>. PICK T : T = Seq(Characters)
  OBVIOUS
<1>1. <<>> \in Seq(T) /\ \A w \in T : <<w>> \in Seq(T)
  BY OneOrNone
<1>2. \A c \in Characters : <<c>> \in T
  BY OneOrNone
<1>3. NoArgument = <<>>
  BY DEF NoArgument
<1>4. \A c \in Characters : <<<<c>>>> \in Seq(T)
  BY Zenon, <1>1, <1>2
<1>. QED
  BY <1>1, <1>3, <1>4

LEMMA MarksAre == ":" \in Characters /\ "?" \in Characters
  BY GetoptsAssumption

LEMMA NoMoreIs == NoMore \in Answers /\ ~NoMore.ok
  BY MarksAre, OptargIs, AnswerIs DEF NoMore

LEMMA FirstTakingIs ==
  ASSUME NEW spec, NEW word \in Seq(Characters), Len(word) > 1
  PROVE  LET k == FirstTaking(spec, word)
         IN /\ k \in 2 .. Len(word) + 1
            /\ k <= Len(word) => word[k] \in spec.takes
            /\ \A i \in 2 .. Len(word) : i < k => word[i] \notin spec.takes
<1>. PICK n \in Nat : n = Len(word)
  OBVIOUS
<1>. PICK S : S = Taking(spec, word)
  OBVIOUS
<1>1. S \in SUBSET (2 .. n) /\ \A i \in 2 .. n : i \in S <=> word[i] \in spec.takes
  BY DEF Taking
<1>2. CASE S = {}
  <2>1. FirstTaking(spec, word) = n + 1
    BY <1>2 DEF FirstTaking
  <2>2. n + 1 \in 2 .. n + 1 /\ ~(n + 1 <= n)
    OBVIOUS
  <2>. QED
    BY <1>1, <1>2, <2>1, <2>2
<1>3. CASE S # {}
  <2>1. S \in SUBSET Nat
    BY <1>1
  <2>2. \E m \in S : \A x \in S : m <= x
    BY <1>3, <2>1, LeastExists
  <2>. PICK k : k = Min(S)
    OBVIOUS
  <2>3. k \in S /\ \A x \in S : k <= x
    BY <2>2 DEF Min
  <2>4. FirstTaking(spec, word) = k
    BY <1>3 DEF FirstTaking
  <2>5. k \in 2 .. n /\ k \in 2 .. n + 1 /\ word[k] \in spec.takes
    BY <1>1, <2>3
  <2>6. ASSUME NEW i \in 2 .. n, i < k
        PROVE  word[i] \notin spec.takes
    <3>1. i \notin S
      BY <2>3, <2>5, <2>6
    <3>. QED
      BY <1>1, <3>1
  <2>. QED
    BY <2>4, <2>5, <2>6
<1>. QED
  BY <1>2, <1>3

LEMMA FlagIs ==
  ASSUME NEW spec, NEW c \in Characters
  PROVE  Flag(spec, c) \in Answers /\ Flag(spec, c).ok
<1>. PICK none : none = NoArgument
  OBVIOUS
<1>. PICK letter : letter = <<<<c>>>>
  OBVIOUS
<1>1. none \in Seq(Seq(Characters)) /\ letter \in Seq(Seq(Characters)) /\ "?" \in Characters
  BY OptargIs, MarksAre
<1>2. \/ Flag(spec, c) = Answer(c, none, TRUE)
      \/ Flag(spec, c) = Answer("?", none, TRUE)
      \/ Flag(spec, c) = Answer("?", letter, TRUE)
  BY DEF Flag
<1>3. \A v \in Characters, o \in Seq(Seq(Characters)) : Answer(v, o, TRUE) \in Answers /\ Answer(v, o, TRUE).ok
  BY AnswerIs
<1>. QED
  BY <1>1, <1>2, <1>3

LEMMA FlagsAre ==
  ASSUME NEW spec, NEW word \in Seq(Characters), Len(word) > 1
  PROVE  /\ Flags(spec, word) \in Seq(Answers)
         /\ Len(Flags(spec, word)) = FirstTaking(spec, word) - 2
         /\ \A k \in 1 .. FirstTaking(spec, word) - 2 : Flags(spec, word)[k] = Flag(spec, word[k + 1])
<1>1. FirstTaking(spec, word) \in 2 .. Len(word) + 1
  BY FirstTakingIs
<1>. PICK m \in Nat : m = FirstTaking(spec, word) - 2
  BY <1>1
<1>2. \A k \in 1 .. m : Flag(spec, word[k + 1]) \in Answers
  <2>1. ASSUME NEW k \in 1 .. m
        PROVE  word[k + 1] \in Characters
    <3>1. k + 1 \in 1 .. Len(word)
      BY <1>1
    <3>. QED
      BY <3>1
  <2>. QED
    BY <2>1, FlagIs
<1>3. Flags(spec, word) = [k \in 1 .. m |-> Flag(spec, word[k + 1])]
  BY DEF Flags
<1>. QED
  BY <1>2, <1>3

(* What the option that takes an argument says.                             *)
LEMMA ArgumentIs ==
  ASSUME NEW spec, NEW argv \in Seq(Seq(Characters)), NEW index \in 1 .. Len(argv),
         NEW word \in Seq(Characters), NEW k \in 1 .. Len(word)
  PROVE  /\ Argument(spec, argv, index, word, k) \in Answers
         /\ Argument(spec, argv, index, word, k).ok
<1>. PICK c \in Characters : c = word[k]
  OBVIOUS
<1>0. \A j \in Nat : SubSeq(word, j + 1, Len(word)) \in Seq(Characters)
  OBVIOUS
<1>. PICK rest : rest = SubSeq(word, k + 1, Len(word))
  OBVIOUS
<1>7. rest \in Seq(Characters)
  BY <1>0
<1>1. \A v \in Characters, o \in Seq(Seq(Characters)) : Answer(v, o, TRUE) \in Answers /\ Answer(v, o, TRUE).ok
  BY AnswerIs
<1>. PICK one : one = <<rest>>
  OBVIOUS
<1>. PICK letter : letter = <<<<c>>>>
  OBVIOUS
<1>. PICK none : none = NoArgument
  OBVIOUS
<1>2. one \in Seq(Seq(Characters)) /\ letter \in Seq(Seq(Characters)) /\ none \in Seq(Seq(Characters))
  BY <1>7, OptargIs
<1>3. ":" \in Characters /\ "?" \in Characters
  BY MarksAre
<1>4. CASE k < Len(word)
  <2>1. Argument(spec, argv, index, word, k) = Answer(c, one, TRUE)
    BY <1>4 DEF Argument
  <2>. QED
    BY Zenon, <1>1, <1>2, <2>1
<1>5. CASE ~(k < Len(word)) /\ index < Len(argv)
  <2>0. argv[index + 1] \in Seq(Characters)
    BY <1>5
  <2>. PICK next \in Seq(Characters) : next = argv[index + 1]
    BY <2>0
  <2>. PICK two : two = <<next>>
    OBVIOUS
  <2>1. two \in Seq(Seq(Characters))
    BY OptargIs
  <2>2. Argument(spec, argv, index, word, k) = Answer(c, two, TRUE)
    BY <1>5 DEF Argument
  <2>. QED
    BY Zenon, <1>1, <2>1, <2>2
<1>6. CASE ~(k < Len(word)) /\ ~(index < Len(argv))
  <2>1. \/ Argument(spec, argv, index, word, k) = Answer(":", letter, TRUE)
        \/ Argument(spec, argv, index, word, k) = Answer("?", none, TRUE)
    BY <1>6 DEF Argument
  <2>. QED
    BY Zenon, <1>1, <1>2, <1>3, <2>1
<1>. QED
  BY <1>4, <1>5, <1>6

LEMMA TakenIs ==
  ASSUME NEW spec, NEW argv \in Seq(Seq(Characters)), NEW index \in 1 .. Len(argv),
         NEW word \in Seq(Characters), NEW k \in 1 .. Len(word) + 1
  PROVE  /\ k > Len(word) => Taken(spec, argv, index, word, k) = <<>>
         /\ k <= Len(word) => Taken(spec, argv, index, word, k) = <<Argument(spec, argv, index, word, k)>>
         /\ Taken(spec, argv, index, word, k) \in Seq(Answers)
<1>. PICK S : S = Answers
  OBVIOUS
<1>1. CASE k > Len(word)
  BY <1>1, OneOrNone DEF Taken
<1>2. CASE ~(k > Len(word))
  <2>1. k \in 1 .. Len(word)
    BY <1>2
  <2>. PICK a : a = Argument(spec, argv, index, word, k)
    OBVIOUS
  <2>2. a \in S
    BY <2>1, ArgumentIs
  <2>3. Taken(spec, argv, index, word, k) = <<a>>
    BY <1>2 DEF Taken
  <2>4. <<a>> \in Seq(S)
    BY <2>2, OneOrNone
  <2>. QED
    BY <1>2, <2>3, <2>4
<1>. QED
  BY <1>1, <1>2

LEMMA OptionIs ==
  ASSUME NEW spec, NEW argv \in Seq(Seq(Characters)), NEW index \in 1 .. Len(argv),
         IsOption(argv[index])
  PROVE  /\ argv[index] \in Seq(Characters) /\ Len(argv[index]) > 1
         /\ Flags(spec, argv[index]) \in Seq(Answers)
         /\ Option(spec, argv, index) \in Seq(Answers)
<1>1. argv[index] \in Seq(Characters)
  OBVIOUS
<1>. PICK word \in Seq(Characters) : word = argv[index]
  BY <1>1
<1>2. Len(word) > 1
  BY DEF IsOption
<1>. PICK k : k = FirstTaking(spec, word)
  OBVIOUS
<1>3. k \in 1 .. Len(word) + 1
  <2>1. k \in 2 .. Len(word) + 1
    BY <1>2, FirstTakingIs
  <2>. QED
    BY <2>1
<1>4. Taken(spec, argv, index, word, k) \in Seq(Answers)
  BY <1>3, TakenIs
<1>5. Option(spec, argv, index) = Taken(spec, argv, index, word, k)
  BY DEF Option
<1>6. Flags(spec, word) \in Seq(Answers)
  BY <1>2, FlagsAre
<1>. QED
  BY <1>1, <1>2, <1>4, <1>5, <1>6

(* What is said from a word on, given what is said after it. *)
Both == Seq(Answers) \X Seq(Answers)

Says(spec, argv, index, after) ==
  IF ~IsOption(argv[index]) THEN <<NoMore>>
  ELSE Flags(spec, argv[index]) \o Option(spec, argv, index) \o after

LEMMA SaidFromIs ==
  ASSUME NEW spec, NEW argv \in Seq(Seq(Characters)), NEW index \in 1 .. Len(argv),
         NEW after \in Both
  PROVE  /\ SaidFrom(spec, argv, index, after) \in Both
         /\ SaidFrom(spec, argv, index, after)[2] = after[1]
         /\ TakesNext(spec, argv, index) =>
              SaidFrom(spec, argv, index, after)[1] = Says(spec, argv, index, after[2])
         /\ ~TakesNext(spec, argv, index) =>
              SaidFrom(spec, argv, index, after)[1] = Says(spec, argv, index, after[1])
<1>. PICK S : S = Seq(Answers)
  OBVIOUS
<1>. PICK one \in S : one = after[1]
  BY DEF Both
<1>. PICK two \in S : two = after[2]
  BY DEF Both
<1>. PICK next : next = IF TakesNext(spec, argv, index) THEN two ELSE one
  OBVIOUS
<1>1. next = after[IF TakesNext(spec, argv, index) THEN 2 ELSE 1]
  OBVIOUS
<1>. PICK said : said = Says(spec, argv, index, next)
  OBVIOUS
<1>2. said \in S
  <2>1. CASE ~IsOption(argv[index])
    <3>1. <<NoMore>> \in S
      <4>. PICK A : A = Answers
        OBVIOUS
      <4>1. NoMore \in A
        BY NoMoreIs
      <4>. QED
        BY <4>1, OneOrNone
    <3>. QED
      BY <2>1, <3>1 DEF Says
  <2>2. CASE IsOption(argv[index])
    <3>1. Flags(spec, argv[index]) \in Seq(Answers) /\ Option(spec, argv, index) \in Seq(Answers)
      BY <2>2, OptionIs
    <3>2. next \in Seq(Answers)
      OBVIOUS
    <3>3. Flags(spec, argv[index]) \o Option(spec, argv, index) \o next \in Seq(Answers)
      BY <3>1, <3>2
    <3>. QED
      BY <2>2, <3>3 DEF Says
  <2>. QED
    BY <2>1, <2>2
<1>3. SaidFrom(spec, argv, index, after) = <<said, one>>
  BY <1>1 DEF SaidFrom, Says
<1>4. <<said, one>> \in S \X S
  BY <1>2
<1>5. <<said, one>>[1] = said /\ <<said, one>>[2] = one
  OBVIOUS
<1>. QED
  BY <1>3, <1>4, <1>5 DEF Both

(***************************************************************************)
(* The readings of all the words, last word first.                         *)
(***************************************************************************)
LEMMA ReadingsAre ==
  ASSUME NEW spec, NEW argv \in Seq(Seq(Characters))
  PROVE  /\ Readings(spec, argv)[0] = << <<NoMore>>, <<NoMore>> >>
         /\ \A n \in Nat : n <= Len(argv) => Readings(spec, argv)[n] \in Both
         /\ \A n \in Nat : n < Len(argv) =>
              Readings(spec, argv)[n + 1] = SaidFrom(spec, argv, Len(argv) - n, Readings(spec, argv)[n])
<1>. PICK N \in Nat : N = Len(argv)
  OBVIOUS
<1>. DEFINE first == << <<NoMore>>, <<NoMore>> >>
            step == [p \in Nat \X Both |-> IF p[1] < N THEN SaidFrom(spec, argv, N - p[1], p[2]) ELSE p[2]]
            Ruled(f) == f = [left \in 0 .. Len(argv) |->
                               IF left = 0 THEN first ELSE SaidFrom(spec, argv, Len(argv) + 1 - left, f[left - 1])]
<1>1. first \in Both
  <2>. PICK S : S = Seq(Answers)
    OBVIOUS
  <2>. PICK A : A = Answers
    OBVIOUS
  <2>1. NoMore \in A
    BY NoMoreIs
  <2>2. <<NoMore>> \in S
    BY <2>1, OneOrNone
  <2>3. <<NoMore>> \in S => <<<<NoMore>>, <<NoMore>>>> \in S \X S
    OBVIOUS
  <2>. QED
    BY <2>2, <2>3 DEF Both
<1>2. \A n \in Nat, after \in Both : n < N => SaidFrom(spec, argv, N - n, after) \in Both
  <2>1. ASSUME NEW n \in Nat, NEW after \in Both, n < N
        PROVE  SaidFrom(spec, argv, N - n, after) \in Both
    <3>1. N - n \in 1 .. Len(argv)
      BY <2>1
    <3>. QED
      BY <3>1, SaidFromIs
  <2>. QED
    BY <2>1
<1>. HIDE DEF first
<1>3. step \in [Nat \X Both -> Both]
  <2>1. ASSUME NEW p \in Nat \X Both
        PROVE  (IF p[1] < N THEN SaidFrom(spec, argv, N - p[1], p[2]) ELSE p[2]) \in Both
    <3>1. p[1] \in Nat /\ p[2] \in Both
      OBVIOUS
    <3>. QED
      BY <1>2, <3>1
  <2>. QED
    BY <2>1
<1>4. \E f : Ruled(f)
  <2>. HIDE DEF step
  <2>1. PICK f : Recursive(f, Both, first, step)
    BY <1>1, <1>3, Recursion
  <2>2. f \in [Nat -> Both] /\ f[0] = first /\ \A n \in Nat : f[n + 1] = step[<<n, f[n]>>]
    BY <2>1 DEF Recursive
  <2>. DEFINE g == [left \in 0 .. N |-> f[left]]
  <2>3. ASSUME NEW left \in 0 .. N
        PROVE  g[left] = IF left = 0 THEN first ELSE SaidFrom(spec, argv, N + 1 - left, g[left - 1])
    <3>1. CASE left = 0
      BY <2>2, <3>1
    <3>2. CASE left # 0
      <4>1. PICK m \in Nat : m = left - 1 /\ left = m + 1 /\ m < N /\ m \in 0 .. N /\ N + 1 - left = N - m
        BY <3>2
      <4>2. f[left] = step[<<m, f[m]>>] /\ f[m] \in Both
        BY <2>2, <4>1
      <4>3. step[<<m, f[m]>>] = SaidFrom(spec, argv, N - m, f[m])
        BY <4>1, <4>2 DEF step
      <4>4. g[left] = f[left] /\ g[left - 1] = f[m]
        BY <4>1
      <4>. QED
        BY <3>2, <4>1, <4>2, <4>3, <4>4
    <3>. QED
      BY <3>1, <3>2
  <2>4. g = [left \in 0 .. N |-> IF left = 0 THEN first ELSE SaidFrom(spec, argv, N + 1 - left, g[left - 1])]
    <3>1. g = [left \in 0 .. N |-> g[left]]
      OBVIOUS
    <3>. HIDE DEF g
    <3>. QED
      BY <2>3, <3>1
  <2>. HIDE DEF g
  <2>5. Ruled(g)
    BY <2>4
  <2>. QED
    BY <2>5
<1>. DEFINE r == CHOOSE f : Ruled(f)
<1>5. Ruled(r)
  BY <1>4
<1>6. Readings(spec, argv) = r
  BY Zenon DEF Readings, first
<1>. HIDE DEF r, step
<1>7. r[0] = first
  BY <1>5
<1>8. ASSUME NEW n \in Nat, n < N
      PROVE  r[n + 1] = SaidFrom(spec, argv, N - n, r[n])
  <2>1. n + 1 \in 0 .. N /\ n + 1 # 0 /\ (n + 1) - 1 = n /\ N + 1 - (n + 1) = N - n
    BY <1>8
  <2>2. \A left \in 0 .. N : r[left] = IF left = 0 THEN first ELSE SaidFrom(spec, argv, N + 1 - left, r[left - 1])
    BY <1>5
  <2>. QED
    BY <2>1, <2>2
<1>. DEFINE S == {n \in Nat : n <= N => r[n] \in Both}
<1>9. 0 \in S
  BY <1>1, <1>7
<1>10. \A n \in Nat : n \in S => n + 1 \in S
  <2>1. ASSUME NEW n \in Nat, n \in S, n + 1 <= N
        PROVE  r[n + 1] \in Both
    <3>1. n < N /\ r[n] \in Both
      BY <2>1
    <3>. QED
      BY <1>2, <1>8, <3>1
  <2>. QED
    BY <2>1
<1>. HIDE DEF S
<1>11. Nat \subseteq S
  BY <1>9, <1>10, Induction
<1>. QED
  BY <1>6, <1>7, <1>8, <1>11 DEF S, first

(* The reading from a word on: what the word says, then the reading from   *)
(* the next one on.                                                        *)
LEMMA ReadingIs ==
  ASSUME NEW spec, NEW argv \in Seq(Seq(Characters)), NEW index \in Nat \ {0}
  PROVE  /\ Reading(spec, argv, index) \in Seq(Answers)
         /\ index > Len(argv) => Reading(spec, argv, index) = <<NoMore>>
         /\ index <= Len(argv) =>
              Reading(spec, argv, index)
                = Says(spec, argv, index, Reading(spec, argv, NextWord(spec, argv, index)))
<1>. PICK N \in Nat : N = Len(argv)
  OBVIOUS
<1>. PICK r : r = Readings(spec, argv)
  OBVIOUS
<1>. PICK none : none = <<NoMore>>
  OBVIOUS
<1>0. \A n \in Nat : r[n] = r[n]
  OBVIOUS
<1>1. r[0] = <<none, none>>
  BY ReadingsAre
<1>2. \A n \in Nat : n <= N => r[n] \in Both
  BY ReadingsAre
<1>3. \A n \in Nat : n < N => r[n + 1] = SaidFrom(spec, argv, N - n, r[n])
  BY ReadingsAre
<1>4. r[0][1] = none /\ r[0][2] = none
  BY <1>1
<1>5. \A i \in Nat \ {0} : i > N => Reading(spec, argv, i) = none
  BY DEF Reading
<1>6. \A i \in Nat \ {0} : i <= N + 1 => Reading(spec, argv, i) = r[N + 1 - i][1]
  <2>1. ASSUME NEW i \in Nat \ {0}, i <= N
        PROVE  Reading(spec, argv, i) = r[N + 1 - i][1]
    BY <2>1 DEF Reading
  <2>2. Reading(spec, argv, N + 1) = r[N + 1 - (N + 1)][1]
    <3>1. N + 1 - (N + 1) = 0 /\ N + 1 > N /\ N + 1 \in Nat \ {0}
      OBVIOUS
    <3>. QED
      BY <1>4, <1>5, <3>1
  <2>3. \A i \in Nat : i <= N + 1 => i <= N \/ i = N + 1
    OBVIOUS
  <2>. QED
    BY <2>1, <2>2, <2>3
<1>7. \A i \in Nat \ {0} : i <= N => r[N - i][1] = Reading(spec, argv, i + 1)
  <2>1. ASSUME NEW i \in Nat \ {0}, i <= N
        PROVE  r[N - i][1] = Reading(spec, argv, i + 1)
    <3>1. i + 1 \in Nat \ {0} /\ i + 1 <= N + 1 /\ N + 1 - (i + 1) = N - i
      BY <2>1
    <3>. QED
      BY <1>6, <3>1
  <2>. QED
    BY <2>1
<1>8. \A i \in Nat \ {0} : i <= N => r[N - i][2] = Reading(spec, argv, i + 2)
  <2>1. ASSUME NEW i \in Nat \ {0}, i <= N
        PROVE  r[N - i][2] = Reading(spec, argv, i + 2)
    <3>1. CASE i = N
      <4>1. N - i = 0 /\ i + 2 > N /\ i + 2 \in Nat \ {0}
        BY <3>1
      <4>. QED
        BY <1>4, <1>5, <4>1
    <3>2. CASE i # N
      <4>0. N - (i + 1) \in Nat
        BY <2>1, <3>2
      <4>. PICK m \in Nat : m = N - (i + 1)
        BY <4>0
      <4>1. m + 1 = N - i /\ m < N /\ N - m = i + 1 /\ m <= N
        OBVIOUS
      <4>2. r[m] \in Both /\ r[m + 1] = SaidFrom(spec, argv, N - m, r[m])
        BY <1>2, <1>3, <4>1
      <4>3. N - m \in 1 .. Len(argv)
        BY <4>1
      <4>. PICK both \in Both : both = r[m]
        BY <4>2
      <4>. PICK at \in 1 .. Len(argv) : at = N - m
        BY <4>3
      <4>7. SaidFrom(spec, argv, at, both)[2] = both[1]
        BY SaidFromIs
      <4>4. r[m + 1][2] = r[m][1]
        BY <4>2, <4>7
      <4>5. i + 1 \in Nat \ {0} /\ i + 1 <= N /\ (i + 1) + 1 = i + 2 /\ N - (i + 1) = m
        BY <2>1, <3>2, <4>1
      <4>6. r[m][1] = Reading(spec, argv, (i + 1) + 1)
        BY <1>7, <4>5
      <4>. QED
        BY <4>1, <4>4, <4>5, <4>6
    <3>. QED
      BY <3>1, <3>2
  <2>. QED
    BY <2>1
<1>9. CASE index > N
  <2>1. Reading(spec, argv, index) = none
    BY <1>5, <1>9
  <2>2. none \in Seq(Answers)
    <3>. PICK A : A = Answers
      OBVIOUS
    <3>1. NoMore \in A
      BY NoMoreIs
    <3>. QED
      BY <3>1, OneOrNone
  <2>. QED
    BY <1>9, <2>1, <2>2
<1>10. CASE ~(index > N)
  <2>0. N - index \in Nat
    BY <1>10
  <2>. PICK n \in Nat : n = N - index
    BY <2>0
  <2>1. n < N /\ n <= N /\ n + 1 = N + 1 - index /\ n + 1 <= N /\ N - n = index
    OBVIOUS
  <2>2. r[n] \in Both /\ r[n + 1] \in Both /\ r[n + 1] = SaidFrom(spec, argv, index, r[n])
    BY <1>2, <1>3, <2>1
  <2>3. Reading(spec, argv, index) = r[n + 1][1]
    BY <1>6, <1>10, <2>1
  <2>4. index \in 1 .. Len(argv)
    BY <1>10
  <2>5. r[n][1] = Reading(spec, argv, index + 1) /\ r[n][2] = Reading(spec, argv, index + 2)
    BY <1>7, <1>8, <1>10, <2>1
  <2>. PICK next : next = Reading(spec, argv, NextWord(spec, argv, index))
    OBVIOUS
  <2>6. /\ TakesNext(spec, argv, index) => next = r[n][2]
        /\ ~TakesNext(spec, argv, index) => next = r[n][1]
    BY <2>5 DEF NextWord
  <2>. PICK both \in Both : both = r[n]
    BY <2>2
  <2>7. /\ TakesNext(spec, argv, index) =>
             SaidFrom(spec, argv, index, both)[1] = Says(spec, argv, index, both[2])
        /\ ~TakesNext(spec, argv, index) =>
             SaidFrom(spec, argv, index, both)[1] = Says(spec, argv, index, both[1])
    BY <2>4, SaidFromIs
  <2>8. Reading(spec, argv, index) = Says(spec, argv, index, next)
    BY <2>2, <2>3, <2>6, <2>7
  <2>9. Reading(spec, argv, index) \in Seq(Answers)
    BY <2>2, <2>3 DEF Both
  <2>. QED
    BY <1>10, <2>8, <2>9
<1>. QED
  BY <1>9, <1>10

(***************************************************************************)
(* One call.  What is left to say where it begins is its answer and then   *)
(* what is left where it ends, unless it says that there is no more.       *)
(***************************************************************************)
LEMMA LeftAtAWord ==
  ASSUME NEW spec, NEW argv \in Seq(Seq(Characters)), NEW index \in Nat \ {0}
  PROVE  /\ LeftToSay(spec, argv, index, 1) = Reading(spec, argv, index)
         /\ WithinWord(spec, argv, index, 1)
<1>1. WithinWord(spec, argv, index, 1)
  BY DEF WithinWord
<1>0. \/ index > Len(argv)
      \/ index <= Len(argv) /\ ~IsOption(argv[index])
      \/ index <= Len(argv) /\ IsOption(argv[index])
  OBVIOUS
<1>2. CASE index > Len(argv)
  <2>1. Reading(spec, argv, index) = <<NoMore>>
    BY <1>2, ReadingIs
  <2>2. LeftToSay(spec, argv, index, 1) = <<NoMore>>
    BY Zenon, <1>2 DEF LeftToSay
  <2>. QED
    BY <1>1, <2>1, <2>2
<1>3. CASE index <= Len(argv) /\ ~IsOption(argv[index])
  <2>1. Reading(spec, argv, index) = Says(spec, argv, index, Reading(spec, argv, NextWord(spec, argv, index)))
    BY <1>3, ReadingIs
  <2>2. LeftToSay(spec, argv, index, 1) = <<NoMore>>
    BY Zenon, <1>3 DEF LeftToSay
  <2>3. Reading(spec, argv, index) = <<NoMore>>
    BY Zenon, <1>3, <2>1 DEF Says
  <2>. QED
    BY <1>1, <2>2, <2>3
<1>4. CASE index <= Len(argv) /\ IsOption(argv[index])
  <2>1. index \in 1 .. Len(argv)
    BY <1>4
  <2>2. argv[index] \in Seq(Characters) /\ Len(argv[index]) > 1 /\ Flags(spec, argv[index]) \in Seq(Answers)
    BY <1>4, <2>1, OptionIs
  <2>. PICK flags \in Seq(Answers) : flags = Flags(spec, argv[index])
    BY <2>2
  <2>3. Len(flags) = FirstTaking(spec, argv[index]) - 2
    BY <2>2, FlagsAre
  <2>4. SubSeq(flags, 1, Len(flags)) = flags
    BY SubSeqFull
  <2>5. LeftToSay(spec, argv, index, 1)
          = flags \o Option(spec, argv, index) \o Reading(spec, argv, NextWord(spec, argv, index))
    <3>. PICK last : last = FirstTaking(spec, argv[index]) - 2
      OBVIOUS
    <3>1. SubSeq(flags, 1, last) = flags
      BY <2>3, <2>4
    <3>2. ~(index > Len(argv))
      BY <1>4
    <3>3. LeftToSay(spec, argv, index, 1)
            = SubSeq(Flags(spec, argv[index]), 1, last)
                \o Option(spec, argv, index) \o Reading(spec, argv, NextWord(spec, argv, index))
      BY Zenon, <1>4, <3>2 DEF LeftToSay
    <3>. QED
      BY <3>1, <3>3
  <2>6. Reading(spec, argv, index) = Says(spec, argv, index, Reading(spec, argv, NextWord(spec, argv, index)))
    BY <1>4, ReadingIs
  <2>7. Reading(spec, argv, index)
          = flags \o Option(spec, argv, index) \o Reading(spec, argv, NextWord(spec, argv, index))
    BY Zenon, <1>4, <2>6 DEF Says
  <2>. QED
    BY <1>1, <2>5, <2>7
<1>. QED
  BY <1>0, <1>2, <1>3, <1>4

(* The call comes to an option's letter, or there is no option to read.    *)
AnswersNext(spec, argv, index, char, next) ==
  /\ next.answer \in Answers
  /\ next.index \in Nat \ {0}
  /\ next.char \in Nat \ {0}
  /\ next.answer.ok =>
       /\ LeftToSay(spec, argv, index, char)
            = <<next.answer>> \o LeftToSay(spec, argv, next.index, next.char)
       /\ LeftToSay(spec, argv, next.index, next.char) \in Seq(Answers)
       /\ WithinWord(spec, argv, next.index, next.char)
  /\ ~next.answer.ok =>
       next.answer = NoMore /\ LeftToSay(spec, argv, index, char) = <<NoMore>>

LEMMA ReadsIs ==
  ASSUME NEW value \in Characters, NEW optarg \in Seq(Seq(Characters)), NEW index, NEW char
  PROVE  LET next == Reads(value, optarg, index, char)
         IN /\ next.answer = Answer(value, optarg, TRUE) /\ next.answer \in Answers /\ next.answer.ok
            /\ next.index = index /\ next.char = char
<1>1. Answer(value, optarg, TRUE) \in Answers /\ Answer(value, optarg, TRUE).ok
  BY AnswerIs
<1>. QED
  BY <1>1 DEF Reads

LEMMA StopAnswers ==
  ASSUME NEW spec, NEW argv, NEW index, NEW char,
         NEW i \in Nat \ {0}, NEW c \in Nat \ {0},
         index > Len(argv) \/ ~IsOption(argv[index])
  PROVE  AnswersNext(spec, argv, index, char, Stops(i, c))
<1>1. LeftToSay(spec, argv, index, char) = <<NoMore>>
  BY DEF LeftToSay
<1>. PICK next : next = Stops(i, c)
  OBVIOUS
<1>2. next.answer = NoMore /\ next.index = i /\ next.char = c
  BY DEF Stops
<1>3. NoMore \in Answers /\ ~NoMore.ok
  BY NoMoreIs
<1>. QED
  BY <1>1, <1>2, <1>3 DEF AnswersNext

LEMMA WordLeftIs ==
  ASSUME NEW spec, NEW argv \in Seq(Seq(Characters)), NEW index \in 1 .. Len(argv),
         IsOption(argv[index]), NEW char
  PROVE  LeftToSay(spec, argv, index, char)
           = SubSeq(Flags(spec, argv[index]), char, FirstTaking(spec, argv[index]) - 2)
               \o Option(spec, argv, index) \o Reading(spec, argv, NextWord(spec, argv, index))
<1>1. ~(index > Len(argv))
  OBVIOUS
<1>. QED
  BY Zenon, <1>1 DEF LeftToSay

LEMMA NextWordIs ==
  ASSUME NEW spec, NEW argv \in Seq(Seq(Characters)), NEW index \in 1 .. Len(argv)
  PROVE  /\ NextWord(spec, argv, index) \in Nat \ {0}
         /\ LeftToSay(spec, argv, NextWord(spec, argv, index), 1) = Reading(spec, argv, NextWord(spec, argv, index))
         /\ LeftToSay(spec, argv, NextWord(spec, argv, index), 1) \in Seq(Answers)
         /\ WithinWord(spec, argv, NextWord(spec, argv, index), 1)
<1>1. NextWord(spec, argv, index) \in Nat \ {0}
  BY DEF NextWord
<1>. PICK n \in Nat \ {0} : n = NextWord(spec, argv, index)
  BY <1>1
<1>2. Reading(spec, argv, n) \in Seq(Answers)
  BY ReadingIs
<1>3. LeftToSay(spec, argv, n, 1) = Reading(spec, argv, n) /\ WithinWord(spec, argv, n, 1)
  BY LeftAtAWord
<1>. QED
  BY <1>1, <1>2, <1>3

Came(next, said, index, char) == next.answer = said /\ next.index = index /\ next.char = char

LEMMA ReadsCame ==
  ASSUME NEW value, NEW optarg, NEW index, NEW char
  PROVE  Came(Reads(value, optarg, index, char), Answer(value, optarg, TRUE), index, char)
  BY DEF Reads, Came

(* The letter that takes an argument: the rest of the word or the next one. *)
LEMMA TakingAnswers ==
  ASSUME NEW spec, NEW argv \in Seq(Seq(Characters)), NEW index \in 1 .. Len(argv),
         IsOption(argv[index]), NEW at \in Nat \ {0}, at < Len(argv[index]),
         at + 1 = FirstTaking(spec, argv[index])
  PROVE  AnswersNext(spec, argv, index, at, ReadAt(spec, argv, index, at))
<1>1. argv[index] \in Seq(Characters) /\ Len(argv[index]) > 1 /\ Flags(spec, argv[index]) \in Seq(Answers)
  BY OptionIs
<1>. PICK word \in Seq(Characters) : word = argv[index]
  BY <1>1
<1>. PICK n \in Nat : n = Len(word)
  OBVIOUS
<1>. PICK k \in 1 .. Len(word) : k = at + 1
  OBVIOUS
<1>2. word[k] \in Characters /\ word[k] \in spec.takes
  <2>1. k = FirstTaking(spec, word) /\ k <= Len(word)
    OBVIOUS
  <2>. QED
    BY <1>1, <2>1, FirstTakingIs
<1>. PICK c \in Characters : c = word[k]
  BY <1>2
<1>. PICK next : next = ReadAt(spec, argv, index, at)
  OBVIOUS
<1>0. \A j \in Nat : SubSeq(word, j + 1, n) \in Seq(Characters) /\ (j < n <=> Len(SubSeq(word, j + 1, n)) # 0)
  OBVIOUS
<1>. PICK rest : rest = SubSeq(word, k + 1, n)
  OBVIOUS
<1>9. k \in Nat
  OBVIOUS
<1>10. rest \in Seq(Characters)
  BY <1>0, <1>9
<1>11. k < n <=> Len(rest) # 0
  BY <1>0, <1>9
<1>3. rest = SubSeq(word, at + 2, Len(word)) /\ (rest # <<>> <=> k < n)
  <2>1. k + 1 = at + 2
    OBVIOUS
  <2>2. Len(rest) # 0 <=> rest # <<>>
    BY <1>10, EmptyIs
  <2>. QED
    BY <1>11, <2>1, <2>2
<1>4. next = resolve_option_argument(spec, argv, c, index, at)
  BY <1>2 DEF ReadAt, ReadLetter
<1>5. Came(next, Argument(spec, argv, index, word, k), NextWord(spec, argv, index), 1)
  <2>1. TakesNext(spec, argv, index) <=> index < Len(argv) /\ k = n
    BY DEF TakesNext
  <2>2. CASE k < n
    <3>1. next = Reads(c, <<rest>>, index + 1, 1)
      BY <1>3, <1>4, <2>2 DEF resolve_option_argument
    <3>2. Argument(spec, argv, index, word, k) = Answer(c, <<rest>>, TRUE)
      BY <2>2 DEF Argument
    <3>3. NextWord(spec, argv, index) = index + 1
      BY <2>1, <2>2 DEF NextWord
    <3>. QED
      BY <3>1, <3>2, <3>3, ReadsCame
  <2>3. CASE ~(k < n) /\ index < Len(argv)
    <3>1. next = Reads(c, <<argv[index + 1]>>, index + 2, 1)
      BY <1>3, <1>4, <2>3 DEF resolve_option_argument
    <3>2. Argument(spec, argv, index, word, k) = Answer(c, <<argv[index + 1]>>, TRUE)
      BY <2>3 DEF Argument
    <3>3. NextWord(spec, argv, index) = index + 2
      BY <2>1, <2>3 DEF NextWord
    <3>. QED
      BY <3>1, <3>2, <3>3, ReadsCame
  <2>4. CASE ~(k < n) /\ ~(index < Len(argv))
    <3>1. next = IF spec.silent THEN Reads(":", <<<<c>>>>, index + 1, 1)
                 ELSE Reads("?", NoArgument, index + 1, 1)
      BY <1>3, <1>4, <2>4 DEF resolve_option_argument
    <3>2. Argument(spec, argv, index, word, k)
            = IF spec.silent THEN Answer(":", <<<<c>>>>, TRUE) ELSE Answer("?", NoArgument, TRUE)
      BY <2>4 DEF Argument
    <3>3. NextWord(spec, argv, index) = index + 1
      BY <2>1, <2>4 DEF NextWord
    <3>4. CASE spec.silent
      BY <3>1, <3>2, <3>3, <3>4, ReadsCame
    <3>5. CASE ~spec.silent
      BY <3>1, <3>2, <3>3, <3>5, ReadsCame
    <3>. QED
      BY <3>4, <3>5
  <2>. QED
    BY <2>2, <2>3, <2>4
<1>12. /\ next.answer = Argument(spec, argv, index, word, k)
       /\ next.index = NextWord(spec, argv, index)
       /\ next.char = 1
  BY <1>5 DEF Came
<1>6. next.answer \in Answers /\ next.answer.ok
  BY <1>12, ArgumentIs
<1>. PICK a \in Answers : a = next.answer
  BY <1>6
<1>. PICK rests : rests = Reading(spec, argv, NextWord(spec, argv, index))
  OBVIOUS
<1>7. LeftToSay(spec, argv, index, at) = <<a>> \o rests
  <2>. PICK flags \in Seq(Answers) : flags = Flags(spec, word)
    BY <1>1
  <2>1. SubSeq(flags, at, k - 2) = <<>>
    <3>1. ~(at <= k - 2)
      OBVIOUS
    <3>. QED
      BY <3>1
  <2>2. Option(spec, argv, index) = <<a>>
    <3>1. Taken(spec, argv, index, word, k) = <<a>>
      BY <1>12 DEF Taken
    <3>. QED
      BY <3>1 DEF Option
  <2>3. LeftToSay(spec, argv, index, at) = SubSeq(flags, at, k - 2) \o Option(spec, argv, index) \o rests
    BY WordLeftIs
  <2>4. <<>> \o <<a>> = <<a>>
    OBVIOUS
  <2>. QED
    BY <2>1, <2>2, <2>3, <2>4
<1>8. /\ NextWord(spec, argv, index) \in Nat \ {0}
      /\ LeftToSay(spec, argv, next.index, next.char) = rests
      /\ LeftToSay(spec, argv, next.index, next.char) \in Seq(Answers)
      /\ WithinWord(spec, argv, next.index, next.char)
  BY <1>12, NextWordIs
<1>. QED
  BY <1>12, <1>6, <1>7, <1>8 DEF AnswersNext

(* A letter that takes none, known or not.                                 *)
LEMMA FlagAnswers ==
  ASSUME NEW spec, NEW argv \in Seq(Seq(Characters)), NEW index \in 1 .. Len(argv),
         IsOption(argv[index]), NEW at \in Nat \ {0}, at < Len(argv[index]),
         at + 1 < FirstTaking(spec, argv[index])
  PROVE  AnswersNext(spec, argv, index, at, ReadAt(spec, argv, index, at))
<1>1. argv[index] \in Seq(Characters) /\ Len(argv[index]) > 1 /\ Flags(spec, argv[index]) \in Seq(Answers)
  BY OptionIs
<1>. PICK word \in Seq(Characters) : word = argv[index]
  BY <1>1
<1>. PICK n \in Nat : n = Len(word)
  OBVIOUS
<1>2. /\ FirstTaking(spec, word) \in 2 .. n + 1
      /\ \A i \in 2 .. n : i < FirstTaking(spec, word) => word[i] \notin spec.takes
  BY <1>1, FirstTakingIs
<1>. PICK k \in 2 .. n + 1 : k = FirstTaking(spec, word)
  BY <1>2
<1>3. at + 1 \in 2 .. n /\ at + 1 \in 1 .. n /\ at + 1 < k /\ at \in 1 .. k - 2
  OBVIOUS
<1>4. word[at + 1] \in Characters /\ word[at + 1] \notin spec.takes
  BY <1>2, <1>3
<1>. PICK c \in Characters : c = word[at + 1]
  BY <1>4
<1>. PICK a : a = Flag(spec, c)
  OBVIOUS
<1>5. a \in Answers /\ a.ok
  BY FlagIs
<1>. PICK next : next = ReadAt(spec, argv, index, at)
  OBVIOUS
<1>6. /\ at = n - 1 => Came(next, a, index + 1, 1)
      /\ at # n - 1 => Came(next, a, index, at + 1)
  <2>. PICK value, optarg : /\ a = Answer(value, optarg, TRUE)
                            /\ next = Goes(value, optarg, index, at, word)
    <3>1. CASE c \in spec.letters
      <4>1. a = Answer(c, NoArgument, TRUE)
        BY <3>1 DEF Flag
      <4>2. next = Goes(c, NoArgument, index, at, word)
        BY <1>4, <3>1 DEF ReadAt, ReadLetter
      <4>. QED
        BY <4>1, <4>2
    <3>2. CASE c \notin spec.letters
      <4>. PICK optarg : optarg = report_unknown_option(spec, c)
        OBVIOUS
      <4>1. a = Answer("?", optarg, TRUE)
        BY <3>2 DEF Flag, report_unknown_option
      <4>2. next = Goes("?", optarg, index, at, word)
        BY <1>4, <3>2 DEF ReadAt, ReadLetter
      <4>. QED
        BY <4>1, <4>2
    <3>. QED
      BY <3>1, <3>2
  <2>1. CASE at = n - 1
    <3>1. next = Reads(value, optarg, index + 1, 1)
      BY <2>1 DEF Goes
    <3>. QED
      BY <2>1, <3>1, ReadsCame
  <2>2. CASE at # n - 1
    <3>1. next = Reads(value, optarg, index, at + 1)
      BY <2>2 DEF Goes
    <3>. QED
      BY <2>2, <3>1, ReadsCame
  <2>. QED
    BY <2>1, <2>2
<1>. PICK flags \in Seq(Answers) : flags = Flags(spec, word)
  BY <1>1
<1>7. Len(flags) = k - 2 /\ flags[at] = a
  <2>1. Len(flags) = k - 2 /\ \A i \in 1 .. k - 2 : flags[i] = Flag(spec, word[i + 1])
    BY <1>1, FlagsAre
  <2>. QED
    BY <1>3, <2>1
<1>. PICK option \in Seq(Answers) : option = Option(spec, argv, index)
  BY OptionIs
<1>. PICK rests \in Seq(Answers) : rests = Reading(spec, argv, NextWord(spec, argv, index))
  <2>1. NextWord(spec, argv, index) \in Nat \ {0}
    BY NextWordIs
  <2>. QED
    BY <2>1, ReadingIs
<1>8. \A char : LeftToSay(spec, argv, index, char) = SubSeq(flags, char, k - 2) \o option \o rests
  BY WordLeftIs
<1>. PICK more : more = SubSeq(flags, at + 1, k - 2)
  OBVIOUS
<1>13. at \in 1 .. Len(flags) /\ k - 2 = Len(flags)
  BY <1>3, <1>7
<1>14. SplitAt(flags, at, option, rests)
  BY <1>13, SubSeqFromThen
<1>9. more \o option \o rests \in Seq(Answers)
  <2>1. SubSeq(flags, at + 1, Len(flags)) \o option \o rests \in Seq(Answers)
    BY <1>13, SubSeqFromThen
  <2>. QED
    BY <1>13, <2>1
<1>10. LeftToSay(spec, argv, index, at) = <<a>> \o (more \o option \o rests)
  <2>1. SubSeq(flags, at, k - 2) \o option \o rests = <<a>> \o (more \o option \o rests)
    BY Zenon, <1>7, <1>13, <1>14 DEF SplitAt
  <2>. QED
    BY <1>8, <2>1
<1>11. CASE at = n - 1
  <2>1. Came(next, a, index + 1, 1)
    BY <1>6, <1>11
  <2>2. k = n + 1 /\ at = k - 2
    <3>1. at + 1 < k /\ k <= n + 1 /\ at + 1 = n /\ k \in Nat
      BY <1>11
    <3>2. \A x, y, z \in Nat : x + 1 < y /\ y <= z + 1 /\ x + 1 = z => y = z + 1 /\ x = y - 2
      OBVIOUS
    <3>. QED
      BY <3>1, <3>2
  <2>3. more = <<>>
    <3>1. at = Len(flags)
      BY <1>7, <2>2
    <3>2. at \in 1 .. Len(flags)
      BY <1>3, <1>7
    <3>3. SubSeq(flags, at + 1, Len(flags)) = <<>>
      BY <3>1, <3>2, SubSeqFrom
    <3>. QED
      BY <1>7, <3>3
  <2>4. option = <<>>
    BY <2>2 DEF Option, Taken
  <2>5. NextWord(spec, argv, index) = index + 1
    BY <2>2 DEF NextWord, TakesNext
  <2>6. more \o option \o rests = rests
    BY <2>3, <2>4, NothingMore
  <2>7. /\ index + 1 \in Nat \ {0}
        /\ LeftToSay(spec, argv, index + 1, 1) = rests
        /\ WithinWord(spec, argv, index + 1, 1)
    BY <2>5, NextWordIs
  <2>8. next.answer = a /\ next.index = index + 1 /\ next.char = 1
    BY <2>1 DEF Came
  <2>9. LeftToSay(spec, argv, index, at) = <<a>> \o rests
    BY <1>10, <2>6
  <2>10. 1 \in Nat \ {0}
    OBVIOUS
  <2>. QED
    BY Zenon, <1>5, <2>7, <2>8, <2>9, <2>10 DEF AnswersNext
<1>12. CASE at # n - 1
  <2>1. Came(next, a, index, at + 1)
    BY <1>6, <1>12
  <2>2. next.answer = a /\ next.index = index /\ next.char = at + 1
    BY <2>1 DEF Came
  <2>3. LeftToSay(spec, argv, index, at + 1) = more \o option \o rests
    BY <1>8
  <2>4. more \o option \o rests \in Seq(Answers)
    BY <1>9
  <2>5. at + 1 \in Nat \ {0} /\ index \in Nat \ {0} /\ at + 1 < n /\ (at + 1) + 1 <= k
    <3>1. at + 1 < k /\ k \in Nat /\ at < n /\ at # n - 1
      BY <1>3, <1>12
    <3>2. \A x, z \in Nat : x < z /\ x # z - 1 => x + 1 < z
      OBVIOUS
    <3>8. \A x, y \in Nat : x + 1 < y => (x + 1) + 1 <= y
      OBVIOUS
    <3>3. index \in Nat \ {0}
      OBVIOUS
    <3>4. \A x \in Nat : x + 1 \in Nat \ {0}
      OBVIOUS
    <3>5. at + 1 \in Nat \ {0}
      BY <3>4
    <3>6. at + 1 < n
      BY <3>1, <3>2
    <3>7. (at + 1) + 1 <= k
      BY <3>1, <3>8
    <3>. QED
      BY <3>3, <3>5, <3>6, <3>7
  <2>6. WithinWord(spec, argv, index, at + 1)
    BY <2>5 DEF WithinWord
  <2>. QED
    BY <1>5, <1>10, <2>2, <2>3, <2>4, <2>5, <2>6 DEF AnswersNext
<1>. QED
  BY <1>11, <1>12

LEMMA CallAnswers ==
  ASSUME NEW spec, NEW argv \in Seq(Seq(Characters)), NEW index \in Nat \ {0}, NEW char \in Nat \ {0},
         WithinWord(spec, argv, index, char)
  PROVE  AnswersNext(spec, argv, index, char, parse_next_option(spec, argv, index, char))
<1>. PICK next : next = parse_next_option(spec, argv, index, char)
  OBVIOUS
<1>1. CASE index > Len(argv)
  <2>1. next = Stops(Len(argv) + 1, char)
    BY <1>1 DEF parse_next_option
  <2>2. Len(argv) + 1 \in Nat \ {0}
    OBVIOUS
  <2>. QED
    BY <1>1, <2>1, <2>2, StopAnswers
<1>2. CASE ~(index > Len(argv)) /\ ~IsOption(argv[index])
  <2>. PICK i : i = IF argv[index] = <<"-", "-">> THEN index + 1 ELSE index
    OBVIOUS
  <2>1. i \in Nat \ {0}
    OBVIOUS
  <2>2. next = Stops(i, char)
    BY <1>2 DEF parse_next_option
  <2>. QED
    BY <1>2, <2>1, <2>2, StopAnswers
<1>3. CASE ~(index > Len(argv)) /\ IsOption(argv[index])
  <2>1. index \in 1 .. Len(argv)
    BY <1>3
  <2>2. argv[index] \in Seq(Characters) /\ Len(argv[index]) > 1
    BY <1>3, <2>1, OptionIs
  <2>. PICK word \in Seq(Characters) : word = argv[index]
    BY <2>2
  <2>3. FirstTaking(spec, word) \in 2 .. Len(word) + 1
    BY <2>2, FirstTakingIs
  <2>4. char = 1 \/ (char < Len(word) /\ char + 1 <= FirstTaking(spec, word))
    <3>1. index <= Len(argv)
      BY <1>3
    <3>. QED
      BY <1>3, <3>1 DEF WithinWord
  <2>5. char < Len(word) /\ char + 1 <= FirstTaking(spec, word)
    BY <2>2, <2>3, <2>4
  <2>6. next = ReadAt(spec, argv, index, char)
    <3>1. CharAt(word, char) = char
      BY <2>5 DEF CharAt
    <3>. QED
      BY <1>3, <3>1 DEF parse_next_option
  <2>7. CASE char + 1 = FirstTaking(spec, word)
    BY <1>3, <2>1, <2>5, <2>6, <2>7, TakingAnswers
  <2>8. CASE char + 1 # FirstTaking(spec, word)
    <3>2. \A x, y \in Nat : x + 1 <= y /\ x + 1 # y => x + 1 < y
      OBVIOUS
    <3>3. FirstTaking(spec, word) \in Nat /\ char \in Nat
      BY <2>3
    <3>1. char + 1 < FirstTaking(spec, word)
      BY <2>5, <2>8, <3>2, <3>3
    <3>. QED
      BY <1>3, <2>1, <2>5, <2>6, <3>1, FlagAnswers
  <2>. QED
    BY <2>7, <2>8
<1>. QED
  BY <1>1, <1>2, <1>3

(***************************************************************************)
(* A reading that begins, and one that goes on.                            *)
(***************************************************************************)
LEMMA PrefixIs ==
  ASSUME NEW S, NEW s \in Seq(S), NEW t \in Seq(S)
  PROVE  IsPrefix(s, s \o t)
<1>1. s \o t \in Seq(S) /\ Len(s \o t) = Len(s) + Len(t)
  BY ConcatProperties
<1>2. Len(s) <= Len(s \o t)
  BY <1>1
<1>3. SubSeq(s \o t, 1, Len(s)) = SubSeq(s, 1, Len(s))
  <2>1. CASE Len(s) = 0
    <3>1. SubSeq(s \o t, 1, Len(s)) = <<>> /\ SubSeq(s, 1, Len(s)) = <<>>
      BY <1>1, <2>1
    <3>. QED
      BY <3>1
  <2>2. CASE Len(s) # 0
    <3>1. 1 \in 1 .. Len(s) + 1 /\ Len(s) \in 1 .. Len(s)
      BY <2>2
    <3>. QED
      BY <3>1, SubSeqOfConcat1
  <2>. QED
    BY <2>1, <2>2
<1>. QED
  BY <1>2, <1>3 DEF IsPrefix

LEMMA GoesOn ==
  ASSUME NEW spec, NEW argv, NEW from, NEW said \in Seq(Answers), NEW index, NEW char,
         NEW next, Reached(spec, argv, from, said, index, char),
         AnswersNext(spec, argv, index, char, next)
  PROVE  /\ IsPrefix(Append(said, next.answer), Reading(spec, argv, from))
         /\ next.answer.ok =>
              Reached(spec, argv, from, Append(said, next.answer), next.index, next.char)
<1>. PICK S : S = Answers
  OBVIOUS
<1>. PICK a \in Answers : a = next.answer
  BY DEF AnswersNext
<1>. PICK one : one = <<a>>
  OBVIOUS
<1>. PICK more : more = Append(said, a)
  OBVIOUS
<1>1. one \in Seq(S) /\ said \in Seq(S) /\ more \in Seq(S)
  OBVIOUS
<1>2. more = said \o one
  BY AppendIsConcat
<1>. PICK whole : whole = Reading(spec, argv, from)
  OBVIOUS
<1>3. whole = said \o LeftToSay(spec, argv, index, char)
  BY DEF Reached
<1>4. CASE a.ok
  <2>. PICK left : left = LeftToSay(spec, argv, next.index, next.char)
    OBVIOUS
  <2>1. left \in Seq(S) /\ LeftToSay(spec, argv, index, char) = one \o left
    BY <1>4 DEF AnswersNext
  <2>2. said \o (one \o left) = (said \o one) \o left
    BY <1>1, <2>1, ConcatAssociative
  <2>3. whole = more \o left
    BY <1>2, <1>3, <2>1, <2>2
  <2>4. IsPrefix(more, whole)
    BY <1>1, <2>1, <2>3, PrefixIs
  <2>5. next.index \in Nat \ {0} /\ WithinWord(spec, argv, next.index, next.char)
    BY <1>4 DEF AnswersNext
  <2>6. Reached(spec, argv, from, more, next.index, next.char)
    BY <2>3, <2>5 DEF Reached
  <2>. QED
    BY <2>4, <2>6
<1>5. CASE ~a.ok
  <2>1. LeftToSay(spec, argv, index, char) = one
    BY <1>5 DEF AnswersNext
  <2>2. whole = more
    BY <1>2, <1>3, <2>1
  <2>3. more \o <<>> = more /\ <<>> \in Seq(S)
    BY <1>1, ConcatEmptySeq
  <2>4. IsPrefix(more, more \o <<>>)
    BY <1>1, <2>3, PrefixIs
  <2>. QED
    BY <1>5, <2>2, <2>3, <2>4
<1>. QED
  BY <1>4, <1>5

LEMMA Begins ==
  ASSUME NEW spec, NEW argv \in Seq(Seq(Characters)), NEW index \in Nat \ {0}
  PROVE  Reached(spec, argv, index, <<>>, index, 1)
<1>1. Reading(spec, argv, index) \in Seq(Answers)
  BY ReadingIs
<1>2. LeftToSay(spec, argv, index, 1) = Reading(spec, argv, index) /\ WithinWord(spec, argv, index, 1)
  BY LeftAtAWord
<1>3. <<>> \o Reading(spec, argv, index) = Reading(spec, argv, index)
  BY <1>1, ConcatEmptySeq
<1>. QED
  BY <1>2, <1>3 DEF Reached

(* Wherever a call begins, also in a word that has been replaced.          *)
LEMMA CallGoes ==
  ASSUME NEW spec, NEW argv \in Seq(Seq(Characters)), NEW index \in Nat \ {0}, NEW char \in Nat \ {0}
  PROVE  /\ parse_next_option(spec, argv, index, char).index \in Nat \ {0}
         /\ parse_next_option(spec, argv, index, char).char \in Nat \ {0}
<1>. PICK next : next = parse_next_option(spec, argv, index, char)
  OBVIOUS
<1>1. CASE index > Len(argv)
  <2>1. next = Stops(Len(argv) + 1, char)
    BY <1>1 DEF parse_next_option
  <2>. QED
    BY <2>1 DEF Stops
<1>2. CASE ~(index > Len(argv)) /\ ~IsOption(argv[index])
  <2>. PICK i : i = IF argv[index] = <<"-", "-">> THEN index + 1 ELSE index
    OBVIOUS
  <2>1. i \in Nat \ {0}
    OBVIOUS
  <2>2. next = Stops(i, char)
    BY <1>2 DEF parse_next_option
  <2>. QED
    BY <2>1, <2>2 DEF Stops
<1>3. CASE ~(index > Len(argv)) /\ IsOption(argv[index])
  <2>. PICK at : at = CharAt(argv[index], char)
    OBVIOUS
  <2>1. at \in Nat \ {0}
    BY DEF CharAt
  <2>. PICK c : c = argv[index][at + 1]
    OBVIOUS
  <2>2. next = ReadLetter(spec, argv, index, at, c)
    BY <1>3 DEF parse_next_option, ReadAt
  <2>3. ASSUME NEW v, NEW o
        PROVE  /\ Goes(v, o, index, at, argv[index]).index \in Nat \ {0}
               /\ Goes(v, o, index, at, argv[index]).char \in Nat \ {0}
    BY <2>1 DEF Goes, Reads
  <2>4. /\ resolve_option_argument(spec, argv, c, index, at).index \in Nat \ {0}
        /\ resolve_option_argument(spec, argv, c, index, at).char \in Nat \ {0}
    <3>1. ASSUME NEW v, NEW o, NEW i \in Nat \ {0}
          PROVE  Reads(v, o, i, 1).index \in Nat \ {0} /\ Reads(v, o, i, 1).char \in Nat \ {0}
      BY DEF Reads
    <3>2. index + 1 \in Nat \ {0} /\ index + 2 \in Nat \ {0}
      OBVIOUS
    <3>. PICK rest : rest = SubSeq(argv[index], at + 2, Len(argv[index]))
      OBVIOUS
    <3>3. CASE rest # <<>>
      BY <3>1, <3>2, <3>3 DEF resolve_option_argument
    <3>4. CASE rest = <<>> /\ index < Len(argv)
      BY <3>1, <3>2, <3>4 DEF resolve_option_argument
    <3>5. CASE rest = <<>> /\ ~(index < Len(argv))
      BY <3>1, <3>2, <3>5 DEF resolve_option_argument
    <3>. QED
      BY <3>3, <3>4, <3>5
  <2>. QED
    BY <2>2, <2>3, <2>4 DEF ReadLetter
<1>. QED
  BY <1>1, <1>2, <1>3

LEMMA IndexIs ==
  ASSUME NEW n \in Int
  PROVE  Max({1, n}) \in Nat \ {0} /\ (n \in Nat \ {0} => Max({1, n}) = n)
<1>. DEFINE m == IF n >= 1 THEN n ELSE 1
<1>1. m \in {1, n} /\ \A x \in {1, n} : m >= x
  OBVIOUS
<1>2. PICK k : k = Max({1, n})
  OBVIOUS
<1>3. k \in {1, n} /\ \A x \in {1, n} : k >= x
  BY <1>1, <1>2 DEF Max
<1>4. k = m
  BY <1>1, <1>3
<1>. QED
  BY <1>2, <1>4

(***************************************************************************)
(* The invariant of the steps.                                             *)
(***************************************************************************)
LEMMA Started ==
  ASSUME GetoptsInit
  PROVE  GetoptsInv
<1>1. GetoptsTypes
  BY DEF GetoptsInit, GetoptsTypes
<1>. QED
  BY <1>1 DEF GetoptsInit, GetoptsInv, OnItsWay, SaysWhatIsThere

LEMMA ExecuteKeeps ==
  ASSUME GetoptsInv, Execute
  PROVE  GetoptsInv'
<1>. PICK spec : spec = parse_option_spec(options)
  OBVIOUS
<1>1. GetoptsTypes /\ args \in Seq(Seq(Characters))
  BY GetoptsAssumption DEF GetoptsInv, GetoptsTypes
<1>. PICK index : index = Max({1, OPTIND})
  OBVIOUS
<1>. PICK char : char = Resumes
  OBVIOUS
<1>. PICK next : next = parse_next_option(spec, args, index, char)
  OBVIOUS
<1>2. /\ update_variables(next)
      /\ Follows(index)
      /\ options' = options /\ args' = args
  BY DEF Execute
<1>3. index \in Nat \ {0} /\ (OPTIND \in Nat \ {0} => index = OPTIND)
  BY <1>1, IndexIs DEF GetoptsTypes
<1>4. char \in Nat \ {0} /\ (Noticed => char = 1) /\ (~Noticed => char = next_char)
  BY <1>1 DEF Resumes, GetoptsTypes
<1>5. next.index \in Nat \ {0} /\ next.char \in Nat \ {0}
  BY <1>1, <1>3, <1>4, CallGoes
<1>6. answer' = next.answer /\ OPTIND' = next.index /\ last_optind' = next.index /\ next_char' = next.char
  BY <1>2 DEF update_variables
<1>7. spec = parse_option_spec(options')
  BY <1>2
<1>8. args' \in ArgumentLists /\ OPTIND' \in Int /\ next_char' \in Nat \ {0} /\ last_optind' \in Int
  BY <1>1, <1>2, <1>5, <1>6 DEF GetoptsTypes
<1>9. CASE start' = 0 /\ read' = <<>>
  <2>1. GetoptsTypes'
    BY <1>8, <1>9 DEF GetoptsTypes
  <2>. QED
    BY <1>9, <2>1 DEF GetoptsInv, OnItsWay, SaysWhatIsThere
<1>10. ASSUME NEW from \in Nat, NEW said \in Seq(Answers),
              Reached(spec, args, from, said, index, char),
              start' = from, read' = Append(said, next.answer)
       PROVE  GetoptsInv'
  <2>1. AnswersNext(spec, args, index, char, next)
    <3>1. WithinWord(spec, args, index, char)
      BY <1>10 DEF Reached
    <3>. QED
      BY <1>1, <1>3, <1>4, <3>1, CallAnswers
  <2>2. /\ IsPrefix(Append(said, next.answer), Reading(spec, args, from))
        /\ next.answer.ok => Reached(spec, args, from, Append(said, next.answer), next.index, next.char)
    BY <1>10, <2>1, GoesOn
  <2>3. next.answer \in Answers
    BY <2>1 DEF AnswersNext
  <2>4. read' \in Seq(Answers) /\ read' # <<>> /\ Last(read') = next.answer
    <3>. PICK a \in Answers : a = next.answer
      BY <2>3
    <3>. PICK more : more = Append(said, a)
      OBVIOUS
    <3>1. more \in Seq(Answers) /\ Len(more) = Len(said) + 1 /\ more[Len(said) + 1] = a
      OBVIOUS
    <3>2. more # <<>>
      BY <3>1, EmptyIs
    <3>3. Last(more) = a
      BY <3>1 DEF Last
    <3>. QED
      BY <1>10, <3>1, <3>2, <3>3
  <2>5. GetoptsTypes'
    BY <1>8, <1>10, <2>4 DEF GetoptsTypes
  <2>6. OnItsWay'
    BY <1>2, <1>6, <1>7, <1>10, <2>2, <2>4 DEF OnItsWay, Over
  <2>7. SaysWhatIsThere(read, args, start)'
    BY <1>2, <1>7, <1>10, <2>2 DEF SaysWhatIsThere
  <2>. QED
    BY <2>5, <2>6, <2>7 DEF GetoptsInv
<1>11. CASE Noticed
  <2>1. start' = index /\ read' = <<answer'>>
    BY <1>2, <1>11 DEF Follows
  <2>2. Reached(spec, args, index, <<>>, index, char)
    BY <1>1, <1>3, <1>4, <1>11, Begins
  <2>3. read' = Append(<<>>, next.answer) /\ <<>> \in Seq(Answers)
    BY <1>6, <2>1
  <2>. QED
    BY <1>3, <1>10, <2>1, <2>2, <2>3
<1>12. CASE ~Noticed /\ (Over \/ start = 0)
  BY <1>2, <1>9, <1>12 DEF Follows
<1>13. CASE ~Noticed /\ ~(Over \/ start = 0)
  <2>1. read' = Append(read, next.answer) /\ start' = start
    BY <1>2, <1>6, <1>13 DEF Follows
  <2>2. Reached(spec, args, start, read, last_optind, next_char)
    BY <1>13 DEF GetoptsInv, OnItsWay
  <2>3. last_optind = index
    BY <1>3, <1>13, <2>2 DEF Reached, Noticed
  <2>4. Reached(spec, args, start, read, index, char)
    BY <1>4, <1>13, <2>2, <2>3
  <2>5. start \in Nat /\ read \in Seq(Answers)
    BY <1>1 DEF GetoptsTypes
  <2>. QED
    BY <1>10, <2>1, <2>4, <2>5
<1>. QED
  BY <1>11, <1>12, <1>13

LEMMA AssignIndexKeeps ==
  ASSUME GetoptsInv, AssignIndex
  PROVE  GetoptsInv'
<1>1. OPTIND' \in Int
  BY GetoptsAssumption DEF AssignIndex
<1>2. UNCHANGED <<options, args, next_char, last_optind, answer, start, read>>
  BY DEF AssignIndex
<1>. QED
  BY <1>1, <1>2 DEF GetoptsInv, GetoptsTypes, OnItsWay, Over, SaysWhatIsThere

LEMMA SetArgumentsKeeps ==
  ASSUME GetoptsInv, SetArguments
  PROVE  GetoptsInv'
<1>1. args' \in ArgumentLists /\ start' = 0 /\ read' = <<>> /\ UNCHANGED <<OPTIND, next_char, last_optind>>
  BY DEF SetArguments
<1>2. GetoptsTypes'
  BY <1>1 DEF GetoptsInv, GetoptsTypes
<1>. QED
  BY <1>1, <1>2 DEF GetoptsInv, OnItsWay, SaysWhatIsThere

(* A reading under way is where the position left last says: what getopts  *)
(* has answered and what the arguments say from there on make up what they *)
(* say from where the reading began.                                       *)
THEOREM GetoptsKnowsWhereItIs == GetoptsSpec => []GetoptsInv
<1>1. GetoptsInit => GetoptsInv
  BY Started
<1>2. GetoptsInv /\ [GetoptsNext]_getopts_vars => GetoptsInv'
  <2>1. ASSUME GetoptsInv, UNCHANGED getopts_vars
        PROVE  GetoptsInv'
    BY <2>1 DEF getopts_vars, GetoptsInv, GetoptsTypes, OnItsWay, Over, SaysWhatIsThere
  <2>. QED
    BY <2>1, ExecuteKeeps, AssignIndexKeeps, SetArgumentsKeeps DEF GetoptsNext
<1>. QED
  BY <1>1, <1>2, PTL DEF GetoptsSpec

(* For any arguments, options strings and assignments to OPTIND, the calls *)
(* of a reading answer what the words say, one after the other.            *)
THEOREM OptionsAlwaysReadInTurn == GetoptsSpec => OptionsReadInTurn
<1>1. ASSUME GetoptsInv, GetoptsInv', [GetoptsNext]_getopts_vars
      PROVE  [SaysWhatIsThere(read', args', start')]_getopts_vars
  <2>1. options' = options
    BY <1>1 DEF GetoptsNext, Execute, AssignIndex, SetArguments, getopts_vars
  <2>2. start' # 0 => IsPrefix(read', Reading(parse_option_spec(options'), args', start'))
    BY <1>1 DEF GetoptsInv, SaysWhatIsThere
  <2>. QED
    BY <2>1, <2>2 DEF SaysWhatIsThere
<1>. QED
  BY <1>1, GetoptsKnowsWhereItIs, PTL DEF GetoptsSpec, OptionsReadInTurn
=============================================================================
