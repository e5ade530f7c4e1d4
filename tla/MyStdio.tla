------------------------------ MODULE MyStdio ------------------------------
(***************************************************************************)
(* The buffered files of mylibc: fopen_, fwrite_, fflush_ and fclose_ of   *)
(* myStdio.c.  fwrite_ copies into the buffer and, depending on the flags, *)
(* hands the buffer to the kernel; fflush_ also waits until the kernel has *)
(* it on the disk.  The process may be killed and the power may fail at    *)
(* any moment, a write of the kernel may take only a part, and of what the *)
(* kernel has only a part may be on the disk.                              *)
(*                                                                         *)
(* A file is a sequence of characters of which only the newline matters.   *)
(* What does not fit the buffer is not written, as the comment in fwrite_  *)
(* asks for ("overflow is not considered").                                *)
(***************************************************************************)
EXTENDS Integers, Sequences, SequencesExt

CONSTANTS
  SIZE,       \* the capacity of the buffer (1024 in the code)
  Flags,      \* the values the program gives to flags; fopen_ sets 2
  Chunks,     \* what the program passes to fwrite_
  Old,        \* the content of the file before fopen_
  MaxWrites   \* bound on the calls of fwrite_ (none in the code)

Characters == {"x", "\n"}

ASSUME StdioAssumption ==
  /\ SIZE \in Nat \ {0} /\ MaxWrites \in Nat
  /\ Flags \subseteq 1 .. 3
  /\ \A chunk \in Chunks : chunk \in Seq(Characters) /\ Len(chunk) > 0
  /\ Old \in Seq(Characters)

VARIABLES
  pc,         \* which call the program is in, "down" when it has ended
  mode,       \* the mode of fopen_
  flags,      \* fp->flags
  buffer,     \* the first fp->size characters of fp->buffer
  file,       \* the file as the kernel shows it
  disk,       \* the file as it is on the disk
  written,    \* what has been passed to fwrite_
  calls,      \* how often fwrite_ has been called
  cut,        \* has a write, or a power failure, kept less than was given?
  flushed,    \* has fflush_ or fclose_ been called?
  safe        \* the file when fsync returned last

stdioVars == <<pc, mode, flags, buffer, file, disk, written, calls, cut, flushed, safe>>

SYNC_NOW == 1
SYNC_LINE == 2
SYNC_FULL == 3

(* The bits of flags, SYNC_FULL being SYNC_NOW and SYNC_LINE together.     *)
Has(bits) == CASE bits = SYNC_NOW -> flags % 2 = 1
               [] bits = SYNC_LINE -> flags \div 2 = 1
               [] bits = SYNC_FULL -> flags # 0

StdioTypeOK ==
  /\ pc \in {"closed", "open", "fsync", "fcloseSync", "close", "down"}
  /\ mode \in {"w", "r", "a"}
  /\ flags \in 1 .. 3
  /\ buffer \in Seq(Characters) /\ Len(buffer) <= SIZE
  /\ file \in Seq(Characters) /\ disk \in Seq(Characters)
  /\ calls \in 0 .. MaxWrites
  /\ cut \in BOOLEAN /\ flushed \in BOOLEAN
  /\ pc \in {"fsync", "fcloseSync", "close"} => buffer = <<>>

StdioInit ==
  /\ pc = "closed"
  /\ mode \in {"w", "r", "a"}
  /\ flags \in Flags
  /\ buffer = <<>>
  /\ file = Old /\ disk = Old
  /\ written = <<>>
  /\ calls = 0
  /\ cut = FALSE /\ flushed = FALSE
  /\ safe = <<>>
-----------------------------------------------------------------------------
(* "w" truncates the file; "r" and every mode fopen_ does not know are     *)
(* read-only.  Where open fails it returns NULL, and the program ends.     *)
fopen_ ==
  /\ pc = "closed"
  /\ \/ pc' = "open" /\ file' = IF mode = "w" THEN <<>> ELSE file
     \/ pc' = "down" /\ UNCHANGED file
  /\ UNCHANGED <<mode, flags, buffer, disk, written, calls, cut, flushed, safe>>

Base == IF mode = "w" THEN <<>> ELSE Old

KeepBuffer(data) ==  \* mutant: size is not set to 0 after the write
  /\ file' = file \o data
  /\ buffer' = data
  /\ UNCHANGED cut

(* write(fileno, buffer, size); size = 0.  The kernel takes all, a part or *)
(* nothing (a full disk, or a file open for reading), and nobody looks at  *)
(* what it returns.                                                        *)
Write(data) ==
  /\ \E n \in IF mode = "r" THEN {0} ELSE 0 .. Len(data) :
       /\ file' = file \o SubSeq(data, 1, n)
       /\ cut' = (cut \/ n < Len(data))
  /\ buffer' = <<>>

Full(data) == Len(data) = SIZE

NewlineAnywhere(data) ==  \* mutant: strchr in place of the last character
  Has(SYNC_NOW) \/ "\n" \in Range(data)

(* When fwrite_ hands the buffer on.                                       *)
Flushes(data) ==
  \/ Has(SYNC_NOW)
  \/ ~Has(SYNC_NOW) /\ Has(SYNC_LINE) /\ Last(data) = "\n"
  \/ ~Has(SYNC_NOW) /\ ~Has(SYNC_LINE) /\ Has(SYNC_FULL) /\ Full(data)

fwrite_ ==
  /\ pc = "open"
  /\ calls < MaxWrites
  /\ calls' = calls + 1
  /\ \E chunk \in Chunks :
       LET data == buffer \o chunk IN
       /\ Len(data) <= SIZE
       /\ written' = written \o chunk
       /\ IF Flushes(data) THEN Write(data)
          ELSE buffer' = data /\ UNCHANGED <<file, cut>>
  /\ UNCHANGED <<pc, mode, flags, disk, flushed, safe>>

(* fflush_, and its call from fclose_: write, then fsync.                  *)
fflush_ ==
  /\ pc = "open"
  /\ pc' \in {"fsync", "fcloseSync"}
  /\ flushed' = TRUE
  /\ Write(buffer)
  /\ UNCHANGED <<mode, flags, disk, written, calls, safe>>

FsyncMissing ==  \* mutant: fsync is left out
  /\ pc \in {"fsync", "fcloseSync"}
  /\ pc' = IF pc = "fsync" THEN "open" ELSE "close"
  /\ safe' = file
  /\ UNCHANGED <<mode, flags, buffer, file, disk, written, calls, cut, flushed>>

fsync ==
  /\ pc \in {"fsync", "fcloseSync"}
  /\ pc' = IF pc = "fsync" THEN "open" ELSE "close"
  /\ disk' = file
  /\ safe' = file
  /\ UNCHANGED <<mode, flags, buffer, file, written, calls, cut, flushed>>

close ==
  /\ pc = "close"
  /\ pc' = "down"
  /\ UNCHANGED <<mode, flags, buffer, file, disk, written, calls, cut, flushed, safe>>

(* The kernel writes what it likes of its pages to the disk, whenever it   *)
(* likes; of a file that only grew nothing goes away again.                *)
Writeback ==
  /\ disk # file
  /\ \E n \in 0 .. Len(file) :
       /\ IsPrefix(disk, file) => Len(disk) <= n
       /\ disk' = SubSeq(file, 1, n)
  /\ UNCHANGED <<pc, mode, flags, buffer, file, written, calls, cut, flushed, safe>>

Killed ==
  /\ pc \notin {"closed", "down"}
  /\ pc' = "down"
  /\ buffer' = <<>>
  /\ UNCHANGED <<mode, flags, file, disk, written, calls, cut, flushed, safe>>

PowerFails ==
  /\ pc # "closed"
  /\ file # disk
  /\ pc' = "down"
  /\ buffer' = <<>>
  /\ file' = disk
  /\ cut' = TRUE
  /\ UNCHANGED <<mode, flags, disk, written, calls, flushed, safe>>

StdioNext ==
  \/ fopen_ \/ fwrite_ \/ fflush_ \/ fsync \/ close
  \/ Writeback \/ Killed \/ PowerFails

StdioSpec == StdioInit /\ [][StdioNext]_stdioVars
-----------------------------------------------------------------------------
(* While the program runs, and unless a write was cut, every character     *)
(* passed to fwrite_ is in the file or still in the buffer, once and in    *)
(* order (myStdio.c:45-91).                                                *)
Accounted ==
  pc \notin {"closed", "down"} /\ ~cut => Base \o written = file \o buffer

(* What fflush_ and fclose_ have returned for stays, whatever fails        *)
(* afterwards (myStdio.c:79-91).                                           *)
Durable == IsPrefix(safe, file) /\ IsPrefix(safe, disk)

(* After a kill a line-buffered file holds whole lines, unless the program *)
(* flushed, or a write or a power failure cut one (myStdio.c:57-65).       *)
WholeLines ==
  flags = SYNC_LINE /\ ~flushed /\ ~cut =>
    file \in {Old, <<>>} \/ Last(file) = "\n"

(* The comment on SYNC_FULL, full buffering (myStdio.h:15): without a      *)
(* flush the kernel is given whole buffers.                                *)
FullBuffering ==
  pc = "open" /\ flags = SYNC_FULL /\ ~flushed /\ ~cut =>
    (Len(file) - Len(Base)) % SIZE = 0
=============================================================================
