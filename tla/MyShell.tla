------------------------------ MODULE MyShell -------------------------------
(***************************************************************************)
(* myshell/myshell.c: a shell that reads a line, runs cd and echo itself,  *)
(* and forks a child for everything else.  Nothing runs in the background: *)
(* the shell waits for the child.                                          *)
(*                                                                         *)
(* A line is the sequence of its words, the signs >, >> and < among them.  *)
(* It ends with a newline, and has fewer than OPT_NUM words.  A program    *)
(* writes the number of the line that started it, after what its standard  *)
(* input holds if that is a file.                                          *)
(***************************************************************************)
EXTENDS Integers, SequencesExt, FiniteSetsExt

CONSTANTS
  Lines,      \* the lines a user may enter
  Dirs,       \* the directories that exist
  HomeDir,    \* the one the shell starts in
  Programs,   \* the programs execvp finds
  Statuses,   \* the status words waitpid may give
  MaxLines    \* bound on the length of a session (none in the code)

Words == UNION {Range(line) : line \in Lines}

ShellAssumption ==
  /\ Lines \subseteq Seq(Words)
  /\ HomeDir \in Dirs /\ MaxLines \in Nat
  /\ \A status \in Statuses : status \in Nat /\ status < 65536

VARIABLES
  at,         \* what the shell does
  typed,      \* the lines read so far
  argv,       \* myargv
  redir,      \* redirType and redirfile
  cwd,        \* the working directory
  codes,      \* exitCode and signalCode
  out,        \* the buffer of stdout
  kid,        \* what the child does: [at, out, fd0, fd1, status]
  files,      \* files[d][f]: the content of file f of directory d
  terminal,   \* what has been written to the terminal
  ended       \* ended[n]: what came of the program of line n, if there was one

shellVars ==
  <<at, typed, argv, redir, cwd, codes, out, kid, files, terminal, ended>>

NoRedir == [type |-> "none", file |-> <<>>]
Absent == [exists |-> FALSE, text |-> <<>>]
NoKid == [at |-> "none", out |-> <<>>, fd0 |-> Absent, fd1 |-> "terminal", status |-> 0]
NoEnd == [opened |-> FALSE, wrote |-> <<>>, status |-> -1]

Signs == {">", ">>", "<"}

(* checkcommand: the first sign ends the command, and all that follows it  *)
(* is the name of the file, further signs included.                        *)
SignAt(line) == SelectInSeq(line, LAMBDA w : w \in Signs)

CommandOf(line) == IF SignAt(line) = 0 THEN line ELSE SubSeq(line, 1, SignAt(line) - 1)

Redirection(line) ==
  LET n == SignAt(line) IN
  IF n = 0 THEN NoRedir ELSE [type |-> line[n], file |-> SubSeq(line, n + 1, Len(line))]

FileNames == {Redirection(l).file : l \in {k \in Lines : SignAt(k) # 0}}

ShellInit ==
  /\ at = "prompt" /\ typed = <<>> /\ argv = <<>>
  /\ redir = NoRedir /\ cwd = HomeDir
  /\ codes = [exit |-> 0, signal |-> 0]
  /\ out = <<>> /\ kid = NoKid
  /\ files = [d \in Dirs |-> [f \in FileNames |-> Absent]]
  /\ terminal = <<>> /\ ended = <<>>
-----------------------------------------------------------------------------
(* The shell                                                               *)

(* What a line does once it is parsed: strcmp is given NULL when it has no *)
(* word before its sign.                                                   *)
Kind(words) ==
  IF words = <<>> THEN "crashed"
  ELSE IF words[1] \in {"cd", "echo"} THEN words[1] ELSE "fork"

ReadWith(line, before) ==
  /\ at = "prompt" /\ Len(typed) < MaxLines
  /\ typed' = Append(typed, line)
  /\ ended' = Append(ended, NoEnd)
  /\ argv' = CommandOf(line)
  /\ redir' = IF SignAt(line) = 0 THEN before ELSE Redirection(line)
  /\ at' = Kind(argv')
  /\ UNCHANGED <<cwd, codes, kid, files>>

RedirKept ==  \* mutant: redirType is not reset before the next line
  \E line \in Lines :
    ReadWith(line, redir) /\ terminal' = terminal \o out /\ out' = <<>>

(* The prompt with its fflush, fgets, checkcommand and strtok.             *)
ReadLine ==
  \E line \in Lines :
    ReadWith(line, NoRedir) /\ terminal' = terminal \o out /\ out' = <<>>

(* The assertion on fgets at the end of the input.                         *)
EndOfInput ==
  /\ at = "prompt"
  /\ at' = "ended"
  /\ terminal' = terminal \o out /\ out' = <<>>
  /\ UNCHANGED <<typed, argv, redir, cwd, codes, kid, files, ended>>

(* cd: a chdir that fails is not noticed.                                  *)
Cd ==
  /\ at = "cd" /\ at' = "prompt"
  /\ cwd' = IF Len(argv) > 1 /\ argv[2] \in Dirs THEN argv[2] ELSE cwd
  /\ UNCHANGED <<typed, argv, redir, codes, out, kid, files, terminal, ended>>

Shown(c) == <<"codes", c.exit, c.signal>>

(* echo writes to stdout, whatever the line says about a file.             *)
Echo ==
  /\ at = "echo" /\ at' = "prompt"
  /\ out' = out \o (IF Len(argv) > 1 /\ argv[2] = "$?" THEN <<Shown(codes)>>
                   ELSE [n \in 1 .. Len(argv) - 1 |-> <<"echo", argv[n + 1]>>])
  /\ UNCHANGED <<typed, argv, redir, cwd, codes, kid, files, terminal, ended>>

(* The child has a copy of stdout's buffer.                                *)
ForkChild ==
  /\ at = "fork" /\ at' = "wait"
  /\ kid' = [NoKid EXCEPT !.at = "redirect", !.out = out]
  /\ UNCHANGED <<typed, argv, redir, cwd, codes, out, files, terminal, ended>>

ForkFails ==
  /\ at = "fork" /\ at' = "ended"
  /\ UNCHANGED <<typed, argv, redir, cwd, codes, out, kid, files, terminal, ended>>

(* waitpid, (status >> 8) & 0xFF and status & 0x7F.                        *)
WaitChild ==
  /\ at = "wait" /\ kid.at = "zombie" /\ at' = "prompt"
  /\ codes' = [exit |-> (kid.status \div 256) % 256, signal |-> kid.status % 128]
  /\ kid' = NoKid
  /\ ended' = [ended EXCEPT ![Len(typed)].status = kid.status]
  /\ UNCHANGED <<typed, argv, redir, cwd, out, files, terminal>>
-----------------------------------------------------------------------------
(* The child                                                               *)

(* What is written to fd 1 goes to the terminal or behind the file's text. *)
WriteOut(text) ==
  IF kid.fd1 = "terminal" THEN terminal' = terminal \o text /\ UNCHANGED files
  ELSE /\ files' = [files EXCEPT ![cwd][redir.file].text = @ \o text]
       /\ UNCHANGED terminal

(* exit writes the buffer of stdout.                                       *)
Exit(code) ==
  /\ kid' = [kid EXCEPT !.at = "zombie", !.status = code * 256]
  /\ WriteOut(kid.out)
  /\ UNCHANGED <<at, typed, argv, redir, cwd, codes, out, ended>>

(* open and dup2 before execvp.                                            *)
Redirect ==
  /\ kid.at = "redirect"
  /\ redir.type = "<" => redir.file # <<>> /\ files[cwd][redir.file].exists
  /\ redir.type \in {">", ">>"} => redir.file # <<>>
  /\ kid' = [kid EXCEPT !.at = "exec",
               !.fd0 = IF redir.type = "<" THEN files[cwd][redir.file] ELSE @,
               !.fd1 = IF redir.type \in {">", ">>"} THEN "file" ELSE @]
  /\ files' = IF redir.type \notin {">", ">>"} THEN files
              ELSE [files EXCEPT ![cwd][redir.file] =
                      [exists |-> TRUE, text |-> IF redir.type = ">" THEN <<>> ELSE @.text]]
  /\ ended' = [ended EXCEPT ![Len(typed)].opened = TRUE]
  /\ UNCHANGED <<at, typed, argv, redir, cwd, codes, out, terminal>>

(* open fails when there is no such file to read or no name to create, and *)
(* may fail for other reasons.                                             *)
OpenFails ==
  /\ kid.at = "redirect" /\ redir.type # "none"
  /\ Exit(IF redir.type = "<" THEN 1 ELSE 2)

ExecFails ==
  /\ kid.at = "exec" /\ argv[1] \notin Programs
  /\ Exit(1)

(* The new program has no buffer.                                          *)
Exec ==
  /\ kid.at = "exec" /\ argv[1] \in Programs
  /\ kid' = [kid EXCEPT !.at = "run", !.out = <<>>]
  /\ UNCHANGED <<at, typed, argv, redir, cwd, codes, out, files, terminal, ended>>

ProgramWrites ==
  /\ kid.at = "run" /\ ended[Len(typed)].wrote = <<>>
  /\ LET text == Append(kid.fd0.text, <<"program", Len(typed)>>) IN
     WriteOut(text) /\ ended' = [ended EXCEPT ![Len(typed)].wrote = text]
  /\ UNCHANGED <<at, typed, argv, redir, cwd, codes, out, kid>>

(* The program exits, or a signal ends it.                                 *)
ProgramEnds ==
  /\ kid.at = "run"
  /\ \E s \in Statuses : kid' = [kid EXCEPT !.at = "zombie", !.status = s]
  /\ UNCHANGED <<at, typed, argv, redir, cwd, codes, out, files, terminal, ended>>

ShellSystem ==
  \/ Cd \/ Echo \/ ForkChild \/ WaitChild
  \/ Redirect \/ OpenFails \/ ExecFails \/ Exec

ShellNext ==
  \/ ShellSystem \/ ReadLine \/ EndOfInput \/ ForkFails
  \/ ProgramWrites \/ ProgramEnds

ShellSpec == ShellInit /\ [][ShellNext]_shellVars

(* The shell and its child run; users need not type, nor programs end.     *)
ShellFairSpec == ShellSpec /\ WF_shellVars(ShellSystem)
-----------------------------------------------------------------------------
(* What a session means, read off the lines typed and what their programs  *)
(* wrote.                                                                  *)

Moves(n) == LET c == CommandOf(typed[n]) IN Len(c) > 1 /\ c[1] = "cd" /\ c[2] \in Dirs

DirAt(n) ==
  LET moves == {m \in 1 .. n - 1 : Moves(m)} IN
  IF moves = {} THEN HomeDir ELSE CommandOf(typed[Max(moves)])[2]

Waited(n) == {m \in 1 .. n - 1 : ended[m].status # -1}

StatusAt(n) == IF Waited(n) = {} THEN 0 ELSE ended[Max(Waited(n))].status

Into(n, d, f) ==
  LET r == Redirection(typed[n]) IN
  r.type \in {">", ">>"} /\ r.file = f /\ DirAt(n) = d /\ ended[n].opened

FileText(d, f) ==
  LET lines == {n \in 1 .. Len(typed) : Into(n, d, f)}
      since == Max({0} \cup {n \in lines : Redirection(typed[n]).type = ">"})
  IN FlattenSeq([n \in 1 .. Len(typed) |->
       IF n \in lines /\ n >= since THEN ended[n].wrote ELSE <<>>])

Seen(n) ==
  LET c == CommandOf(typed[n]) IN
  IF c # <<>> /\ c[1] = "echo"
  THEN IF Len(c) > 1 /\ c[2] = "$?"
       THEN <<Shown([exit |-> StatusAt(n) \div 256, signal |-> StatusAt(n) % 128])>>
       ELSE [m \in 1 .. Len(c) - 1 |-> <<"echo", c[m + 1]>>]
  ELSE IF Redirection(typed[n]).type \in {">", ">>"} THEN <<>> ELSE ended[n].wrote

(* Between two lines every file holds what the lines redirected to it have *)
(* written since the last one that replaced it, in the directory of that   *)
(* line; nothing of the shell's own output is in it, and nothing that an   *)
(* earlier line redirected.  The terminal shows the rest in the order of   *)
(* the lines, and $? is the end of the last program                        *)
(* (myshell.c:88-96, 119-144, 157-211).                                    *)
ShellSafe ==
  at = "prompt" =>
    /\ \A d \in Dirs, f \in FileNames : files[d][f].text = FileText(d, f)
    /\ terminal \o out = FlattenSeq([n \in 1 .. Len(typed) |-> Seen(n)])

(* In the end the shell reads lines again, waits for a program that runs,  *)
(* or is over: at the end of its input, without a child, or on a line that *)
(* has no word (myshell.c:98-106, 153-211).                                *)
ShellSettled ==
  \/ at \in {"prompt", "ended"} \/ kid.at = "run"
  \/ at = "crashed" /\ CommandOf(Last(typed)) = <<>>
=============================================================================
