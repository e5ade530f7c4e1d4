------------------------------ MODULE MCDemos -------------------------------
(***************************************************************************)
(* The programs that run on one machine and are no servers, for model      *)
(* checking, one at a time: program says which one a behaviour is of, and  *)
(* the variables of the others keep their initial values.                  *)
(***************************************************************************)
EXTENDS ProcPool, MyShell, CondDemo, SharedMemory, Pipes

CONSTANTS
  s1, s2,       \* servers of the shared memory
  t1, t2, t3    \* threads of the condition variable demo

VARIABLE program

poolVars == vars
demosVars == <<program, poolVars, shellVars, pipesVars, memoryVars, condVars>>

(* Three lines.  p is a program and q is not; the status words are exit    *)
(* codes 0 and 3, and signal 11 with a core dump.                          *)
SessionLines ==
  {<<"p", ">", "f">>, <<"p", ">>", "f">>, <<"p", "<", "f">>,
   <<"p", ">", "f", "<", "g">>, <<"p", ">">>, <<">", "f">>,
   <<"q">>, <<"q", ">", "f">>, <<"cd", "d">>, <<"cd", "q">>,
   <<"echo", "w", ">", "f">>, <<"echo", "$?">>}

(* The numbers 1, 2 and 10, as 8, 9 and 10 are.                            *)
Numbers == <<<<1>>, <<2>>, <<1, 0>>>>

(* Four arrays, and six characters with the next word.                      *)
CellBounds == [pipe |-> 16, fifo |-> 7]

ASSUME
  /\ PoolAssumption /\ ShellAssumption /\ PipesAssumption
  /\ MemoryAssumption /\ CondAssumption

DemosInit ==
  /\ program \in {"procpool", "shell", "pipes", "memory", "cond"}
  /\ Init /\ ShellInit /\ MemoryInit /\ CondInit
  /\ PipesInit
  /\ program # "pipes" => kind = "fifo" /\ name = 0 /\ hand[1] = Zero

DemosNext ==
  \/ /\ program = "procpool" /\ Next
     /\ UNCHANGED <<program, shellVars, pipesVars, memoryVars, condVars>>
  \/ /\ program = "shell" /\ ShellNext
     /\ UNCHANGED <<program, poolVars, pipesVars, memoryVars, condVars>>
  \/ /\ program = "pipes" /\ PipesNext
     /\ UNCHANGED <<program, poolVars, shellVars, memoryVars, condVars>>
  \/ /\ program = "memory" /\ MemoryNext
     /\ UNCHANGED <<program, poolVars, shellVars, pipesVars, condVars>>
  \/ /\ program = "cond" /\ CondNext
     /\ UNCHANGED <<program, poolVars, shellVars, pipesVars, memoryVars>>

(* The fairness of the modules, for the program that runs.                 *)
DemosSpec ==
  /\ DemosInit /\ [][DemosNext]_demosVars
  /\ WF_poolVars(program = "procpool" /\ PoolSystem)
  /\ WF_shellVars(program = "shell" /\ ShellSystem)
  /\ WF_pipesVars(program = "pipes" /\ WriterStep)
  /\ WF_pipesVars(program = "pipes" /\ ReaderStep)
  /\ WF_memoryVars(program = "memory" /\ MemorySystem)
  /\ WF_condVars(program = "cond" /\ CondSystem)
-----------------------------------------------------------------------------
(* In the end every program has come to the state it is meant to stop in:  *)
(* nobody waits for what will not happen.                                  *)
ProgramsSettle ==
  <>[](/\ program = "procpool" => PoolSettled
       /\ program = "shell" => ShellSettled
       /\ program = "pipes" => PipesSettled
       /\ program = "memory" => MemorySettled
       /\ program = "cond" => CondSettled)
=============================================================================
