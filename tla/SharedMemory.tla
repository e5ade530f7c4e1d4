---------------------------- MODULE SharedMemory ----------------------------
(***************************************************************************)
(* shm: a server makes a segment of shared memory, prints what is in it    *)
(* Rounds times and removes it; a client writes Count messages into it,    *)
(* the numbers 1 .. Count, character by character, while printf reads them *)
(* character by character.  The two are not synchronised, and nothing      *)
(* removes the segment of a server that was killed.                        *)
(*                                                                         *)
(* A process makes one segment at most, and the segment has its name.  key *)
(* is the segment that ftok's key names.  mem[s] is the number in segment  *)
(* s as its characters, what comes before being the same in every message  *)
(* of a client, and there is one client.                                   *)
(***************************************************************************)
EXTENDS Integers, SequencesExt, FiniteSetsExt

CONSTANTS
  Servers,      \* server processes, each run once
  Count,        \* the messages of the client (10 in the code)
  Number,       \* Number[n]: what %d writes for n
  Rounds        \* the times a server prints (12 in the code)

Client == "client"
NoSegment == "none"

(* A number is never written with fewer characters than the one before.    *)
MemoryAssumption ==
  /\ Client \notin Servers /\ NoSegment \notin Servers
  /\ Rounds \in Nat \ {0} /\ Count \in Nat \ {0}
  /\ Number \in [1 .. Count -> Seq(Nat)]
  /\ \A n \in 1 .. Count : Number[n] # <<>>
  /\ \A n \in 2 .. Count : Len(Number[n - 1]) <= Len(Number[n])

VARIABLES
  key,        \* the segment the key names
  perm,       \* perm[s]: may a process of another user attach it
  attached,   \* attached[s]: the processes that have it attached
  mem,        \* mem[s]: the characters in it
  proc,       \* proc[p]: what process p does
  shmid,      \* shmid[p]: the segment it works on
  cnt,        \* cnt[p]: its loop counter
  wrote,      \* the characters of message cnt[Client] that sprintf has written
  found,      \* found[p]: what the printf of server p has found at each place
  printed,    \* printed[p]: the numbers server p has printed
  crashed     \* the processes somebody killed

memoryVars ==
  <<key, perm, attached, mem, proc, shmid, cnt, wrote, found, printed, crashed>>

ghost == <<printed, crashed>>
reads == <<found, ghost>>

Procs == Servers \cup {Client}

Text(n) == IF n \in 1 .. Count THEN Number[n] ELSE <<>>

(* The places of the longest number and of the NUL behind it; a place that *)
(* was not written to holds NUL.                                           *)
Places == 1 .. Len(Text(Count)) + 1
Nul == -1
Unread == -2
CharAt(s, i) == IF i \in DOMAIN s THEN s[i] ELSE Nul

(* The first k characters of new written over old.                         *)
Over(new, k, old) == SubSeq(new, 1, k) \o SubSeq(old, k + 1, Len(old))

MemoryInit ==
  /\ key = NoSegment
  /\ perm = [s \in Procs |-> "shared"]
  /\ attached = [s \in Procs |-> {}]
  /\ mem = [s \in Procs |-> <<>>]
  /\ proc = [p \in Procs |-> "get"]
  /\ shmid = [p \in Procs |-> NoSegment] /\ cnt = [p \in Procs |-> 0]
  /\ wrote = 0
  /\ found = [p \in Servers |-> [i \in Places |-> Unread]]
  /\ printed = [p \in Servers |-> <<>>] /\ crashed = {}

Turns(p, where) == proc' = [proc EXCEPT ![p] = where]
-----------------------------------------------------------------------------
(* shmget of a new segment; the flags have the mode or do not.             *)
NewSegment(p, m) ==
  /\ key = NoSegment /\ key' = p
  /\ perm' = [perm EXCEPT ![p] = m]
  /\ shmid' = [shmid EXCEPT ![p] = p]
  /\ Turns(p, "attach")

(* shmget of the segment that is there.                                    *)
OldSegment(p) ==
  /\ key # NoSegment
  /\ shmid' = [shmid EXCEPT ![p] = key]
  /\ Turns(p, "attach") /\ UNCHANGED <<key, perm>>

ShareExisting(p) ==  \* mutant: createshm without IPC_EXCL
  /\ proc[p] = "get"
  /\ NewSegment(p, "shared") \/ OldSegment(p)
  /\ UNCHANGED <<attached, mem, cnt, wrote, reads>>

(* IPC_CREAT and IPC_EXCL: the server exits where there is a segment.      *)
createshm(p) ==
  /\ proc[p] = "get"
  /\ \/ NewSegment(p, "shared")
     \/ key # NoSegment /\ Turns(p, "gone") /\ UNCHANGED <<key, perm, shmid>>
  /\ UNCHANGED <<attached, mem, cnt, wrote, reads>>

(* IPC_CREAT alone: where there is none the client makes one of mode 0.    *)
getshm ==
  /\ proc[Client] = "get"
  /\ NewSegment(Client, "private") \/ OldSegment(Client)
  /\ UNCHANGED <<attached, mem, cnt, wrote, reads>>

(* shmat: refused for mode 0, to whom is not root, and for a segment that  *)
(* is removed.                                                             *)
Attachable(s) == (s = key \/ attached[s] # {}) /\ perm[s] = "shared"

attachShm(p) ==
  /\ proc[p] = "attach"
  /\ \/ /\ Attachable(shmid[p])
        /\ attached' = [attached EXCEPT ![shmid[p]] = @ \cup {p}]
        /\ Turns(p, "loop")
     \/ ~Attachable(shmid[p]) /\ Turns(p, "gone") /\ UNCHANGED attached
  /\ UNCHANGED <<key, perm, mem, shmid, cnt, wrote, reads>>

(* printf reads the string while it may change, and in more than one way:  *)
(* up to its end first, then again to copy it, or once while it is copied. *)
(* The places are read in any order; of a place read twice this is the     *)
(* last time.  Nothing is read behind a NUL that was found.                *)
ReadShm(p) ==
  /\ proc[p] = "loop"
  /\ \E i \in Places :
       /\ found[p][i] = Unread /\ \A j \in 1 .. i - 1 : found[p][j] # Nul
       /\ found' = [found EXCEPT ![p][i] = CharAt(mem[shmid[p]], i)]
  /\ UNCHANGED <<key, perm, attached, mem, proc, shmid, cnt, wrote, ghost>>

(* A line is printed when all of it is read, the n characters before NUL.  *)
PrintShm(p) ==
  /\ proc[p] = "loop"
  /\ \E n \in 0 .. Len(Text(Count)) :
       /\ found[p][n + 1] = Nul /\ \A i \in 1 .. n : found[p][i] >= 0
       /\ printed' = [printed EXCEPT ![p] = Append(@, [i \in 1 .. n |-> found[p][i]])]
  /\ found' = [found EXCEPT ![p] = [i \in Places |-> Unread]]
  /\ cnt' = [cnt EXCEPT ![p] = @ + 1]
  /\ Turns(p, IF cnt'[p] = Rounds THEN "detach" ELSE "loop")
  /\ UNCHANGED <<key, perm, attached, mem, shmid, wrote, crashed>>

(* sprintf begins the next message.                                        *)
Begin ==
  /\ proc[Client] = "loop" /\ wrote = Len(Text(cnt[Client]))
  /\ cnt' = [cnt EXCEPT ![Client] = @ + 1] /\ wrote' = 0
  /\ UNCHANGED <<key, perm, attached, mem, proc, shmid, reads>>

(* It writes the next characters, one or more at a time: what follows the  *)
(* last one written is a character of the number before, or NUL.           *)
WriteShm ==
  /\ proc[Client] = "loop"
  /\ wrote' \in wrote + 1 .. Len(Text(cnt[Client]))
  /\ mem' = [mem EXCEPT ![shmid[Client]] = Over(Text(cnt[Client]), wrote', @)]
  /\ Turns(Client, IF wrote' = Len(Text(Count)) /\ cnt[Client] = Count
                   THEN "detach" ELSE "loop")
  /\ UNCHANGED <<key, perm, attached, shmid, cnt, reads>>

(* shmdt; the client returns, the server goes on to remove the segment.    *)
deltachShm(p) ==
  /\ proc[p] = "detach"
  /\ attached' = [attached EXCEPT ![shmid[p]] = @ \ {p}]
  /\ Turns(p, IF p = Client THEN "gone" ELSE "delete")
  /\ UNCHANGED <<key, perm, mem, shmid, cnt, wrote, reads>>

(* IPC_RMID: the key is free; the segment lasts while it is attached.      *)
delShm(p) ==
  /\ proc[p] = "delete" /\ Turns(p, "gone")
  /\ key' = IF key = shmid[p] THEN NoSegment ELSE key
  /\ UNCHANGED <<perm, attached, mem, shmid, cnt, wrote, reads>>

(* The kernel detaches what a killed process had attached.                 *)
KillProc(p) ==
  /\ proc[p] \notin {"get", "gone"} /\ Turns(p, "gone")
  /\ attached' = [s \in Procs |-> attached[s] \ {p}]
  /\ crashed' = crashed \cup {p}
  /\ UNCHANGED <<key, perm, mem, shmid, cnt, wrote, found, printed>>

RunServer(p) == createshm(p) \/ ReadShm(p) \/ PrintShm(p) \/ delShm(p)
RunClient == getshm \/ Begin \/ WriteShm

MemorySystem ==
  \/ \E p \in Servers : RunServer(p)
  \/ RunClient
  \/ \E p \in Procs : attachShm(p) \/ deltachShm(p)

MemoryNext == MemorySystem \/ \E p \in Procs : KillProc(p)

MemorySpec == MemoryInit /\ [][MemoryNext]_memoryVars

(* The kernel runs the processes; sleep only spaces them out.              *)
MemoryFairSpec == MemorySpec /\ WF_memoryVars(MemorySystem)
-----------------------------------------------------------------------------
(* The moments of the client's work, each a message and how much of it is  *)
(* written, what a reader finds in the segment then, and how far it is.    *)
Moments == UNION {{n} \X (0 .. Len(Text(n))) : n \in 0 .. Count}

NotAfter(a, b) == a[1] < b[1] \/ (a[1] = b[1] /\ a[2] <= b[2])

Content(a) == Over(Text(a[1]), a[2], Text(a[1] - 1))

Now == <<cnt[Client], wrote>>

(* A character was at its place at some moment between two others.         *)
There(i, char, from, to) ==
  \E m \in Moments : NotAfter(from, m) /\ NotAfter(m, to) /\ CharAt(Content(m), i) = char

(* What a server prints never goes back in the client's work.  A line may  *)
(* be put together from several messages, but there are moments in their   *)
(* order, until now, such that each of its characters, and its end, was in *)
(* the segment at some time between the moment of the line before it and   *)
(* its own: once a line shows something of a message, no later line shows  *)
(* what only was there before (shm_server.cc:13-23, shm_client.cc:11-18).  *)
Explained(shows, last) ==
  \E at \in [0 .. Len(shows) -> {m \in Moments : NotAfter(m, last)}] :
    \A j \in 1 .. Len(shows) :
      /\ NotAfter(at[j - 1], at[j])
      /\ \A i \in 1 .. Len(shows[j]) + 1 : There(i, CharAt(shows[j], i), at[j - 1], at[j])

InOrder == \A p \in Servers : Explained(printed[p], Now)

(* At most one server is between making and removing a segment, and what   *)
(* is left when all processes are over is the segment of a server somebody *)
(* killed, or of a client that came before any server (comm.hpp:46-84,     *)
(* shm_server.cc:8-27).                                                    *)
Working == {"attach", "loop", "detach", "delete"}

OneServer ==
  /\ \A p, q \in Servers : proc[p] \in Working /\ proc[q] \in Working => p = q
  /\ (\A p \in Procs : proc[p] = "gone") /\ key # NoSegment =>
       key \in crashed \cap Servers \/ perm[key] = "private"

MemorySafe == InOrder /\ OneServer

(* Every process comes to its end (shm_server.cc:8-29, shm_client.cc:3-23).*)
MemorySettled == \A p \in Procs : proc[p] = "gone"
=============================================================================
