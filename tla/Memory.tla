------------------------------- MODULE Memory -------------------------------
(***************************************************************************)
(* What virtual memory promises: every process has a memory of its own,    *)
(* full of zeroes when it starts, and a read returns what the process      *)
(* itself has written there last.  There are no frames, pagers or disks.   *)
(***************************************************************************)
EXTENDS Sequences

CONSTANTS
    Procs,
    Addresses,
    Nothing      \* what is at an address that has not been written

VARIABLES
    mem,         \* per process and address, what is there
    todo,        \* per process, the reads and writes it has before it
    answer       \* per process, what it has read last

memoryVars == <<mem, todo, answer>>

Empty == [a \in Addresses |-> Nothing]

Init ==
    /\ mem = [p \in Procs |-> Empty]
    /\ todo = [p \in Procs |-> <<>>]
    /\ answer = [p \in Procs |-> Nothing]

Start(p) ==
    /\ todo[p] = <<>> /\ mem[p] = Empty
    /\ todo' = [todo EXCEPT ![p] = todo'[p]]
    /\ UNCHANGED <<mem, answer>>

Access(p) ==
    /\ todo[p] # <<>>
    /\ LET c == Head(todo[p])
       IN  IF c.call = "Write"
           THEN mem' = [mem EXCEPT ![p][c.addr] = <<p, c.value>>] /\ UNCHANGED answer
           ELSE answer' = [answer EXCEPT ![p] = mem[p][c.addr]] /\ UNCHANGED mem
    /\ todo' = [todo EXCEPT ![p] = Tail(@)]

End(p) ==
    /\ todo[p] = <<>>
    /\ mem' = [mem EXCEPT ![p] = Empty]
    /\ UNCHANGED <<todo, answer>>

Next ==
    \E p \in Procs :
        \/ Start(p)
        \/ Access(p)
        \/ End(p)

Spec == Init /\ [][Next]_memoryVars
=============================================================================
