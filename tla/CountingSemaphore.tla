------------------------- MODULE CountingSemaphore -------------------------
(***************************************************************************)
(* What a semaphore of phase 3 promises, with no table, links or mailboxes *)
(* in it: nobody passes without a permit, nobody waits beside one, and the *)
(* processes that wait are let in in the order in which they came.         *)
(***************************************************************************)
EXTENDS Integers, Sequences

CONSTANTS
    Procs,
    Values      \* the values a semaphore is created with

VARIABLES
    open,       \* has it been created, and not freed since?
    count,      \* the permits nobody has taken, less those taken twice
    waiting     \* the processes blocked on it

semaphoreVars == <<open, count, waiting>>

Init == ~open /\ count = 0 /\ waiting = <<>>

Create(n) == ~open /\ open' /\ count' = n /\ waiting' = <<>>

Pass ==
    /\ open /\ count > 0
    /\ count' = count - 1
    /\ UNCHANGED <<open, waiting>>

Wait(p) ==
    /\ open /\ count <= 0
    /\ waiting' = Append(waiting, p)
    /\ UNCHANGED <<open, count>>

\* The permit goes to the first that waits.
Signal ==
    /\ open
    /\ IF waiting = <<>>
       THEN count' = count + 1 /\ UNCHANGED waiting
       ELSE waiting' = Tail(waiting) /\ UNCHANGED count
    /\ UNCHANGED open

Free == open /\ ~open' /\ count' = 0 /\ waiting' = <<>>

Next ==
    \/ \E n \in Values : Create(n)
    \/ Pass
    \/ \E p \in Procs : Wait(p)
    \/ Signal
    \/ Free

Spec == Init /\ [][Next]_semaphoreVars
=============================================================================
