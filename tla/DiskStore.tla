----------------------------- MODULE DiskStore -----------------------------
(***************************************************************************)
(* What DiskRead and DiskWrite of phase 4 promise: a request takes effect  *)
(* at one instant between the call and its return, as a whole, and a       *)
(* reader gets what the disk holds at that instant.  There are no queues,  *)
(* drivers or tracks: a disk is a row of sectors.                          *)
(***************************************************************************)
EXTENDS Integers, Sequences, TLC

CONSTANTS
    Procs,
    Units,
    Requests,   \* records of a unit, an op, a first sector, and what is for the sectors
    Blank       \* what is in a sector that nobody has written

VARIABLES
    disk,     \* per unit, the sectors written
    asked,    \* per process, its request <<r>>, or <<>>
    served,   \* per process, has its request taken effect?
    answer    \* per process, the sectors it has been given

storeVars == <<disk, asked, served, answer>>

Sectors(r) == r.first .. r.first + Len(r.data) - 1
Written(r) == [at \in Sectors(r) |-> r.data[at - r.first + 1]]
Held(u, at) == IF at \in DOMAIN disk[u] THEN disk[u][at] ELSE Blank

Init ==
    /\ disk = [u \in Units |-> <<>>]
    /\ asked = [p \in Procs |-> <<>>]
    /\ served = [p \in Procs |-> FALSE]
    /\ answer = [p \in Procs |-> <<>>]

Ask(p) ==
    /\ asked[p] = <<>>
    /\ asked'[p] # <<>> /\ asked'[p][1] \in Requests
    /\ asked' = [asked EXCEPT ![p] = asked'[p]]
    /\ answer' = [answer EXCEPT ![p] = <<>>]
    /\ UNCHANGED <<disk, served>>

Serve(p) ==
    /\ asked[p] # <<>> /\ ~served[p]
    /\ LET r == asked[p][1]
       IN  IF r.op = "write"
           THEN disk' = [disk EXCEPT ![r.unit] = Written(r) @@ @] /\ UNCHANGED answer
           ELSE /\ answer' = [answer EXCEPT ![p] =
                      [k \in DOMAIN r.data |-> Held(r.unit, r.first + k - 1)]]
                /\ UNCHANGED disk
    /\ served' = [served EXCEPT ![p] = TRUE]
    /\ UNCHANGED asked

Return(p) ==
    /\ served[p]
    /\ asked' = [asked EXCEPT ![p] = <<>>]
    /\ served' = [served EXCEPT ![p] = FALSE]
    /\ UNCHANGED <<disk, answer>>

Next ==
    \E p \in Procs :
        \/ Ask(p)
        \/ Serve(p)
        \/ Return(p)

Spec == Init /\ [][Next]_storeVars
=============================================================================
