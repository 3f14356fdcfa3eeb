------------------------------ MODULE Channel ------------------------------
(***************************************************************************)
(* What a mailbox with slots promises, with no slots, lists or processes   *)
(* in it: messages leave in the order in which they went in, each of them  *)
(* once, and each sender's messages go in in the order it sent them.       *)
(***************************************************************************)
EXTENDS Integers, Sequences

CONSTANTS
    Senders,
    MaxSends     \* bound: messages of each sender

VARIABLES
    queue,       \* the messages in the mailbox
    put,         \* per sender, how many messages it has put in
    got          \* the messages taken out, in order

channelVars == <<queue, put, got>>

Init ==
    /\ queue = <<>>
    /\ put = [p \in Senders |-> 0]
    /\ got = <<>>

Put(p) ==
    /\ put[p] < MaxSends
    /\ put' = [put EXCEPT ![p] = @ + 1]
    /\ queue' = Append(queue, [from |-> p, n |-> put[p] + 1])
    /\ UNCHANGED got

Get ==
    /\ queue # <<>>
    /\ got' = Append(got, Head(queue))
    /\ queue' = Tail(queue)
    /\ UNCHANGED put

Next == Get \/ \E p \in Senders : Put(p)

Spec == Init /\ [][Next]_channelVars
=============================================================================
