----------------------------- MODULE MCMailbox -----------------------------
(* Instances of the mailboxes for TLC.                                      *)
EXTENDS MailboxProperties, TLC

CONSTANTS r, s1, s2    \* processes

Three == {r, s1, s2}

\* Every order of strength of the processes P, ties included, once.
AnyPriorities(P) ==
    {f \in [P -> 1 .. Cardinality(P)] : Range(f) = 1 .. Cardinality(Range(f))}

AnyOfThree == AnyPriorities(Three)
StrongerReceivers == {f \in AnyOfThree : f[r] < f[s2] /\ f[s2] < f[s1]}

Boxed(slots) == [slots |-> slots, size |-> 1]
Plain == [opened |-> <<Boxed(1)>>, creates |-> {}, prios |-> AnyOfThree, statuses |-> 0]
With(made, most) == [calls |-> made, sends |-> most] @@ Plain

\* r receives, the others send.
OneReceiver ==
    [oneReceiver |->
        With(({s1, s2} \X {"send", "quit"} \X {0}) \cup {<<r, "receive", 0>>}, 2)]

\* Everybody does everything.
Everybody ==
    [everybody |-> With(Three \X {"send", "condSend", "receive", "condReceive"} \X {0}, 1)]

\* In what follows there is a device, whose mailbox is the first.
\* Two mailboxes are shared; r can be woken in either.
Shared ==
    [With({<<r, "receive", 1>>, <<r, "condReceive", 1>>, <<r, "receive", 2>>,
           <<s1, "condSend", 1>>, <<s1, "receive", 2>>,
           <<s2, "send", 1>>, <<s2, "send", 2>>}, 2)
     EXCEPT !.opened = <<Boxed(1), Boxed(2)>>]

\* r waits for the device, s1 hands messages to s2 in mailbox 1, and s2 may be
\* held up waiting for r in mailbox 2.
Handover ==
    [With({<<r, "receive", 0>>, <<r, "condSend", 2>>, <<s1, "send", 1>>, <<s1, "condSend", 1>>,
           <<s2, "receive", 1>>, <<s2, "receive", 2>>}, 2)
     EXCEPT !.opened = <<Boxed(0), Boxed(2)>>, !.prios = StrongerReceivers, !.statuses = 3]

\* r releases the mailbox the others use, and makes it anew.
Release ==
    [With({<<r, "release", 1>>, <<r, "create", 0>>}
          \cup ({s1, s2} \X {"send", "receive"} \X {1}), 1)
     EXCEPT !.opened = <<Boxed(1), Boxed(1)>>, !.creates = {Boxed(1)}]

\* r releases the mailbox while one sender may have overtaken the other.
Overtaken ==
    [With({<<r, "release", 1>>, <<r, "receive", 1>>, <<s1, "send", 1>>, <<s2, "send", 1>>}, 2)
     EXCEPT !.opened = <<Boxed(1)>>]

\* s1 and s2 send to mailbox 1, which has no slots, and r and s2 receive from it.
Partners ==
    [With({<<s1, "send", 1>>, <<s2, "send", 1>>, <<s2, "condSend", 1>>,
           <<r, "receive", 1>>, <<s2, "receive", 1>>}, 2)
     EXCEPT !.opened = <<Boxed(0)>>]

\* Two send to a mailbox without slots, one receives.
TwoSenders ==
    [twoSenders |-> [With({s1, s2} \X {"send"} \X {0}, 2) EXCEPT !.opened = <<Boxed(0)>>,
                        !.calls = @ \cup {<<r, "receive", 0>>}]]

AllClients ==
    [shared |-> Shared, rendezvous |-> Handover, partners |-> Partners, release |-> Release,
     overtaken |-> Overtaken]
=============================================================================
