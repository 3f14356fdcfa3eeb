------------------------- MODULE MailboxProperties -------------------------
(***************************************************************************)
(* What the mailboxes of phase 2 promise, and (at the end) what their      *)
(* comments say that the code does not always do.                          *)
(***************************************************************************)
EXTENDS Mailbox, FiniteSetsExt

Awake(p) == ~Blocked(p)
InCall(b, pcs) == {p \in All : call[p].box = b /\ call[p].pc \in pcs}
Open(b) == MailBoxTable[b].status = CREATED
Slotted == {b \in Boxes : Open(b) /\ MailBoxTable[b].numSlots > 0}
Listed(b) == Range(MailBoxTable[b].slots)

\* The message, as the outside sees it.
Seen(m) == [from |-> m.from, n |-> m.n]

ReceivedFrom(b) == SelectSeq(delivered, LAMBDA d : d.box = b)

-----------------------------------------------------------------------------
\* Types of the tables (message.h), of the globals and of the calls.
MailboxTypeOK ==
    /\ MailBoxTable \in [Boxes -> MailBox]
    /\ MailSlotTable \in [MailSlots -> MailSlot]
    /\ nextMid \in 0 .. MaxMid \cup {DEVICES + Len(Client.opened)}
    /\ nextSlot \in MailSlots
    /\ numSlotsUsed \in Int
    /\ processTable \in Seq(Phase2Proc) /\ Len(processTable) <= MAXPROC
    /\ Current \in All /\ ready \in Seq(All \ {Current})
    /\ call \in [All -> Call]
    /\ outcome \in {"running", "halted", "out_of_bounds", "sentinel_blocked",
                    "null_pointer"}

\* No mailbox has been released, nor one made in a released one's place.
\* MboxRelease leaves a mailbox's messages in their slots for ever.
NoneReleased == nextMid <= MAXMBOX /\ \A b \in 0 .. nextMid-1 : Open(b)

\* A slot in use is on the list of one mailbox, the one it names, once.
EachSlotInOneBox ==
    /\ \A b \in Boxes : IsInjective(MailBoxTable[b].slots)
    /\ \A k \in MailSlots : {b \in Boxes : k \in Listed(b)} =
          IF MailSlotTable[k].status = CREATED THEN {MailSlotTable[k].mboxID} ELSE {}

\* numSlotsUsed, the box's and the global, lags behind the slots by the senders and
\* receivers that have woken a process and not counted yet, and by nothing else.
CountsBalance ==
    LET Uncounted == {"sendWoke", "sendSort"}
        Calling(pcs) == {p \in All : call[p].pc \in pcs}
    IN  /\ \A b \in Slotted : MailBoxTable[b].numSlotsUsed =
              Len(MailBoxTable[b].slots) + Cardinality(InCall(b, {"recvWoke"}))
                                        - Cardinality(InCall(b, Uncounted))
        /\ numSlotsUsed =
              Cardinality({k \in MailSlots : MailSlotTable[k].status = CREATED})
              + Cardinality(Calling({"recvWoke"})) - Cardinality(Calling(Uncounted))

\* Slots and the counts that MboxSend compares with numSlots and MAXSLOTS do not
\* drift apart, in whatever order the processes run that PutMessage and
\* TakeMessage wake.
SlotsAccounted == NoneReleased => EachSlotInOneBox /\ CountsBalance

\* No lost wakeup in MboxReceive: while a process waits on the list of a
\* mailbox, every message in it is meant for a process woken already.
ReceiverNotStranded ==
    NoneReleased => \A b \in Slotted : MailBoxTable[b].waitingToReceive # <<>> =>
        Listed(b) \subseteq {processTable[call[p].entry].slotThatHoldsMyMessage :
                             p \in {q \in InCall(b, {"recvEmpty"}) : Awake(q)}}

\* No lost wakeup in MboxSend: a sender waits for room while there is a message
\* to be taken, a woken sender yet to run, or one about to wake those that were
\* early; and one that waits for its turn has a sender ahead of it, or one about to
\* wake it.
SenderNotStranded ==
    \A b \in Slotted :
        LET box == MailBoxTable[b]
            Early == Range(box.getCorrectOrder)
            Resuming == InCall(b, {"sendFull", "sendOrder"})
            Waking == InCall(b, {"sendWoke", "sendSort"})
        IN  /\ box.waitingToSend # <<>> =>
                  box.slots # <<>> \/ Waking # {} \/ \E p \in Resuming : Awake(p)
            /\ \A p \in Resuming : call[p].entry \in Early =>
                  \/ Waking # {}
                  \/ \E q \in Resuming : /\ call[q].number < call[p].number
                                         /\ call[q].entry \notin Early

\* A message sent to a mailbox with slots is never in two slots, in a slot and
\* received, or received twice, also when getNextSlotID hands a slot out again while
\* the process its last message was meant for has not run; and none is received
\* there that nobody sent.
EachMessageOnce ==
    LET UsedSlots == {k \in MailSlots : MailSlotTable[k].status = CREATED}
        Receipts == {i \in DOMAIN delivered : MailBoxTable[delivered[i].box].numSlots # 0}
    IN  /\ IsInjective([i \in Receipts |-> delivered[i].msg])
        /\ IsInjective([k \in UsedSlots |-> MailSlotTable[k].message])
        /\ \A i \in Receipts :
              /\ delivered[i].msg # NULL /\ delivered[i].msg.n <= sends[delivered[i].msg.from]
              /\ \A k \in UsedSlots : MailSlotTable[k].message # delivered[i].msg

Rendezvous(b) == Open(b) /\ MailBoxTable[b].numSlots = 0

\* In a mailbox without slots each send that gets through is paired with one receive,
\* whoever of the two came first and runs first, and whether or not it was
\* conditional: the sends begun are those that still wait, the receives done and the
\* receivers woken that have not run; and a sender and a receiver never both wait.
RendezvousPairs ==
    NoneReleased => \A b \in Boxes : Rendezvous(b) =>
        LET box == MailBoxTable[b]
            Paired == Len(ReceivedFrom(b))
                      + Cardinality({p \in InCall(b, {"recvZero"}) : Awake(p)})
        IN  /\ box.nextInLineMessageNumber - 1 = Len(box.waitingToSend) + Paired
            /\ box.waitingToSend = <<>> \/ box.waitingToReceive = <<>>

\* With one receiver a mailbox is a channel, whatever the senders' priorities.
Box == DEVICES
MessagesIn(b) ==
    [i \in DOMAIN MailBoxTable[b].slots |->
        Seen(MailSlotTable[MailBoxTable[b].slots[i]].message)]
Taken(b) == [i \in DOMAIN ReceivedFrom(b) |-> Seen(ReceivedFrom(b)[i].msg)]
PutBy(p) == Len(SelectSeq(MessagesIn(Box) \o Taken(Box), LAMBDA m : m.from = p))

Abstract == INSTANCE Channel WITH
    MaxSends <- Max({Clients[name].sends : name \in DOMAIN Clients}),
    Senders <- Procs,
    queue <- MessagesIn(Box),
    put <- [p \in Procs |-> PutBy(p)],
    got <- Taken(Box)

\* The mailbox implements the channel.
MailboxIsAChannel == Abstract!Spec

\* A sender that waits for room or for its turn returns from MboxSend, the
\* receiver going on receiving.
SendersGetThrough ==
    \A p \in Procs :
        call[p].pc \in {"sendFull", "sendOrder"} ~>
            call[p].pc = "user"

\* MboxRelease wakes whoever is blocked on the mailbox it closes, also when others
\* run, and make it anew, while it walks the lists: nobody stays behind but those
\* on getCorrectOrder, the list it does not walk (src/phase2/phase2.c:153-165).
ReleaseWakesTheBlocked ==
    \A b \in Boxes :
        (~Open(b) /\ InCall(b, {"releaseRecv", "releaseSend"}) = {}) =>
            \A p \in All : (call[p].box = b /\ Blocked(p)) => call[p].pc = "sendOrder"

-----------------------------------------------------------------------------
\* What a zero-slot mailbox hands over is what was sent, all of it, in order: "Put a
\* message into a slot", "Get a msg from a slot" (phase2.c:176, 340).
RendezvousInOrder ==
    \A b \in Boxes : Rendezvous(b) =>
        LET From(p) == SelectSeq(ReceivedFrom(b), LAMBDA d : d.msg # NULL /\ d.msg.from = p)
        IN  /\ \A i \in DOMAIN ReceivedFrom(b) : ReceivedFrom(b)[i].msg # NULL
            /\ \A p \in Procs \cup {NULL} : \A i \in DOMAIN From(p) : From(p)[i].msg.n = i

\* A receiver that was blocked finds its message.
ReceiverDoesNotCrash == outcome # "null_pointer"
=============================================================================
