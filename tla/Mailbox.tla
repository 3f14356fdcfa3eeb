------------------------------ MODULE Mailbox ------------------------------
(***************************************************************************)
(* The mailboxes of src/phase2/phase2.c: MboxCreate, MboxRelease, MboxSend,*)
(* MboxReceive, their conditional forms, and the device handlers that send *)
(* to the mailboxes waitDevice receives from.                              *)
(*                                                                         *)
(* The processor changes hands where the code calls blockMe and            *)
(* unblockProc (the kernel of phase 1, a library here: modelled by what    *)
(* this code expects of it), at the end of a time slice and in an          *)
(* interrupt.  An action is the code from one such point to the next;      *)
(* call[p].pc says in which call, and after which of them, p is.           *)
(***************************************************************************)
EXTENDS Integers, Sequences, FiniteSets, SequencesExt

CONSTANTS
    Procs,       \* the processes that use mailboxes
    Sentinel,    \* the process that runs when no other can
    NULL,
    MAXMBOX,     \* mailboxes
    MAXSLOTS,    \* entries of MailSlotTable
    MAXPROC,     \* entries of processTable
    DEVICES,     \* 7 in the code: mailboxes init() sets up for the devices
    Clients,     \* by name, what the processes do with the mailboxes
    Sizes,       \* sizes of the messages sent
    Limits,      \* buffer sizes passed to MboxReceive
    MaxMid       \* bound: nextMid goes no further

Boxes == 0 .. MAXMBOX-1
Devices == 0 .. DEVICES-1
MailSlots == 0 .. MAXSLOTS-1
All == Procs \cup {Sentinel}
WEAKEST == 7

\* opened: the mailboxes made before the run, as [slots, size]; creates: likewise,
\* the arguments of MboxCreate; calls: as <<p, operation, b>>, what the processes
\* call; prios: the assignments of priorities to them, 1 the strongest; sends and
\* statuses: bounds on the messages of each process, and of the devices.
Behaviours ==
    [opened : Seq([slots : Nat, size : Nat]), creates : SUBSET [slots : Nat, size : Nat],
     calls : SUBSET (Procs \X STRING \X Boxes), prios : SUBSET [Procs -> 1 .. WEAKEST-1],
     sends : Nat, statuses : Nat]
DeviceMsgSize == 4
DeviceSlotSize == 100
UNUSED == -1
CREATED == 0

ASSUME MailboxAssumption ==
    /\ Sentinel \notin Procs /\ NULL \notin All /\ IsFiniteSet(Procs)
    /\ MAXMBOX \in Nat \ {0} /\ MAXSLOTS \in Nat \ {0} /\ MAXPROC \in Nat
    /\ DEVICES \in 0 .. MAXMBOX
    /\ \A name \in DOMAIN Clients :
          Clients[name] \in Behaviours /\ DEVICES + Len(Clients[name].opened) <= MAXMBOX
    /\ Sizes \subseteq Nat /\ Limits \subseteq Nat
    /\ MaxMid \in Nat

VARIABLES
    MailBoxTable,
    MailSlotTable,
    nextMid,         \* where MboxCreate starts looking
    nextSlot,        \* where getNextSlotID starts looking
    numSlotsUsed,    \* the global of that name
    processTable,    \* the entries handed out by getNextProcSlot so far
    Current, ready,  \* phase 1: the running process, the ready list
    call,            \* per process, the call it is in
    clients,         \* the name of what the processes do
    prio,            \* per process, its priority
    sends,           \* per sender (NULL: the devices), the messages sent so far
    delivered,       \* the messages received, in the order of the receipts (history)
    outcome

core == <<MailBoxTable, MailSlotTable, nextMid, nextSlot, numSlotsUsed,
          processTable, Current, ready, call, delivered>>
vars == <<core, clients, prio, sends, outcome>>

(***************************************************************************)
(* The tables.  The list of a box's slots (headSlot, nextSlot) and its     *)
(* three lists of waiting processes (nextProc) are sequences of indices.   *)
(* getNextProcSlot hands out the entries of processTable in order and      *)
(* returns an index past the end after the last, whatever has been given   *)
(* back, so an entry is used once and its status decides nothing.          *)
(***************************************************************************)
Message == [from : Procs \cup {NULL}, n : Nat, size : Nat]

ASSUME NullIsNoMessage == NULL \notin Message /\ NULL \notin MailSlots

MailBox ==
    [status : {UNUSED, CREATED}, numSlots : Nat, numSlotsUsed : Int, slotSize : Nat,
     slots : Seq(MailSlots), waitingToReceive : Seq(1 .. MAXPROC),
     waitingToSend : Seq(1 .. MAXPROC), getCorrectOrder : Seq(1 .. MAXPROC),
     zeroSlot : Message \cup {NULL}, numMessagesSent : Nat,
     nextInLineMessageNumber : Nat, recv_size : Nat]

MailSlot == [status : {UNUSED, CREATED}, mboxID : Boxes \cup {UNUSED},
             message : Message \cup {NULL}]

Phase2Proc == [pid : All, slotThatHoldsMyMessage : MailSlots \cup {NULL}]

Call ==
    [pc : {"user", "sendZero", "sendFull", "sendOrder", "sendWoke", "sendSort",
           "recvZero", "recvEmpty", "recvWoke", "releaseRecv", "releaseSend", "gone"},
     box : Boxes, msg : Message \cup {NULL}, number : Nat,
     entry : 0 .. MAXPROC, limit : Nat]

Idle == [pc |-> "user", box |-> 0, msg |-> NULL, number |-> 0, entry |-> 0, limit |-> 0]

\* init: a mailbox nobody made yet.
UnmadeBox ==
    [status |-> UNUSED, numSlots |-> 0, numSlotsUsed |-> 0, slotSize |-> 0,
     slots |-> <<>>, waitingToReceive |-> <<>>, waitingToSend |-> <<>>,
     getCorrectOrder |-> <<>>, zeroSlot |-> NULL, numMessagesSent |-> 0,
     nextInLineMessageNumber |-> 1, recv_size |-> 0]

\* What MboxCreate sets in a box, and no more.
Made(box, args) ==
    [box EXCEPT !.status = CREATED, !.numSlots = args.slots, !.numSlotsUsed = 0,
                !.slotSize = args.size, !.slots = <<>>]

\* cleanUpSlot.
CleanSlot == [status |-> UNUSED, mboxID |-> UNUSED, message |-> NULL]

Client == Clients[clients]

Halt(how) == outcome' = how /\ UNCHANGED core

-----------------------------------------------------------------------------
(***************************************************************************)
(* Phase 1, as this code uses it: a woken process takes the processor from *)
(* a weaker caller of unblockProc, and queues behind its equals otherwise. *)
(***************************************************************************)
Level(p) == IF p = Sentinel THEN WEAKEST ELSE prio[p]

QueueUp(q, p) ==
    InsertAt(q, 1 + Cardinality({i \in DOMAIN q : Level(q[i]) <= Level(p)}), p)

Blocked(p) == p # Current /\ p \notin Range(ready) /\ call[p].pc # "gone"

UnblockProc(p) ==
    \/ /\ ~Blocked(p)
       /\ UNCHANGED <<Current, ready>>
    \/ /\ Blocked(p) /\ Level(p) >= Level(Current)
       /\ ready' = QueueUp(ready, p)
       /\ UNCHANGED Current
    \/ /\ Blocked(p) /\ Level(p) < Level(Current)
       /\ Current' = p
       /\ ready' = QueueUp(ready, Current)

TimeSlice ==
    /\ outcome = "running"
    /\ ready # <<>> /\ Level(Head(ready)) = Level(Current)
    /\ Current' = Head(ready)
    /\ ready' = QueueUp(Tail(ready), Current)
    /\ UNCHANGED <<MailBoxTable, MailSlotTable, nextMid, nextSlot, numSlotsUsed,
                   processTable, call, clients, prio, sends, delivered, outcome>>

\* getNextProcSlot and blockMe: the caller takes the next entry of processTable,
\* which the lists of newBox already hold, and the processor goes to the next.
NextEntryBefore == Len(processTable)
NextEntry == Len(processTable) + 1

Block(b, newBox, c) ==
    IF Len(processTable) = MAXPROC
    THEN Halt("out_of_bounds")
    ELSE IF ready = <<>>
    THEN Halt("sentinel_blocked")
    ELSE /\ processTable' = Append(processTable,
                                   [pid |-> Current, slotThatHoldsMyMessage |-> NULL])
         /\ MailBoxTable' = [MailBoxTable EXCEPT ![b] = newBox]
         /\ call' = [call EXCEPT ![Current] = [c EXCEPT !.entry = NextEntry]]
         /\ Current' = Head(ready)
         /\ ready' = Tail(ready)
         /\ UNCHANGED <<MailSlotTable, nextMid, nextSlot, numSlotsUsed, delivered, outcome>>

\* Is there a process to wake, blocked on a receive or on a send?  Taking the
\* sender off its list, or a slot off the mailbox's (removeSlotFromMailbox).
ReceiverIfEmpty(box) == box.waitingToReceive # <<>> /\ box.slots = <<>>
ReceiverIfMore(box) == Len(box.waitingToReceive) > 1
ReceiverToWake(box) == box.waitingToReceive # <<>>

SenderIfFull(box) == box.waitingToSend # <<>> /\ box.numSlotsUsed = box.numSlots
SenderToWake(box) == box.waitingToSend # <<>>

Place(q, e) == CHOOSE i \in DOMAIN q : q[i] = e

SameSenders(box) == box
WithoutSender(box) == [box EXCEPT !.waitingToSend = Tail(@)]

WithoutFirst(box, k) == [box EXCEPT !.slots = Tail(@)]
WithoutSlot(box, k) == [box EXCEPT !.slots = RemoveAt(@, Place(@, k))]

\* Current makes the call op on b.
Calls(op, b) ==
    /\ outcome = "running"
    /\ call[Current].pc = "user"
    /\ <<Current, op, b>> \in Client.calls

\* Current goes on inside a call.
In(pcs) == outcome = "running" /\ call[Current].pc \in pcs

Returns == call' = [call EXCEPT ![Current] = Idle]

\* A process that has sent all it had to may call quit.
Quit ==
    /\ Calls("quit", 0)
    /\ sends[Current] = Client.sends
    /\ call' = [call EXCEPT ![Current] = [Idle EXCEPT !.pc = "gone"]]
    /\ Current' = Head(ready) /\ ready' = Tail(ready)
    /\ UNCHANGED <<MailBoxTable, MailSlotTable, nextMid, nextSlot, numSlotsUsed,
                   processTable, clients, prio, sends, delivered, outcome>>

-----------------------------------------------------------------------------
(***************************************************************************)
(* MboxSend.                                                               *)
(***************************************************************************)
\* getNextSlotID, which is only a slot when it is below MAXSLOTS.
NextSlotAt(i) == i = 0
FreeSlotAt(i) ==
    /\ MailSlotTable[(nextSlot + i) % MAXSLOTS].status = UNUSED
    /\ \A j \in 0 .. i-1 : MailSlotTable[(nextSlot + j) % MAXSLOTS].status # UNUSED

\* The end of MboxSend: the senders that went ahead of their turn are woken one
\* by one, then the message is counted.
WakeNextInOrder(b, box, c) ==
    IF box.getCorrectOrder # <<>>
    THEN /\ MailBoxTable' = [MailBoxTable EXCEPT
                               ![b] = [box EXCEPT !.getCorrectOrder = Tail(@)]]
         /\ call' = [call EXCEPT ![Current] = [c EXCEPT !.pc = "sendSort"]]
         /\ UnblockProc(processTable[Head(box.getCorrectOrder)].pid)
         /\ UNCHANGED numSlotsUsed
    ELSE /\ MailBoxTable' = [MailBoxTable EXCEPT
                               ![b] = [box EXCEPT !.numSlotsUsed = @ + 1]]
         /\ numSlotsUsed' = numSlotsUsed + 1
         /\ Returns
         /\ UNCHANGED <<Current, ready>>

\* The message goes into slot k, at the end of the box's list, and to the first
\* process blocked on a receive.
PutInSlot(b, box, c, k) ==
    LET full == [box EXCEPT !.numMessagesSent = @ + 1, !.slots = Append(@, k)]
        e == Head(box.waitingToReceive)
    IN  /\ nextSlot' = k
        /\ MailSlotTable' = [MailSlotTable EXCEPT
                               ![k] = [status |-> CREATED, mboxID |-> b, message |-> c.msg]]
        /\ IF ReceiverToWake(box)
           THEN /\ processTable' = [processTable EXCEPT ![e].slotThatHoldsMyMessage = k]
                /\ MailBoxTable' = [MailBoxTable EXCEPT
                                      ![b] = [full EXCEPT !.waitingToReceive = Tail(@)]]
                /\ call' = [call EXCEPT ![Current] = [c EXCEPT !.pc = "sendWoke"]]
                /\ UnblockProc(processTable[e].pid)
                /\ UNCHANGED numSlotsUsed
           ELSE WakeNextInOrder(b, full, c) /\ UNCHANGED processTable
        /\ UNCHANGED <<nextMid, delivered, outcome>>

PutMessage(b, box, c) ==
    \/ \E i \in MailSlots :
        /\ FreeSlotAt(i)
        /\ IF nextSlot + i < MAXSLOTS
           THEN PutInSlot(b, box, c, nextSlot + i)
           ELSE Halt("out_of_bounds")
    \/ /\ \A k \in MailSlots : MailSlotTable[k].status # UNUSED
       /\ Halt("out_of_bounds")

\* MboxSend as far as its first blockMe or unblockProc.
SendMessage(b, m) ==
    LET number == MailBoxTable[b].nextInLineMessageNumber
        box == [MailBoxTable[b] EXCEPT !.nextInLineMessageNumber = @ + 1]
        c(pc) == [Idle EXCEPT !.pc = pc, !.box = b, !.msg = m, !.number = number]
    IN  \/ /\ box.numSlots = 0 /\ ~ReceiverToWake(box)
           /\ Block(b, [box EXCEPT !.waitingToSend = Append(@, NextEntry), !.zeroSlot = m],
                    c("sendZero"))
        \/ /\ box.numSlots = 0 /\ ReceiverToWake(box)
           /\ MailBoxTable' = [MailBoxTable EXCEPT
                 ![b] = [box EXCEPT !.waitingToReceive = Tail(@), !.zeroSlot = m]]
           /\ UnblockProc(processTable[Head(box.waitingToReceive)].pid)
           /\ UNCHANGED <<MailSlotTable, nextMid, nextSlot, numSlotsUsed,
                          processTable, call, delivered, outcome>>
        \/ /\ box.numSlots # 0 /\ box.numSlotsUsed = box.numSlots
           /\ Block(b, [box EXCEPT !.waitingToSend = Append(@, NextEntry)], c("sendFull"))
        \/ /\ box.numSlots # 0 /\ box.numSlotsUsed # box.numSlots
           /\ PutMessage(b, box, c("user"))

Sendable(b, m) ==
    MailBoxTable[b].status = CREATED /\ m.size <= MailBoxTable[b].slotSize

NextMessage(p, size) == [from |-> p, n |-> sends[p] + 1, size |-> size]

\* A call the code refuses returns at once and changes nothing: it is no step.
MboxSend(b, size) ==
    LET m == NextMessage(Current, size)
    IN  /\ Calls("send", b) /\ Sendable(b, m)
        /\ sends[Current] < Client.sends
        /\ sends' = [sends EXCEPT ![Current] = @ + 1]
        /\ IF numSlotsUsed = MAXSLOTS THEN Halt("halted") ELSE SendMessage(b, m)
        /\ UNCHANGED <<clients, prio>>

HasRoom(b) ==
    /\ numSlotsUsed # MAXSLOTS
    /\ MailBoxTable[b].numSlotsUsed = MailBoxTable[b].numSlots => MailBoxTable[b].numSlots = 0

MboxCondSend(b, size) ==
    LET m == NextMessage(Current, size)
    IN  /\ Calls("condSend", b) /\ Sendable(b, m) /\ HasRoom(b)
        /\ sends[Current] < Client.sends
        /\ sends' = [sends EXCEPT ![Current] = @ + 1]
        /\ SendMessage(b, m)
        /\ UNCHANGED <<clients, prio>>

\* clockHandler, diskHandler, terminalHandler: an interrupt runs MboxCondSend in
\* whatever process it finds running, the sentinel included.
DeviceInterrupt(b) ==
    LET m == NextMessage(NULL, DeviceMsgSize)
    IN  /\ outcome = "running" /\ call[Current].pc = "user"
        /\ Sendable(b, m) /\ HasRoom(b)
        /\ sends[NULL] < Client.statuses
        /\ sends' = [sends EXCEPT ![NULL] = @ + 1]
        /\ SendMessage(b, m)
        /\ UNCHANGED <<clients, prio>>

\* The receiver is woken (and may have run): was its buffer too small?
SendAfterWakingUncounted ==
    /\ In({"sendWoke"})
    /\ Returns
    /\ UNCHANGED <<MailBoxTable, MailSlotTable, nextMid, nextSlot, numSlotsUsed,
                   processTable, Current, ready, clients, prio, sends, delivered, outcome>>

SendAfterWaking ==
    LET c == call[Current]
        box == MailBoxTable[c.box]
    IN  /\ In({"sendWoke"})
        /\ IF box.recv_size < c.msg.size
           THEN Returns /\ UNCHANGED <<MailBoxTable, numSlotsUsed, Current, ready>>
           ELSE WakeNextInOrder(c.box, box, c)
        /\ UNCHANGED <<MailSlotTable, nextMid, nextSlot, processTable, clients, prio, sends,
                       delivered, outcome>>

SendSorting ==
    LET c == call[Current]
    IN  /\ In({"sendSort"})
        /\ WakeNextInOrder(c.box, MailBoxTable[c.box], c)
        /\ UNCHANGED <<MailSlotTable, nextMid, nextSlot, processTable, clients, prio, sends,
                       delivered, outcome>>

ReturnOnly ==
    /\ Returns
    /\ UNCHANGED <<MailBoxTable, MailSlotTable, nextMid, nextSlot, numSlotsUsed,
                   processTable, Current, ready, delivered, outcome>>

\* MboxSend goes on from blockMe, in a zero-slot mailbox ...
SendRendezvous == In({"sendZero"}) /\ ReturnOnly /\ UNCHANGED <<clients, prio, sends>>

\* ... and in one that was full: a sender that is early goes to sleep again.
InTurnOnly(box, number) == number <= box.numMessagesSent
InTurn(box, number) == number <= box.numMessagesSent + 1

SendResume ==
    LET c == call[Current]
        box == MailBoxTable[c.box]
    IN  /\ In({"sendFull", "sendOrder"})
        /\ IF box.status = UNUSED THEN ReturnOnly
           ELSE IF InTurn(box, c.number) THEN PutMessage(c.box, box, c)
           ELSE Block(c.box, [box EXCEPT !.getCorrectOrder = Append(@, NextEntry)],
                      [c EXCEPT !.pc = "sendOrder"])
        /\ UNCHANGED <<clients, prio, sends>>

-----------------------------------------------------------------------------
(***************************************************************************)
(* MboxReceive.                                                            *)
(***************************************************************************)
Got(m, b) == delivered' = Append(delivered, [msg |-> m, by |-> Current, box |-> b])

\* The message in slot k is taken, and the first process blocked on a send is
\* woken; the message is counted out behind that.
TakeMessage(b, k) ==
    LET box == MailBoxTable[b]
        rest == WithoutSlot(box, k)
    IN  /\ Got(MailSlotTable[k].message, b)
        /\ MailSlotTable' = [MailSlotTable EXCEPT ![k] = CleanSlot]
        /\ IF SenderToWake(box)
           THEN /\ MailBoxTable' = [MailBoxTable EXCEPT ![b] = WithoutSender(rest)]
                /\ call' = [call EXCEPT ![Current] = [Idle EXCEPT !.pc = "recvWoke", !.box = b]]
                /\ UnblockProc(processTable[Head(box.waitingToSend)].pid)
                /\ UNCHANGED numSlotsUsed
           ELSE /\ MailBoxTable' = [MailBoxTable EXCEPT
                                      ![b] = [rest EXCEPT !.numSlotsUsed = @ - 1]]
                /\ numSlotsUsed' = numSlotsUsed - 1
                /\ Returns
                /\ UNCHANGED <<Current, ready>>
        /\ UNCHANGED <<nextMid, nextSlot, processTable, outcome>>

\* In a zero-slot mailbox the message is in the box itself.
ReceiveZero(b) ==
    LET box == MailBoxTable[b]
    IN  IF SenderToWake(box)
        THEN /\ Got(box.zeroSlot, b)
             /\ MailBoxTable' = [MailBoxTable EXCEPT ![b] = WithoutSender(box)]
             /\ UnblockProc(processTable[Head(box.waitingToSend)].pid)
             /\ UNCHANGED <<MailSlotTable, nextMid, nextSlot, numSlotsUsed,
                            processTable, call, outcome>>
        ELSE Block(b, [box EXCEPT !.waitingToReceive = Append(@, NextEntry)],
                   [Idle EXCEPT !.pc = "recvZero", !.box = b])

\* cleanUpSlot leaves a size of 0.
Fits(k, limit) ==
    MailSlotTable[k].message = NULL \/ MailSlotTable[k].message.size <= limit

MboxReceive(b, limit) ==
    LET box == MailBoxTable[b]
    IN  /\ Calls("receive", b) /\ box.status = CREATED
        /\ \/ box.numSlots = 0 /\ ReceiveZero(b)
           \/ /\ box.numSlots # 0 /\ box.slots = <<>>
              /\ Block(b, [box EXCEPT !.waitingToReceive = Append(@, NextEntry),
                                      !.recv_size = limit],
                       [Idle EXCEPT !.pc = "recvEmpty", !.box = b, !.limit = limit])
           \/ /\ box.numSlots # 0 /\ box.slots # <<>>
              /\ Fits(Head(box.slots), limit)
              /\ TakeMessage(b, Head(box.slots))
        /\ UNCHANGED <<clients, prio, sends>>

\* Only if there is a message; a zero-slot mailbox never has one.
MboxCondReceive(b, limit) ==
    LET box == MailBoxTable[b]
    IN  /\ Calls("condReceive", b) /\ box.status = CREATED
        /\ box.slots # <<>> /\ Fits(Head(box.slots), limit)
        /\ TakeMessage(b, Head(box.slots))
        /\ UNCHANGED <<clients, prio, sends>>

ReceiveRendezvous ==
    LET b == call[Current].box
    IN  /\ In({"recvZero"})
        /\ Returns
        /\ IF MailBoxTable[b].status = UNUSED
           THEN UNCHANGED delivered
           ELSE Got(MailBoxTable[b].zeroSlot, b)
        /\ UNCHANGED <<MailBoxTable, MailSlotTable, nextMid, nextSlot, numSlotsUsed,
                       processTable, Current, ready, clients, prio, sends, outcome>>

\* MboxReceive goes on from blockMe.  It looks at the size of the first message
\* of the box, then takes its own; headSlot, its slot and the list it unlinks it
\* from are dereferenced unchecked.
ReceiveResume ==
    LET c == call[Current]
        box == MailBoxTable[c.box]
        k == processTable[c.entry].slotThatHoldsMyMessage
    IN  /\ In({"recvEmpty"})
        /\ IF box.status = UNUSED THEN ReturnOnly
           ELSE IF box.slots = <<>> THEN Halt("null_pointer")
           ELSE IF ~Fits(Head(box.slots), c.limit) THEN ReturnOnly
           ELSE IF k \notin Range(box.slots) THEN Halt("null_pointer")
           ELSE TakeMessage(c.box, k)
        /\ UNCHANGED <<clients, prio, sends>>

ReceiveAfterWaking ==
    LET b == call[Current].box
    IN  /\ In({"recvWoke"})
        /\ MailBoxTable' = [MailBoxTable EXCEPT ![b].numSlotsUsed = @ - 1]
        /\ numSlotsUsed' = numSlotsUsed - 1
        /\ Returns
        /\ UNCHANGED <<MailSlotTable, nextMid, nextSlot, processTable, Current, ready,
                       clients, prio, sends, delivered, outcome>>

-----------------------------------------------------------------------------
(***************************************************************************)
(* MboxCreate and MboxRelease.                                             *)
(***************************************************************************)
UnmadeAt(i) ==
    /\ MailBoxTable[(nextMid + i) % MAXMBOX].status = UNUSED
    /\ \A j \in 0 .. i-1 : MailBoxTable[(nextMid + j) % MAXMBOX].status # UNUSED

MboxCreate(args) ==
    /\ Calls("create", 0)
    /\ \E i \in Boxes :
        LET b == (nextMid + i) % MAXMBOX
        IN  /\ UnmadeAt(i)
            /\ nextMid + i < MaxMid
            /\ nextMid' = nextMid + i + 1
            /\ MailBoxTable' = [MailBoxTable EXCEPT ![b] = Made(@, args)]
    /\ UNCHANGED <<MailSlotTable, nextSlot, numSlotsUsed, processTable, Current, ready,
                   call, clients, prio, sends, delivered, outcome>>

\* The box is closed, made or not; the waiting processes stay on its lists.
MboxRelease(b) ==
    /\ Calls("release", b)
    /\ MailBoxTable' = [MailBoxTable EXCEPT ![b].status = UNUSED]
    /\ call' = [call EXCEPT ![Current] = [Idle EXCEPT !.pc = "releaseRecv", !.box = b]]
    /\ UNCHANGED <<MailSlotTable, nextMid, nextSlot, numSlotsUsed, processTable,
                   Current, ready, clients, prio, sends, delivered, outcome>>

\* The entry behind e on the list q, or the first if e is 0; 0 if there is none.
\* An entry taken off its list has no next one.
FirstOnly(q, e) == IF e = 0 /\ q # <<>> THEN Head(q) ELSE 0

Behind(q, e) ==
    LET i == IF e = 0 THEN 1 ELSE IF e \in Range(q) THEN 1 + Place(q, e) ELSE 0
    IN  IF i \in DOMAIN q THEN q[i] ELSE 0

\* One turn of MboxRelease's loops, and the way out of each.
ReleaseNext ==
    LET c == call[Current]
        box == MailBoxTable[c.box]
        e == Behind(IF c.pc = "releaseRecv" THEN box.waitingToReceive
                    ELSE box.waitingToSend, c.entry)
    IN  /\ In({"releaseRecv", "releaseSend"})
        /\ \/ /\ e # 0
              /\ call' = [call EXCEPT ![Current].entry = e]
              /\ UnblockProc(processTable[e].pid)
           \/ /\ e = 0
              /\ call' = [call EXCEPT ![Current] =
                            IF c.pc = "releaseRecv"
                            THEN [c EXCEPT !.pc = "releaseSend", !.entry = 0]
                            ELSE Idle]
              /\ UNCHANGED <<Current, ready>>
        /\ UNCHANGED <<MailBoxTable, MailSlotTable, nextMid, nextSlot, numSlotsUsed,
                       processTable, clients, prio, sends, delivered, outcome>>

-----------------------------------------------------------------------------
\* init() has set up the devices' mailboxes, and start2 has made the others.
Init ==
    /\ clients \in DOMAIN Clients
    /\ MailBoxTable = [b \in Boxes |->
         CASE b \in Devices ->
                [UnmadeBox EXCEPT !.status = CREATED, !.slotSize = DeviceSlotSize]
           [] b \in DEVICES .. DEVICES + Len(Client.opened) - 1 ->
                Made(UnmadeBox, Client.opened[b - DEVICES + 1])
           [] OTHER -> UnmadeBox]
    /\ MailSlotTable = [k \in MailSlots |-> CleanSlot]
    /\ nextMid = DEVICES + Len(Client.opened)
    /\ nextSlot = 0 /\ numSlotsUsed = 0
    /\ processTable = <<>>
    /\ prio \in Client.prios
    /\ Current \in Procs
    /\ ready \in {q \in SetToSeqs(All \ {Current}) :
                    /\ \A i \in 1 .. Len(q)-1 : Level(q[i]) <= Level(q[i+1])
                    /\ Level(Current) <= Level(q[1])}
    /\ call = [p \in All |-> Idle]
    /\ sends = [p \in Procs \cup {NULL} |-> 0]
    /\ delivered = <<>>
    /\ outcome = "running"

GoOn ==
    \/ SendAfterWaking \/ SendSorting \/ SendRendezvous \/ SendResume
    \/ ReceiveRendezvous \/ ReceiveResume \/ ReceiveAfterWaking
    \/ ReleaseNext

Send == \E b \in Boxes, size \in Sizes : MboxSend(b, size)
Receive == \E b \in Boxes, limit \in Limits : MboxReceive(b, limit)

Next ==
    \/ TimeSlice
    \/ Quit
    \/ Send
    \/ \E b \in Boxes, size \in Sizes : MboxCondSend(b, size)
    \/ \E b \in Devices : DeviceInterrupt(b)
    \/ Receive
    \/ \E b \in Boxes, limit \in Limits : MboxCondReceive(b, limit)
    \/ \E args \in Client.creates : MboxCreate(args)
    \/ \E b \in Boxes : MboxRelease(b)
    \/ GoOn

Spec == Init /\ [][Next]_vars

\* A process that gets the processor again and again goes on with its call, or
\* makes its next one.
FairSpec ==
    Spec /\ \A p \in Procs :
                SF_vars(Current = p /\ (GoOn \/ Send \/ Receive \/ Quit))
=============================================================================
