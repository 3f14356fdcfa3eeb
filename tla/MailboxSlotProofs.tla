------------------------- MODULE MailboxSlotProofs -------------------------
(***************************************************************************)
(* Proofs about the messages in the mailboxes: where each of them is, the  *)
(* counts that go with them, and whom they are for; and about the senders  *)
(* that a full mailbox keeps waiting: the numbers that give them their     *)
(* turns, and who lets them go on.                                         *)
(***************************************************************************)
EXTENDS MailboxProofs

-----------------------------------------------------------------------------
(***************************************************************************)
(* The steps, by what they do to the slots, to the counts and to the       *)
(* messages.                                                               *)
(***************************************************************************)
PendingPcs == {"sendFull", "sendOrder"}
UncountedPcs == {"sendWoke", "sendSort"}

\* Where a call has nothing to do with a slot.
FreePcs == {"user", "gone", "releaseRecv", "releaseSend", "sendZero"}

Slots(b) == MailBoxTable[b].slots
Holds(e) == processTable[e].slotThatHoldsMyMessage

SameHolds == \A e \in 1 .. Len(processTable) : Holds(e)' = Holds(e)

SameBox(new, old) ==
    new.status = old.status /\ new.numSlots = old.numSlots /\ new.recv_size = old.recv_size

Kept(new, old) ==
    /\ SameBox(new, old)
    /\ new.slots = old.slots /\ new.numSlotsUsed = old.numSlotsUsed
    /\ \/ new.waitingToReceive = old.waitingToReceive
       \/ old.status = CREATED /\ old.numSlots = 0

KeptBut(b) == \A a \in Boxes \ {b} : Kept(MailBoxTable'[a], MailBoxTable[a])

\* m is the next message of its sender, and that is counted.
Fresh(m, b) ==
    /\ m \in Message /\ m.n = sends[m.from] + 1 /\ sends'[m.from] = m.n
    /\ m.size \in Sizes \/ b \in Devices

ZeroSlots(b) == b \in Boxes /\ Open(b) /\ MailBoxTable[b].numSlots = 0

\* From c to d without a slot, a count or a receipt.
Moves(c, d) ==
    \/ d = c
    \/ /\ c.pc \notin UncountedPcs \cup {"recvWoke"} /\ d.pc \in FreePcs
       /\ c.pc = "recvEmpty" =>
             ~Open(c.box) \/ (Slots(c.box) # <<>> /\ ~Fits(Head(Slots(c.box)), c.limit))
    \/ /\ c.pc = "user" /\ d.pc = "sendFull"
       /\ d.box \in Boxes /\ Open(d.box) /\ MailBoxTable[d.box].numSlots # 0
       /\ Fresh(d.msg, d.box)
    \/ c.pc \in PendingPcs /\ d.pc = "sendOrder" /\ d.box = c.box /\ d.msg = c.msg
    \/ /\ c.pc = "user" /\ d.pc = "recvZero"
       /\ ZeroSlots(d.box) /\ <<Current, "receive", d.box>> \in Client.calls
    \/ c.pc \in UncountedPcs /\ d.pc = "sendSort" /\ d.box = c.box
    \/ /\ c.pc = "sendWoke" /\ d.pc = "user"
       /\ MailBoxTable[c.box].recv_size < c.msg.size

Still ==
    /\ UNCHANGED <<MailSlotTable, numSlotsUsed, nextMid, delivered>>
    /\ \A a \in Boxes : Kept(MailBoxTable'[a], MailBoxTable[a])
    /\ SameHolds /\ OthersStay /\ Moves(call[Current], call'[Current])

\* MboxReceive blocks.
Awaits(b) ==
    LET d == call'[Current]
        e == Len(processTable) + 1
        old == MailBoxTable[b]
        new == MailBoxTable'[b]
    IN  /\ UNCHANGED <<MailSlotTable, numSlotsUsed, nextMid, delivered>>
        /\ KeptBut(b) /\ SameHolds /\ OthersStay
        /\ Open(b) /\ old.numSlots # 0 /\ old.slots = <<>>
        /\ new.status = old.status /\ new.numSlots = old.numSlots
        /\ new.slots = old.slots /\ new.numSlotsUsed = old.numSlotsUsed
        /\ new.waitingToReceive = Append(old.waitingToReceive, e) /\ new.recv_size \in Limits
        /\ Len(processTable') = e /\ processTable'[e].pid = Current
        /\ processTable'[e].slotThatHoldsMyMessage = NULL
        /\ call[Current].pc = "user"
        /\ d.pc = "recvEmpty" /\ d.box = b /\ d.entry = e /\ d.limit \in Limits

\* A message counted in or out, or neither.
CountedBy(n, b) ==
    /\ MailBoxTable'[b].numSlotsUsed = MailBoxTable[b].numSlotsUsed + n
    /\ numSlotsUsed' = numSlotsUsed + n

\* The message m is put into slot k: of Current, which sends, or has waited to.
Puts(b, k, m) ==
    LET c == call[Current]
        d == call'[Current]
        old == MailBoxTable[b]
        new == MailBoxTable'[b]
    IN  /\ Open(b) /\ MailSlotTable[k].status = UNUSED
        /\ MailSlotTable' = [MailSlotTable EXCEPT
                               ![k] = [status |-> CREATED, mboxID |-> b, message |-> m]]
        /\ SameBox(new, old) /\ new.slots = Append(old.slots, k)
        /\ KeptBut(b) /\ UNCHANGED <<nextMid, delivered>> /\ OthersStay
        /\ \/ c.pc = "user" /\ old.numSlots # 0 /\ Fresh(m, b)
           \/ c.pc \in PendingPcs /\ c.box = b /\ m = c.msg
        /\ \/ /\ Receivers(b) # <<>> /\ new.waitingToReceive = Tail(Receivers(b))
              /\ d.pc = "sendWoke" /\ d.box = b /\ d.msg = m /\ CountedBy(0, b)
              /\ \A e \in 1 .. Len(processTable) :
                    Holds(e)' = IF e = Head(Receivers(b)) THEN k ELSE Holds(e)
              /\ WakesOf(Head(Receivers(b)))
           \/ /\ Receivers(b) = <<>> /\ new.waitingToReceive = <<>> /\ SameHolds
              /\ \/ d.pc = "sendSort" /\ d.box = b /\ CountedBy(0, b)
                 \/ d.pc = "user" /\ CountedBy(1, b)

\* A call ends that counts a message in, or out.
Counts(b, pcs, n) ==
    LET old == MailBoxTable[b]
        new == MailBoxTable'[b]
    IN  /\ UNCHANGED <<MailSlotTable, nextMid, delivered>> /\ KeptBut(b) /\ SameHolds /\ OthersStay
        /\ SameBox(new, old) /\ new.slots = old.slots
        /\ new.waitingToReceive = old.waitingToReceive
        /\ call[Current].pc \in pcs /\ call[Current].box = b /\ call'[Current].pc = "user"
        /\ CountedBy(n, b)

\* The message in slot k is taken, by a call of MboxReceive or the end of one.
Takes(b, k) ==
    LET c == call[Current]
        d == call'[Current]
        old == MailBoxTable[b]
        new == MailBoxTable'[b]
    IN  /\ Open(b) /\ k \in Range(old.slots)
        /\ c.pc = "user" \/ (c.pc = "recvEmpty" /\ c.box = b /\ k = Holds(c.entry))
        /\ MailSlotTable' = [MailSlotTable EXCEPT ![k] = CleanSlot]
        /\ delivered' = Append(delivered,
                               [msg |-> MailSlotTable[k].message, by |-> Current, box |-> b])
        /\ SameBox(new, old) /\ new.slots = RemoveAt(old.slots, Place(old.slots, k))
        /\ new.waitingToReceive = old.waitingToReceive
        /\ KeptBut(b) /\ UNCHANGED nextMid /\ SameHolds /\ OthersStay
        /\ \/ d.pc = "recvWoke" /\ d.box = b /\ CountedBy(0, b)
           \/ d.pc = "user" /\ CountedBy(-1, b)

\* What a mailbox without slots hands over, to a process that calls or was blocked.
HandsOver ==
    /\ UNCHANGED <<MailSlotTable, numSlotsUsed, nextMid>>
    /\ \A a \in Boxes : Kept(MailBoxTable'[a], MailBoxTable[a])
    /\ SameHolds /\ OthersStay
    /\ \/ call'[Current] = call[Current] /\ call[Current].pc = "user"
       \/ call[Current].pc = "recvZero" /\ call'[Current].pc = "user"
    /\ call[Current].pc = "user" =>
          \E b \in Boxes : ZeroSlots(b) /\ <<Current, "receive", b>> \in Client.calls
    /\ \E m \in Message \cup {NULL} : \E b \in Boxes :
          delivered' = Append(delivered, [msg |-> m, by |-> Current, box |-> b])

Makes(b, args) ==
    LET new == MailBoxTable'[b]
        old == MailBoxTable[b]
    IN  /\ UNCHANGED <<MailSlotTable, numSlotsUsed, delivered, call, processTable>> /\ KeptBut(b)
        /\ old.status = UNUSED /\ new.status = CREATED
        /\ new.numSlots = args.slots /\ new.slots = <<>> /\ new.numSlotsUsed = 0
        /\ new.waitingToReceive = old.waitingToReceive
        /\ nextMid' > nextMid
        /\ nextMid' <= MAXMBOX => b = nextMid' - 1

Closes(b) ==
    LET old == MailBoxTable[b]
        new == MailBoxTable'[b]
    IN  /\ UNCHANGED <<MailSlotTable, numSlotsUsed, delivered, nextMid, processTable>> /\ KeptBut(b)
        /\ OthersStay
        /\ new.status = UNUSED /\ new.numSlots = old.numSlots /\ new.slots = old.slots
        /\ new.numSlotsUsed = old.numSlotsUsed
        /\ new.waitingToReceive = old.waitingToReceive
        /\ call[Current].pc = "user" /\ call'[Current].pc = "releaseRecv"

SlotKinds ==
    \/ Still \/ HandsOver
    \/ \E b \in Boxes :
          \/ Awaits(b) \/ Closes(b)
          \/ Counts(b, UncountedPcs, 1) \/ Counts(b, {"recvWoke"}, -1)
          \/ \E k \in MailSlots : Takes(b, k) \/ \E m \in Message \cup {NULL} : Puts(b, k, m)
          \/ \E args \in Client.creates : Makes(b, args)

LEMMA TableAt ==
    ASSUME Before, NEW b \in Boxes, NEW new, MailBoxTable' = [MailBoxTable EXCEPT ![b] = new]
    PROVE  MailBoxTable'[b] = new /\ KeptBut(b)
<1>1. MailBoxTable \in [Boxes -> MailBox]
  BY DEF Before, CoreOK, TableOK
<1> QED
  BY <1>1 DEF KeptBut, Kept, SameBox

LEMMA CallAt ==
    ASSUME Before, NEW c, call' = [call EXCEPT ![Current] = c]
    PROVE  call'[Current] = c /\ OthersStay
BY CallOf DEF OthersStay, Before, CoreOK

LEMMA SameTable ==
    ASSUME UNCHANGED MailBoxTable
    PROVE  \A a \in Boxes : Kept(MailBoxTable'[a], MailBoxTable[a])
BY DEF Kept, SameBox

LEMMA SameTableBut ==
    ASSUME NEW b \in Boxes, KeptBut(b), Kept(MailBoxTable'[b], MailBoxTable[b])
    PROVE  \A a \in Boxes : Kept(MailBoxTable'[a], MailBoxTable[a])
BY DEF KeptBut

LEMMA HaltSlots ==
    ASSUME NEW how, Halt(how)
    PROVE  Still
BY DEF Halt, core, Still, Kept, SameBox, SameHolds, Holds, OthersStay, Moves

LEMMA NewEntry ==
    ASSUME Before, processTable' = Append(processTable, [pid |-> Current, slotThatHoldsMyMessage |-> NULL])
    PROVE  /\ SameHolds /\ Len(processTable') = NextEntry
           /\ processTable'[NextEntry].pid = Current
           /\ processTable'[NextEntry].slotThatHoldsMyMessage = NULL
<1> DEFINE n == Len(processTable)
           x == [pid |-> Current, slotThatHoldsMyMessage |-> NULL]
<1>1. n \in Nat /\ processTable \in Seq(Phase2Proc) /\ Current \in All
  BY TableOf, CallOf, IdleIsCall
<1>4. x \in Phase2Proc
  BY <1>1 DEF Phase2Proc
<1>2. /\ Len(processTable') = n+1 /\ processTable'[n+1] = x
      /\ \A e \in 1 .. n : processTable'[e] = processTable[e]
  BY <1>1, <1>4, AppendProperties
<1>3. processTable'[n+1].pid = Current /\ processTable'[n+1].slotThatHoldsMyMessage = NULL
  BY <1>2
<1> HIDE DEF x
<1> QED
  BY <1>2, <1>3 DEF SameHolds, Holds, NextEntry

\* blockMe in a send, or in a mailbox without slots.
LEMMA BlockSlots ==
    ASSUME Before, NEW b \in Boxes, NEW newBox, NEW c \in Call, Kept(newBox, MailBoxTable[b]),
           Moves(call[Current], [c EXCEPT !.entry = NextEntry]), Block(b, newBox, c)
    PROVE  Still
<1>1. CASE Halt("out_of_bounds") \/ Halt("sentinel_blocked")
  BY <1>1, HaltSlots
<1>2. CASE /\ processTable' = Append(processTable,
                                     [pid |-> Current, slotThatHoldsMyMessage |-> NULL])
           /\ MailBoxTable' = [MailBoxTable EXCEPT ![b] = newBox]
           /\ call' = [call EXCEPT ![Current] = [c EXCEPT !.entry = NextEntry]]
           /\ UNCHANGED <<MailSlotTable, nextMid, nextSlot, numSlotsUsed, delivered, outcome>>
  <2>1. \A a \in Boxes : Kept(MailBoxTable'[a], MailBoxTable[a])
    BY <1>2, TableAt, SameTableBut
  <2> DEFINE d == [c EXCEPT !.entry = NextEntry]
  <2>2. OthersStay /\ call'[Current] = d
    BY <1>2, CallAt
  <2> HIDE DEF d
  <2>3. Moves(call[Current], call'[Current])
    BY <2>2 DEF d
  <2>4. SameHolds
    BY <1>2, NewEntry
  <2> QED
    BY <1>2, <2>1, <2>2, <2>3, <2>4 DEF Still
<1> QED
  BY <1>1, <1>2 DEF Block

\* What a send leaves in its mailbox, but for the counts.
LeavesAs(b, box) ==
    LET new == MailBoxTable'[b]
    IN  /\ KeptBut(b) /\ SameBox(new, box) /\ new.slots = box.slots
        /\ new.waitingToReceive = box.waitingToReceive

LEMMA WakeNextSlots ==
    ASSUME Before, NEW b \in Boxes, NEW box \in MailBox, NEW c \in Call, c.box = b,
           WakeNextInOrder(b, box, c)
    PROVE  /\ LeavesAs(b, box) /\ OthersStay
           /\ \/ /\ call'[Current].pc = "sendSort" /\ call'[Current].box = b
                 /\ MailBoxTable'[b].numSlotsUsed = box.numSlotsUsed
                 /\ numSlotsUsed' = numSlotsUsed
              \/ /\ call'[Current].pc = "user"
                 /\ MailBoxTable'[b].numSlotsUsed = box.numSlotsUsed + 1
                 /\ numSlotsUsed' = numSlotsUsed + 1
<1>1. CASE box.getCorrectOrder # <<>>
  <2> DEFINE new == [box EXCEPT !.getCorrectOrder = Tail(@)]
             d == [c EXCEPT !.pc = "sendSort"]
  <2>1. /\ MailBoxTable' = [MailBoxTable EXCEPT ![b] = new]
        /\ call' = [call EXCEPT ![Current] = d] /\ UNCHANGED numSlotsUsed
    BY <1>1 DEF WakeNextInOrder
  <2>2. /\ SameBox(new, box) /\ new.slots = box.slots /\ new.numSlotsUsed = box.numSlotsUsed
        /\ new.waitingToReceive = box.waitingToReceive
    BY DEF SameBox, MailBox
  <2>3. d.pc = "sendSort" /\ d.box = b
    BY DEF Call
  <2> HIDE DEF new, d
  <2> QED
    BY <2>1, <2>2, <2>3, TableAt, CallAt DEF LeavesAs
<1>2. CASE box.getCorrectOrder = <<>>
  <2> DEFINE new == [box EXCEPT !.numSlotsUsed = @ + 1]
  <2>1. /\ MailBoxTable' = [MailBoxTable EXCEPT ![b] = new]
        /\ call' = [call EXCEPT ![Current] = Idle] /\ numSlotsUsed' = numSlotsUsed + 1
    BY <1>2 DEF WakeNextInOrder, Returns
  <2>2. /\ SameBox(new, box) /\ new.slots = box.slots /\ new.numSlotsUsed = box.numSlotsUsed + 1
        /\ new.waitingToReceive = box.waitingToReceive
    BY DEF SameBox, MailBox
  <2>3. Idle.pc = "user"
    BY DEF Idle
  <2> HIDE DEF new
  <2> QED
    BY <2>1, <2>2, <2>3, TableAt, CallAt DEF LeavesAs
<1> QED
  BY <1>1, <1>2

\* The receiver's entry gets the slot.
LEMMA EntryFilled ==
    ASSUME Before, NEW e \in 1 .. Len(processTable), NEW k,
           processTable' = [processTable EXCEPT ![e].slotThatHoldsMyMessage = k]
    PROVE  \A x \in 1 .. Len(processTable) : Holds(x)' = IF x = e THEN k ELSE Holds(x)
<1>1. processTable \in Seq(Phase2Proc) /\ Len(processTable) \in Nat
  BY LenProperties DEF Before, CoreOK, ProcsOK
<1>2. DOMAIN processTable = 1 .. Len(processTable)
  BY <1>1, LenProperties
<1>3. \A i \in 1 .. Len(processTable) : processTable[i] \in Phase2Proc
  BY <1>1, ElementOfSeq
<1> QED
  BY <1>2, <1>3 DEF Phase2Proc, Holds

\* The sender's own message, counted already or waiting since before.
Sending(b, m) ==
    LET c == call[Current]
    IN  \/ c.pc = "user" /\ MailBoxTable[b].numSlots # 0 /\ Fresh(m, b)
        \/ c.pc \in PendingPcs /\ c.box = b /\ m = c.msg

LEMMA PutInSlotSlots ==
    ASSUME Before, NEW b \in Boxes, Open(b), NEW box \in MailBox,
           Kept(box, MailBoxTable[b]), box.waitingToReceive = Receivers(b),
           NEW c \in Call, c.box = b, Sending(b, c.msg),
           NEW k \in MailSlots, MailSlotTable[k].status = UNUSED, PutInSlot(b, box, c, k)
    PROVE  Puts(b, k, c.msg)
<1> DEFINE n == Len(processTable)
           e == Head(box.waitingToReceive)
           full == [box EXCEPT !.numMessagesSent = @ + 1, !.slots = Append(@, k)]
           old == MailBoxTable[b]
<1>1. n \in Nat /\ BoxOK(old, n) /\ old \in MailBox
  BY TableOf
<1>2. /\ full \in MailBox /\ SameBox(full, old) /\ full.slots = Append(old.slots, k)
      /\ full.waitingToReceive = Receivers(b) /\ full.numSlotsUsed = old.numSlotsUsed
  <2>1. box.numMessagesSent + 1 \in Nat /\ Append(box.slots, k) \in Seq(MailSlots)
    BY AppendProperties DEF MailBox
  <2>2. full \in MailBox
    BY <2>1 DEF MailBox
  <2> QED
    BY <2>2 DEF Kept, SameBox, MailBox
<1>3. /\ MailSlotTable' = [MailSlotTable EXCEPT
                               ![k] = [status |-> CREATED, mboxID |-> b, message |-> c.msg]]
      /\ UNCHANGED <<nextMid, delivered>>
  BY DEF PutInSlot
<1>4. CASE Receivers(b) # <<>>
  <2> DEFINE new == [full EXCEPT !.waitingToReceive = Tail(@)]
             d == [c EXCEPT !.pc = "sendWoke"]
  <2>1. /\ processTable' = [processTable EXCEPT ![e].slotThatHoldsMyMessage = k]
        /\ MailBoxTable' = [MailBoxTable EXCEPT ![b] = new]
        /\ call' = [call EXCEPT ![Current] = d]
        /\ UnblockProc(processTable[e].pid) /\ UNCHANGED numSlotsUsed
    BY <1>4 DEF PutInSlot, ReceiverToWake
  <2> HIDE DEF full
  <2>2. /\ SameBox(new, old) /\ new.slots = Append(old.slots, k)
        /\ new.waitingToReceive = Tail(Receivers(b)) /\ new.numSlotsUsed = old.numSlotsUsed
    BY <1>2 DEF SameBox, MailBox
  <2>3. d.pc = "sendWoke" /\ d.box = b /\ d.msg = c.msg
    BY DEF Call
  <2> HIDE DEF new, d
  <2>4. e = Head(Receivers(b)) /\ e \in 1 .. n
    BY <1>1, <1>4, BoxFacts DEF Receivers
  <2>5. WakesOf(e)
    BY <2>1, <2>4, RunAfterUnblock
  <2> HIDE DEF e
  <2>6. \A x \in 1 .. Len(processTable) : Holds(x)' = IF x = e THEN k ELSE Holds(x)
    BY <2>1, <2>4, EntryFilled
  <2>7. KeptBut(b) /\ MailBoxTable'[b] = new /\ OthersStay /\ call'[Current] = d
    BY <2>1, TableAt, CallAt
  <2>8. CountedBy(0, b)
    <3>1. old.numSlotsUsed \in Int /\ numSlotsUsed \in Int
      BY <1>1 DEF MailBox, Before, CoreOK
    <3> QED
      BY <2>1, <2>2, <2>7, <3>1 DEF CountedBy
  <2> HIDE DEF n
  <2> QED
    BY <1>3, <1>4, <2>2, <2>3, <2>4, <2>5, <2>6, <2>7, <2>8 DEF Puts, Sending
<1>5. CASE Receivers(b) = <<>>
  <2>1. WakeNextInOrder(b, full, c) /\ UNCHANGED processTable
    BY <1>5 DEF PutInSlot, ReceiverToWake
  <2> HIDE DEF full
  <2>2. /\ LeavesAs(b, full) /\ OthersStay
        /\ \/ /\ call'[Current].pc = "sendSort" /\ call'[Current].box = b
              /\ MailBoxTable'[b].numSlotsUsed = full.numSlotsUsed
              /\ numSlotsUsed' = numSlotsUsed
           \/ /\ call'[Current].pc = "user"
              /\ MailBoxTable'[b].numSlotsUsed = full.numSlotsUsed + 1
              /\ numSlotsUsed' = numSlotsUsed + 1
    BY <1>2, <2>1, WakeNextSlots
  <2>3. SameHolds
    BY <2>1 DEF SameHolds, Holds
  <2>4. \/ call'[Current].pc = "sendSort" /\ call'[Current].box = b /\ CountedBy(0, b)
        \/ call'[Current].pc = "user" /\ CountedBy(1, b)
    <3>1. old.numSlotsUsed \in Int /\ numSlotsUsed \in Int
      BY <1>1 DEF MailBox, Before, CoreOK
    <3> QED
      BY <1>2, <2>2, <3>1 DEF CountedBy
  <2>5. /\ KeptBut(b) /\ SameBox(MailBoxTable'[b], old)
        /\ MailBoxTable'[b].slots = Append(old.slots, k)
        /\ MailBoxTable'[b].waitingToReceive = <<>>
    BY <1>2, <1>5, <2>2 DEF LeavesAs, SameBox
  <2> HIDE DEF n, e
  <2> QED
    BY <1>3, <1>5, <2>2, <2>3, <2>4, <2>5 DEF Puts, Sending
<1> QED
  BY <1>4, <1>5

LEMMA PutMessageSlots ==
    ASSUME Before, NEW b \in Boxes, Open(b), NEW box \in MailBox,
           Kept(box, MailBoxTable[b]), box.waitingToReceive = Receivers(b),
           NEW c \in Call, c.box = b, Sending(b, c.msg), PutMessage(b, box, c)
    PROVE  Still \/ \E k \in MailSlots : Puts(b, k, c.msg)
<1>1. CASE Halt("out_of_bounds")
  BY <1>1, HaltSlots
<1>2. ASSUME NEW i \in MailSlots, FreeSlotAt(i), nextSlot + i < MAXSLOTS,
             PutInSlot(b, box, c, nextSlot + i)
      PROVE  \E k \in MailSlots : Puts(b, k, c.msg)
  <2> DEFINE k == nextSlot + i
  <2>1. k \in MailSlots /\ k % MAXSLOTS = k
    <3>1. i \in Nat /\ nextSlot \in Nat /\ k < MAXSLOTS /\ MAXSLOTS \in Nat \ {0}
      BY <1>2, MailboxAssumption DEF MailSlots, Before, CoreOK
    <3>2. k \in 0 .. MAXSLOTS-1
      BY <3>1
    <3> HIDE DEF k
    <3>3. k % MAXSLOTS = k
      BY <3>1, <3>2
    <3> QED
      BY <3>2, <3>3 DEF MailSlots
  <2>2. MailSlotTable[k].status = UNUSED
    <3>1. i \in Nat /\ MailSlotTable[(nextSlot + i) % MAXSLOTS].status = UNUSED
      BY <1>2 DEF FreeSlotAt, MailSlots
    <3> QED
      BY <2>1, <3>1
  <2>3. PutInSlot(b, box, c, k)
    BY <1>2
  <2> HIDE DEF k
  <2> QED
    BY <2>1, <2>2, <2>3, PutInSlotSlots
<1> QED
  BY <1>1, <1>2 DEF PutMessage

LEMMA SendMessageSlots ==
    ASSUME Before, NEW b \in Boxes, Open(b), NEW m \in Message, Fresh(m, b),
           call[Current].pc = "user", SendMessage(b, m)
    PROVE  Still \/ \E k \in MailSlots : Puts(b, k, m)
<1> DEFINE old == MailBoxTable[b]
           number == old.nextInLineMessageNumber
           box == [old EXCEPT !.nextInLineMessageNumber = @ + 1]
           c(pc) == [Idle EXCEPT !.pc = pc, !.box = b, !.msg = m, !.number = number]
           n == Len(processTable)
<1>1. n \in Nat /\ BoxOK(old, n) /\ old \in MailBox /\ number \in Nat
  BY TableOf DEF MailBox
<1>2. /\ box \in MailBox /\ Kept(box, old) /\ box.waitingToReceive = Receivers(b)
      /\ box.numSlots = old.numSlots /\ box.slots = old.slots
  <2>1. box \in MailBox
    BY <1>1, OtherBoxes DEF BoxOK
  <2> QED
    BY <1>1, <2>1 DEF Kept, SameBox, MailBox, Receivers
<1>3. /\ c("sendZero") \in Call /\ c("sendZero").box = b /\ c("sendZero").pc = "sendZero"
      /\ c("sendFull") \in Call /\ c("sendFull").box = b /\ c("sendFull").pc = "sendFull"
      /\ c("sendFull").msg = m
      /\ c("user") \in Call /\ c("user").box = b /\ c("user").msg = m
  BY <1>1, IdleIsCall DEF Call, Idle
<1>4. \/ /\ box.numSlots = 0
         /\ Block(b, [box EXCEPT !.waitingToSend = Append(@, NextEntry), !.zeroSlot = m],
                  c("sendZero"))
      \/ /\ box.numSlots = 0
         /\ MailBoxTable' = [MailBoxTable EXCEPT
                 ![b] = [box EXCEPT !.waitingToReceive = Tail(@), !.zeroSlot = m]]
         /\ UNCHANGED <<MailSlotTable, nextMid, nextSlot, numSlotsUsed,
                          processTable, call, delivered, outcome>>
      \/ /\ box.numSlots # 0
         /\ Block(b, [box EXCEPT !.waitingToSend = Append(@, NextEntry)], c("sendFull"))
      \/ box.numSlots # 0 /\ PutMessage(b, box, c("user"))
  BY DEF SendMessage
<1>5. old.numSlots = 0 => ZeroSlots(b)
  BY DEF ZeroSlots
<1> DEFINE zero == c("sendZero")
           full == c("sendFull")
           put == c("user")
<1> HIDE DEF c, number, box, zero, full, put
<1>6. ASSUME box.numSlots = 0,
             Block(b, [box EXCEPT !.waitingToSend = Append(@, NextEntry), !.zeroSlot = m], zero)
      PROVE  Still
  <2> DEFINE new == [box EXCEPT !.waitingToSend = Append(@, NextEntry), !.zeroSlot = m]
  <2>1. Kept(new, old)
    BY <1>2 DEF Kept, SameBox, MailBox
  <2>2. zero \in Call /\ zero.pc = "sendZero"
    BY <1>3 DEF zero
  <2>3. Moves(call[Current], [zero EXCEPT !.entry = NextEntry])
    <3>1. [zero EXCEPT !.entry = NextEntry].pc = "sendZero"
      BY <2>2 DEF Call
    <3> QED
      BY <3>1 DEF Moves, FreePcs, UncountedPcs
  <2> HIDE DEF new
  <2> QED
    BY <1>6, <2>1, <2>2, <2>3, BlockSlots DEF new
<1>7. ASSUME box.numSlots # 0,
             Block(b, [box EXCEPT !.waitingToSend = Append(@, NextEntry)], full)
      PROVE  Still
  <2> DEFINE new == [box EXCEPT !.waitingToSend = Append(@, NextEntry)]
  <2>1. Kept(new, old)
    BY <1>2 DEF Kept, SameBox, MailBox
  <2>2. full \in Call /\ full.pc = "sendFull" /\ full.box = b /\ full.msg = m
    BY <1>3 DEF full
  <2>3. Moves(call[Current], [full EXCEPT !.entry = NextEntry])
    <3> DEFINE d == [full EXCEPT !.entry = NextEntry]
    <3>1. d.pc = "sendFull" /\ d.box = b /\ d.msg = m
      BY <2>2 DEF Call
    <3> HIDE DEF d
    <3>2. Moves(call[Current], d)
      BY <1>2, <1>7, <3>1 DEF Moves
    <3> QED
      BY <3>2 DEF d
  <2> HIDE DEF new
  <2> QED
    BY <1>7, <2>1, <2>2, <2>3, BlockSlots DEF new
<1>8. ASSUME box.numSlots = 0,
             MailBoxTable' = [MailBoxTable EXCEPT
                 ![b] = [box EXCEPT !.waitingToReceive = Tail(@), !.zeroSlot = m]],
             UNCHANGED <<MailSlotTable, nextMid, nextSlot, numSlotsUsed,
                          processTable, call, delivered, outcome>>
      PROVE  Still
  <2> DEFINE new == [box EXCEPT !.waitingToReceive = Tail(@), !.zeroSlot = m]
  <2>1. Kept(new, old)
    BY <1>2, <1>8 DEF Kept, SameBox, MailBox, Open
  <2>2. MailBoxTable' = [MailBoxTable EXCEPT ![b] = new]
    BY <1>8
  <2> HIDE DEF new
  <2>3. \A a \in Boxes : Kept(MailBoxTable'[a], MailBoxTable[a])
    BY <2>1, <2>2, TableAt, SameTableBut
  <2> QED
    BY <1>8, <2>3 DEF Still, SameHolds, Holds, OthersStay, Moves
<1>9. ASSUME box.numSlots # 0, PutMessage(b, box, put)
      PROVE  Still \/ \E k \in MailSlots : Puts(b, k, m)
  <2>1. put \in Call /\ put.box = b /\ put.msg = m
    BY <1>3 DEF put
  <2>2. Sending(b, put.msg)
    BY <1>2, <1>9, <2>1 DEF Sending
  <2>3. Still \/ \E k \in MailSlots : Puts(b, k, put.msg)
    BY <1>2, <1>9, <2>1, <2>2, PutMessageSlots
  <2> QED
    BY <2>1, <2>3
<1> QED
  BY <1>4, <1>6, <1>7, <1>8, <1>9 DEF zero, full, put

LEMMA SendSlots ==
    ASSUME Before, ClientsOK, NEW b \in Boxes,
           \/ \E size \in Sizes : MboxSend(b, size) \/ MboxCondSend(b, size)
           \/ b \in Devices /\ DeviceInterrupt(b)
    PROVE  Still \/ \E k \in MailSlots : \E m \in Message : Puts(b, k, m)
<1>1. CASE Halt("halted")
  BY <1>1, HaltSlots
<1>2. ASSUME NEW p \in Procs \cup {NULL}, NEW size \in Nat, size \in Sizes \/ b \in Devices,
             sends' = [sends EXCEPT ![p] = @ + 1]
      PROVE  NextMessage(p, size) \in Message /\ Fresh(NextMessage(p, size), b)
  <2>1. NextMessage(p, size) \in Message
    BY NextMessageOf
  <2>2. sends'[p] = sends[p] + 1
    BY <1>2 DEF ClientsOK
  <2> QED
    BY <1>2, <2>1, <2>2 DEF Fresh, NextMessage
<1>3. ASSUME NEW size \in Sizes, MboxSend(b, size) \/ MboxCondSend(b, size)
      PROVE  Still \/ \E k \in MailSlots : \E m \in Message : Puts(b, k, m)
  <2> DEFINE m == NextMessage(Current, size)
  <2>1. /\ Current \in Procs /\ Open(b) /\ call[Current].pc = "user"
        /\ sends' = [sends EXCEPT ![Current] = @ + 1]
        /\ Halt("halted") \/ SendMessage(b, m)
    BY <1>3, CallerOf DEF MboxSend, MboxCondSend, Open, Sendable, Calls
  <2>2. m \in Message /\ Fresh(m, b)
    BY <1>2, <2>1, MailboxAssumption
  <2> HIDE DEF m
  <2> QED
    BY <1>1, <2>1, <2>2, SendMessageSlots
<1>4. ASSUME b \in Devices, DeviceInterrupt(b)
      PROVE  Still \/ \E k \in MailSlots : \E m \in Message : Puts(b, k, m)
  <2> DEFINE m == NextMessage(NULL, DeviceMsgSize)
  <2>1. /\ Open(b) /\ call[Current].pc = "user" /\ SendMessage(b, m)
        /\ sends' = [sends EXCEPT ![NULL] = @ + 1]
    BY <1>4 DEF DeviceInterrupt, Open, Sendable
  <2>2. m \in Message /\ Fresh(m, b)
    BY <1>2, <1>4, <2>1 DEF DeviceMsgSize
  <2> HIDE DEF m
  <2> QED
    BY <2>1, <2>2, SendMessageSlots
<1> QED
  BY <1>3, <1>4

LEMMA TakeMessageSlots ==
    ASSUME Before, NEW b \in Boxes, Open(b), NEW k \in Range(Slots(b)),
           LET c == call[Current]
           IN  c.pc = "user" \/ (c.pc = "recvEmpty" /\ c.box = b /\ k = Holds(c.entry)),
           TakeMessage(b, k)
    PROVE  k \in MailSlots /\ Takes(b, k)
<1> DEFINE n == Len(processTable)
           old == MailBoxTable[b]
           rest == WithoutSlot(old, k)
           q == RemoveAt(old.slots, Place(old.slots, k))
<1>1. /\ n \in Nat /\ BoxOK(old, n) /\ old \in MailBox
      /\ old.numSlotsUsed \in Int /\ numSlotsUsed \in Int
  BY TableOf DEF MailBox, Before, CoreOK
<1>2. k \in MailSlots
  BY <1>1, SlotTaken DEF Slots
<1>3. /\ rest \in MailBox /\ SameBox(rest, old) /\ rest.slots = q
      /\ rest.waitingToReceive = old.waitingToReceive /\ rest.numSlotsUsed = old.numSlotsUsed
  <2>1. rest \in MailBox
    BY <1>1, OtherBoxes DEF BoxOK, Slots
  <2> QED
    BY <1>1, <2>1 DEF WithoutSlot, SameBox, MailBox
<1>4. /\ MailSlotTable' = [MailSlotTable EXCEPT ![k] = CleanSlot]
      /\ delivered' = Append(delivered,
                             [msg |-> MailSlotTable[k].message, by |-> Current, box |-> b])
      /\ UNCHANGED <<nextMid, processTable>>
  BY DEF TakeMessage, Got
<1>5. SameHolds
  BY <1>4 DEF SameHolds, Holds
<1> DEFINE done(new) == /\ SameBox(new, old) /\ new.slots = q
                        /\ new.waitingToReceive = old.waitingToReceive
<1>6. CASE SenderToWake(old)
  <2> DEFINE new == WithoutSender(rest)
             d == [Idle EXCEPT !.pc = "recvWoke", !.box = b]
  <2>1. /\ MailBoxTable' = [MailBoxTable EXCEPT ![b] = new]
        /\ call' = [call EXCEPT ![Current] = d] /\ UNCHANGED numSlotsUsed
    BY <1>6 DEF TakeMessage
  <2> HIDE DEF rest
  <2>2. done(new) /\ new.numSlotsUsed = old.numSlotsUsed
    BY <1>3 DEF WithoutSender, SameBox, MailBox
  <2>3. d.pc = "recvWoke" /\ d.box = b
    BY DEF Idle
  <2> HIDE DEF new, d
  <2>4. KeptBut(b) /\ MailBoxTable'[b] = new /\ OthersStay /\ call'[Current] = d
    BY <2>1, TableAt, CallAt
  <2>5. CountedBy(0, b)
    BY <1>1, <2>1, <2>2, <2>4 DEF CountedBy
  <2> HIDE DEF q, n
  <2>6. Takes(b, k)
    BY <1>4, <1>5, <2>2, <2>3, <2>4, <2>5 DEF Takes, Slots, q
  <2> QED
    BY <1>2, <2>6
<1>7. CASE ~SenderToWake(old)
  <2> DEFINE new == [rest EXCEPT !.numSlotsUsed = @ - 1]
  <2>1. /\ MailBoxTable' = [MailBoxTable EXCEPT ![b] = new]
        /\ call' = [call EXCEPT ![Current] = Idle] /\ numSlotsUsed' = numSlotsUsed - 1
    BY <1>7 DEF TakeMessage, Returns
  <2> HIDE DEF rest
  <2>2. done(new) /\ new.numSlotsUsed = old.numSlotsUsed - 1
    BY <1>3 DEF SameBox, MailBox
  <2>3. Idle.pc = "user"
    BY DEF Idle
  <2> HIDE DEF new
  <2>4. KeptBut(b) /\ MailBoxTable'[b] = new /\ OthersStay /\ call'[Current] = Idle
    BY <2>1, TableAt, CallAt
  <2>5. CountedBy(-1, b)
    BY <1>1, <2>1, <2>2, <2>4 DEF CountedBy
  <2> HIDE DEF q, n
  <2>6. Takes(b, k)
    BY <1>4, <1>5, <2>2, <2>3, <2>4, <2>5 DEF Takes, Slots, q
  <2> QED
    BY <1>2, <2>6
<1> QED
  BY <1>6, <1>7

LEMMA ReceiveZeroSlots ==
    ASSUME Before, NEW b \in Boxes, ZeroSlots(b), call[Current].pc = "user",
           <<Current, "receive", b>> \in Client.calls, ReceiveZero(b)
    PROVE  Still \/ HandsOver
<1> DEFINE old == MailBoxTable[b]
           n == Len(processTable)
<1>1. n \in Nat /\ BoxOK(old, n) /\ old \in MailBox /\ old.zeroSlot \in Message \cup {NULL}
  BY TableOf DEF MailBox
<1>2. CASE SenderToWake(old)
  <2> DEFINE new == WithoutSender(old)
  <2>1. /\ MailBoxTable' = [MailBoxTable EXCEPT ![b] = new]
        /\ delivered' = Append(delivered, [msg |-> old.zeroSlot, by |-> Current, box |-> b])
        /\ UNCHANGED <<MailSlotTable, nextMid, numSlotsUsed, processTable, call>>
    BY <1>2 DEF ReceiveZero, Got
  <2>2. Kept(new, old)
    BY <1>1 DEF Kept, SameBox, MailBox, WithoutSender
  <2> HIDE DEF new
  <2>3. \A a \in Boxes : Kept(MailBoxTable'[a], MailBoxTable[a])
    BY <2>1, <2>2, TableAt, SameTableBut
  <2> HIDE DEF n
  <2> QED
    BY <1>1, <2>1, <2>3 DEF HandsOver, SameHolds, Holds, OthersStay
<1>3. CASE Block(b, [old EXCEPT !.waitingToReceive = Append(@, NextEntry)],
                 [Idle EXCEPT !.pc = "recvZero", !.box = b])
  <2> DEFINE new == [old EXCEPT !.waitingToReceive = Append(@, NextEntry)]
             c == [Idle EXCEPT !.pc = "recvZero", !.box = b]
             d == [c EXCEPT !.entry = NextEntry]
  <2>1. Kept(new, old)
    BY <1>1 DEF Kept, SameBox, MailBox, ZeroSlots, Open
  <2>2. c \in Call /\ d.pc = "recvZero" /\ d.box = b
    BY IdleIsCall DEF Call, Idle
  <2> HIDE DEF d
  <2>3. Moves(call[Current], d)
    BY <2>2 DEF Moves
  <2> HIDE DEF new, c
  <2> QED
    BY <1>3, <2>1, <2>2, <2>3, BlockSlots DEF new, c, d
<1> QED
  BY <1>2, <1>3 DEF ReceiveZero

LEMMA ReceiveSlots ==
    ASSUME Before, NEW b \in Boxes, NEW limit \in Limits, limit \in Nat,
           MboxReceive(b, limit) \/ MboxCondReceive(b, limit)
    PROVE  Still \/ HandsOver \/ Awaits(b) \/ \E k \in MailSlots : Takes(b, k)
<1> DEFINE old == MailBoxTable[b]
           n == Len(processTable)
<1>1. n \in Nat /\ BoxOK(old, n) /\ old \in MailBox
  BY TableOf
<1>2. Open(b) /\ call[Current].pc = "user"
  BY DEF MboxReceive, MboxCondReceive, Open, Calls
<1>3. CASE /\ old.numSlots = 0 /\ ReceiveZero(b)
           /\ <<Current, "receive", b>> \in Client.calls
  BY <1>2, <1>3, ReceiveZeroSlots DEF ZeroSlots
<1>4. CASE /\ old.numSlots # 0 /\ old.slots = <<>>
           /\ Block(b, [old EXCEPT !.waitingToReceive = Append(@, NextEntry), !.recv_size = limit],
                    [Idle EXCEPT !.pc = "recvEmpty", !.box = b, !.limit = limit])
  <2> DEFINE new == [old EXCEPT !.waitingToReceive = Append(@, NextEntry), !.recv_size = limit]
             c == [Idle EXCEPT !.pc = "recvEmpty", !.box = b, !.limit = limit]
             d == [c EXCEPT !.entry = NextEntry]
  <2>1. CASE Halt("out_of_bounds") \/ Halt("sentinel_blocked")
    BY <2>1, HaltSlots
  <2>2. CASE /\ processTable' = Append(processTable,
                                       [pid |-> Current, slotThatHoldsMyMessage |-> NULL])
             /\ MailBoxTable' = [MailBoxTable EXCEPT ![b] = new]
             /\ call' = [call EXCEPT ![Current] = d]
             /\ UNCHANGED <<MailSlotTable, nextMid, nextSlot, numSlotsUsed, delivered, outcome>>
    <3>1. /\ new.status = old.status /\ new.numSlots = old.numSlots
          /\ new.slots = old.slots /\ new.numSlotsUsed = old.numSlotsUsed
          /\ new.waitingToReceive = Append(old.waitingToReceive, NextEntry)
          /\ new.recv_size = limit
      BY <1>1 DEF MailBox
    <3>2. d.pc = "recvEmpty" /\ d.box = b /\ d.entry = NextEntry /\ d.limit = limit
      BY DEF Idle
    <3> HIDE DEF new, d
    <3>3. KeptBut(b) /\ MailBoxTable'[b] = new /\ OthersStay /\ call'[Current] = d
      BY <2>2, TableAt, CallAt
    <3>4. /\ SameHolds /\ Len(processTable') = NextEntry
          /\ processTable'[NextEntry].pid = Current
          /\ processTable'[NextEntry].slotThatHoldsMyMessage = NULL
      BY <2>2, NewEntry
    <3>5. NextEntry = Len(processTable) + 1
      BY DEF NextEntry
    <3> HIDE DEF n
    <3> QED
      BY <1>2, <1>4, <2>2, <3>1, <3>2, <3>3, <3>4, <3>5 DEF Awaits
  <2> QED
    BY <1>4, <2>1, <2>2 DEF Block
<1>5. CASE old.slots # <<>> /\ TakeMessage(b, Head(old.slots))
  <2>1. Head(old.slots) \in Range(Slots(b))
    BY <1>1, <1>5, HeadIsListed DEF Slots
  <2> QED
    BY <1>2, <1>5, <2>1, TakeMessageSlots
<1> QED
  BY <1>3, <1>4, <1>5 DEF MboxReceive, MboxCondReceive, Calls

LEMMA ReturnSlots ==
    ASSUME Before, ReturnOnly, Moves(call[Current], Idle)
    PROVE  Still
<1>1. OthersStay /\ call'[Current] = Idle
  BY CallAt DEF ReturnOnly, Returns
<1> QED
  BY <1>1, SameTable DEF ReturnOnly, Still, SameHolds, Holds

\* The end of MboxSend, behind the processes it has woken.
LEMMA SortSlots ==
    ASSUME Before, call[Current].pc \in UncountedPcs,
           WakeNextInOrder(call[Current].box, MailBoxTable[call[Current].box], call[Current]),
           UNCHANGED <<MailSlotTable, nextMid, delivered, processTable>>
    PROVE  Still \/ Counts(call[Current].box, UncountedPcs, 1)
<1> DEFINE c == call[Current]
           b == c.box
           old == MailBoxTable[b]
<1>1. c \in Call /\ b \in Boxes
  BY CallOf
<1>2. old \in MailBox /\ old.numSlotsUsed \in Int /\ numSlotsUsed \in Int
  BY <1>1, TableOf DEF MailBox, Before, CoreOK
<1>3. /\ LeavesAs(b, old) /\ OthersStay
      /\ \/ /\ call'[Current].pc = "sendSort" /\ call'[Current].box = b
            /\ MailBoxTable'[b].numSlotsUsed = old.numSlotsUsed
            /\ numSlotsUsed' = numSlotsUsed
         \/ /\ call'[Current].pc = "user"
            /\ MailBoxTable'[b].numSlotsUsed = old.numSlotsUsed + 1
            /\ numSlotsUsed' = numSlotsUsed + 1
  BY <1>1, <1>2, WakeNextSlots
<1>4. SameHolds
  BY DEF SameHolds, Holds
<1>5. KeptBut(b)
  BY <1>3 DEF LeavesAs
<1>6. CASE /\ call'[Current].pc = "sendSort" /\ call'[Current].box = b
           /\ MailBoxTable'[b].numSlotsUsed = old.numSlotsUsed
           /\ numSlotsUsed' = numSlotsUsed
  <2>1. Kept(MailBoxTable'[b], MailBoxTable[b])
    BY <1>3, <1>6 DEF LeavesAs, Kept
  <2>2. \A a \in Boxes : Kept(MailBoxTable'[a], MailBoxTable[a])
    BY <1>1, <1>5, <2>1, SameTableBut
  <2>3. Moves(c, call'[Current])
    BY <1>6 DEF Moves
  <2> QED
    BY <1>3, <1>4, <1>6, <2>2, <2>3 DEF Still
<1>7. CASE /\ call'[Current].pc = "user"
           /\ MailBoxTable'[b].numSlotsUsed = old.numSlotsUsed + 1
           /\ numSlotsUsed' = numSlotsUsed + 1
  BY <1>3, <1>4, <1>5, <1>7 DEF Counts, CountedBy, LeavesAs
<1> QED
  BY <1>3, <1>6, <1>7

LEMMA SendGoesOnSlots ==
    ASSUME Before, SendAfterWaking \/ SendSorting \/ SendRendezvous \/ SendResume
    PROVE  SlotKinds
<1> DEFINE c == call[Current]
           b == c.box
           old == MailBoxTable[b]
           n == Len(processTable)
<1>1. c \in Call /\ b \in Boxes /\ n \in Nat /\ BoxOK(old, n) /\ old \in MailBox
      /\ c.msg \in Message \cup {NULL}
  BY CallOf, TableOf DEF Call
<1>2. Idle.pc = "user"
  BY DEF Idle
<1>3. CASE SendAfterWaking
  <2>1. c.pc = "sendWoke" /\ c.pc \in UncountedPcs
    BY <1>3 DEF SendAfterWaking, In, UncountedPcs
  <2>2. CASE old.recv_size < c.msg.size
    <3>1. call' = [call EXCEPT ![Current] = Idle]
      BY <1>3, <2>2 DEF SendAfterWaking, Returns
    <3>2. UNCHANGED <<MailBoxTable, MailSlotTable, numSlotsUsed, nextMid, delivered, processTable>>
      BY <1>3, <2>2 DEF SendAfterWaking
    <3>3. OthersStay /\ call'[Current] = Idle
      BY <3>1, CallAt
    <3>4. Moves(c, Idle)
      BY <1>2, <2>1, <2>2 DEF Moves
    <3> QED
      BY <3>2, <3>3, <3>4, SameTable DEF Still, SameHolds, Holds, SlotKinds
  <2>3. CASE ~(old.recv_size < c.msg.size)
    <3>1. Still \/ Counts(b, UncountedPcs, 1)
      BY <1>3, <2>1, <2>3, SortSlots DEF SendAfterWaking
    <3> HIDE DEF b
    <3> QED
      BY <1>1, <3>1 DEF SlotKinds
  <2> QED
    BY <2>2, <2>3
<1>4. CASE SendSorting
  <2>1. Still \/ Counts(b, UncountedPcs, 1)
    BY <1>4, SortSlots DEF SendSorting, In, UncountedPcs
  <2> HIDE DEF b
  <2> QED
    BY <1>1, <2>1 DEF SlotKinds
<1>5. CASE SendRendezvous
  <2>1. Moves(c, Idle)
    BY <1>2, <1>5 DEF SendRendezvous, In, Moves, FreePcs, UncountedPcs
  <2> QED
    BY <1>5, <2>1, ReturnSlots DEF SendRendezvous, SlotKinds
<1>6. CASE SendResume
  <2>0. c.pc \in PendingPcs
    BY <1>6 DEF SendResume, In, PendingPcs
  <2>1. CASE ReturnOnly
    <3>1. Moves(c, Idle)
      BY <1>2, <2>0 DEF Moves, FreePcs, UncountedPcs, PendingPcs
    <3> QED
      BY <2>1, <3>1, ReturnSlots DEF SlotKinds
  <2>2. CASE old.status # UNUSED
    <3>1. Open(b)
      BY <1>1, <2>2 DEF Open, MailBox
    <3>2. CASE PutMessage(b, old, c)
      <4>1. Kept(old, old) /\ old.waitingToReceive = Receivers(b)
        BY DEF Kept, SameBox, Receivers
      <4>2. Sending(b, c.msg)
        BY <2>0 DEF Sending
      <4>3. Still \/ \E k \in MailSlots : Puts(b, k, c.msg)
        BY <1>1, <3>1, <3>2, <4>1, <4>2, PutMessageSlots
      <4> DEFINE m == c.msg
      <4> HIDE DEF b, m
      <4>4. m \in Message \cup {NULL} /\ (Still \/ \E k \in MailSlots : Puts(b, k, m))
        BY <1>1, <4>3 DEF m
      <4> QED
        BY <1>1, <4>4 DEF SlotKinds
    <3>3. CASE Block(b, [old EXCEPT !.getCorrectOrder = Append(@, NextEntry)],
                     [c EXCEPT !.pc = "sendOrder"])
      <4> DEFINE d == [c EXCEPT !.pc = "sendOrder"]
                 new == [old EXCEPT !.getCorrectOrder = Append(@, NextEntry)]
                 e == [d EXCEPT !.entry = NextEntry]
      <4>1. d \in Call /\ e.pc = "sendOrder" /\ e.box = b /\ e.msg = c.msg
        BY <1>1 DEF Call
      <4>2. Kept(new, old)
        BY <1>1 DEF Kept, SameBox, MailBox
      <4> HIDE DEF e
      <4>3. Moves(c, e)
        BY <2>0, <4>1 DEF Moves
      <4> HIDE DEF d, new
      <4> QED
        BY <1>1, <3>3, <4>1, <4>2, <4>3, BlockSlots DEF d, e, new, SlotKinds
    <3> QED
      BY <1>6, <2>2, <3>2, <3>3 DEF SendResume
  <2> QED
    BY <1>6, <2>1, <2>2 DEF SendResume
<1> QED
  BY <1>3, <1>4, <1>5, <1>6

LEMMA ReceiveGoesOnSlots ==
    ASSUME Before, ReceiveRendezvous \/ ReceiveResume \/ ReceiveAfterWaking
    PROVE  SlotKinds
<1> DEFINE c == call[Current]
           b == c.box
           old == MailBoxTable[b]
           n == Len(processTable)
<1>1. /\ c \in Call /\ b \in Boxes /\ n \in Nat /\ BoxOK(old, n) /\ old \in MailBox
      /\ old.zeroSlot \in Message \cup {NULL} /\ old.numSlotsUsed \in Int /\ numSlotsUsed \in Int
  BY CallOf, TableOf DEF MailBox, Before, CoreOK
<1>2. Idle.pc = "user"
  BY DEF Idle
<1>3. CASE ReceiveRendezvous
  <2>1. /\ UNCHANGED <<MailBoxTable, MailSlotTable, numSlotsUsed, nextMid, processTable>>
        /\ call' = [call EXCEPT ![Current] = Idle] /\ c.pc = "recvZero"
        /\ \/ UNCHANGED delivered
           \/ delivered' = Append(delivered, [msg |-> old.zeroSlot, by |-> Current, box |-> b])
    BY <1>3 DEF ReceiveRendezvous, Returns, Got, In
  <2>2. OthersStay /\ call'[Current] = Idle
    BY <2>1, CallAt
  <2>3. \A a \in Boxes : Kept(MailBoxTable'[a], MailBoxTable[a])
    BY <2>1, SameTable
  <2>4. SameHolds
    BY <2>1 DEF SameHolds, Holds
  <2>5. CASE UNCHANGED delivered
    <3>1. Moves(c, Idle)
      BY <1>2, <2>1 DEF Moves, FreePcs, UncountedPcs
    <3> QED
      BY <2>1, <2>2, <2>3, <2>4, <2>5, <3>1 DEF Still, SlotKinds
  <2>6. CASE delivered' = Append(delivered, [msg |-> old.zeroSlot, by |-> Current, box |-> b])
    <3>1. \E m \in Message \cup {NULL} : \E a \in Boxes :
            delivered' = Append(delivered, [msg |-> m, by |-> Current, box |-> a])
      BY <1>1, <2>6
    <3> HIDE DEF b
    <3> QED
      BY <1>2, <2>1, <2>2, <2>3, <2>4, <3>1 DEF HandsOver, SlotKinds
  <2> QED
    BY <2>1, <2>5, <2>6
<1>4. CASE ReceiveResume
  <2> DEFINE k == processTable[c.entry].slotThatHoldsMyMessage
  <2>0. c.pc = "recvEmpty"
    BY <1>4 DEF ReceiveResume, In
  <2>1. CASE /\ ReturnOnly
             /\ old.status = UNUSED \/ (old.slots # <<>> /\ ~Fits(Head(old.slots), c.limit))
    <3>1. ~Open(b) \/ (Slots(b) # <<>> /\ ~Fits(Head(Slots(b)), c.limit))
      BY <2>1 DEF Open, Slots, UNUSED, CREATED
    <3>2. Moves(c, Idle)
      BY <1>2, <2>0, <3>1 DEF Moves, FreePcs, UncountedPcs
    <3> QED
      BY <2>1, <3>2, ReturnSlots DEF SlotKinds
  <2>2. CASE Halt("null_pointer")
    BY <2>2, HaltSlots DEF SlotKinds
  <2>3. CASE old.status # UNUSED /\ k \in Range(old.slots) /\ TakeMessage(b, k)
    <3>1. Open(b)
      BY <1>1, <2>3 DEF Open, MailBox
    <3>2. k = Holds(c.entry)
      BY DEF Holds
    <3> HIDE DEF k
    <3>3. k \in MailSlots /\ Takes(b, k)
      BY <1>1, <2>0, <2>3, <3>1, <3>2, TakeMessageSlots DEF Slots
    <3> HIDE DEF b
    <3> QED
      BY <1>1, <3>3 DEF SlotKinds
  <2> QED
    BY <1>4, <2>1, <2>2, <2>3 DEF ReceiveResume
<1>5. CASE ReceiveAfterWaking
  <2> DEFINE new == [old EXCEPT !.numSlotsUsed = @ - 1]
  <2>1. /\ MailBoxTable' = [MailBoxTable EXCEPT ![b] = new] /\ c.pc = "recvWoke"
        /\ call' = [call EXCEPT ![Current] = Idle] /\ numSlotsUsed' = numSlotsUsed - 1
        /\ UNCHANGED <<MailSlotTable, nextMid, delivered, processTable>>
    BY <1>5 DEF ReceiveAfterWaking, Returns, In
  <2>2. /\ SameBox(new, old) /\ new.slots = old.slots /\ new.numSlotsUsed = old.numSlotsUsed - 1
        /\ new.waitingToReceive = old.waitingToReceive
    BY <1>1 DEF SameBox, MailBox
  <2> HIDE DEF new
  <2>3. KeptBut(b) /\ MailBoxTable'[b] = new /\ OthersStay /\ call'[Current] = Idle
    BY <1>1, <2>1, TableAt, CallAt
  <2>4. CountedBy(-1, b)
    BY <1>1, <2>1, <2>2, <2>3 DEF CountedBy
  <2>5. Counts(b, {"recvWoke"}, -1)
    BY <1>2, <2>1, <2>2, <2>3, <2>4 DEF Counts, SameHolds, Holds
  <2> HIDE DEF b
  <2> QED
    BY <1>1, <2>5 DEF SlotKinds
<1> QED
  BY <1>3, <1>4, <1>5

LEMMA CreateSlots ==
    ASSUME Before, ClientsOK, NEW args \in Client.creates, MboxCreate(args)
    PROVE  \E b \in Boxes : Makes(b, args)
<1>1. MailBoxTable \in [Boxes -> MailBox]
  BY DEF Before, CoreOK, TableOK
<1>2. PICK i \in Boxes : /\ UnmadeAt(i) /\ nextMid' = nextMid + i + 1
                         /\ MailBoxTable' = [MailBoxTable EXCEPT
                               ![(nextMid + i) % MAXMBOX] = Made(@, args)]
  BY DEF MboxCreate
<1> DEFINE b == (nextMid + i) % MAXMBOX
<1>3. /\ b \in Boxes /\ nextMid' > nextMid
      /\ nextMid' <= MAXMBOX => b = nextMid' - 1
  <2>1. nextMid \in Nat /\ i \in Nat /\ MAXMBOX \in Nat \ {0}
    BY ClientOf, LenProperties, MailboxAssumption DEF ClientsOK, Boxes
  <2>2. b \in Boxes
    BY <2>1 DEF Boxes
  <2>3. ASSUME nextMid' <= MAXMBOX PROVE b = nextMid' - 1
    <3>1. nextMid + i \in 0 .. MAXMBOX-1
      BY <1>2, <2>1, <2>3
    <3>2. (nextMid + i) % MAXMBOX = nextMid + i
      BY <2>1, <3>1
    <3> QED
      BY <1>2, <2>1, <3>2
  <2> QED
    BY <1>2, <2>1, <2>2, <2>3
<1>4. MailBoxTable[b].status = UNUSED
  BY <1>2 DEF UnmadeAt
<1>5. MailBoxTable' = [MailBoxTable EXCEPT ![b] = Made(MailBoxTable[b], args)]
  BY <1>2
<1> HIDE DEF b
<1> DEFINE new == Made(MailBoxTable[b], args)
<1>6. /\ new.status = CREATED /\ new.numSlots = args.slots /\ new.slots = <<>>
      /\ new.numSlotsUsed = 0 /\ new.waitingToReceive = MailBoxTable[b].waitingToReceive
  BY <1>1, <1>3 DEF Made, MailBox
<1> HIDE DEF new
<1>7. MailBoxTable'[b] = new /\ KeptBut(b)
  BY <1>3, <1>5, TableAt DEF new
<1>8. UNCHANGED <<MailSlotTable, numSlotsUsed, delivered, call, processTable>>
  BY DEF MboxCreate
<1> QED
  BY <1>3, <1>4, <1>6, <1>7, <1>8 DEF Makes

LEMMA ReleaseSlots ==
    ASSUME Before, NEW b \in Boxes, MboxRelease(b)
    PROVE  Closes(b)
<1> DEFINE old == MailBoxTable[b]
           new == [old EXCEPT !.status = UNUSED]
           d == [Idle EXCEPT !.pc = "releaseRecv", !.box = b]
<1>1. /\ MailBoxTable' = [MailBoxTable EXCEPT ![b] = new]
      /\ call' = [call EXCEPT ![Current] = d] /\ call[Current].pc = "user"
      /\ UNCHANGED <<MailSlotTable, numSlotsUsed, delivered, nextMid, processTable>>
  BY DEF MboxRelease, Calls
<1>2. old \in MailBox
  BY IdleIsCall, TableOf
<1>3. /\ new.status = UNUSED /\ new.numSlots = old.numSlots /\ new.slots = old.slots
      /\ new.waitingToReceive = old.waitingToReceive /\ new.numSlotsUsed = old.numSlotsUsed
  BY <1>2 DEF MailBox
<1>4. d.pc = "releaseRecv"
  BY DEF Idle
<1> HIDE DEF new, d
<1>5. KeptBut(b) /\ MailBoxTable'[b] = new /\ OthersStay /\ call'[Current] = d
  BY <1>1, TableAt, CallAt
<1> QED
  BY <1>1, <1>3, <1>4, <1>5 DEF Closes

LEMMA OtherSlots ==
    ASSUME Before, ReleaseNext \/ Quit \/ TimeSlice
    PROVE  Still
<1>1. UNCHANGED <<MailBoxTable, MailSlotTable, numSlotsUsed, nextMid, delivered, processTable>>
  BY DEF ReleaseNext, Quit, TimeSlice
<1>2. call[Current] \in Call
  BY CallOf
<1>3. OthersStay /\ Moves(call[Current], call'[Current])
  <2>1. CASE ReleaseNext
    <3>1. PICK e : WalkTo(e)
      BY <2>1, WalkKind
    <3> QED
      BY <3>1 DEF WalkTo, ReleasePcs, Moves, FreePcs, UncountedPcs
  <2>2. CASE Quit
    <3>1. call' = [call EXCEPT ![Current] = [Idle EXCEPT !.pc = "gone"]] /\ call[Current].pc = "user"
      BY <2>2 DEF Quit, Calls
    <3>2. OthersStay /\ call'[Current] = [Idle EXCEPT !.pc = "gone"]
      BY <3>1, CallAt
    <3> QED
      BY <3>1, <3>2 DEF Idle, Moves, FreePcs, UncountedPcs
  <2>3. CASE TimeSlice
    BY <2>3 DEF TimeSlice, OthersStay, Moves
  <2> QED
    BY <2>1, <2>2, <2>3
<1> QED
  BY <1>1, <1>3, SameTable DEF Still, SameHolds, Holds

LEMMA EverySlotStep ==
    ASSUME Before, ClientsOK, Next
    PROVE  SlotKinds
<1>1. CASE GoOn
  BY <1>1, SendGoesOnSlots, ReceiveGoesOnSlots, OtherSlots DEF GoOn, SlotKinds
<1>2. ASSUME NEW b \in Boxes, NEW limit \in Limits,
             MboxReceive(b, limit) \/ MboxCondReceive(b, limit)
      PROVE  SlotKinds
  BY <1>2, ReceiveSlots, MailboxAssumption DEF SlotKinds
<1>3. ASSUME NEW b \in Boxes, MboxRelease(b) PROVE SlotKinds
  BY <1>3, ReleaseSlots DEF SlotKinds
<1>4. ASSUME NEW b \in Devices, DeviceInterrupt(b) PROVE SlotKinds
  <2>1. b \in Boxes
    BY MailboxAssumption DEF Devices, Boxes
  <2> QED
    BY <1>4, <2>1, SendSlots DEF SlotKinds
<1>5. ASSUME NEW b \in Boxes, NEW size \in Sizes, MboxSend(b, size) \/ MboxCondSend(b, size)
      PROVE  SlotKinds
  BY <1>5, SendSlots DEF SlotKinds
<1>6. ASSUME NEW args \in Client.creates, MboxCreate(args) PROVE SlotKinds
  BY <1>6, CreateSlots DEF SlotKinds
<1>7. CASE Quit \/ TimeSlice
  BY <1>7, OtherSlots DEF SlotKinds
<1> QED
  BY <1>1, <1>2, <1>3, <1>4, <1>5, <1>6, <1>7 DEF Next, Send, Receive

-----------------------------------------------------------------------------
(***************************************************************************)
(* Slots and counts, as long as no mailbox has been released.              *)
(***************************************************************************)
\* Every message fits every buffer.
SizesFit == \A size \in Sizes, limit \in Limits : size <= limit

\* A mailbox nobody made yet has no messages and no receivers.
UnmadeOK ==
    /\ nextMid \in Nat /\ DEVICES <= nextMid
    /\ nextMid <= MAXMBOX => \A b \in Boxes : b >= nextMid =>
          ~Open(b) /\ Slots(b) = <<>> /\ Receivers(b) = <<>>

DevicesOK == \A b \in Devices : MailBoxTable[b].numSlots = 0

SlottedPcs == PendingPcs \cup UncountedPcs \cup {"recvEmpty", "recvWoke"}

\* In a call that has to do with slots the mailbox has slots, and what is sent
\* fits what it is received with.
CallOK(c) ==
    /\ c.pc \in SlottedPcs => c.box \in Slotted
    /\ c.pc \in PendingPcs => c.msg \in Message /\ c.msg.size \in Sizes
    /\ c.pc = "sendWoke" => c.msg.size \in Sizes /\ MailBoxTable[c.box].recv_size \in Limits
    /\ c.pc = "recvEmpty" => c.limit \in Limits

CallsOK == \A p \in All : CallOK(call[p])

BuffersOK == \A b \in Slotted : Receivers(b) # <<>> => MailBoxTable[b].recv_size \in Limits

Used(k) == MailSlotTable[k].status = CREATED

StoredOK ==
    \A k \in MailSlots : Used(k) =>
        LET slot == MailSlotTable[k]
        IN  slot.message \in Message /\ slot.message.size \in Sizes /\ slot.mboxID \in Slotted

ListedOK ==
    \A b \in Boxes :
        /\ Distinct(Slots(b))
        /\ \A k \in MailSlots : k \in Members(Slots(b)) <=> Used(k) /\ MailSlotTable[k].mboxID = b

Calling(pcs) == {p \in All : call[p].pc \in pcs}

\* numSlotsUsed of a mailbox, and of all of them.
BoxCount(b) ==
    MailBoxTable[b].numSlotsUsed =
        Len(Slots(b)) + Cardinality(InCall(b, {"recvWoke"})) - Cardinality(InCall(b, UncountedPcs))
TotalCount ==
    numSlotsUsed = Cardinality({k \in MailSlots : Used(k)})
                   + Cardinality(Calling({"recvWoke"})) - Cardinality(Calling(UncountedPcs))

CountsOK == TotalCount /\ \A b \in Slotted : BoxCount(b)

\* Whoever is on the list of a mailbox waits there, and has no message yet.
ReceiversOK ==
    \A b \in Slotted : \A e \in Members(Receivers(b)) :
        LET c == call[processTable[e].pid]
        IN  c.pc = "recvEmpty" /\ c.box = b /\ c.entry = e /\ Holds(e) = NULL

MeantFor(k, b) ==
    \E p \in All : /\ call[p].box = b /\ call[p].pc = "recvEmpty" /\ p \in Run
                   /\ Holds(call[p].entry) = k

\* The messages in a mailbox with waiting receivers are for receivers woken before.
MeantOK ==
    \A b \in Slotted : Receivers(b) # <<>> =>
        \A k \in Members(Slots(b)) : MeantFor(k, b)

SlotInv == DevicesOK /\ CallsOK /\ BuffersOK /\ StoredOK /\ ListedOK /\ CountsOK
MeantInv == ReceiversOK /\ MeantOK

\* EachMessageOnce: the clients keep to mailboxes with slots.
SlottedOnly ==
    /\ \A args \in Client.creates \cup Range(Client.opened) : args.slots > 0
    /\ \A p \in All, b \in Devices : <<p, "receive", b>> \notin Client.calls

NoRendezvous ==
    /\ \A p \in All : call[p].pc # "recvZero"
    /\ \A b \in Boxes \ Devices : Open(b) => MailBoxTable[b].numSlots # 0

Sent(m) == m \in Message /\ m.n <= sends[m.from]
Stored(k) == MailSlotTable[k].message
Pending(p) == call[p].pc \in PendingPcs

TokensSent ==
    /\ \A k \in MailSlots : Used(k) => Sent(Stored(k))
    /\ \A p \in All : Pending(p) => Sent(call[p].msg)
    /\ \A i \in 1 .. Len(delivered) : Sent(delivered[i].msg)

TokensApart ==
    /\ \A k, l \in MailSlots : Used(k) /\ Used(l) /\ Stored(k) = Stored(l) => k = l
    /\ \A p, q \in All : Pending(p) /\ Pending(q) /\ call[p].msg = call[q].msg => p = q
    /\ \A i, j \in 1 .. Len(delivered) : delivered[i].msg = delivered[j].msg => i = j
    /\ \A k \in MailSlots, p \in All : Used(k) /\ Pending(p) => Stored(k) # call[p].msg
    /\ \A k \in MailSlots, i \in 1 .. Len(delivered) : Used(k) => Stored(k) # delivered[i].msg
    /\ \A p \in All, i \in 1 .. Len(delivered) : Pending(p) => call[p].msg # delivered[i].msg

\* A slot is on one list at most, and then it is in use.
ListsApart ==
    \A b \in Boxes :
        /\ Distinct(Slots(b))
        /\ \A k \in Members(Slots(b)) :
              Used(k) /\ \A a \in Boxes : k \in Members(Slots(a)) => a = b

TokenInv == NoRendezvous /\ TokensSent /\ TokensApart /\ ListsApart

\* The number of elements when only x may come or go.
LEMMA CountMoves ==
    ASSUME NEW S, IsFiniteSet(S), NEW T, NEW x, T \ {x} = S \ {x}
    PROVE  /\ Cardinality(S) \in Nat /\ Cardinality(T) \in Nat
           /\ (x \in S <=> x \in T) => Cardinality(T) = Cardinality(S)
           /\ x \notin S /\ x \in T => Cardinality(T) = Cardinality(S) + 1
           /\ x \in S /\ x \notin T => Cardinality(T) = Cardinality(S) - 1
<1>1. CASE x \in S <=> x \in T
  <2>1. T = S
    BY <1>1
  <2> QED
    BY <1>1, <2>1, FS_CardinalityType
<1>2. CASE x \notin S /\ x \in T
  <2>1. T = S \cup {x}
    BY <1>2
  <2> QED
    BY <1>2, <2>1, FS_AddElement, FS_CardinalityType
<1>3. CASE x \in S /\ x \notin T
  <2>1. T = S \ {x}
    BY <1>3
  <2> QED
    BY <1>3, <2>1, FS_RemoveElement, FS_CardinalityType
<1> QED
  BY <1>1, <1>2, <1>3

LEMMA BoxNumbers ==
    /\ \A b \in Boxes : b \in Nat /\ b < MAXMBOX
    /\ MAXMBOX \in Nat \ {0} /\ DEVICES \in Nat
    /\ \A b \in Devices : b \in Boxes /\ b < DEVICES
    /\ UNUSED # CREATED
BY MailboxAssumption DEF Boxes, Devices, UNUSED, CREATED

LEMMA OthersStayAlways == ASSUME SlotKinds PROVE OthersStay
<1>1. ASSUME NEW b, Awaits(b) \/ Closes(b) PROVE OthersStay
  BY <1>1 DEF Awaits, Closes
<1>2. ASSUME NEW b, NEW pcs, NEW n, Counts(b, pcs, n) PROVE OthersStay
  BY <1>2 DEF Counts
<1>3. ASSUME NEW b, NEW k, Takes(b, k) PROVE OthersStay
  BY <1>3 DEF Takes
<1>4. ASSUME NEW b, NEW k, NEW m, Puts(b, k, m) PROVE OthersStay
  BY <1>4 DEF Puts
<1>5. ASSUME NEW b, NEW args, Makes(b, args) PROVE OthersStay
  BY <1>5 DEF Makes, OthersStay
<1>6. Still \/ HandsOver => OthersStay
  BY DEF Still, HandsOver
<1> QED
  BY <1>1, <1>2, <1>3, <1>4, <1>5, <1>6 DEF SlotKinds

\* The mailboxes beyond nextMid stay as they are.
LEMMA UnmadeStep ==
    ASSUME UnmadeOK, SlotKinds, nextMid' \in Nat
    PROVE  UnmadeOK'
<1>1. CASE nextMid' = nextMid
           /\ \A b \in Boxes : Kept(MailBoxTable'[b], MailBoxTable[b])
  BY <1>1, BoxNumbers DEF UnmadeOK, Kept, SameBox, Open, Slots, Receivers
<1>2. ASSUME NEW b \in Boxes, nextMid' = nextMid, KeptBut(b), Open(b)
      PROVE  UnmadeOK'
  <2> SUFFICES ASSUME nextMid <= MAXMBOX, NEW a \in Boxes, a >= nextMid
               PROVE  ~Open(a)' /\ Slots(a)' = <<>> /\ Receivers(a)' = <<>>
    BY <1>2 DEF UnmadeOK
  <2>1. ~Open(a) /\ Slots(a) = <<>> /\ Receivers(a) = <<>>
    BY DEF UnmadeOK
  <2>2. a # b
    BY <1>2, <2>1
  <2>3. Kept(MailBoxTable'[a], MailBoxTable[a])
    BY <1>2, <2>2 DEF KeptBut
  <2> QED
    BY <2>1, <2>3 DEF Kept, SameBox, Open, Slots, Receivers
<1>3. ASSUME NEW b \in Boxes, Closes(b) PROVE UnmadeOK'
  <2> SUFFICES ASSUME nextMid <= MAXMBOX, NEW a \in Boxes, a >= nextMid
               PROVE  ~Open(a)' /\ Slots(a)' = <<>> /\ Receivers(a)' = <<>>
    BY <1>3 DEF UnmadeOK, Closes
  <2>1. ~Open(a) /\ Slots(a) = <<>> /\ Receivers(a) = <<>>
    BY DEF UnmadeOK
  <2>2. CASE a = b
    BY <1>3, <2>1, <2>2, BoxNumbers DEF Closes, Open, Slots, Receivers
  <2>3. CASE a # b
    BY <1>3, <2>1, <2>3 DEF Closes, KeptBut, Kept, SameBox, Open, Slots, Receivers
  <2> QED
    BY <2>2, <2>3
<1>4. ASSUME NEW b \in Boxes, NEW args \in Client.creates, Makes(b, args) PROVE UnmadeOK'
  <2>0. nextMid' > nextMid /\ nextMid \in Nat /\ DEVICES <= nextMid
    BY <1>4 DEF Makes, UnmadeOK
  <2>1. nextMid' \in Nat
    OBVIOUS
  <2> SUFFICES ASSUME nextMid' <= MAXMBOX, NEW a \in Boxes, a >= nextMid'
               PROVE  ~Open(a)' /\ Slots(a)' = <<>> /\ Receivers(a)' = <<>>
    BY <2>0, <2>1, BoxNumbers DEF UnmadeOK
  <2>2. b = nextMid' - 1 /\ a # b /\ a >= nextMid /\ nextMid <= MAXMBOX
    BY <1>4, <2>0, <2>1, BoxNumbers DEF Makes
  <2>3. ~Open(a) /\ Slots(a) = <<>> /\ Receivers(a) = <<>>
    BY <2>2 DEF UnmadeOK
  <2> QED
    BY <1>4, <2>2, <2>3 DEF Makes, KeptBut, Kept, SameBox, Open, Slots, Receivers
<1>5. ASSUME NEW b \in Boxes, NEW pcs, NEW n, Counts(b, pcs, n) PROVE UnmadeOK'
  BY <1>5, BoxNumbers DEF Counts, KeptBut, Kept, SameBox, UnmadeOK, Open, Slots, Receivers
<1>6. CASE Still \/ HandsOver
  BY <1>1, <1>6 DEF Still, HandsOver
<1>7. ASSUME NEW b \in Boxes, Awaits(b) PROVE UnmadeOK'
  BY <1>2, <1>7 DEF Awaits
<1>8. ASSUME NEW b \in Boxes, NEW k, Takes(b, k) PROVE UnmadeOK'
  BY <1>2, <1>8 DEF Takes
<1>9. ASSUME NEW b \in Boxes, NEW k, NEW m, Puts(b, k, m) PROVE UnmadeOK'
  BY <1>2, <1>9 DEF Puts
<1> QED
  BY <1>3, <1>4, <1>5, <1>6, <1>7, <1>8, <1>9 DEF SlotKinds

\* A mailbox released stays so: nextMid has gone past it.
LEMMA ReleasedBefore ==
    ASSUME UnmadeOK, nextMid' \in Nat, SlotKinds, NoneReleased'
    PROVE  NoneReleased /\ \A b \in Boxes : ~(Closes(b) /\ Open(b))
<1>0. MAXMBOX \in Nat /\ nextMid \in Nat /\ Boxes = 0 .. MAXMBOX-1
  BY MailboxAssumption DEF UnmadeOK, Boxes
<1>1. nextMid' <= MAXMBOX /\ \A b \in 0 .. nextMid'-1 : Open(b)'
  BY DEF NoneReleased
<1>2. ASSUME nextMid' = nextMid, \A b \in Boxes : Open(b)' = Open(b)
      PROVE  NoneReleased
  <2>1. \A b \in 0 .. nextMid-1 : b \in Boxes /\ Open(b)'
    BY <1>0, <1>1, <1>2
  <2> QED
    BY <1>1, <1>2, <2>1 DEF NoneReleased
<1>3. ASSUME NEW b \in Boxes, Closes(b) PROVE NoneReleased /\ ~Open(b)
  <2>1. nextMid' = nextMid /\ KeptBut(b) /\ ~Open(b)'
    BY <1>3, BoxNumbers DEF Closes, Open
  <2>2. b >= nextMid
    BY <1>0, <1>1, <2>1
  <2>3. ~Open(b)
    BY <1>1, <2>1, <2>2 DEF UnmadeOK
  <2>4. \A a \in Boxes : Open(a)' = Open(a)
    BY <2>1, <2>3 DEF KeptBut, Kept, SameBox, Open
  <2> QED
    BY <1>2, <2>1, <2>3, <2>4
<1>4. ASSUME NEW b \in Boxes, NEW args \in Client.creates, Makes(b, args) PROVE NoneReleased
  <2>1. nextMid' > nextMid /\ b = nextMid' - 1 /\ KeptBut(b)
    BY <1>1, <1>4 DEF Makes
  <2>2. \A a \in 0 .. nextMid-1 : a \in Boxes /\ a # b /\ Open(a)'
    BY <1>0, <1>1, <2>1
  <2>3. \A a \in 0 .. nextMid-1 : Open(a)
    BY <2>1, <2>2 DEF KeptBut, Kept, SameBox, Open
  <2>4. nextMid <= MAXMBOX
    BY <1>0, <1>1, <2>1
  <2> QED
    BY <2>3, <2>4 DEF NoneReleased
<1>5. ASSUME Still \/ HandsOver PROVE NoneReleased
  <2>1. nextMid' = nextMid /\ \A b \in Boxes : Open(b)' = Open(b)
    BY <1>5 DEF Still, HandsOver, Kept, SameBox, Open
  <2> QED
    BY <2>1, <1>2
<1>6. ASSUME NEW b \in Boxes, nextMid' = nextMid, KeptBut(b), Open(b)' = Open(b)
      PROVE  NoneReleased
  <2>1. \A a \in Boxes : Open(a)' = Open(a)
    BY <1>6 DEF KeptBut, Kept, SameBox, Open
  <2> QED
    BY <1>2, <1>6, <2>1
<1>7. ASSUME NEW b \in Boxes, Awaits(b) PROVE NoneReleased
  BY <1>6, <1>7 DEF Awaits, Open
<1>8. ASSUME NEW b \in Boxes, NEW k, Takes(b, k) PROVE NoneReleased
  BY <1>6, <1>8 DEF Takes, SameBox, Open
<1>9. ASSUME NEW b \in Boxes, NEW k, NEW m, Puts(b, k, m) PROVE NoneReleased
  BY <1>6, <1>9 DEF Puts, SameBox, Open
<1>10. ASSUME NEW b \in Boxes, NEW pcs, NEW n, Counts(b, pcs, n) PROVE NoneReleased
  BY <1>6, <1>10 DEF Counts, SameBox, Open
<1> QED
  BY <1>3, <1>4, <1>5, <1>7, <1>8, <1>9, <1>10 DEF SlotKinds

\* What a step finds.
SlotBefore ==
    /\ Before /\ Before' /\ ClientsOK /\ nextMid' \in Nat /\ SizesFit
    /\ UnmadeOK /\ NoneReleased /\ NoneReleased' /\ SlotInv
    /\ SlotKinds /\ \A b \in Boxes : ~(Closes(b) /\ Open(b))

\* Only MboxCreate gives a mailbox slots, and it had none.
LEMMA SlottedStep ==
    ASSUME SlotBefore, NEW b \in Boxes
    PROVE  /\ b \in Slotted => b \in Slotted' /\ MailBoxTable'[b].numSlots = MailBoxTable[b].numSlots
           /\ b \in Slotted' => b \in Slotted \/ \E args \in Client.creates : Makes(b, args)
<1>1. MailBoxTable[b].numSlots \in Nat /\ MailBoxTable'[b].numSlots \in Nat
  BY BoxRecords DEF SlotBefore, Before, CoreOK, TableOK, MailBox
<1> DEFINE Same == /\ Open(b)' = Open(b)
                   /\ MailBoxTable'[b].numSlots = MailBoxTable[b].numSlots
<1>0. /\ b \in Slotted <=> MailBoxTable[b].status = CREATED /\ MailBoxTable[b].numSlots > 0
      /\ b \in Slotted' <=> MailBoxTable'[b].status = CREATED /\ MailBoxTable'[b].numSlots > 0
  BY DEF Slotted, Open
<1>2. Same => (b \in Slotted' <=> b \in Slotted)
  BY <1>0 DEF Open
<1>3. CASE Still \/ HandsOver
  <2>1. Same
    BY <1>3 DEF Still, HandsOver, Kept, SameBox, Open
  <2> QED
    BY <1>2, <2>1
<1>4. ASSUME NEW a \in Boxes, KeptBut(a), a # b PROVE Same
  BY <1>4 DEF KeptBut, Kept, SameBox, Open
<1>5. ASSUME NEW pcs, NEW n, NEW k, NEW m,
             Awaits(b) \/ Counts(b, pcs, n) \/ Takes(b, k) \/ Puts(b, k, m)
      PROVE  Same
  BY <1>5 DEF Awaits, Counts, Takes, Puts, SameBox, Open
<1>6. ASSUME NEW a \in Boxes, NEW pcs, NEW n, NEW k, NEW m,
             Awaits(a) \/ Counts(a, pcs, n) \/ Takes(a, k) \/ Puts(a, k, m)
      PROVE  Same
  <2>1. KeptBut(a)
    BY <1>6 DEF Awaits, Counts, Takes, Puts
  <2> QED
    BY <1>4, <1>5, <1>6, <2>1
<1>7. ASSUME NEW a \in Boxes, Closes(a) PROVE Same \/ (b \notin Slotted /\ b \notin Slotted')
  <2>1. KeptBut(a) /\ ~Open(a) /\ ~Open(a)'
    BY <1>7, BoxNumbers DEF SlotBefore, Closes, Open
  <2> QED
    BY <1>0, <1>4, <2>1 DEF Open
<1>8. ASSUME NEW a \in Boxes, NEW args \in Client.creates, Makes(a, args)
      PROVE  Same \/ (a = b /\ b \notin Slotted)
  <2>1. KeptBut(a) /\ ~Open(a)
    BY <1>8, BoxNumbers DEF Makes, Open
  <2> QED
    BY <1>4, <2>1 DEF Slotted
<1>9. SlotKinds
  BY DEF SlotBefore
<1> HIDE DEF Same
<1>10. \/ Same \/ (b \notin Slotted /\ b \notin Slotted')
       \/ b \notin Slotted /\ \E args \in Client.creates : Makes(b, args)
  BY <1>3, <1>6, <1>7, <1>8, <1>9 DEF SlotKinds, Same, Still, HandsOver, Kept, SameBox, Open
<1> QED
  BY <1>2, <1>10 DEF Same

LEMMA DevicesStep == ASSUME SlotBefore PROVE DevicesOK'
<1> SUFFICES ASSUME NEW b \in Devices PROVE MailBoxTable'[b].numSlots = 0
  BY DEF DevicesOK
<1>1. /\ b \in Boxes /\ b < DEVICES /\ b \in Nat /\ DEVICES \in Nat
      /\ MailBoxTable[b].numSlots = 0 /\ nextMid \in Nat /\ DEVICES <= nextMid
  BY BoxNumbers DEF SlotBefore, SlotInv, DevicesOK, UnmadeOK
<1>2. ASSUME NEW a \in Boxes, NEW args \in Client.creates, Makes(a, args)
      PROVE  MailBoxTable'[b].numSlots = MailBoxTable[b].numSlots
  <2>1. nextMid' \in Nat /\ nextMid' <= MAXMBOX
    BY DEF SlotBefore, NoneReleased
  <2>2. a = nextMid' - 1 /\ nextMid' > nextMid /\ KeptBut(a)
    BY <1>2, <2>1 DEF Makes
  <2> DEFINE N == nextMid'
  <2>4. N \in Nat /\ N > nextMid /\ a = N - 1
    BY <2>1, <2>2
  <2> HIDE DEF N
  <2>5. a >= DEVICES
    BY <1>1, <2>4
  <2>3. a # b
    BY <1>1, <2>5
  <2> QED
    BY <1>1, <2>2, <2>3 DEF KeptBut, Kept, SameBox
<1>3. ASSUME NEW a \in Boxes, KeptBut(a), a # b
      PROVE  MailBoxTable'[b].numSlots = MailBoxTable[b].numSlots
  BY <1>1, <1>3 DEF KeptBut, Kept, SameBox
<1>4. ASSUME NEW a \in Boxes, NEW pcs, NEW n, NEW k, NEW m,
             Awaits(a) \/ Closes(a) \/ Counts(a, pcs, n) \/ Takes(a, k) \/ Puts(a, k, m)
      PROVE  MailBoxTable'[b].numSlots = MailBoxTable[b].numSlots
  <2>1. KeptBut(a) /\ MailBoxTable'[a].numSlots = MailBoxTable[a].numSlots
    BY <1>4 DEF Awaits, Closes, Counts, Takes, Puts, SameBox
  <2> QED
    BY <1>3, <2>1
<1>5. ASSUME Still \/ HandsOver PROVE MailBoxTable'[b].numSlots = MailBoxTable[b].numSlots
  BY <1>1, <1>5 DEF Still, HandsOver, Kept, SameBox
<1> QED
  BY <1>1, <1>2, <1>4, <1>5 DEF SlotBefore, SlotKinds

\* The size of the buffers of a mailbox is one that receivers pass.
LEMMA BufferStep ==
    ASSUME SlotBefore, NEW b \in Slotted, MailBoxTable[b].recv_size \in Limits
    PROVE  MailBoxTable'[b].recv_size \in Limits
<1>0. b \in Boxes /\ Open(b)
  BY DEF Slotted
<1>1. ASSUME NEW a \in Boxes, KeptBut(a), a # b PROVE MailBoxTable'[b].recv_size \in Limits
  BY <1>0, <1>1 DEF KeptBut, Kept, SameBox
<1>2. ASSUME NEW a \in Boxes, NEW pcs, NEW n, NEW k, NEW m,
             Awaits(a) \/ Counts(a, pcs, n) \/ Takes(a, k) \/ Puts(a, k, m)
      PROVE  MailBoxTable'[b].recv_size \in Limits
  <2>1. KeptBut(a)
    BY <1>2 DEF Awaits, Counts, Takes, Puts
  <2>2. a = b => MailBoxTable'[b].recv_size \in Limits
    BY <1>2 DEF Awaits, Counts, Takes, Puts, SameBox
  <2> QED
    BY <1>1, <2>1, <2>2
<1>3. ASSUME NEW a \in Boxes, NEW args, Makes(a, args) \/ Closes(a)
      PROVE  MailBoxTable'[b].recv_size \in Limits
  <2>1. KeptBut(a) /\ ~Open(a)
    BY <1>3, BoxNumbers DEF SlotBefore, Makes, Closes, Open
  <2> QED
    BY <1>0, <1>1, <2>1
<1>4. ASSUME Still \/ HandsOver PROVE MailBoxTable'[b].recv_size \in Limits
  BY <1>0, <1>4 DEF Still, HandsOver, Kept, SameBox
<1> QED
  BY <1>2, <1>3, <1>4 DEF SlotBefore, SlotKinds

LEMMA SlotPcs ==
    /\ \A pc \in FreePcs : pc \notin SlottedPcs
    /\ PendingPcs \subseteq SlottedPcs /\ UncountedPcs \subseteq SlottedPcs
    /\ "recvEmpty" \in SlottedPcs /\ "recvWoke" \in SlottedPcs
    /\ "sendWoke" \in SlottedPcs /\ "sendSort" \in SlottedPcs
    /\ "user" \in FreePcs /\ "releaseRecv" \in FreePcs /\ "recvZero" \notin SlottedPcs
    /\ \A pc \in PendingPcs : pc \notin UncountedPcs /\ pc # "recvEmpty" /\ pc # "recvWoke"
    /\ \A pc \in UncountedPcs : pc # "recvEmpty" /\ pc # "recvWoke"
    /\ "sendWoke" \in UncountedPcs /\ "sendSort" \in UncountedPcs
    /\ "sendFull" \in PendingPcs /\ "sendOrder" \in PendingPcs
BY DEF FreePcs, SlottedPcs, PendingPcs, UncountedPcs

\* A message for a mailbox with slots has one of the sizes that fit.
LEMMA PutFits ==
    ASSUME SlotBefore, NEW b \in Boxes, NEW k \in MailSlots, NEW m \in Message \cup {NULL},
           Puts(b, k, m)
    PROVE  b \in Slotted /\ m \in Message /\ m.size \in Sizes
<1>1. MailBoxTable[b].numSlots \in Nat /\ Open(b) /\ Current \in All
  BY BoxRecords, CallOf DEF SlotBefore, MailBox, Puts
<1>2. CASE /\ call[Current].pc = "user" /\ MailBoxTable[b].numSlots # 0 /\ Fresh(m, b)
  <2>1. b \notin Devices
    BY <1>2 DEF SlotBefore, SlotInv, DevicesOK
  <2> QED
    BY <1>1, <1>2, <2>1 DEF Fresh, Slotted
<1>3. CASE call[Current].pc \in PendingPcs /\ call[Current].box = b /\ m = call[Current].msg
  BY <1>1, <1>3, SlotPcs DEF SlotBefore, SlotInv, CallsOK, CallOK
<1> QED
  BY <1>2, <1>3 DEF Puts

\* The calls of the others, and the running process's if it stays where it is.
LEMMA SameCall ==
    ASSUME SlotBefore, NEW p \in All, call'[p] = call[p]
    PROVE  CallOK(call[p])'
<1> DEFINE c == call[p]
<1>1. CallOK(c) /\ c.box \in Boxes
  BY CallOf DEF SlotBefore, SlotInv, CallsOK, Before, CoreOK, Call
<1>2. c.box \in Slotted => c.box \in Slotted'
  BY <1>1, SlottedStep
<1>3. c.pc = "sendWoke" => MailBoxTable'[c.box].recv_size \in Limits
  BY <1>1, BufferStep, SlotPcs DEF CallOK
<1> QED
  BY <1>1, <1>2, <1>3, SlotPcs DEF CallOK

LEMMA StillCall ==
    ASSUME SlotBefore, Still, NEW p \in All, p = Current, NEW d, d = call'[p]
    PROVE  CallOK(d)'
<1> DEFINE c == call[p]
<1>0. Moves(c, d) /\ CallOK(c) /\ c \in Call
  BY CallOf DEF Still, SlotBefore, SlotInv, CallsOK, Before, CoreOK, QueueOK
<1>1. CASE d = c
  BY <1>0, <1>1, SameCall
<1>2. CASE d.pc \notin SlottedPcs
  BY <1>2, SlotPcs DEF CallOK
<1>3. CASE /\ c.pc = "user" /\ d.pc = "sendFull"
           /\ d.box \in Boxes /\ Open(d.box) /\ MailBoxTable[d.box].numSlots # 0
           /\ Fresh(d.msg, d.box)
  <2>1. MailBoxTable[d.box].numSlots \in Nat
    BY <1>3, BoxRecords DEF SlotBefore, MailBox
  <2>2. d.box \in Slotted
    BY <1>3, <2>1 DEF Slotted
  <2>3. d.box \in Slotted'
    BY <1>3, <2>2, SlottedStep
  <2>4. d.box \notin Devices
    BY <1>3 DEF SlotBefore, SlotInv, DevicesOK
  <2>5. d.msg \in Message /\ d.msg.size \in Sizes
    BY <1>3, <2>4 DEF Fresh
  <2> QED
    BY <1>3, <2>3, <2>5, SlotPcs DEF CallOK
<1>4. CASE c.pc \in PendingPcs /\ d.pc = "sendOrder" /\ d.box = c.box /\ d.msg = c.msg
  <2>1. d.box \in Slotted /\ d.msg \in Message /\ d.msg.size \in Sizes
    BY <1>0, <1>4, SlotPcs DEF CallOK
  <2>2. d.box \in Slotted'
    BY <2>1, SlottedStep DEF Slotted
  <2> QED
    BY <1>4, <2>1, <2>2, SlotPcs DEF CallOK
<1>5. CASE c.pc \in UncountedPcs /\ d.pc = "sendSort" /\ d.box = c.box
  <2>1. d.box \in Slotted
    BY <1>0, <1>5, SlotPcs DEF CallOK
  <2>2. d.box \in Slotted'
    BY <2>1, SlottedStep DEF Slotted
  <2> QED
    BY <1>5, <2>2, SlotPcs DEF CallOK
<1> QED
  BY <1>0, <1>1, <1>2, <1>3, <1>4, <1>5, SlotPcs DEF Moves

LEMMA CallsStep == ASSUME SlotBefore PROVE CallsOK'
<1> SUFFICES ASSUME NEW p \in All PROVE CallOK(call[p])'
  BY DEF CallsOK
<1>1. CASE call'[p] = call[p]
  BY <1>1, SameCall
<1> DEFINE d == call'[p]
<1>2. CASE d.pc \notin SlottedPcs
  BY <1>2, SlotPcs DEF CallOK
<1>3. CASE p = Current /\ Still
  <2>1. PICK x : x = call'[p]
    OBVIOUS
  <2>2. CallOK(x)'
    BY <1>3, <2>1, StillCall
  <2> QED
    BY <2>1, <2>2 DEF CallOK
<1>4. ASSUME p = Current, NEW b \in Boxes, Awaits(b) PROVE CallOK(call[p])'
  <2>1. d.pc = "recvEmpty" /\ d.box = b /\ d.limit \in Limits
    BY <1>4 DEF Awaits
  <2>2. b \in Slotted
    <3>1. MailBoxTable[b].numSlots \in Nat
      BY <1>4, BoxRecords DEF SlotBefore, MailBox
    <3> QED
      BY <1>4, <3>1 DEF Awaits, Slotted
  <2>3. b \in Slotted'
    BY <2>2, SlottedStep
  <2> QED
    BY <2>1, <2>3, SlotPcs DEF CallOK
<1>5. ASSUME p = Current, NEW b \in Boxes, NEW k \in MailSlots, Takes(b, k) PROVE CallOK(call[p])'
  <2>1. (d.pc = "recvWoke" /\ d.box = b) \/ d.pc = "user"
    BY <1>5 DEF Takes
  <2>2. k \in Members(Slots(b))
    BY <1>5, BoxRecords, RangeIsMembers DEF SlotBefore, Takes, Slots, MailBox
  <2>3. b \in Slotted
    BY <2>2 DEF SlotBefore, SlotInv, ListedOK, StoredOK
  <2>4. b \in Slotted'
    BY <2>3, SlottedStep
  <2> QED
    BY <2>1, <2>4, SlotPcs DEF CallOK
<1>6. ASSUME p = Current, NEW b \in Boxes, NEW k \in MailSlots, NEW m \in Message \cup {NULL},
             Puts(b, k, m)
      PROVE  CallOK(call[p])'
  <2>1. b \in Slotted /\ m \in Message /\ m.size \in Sizes
    BY <1>6, PutFits
  <2>2. b \in Slotted'
    BY <2>1, SlottedStep
  <2>3. CASE Receivers(b) # <<>> /\ d.pc = "sendWoke" /\ d.box = b /\ d.msg = m
    <3>1. MailBoxTable[b].recv_size \in Limits
      BY <2>1, <2>3 DEF SlotBefore, SlotInv, BuffersOK
    <3>2. MailBoxTable'[b].recv_size \in Limits
      BY <2>1, <3>1, BufferStep
    <3> QED
      BY <2>1, <2>2, <2>3, <3>2, SlotPcs DEF CallOK
  <2>4. CASE d.pc = "sendSort" /\ d.box = b
    BY <2>2, <2>4, SlotPcs DEF CallOK
  <2>5. CASE d.pc = "user"
    BY <1>2, <2>5, SlotPcs
  <2> QED
    BY <1>6, <2>3, <2>4, <2>5 DEF Puts
<1>7. ASSUME p = Current, NEW b \in Boxes, NEW pcs, NEW n, Counts(b, pcs, n) \/ Closes(b)
      PROVE  CallOK(call[p])'
  <2>1. d.pc \notin SlottedPcs
    BY <1>7, SlotPcs DEF Counts, Closes
  <2> QED
    BY <1>2, <2>1
<1>8. ASSUME p = Current, HandsOver \/ \E b \in Boxes, args \in Client.creates : Makes(b, args)
      PROVE  CallOK(call[p])'
  <2>1. d.pc \notin SlottedPcs \/ d = call[p]
    BY <1>8, SlotPcs DEF HandsOver, Makes
  <2> QED
    BY <1>1, <1>2, <2>1
<1>9. CASE p # Current
  <2>1. call'[p] = call[p]
    BY <1>9, OthersStayAlways DEF SlotBefore, OthersStay
  <2> QED
    BY <1>1, <2>1
<1> QED
  BY <1>3, <1>4, <1>5, <1>6, <1>7, <1>8, <1>9 DEF SlotBefore, SlotKinds

\* Receivers of a mailbox change only as the steps say.
LEMMA ReceiversStep ==
    ASSUME SlotBefore, NEW b \in Boxes, Receivers(b)' # Receivers(b), b \in Slotted
    PROVE  \/ Awaits(b)
           \/ \E k \in MailSlots, m \in Message \cup {NULL} : Puts(b, k, m) /\ Receivers(b) # <<>>
<1>0. MailBoxTable[b].numSlots > 0 /\ MailBoxTable[b].numSlots # 0
  BY DEF Slotted
<1>1. ASSUME NEW a \in Boxes, KeptBut(a) PROVE a = b
  BY <1>0, <1>1 DEF KeptBut, Kept, Receivers
<1>2. ~(Still \/ HandsOver)
  BY <1>0 DEF Still, HandsOver, Kept, Receivers
<1>3. ASSUME NEW a \in Boxes, NEW pcs, NEW n, NEW k, NEW args,
             Closes(a) \/ Counts(a, pcs, n) \/ Takes(a, k) \/ Makes(a, args)
      PROVE  FALSE
  <2>1. KeptBut(a) /\ MailBoxTable'[a].waitingToReceive = MailBoxTable[a].waitingToReceive
    BY <1>3 DEF Closes, Counts, Takes, Makes
  <2> QED
    BY <1>1, <2>1 DEF Receivers
<1>4. ASSUME NEW a \in Boxes, Awaits(a) PROVE a = b
  BY <1>1, <1>4 DEF Awaits
<1>5. ASSUME NEW a \in Boxes, NEW k, NEW m, Puts(a, k, m) PROVE a = b /\ Receivers(b) # <<>>
  <2>1. a = b
    BY <1>1, <1>5 DEF Puts
  <2> QED
    BY <1>5, <2>1 DEF Puts, Receivers
<1> QED
  BY <1>2, <1>3, <1>4, <1>5 DEF SlotBefore, SlotKinds

\* MboxCreate, as long as no mailbox has been released, makes one without receivers.
LEMMA MadeWithout ==
    ASSUME SlotBefore, NEW b \in Boxes, NEW args, Makes(b, args)
    PROVE  Receivers(b) = <<>> /\ Receivers(b)' = <<>>
<1>1. nextMid' \in Nat /\ nextMid' <= MAXMBOX /\ nextMid \in Nat
  BY DEF SlotBefore, NoneReleased, UnmadeOK
<1>2. b = nextMid' - 1 /\ nextMid' > nextMid /\ Receivers(b)' = Receivers(b)
  BY <1>1 DEF Makes, Receivers
<1> DEFINE N == nextMid'
<1>3. N \in Nat /\ N <= MAXMBOX /\ b = N - 1 /\ N > nextMid
  BY <1>1, <1>2
<1> HIDE DEF N
<1>4. b >= nextMid /\ nextMid <= MAXMBOX
  BY <1>1, <1>3, BoxNumbers
<1> QED
  BY <1>2, <1>4 DEF SlotBefore, UnmadeOK

LEMMA BuffersStep == ASSUME SlotBefore PROVE BuffersOK'
<1> SUFFICES ASSUME NEW b \in Slotted', Receivers(b)' # <<>> PROVE MailBoxTable'[b].recv_size \in Limits
  BY DEF BuffersOK
<1>0. b \in Boxes
  BY DEF Slotted
<1>1. ASSUME NEW args \in Client.creates, Makes(b, args) PROVE FALSE
  BY <1>0, <1>1, MadeWithout
<1>2. b \in Slotted
  BY <1>0, <1>1, SlottedStep
<1>3. CASE Receivers(b) # <<>>
  BY <1>2, <1>3, BufferStep DEF SlotBefore, SlotInv, BuffersOK
<1>4. CASE Receivers(b) = <<>>
  <2>1. Awaits(b)
    BY <1>0, <1>2, <1>4, ReceiversStep
  <2> QED
    BY <2>1 DEF Awaits
<1> QED
  BY <1>3, <1>4

\* The table of slots, and the lists, change in three ways.
SlotsKept == UNCHANGED MailSlotTable /\ \A a \in Boxes : Slots(a)' = Slots(a)

OtherLists(b) == \A a \in Boxes \ {b} : Slots(a)' = Slots(a)

SlotsMade(b) ==
    /\ \E args \in Client.creates : Makes(b, args)
    /\ UNCHANGED MailSlotTable /\ Slots(b)' = <<>> /\ OtherLists(b)

SlotTakenFrom(b, k) ==
    /\ Takes(b, k) /\ k \in Members(Slots(b))
    /\ Slots(b)' = RemoveAt(Slots(b), Place(Slots(b), k)) /\ OtherLists(b)
    /\ \A l \in MailSlots : MailSlotTable'[l] = IF l = k THEN CleanSlot ELSE MailSlotTable[l]

SlotPutInto(b, k, m) ==
    /\ Puts(b, k, m) /\ Slots(b)' = Append(Slots(b), k) /\ OtherLists(b)
    /\ \A l \in MailSlots :
          MailSlotTable'[l] = IF l = k THEN [status |-> CREATED, mboxID |-> b, message |-> m]
                              ELSE MailSlotTable[l]

LEMMA TableBy ==
    ASSUME Before
    PROVE  /\ Still \/ HandsOver => SlotsKept
           /\ \A b \in Boxes :
                 /\ Awaits(b) \/ Closes(b) \/ (\E pcs, n : Counts(b, pcs, n)) => SlotsKept
                 /\ (\E args \in Client.creates : Makes(b, args)) => SlotsMade(b)
                 /\ \A k \in MailSlots :
                       /\ Takes(b, k) => SlotTakenFrom(b, k)
                       /\ \A m \in Message \cup {NULL} : Puts(b, k, m) => SlotPutInto(b, k, m)
<1>0. DOMAIN MailSlotTable = MailSlots
  BY DEF Before, CoreOK
<1>1. ASSUME NEW b \in Boxes, KeptBut(b) PROVE OtherLists(b)
  BY <1>1 DEF KeptBut, Kept, Slots, OtherLists
<1>2. ASSUME Still \/ HandsOver PROVE SlotsKept
  BY <1>2 DEF Still, HandsOver, Kept, Slots, SlotsKept
<1>3. ASSUME NEW b \in Boxes, NEW pcs, NEW n, Awaits(b) \/ Closes(b) \/ Counts(b, pcs, n)
      PROVE  SlotsKept
  <2>1. UNCHANGED MailSlotTable /\ KeptBut(b) /\ Slots(b)' = Slots(b)
    BY <1>3 DEF Awaits, Closes, Counts, Slots
  <2> QED
    BY <1>1, <2>1 DEF SlotsKept, OtherLists
<1>4. ASSUME NEW b \in Boxes, NEW args \in Client.creates, Makes(b, args)
      PROVE  SlotsMade(b)
  <2>1. UNCHANGED MailSlotTable /\ KeptBut(b) /\ Slots(b)' = <<>>
    BY <1>4 DEF Makes, Slots
  <2> QED
    BY <1>1, <1>4, <2>1 DEF SlotsMade
<1>5. ASSUME NEW b \in Boxes, NEW k \in MailSlots, Takes(b, k) PROVE SlotTakenFrom(b, k)
  <2>1. KeptBut(b) /\ Slots(b)' = RemoveAt(Slots(b), Place(Slots(b), k))
    BY <1>5 DEF Takes, Slots
  <2>2. k \in Members(Slots(b))
    BY <1>5, BoxRecords, RangeIsMembers DEF Takes, Slots, MailBox
  <2>3. MailSlotTable' = [MailSlotTable EXCEPT ![k] = CleanSlot]
    BY <1>5 DEF Takes
  <2>4. \A l \in MailSlots : MailSlotTable'[l] = IF l = k THEN CleanSlot ELSE MailSlotTable[l]
    BY <1>0, <2>3
  <2> QED
    BY <1>1, <1>5, <2>1, <2>2, <2>4 DEF SlotTakenFrom
<1>6. ASSUME NEW b \in Boxes, NEW k \in MailSlots, NEW m \in Message \cup {NULL}, Puts(b, k, m)
      PROVE  SlotPutInto(b, k, m)
  <2>1. KeptBut(b) /\ Slots(b)' = Append(Slots(b), k)
    BY <1>6 DEF Puts, Slots
  <2> DEFINE full == [status |-> CREATED, mboxID |-> b, message |-> m]
  <2>2. MailSlotTable' = [MailSlotTable EXCEPT ![k] = full]
    BY <1>6 DEF Puts
  <2>3. \A l \in MailSlots : MailSlotTable'[l] = IF l = k THEN full ELSE MailSlotTable[l]
    BY <1>0, <2>2
  <2> QED
    BY <1>1, <1>6, <2>1, <2>3 DEF SlotPutInto
<1> QED
  BY <1>2, <1>3, <1>4, <1>5, <1>6

LEMMA TableStep ==
    ASSUME Before, SlotKinds
    PROVE  \/ SlotsKept
           \/ \E b \in Boxes :
                 \/ SlotsMade(b)
                 \/ \E k \in MailSlots :
                       SlotTakenFrom(b, k) \/ \E m \in Message \cup {NULL} : SlotPutInto(b, k, m)
BY TableBy DEF SlotKinds

LEMMA StoredStep == ASSUME SlotBefore PROVE StoredOK'
<1> SUFFICES ASSUME NEW k \in MailSlots, MailSlotTable'[k].status = CREATED
             PROVE  LET slot == MailSlotTable'[k]
                    IN  slot.message \in Message /\ slot.message.size \in Sizes
                        /\ slot.mboxID \in Slotted'
  BY DEF StoredOK, Used
<1>1. CASE MailSlotTable'[k] = MailSlotTable[k]
  <2>1. LET slot == MailSlotTable[k]
        IN  slot.message \in Message /\ slot.message.size \in Sizes /\ slot.mboxID \in Slotted
    BY <1>1 DEF SlotBefore, SlotInv, StoredOK, Used
  <2>2. MailSlotTable[k].mboxID \in Slotted'
    BY <2>1, SlottedStep DEF Slotted
  <2> QED
    BY <1>1, <2>1, <2>2
<1>2. MailSlotTable'[k] # CleanSlot
  BY BoxNumbers DEF CleanSlot
<1>3. ASSUME NEW b \in Boxes, NEW m \in Message \cup {NULL}, SlotPutInto(b, k, m)
      PROVE  LET slot == MailSlotTable'[k]
             IN  slot.message \in Message /\ slot.message.size \in Sizes
                 /\ slot.mboxID \in Slotted'
  BY <1>3, PutFits, SlottedStep DEF SlotPutInto
<1>4. ASSUME NEW b \in Boxes, NEW l \in MailSlots, SlotTakenFrom(b, l)
      PROVE  MailSlotTable'[k] = MailSlotTable[k]
  BY <1>2, <1>4 DEF SlotTakenFrom
<1>5. ASSUME NEW b \in Boxes, NEW l \in MailSlots, NEW m, SlotPutInto(b, l, m), l # k
      PROVE  MailSlotTable'[k] = MailSlotTable[k]
  BY <1>5 DEF SlotPutInto
<1>6. ASSUME SlotsKept \/ \E b \in Boxes : SlotsMade(b)
      PROVE  MailSlotTable'[k] = MailSlotTable[k]
  BY <1>6 DEF SlotsKept, SlotsMade
<1>7. Before /\ SlotKinds
  BY DEF SlotBefore
<1> QED
  BY <1>1, <1>3, <1>4, <1>5, <1>6, <1>7, TableStep

LEMMA ListedStep == ASSUME SlotBefore PROVE ListedOK'
<1> SUFFICES ASSUME NEW a \in Boxes
             PROVE  /\ Distinct(Slots(a)')
                    /\ \A k \in MailSlots : k \in Members(Slots(a)') <=>
                          MailSlotTable'[k].status = CREATED /\ MailSlotTable'[k].mboxID = a
  BY DEF ListedOK, Used
<1> DEFINE q == Slots(a)
           Belongs(k) == MailSlotTable[k].status = CREATED /\ MailSlotTable[k].mboxID = a
<1>1. /\ Distinct(q) /\ q \in Seq(MailSlots)
      /\ \A k \in MailSlots : k \in Members(q) <=> Belongs(k)
  BY BoxRecords DEF SlotBefore, SlotInv, ListedOK, Used, Slots, MailBox
<1>2. CASE UNCHANGED MailSlotTable /\ Slots(a)' = Slots(a)
  BY <1>1, <1>2
<1>3. ASSUME SlotsMade(a)
      PROVE  Distinct(Slots(a)') /\ \A k \in MailSlots : k \in Members(Slots(a)') <=> Belongs(k)'
  <2>1. a \notin Slotted
    BY <1>3, BoxNumbers DEF SlotsMade, Makes, Slotted, Open
  <2>2. \A k \in MailSlots : ~Belongs(k)
    BY <2>1 DEF SlotBefore, SlotInv, StoredOK, Used
  <2> QED
    BY <1>3, <2>2, EmptyList DEF SlotsMade, Distinct, Members
<1>4. ASSUME NEW b \in Boxes, NEW k \in MailSlots, SlotTakenFrom(b, k)
      PROVE  Distinct(Slots(a)') /\ \A l \in MailSlots : l \in Members(Slots(a)') <=> Belongs(l)'
  <2>1. MailSlotTable[k].mboxID = b
    BY <1>4 DEF SlotTakenFrom, SlotBefore, SlotInv, ListedOK
  <2>2. \A l \in MailSlots : Belongs(l)' <=> l # k /\ Belongs(l)
    BY <1>4, BoxNumbers DEF SlotTakenFrom, CleanSlot
  <2>3. CASE a # b
    <3>1. Slots(a)' = q /\ ~Belongs(k)
      BY <1>4, <2>1, <2>3 DEF SlotTakenFrom, OtherLists
    <3> QED
      BY <1>1, <2>2, <3>1
  <2>4. CASE a = b
    <3>1. k \in Range(MailBoxTable[a].slots) /\ MailBoxTable[a] \in MailBox
      BY <1>1, <1>4, <2>4, RangeIsMembers, BoxRecords DEF SlotTakenFrom, SlotBefore, Slots
    <3>2. Distinct(Slots(a)') /\ Members(Slots(a)') = Members(q) \ {k}
      BY <1>1, <1>4, <2>4, <3>1, SlotTaken DEF SlotTakenFrom, Slots
    <3> QED
      BY <1>1, <2>2, <3>2
  <2> QED
    BY <2>3, <2>4
<1>5. ASSUME NEW b \in Boxes, NEW k \in MailSlots, NEW m \in Message \cup {NULL},
             SlotPutInto(b, k, m)
      PROVE  Distinct(Slots(a)') /\ \A l \in MailSlots : l \in Members(Slots(a)') <=> Belongs(l)'
  <2>1. ~Belongs(k) /\ k \notin Members(q)
    BY <1>1, <1>5, BoxNumbers DEF SlotPutInto, Puts
  <2>2. \A l \in MailSlots : Belongs(l)' <=> (l = k /\ a = b) \/ Belongs(l)
    BY <1>5, <2>1 DEF SlotPutInto
  <2>3. CASE a # b
    BY <1>1, <1>5, <2>2, <2>3 DEF SlotPutInto, OtherLists
  <2>4. CASE a = b
    <3>1. Distinct(Append(q, k)) /\ Members(Append(q, k)) = Members(q) \cup {k}
      BY <1>1, <2>1, AppendDistinct, AppendMembers
    <3> QED
      BY <1>1, <1>5, <2>2, <2>4, <3>1 DEF SlotPutInto
  <2> QED
    BY <2>3, <2>4
<1>6. Before /\ SlotKinds
  BY DEF SlotBefore
<1>7. ASSUME SlotsKept PROVE Distinct(Slots(a)') /\ \A l \in MailSlots : l \in Members(Slots(a)') <=> Belongs(l)'
  BY <1>2, <1>7 DEF SlotsKept
<1>8. ASSUME NEW b \in Boxes, b # a, SlotsMade(b)
      PROVE  Distinct(Slots(a)') /\ \A l \in MailSlots : l \in Members(Slots(a)') <=> Belongs(l)'
  BY <1>2, <1>8 DEF SlotsMade, OtherLists
<1> QED
  BY <1>3, <1>4, <1>5, <1>6, <1>7, <1>8, TableStep

\* The numbers of the processes that have woken another and not counted yet.
Woken(b) == Cardinality(InCall(b, {"recvWoke"}))
Uncounted(b) == Cardinality(InCall(b, UncountedPcs))
AllWoken == Cardinality(Calling({"recvWoke"}))
AllUncounted == Cardinality(Calling(UncountedPcs))
AllUsed == Cardinality({k \in MailSlots : Used(k)})

At(b, a, n) == IF b = a THEN n ELSE 0

\* How the counts of mailbox a, and with them the totals, move.
CallsMove(a, w, u) ==
    /\ \A b \in Boxes : Woken(b)' = Woken(b) + At(b, a, w) /\ Uncounted(b)' = Uncounted(b) + At(b, a, u)
    /\ AllWoken' = AllWoken + w /\ AllUncounted' = AllUncounted + u

SlotsMove(a, l) ==
    /\ \A b \in Boxes : Len(Slots(b)') = Len(Slots(b)) + At(b, a, l)
    /\ AllUsed' = AllUsed + l

NumsMove(a, n) ==
    /\ \A b \in Boxes : MailBoxTable'[b].numSlotsUsed = MailBoxTable[b].numSlotsUsed + At(b, a, n)
    /\ numSlotsUsed' = numSlotsUsed + n

LEMMA Finite == IsFiniteSet(All) /\ IsFiniteSet(MailSlots)
<1>1. IsFiniteSet(All)
  BY MailboxAssumption, FS_AddElement DEF All
<1>2. 0 \in Int /\ MAXSLOTS - 1 \in Int
  BY MailboxAssumption
<1>3. IsFiniteSet(0 .. MAXSLOTS - 1)
  BY <1>2, FS_Interval, Zenon
<1> QED
  BY <1>1, <1>3 DEF MailSlots

LEMMA CountTypes ==
    /\ \A b : Woken(b) \in Nat /\ Uncounted(b) \in Nat
    /\ AllWoken \in Nat /\ AllUncounted \in Nat /\ AllUsed \in Nat
<1>1. \A b, pcs : InCall(b, pcs) \subseteq All /\ Calling(pcs) \subseteq All
  BY DEF InCall, Calling
<1>2. \A S \in SUBSET All : Cardinality(S) \in Nat
  BY Finite, FS_Subset, FS_CardinalityType
<1>3. {k \in MailSlots : Used(k)} \subseteq MailSlots
  OBVIOUS
<1>4. AllUsed \in Nat
  BY <1>3, Finite, FS_Subset, FS_CardinalityType DEF AllUsed
<1> QED
  BY <1>1, <1>2, <1>4 DEF Woken, Uncounted, AllWoken, AllUncounted

\* Only Current can enter or leave such a call.
LEMMA InCallStep ==
    ASSUME OthersStay, NEW cur, cur = Current, cur \in All, NEW b, NEW pcs
    PROVE  LET was == call[cur].box = b /\ call[cur].pc \in pcs
               is == call'[cur].box = b /\ call'[cur].pc \in pcs
               n == Cardinality(InCall(b, pcs))
               m == Cardinality(InCall(b, pcs)')
           IN  /\ (was <=> is) => m = n
               /\ ~was /\ is => m = n + 1
               /\ was /\ ~is => m = n - 1
<1> DEFINE S == InCall(b, pcs)
           T == InCall(b, pcs)'
<1>1. IsFiniteSet(S)
  BY Finite, FS_Subset DEF InCall
<1>2. \A p \in All \ {cur} : p \in S <=> p \in T
  BY DEF InCall, OthersStay
<1>3. T \ {cur} = S \ {cur}
  BY <1>2 DEF InCall
<1>4. (cur \in S <=> call[cur].box = b /\ call[cur].pc \in pcs)
      /\ (cur \in T <=> call'[cur].box = b /\ call'[cur].pc \in pcs)
  BY DEF InCall
<1> HIDE DEF S, T
<1> QED
  BY <1>1, <1>3, <1>4, CountMoves DEF S, T

LEMMA CallingStep ==
    ASSUME OthersStay, NEW cur, cur = Current, cur \in All, NEW pcs
    PROVE  LET was == call[cur].pc \in pcs
               is == call'[cur].pc \in pcs
               n == Cardinality(Calling(pcs))
               m == Cardinality(Calling(pcs)')
           IN  /\ (was <=> is) => m = n
               /\ ~was /\ is => m = n + 1
               /\ was /\ ~is => m = n - 1
<1> DEFINE S == Calling(pcs)
           T == Calling(pcs)'
<1>1. IsFiniteSet(S)
  BY Finite, FS_Subset DEF Calling
<1>2. \A p \in All \ {cur} : p \in S <=> p \in T
  BY DEF Calling, OthersStay
<1>3. T \ {cur} = S \ {cur}
  BY <1>2 DEF Calling
<1>4. (cur \in S <=> call[cur].pc \in pcs) /\ (cur \in T <=> call'[cur].pc \in pcs)
  BY DEF Calling
<1> HIDE DEF S, T
<1> QED
  BY <1>1, <1>3, <1>4, CountMoves DEF S, T

CountedPcs == UncountedPcs \cup {"recvWoke"}

LEMMA CallsMoveBy ==
    ASSUME OthersStay, NEW cur, cur = Current, cur \in All, NEW a \in Boxes,
           NEW c, c = call[cur], NEW d, d = call'[cur]
    PROVE  /\ c.pc \notin CountedPcs /\ d.pc \notin CountedPcs => CallsMove(a, 0, 0)
           /\ c.pc \in UncountedPcs /\ d.pc \in UncountedPcs /\ d.box = c.box => CallsMove(a, 0, 0)
           /\ d = c => CallsMove(a, 0, 0)
           /\ c.pc \notin CountedPcs /\ d.pc = "recvWoke" /\ d.box = a => CallsMove(a, 1, 0)
           /\ c.pc \notin CountedPcs /\ d.pc \in UncountedPcs /\ d.box = a => CallsMove(a, 0, 1)
           /\ c.pc \in UncountedPcs /\ c.box = a /\ d.pc \notin CountedPcs => CallsMove(a, 0, -1)
           /\ c.pc = "recvWoke" /\ c.box = a /\ d.pc \notin CountedPcs => CallsMove(a, -1, 0)
<1>1. \A b : Woken(b) \in Nat /\ Uncounted(b) \in Nat
  BY CountTypes
<1>2. AllWoken \in Nat /\ AllUncounted \in Nat
  BY CountTypes
<1> DEFINE WasW(b) == c.box = b /\ c.pc = "recvWoke"
           IsW(b) == d.box = b /\ d.pc = "recvWoke"
           WasU(b) == c.box = b /\ c.pc \in UncountedPcs
           IsU(b) == d.box = b /\ d.pc \in UncountedPcs
<1>3. ASSUME NEW b
      PROVE  /\ (WasW(b) <=> IsW(b)) => Woken(b)' = Woken(b)
             /\ ~WasW(b) /\ IsW(b) => Woken(b)' = Woken(b) + 1
             /\ WasW(b) /\ ~IsW(b) => Woken(b)' = Woken(b) - 1
             /\ (WasU(b) <=> IsU(b)) => Uncounted(b)' = Uncounted(b)
             /\ ~WasU(b) /\ IsU(b) => Uncounted(b)' = Uncounted(b) + 1
             /\ WasU(b) /\ ~IsU(b) => Uncounted(b)' = Uncounted(b) - 1
  BY InCallStep DEF Woken, Uncounted
<1>4. /\ (c.pc = "recvWoke" <=> d.pc = "recvWoke") => AllWoken' = AllWoken
      /\ c.pc # "recvWoke" /\ d.pc = "recvWoke" => AllWoken' = AllWoken + 1
      /\ c.pc = "recvWoke" /\ d.pc # "recvWoke" => AllWoken' = AllWoken - 1
      /\ (c.pc \in UncountedPcs <=> d.pc \in UncountedPcs) => AllUncounted' = AllUncounted
      /\ c.pc \notin UncountedPcs /\ d.pc \in UncountedPcs => AllUncounted' = AllUncounted + 1
      /\ c.pc \in UncountedPcs /\ d.pc \notin UncountedPcs => AllUncounted' = AllUncounted - 1
  BY CallingStep DEF AllWoken, AllUncounted
<1>5. "recvWoke" \in CountedPcs /\ UncountedPcs \subseteq CountedPcs /\ "recvWoke" \notin UncountedPcs
  BY SlotPcs DEF CountedPcs
<1>6. CASE \/ c.pc \notin CountedPcs /\ d.pc \notin CountedPcs
           \/ c.pc \in UncountedPcs /\ d.pc \in UncountedPcs /\ d.box = c.box
           \/ d = c
  <2>1. \A b : (WasW(b) <=> IsW(b)) /\ (WasU(b) <=> IsU(b))
    BY <1>5, <1>6
  <2>2. (c.pc = "recvWoke" <=> d.pc = "recvWoke") /\ (c.pc \in UncountedPcs <=> d.pc \in UncountedPcs)
    BY <1>5, <1>6
  <2>3. \A b \in Boxes : Woken(b)' = Woken(b) /\ Uncounted(b)' = Uncounted(b)
    BY <1>3, <2>1
  <2>4. ASSUME NEW b \in Boxes
        PROVE  Woken(b)' = Woken(b) + At(b, a, 0) /\ Uncounted(b)' = Uncounted(b) + At(b, a, 0)
    BY <1>1, <2>3 DEF At
  <2>5. AllWoken' = AllWoken + 0 /\ AllUncounted' = AllUncounted + 0
    BY <1>2, <1>4, <2>2
  <2>6. CallsMove(a, 0, 0)
    BY <2>4, <2>5 DEF CallsMove
  <2>7. ~(c.pc \notin CountedPcs /\ d.pc \in CountedPcs) /\ ~(c.pc \in CountedPcs /\ d.pc \notin CountedPcs)
    BY <1>5, <1>6
  <2> QED
    BY <1>5, <2>6, <2>7
<1>7. CASE c.pc \notin CountedPcs /\ d.pc = "recvWoke" /\ d.box = a
  <2>1. ASSUME NEW b \in Boxes
        PROVE  Woken(b)' = Woken(b) + At(b, a, 1) /\ Uncounted(b)' = Uncounted(b) + At(b, a, 0)
    <3>1. ~WasW(b) /\ (IsW(b) <=> b = a) /\ ~WasU(b) /\ ~IsU(b)
      BY <1>5, <1>7
    <3>2. /\ b = a => Woken(b)' = Woken(b) + 1
          /\ b # a => Woken(b)' = Woken(b)
          /\ Uncounted(b)' = Uncounted(b)
      BY <1>3, <3>1
    <3> QED
      BY <1>1, <3>2 DEF At
  <2>2. AllWoken' = AllWoken + 1 /\ AllUncounted' = AllUncounted + 0
    BY <1>2, <1>4, <1>5, <1>7
  <2>3. CallsMove(a, 1, 0)
    BY <2>1, <2>2 DEF CallsMove
  <2> QED
    BY <1>5, <1>7, <2>3
<1>8. CASE c.pc \notin CountedPcs /\ d.pc \in UncountedPcs /\ d.box = a
  <2>1. ASSUME NEW b \in Boxes
        PROVE  Woken(b)' = Woken(b) + At(b, a, 0) /\ Uncounted(b)' = Uncounted(b) + At(b, a, 1)
    <3>1. ~WasW(b) /\ ~IsW(b) /\ ~WasU(b) /\ (IsU(b) <=> b = a)
      BY <1>5, <1>8
    <3>2. /\ b = a => Uncounted(b)' = Uncounted(b) + 1
          /\ b # a => Uncounted(b)' = Uncounted(b)
          /\ Woken(b)' = Woken(b)
      BY <1>3, <3>1
    <3> QED
      BY <1>1, <3>2 DEF At
  <2>2. AllWoken' = AllWoken + 0 /\ AllUncounted' = AllUncounted + 1
    BY <1>2, <1>4, <1>5, <1>8
  <2>3. CallsMove(a, 0, 1)
    BY <2>1, <2>2 DEF CallsMove
  <2> QED
    BY <1>5, <1>8, <2>3
<1>9. CASE c.pc \in UncountedPcs /\ c.box = a /\ d.pc \notin CountedPcs
  <2>1. ASSUME NEW b \in Boxes
        PROVE  Woken(b)' = Woken(b) + At(b, a, 0) /\ Uncounted(b)' = Uncounted(b) + At(b, a, -1)
    <3>1. ~WasW(b) /\ ~IsW(b) /\ (WasU(b) <=> b = a) /\ ~IsU(b)
      BY <1>5, <1>9
    <3>2. /\ b = a => Uncounted(b)' = Uncounted(b) - 1
          /\ b # a => Uncounted(b)' = Uncounted(b)
          /\ Woken(b)' = Woken(b)
      BY <1>3, <3>1
    <3> QED
      BY <1>1, <3>2 DEF At
  <2>2. AllWoken' = AllWoken + 0 /\ AllUncounted' = AllUncounted + (-1)
    BY <1>2, <1>4, <1>5, <1>9
  <2>3. CallsMove(a, 0, -1)
    BY <2>1, <2>2 DEF CallsMove
  <2> QED
    BY <1>5, <1>9, <2>3
<1>10. CASE c.pc = "recvWoke" /\ c.box = a /\ d.pc \notin CountedPcs
  <2>1. ASSUME NEW b \in Boxes
        PROVE  Woken(b)' = Woken(b) + At(b, a, -1) /\ Uncounted(b)' = Uncounted(b) + At(b, a, 0)
    <3>1. (WasW(b) <=> b = a) /\ ~IsW(b) /\ ~WasU(b) /\ ~IsU(b)
      BY <1>5, <1>10
    <3>2. /\ b = a => Woken(b)' = Woken(b) - 1
          /\ b # a => Woken(b)' = Woken(b)
          /\ Uncounted(b)' = Uncounted(b)
      BY <1>3, <3>1
    <3> QED
      BY <1>1, <3>2 DEF At
  <2>2. AllWoken' = AllWoken + (-1) /\ AllUncounted' = AllUncounted + 0
    BY <1>2, <1>4, <1>5, <1>10
  <2>3. CallsMove(a, -1, 0)
    BY <2>1, <2>2 DEF CallsMove
  <2> QED
    BY <1>5, <1>10, <2>3
<1> HIDE DEF WasW, IsW, WasU, IsU
<1> QED
  BY <1>6, <1>7, <1>8, <1>9, <1>10

\* When the moves agree the counts stay right.
LEMMA MovesAgree ==
    ASSUME SlotBefore, CountsOK, NEW a, NEW l \in Int, NEW w \in Int, NEW u \in Int,
           CallsMove(a, w, u), SlotsMove(a, l), NumsMove(a, l + w - u)
    PROVE  TotalCount' /\ \A b \in Boxes : b \in Slotted => BoxCount(b)'
<1>1. AllWoken \in Nat /\ AllUncounted \in Nat /\ AllUsed \in Nat /\ numSlotsUsed \in Int
  BY CountTypes DEF SlotBefore, Before, CoreOK
<1>2. TotalCount'
  <2>1. numSlotsUsed = AllUsed + AllWoken - AllUncounted
    BY DEF CountsOK, TotalCount, AllUsed, AllWoken, AllUncounted
  <2>2. /\ AllWoken' = AllWoken + w /\ AllUncounted' = AllUncounted + u
        /\ AllUsed' = AllUsed + l /\ numSlotsUsed' = numSlotsUsed + (l + w - u)
    BY DEF CallsMove, SlotsMove, NumsMove
  <2>3. numSlotsUsed' = AllUsed' + AllWoken' - AllUncounted'
    BY <1>1, <2>1, <2>2
  <2> QED
    BY <2>3 DEF TotalCount, AllUsed, AllWoken, AllUncounted
<1>3. ASSUME NEW b \in Boxes, b \in Slotted PROVE BoxCount(b)'
  <2>1. Woken(b) \in Nat /\ Uncounted(b) \in Nat
    BY CountTypes
  <2>2. MailBoxTable[b].numSlotsUsed \in Int /\ Len(Slots(b)) \in Nat
    BY BoxRecords, LenProperties DEF SlotBefore, MailBox, Slots
  <2>3. MailBoxTable[b].numSlotsUsed = Len(Slots(b)) + Woken(b) - Uncounted(b)
    BY <1>3 DEF CountsOK, BoxCount, Woken, Uncounted
  <2>4. /\ Woken(b)' = Woken(b) + At(b, a, w) /\ Uncounted(b)' = Uncounted(b) + At(b, a, u)
        /\ Len(Slots(b)') = Len(Slots(b)) + At(b, a, l)
        /\ MailBoxTable'[b].numSlotsUsed = MailBoxTable[b].numSlotsUsed + At(b, a, l + w - u)
    BY DEF CallsMove, SlotsMove, NumsMove
  <2>5. MailBoxTable'[b].numSlotsUsed = Len(Slots(b)') + Woken(b)' - Uncounted(b)'
    <3>1. CASE b = a
      BY <2>1, <2>2, <2>3, <2>4, <3>1 DEF At
    <3>2. CASE b # a
      BY <2>1, <2>2, <2>3, <2>4, <3>2 DEF At
    <3> QED
      BY <3>1, <3>2
  <2> QED
    BY <2>5 DEF BoxCount, Woken, Uncounted
<1> QED
  BY <1>2, <1>3

LEMMA SlotsMoveBy ==
    ASSUME SlotBefore, NEW b \in Boxes
    PROVE  /\ SlotsKept => SlotsMove(b, 0)
           /\ \A k \in MailSlots : SlotTakenFrom(b, k) => SlotsMove(b, -1)
           /\ \A k \in MailSlots : \A m : SlotPutInto(b, k, m) => SlotsMove(b, 1)
<1> DEFINE S == {l \in MailSlots : Used(l)}
           T == {l \in MailSlots : MailSlotTable'[l].status = CREATED}
<1>1. \A a \in Boxes : Len(Slots(a)) \in Nat /\ Slots(a) \in Seq(MailSlots)
  BY BoxRecords, LenProperties DEF SlotBefore, MailBox, Slots
<1>2. IsFiniteSet(S) /\ AllUsed = Cardinality(S) /\ AllUsed' = Cardinality(T) /\ AllUsed \in Nat
  BY Finite, FS_Subset, CountTypes DEF AllUsed, Used
<1>3. ASSUME SlotsKept PROVE SlotsMove(b, 0)
  <2>1. \A a \in Boxes : Len(Slots(a)') = Len(Slots(a)) + At(a, b, 0)
    BY <1>1, <1>3 DEF SlotsKept, At
  <2>2. AllUsed' = AllUsed + 0
    BY <1>2, <1>3 DEF SlotsKept, Used
  <2> QED
    BY <2>1, <2>2 DEF SlotsMove
<1>4. ASSUME NEW k \in MailSlots, SlotTakenFrom(b, k) PROVE SlotsMove(b, -1)
  <2>1. Len(Slots(b)') = Len(Slots(b)) - 1
    <3>1. k \in Range(MailBoxTable[b].slots) /\ MailBoxTable[b] \in MailBox
      BY <1>1, <1>4, RangeIsMembers, BoxRecords DEF SlotTakenFrom, SlotBefore, Slots
    <3> QED
      BY <1>4, <3>1, SlotTaken DEF SlotTakenFrom, Slots
  <2>2. \A a \in Boxes : Len(Slots(a)') = Len(Slots(a)) + At(a, b, -1)
    BY <1>1, <1>4, <2>1 DEF SlotTakenFrom, OtherLists, At
  <2>3. k \in S
    BY <1>4 DEF SlotTakenFrom, SlotBefore, SlotInv, ListedOK
  <2>4. k \notin T /\ T \ {k} = S \ {k}
    BY <1>4, BoxNumbers DEF SlotTakenFrom, CleanSlot, Used
  <2> HIDE DEF S, T
  <2>5. AllUsed' = AllUsed + (-1)
    BY <1>2, <2>3, <2>4, CountMoves
  <2> QED
    BY <2>2, <2>5 DEF SlotsMove
<1>5. ASSUME NEW k \in MailSlots, NEW m, SlotPutInto(b, k, m) PROVE SlotsMove(b, 1)
  <2>1. Len(Slots(b)') = Len(Slots(b)) + 1
    BY <1>1, <1>5, AppendProperties DEF SlotPutInto
  <2>2. \A a \in Boxes : Len(Slots(a)') = Len(Slots(a)) + At(a, b, 1)
    BY <1>1, <1>5, <2>1 DEF SlotPutInto, OtherLists, At
  <2>3. k \notin S
    BY <1>5, BoxNumbers DEF SlotPutInto, Puts, Used
  <2>4. k \in T /\ T \ {k} = S \ {k}
    BY <1>5 DEF SlotPutInto, Used
  <2> HIDE DEF S, T
  <2>5. AllUsed' = AllUsed + 1
    BY <1>2, <2>3, <2>4, CountMoves
  <2> QED
    BY <2>2, <2>5 DEF SlotsMove
<1> QED
  BY <1>3, <1>4, <1>5

LEMMA NumsMoveBy ==
    ASSUME SlotBefore, NEW b \in Boxes
    PROVE  /\ \A n \in Int : KeptBut(b) /\ CountedBy(n, b) => NumsMove(b, n)
           /\ (\A a \in Boxes : Kept(MailBoxTable'[a], MailBoxTable[a])) /\ numSlotsUsed' = numSlotsUsed
                 => NumsMove(b, 0)
<1>1. \A a \in Boxes : MailBoxTable[a].numSlotsUsed \in Int
  BY BoxRecords DEF SlotBefore, MailBox
<1>2. numSlotsUsed \in Int
  BY DEF SlotBefore, Before, CoreOK
<1>3. ASSUME NEW n \in Int, KeptBut(b), CountedBy(n, b) PROVE NumsMove(b, n)
  <2>1. ASSUME NEW a \in Boxes
        PROVE  MailBoxTable'[a].numSlotsUsed = MailBoxTable[a].numSlotsUsed + At(a, b, n)
    <3>1. CASE a = b
      BY <1>3, <3>1 DEF CountedBy, At
    <3>2. CASE a # b
      BY <1>1, <1>3, <3>2 DEF KeptBut, Kept, At
    <3> QED
      BY <3>1, <3>2
  <2> QED
    BY <1>3, <2>1 DEF NumsMove, CountedBy
<1>4. ASSUME \A a \in Boxes : Kept(MailBoxTable'[a], MailBoxTable[a]), numSlotsUsed' = numSlotsUsed
      PROVE  NumsMove(b, 0)
  <2>1. \A a \in Boxes :
          MailBoxTable'[a].numSlotsUsed = MailBoxTable[a].numSlotsUsed + At(a, b, 0)
    BY <1>1, <1>4 DEF Kept, At
  <2> QED
    BY <1>2, <1>4, <2>1 DEF NumsMove
<1> QED
  BY <1>3, <1>4

\* A mailbox made has no messages, and nobody is in it yet.
LEMMA MadeCounts ==
    ASSUME SlotBefore, NEW b \in Boxes, NEW args \in Client.creates, Makes(b, args)
    PROVE  CountsOK'
<1>1. SlotsMade(b) /\ b \notin Slotted /\ MailBoxTable'[b].numSlotsUsed = 0
  BY TableBy, BoxNumbers DEF SlotBefore, Makes, Slotted, Open
<1>2. \A p \in All : call'[p] = call[p] /\ (call[p].pc \in SlottedPcs => call[p].box # b)
  BY <1>1 DEF Makes, SlotBefore, SlotInv, CallsOK, CallOK
<1>3. /\ InCall(b, {"recvWoke"})' = {} /\ InCall(b, UncountedPcs)' = {}
      /\ \A a, pcs : InCall(a, pcs)' = InCall(a, pcs) /\ Calling(pcs)' = Calling(pcs)
  <2>1. \A p \in All : ~(call'[p].box = b /\ call'[p].pc = "recvWoke")
    BY <1>2, SlotPcs
  <2>2. \A p \in All : ~(call'[p].box = b /\ call'[p].pc \in UncountedPcs)
    BY <1>2, SlotPcs
  <2> QED
    BY <1>2, <2>1, <2>2 DEF InCall, Calling
<1>4. TotalCount'
  BY <1>1, <1>3 DEF SlotBefore, SlotInv, CountsOK, TotalCount, SlotsMade, Makes, Used
<1>5. BoxCount(b)'
  <2>1. Cardinality({}) = 0
    BY FS_EmptySet
  <2>2. Slots(b)' = <<>> /\ Len(<<>>) = 0
    BY <1>1 DEF SlotsMade
  <2>3. Woken(b)' = 0 /\ Uncounted(b)' = 0
    BY <1>3, <2>1 DEF Woken, Uncounted
  <2>4. MailBoxTable'[b].numSlotsUsed = Len(Slots(b)') + Woken(b)' - Uncounted(b)'
    BY <1>1, <2>2, <2>3
  <2> QED
    BY <2>4 DEF BoxCount, Woken, Uncounted
<1>6. ASSUME NEW a \in Boxes, a # b, a \in Slotted' PROVE BoxCount(a)'
  <2>1. a \in Slotted
    <3>1. \A x \in Client.creates : ~Makes(a, x)
      BY <1>6, BoxNumbers DEF Makes, KeptBut, Kept, SameBox, Open
    <3> QED
      BY <1>6, <3>1, SlottedStep
  <2>2. BoxCount(a)
    BY <2>1 DEF SlotBefore, SlotInv, CountsOK
  <2>3. Slots(a)' = Slots(a) /\ MailBoxTable'[a].numSlotsUsed = MailBoxTable[a].numSlotsUsed
    BY <1>1, <1>6 DEF SlotsMade, OtherLists, Makes, KeptBut, Kept
  <2> QED
    BY <1>3, <2>2, <2>3 DEF BoxCount
<1> QED
  BY <1>4, <1>5, <1>6 DEF CountsOK, Slotted

\* The steps of the calls that change no count.
LEMMA StillMoves ==
    ASSUME SlotBefore, NEW cur, cur = Current, cur \in All, Still \/ HandsOver, NEW a \in Boxes
    PROVE  CallsMove(a, 0, 0)
<1> DEFINE c == call[cur]
           d == call'[cur]
<1>0. OthersStay /\ CallOK(c)
  BY OthersStayAlways DEF SlotBefore, SlotInv, CallsOK
<1>1. CASE \/ c.pc \notin CountedPcs /\ d.pc \notin CountedPcs
           \/ c.pc \in UncountedPcs /\ d.pc \in UncountedPcs /\ d.box = c.box
           \/ d = c
  <2>1. PICK x, y : x = c /\ y = d
    OBVIOUS
  <2> HIDE DEF c, d
  <2> QED
    BY <1>0, <1>1, <2>1, CallsMoveBy DEF c, d
<1>2. /\ \A pc \in FreePcs \cup PendingPcs : pc \notin CountedPcs
      /\ "recvZero" \notin CountedPcs /\ "recvEmpty" \notin CountedPcs
      /\ \A pc : pc \notin UncountedPcs \cup {"recvWoke"} => pc \notin CountedPcs
  BY DEF FreePcs, PendingPcs, UncountedPcs, CountedPcs
<1>3. CASE HandsOver
  BY <1>1, <1>2, <1>3, SlotPcs DEF HandsOver
<1>4. CASE Still
  <2>1. Moves(c, d)
    BY <1>4 DEF Still
  <2>2. ~(c.pc = "sendWoke" /\ MailBoxTable[c.box].recv_size < c.msg.size)
    <3> SUFFICES ASSUME c.pc = "sendWoke" PROVE ~(MailBoxTable[c.box].recv_size < c.msg.size)
      OBVIOUS
    <3>1. MailBoxTable[c.box].recv_size \in Limits /\ c.msg.size \in Sizes
      BY <1>0 DEF CallOK
    <3>2. \A size \in Sizes, limit \in Limits : ~(limit < size)
      BY MailboxAssumption DEF SlotBefore, SizesFit
    <3> QED
      BY <3>1, <3>2
  <2> HIDE DEF c, d
  <2> QED
    BY <1>1, <1>2, <2>1, <2>2, SlotPcs DEF Moves
<1> QED
  BY <1>3, <1>4

LEMMA CountsStep == ASSUME SlotBefore PROVE CountsOK'
<1>1. PICK cur \in All : cur = Current
  BY CallOf DEF SlotBefore
<1>2. PICK c, d : c = call[cur] /\ d = call'[cur]
  OBVIOUS
<1>3. OthersStay /\ SlotKinds /\ Before /\ CountsOK /\ CallOK(c)
  BY <1>2, OthersStayAlways DEF SlotBefore, SlotInv, CallsOK
<1>4. ASSUME NEW a \in Boxes, NEW l \in Int, NEW w \in Int, NEW u \in Int,
             CallsMove(a, w, u), SlotsMove(a, l), NumsMove(a, l + w - u),
             \A b \in Boxes : \A args \in Client.creates : ~Makes(b, args)
      PROVE  CountsOK'
  <2>1. TotalCount' /\ \A b \in Boxes : b \in Slotted => BoxCount(b)'
    BY <1>3, <1>4, MovesAgree
  <2>2. \A b \in Boxes : b \in Slotted' => b \in Slotted
    BY <1>4, SlottedStep
  <2>3. \A b \in Slotted' : BoxCount(b)'
    BY <2>1, <2>2 DEF Slotted
  <2> QED
    BY <2>1, <2>3 DEF CountsOK
<1>5. ASSUME NEW b \in Boxes, NEW args \in Client.creates, Makes(b, args) PROVE CountsOK'
  BY <1>5, MadeCounts
<1> DEFINE NoneMade == \A b \in Boxes : \A args \in Client.creates : ~Makes(b, args)
<1>6. ASSUME Still \/ HandsOver, NoneMade PROVE CountsOK'
  <2>1. 0 \in Boxes
    BY IdleIsCall
  <2>2. CallsMove(0, 0, 0)
    BY <1>1, <1>6, <2>1, StillMoves
  <2>3. SlotsMove(0, 0)
    BY <1>3, <1>6, <2>1, TableBy, SlotsMoveBy
  <2>4. NumsMove(0, 0)
    BY <1>6, <2>1, NumsMoveBy DEF Still, HandsOver
  <2>5. 0 \in Int /\ 0 + 0 - 0 = 0
    OBVIOUS
  <2> QED
    BY <1>4, <1>6, <2>1, <2>2, <2>3, <2>4, <2>5
<1>7. /\ \A pc \in FreePcs \cup PendingPcs : pc \notin CountedPcs
      /\ "recvEmpty" \notin CountedPcs /\ "user" \notin CountedPcs /\ "releaseRecv" \notin CountedPcs
  BY DEF FreePcs, PendingPcs, UncountedPcs, CountedPcs
<1>8. ASSUME NEW b \in Boxes, Awaits(b) \/ Closes(b), NoneMade PROVE CountsOK'
  <2>1. c.pc \notin CountedPcs /\ d.pc \notin CountedPcs
    BY <1>1, <1>2, <1>7, <1>8 DEF Awaits, Closes
  <2>2. CallsMove(b, 0, 0)
    BY <1>1, <1>2, <1>3, <2>1, CallsMoveBy
  <2>3. SlotsMove(b, 0)
    BY <1>3, <1>8, TableBy, SlotsMoveBy
  <2>4. KeptBut(b) /\ CountedBy(0, b)
    <3>1. MailBoxTable[b].numSlotsUsed \in Int /\ numSlotsUsed \in Int
      BY <1>3, BoxRecords DEF Before, CoreOK, MailBox
    <3> QED
      BY <1>8, <3>1 DEF Awaits, Closes, CountedBy
  <2>5. NumsMove(b, 0) /\ 0 \in Int /\ 0 + 0 - 0 = 0
    BY <2>4, NumsMoveBy
  <2> QED
    BY <1>4, <1>8, <2>2, <2>3, <2>5
<1>9. ASSUME NEW b \in Boxes, Counts(b, UncountedPcs, 1), NoneMade PROVE CountsOK'
  <2>1. c.pc \in UncountedPcs /\ c.box = b /\ d.pc \notin CountedPcs
    BY <1>1, <1>2, <1>7, <1>9 DEF Counts
  <2>2. CallsMove(b, 0, -1)
    BY <1>1, <1>2, <1>3, <2>1, CallsMoveBy
  <2>3. SlotsMove(b, 0)
    BY <1>3, <1>9, TableBy, SlotsMoveBy
  <2>4. NumsMove(b, 1)
    BY <1>9, NumsMoveBy DEF Counts
  <2>5. 0 \in Int /\ -1 \in Int /\ 0 + 0 - (-1) = 1
    OBVIOUS
  <2> QED
    BY <1>4, <1>9, <2>2, <2>3, <2>4, <2>5
<1>10. ASSUME NEW b \in Boxes, Counts(b, {"recvWoke"}, -1), NoneMade PROVE CountsOK'
  <2>1. c.pc = "recvWoke" /\ c.box = b /\ d.pc \notin CountedPcs
    BY <1>1, <1>2, <1>7, <1>10 DEF Counts
  <2>2. CallsMove(b, -1, 0)
    BY <1>1, <1>2, <1>3, <2>1, CallsMoveBy
  <2>3. SlotsMove(b, 0)
    BY <1>3, <1>10, TableBy, SlotsMoveBy
  <2>4. NumsMove(b, -1)
    BY <1>10, NumsMoveBy DEF Counts
  <2>5. 0 \in Int /\ -1 \in Int /\ 0 + (-1) - 0 = -1
    OBVIOUS
  <2> QED
    BY <1>4, <1>10, <2>2, <2>3, <2>4, <2>5
<1>11. ASSUME NEW b \in Boxes, NEW k \in MailSlots, Takes(b, k), NoneMade PROVE CountsOK'
  <2>1. c.pc \notin CountedPcs /\ KeptBut(b)
    BY <1>1, <1>2, <1>7, <1>11 DEF Takes
  <2>2. SlotsMove(b, -1)
    BY <1>3, <1>11, TableBy, SlotsMoveBy
  <2>3. CASE d.pc = "recvWoke" /\ d.box = b /\ CountedBy(0, b)
    <3>1. CallsMove(b, 1, 0)
      BY <1>1, <1>2, <1>3, <2>1, <2>3, CallsMoveBy
    <3>2. NumsMove(b, 0) /\ 0 \in Int /\ 1 \in Int /\ -1 \in Int /\ -1 + 1 - 0 = 0
      BY <2>1, <2>3, NumsMoveBy
    <3> QED
      BY <1>4, <1>11, <2>2, <3>1, <3>2
  <2>4. CASE d.pc = "user" /\ CountedBy(-1, b)
    <3>1. CallsMove(b, 0, 0)
      BY <1>1, <1>2, <1>3, <1>7, <2>1, <2>4, CallsMoveBy
    <3>2. NumsMove(b, -1) /\ 0 \in Int /\ -1 \in Int /\ -1 + 0 - 0 = -1
      BY <2>1, <2>4, NumsMoveBy
    <3> QED
      BY <1>4, <1>11, <2>2, <3>1, <3>2
  <2> QED
    BY <1>1, <1>2, <1>11, <2>3, <2>4 DEF Takes
<1>12. ASSUME NEW b \in Boxes, NEW k \in MailSlots, NEW m \in Message \cup {NULL},
              Puts(b, k, m), NoneMade
       PROVE  CountsOK'
  <2>1. c.pc \notin CountedPcs /\ KeptBut(b)
    BY <1>1, <1>2, <1>7, <1>12 DEF Puts
  <2>2. SlotsMove(b, 1)
    BY <1>3, <1>12, TableBy, SlotsMoveBy
  <2>3. CASE d.pc \in UncountedPcs /\ d.box = b /\ CountedBy(0, b)
    <3>1. CallsMove(b, 0, 1)
      BY <1>1, <1>2, <1>3, <2>1, <2>3, CallsMoveBy
    <3>2. NumsMove(b, 0) /\ 0 \in Int /\ 1 \in Int /\ 1 + 0 - 1 = 0
      BY <2>1, <2>3, NumsMoveBy
    <3> QED
      BY <1>4, <1>12, <2>2, <3>1, <3>2
  <2>4. CASE d.pc = "user" /\ CountedBy(1, b)
    <3>1. CallsMove(b, 0, 0)
      BY <1>1, <1>2, <1>3, <1>7, <2>1, <2>4, CallsMoveBy
    <3>2. NumsMove(b, 1) /\ 0 \in Int /\ 1 \in Int /\ 1 + 0 - 0 = 1
      BY <2>1, <2>4, NumsMoveBy
    <3> QED
      BY <1>4, <1>12, <2>2, <3>1, <3>2
  <2> QED
    BY <1>1, <1>2, <1>12, <2>3, <2>4, SlotPcs DEF Puts
<1> HIDE DEF NoneMade
<1>13. NoneMade \/ \E b \in Boxes, args \in Client.creates : Makes(b, args)
  BY DEF NoneMade
<1> QED
  BY <1>3, <1>5, <1>6, <1>8, <1>9, <1>10, <1>11, <1>12, <1>13 DEF SlotKinds

\* The first mailboxes have no messages and nobody waits.
LEMMA SlotInit == Init => UnmadeOK /\ SlotInv /\ MeantInv
<1> SUFFICES ASSUME Init PROVE UnmadeOK /\ SlotInv /\ MeantInv
  OBVIOUS
<1> DEFINE opened == Client.opened
           made == DEVICES .. DEVICES + Len(opened) - 1
<1>0. DEVICES \in Nat /\ MAXMBOX \in Nat /\ Len(opened) \in Nat
      /\ opened \in Seq([slots : Nat, size : Nat])
  <2>1. Client \in Behaviours
    BY MailboxAssumption DEF Init, Client
  <2>2. opened \in Seq([slots : Nat, size : Nat])
    BY <2>1 DEF Behaviours
  <2> QED
    BY <2>2, LenProperties, BoxNumbers
<1>1. ASSUME NEW b \in Boxes
      PROVE  /\ Slots(b) = <<>> /\ Receivers(b) = <<>> /\ MailBoxTable[b].numSlotsUsed = 0
             /\ b \in Devices => MailBoxTable[b].numSlots = 0
             /\ b >= nextMid => ~Open(b)
  <2>1. MailBoxTable[b] =
          CASE b \in Devices -> [UnmadeBox EXCEPT !.status = CREATED, !.slotSize = DeviceSlotSize]
            [] b \in made -> Made(UnmadeBox, opened[b - DEVICES + 1])
            [] OTHER -> UnmadeBox
    BY DEF Init
  <2>2. b \in Devices => b \notin made
    BY <1>0 DEF Devices
  <2>3. CASE b \in Devices
    <3>1. MailBoxTable[b] = [UnmadeBox EXCEPT !.status = CREATED, !.slotSize = DeviceSlotSize]
      BY <2>1, <2>2, <2>3
    <3>2. ~(b >= nextMid)
      BY <1>0, <2>3 DEF Init, Devices
    <3> QED
      BY <3>1, <3>2 DEF UnmadeBox, Slots, Receivers
  <2>4. CASE b \in made
    <3>1. MailBoxTable[b] = Made(UnmadeBox, opened[b - DEVICES + 1])
      BY <2>1, <2>2, <2>4
    <3>2. ~(b >= nextMid)
      BY <1>0, <2>4 DEF Init
    <3> QED
      BY <2>2, <2>4, <3>1, <3>2 DEF UnmadeBox, Made, Slots, Receivers
  <2>5. CASE b \notin Devices /\ b \notin made
    <3>1. MailBoxTable[b] = UnmadeBox
      BY <2>1, <2>5
    <3> QED
      BY <2>5, <3>1, BoxNumbers DEF UnmadeBox, Slots, Receivers, Open
  <2> QED
    BY <2>3, <2>4, <2>5
<1>2. nextMid \in Nat /\ DEVICES <= nextMid
  BY <1>0 DEF Init
<1>3. UnmadeOK
  BY <1>1, <1>2 DEF UnmadeOK
<1>4. \A p \in All : call[p].pc = "user"
  BY DEF Init, Idle
<1>5. \A k \in MailSlots : ~Used(k)
  BY BoxNumbers DEF Init, CleanSlot, Used
<1>6. DevicesOK /\ CallsOK /\ BuffersOK /\ StoredOK
  BY <1>1, <1>4, <1>5, SlotPcs, BoxNumbers
     DEF DevicesOK, CallsOK, CallOK, BuffersOK, StoredOK, Slotted
<1>7. ListedOK
  BY <1>1, <1>5, EmptyList, EmptySeq DEF ListedOK, Distinct, Members
<1>8. CountsOK
  <2>1. /\ {k \in MailSlots : Used(k)} = {} /\ Calling({"recvWoke"}) = {} /\ Calling(UncountedPcs) = {}
        /\ \A b : InCall(b, {"recvWoke"}) = {} /\ InCall(b, UncountedPcs) = {}
    BY <1>4, <1>5 DEF Calling, InCall, UncountedPcs
  <2>2. Cardinality({}) = 0 /\ Len(<<>>) = 0 /\ numSlotsUsed = 0
    BY FS_EmptySet DEF Init
  <2>3. AllWoken = 0 /\ AllUncounted = 0 /\ AllUsed = 0 /\ \A b : Woken(b) = 0 /\ Uncounted(b) = 0
    BY <2>1, <2>2 DEF AllWoken, AllUncounted, AllUsed, Woken, Uncounted
  <2>4. numSlotsUsed = AllUsed + AllWoken - AllUncounted
    BY <2>2, <2>3
  <2>5. ASSUME NEW b \in Boxes
        PROVE  MailBoxTable[b].numSlotsUsed = Len(Slots(b)) + Woken(b) - Uncounted(b)
    BY <1>1, <2>2, <2>3
  <2> QED
    BY <2>4, <2>5 DEF CountsOK, TotalCount, BoxCount, Slotted, AllWoken, AllUncounted, AllUsed,
                      Woken, Uncounted
<1>9. MeantInv
  BY <1>1, EmptyList DEF MeantInv, ReceiversOK, MeantOK, Members, Slotted
<1> QED
  BY <1>3, <1>6, <1>7, <1>8, <1>9 DEF SlotInv

LEMMA MidNumbers ==
    ASSUME NEW name \in DOMAIN Clients,
           NEW n \in 0 .. MaxMid \cup {DEVICES + Len(Clients[name].opened)}
    PROVE  n \in Nat
<1>1. Clients[name].opened \in Seq([slots : Nat, size : Nat])
  <2>1. Clients[name] \in Behaviours
    BY MailboxAssumption
  <2> QED
    BY <2>1 DEF Behaviours
<1>2. DEVICES + Len(Clients[name].opened) \in Nat
  BY <1>1, LenProperties, BoxNumbers
<1> QED
  BY <1>2, MailboxAssumption

LEMMA SlotStep ==
    ASSUME TypeInv, TypeInv', SizesFit, UnmadeOK, NoneReleased => SlotInv, [Next]_vars
    PROVE  UnmadeOK' /\ (NoneReleased' => SlotInv')
<1>1. Before /\ Before' /\ ClientsOK
  BY DEF TypeInv, Before, ClientsOK
<1>2. CASE Next
  <2>1. SlotKinds
    BY <1>1, <1>2, EverySlotStep
  <2>2. nextMid' \in Nat
    BY MidNumbers DEF TypeInv, ClientsOK, Client
  <2>3. UnmadeOK'
    BY <2>1, <2>2, UnmadeStep
  <2>4. ASSUME NoneReleased' PROVE SlotInv'
    <3>1. SlotBefore
      BY <1>1, <2>1, <2>2, <2>4, ReleasedBefore DEF SlotBefore
    <3> QED
      BY <3>1, DevicesStep, CallsStep, BuffersStep, StoredStep, ListedStep, CountsStep DEF SlotInv
  <2> QED
    BY <2>3, <2>4
<1>3. CASE UNCHANGED vars
  BY <1>3 DEF vars, core, UnmadeOK, NoneReleased, SlotInv, DevicesOK, CallsOK, CallOK, BuffersOK,
              StoredOK, ListedOK, CountsOK, TotalCount, BoxCount, Used, Calling, InCall, Slotted,
              Open, Slots, Receivers
<1> QED
  BY <1>2, <1>3

LEMMA SlotsInvariance ==
    ASSUME SizesFit
    PROVE  Spec => [](UnmadeOK /\ (NoneReleased => SlotInv))
<1> DEFINE Inv == UnmadeOK /\ (NoneReleased => SlotInv)
<1>1. Init => Inv
  BY SlotInit
<1>2. TypeInv /\ TypeInv' /\ Inv /\ [Next]_vars => Inv'
  BY SlotStep
<1> QED
  BY <1>1, <1>2, Types, PTL DEF Spec

\* For any number of processes, priorities, mailboxes and slots, as long as no
\* mailbox has been released and every message fits every buffer (a sender whose
\* receiver's buffer is too small returns from MboxSend without counting its
\* message, src/phase2/phase2.c): each slot in use is on the list of the mailbox it
\* names and on no other, and the counts that MboxSend compares with numSlots and
\* MAXSLOTS lag behind by exactly the calls still to count.
THEOREM SlotsStayAccounted ==
    ASSUME SizesFit
    PROVE  Spec => []SlotsAccounted
<1>1. TypeInv /\ UnmadeOK /\ (NoneReleased => SlotInv) => SlotsAccounted
  <2> SUFFICES ASSUME TypeInv, NoneReleased, SlotInv
               PROVE  EachSlotInOneBox /\ CountsBalance
    BY DEF SlotsAccounted
  <2>1. Before
    BY DEF TypeInv, ClientsOK, Before
  <2>2. ASSUME NEW b \in Boxes
        PROVE  IsInjective(MailBoxTable[b].slots) /\ Listed(b) = Members(Slots(b))
    <3>1. DOMAIN Slots(b) = 1 .. Len(Slots(b)) /\ Range(Slots(b)) = Members(Slots(b))
      BY <2>1, BoxRecords, RangeIsMembers DEF Slots, MailBox
    <3>2. Distinct(Slots(b))
      BY DEF SlotInv, ListedOK
    <3> QED
      BY <3>1, <3>2 DEF IsInjective, Distinct, Listed, Slots
  <2>3. ASSUME NEW k \in MailSlots
        PROVE  {b \in Boxes : k \in Listed(b)} =
                 IF MailSlotTable[k].status = CREATED THEN {MailSlotTable[k].mboxID} ELSE {}
    <3>1. \A b \in Boxes : k \in Listed(b) <=> Used(k) /\ MailSlotTable[k].mboxID = b
      BY <2>2 DEF SlotInv, ListedOK
    <3>2. Used(k) => MailSlotTable[k].mboxID \in Boxes
      BY DEF SlotInv, StoredOK, Slotted
    <3> QED
      BY <3>1, <3>2 DEF Used
  <2>4. CountsBalance
    BY DEF CountsBalance, SlotInv, CountsOK, TotalCount, BoxCount, Used, Calling, UncountedPcs, Slots
  <2> QED
    BY <2>2, <2>3, <2>4 DEF EachSlotInOneBox
<1> QED
  BY <1>1, SlotsInvariance, Types, PTL

-----------------------------------------------------------------------------
(***************************************************************************)
(* Whom the messages are for.                                              *)
(***************************************************************************)
MeantBefore == SlotBefore /\ Kinds /\ EntriesOK /\ ListsDistinct /\ MeantInv

PutsAny(b) == \E k \in MailSlots, m \in Message \cup {NULL} : Puts(b, k, m)

\* An entry gets a message only when it is the first of a list.
LEMMA HoldsStep ==
    ASSUME SlotKinds, NEW e \in 1 .. Len(processTable)
    PROVE  \/ Holds(e)' = Holds(e)
           \/ \E b \in Boxes : PutsAny(b) /\ Receivers(b) # <<>> /\ e = Head(Receivers(b))
<1>1. CASE Still \/ HandsOver
  BY <1>1 DEF Still, HandsOver, SameHolds
<1>2. ASSUME NEW b, NEW pcs, NEW n, NEW k, Awaits(b) \/ Counts(b, pcs, n) \/ Takes(b, k)
      PROVE  Holds(e)' = Holds(e)
  BY <1>2 DEF Awaits, Counts, Takes, SameHolds
<1>3. ASSUME NEW b, NEW args, Closes(b) \/ Makes(b, args) PROVE Holds(e)' = Holds(e)
  BY <1>3 DEF Closes, Makes, Holds
<1>4. ASSUME NEW b \in Boxes, NEW k \in MailSlots, NEW m \in Message \cup {NULL}, Puts(b, k, m)
      PROVE  \/ Holds(e)' = Holds(e)
             \/ PutsAny(b) /\ Receivers(b) # <<>> /\ e = Head(Receivers(b))
  BY <1>4 DEF Puts, SameHolds, PutsAny
<1> QED
  BY <1>1, <1>2, <1>3, <1>4 DEF SlotKinds

\* Whoever has been woken stays awake until it goes on.
LEMMA AwakeStep ==
    ASSUME Before, Kinds, EntriesOK, NEW p \in All, p \in Run, call[p].pc = "recvEmpty",
           call'[p] = call[p]
    PROVE  p \in Run'
<1>1. CASE Quiet
  BY <1>1 DEF Quiet
<1>2. ASSUME NEW b \in Boxes, Creates(b) PROVE p \in Run'
  BY <1>2 DEF Creates
<1>3. ASSUME NEW b \in Boxes, Releases(b) PROVE p \in Run'
  <2>1. Run' = Run
    BY <1>3, Zenon DEF Releases
  <2> QED
    BY <2>1
<1>4. CASE Quits
  BY <1>4 DEF Quits
<1>5. CASE ReleaseNext
  <2>1. PICK e : WalkTo(e)
    BY <1>5, WalkKind
  <2> QED
    BY <2>1 DEF WalkTo, WakesOf
<1>6. ASSUME NEW b \in Boxes, Wakes(b) PROVE p \in Run'
  BY <1>6 DEF Wakes, WakesOf
<1>7. ASSUME NEW b \in Boxes, Sleeps(b) PROVE p \in Run'
  <2>1. call[p].entry \in 1 .. Len(processTable) /\ Len(processTable) \in Nat
    BY TableOf, IdleIsCall, PcsApart DEF EntriesOK, ReceivePcs, WaitPcs
  <2>2. call[p].entry # Len(processTable) + 1
    BY <2>1
  <2>3. p # Current
    BY <1>7, <2>2 DEF Sleeps
  <2> QED
    BY <1>7, <2>3 DEF Sleeps
<1> QED
  BY <1>1, <1>4, <1>7, <1>5, <1>6, <1>2, <1>3 DEF Kinds

\* A receiver blocked on a mailbox with slots goes on only to take what it was given.
LEMMA GoesOnWith ==
    ASSUME SlotBefore, NEW p \in All, call[p].pc = "recvEmpty", call'[p] # call[p]
    PROVE  /\ p = Current /\ Holds(call[p].entry) \in MailSlots
           /\ Takes(call[p].box, Holds(call[p].entry))
<1> DEFINE c == call[p]
           d == call'[p]
<1>0. /\ c.box \in Slotted /\ c.box \in Boxes /\ Open(c.box) /\ c.limit \in Limits
      /\ p = Current
  BY SlotPcs, OthersStayAlways DEF SlotBefore, SlotInv, CallsOK, CallOK, Slotted, OthersStay
<1>1. ASSUME Moves(c, d) PROVE FALSE
  <2>1. Slots(c.box) # <<>> /\ ~Fits(Head(Slots(c.box)), c.limit)
    BY <1>0, <1>1, SlotPcs DEF Moves
  <2>2. Slots(c.box) \in Seq(MailSlots)
    BY <1>0, BoxRecords DEF SlotBefore, Slots, MailBox
  <2> DEFINE k == Head(Slots(c.box))
  <2>3. k \in MailSlots /\ k \in Members(Slots(c.box))
    BY <2>1, <2>2, TailMembers
  <2>4. MailSlotTable[k].message.size \in Sizes
    BY <1>0, <2>3 DEF SlotBefore, SlotInv, ListedOK, StoredOK
  <2>5. MailSlotTable[k].message.size <= c.limit
    BY <1>0, <2>4 DEF SlotBefore, SizesFit
  <2> QED
    BY <2>1, <2>5 DEF Fits
<1>2. ~(Still \/ HandsOver)
  BY <1>0, <1>1 DEF Still, HandsOver
<1>3. ASSUME NEW b, NEW k, NEW m, NEW args, Awaits(b) \/ Closes(b) \/ Puts(b, k, m) \/ Makes(b, args)
      PROVE  FALSE
  BY <1>0, <1>3, SlotPcs DEF Awaits, Closes, Puts, Makes
<1>4. ASSUME NEW b, NEW n, Counts(b, UncountedPcs, n) \/ Counts(b, {"recvWoke"}, n) PROVE FALSE
  BY <1>0, <1>4, SlotPcs DEF Counts
<1>5. ASSUME NEW b, NEW k \in MailSlots, Takes(b, k) PROVE b = c.box /\ k = Holds(c.entry)
  BY <1>0, <1>5 DEF Takes
<1>6. SlotKinds
  BY DEF SlotBefore
<1> QED
  BY <1>0, <1>2, <1>3, <1>4, <1>5, <1>6 DEF SlotKinds

\* What is on the lists after a step was there before, or has been put there.
LEMMA ListedBefore ==
    ASSUME SlotBefore, NEW b \in Slotted, NEW k \in MailSlots, k \in Members(Slots(b)')
    PROVE  k \in Members(Slots(b)) \/ \E m \in Message \cup {NULL} : Puts(b, k, m)
<1>0. b \in Boxes /\ Open(b) /\ Slots(b) \in Seq(MailSlots) /\ Distinct(Slots(b))
  BY BoxRecords DEF SlotBefore, Slotted, Slots, MailBox, SlotInv, ListedOK
<1>1. CASE Slots(b)' = Slots(b)
  BY <1>1
<1>2. ASSUME NEW a \in Boxes, SlotsMade(a) PROVE Slots(b)' = Slots(b)
  BY <1>0, <1>2, BoxNumbers DEF SlotsMade, OtherLists, Makes, Open
<1>3. ASSUME NEW a \in Boxes, NEW l \in MailSlots, SlotTakenFrom(a, l)
      PROVE  k \in Members(Slots(b))
  <2>1. CASE a # b
    BY <1>0, <1>3, <2>1 DEF SlotTakenFrom, OtherLists
  <2>2. CASE a = b
    <3>1. MailBoxTable[b] \in MailBox /\ l \in Range(MailBoxTable[b].slots)
      BY <1>0, <1>3, <2>2, RangeIsMembers, BoxRecords DEF SlotTakenFrom, SlotBefore, Slots
    <3>2. Members(Slots(b)') = Members(Slots(b)) \ {l}
      BY <1>0, <1>3, <2>2, <3>1, SlotTaken DEF SlotTakenFrom, Slots
    <3> QED
      BY <3>2
  <2> QED
    BY <2>1, <2>2
<1>4. ASSUME NEW a \in Boxes, NEW l \in MailSlots, NEW m \in Message \cup {NULL},
             SlotPutInto(a, l, m)
      PROVE  k \in Members(Slots(b)) \/ Puts(b, k, m)
  <2>1. CASE a # b
    BY <1>0, <1>4, <2>1 DEF SlotPutInto, OtherLists
  <2>2. CASE a = b
    <3>1. Slots(b)' = Append(Slots(b), l) /\ Puts(b, l, m)
      BY <1>4, <2>2 DEF SlotPutInto
    <3>2. Members(Slots(b)') = Members(Slots(b)) \cup {l}
      BY <1>0, <3>1, AppendMembers
    <3> QED
      BY <3>1, <3>2
  <2> QED
    BY <2>1, <2>2
<1>5. SlotsKept => Slots(b)' = Slots(b)
  BY <1>0 DEF SlotsKept
<1>6. Before /\ SlotKinds
  BY DEF SlotBefore
<1> QED
  BY <1>1, <1>2, <1>3, <1>4, <1>5, <1>6, TableStep

\* A message that was put into a mailbox with receivers took the first of them off.
LEMMA PutTakesFirst ==
    ASSUME MeantBefore, NEW b \in Boxes, PutsAny(b), Receivers(b) # <<>>
    PROVE  /\ b \in Slotted /\ Receivers(b)' = Tail(Receivers(b))
           /\ Head(Receivers(b)) \in Members(Receivers(b))
           /\ Head(Receivers(b)) \notin Members(Receivers(b)')
           /\ Members(Receivers(b)') \subseteq Members(Receivers(b))
           /\ Receivers(b)' # Receivers(b)
<1>1. b \in Slotted /\ Receivers(b)' = Tail(Receivers(b))
  BY PutFits DEF MeantBefore, PutsAny, Puts, Receivers
<1>2. Receivers(b) \in Seq(1 .. MAXPROC) /\ Distinct(Receivers(b))
  BY BoxRecords DEF MeantBefore, SlotBefore, ListsDistinct
<1> DEFINE q == Receivers(b)
<1>3. /\ Head(q) \in Members(q) /\ Members(q) = Members(Tail(q)) \cup {Head(q)}
      /\ Head(q) \notin Members(Tail(q))
  BY <1>2, TailMembers
<1> QED
  BY <1>1, <1>3

LEMMA OldReceiver ==
    ASSUME MeantBefore, NEW b \in Slotted, NEW e \in Members(Receivers(b)),
           e \in Members(Receivers(b)')
    PROVE  LET c == call'[processTable'[e].pid]
           IN  c.pc = "recvEmpty" /\ c.box = b /\ c.entry = e /\ Holds(e)' = NULL
<1>0. /\ b \in Boxes /\ e \in 1 .. Len(processTable)
      /\ processTable[e].pid \in All /\ processTable'[e].pid = processTable[e].pid
  BY BoxRecords, PidOf, PidsStay DEF MeantBefore, SlotBefore, Slotted
<1> DEFINE p == processTable[e].pid
<1>1. call[p].pc = "recvEmpty" /\ call[p].box = b /\ call[p].entry = e /\ Holds(e) = NULL
  BY DEF MeantBefore, MeantInv, ReceiversOK
<1>2. call'[p] = call[p]
  BY <1>0, <1>1, GoesOnWith, NullIsNoMessage DEF MeantBefore
<1>3. Holds(e)' = Holds(e)
  <2> SUFFICES ASSUME NEW a \in Boxes, PutsAny(a), Receivers(a) # <<>>, e = Head(Receivers(a))
               PROVE  FALSE
    BY <1>0, HoldsStep DEF MeantBefore, SlotBefore
  <2>1. a \in Slotted /\ e \in Members(Receivers(a)) /\ e \notin Members(Receivers(a)')
    BY PutTakesFirst
  <2>2. call[p].box = a
    BY <2>1 DEF MeantBefore, MeantInv, ReceiversOK
  <2> QED
    BY <1>1, <2>1, <2>2
<1> QED
  BY <1>0, <1>1, <1>2, <1>3

LEMMA ReceiversKeep == ASSUME MeantBefore PROVE ReceiversOK'
<1> SUFFICES ASSUME NEW b \in Slotted', NEW e \in Members(Receivers(b)')
             PROVE  LET c == call'[processTable'[e].pid]
                    IN  c.pc = "recvEmpty" /\ c.box = b /\ c.entry = e /\ Holds(e)' = NULL
  BY DEF ReceiversOK
<1>0. b \in Boxes
  BY DEF Slotted
<1>1. b \in Slotted
  BY <1>0, SlottedStep, MadeWithout, EmptyList DEF MeantBefore, Members
<1>2. CASE e \in Members(Receivers(b))
  BY <1>1, <1>2, OldReceiver
<1>3. CASE e \notin Members(Receivers(b))
  <2> DEFINE n == Len(processTable) + 1
  <2>1. Awaits(b)
    BY <1>0, <1>1, <1>3, ReceiversStep, PutTakesFirst DEF MeantBefore, PutsAny
  <2>2. Receivers(b)' = Append(Receivers(b), n)
    BY <2>1 DEF Awaits, Receivers
  <2>3. Receivers(b) \in Seq(Nat) /\ n \in Nat
    BY <1>0, BoxRecords, SeqOfNats DEF MeantBefore, SlotBefore
  <2>4. e = n
    <3> HIDE DEF n
    <3> QED
      BY <1>3, <2>2, <2>3, AppendMembers
  <2> QED
    BY <2>1, <2>4 DEF Awaits, Holds
<1> QED
  BY <1>2, <1>3

\* A receiver that has its message stays ready to take it, until it has.
LEMMA MeantStays ==
    ASSUME MeantBefore, NEW b \in Slotted, NEW k \in MailSlots, MeantFor(k, b),
           k \in Members(Slots(b)')
    PROVE  MeantFor(k, b)'
<1>1. PICK p \in All : /\ call[p].box = b /\ call[p].pc = "recvEmpty" /\ p \in Run
                       /\ Holds(call[p].entry) = k
  BY DEF MeantFor
<1>0. PICK e : e = call[p].entry
  OBVIOUS
<1>2. b \in Boxes /\ e \in 1 .. Len(processTable) /\ Holds(e) = k
  BY <1>0, <1>1, PcsApart DEF Slotted, MeantBefore, EntriesOK, ReceivePcs, Holds
<1>3. call'[p] = call[p]
  <2> SUFFICES ASSUME Takes(b, k) PROVE FALSE
    BY <1>1, GoesOnWith DEF MeantBefore
  <2>1. SlotTakenFrom(b, k)
    BY <1>2, TableBy DEF MeantBefore, SlotBefore
  <2>2. /\ MailBoxTable[b] \in MailBox /\ Slots(b) \in Seq(MailSlots) /\ Distinct(Slots(b))
        /\ k \in Range(MailBoxTable[b].slots)
    BY <1>2, <2>1, RangeIsMembers, BoxRecords
       DEF MeantBefore, SlotBefore, SlotInv, ListedOK, SlotTakenFrom, Slots, MailBox
  <2>3. Members(Slots(b)') = Members(Slots(b)) \ {k}
    BY <2>1, <2>2, SlotTaken DEF SlotTakenFrom, Slots
  <2> QED
    BY <2>3
<1>4. Holds(e)' = Holds(e)
  <2> SUFFICES ASSUME NEW a \in Boxes, PutsAny(a), Receivers(a) # <<>>, e = Head(Receivers(a))
               PROVE  FALSE
    BY <1>2, HoldsStep DEF MeantBefore, SlotBefore
  <2>1. a \in Slotted /\ e \in Members(Receivers(a))
    BY PutTakesFirst
  <2>2. Holds(e) = NULL
    BY <2>1 DEF MeantBefore, MeantInv, ReceiversOK
  <2> QED
    BY <1>2, <2>2, NullIsNoMessage
<1>5. p \in Run'
  BY <1>1, <1>3, AwakeStep DEF MeantBefore, SlotBefore
<1> QED
  BY <1>0, <1>1, <1>2, <1>3, <1>4, <1>5 DEF MeantFor, Holds

\* A new message is for the receiver that is taken off the list, and woken.
LEMMA MeantFirst ==
    ASSUME MeantBefore, NEW b \in Boxes, NEW k \in MailSlots, NEW m \in Message \cup {NULL},
           Puts(b, k, m), Receivers(b) # <<>>
    PROVE  MeantFor(k, b)'
<1>0. PICK e, p : e = Head(Receivers(b)) /\ p = processTable[e].pid
  OBVIOUS
<1>1. b \in Slotted /\ e \in Members(Receivers(b))
  BY <1>0, PutTakesFirst DEF PutsAny
<1>2. e \in 1 .. Len(processTable) /\ p \in All
  BY <1>0, <1>1, BoxRecords, PidOf DEF MeantBefore, SlotBefore
<1>3. call[p].pc = "recvEmpty" /\ call[p].box = b /\ call[p].entry = e
  BY <1>0, <1>1 DEF MeantBefore, MeantInv, ReceiversOK
<1>4. Holds(e)' = k /\ WakesOf(e) /\ (call[Current].pc = "user" \/ call[Current].pc \in PendingPcs)
  BY <1>0, <1>2 DEF Puts
<1>5. call'[p] = call[p]
  BY <1>2, <1>3, <1>4, OthersStayAlways, SlotPcs DEF MeantBefore, SlotBefore, OthersStay
<1>6. p \in Run'
  BY <1>0, <1>3, <1>4 DEF WakesOf, Blockable
<1> QED
  BY <1>2, <1>3, <1>4, <1>5, <1>6 DEF MeantFor, Holds

LEMMA MeantKeeps == ASSUME MeantBefore PROVE MeantOK'
<1> SUFFICES ASSUME NEW b \in Slotted', Receivers(b)' # <<>>, NEW k \in Members(Slots(b)')
             PROVE  MeantFor(k, b)'
  BY DEF MeantOK
<1>0. b \in Boxes /\ Before /\ Before'
  BY DEF Slotted, MeantBefore, SlotBefore
<1>1. b \in Slotted
  BY <1>0, SlottedStep, MadeWithout DEF MeantBefore
<1>2. k \in MailSlots
  <2>1. Slots(b)' \in Seq(MailSlots)
    BY <1>0 DEF Before, CoreOK, TableOK, Slots, MailBox
  <2> QED
    BY <2>1, ElementOfSeq, LenProperties DEF Members
<1>3. CASE Receivers(b) = <<>>
  <2>1. Awaits(b)
    BY <1>0, <1>1, <1>3, ReceiversStep DEF MeantBefore
  <2>2. Slots(b)' = <<>>
    BY <2>1 DEF Awaits, Slots
  <2> QED
    BY <2>2, EmptyList
<1>4. CASE Receivers(b) # <<>> /\ k \in Members(Slots(b))
  BY <1>1, <1>2, <1>4, MeantStays DEF MeantBefore, MeantInv, MeantOK
<1>5. ASSUME Receivers(b) # <<>>, NEW m \in Message \cup {NULL}, Puts(b, k, m)
      PROVE  MeantFor(k, b)'
  BY <1>0, <1>2, <1>5, MeantFirst
<1> QED
  BY <1>1, <1>2, <1>3, <1>4, <1>5, ListedBefore DEF MeantBefore

LEMMA MeantStep ==
    ASSUME TypeInv, TypeInv', WaitInv, SizesFit, UnmadeOK,
           NoneReleased => SlotInv, NoneReleased => MeantInv, [Next]_vars
    PROVE  NoneReleased' => MeantInv'
<1>1. Before /\ Before' /\ ClientsOK
  BY DEF TypeInv, Before, ClientsOK
<1>2. CASE Next
  <2> SUFFICES ASSUME NoneReleased' PROVE MeantInv'
    OBVIOUS
  <2>1. SlotKinds /\ Kinds
    BY <1>1, <1>2, EverySlotStep, EveryStep
  <2>2. nextMid' \in Nat
    BY MidNumbers DEF TypeInv, ClientsOK, Client
  <2>3. MeantBefore
    BY <1>1, <2>1, <2>2, ReleasedBefore DEF SlotBefore, MeantBefore, WaitInv
  <2> QED
    BY <2>3, ReceiversKeep, MeantKeeps DEF MeantInv
<1>3. CASE UNCHANGED vars
  BY <1>3 DEF vars, core, NoneReleased, MeantInv, ReceiversOK, MeantOK, MeantFor, Slotted, Open,
              Slots, Receivers, Holds, Run, Runnable
<1> QED
  BY <1>2, <1>3

\* Under the same hypothesis, for any number of processes and mailboxes: as long as
\* no mailbox has been released, no message lies in a mailbox while a receiver
\* waits on its list, but those meant for receivers that have been woken already.
THEOREM ReceiversAreWoken ==
    ASSUME SizesFit
    PROVE  Spec => []ReceiverNotStranded
<1> DEFINE Inv == NoneReleased => MeantInv
<1>1. Init => Inv
  BY SlotInit
<1>2. TypeInv /\ TypeInv' /\ WaitInv /\ (UnmadeOK /\ (NoneReleased => SlotInv)) /\ Inv /\ [Next]_vars
         => Inv'
  BY MeantStep
<1>3. TypeInv /\ Inv => ReceiverNotStranded
  <2> SUFFICES ASSUME TypeInv, MeantInv, NEW b \in Slotted, Receivers(b) # <<>>,
                      NEW k \in Listed(b)
               PROVE  k \in {processTable[call[p].entry].slotThatHoldsMyMessage :
                             p \in {q \in InCall(b, {"recvEmpty"}) : Awake(q)}}
    BY DEF ReceiverNotStranded, Receivers
  <2>1. Before
    BY DEF TypeInv, ClientsOK, Before
  <2>2. k \in Members(Slots(b))
    BY <2>1, BoxRecords, RangeIsMembers DEF Slotted, Listed, Slots, MailBox
  <2>3. PICK p \in All : /\ call[p].box = b /\ call[p].pc = "recvEmpty" /\ p \in Run
                         /\ Holds(call[p].entry) = k
    BY <2>2 DEF MeantInv, MeantOK, MeantFor
  <2>4. Awake(p)
    BY <2>1, <2>3, RangeIsMembers DEF Before, QueueOK, Awake, Blocked, Run, Runnable
  <2> QED
    BY <2>3, <2>4 DEF InCall, Holds
<1> HIDE DEF Inv
<1> QED
  BY <1>1, <1>2, <1>3, SlotsInvariance, Types, Waiting, PTL DEF Spec

-----------------------------------------------------------------------------
(***************************************************************************)
(* Each message in one place.                                              *)
(***************************************************************************)
\* The places a message can be in: a slot, the call of a blocked sender, and the
\* receipts.
InSlot(k, m) == Used(k) /\ Stored(k) = m
Carries(p, m) == Pending(p) /\ call[p].msg = m
Received(i, m) == delivered[i].msg = m

InOnePlace(m) ==
    /\ \A k, l \in MailSlots : InSlot(k, m) /\ InSlot(l, m) => k = l
    /\ \A p, q \in All : Carries(p, m) /\ Carries(q, m) => p = q
    /\ \A i, j \in 1 .. Len(delivered) : Received(i, m) /\ Received(j, m) => i = j
    /\ \A k \in MailSlots, p \in All : ~(InSlot(k, m) /\ Carries(p, m))
    /\ \A k \in MailSlots, i \in 1 .. Len(delivered) : ~(InSlot(k, m) /\ Received(i, m))
    /\ \A p \in All, i \in 1 .. Len(delivered) : ~(Carries(p, m) /\ Received(i, m))

Nowhere(m) ==
    /\ \A k \in MailSlots : ~InSlot(k, m)
    /\ \A p \in All : ~Carries(p, m)
    /\ \A i \in 1 .. Len(delivered) : ~Received(i, m)

LEMMA PlacesApart == TokensApart <=> \A m : InOnePlace(m)
<1>1. ASSUME TokensApart, NEW m PROVE InOnePlace(m)
  BY <1>1 DEF TokensApart, InOnePlace, InSlot, Carries, Received
<1>2. ASSUME \A m : InOnePlace(m) PROVE TokensApart
  BY <1>2 DEF TokensApart, InOnePlace, InSlot, Carries, Received
<1> QED
  BY <1>1, <1>2

\* Outside the slots K, the calls of P and the receipts I nothing comes in.
NoMore(m, K, P, I) ==
    /\ \A k \in MailSlots \ K : InSlot(k, m)' => InSlot(k, m)
    /\ \A p \in All \ P : Carries(p, m)' => Carries(p, m)
    /\ \A i \in 1 .. Len(delivered') :
          i \notin I /\ Received(i, m)' => i \in 1 .. Len(delivered) /\ Received(i, m)

LEMMA NothingNew ==
    ASSUME NEW m, InOnePlace(m), NoMore(m, {}, {}, {})
    PROVE  InOnePlace(m)' /\ (Nowhere(m) => Nowhere(m)')
BY DEF InOnePlace, Nowhere, NoMore

LEMMA FirstInSlot ==
    ASSUME NEW m, NEW k \in MailSlots, Nowhere(m), NoMore(m, {k}, {}, {})
    PROVE  InOnePlace(m)'
BY DEF InOnePlace, Nowhere, NoMore

LEMMA FirstInCall ==
    ASSUME NEW m, NEW p \in All, Nowhere(m), NoMore(m, {}, {p}, {})
    PROVE  InOnePlace(m)'
BY DEF InOnePlace, Nowhere, NoMore

LEMMA FromCallToSlot ==
    ASSUME NEW m, NEW k \in MailSlots, NEW p \in All, InOnePlace(m), Carries(p, m),
           NoMore(m, {k}, {}, {}), ~Carries(p, m)'
    PROVE  InOnePlace(m)'
BY DEF InOnePlace, NoMore

LEMMA FromSlotToReceipt ==
    ASSUME NEW m, NEW k \in MailSlots, NEW i, InOnePlace(m), InSlot(k, m),
           NoMore(m, {}, {}, {i}), ~InSlot(k, m)'
    PROVE  InOnePlace(m)'
BY DEF InOnePlace, NoMore

TokenBefore ==
    /\ Before /\ Before' /\ SlotKinds /\ SlottedOnly /\ TokenInv
    /\ \A from \in Procs \cup {NULL} :
          sends[from] \in Nat /\ sends'[from] \in Nat /\ sends[from] <= sends'[from]

\* m is in one place after the step, and sent if it comes from nowhere.
Accounted(m) == InOnePlace(m)' /\ (Nowhere(m) => Nowhere(m)' \/ Sent(m)')

LEMMA SentOnce == TokensSent <=> \A m : Nowhere(m) \/ Sent(m)
<1>1. ASSUME TokensSent, NEW m, ~Nowhere(m) PROVE Sent(m)
  BY <1>1 DEF TokensSent, Nowhere, InSlot, Carries, Received
<1>2. ASSUME \A m : Nowhere(m) \/ Sent(m) PROVE TokensSent
  BY <1>2 DEF TokensSent, Nowhere, InSlot, Carries, Received
<1> QED
  BY <1>1, <1>2

LEMMA FreshFirst ==
    ASSUME TokenBefore, NEW m, NEW b, Fresh(m, b)
    PROVE  Nowhere(m) /\ Sent(m)'
<1>1. m \in Message /\ m.from \in Procs \cup {NULL} /\ m.n = sends[m.from] + 1 /\ m.n = sends'[m.from]
  BY DEF Fresh, Message
<1>2. ~Sent(m) /\ Sent(m)'
  BY <1>1 DEF TokenBefore, Sent
<1> QED
  BY <1>2, SentOnce DEF TokenBefore, TokenInv

\* Nobody but the running process changes its call.
LEMMA CallsCarry ==
    ASSUME TokenBefore, NEW m, NEW p \in All, Carries(p, m)'
    PROVE  Carries(p, m) \/ p = Current
<1>1. p # Current => call'[p] = call[p]
  BY OthersStayAlways DEF TokenBefore, OthersStay
<1> QED
  BY <1>1 DEF Carries, Pending

\* The running process gets the message of its call, and no other, when it is fresh.
LEMMA OwnCall ==
    ASSUME TokenBefore, NEW m, NEW p \in All, p = Current, Carries(p, m)'
    PROVE  Carries(p, m) \/ (Still /\ \E b \in Boxes : Fresh(m, b))
<1>0. PICK d : d = call'[p]
  OBVIOUS
<1>1. d.pc \in PendingPcs /\ d.msg = m
  BY <1>0 DEF Carries, Pending
<1>2. CASE d = call[p]
  BY <1>0, <1>1, <1>2 DEF Carries, Pending
<1>3. ASSUME Still PROVE Carries(p, m) \/ \E b \in Boxes : Fresh(m, b)
  BY <1>0, <1>1, <1>2, <1>3, SlotPcs DEF Still, Moves, Carries, Pending
<1>4. ASSUME NEW b, NEW pcs, NEW n, NEW k, NEW x,
             Awaits(b) \/ Closes(b) \/ Counts(b, pcs, n) \/ Takes(b, k) \/ Puts(b, k, x)
      PROVE  FALSE
  BY <1>0, <1>1, <1>4, SlotPcs DEF Awaits, Closes, Counts, Takes, Puts, PendingPcs
<1>5. ASSUME HandsOver \/ \E b \in Boxes, args \in Client.creates : Makes(b, args) PROVE d = call[p]
  BY <1>0, <1>1, <1>5, SlotPcs DEF HandsOver, Makes
<1> QED
  BY <1>2, <1>3, <1>4, <1>5 DEF TokenBefore, SlotKinds

\* A step that leaves the slots and the receipts alone.
LEMMA CallOnly ==
    ASSUME TokenBefore, NEW m, UNCHANGED <<MailSlotTable, delivered>>
    PROVE  Accounted(m)
<1>0. PICK p \in All : p = Current
  BY CallOf DEF TokenBefore
<1>1. NoMore(m, {}, {p}, {})
  BY <1>0, CallsCarry DEF NoMore, InSlot, Used, Stored, Received
<1>2. InOnePlace(m)
  BY PlacesApart DEF TokenBefore, TokenInv
<1>3. CASE Carries(p, m)' => Carries(p, m)
  <2>1. NoMore(m, {}, {}, {})
    BY <1>1, <1>3 DEF NoMore
  <2> QED
    BY <1>2, <2>1, NothingNew DEF Accounted
<1>4. CASE \E b \in Boxes : Fresh(m, b)
  BY <1>1, <1>4, FreshFirst, FirstInCall DEF Accounted
<1> QED
  BY <1>0, <1>3, <1>4, OwnCall

LEMMA TakesTokens ==
    ASSUME TokenBefore, NEW m, NEW b \in Boxes, NEW k \in MailSlots, Takes(b, k)
    PROVE  Accounted(m)
<1> DEFINE n == Len(delivered)
<1>1. /\ delivered \in Seq(Delivery) /\ n \in Nat
      /\ Len(delivered') = n + 1 /\ delivered'[n + 1].msg = Stored(k)
      /\ \A i \in 1 .. n : delivered'[i] = delivered[i]
  <2> DEFINE new == [msg |-> Stored(k), by |-> Current, box |-> b]
  <2>1. delivered \in Seq(Delivery) /\ delivered' = Append(delivered, new)
    BY DEF TokenBefore, Before, CoreOK, Takes, Stored
  <2>2. new \in Delivery
    BY DEF TokenBefore, Before, CoreOK, QueueOK, MailSlot, Delivery, Stored
  <2> HIDE DEF new
  <2>3. Len(delivered') = n + 1 /\ delivered'[n + 1] = new /\ n \in Nat
        /\ \A i \in 1 .. n : delivered'[i] = delivered[i]
    BY <2>1, <2>2, AppendProperties, LenProperties
  <2> QED
    BY <2>1, <2>3 DEF new
<1>2. \A l \in MailSlots : InSlot(l, m)' <=> l # k /\ InSlot(l, m)
  <2>1. \A l \in MailSlots : MailSlotTable'[l] = IF l = k THEN CleanSlot ELSE MailSlotTable[l]
    BY TableBy DEF TokenBefore, SlotTakenFrom
  <2> QED
    BY <2>1, BoxNumbers DEF InSlot, Used, Stored, CleanSlot
<1>3. Used(k)
  BY TableBy DEF TokenBefore, TokenInv, ListsApart, SlotTakenFrom
<1>4. \A p \in All : Carries(p, m)' => Carries(p, m)
  <2>1. PICK p \in All : p = Current
    BY CallOf DEF TokenBefore
  <2>2. ~Carries(p, m)'
    BY <2>1 DEF Takes, Carries, Pending, PendingPcs
  <2> QED
    BY <2>1, <2>2, CallsCarry
<1>5. InOnePlace(m)
  BY PlacesApart DEF TokenBefore, TokenInv
<1>6. \A i \in 1 .. n+1 : Received(i, m)' =>
         (i \in 1 .. n /\ Received(i, m)) \/ (i = n + 1 /\ Stored(k) = m)
  BY <1>1 DEF Received
<1> HIDE DEF n
<1>7. CASE Stored(k) = m
  <2>1. InSlot(k, m) /\ ~InSlot(k, m)' /\ NoMore(m, {}, {}, {n + 1})
    BY <1>1, <1>2, <1>3, <1>4, <1>6, <1>7 DEF NoMore, InSlot, n
  <2> QED
    BY <1>5, <2>1, FromSlotToReceipt DEF Accounted, Nowhere
<1>8. CASE Stored(k) # m
  <2>1. NoMore(m, {}, {}, {})
    BY <1>1, <1>2, <1>4, <1>6, <1>8 DEF NoMore, n
  <2> QED
    BY <1>5, <2>1, NothingNew DEF Accounted
<1> QED
  BY <1>7, <1>8

LEMMA PutsTokens ==
    ASSUME TokenBefore, NEW m, NEW b \in Boxes, NEW k \in MailSlots, NEW x \in Message \cup {NULL},
           Puts(b, k, x)
    PROVE  Accounted(m)
<1>0. PICK p \in All : p = Current
  BY CallOf DEF TokenBefore
<1>1. \A l \in MailSlots : InSlot(l, m)' <=> IF l = k THEN x = m ELSE InSlot(l, m)
  <2>1. \A l \in MailSlots : MailSlotTable'[l] =
           IF l = k THEN [status |-> CREATED, mboxID |-> b, message |-> x] ELSE MailSlotTable[l]
    BY TableBy DEF TokenBefore, SlotPutInto
  <2> QED
    BY <2>1 DEF InSlot, Used, Stored
<1>2. delivered' = delivered /\ ~Carries(p, m)'
  BY <1>0, SlotPcs DEF Puts, Carries, Pending, PendingPcs
<1>3. \A q \in All : Carries(q, m)' => Carries(q, m)
  BY <1>0, <1>2, CallsCarry
<1>4. InOnePlace(m) /\ NoMore(m, {k}, {}, {})
  BY <1>1, <1>2, <1>3, PlacesApart DEF TokenBefore, TokenInv, NoMore, Received
<1>5. CASE x # m
  <2>1. NoMore(m, {}, {}, {})
    BY <1>1, <1>4, <1>5 DEF NoMore
  <2> QED
    BY <1>4, <2>1, NothingNew DEF Accounted
<1>6. CASE Fresh(m, b)
  BY <1>4, <1>6, FreshFirst, FirstInSlot DEF Accounted
<1>7. CASE Carries(p, m)
  BY <1>2, <1>4, <1>7, FromCallToSlot DEF Accounted, Nowhere
<1> QED
  BY <1>0, <1>5, <1>6, <1>7 DEF Puts, Carries, Pending

\* No client receives from a mailbox without slots.
LEMMA HandsNothing == ASSUME TokenBefore PROVE ~HandsOver
<1> SUFFICES ASSUME HandsOver PROVE FALSE
  OBVIOUS
<1>1. Current \in All /\ call[Current].pc = "user"
  BY CallOf DEF TokenBefore, TokenInv, NoRendezvous, HandsOver
<1>2. PICK b \in Boxes : ZeroSlots(b) /\ <<Current, "receive", b>> \in Client.calls
  BY <1>1 DEF HandsOver
<1>3. b \in Devices
  BY <1>2 DEF TokenBefore, TokenInv, NoRendezvous, ZeroSlots
<1> QED
  BY <1>1, <1>2, <1>3 DEF TokenBefore, SlottedOnly

LEMMA TokensStep == ASSUME TokenBefore PROVE TokensSent' /\ TokensApart'
<1>1. ASSUME NEW m PROVE Accounted(m)
  <2>1. CASE UNCHANGED <<MailSlotTable, delivered>>
    BY <2>1, CallOnly
  <2>2. ASSUME NEW b, NEW pcs, NEW n, NEW args,
               Still \/ Awaits(b) \/ Closes(b) \/ Counts(b, pcs, n) \/ Makes(b, args)
        PROVE  UNCHANGED <<MailSlotTable, delivered>>
    BY <2>2 DEF Still, Awaits, Closes, Counts, Makes
  <2>3. SlotKinds
    BY DEF TokenBefore
  <2> QED
    BY <2>1, <2>2, <2>3, HandsNothing, TakesTokens, PutsTokens DEF SlotKinds
<1>2. TokensApart'
  BY <1>1 DEF Accounted, TokensApart, InOnePlace, InSlot, Carries, Received
<1>3. \A m : Nowhere(m)' \/ Sent(m)'
  <2> SUFFICES ASSUME NEW m PROVE Nowhere(m)' \/ Sent(m)'
    OBVIOUS
  <2>1. Sent(m) => Sent(m)'
    <3> SUFFICES ASSUME m \in Message, m.n <= sends[m.from] PROVE m.n <= sends'[m.from]
      BY DEF Sent
    <3>1. m.from \in Procs \cup {NULL} /\ m.n \in Nat
      BY DEF Message
    <3> QED
      BY <3>1 DEF TokenBefore
  <2> QED
    BY <1>1, <2>1, SentOnce DEF TokenBefore, TokenInv, Accounted
<1>4. TokensSent'
  BY <1>3 DEF TokensSent, Nowhere, InSlot, Carries, Received
<1> QED
  BY <1>2, <1>4

LEMMA ListsApartStep ==
    ASSUME Before, SlotKinds, ListsApart
    PROVE  ListsApart'
<1> SUFFICES ASSUME NEW b \in Boxes
             PROVE  /\ Distinct(Slots(b)')
                    /\ \A k \in Members(Slots(b)') :
                          /\ MailSlotTable'[k].status = CREATED
                          /\ \A a \in Boxes : k \in Members(Slots(a)') => a = b
  BY DEF ListsApart, Used
<1>0. \A a \in Boxes :
         /\ Slots(a) \in Seq(MailSlots) /\ Distinct(Slots(a))
         /\ MailBoxTable[a] \in MailBox /\ Range(Slots(a)) = Members(Slots(a))
         /\ \A k \in Members(Slots(a)) :
               /\ k \in MailSlots /\ MailSlotTable[k].status = CREATED
               /\ \A c \in Boxes : k \in Members(Slots(c)) => c = a
  <2> SUFFICES ASSUME NEW a \in Boxes
               PROVE  /\ Slots(a) \in Seq(MailSlots) /\ MailBoxTable[a] \in MailBox
                      /\ Range(Slots(a)) = Members(Slots(a))
                      /\ \A k \in Members(Slots(a)) : k \in MailSlots
    BY DEF ListsApart, Used
  <2>1. Slots(a) \in Seq(MailSlots) /\ MailBoxTable[a] \in MailBox
    BY BoxRecords DEF Slots, MailBox
  <2> QED
    BY <2>1, RangeIsMembers, ElementOfSeq, LenProperties DEF Members
<1>1. CASE SlotsKept
  BY <1>0, <1>1 DEF SlotsKept
<1>2. ASSUME NEW c \in Boxes, SlotsMade(c)
      PROVE  /\ Distinct(Slots(b)')
             /\ \A k \in Members(Slots(b)') :
                   /\ MailSlotTable'[k].status = CREATED
                   /\ \A a \in Boxes : k \in Members(Slots(a)') => a = b
  <2>1. \A a \in Boxes : Slots(a)' = IF a = c THEN <<>> ELSE Slots(a)
    BY <1>2 DEF SlotsMade, OtherLists
  <2>2. Members(<<>>) = {} /\ Distinct(<<>>)
    BY EmptyList, EmptySeq DEF Distinct
  <2> QED
    BY <1>0, <1>2, <2>1, <2>2 DEF SlotsMade
<1>3. ASSUME NEW c \in Boxes, NEW l \in MailSlots, SlotTakenFrom(c, l)
      PROVE  /\ Distinct(Slots(b)')
             /\ \A k \in Members(Slots(b)') :
                   /\ MailSlotTable'[k].status = CREATED
                   /\ \A a \in Boxes : k \in Members(Slots(a)') => a = b
  <2>1. Distinct(Slots(c)') /\ Members(Slots(c)') = Members(Slots(c)) \ {l} /\ l \in Members(Slots(c))
    <3>1. l \in Members(Slots(c)) /\ Slots(c)' = RemoveAt(Slots(c), Place(Slots(c), l))
      BY <1>3 DEF SlotTakenFrom
    <3>2. /\ MailBoxTable[c] \in MailBox /\ l \in Range(MailBoxTable[c].slots)
          /\ Distinct(MailBoxTable[c].slots)
      BY <1>0, <3>1 DEF Slots
    <3> DEFINE q == MailBoxTable[c].slots
               r == RemoveAt(q, Place(q, l))
    <3>3. Distinct(r) /\ Members(r) = Members(q) \ {l}
      BY <3>2, SlotTaken
    <3> QED
      BY <3>1, <3>3 DEF Slots
  <2>2. \A a \in Boxes \ {c} : Slots(a)' = Slots(a)
    BY <1>3 DEF SlotTakenFrom, OtherLists
  <2>3. \A k \in MailSlots \ {l} : MailSlotTable'[k] = MailSlotTable[k]
    BY <1>3 DEF SlotTakenFrom
  <2>4. \A a \in Boxes : Distinct(Slots(a)') /\ Members(Slots(a)') = Members(Slots(a)) \ {l}
    BY <1>0, <2>1, <2>2
  <2> QED
    BY <1>0, <2>3, <2>4
<1>4. ASSUME NEW c \in Boxes, NEW l \in MailSlots, NEW m \in Message \cup {NULL},
             SlotPutInto(c, l, m)
      PROVE  /\ Distinct(Slots(b)')
             /\ \A k \in Members(Slots(b)') :
                   /\ MailSlotTable'[k].status = CREATED
                   /\ \A a \in Boxes : k \in Members(Slots(a)') => a = b
  <2>1. Slots(c)' = Append(Slots(c), l) /\ \A a \in Boxes \ {c} : Slots(a)' = Slots(a)
    BY <1>4 DEF SlotPutInto, OtherLists
  <2>2. \A a \in Boxes : l \notin Members(Slots(a))
    <3>1. MailSlotTable[l].status = UNUSED
      BY <1>4 DEF SlotPutInto, Puts
    <3> QED
      BY <1>0, <3>1, BoxNumbers
  <2>3. Distinct(Slots(c)') /\ Members(Slots(c)') = Members(Slots(c)) \cup {l}
    <3>1. Slots(c) \in Seq(MailSlots) /\ Distinct(Slots(c)) /\ l \notin Members(Slots(c))
      BY <1>0, <2>2
    <3>2. Distinct(Append(Slots(c), l)) /\ Members(Append(Slots(c), l)) = Members(Slots(c)) \cup {l}
      BY <3>1, AppendDistinct, AppendMembers
    <3> QED
      BY <2>1, <3>2
  <2>4. /\ MailSlotTable'[l].status = CREATED
        /\ \A k \in MailSlots \ {l} : MailSlotTable'[k] = MailSlotTable[k]
    BY <1>4 DEF SlotPutInto
  <2>5. \A a \in Boxes :
           /\ Distinct(Slots(a)')
           /\ \A k : k \in Members(Slots(a)') <=> k \in Members(Slots(a)) \/ (a = c /\ k = l)
    BY <1>0, <2>1, <2>3
  <2>6. ASSUME NEW k \in Members(Slots(b)')
        PROVE  /\ MailSlotTable'[k].status = CREATED
               /\ \A a \in Boxes : k \in Members(Slots(a)') => a = b
    <3>1. CASE k = l
      BY <2>2, <2>4, <2>5, <2>6, <3>1
    <3>2. CASE k # l
      BY <1>0, <2>4, <2>5, <2>6, <3>2
    <3> QED
      BY <3>1, <3>2
  <2> QED
    BY <2>5, <2>6
<1> QED
  BY <1>1, <1>2, <1>3, <1>4, TableStep

LEMMA NoRendezvousStep == ASSUME TokenBefore PROVE NoRendezvous'
<1>1. ASSUME NEW p \in All PROVE call'[p].pc # "recvZero"
  <2>0. PICK d : d = call'[p]
    OBVIOUS
  <2>1. CASE d = call[p]
    BY <2>0, <2>1 DEF TokenBefore, TokenInv, NoRendezvous
  <2>2. CASE p # Current
    BY <2>0, <2>1, <2>2, OthersStayAlways DEF TokenBefore, OthersStay
  <2>3. CASE p = Current /\ Still
    <3>1. ~(ZeroSlots(d.box) /\ <<p, "receive", d.box>> \in Client.calls)
      BY DEF TokenBefore, TokenInv, NoRendezvous, ZeroSlots, SlottedOnly
    <3> QED
      BY <2>0, <2>1, <2>3, <3>1, SlotPcs DEF Still, Moves, FreePcs
  <2>4. ASSUME p = Current, NEW b, NEW pcs, NEW n, NEW k, NEW x,
               Awaits(b) \/ Closes(b) \/ Counts(b, pcs, n) \/ Takes(b, k) \/ Puts(b, k, x)
        PROVE  d.pc # "recvZero"
    BY <2>0, <2>4 DEF Awaits, Closes, Counts, Takes, Puts
  <2>5. ASSUME NEW b, NEW args, Makes(b, args) PROVE d = call[p]
    BY <2>0, <2>5 DEF Makes
  <2>6. SlotKinds
    BY DEF TokenBefore
  <2> QED
    BY <2>0, <2>1, <2>2, <2>3, <2>4, <2>5, <2>6, HandsNothing DEF SlotKinds
<1>2. ASSUME NEW b \in Boxes \ Devices, MailBoxTable'[b].status = CREATED
      PROVE  MailBoxTable'[b].numSlots # 0
  <2> DEFINE Same == /\ MailBoxTable'[b].status = MailBoxTable[b].status
                     /\ MailBoxTable'[b].numSlots = MailBoxTable[b].numSlots
  <2>1. CASE Same
    BY <1>2, <2>1 DEF TokenBefore, TokenInv, NoRendezvous, Open
  <2>2. ASSUME NEW a, KeptBut(a), a # b PROVE Same
    BY <2>2 DEF KeptBut, Kept, SameBox
  <2>3. CASE Still
    BY <2>1, <2>3 DEF Still, Kept, SameBox
  <2>4. ASSUME NEW a, NEW pcs, NEW n, NEW k, NEW x,
               Awaits(a) \/ Counts(a, pcs, n) \/ Takes(a, k) \/ Puts(a, k, x)
        PROVE  Same
    <3>1. CASE a = b
      BY <2>4, <3>1 DEF Awaits, Counts, Takes, Puts, SameBox
    <3>2. KeptBut(a)
      BY <2>4 DEF Awaits, Counts, Takes, Puts
    <3> QED
      BY <2>2, <3>1, <3>2
  <2>5. ASSUME NEW a, Closes(a) PROVE Same
    BY <1>2, <2>2, <2>5, BoxNumbers DEF Closes
  <2>6. ASSUME NEW a \in Boxes, NEW args \in Client.creates, Makes(a, args)
        PROVE  MailBoxTable'[b].numSlots # 0
    <3>1. CASE a = b
      BY <2>6, <3>1 DEF Makes, TokenBefore, SlottedOnly
    <3>2. CASE a # b
      BY <2>1, <2>2, <2>6, <3>2 DEF Makes
    <3> QED
      BY <3>1, <3>2
  <2>7. SlotKinds
    BY DEF TokenBefore
  <2> HIDE DEF Same
  <2> QED
    BY <2>1, <2>3, <2>4, <2>5, <2>6, <2>7, HandsNothing DEF SlotKinds
<1> QED
  BY <1>1, <1>2 DEF NoRendezvous, Open

\* A message is sent with the number that follows, and the clients stay the same.
LEMMA SendsGrow ==
    ASSUME TypeInv, TypeInv', Next, NEW from \in Procs \cup {NULL}
    PROVE  sends[from] \in Nat /\ sends'[from] \in Nat /\ sends[from] <= sends'[from]
<1>1. sends \in [Procs \cup {NULL} -> Nat] /\ sends' \in [Procs \cup {NULL} -> Nat] /\ ClientsOK
  BY DEF TypeInv, ClientsOK
<1>2. ASSUME NEW b, NEW size, MboxSend(b, size) \/ MboxCondSend(b, size) PROVE sends[from] <= sends'[from]
  BY <1>1, <1>2 DEF MboxSend, MboxCondSend
<1>3. ASSUME NEW b, DeviceInterrupt(b) PROVE sends[from] <= sends'[from]
  BY <1>1, <1>3 DEF DeviceInterrupt
<1> QED
  BY <1>1, <1>2, <1>3, SendsStep

LEMMA SameSlotted == ASSUME Next PROVE SlottedOnly' <=> SlottedOnly
<1>1. Client' = Client
  BY SameClients DEF Client
<1> QED
  BY <1>1 DEF SlottedOnly

LEMMA TokenStep ==
    ASSUME TypeInv, TypeInv', SlottedOnly => TokenInv, [Next]_vars
    PROVE  SlottedOnly' => TokenInv'
<1>1. Before /\ Before' /\ ClientsOK
  BY DEF TypeInv, Before, ClientsOK
<1>2. CASE Next
  <2> SUFFICES ASSUME SlottedOnly' PROVE TokenInv'
    OBVIOUS
  <2>1. SlotKinds
    BY <1>1, <1>2, EverySlotStep
  <2>2. TokenBefore
    BY <1>1, <1>2, <2>1, SendsGrow, SameSlotted DEF TokenBefore
  <2> QED
    BY <2>2, TokensStep, NoRendezvousStep, ListsApartStep DEF TokenBefore, TokenInv
<1>3. CASE UNCHANGED vars
  BY <1>3 DEF vars, core, SlottedOnly, Client, TokenInv, NoRendezvous, TokensSent, TokensApart,
              ListsApart, Open, Used, Stored, Pending, Sent, Slots
<1> QED
  BY <1>2, <1>3

LEMMA TokenInit == Init /\ SlottedOnly => TokenInv
<1> SUFFICES ASSUME Init, SlottedOnly PROVE TokenInv
  OBVIOUS
<1>1. \A p \in All : call[p].pc = "user" /\ ~Pending(p)
  BY DEF Init, Idle, Pending, PendingPcs
<1>2. \A k \in MailSlots : ~Used(k)
  BY BoxNumbers DEF Init, CleanSlot, Used
<1>3. Len(delivered) = 0
  BY DEF Init
<1>4. \A b \in Boxes : Slots(b) = <<>>
  BY DEF Init, UnmadeBox, Made, Slots
<1>5. ASSUME NEW b \in Boxes \ Devices, Open(b) PROVE MailBoxTable[b].numSlots # 0
  <2> DEFINE i == b - DEVICES + 1
  <2>1. b \in DEVICES .. DEVICES + Len(Client.opened) - 1
    BY <1>5, BoxNumbers DEF Init, Open, UnmadeBox
  <2>2. MailBoxTable[b].numSlots = Client.opened[i].slots
    BY <1>5, <2>1 DEF Init, Made, UnmadeBox
  <2>3. Client.opened[i] \in Range(Client.opened)
    <3>1. DOMAIN Client.opened = 1 .. Len(Client.opened) /\ Len(Client.opened) \in Nat
      BY TypeInit, ClientOf, RangeIsMembers, LenProperties DEF TypeInv
    <3>2. i \in 1 .. Len(Client.opened)
      BY <2>1, <3>1, BoxNumbers
    <3> HIDE DEF i
    <3> QED
      BY <3>1, <3>2 DEF Range
  <2> HIDE DEF i
  <2> QED
    BY <2>2, <2>3 DEF SlottedOnly
<1>6. Members(<<>>) = {} /\ Distinct(<<>>)
  BY EmptyList, EmptySeq DEF Distinct
<1>7. NoRendezvous
  BY <1>1, <1>5 DEF NoRendezvous
<1>8. TokensSent /\ TokensApart
  BY <1>1, <1>2, <1>3 DEF TokensSent, TokensApart
<1>9. ListsApart
  BY <1>4, <1>6 DEF ListsApart
<1> QED
  BY <1>7, <1>8, <1>9 DEF TokenInv

\* While the clients keep to mailboxes with slots, whatever else they do (release
\* mailboxes, make them anew, send and receive in the conditional forms), no message
\* is in two slots, in a slot and received, or received twice, and none is received
\* that nobody sent.
THEOREM MessagesOnce == Spec => [](SlottedOnly => EachMessageOnce)
<1> DEFINE Inv == SlottedOnly => TokenInv
<1>1. Init => Inv
  BY TokenInit
<1>2. TypeInv /\ TypeInv' /\ Inv /\ [Next]_vars => Inv'
  <2> SUFFICES ASSUME TypeInv, TypeInv', SlottedOnly => TokenInv, [Next]_vars
               PROVE  SlottedOnly' => TokenInv'
    OBVIOUS
  <2> QED
    BY TokenStep
<1>3. TypeInv /\ Inv => (SlottedOnly => EachMessageOnce)
  <2> SUFFICES ASSUME TypeInv, TokenInv PROVE EachMessageOnce
    OBVIOUS
  <2> DEFINE UsedSlots == {k \in MailSlots : MailSlotTable[k].status = CREATED}
             Receipts == {i \in DOMAIN delivered : MailBoxTable[delivered[i].box].numSlots # 0}
  <2>1. Receipts \subseteq 1 .. Len(delivered)
    <3>1. delivered \in Seq(Delivery)
      BY DEF TypeInv, CoreOK
    <3> QED
      BY <3>1, LenProperties
  <2>2. UsedSlots = {k \in MailSlots : Used(k)}
    BY DEF Used
  <2>3. \A i \in Receipts :
            delivered[i].msg # NULL /\ delivered[i].msg.n <= sends[delivered[i].msg.from]
    BY <2>1, NullIsNoMessage DEF TokenInv, TokensSent, Sent
  <2>4. \A i \in Receipts, k \in UsedSlots : MailSlotTable[k].message # delivered[i].msg
    BY <2>1, <2>2 DEF TokenInv, TokensApart, Stored
  <2> HIDE DEF UsedSlots, Receipts
  <2>5. IsInjective([i \in Receipts |-> delivered[i].msg])
    BY <2>1 DEF TokenInv, TokensApart, IsInjective
  <2>6. IsInjective([k \in UsedSlots |-> MailSlotTable[k].message])
    BY <2>2 DEF TokenInv, TokensApart, IsInjective, Stored
  <2> QED
    BY <2>3, <2>4, <2>5, <2>6 DEF EachMessageOnce, UsedSlots, Receipts
<1> HIDE DEF Inv
<1> QED
  BY <1>1, <1>2, <1>3, Types, PTL DEF Spec


-----------------------------------------------------------------------------
(***************************************************************************)
(* What the theorem supposes of the clients, and the invariant.            *)
(***************************************************************************)
Receives(p, b) ==
    <<p, "receive", b>> \in Client.calls \/ <<p, "condReceive", b>> \in Client.calls

\* The clients use mailboxes as channels: each has one receiver, and is kept.
NoReleases == \A p \in Procs, b \in Boxes : <<p, "release", b>> \notin Client.calls
OneReceiver == \A b \in Boxes : \A p, q \in All : Receives(p, b) /\ Receives(q, b) => p = q
UsedAsChannels == NoReleases /\ OneReceiver

\* Whoever is on a list waits there, with that entry.
WaitsOn(e, b, pcs) ==
    LET p == processTable[e].pid
    IN  call[p].pc \in pcs /\ call[p].box = b /\ call[p].entry = e /\ p \notin Run

WaitersOK ==
    /\ \A p \in All : call[p].pc \notin ReleasePcs
    /\ \A b \in Boxes :
          /\ \A e \in Members(Receivers(b)) : WaitsOn(e, b, ReceivePcs)
          /\ \A e \in Members(Senders(b)) : WaitsOn(e, b, SendPcs)
          /\ \A e \in Members(Order(b)) : WaitsOn(e, b, {"sendOrder"})
          /\ Distinct(Order(b))

\* A sender that was early is on getCorrectOrder until it is woken.
EarlyOK ==
    \A p \in All : Asleep(p) /\ call[p].pc = "sendOrder" =>
        call[p].entry \in Members(Order(call[p].box))

\* Nothing has been sent to a mailbox nobody made.
NewOK ==
    \A b \in Boxes : ~Open(b) =>
        /\ Senders(b) = <<>> /\ Order(b) = <<>>
        /\ MailBoxTable[b].numMessagesSent = 0 /\ MailBoxTable[b].nextInLineMessageNumber = 1

ZeroOK == \A p \in All : call[p].pc = "sendZero" => ZeroSlots(call[p].box)

ReceiverOK == \A p \in All : call[p].pc \in {"recvEmpty", "recvWoke"} => Receives(p, call[p].box)

\* The senders still to put their message into b, with numbers of their own; all
\* others of the numbers given out are counted.
Unsent(b) == InCall(b, PendingPcs)
SentTo(b) == MailBoxTable[b].numMessagesSent
NextTurn(b) == MailBoxTable[b].nextInLineMessageNumber

NumbersOK(b) ==
    /\ \A p \in Unsent(b) : call[p].number \in 1 .. NextTurn(b)-1
    /\ \A p, q \in Unsent(b) : call[p].number = call[q].number => p = q
    /\ SentTo(b) + Cardinality(Unsent(b)) = NextTurn(b) - 1

\* Who is left on getCorrectOrder is early.
TurnsOK(b) ==
    InCall(b, UncountedPcs) = {} =>
        \A p \in Unsent(b) : call[p].entry \in Members(Order(b)) => call[p].number > SentTo(b) + 1

\* The list of senders is in the order of their coming, and all others came before.
InLine(p, b) == call[p].entry \in Members(Senders(b))

LineOK(b) ==
    /\ \A i, j \in 1 .. Len(Senders(b)) : i < j => Senders(b)[i] < Senders(b)[j]
    /\ \A p, q \in Unsent(b) :
          InLine(q, b) /\ (InLine(p, b) => call[p].entry < call[q].entry)
             => call[p].number < call[q].number

\* A mailbox that is empty while senders wait has let one go on.
LetGoOK(b) ==
    Slots(b) = <<>> /\ (Senders(b) # <<>> \/ InCall(b, {"recvWoke"}) # {}) =>
        \E p \in Unsent(b) : ~InLine(p, b)

OrderInv ==
    /\ NewOK /\ ZeroOK /\ ReceiverOK
    /\ \A b \in Slotted : NumbersOK(b) /\ TurnsOK(b) /\ LineOK(b) /\ LetGoOK(b)

-----------------------------------------------------------------------------
(***************************************************************************)
(* The steps, by what they do to the senders of a mailbox with slots.      *)
(***************************************************************************)
\* The calls in which a process neither has a message for a mailbox with slots nor
\* has still to count one.
AsidePcs == {"user", "gone", "sendZero", "recvZero", "recvEmpty"}

SameSide(new, old) ==
    /\ new.status = old.status /\ new.numSlots = old.numSlots
    /\ \/ old.status = CREATED /\ old.numSlots = 0
       \/ /\ new.slots = old.slots
          /\ new.waitingToSend = old.waitingToSend /\ new.getCorrectOrder = old.getCorrectOrder
          /\ new.numMessagesSent = old.numMessagesSent
          /\ new.nextInLineMessageNumber = old.nextInLineMessageNumber

SideBut(b) == \A a \in Boxes \ {b} : SameSide(MailBoxTable'[a], MailBoxTable[a])

Passes(c, d) ==
    \/ d = c
    \/ /\ c.pc \in AsidePcs \cup {"recvWoke"} /\ d.pc \in AsidePcs
       /\ d.pc = "sendZero" => ZeroSlots(d.box)
       /\ d.pc = "recvEmpty" => Receives(Current, d.box)
    \/ c.pc \in PendingPcs /\ ~Open(c.box) /\ d.pc = "user"
    \/ c.pc = "sendWoke" /\ MailBoxTable[c.box].recv_size < c.msg.size /\ d.pc = "user"

\* Nothing.
Aside ==
    /\ \A a \in Boxes : SameSide(MailBoxTable'[a], MailBoxTable[a])
    /\ OthersStay /\ Passes(call[Current], call'[Current])

\* What is left of b but for its lists and its numbers.
SameRest(b) ==
    /\ SideBut(b) /\ OthersStay /\ Open(b)
    /\ MailBoxTable'[b].status = CREATED
    /\ MailBoxTable'[b].numSlots = MailBoxTable[b].numSlots

\* MboxSend finds b full.
Joins(b) ==
    LET d == call'[Current]
        e == Len(processTable) + 1
    IN  /\ SameRest(b) /\ MailBoxTable[b].numSlots # 0
        /\ MailBoxTable[b].numSlotsUsed = MailBoxTable[b].numSlots
        /\ call[Current].pc = "user"
        /\ d.pc = "sendFull" /\ d.box = b /\ d.number = NextTurn(b) /\ d.entry = e
        /\ Senders(b)' = Append(Senders(b), e) /\ Order(b)' = Order(b)
        /\ Slots(b)' = Slots(b) /\ SentTo(b)' = SentTo(b) /\ NextTurn(b)' = NextTurn(b) + 1

\* The senders that are early are woken one by one before a message is counted.
Wakens(b) ==
    LET d == call'[Current]
    IN  \/ d.pc \in UncountedPcs /\ d.box = b /\ Members(Order(b)') \subseteq Members(Order(b))
        \/ d.pc = "user" /\ Order(b)' = <<>>

\* The message is put into a slot, right away or when the sender goes on.
Posts(b) ==
    LET c == call[Current]
    IN  /\ SameRest(b) /\ Wakens(b)
        /\ \/ /\ c.pc = "user" /\ MailBoxTable[b].numSlots # 0
              /\ NextTurn(b)' = NextTurn(b) + 1
           \/ /\ c.pc \in PendingPcs /\ c.box = b
              /\ NextTurn(b)' = NextTurn(b)
        /\ Senders(b)' = Senders(b) /\ Slots(b)' # <<>> /\ SentTo(b)' = SentTo(b) + 1

\* The sender that goes on is early.
Defers(b) ==
    LET c == call[Current]
        d == call'[Current]
        e == Len(processTable) + 1
    IN  /\ SameRest(b)
        /\ c.pc \in PendingPcs /\ c.box = b /\ c.number > SentTo(b) + 1
        /\ d.pc = "sendOrder" /\ d.box = b /\ d.number = c.number /\ d.entry = e
        /\ Senders(b)' = Senders(b) /\ Order(b)' = Append(Order(b), e)
        /\ Slots(b)' = Slots(b) /\ SentTo(b)' = SentTo(b) /\ NextTurn(b)' = NextTurn(b)

\* A message is taken, and the first sender woken.
Draws(b) ==
    LET c == call[Current]
        d == call'[Current]
    IN  /\ SameRest(b)
        /\ \/ c.pc = "user" /\ Receives(Current, b)
           \/ c.pc = "recvEmpty" /\ c.box = b
        /\ \/ /\ Senders(b) # <<>> /\ Senders(b)' = Tail(Senders(b))
              /\ d.pc = "recvWoke" /\ d.box = b
           \/ Senders(b) = <<>> /\ Senders(b)' = <<>> /\ d.pc = "user"
        /\ Order(b)' = Order(b) /\ SentTo(b)' = SentTo(b) /\ NextTurn(b)' = NextTurn(b)

\* The end of a send.
Finishes(b) ==
    LET c == call[Current]
    IN  /\ SideBut(b) /\ OthersStay
        /\ MailBoxTable'[b].status = MailBoxTable[b].status
        /\ MailBoxTable'[b].numSlots = MailBoxTable[b].numSlots
        /\ c.pc \in UncountedPcs /\ c.box = b /\ Wakens(b)
        /\ Senders(b)' = Senders(b) /\ Slots(b)' = Slots(b)
        /\ SentTo(b)' = SentTo(b) /\ NextTurn(b)' = NextTurn(b)

\* MboxCreate.
Opens(b) ==
    /\ SideBut(b) /\ call' = call
    /\ ~Open(b) /\ Open(b)'
    /\ Senders(b)' = Senders(b) /\ Order(b)' = Order(b) /\ Slots(b)' = <<>>
    /\ SentTo(b)' = SentTo(b) /\ NextTurn(b)' = NextTurn(b)

OrderKinds ==
    Aside \/ \E b \in Boxes : \/ Joins(b) \/ Posts(b) \/ Defers(b)
                              \/ Draws(b) \/ Finishes(b) \/ Opens(b)

LEMMA SideAt ==
    ASSUME Before, NEW b \in Boxes, NEW new, MailBoxTable' = [MailBoxTable EXCEPT ![b] = new]
    PROVE  MailBoxTable'[b] = new /\ SideBut(b)
BY DEF SideBut, SameSide, Before, CoreOK, TableOK

LEMMA SameSides ==
    ASSUME UNCHANGED MailBoxTable
    PROVE  \A a \in Boxes : SameSide(MailBoxTable'[a], MailBoxTable[a])
BY DEF SameSide

LEMMA AllSides ==
    ASSUME NEW b \in Boxes, SideBut(b), SameSide(MailBoxTable'[b], MailBoxTable[b])
    PROVE  \A a \in Boxes : SameSide(MailBoxTable'[a], MailBoxTable[a])
BY DEF SideBut

LEMMA HaltAside ==
    ASSUME NEW how, Halt(how)
    PROVE  Aside
BY SameSides DEF Halt, core, Aside, OthersStay, Passes

\* A step that changes nothing but the call of the running process.
LEMMA CallAside ==
    ASSUME Before, UNCHANGED MailBoxTable, NEW d, call' = [call EXCEPT ![Current] = d],
           Passes(call[Current], d)
    PROVE  Aside
BY CallAt, SameSides DEF Aside

\* blockMe, with newBox and the call c left behind, when it comes to it.
LEMMA BlocksAs ==
    ASSUME Before, NEW b \in Boxes, NEW newBox, NEW c \in Call, Block(b, newBox, c)
    PROVE  \/ Aside
           \/ /\ MailBoxTable'[b] = newBox /\ SideBut(b) /\ OthersStay
              /\ call'[Current] = [c EXCEPT !.entry = Len(processTable) + 1]
<1>1. CASE Halt("out_of_bounds") \/ Halt("sentinel_blocked")
  BY <1>1, HaltAside
<1>2. CASE /\ MailBoxTable' = [MailBoxTable EXCEPT ![b] = newBox]
           /\ call' = [call EXCEPT ![Current] = [c EXCEPT !.entry = NextEntry]]
  <2> DEFINE d == [c EXCEPT !.entry = NextEntry]
  <2>1. call'[Current] = d /\ OthersStay
    BY <1>2, CallAt
  <2> QED
    BY <1>2, <2>1, SideAt DEF NextEntry
<1> QED
  BY <1>1, <1>2 DEF Block

LEMMA WakeNextOrder ==
    ASSUME Before, NEW b \in Boxes, NEW box \in MailBox, NEW c \in Call, c.box = b,
           box.getCorrectOrder = Order(b), WakeNextInOrder(b, box, c)
    PROVE  /\ SideBut(b) /\ OthersStay /\ Wakens(b)
           /\ MailBoxTable'[b].status = box.status /\ MailBoxTable'[b].numSlots = box.numSlots
           /\ Senders(b)' = box.waitingToSend /\ Slots(b)' = box.slots
           /\ SentTo(b)' = box.numMessagesSent /\ NextTurn(b)' = box.nextInLineMessageNumber
<1> DEFINE kept(new) ==
             /\ new.status = box.status /\ new.numSlots = box.numSlots
             /\ new.waitingToSend = box.waitingToSend /\ new.slots = box.slots
             /\ new.numMessagesSent = box.numMessagesSent
             /\ new.nextInLineMessageNumber = box.nextInLineMessageNumber
<1>1. CASE box.getCorrectOrder # <<>>
  <2> DEFINE new == [box EXCEPT !.getCorrectOrder = Tail(@)]
             d == [c EXCEPT !.pc = "sendSort"]
  <2>1. /\ MailBoxTable' = [MailBoxTable EXCEPT ![b] = new]
        /\ call' = [call EXCEPT ![Current] = d]
    BY <1>1 DEF WakeNextInOrder
  <2>2. kept(new) /\ new.getCorrectOrder = Tail(Order(b))
    BY DEF MailBox
  <2>3. d.pc = "sendSort" /\ d.box = b
    BY DEF Call
  <2>4. Members(Tail(Order(b))) \subseteq Members(Order(b))
    BY <1>1, BoxRecords, TailMembers
  <2> HIDE DEF new, d
  <2>5. MailBoxTable'[b] = new /\ SideBut(b) /\ call'[Current] = d /\ OthersStay
    BY <2>1, SideAt, CallAt
  <2>6. Order(b)' = Tail(Order(b))
    BY <2>2, <2>5 DEF Order
  <2>7. Wakens(b)
    BY <2>3, <2>4, <2>5, <2>6 DEF Wakens, UncountedPcs
  <2> QED
    BY <2>2, <2>5, <2>7 DEF Senders, Slots, SentTo, NextTurn
<1>2. CASE box.getCorrectOrder = <<>>
  <2> DEFINE new == [box EXCEPT !.numSlotsUsed = @ + 1]
  <2>1. /\ MailBoxTable' = [MailBoxTable EXCEPT ![b] = new]
        /\ call' = [call EXCEPT ![Current] = Idle]
    BY <1>2 DEF WakeNextInOrder, Returns
  <2>2. kept(new) /\ new.getCorrectOrder = <<>>
    BY <1>2 DEF MailBox
  <2> HIDE DEF new
  <2>3. MailBoxTable'[b] = new /\ SideBut(b) /\ call'[Current] = Idle /\ OthersStay
    BY <2>1, SideAt, CallAt
  <2>4. Order(b)' = <<>>
    BY <2>2, <2>3 DEF Order
  <2>5. Wakens(b)
    BY <2>3, <2>4 DEF Wakens, Idle
  <2> QED
    BY <2>2, <2>3, <2>5 DEF Senders, Slots, SentTo, NextTurn
<1> QED
  BY <1>1, <1>2

\* What MboxSend leaves of b when it has put a message into a slot, box being b as
\* it was when the number was given out.
PostedFrom(b, box) ==
    /\ SideBut(b) /\ OthersStay /\ Wakens(b)
    /\ MailBoxTable'[b].status = box.status /\ MailBoxTable'[b].numSlots = box.numSlots
    /\ Senders(b)' = box.waitingToSend /\ Slots(b)' # <<>>
    /\ SentTo(b)' = box.numMessagesSent + 1 /\ NextTurn(b)' = box.nextInLineMessageNumber

LEMMA PutInSlotOrder ==
    ASSUME Before, NEW b \in Boxes, NEW box \in MailBox, box.getCorrectOrder = Order(b),
           NEW c \in Call, c.box = b, NEW k \in MailSlots, PutInSlot(b, box, c, k)
    PROVE  PostedFrom(b, box)
<1> DEFINE full == [box EXCEPT !.numMessagesSent = @ + 1, !.slots = Append(@, k)]
           e == Head(box.waitingToReceive)
<1>1. /\ box.numMessagesSent + 1 \in Nat /\ Append(box.slots, k) \in Seq(MailSlots)
      /\ Append(box.slots, k) # <<>>
  <2>1. box.slots \in Seq(MailSlots) /\ box.numMessagesSent \in Nat
    BY DEF MailBox
  <2>2. Append(box.slots, k) \in Seq(MailSlots) /\ Len(Append(box.slots, k)) = Len(box.slots) + 1
        /\ Len(box.slots) \in Nat
    BY <2>1, AppendProperties, LenProperties
  <2>3. Len(Append(box.slots, k)) # 0
    BY <2>2
  <2> QED
    BY <2>1, <2>2, <2>3, EmptySeq
<1>2. full \in MailBox
  BY <1>1 DEF MailBox
<1>3. /\ full.status = box.status /\ full.numSlots = box.numSlots
      /\ full.waitingToSend = box.waitingToSend /\ full.slots # <<>>
      /\ full.getCorrectOrder = box.getCorrectOrder
      /\ full.numMessagesSent = box.numMessagesSent + 1
      /\ full.nextInLineMessageNumber = box.nextInLineMessageNumber
      /\ full.waitingToReceive = box.waitingToReceive
  BY <1>1 DEF MailBox
<1>4. CASE ReceiverToWake(box)
  <2> DEFINE new == [full EXCEPT !.waitingToReceive = Tail(@)]
             d == [c EXCEPT !.pc = "sendWoke"]
  <2>1. /\ MailBoxTable' = [MailBoxTable EXCEPT ![b] = new]
        /\ call' = [call EXCEPT ![Current] = d]
    BY <1>4 DEF PutInSlot
  <2> HIDE DEF full
  <2>2. /\ new.status = box.status /\ new.numSlots = box.numSlots
        /\ new.waitingToSend = box.waitingToSend /\ new.slots # <<>>
        /\ new.getCorrectOrder = Order(b)
        /\ new.numMessagesSent = box.numMessagesSent + 1
        /\ new.nextInLineMessageNumber = box.nextInLineMessageNumber
    BY <1>2, <1>3 DEF MailBox
  <2>3. d.pc = "sendWoke" /\ d.box = b
    BY DEF Call
  <2> HIDE DEF new, d
  <2>4. MailBoxTable'[b] = new /\ SideBut(b) /\ call'[Current] = d /\ OthersStay
    BY <2>1, SideAt, CallAt
  <2>5. Wakens(b)
    BY <2>2, <2>3, <2>4 DEF Wakens, UncountedPcs, Order
  <2> QED
    BY <2>2, <2>4, <2>5 DEF PostedFrom, Senders, Slots, SentTo, NextTurn
<1>5. CASE ~ReceiverToWake(box)
  <2>1. WakeNextInOrder(b, full, c)
    BY <1>5 DEF PutInSlot
  <2>2. full.getCorrectOrder = Order(b)
    BY <1>3
  <2> HIDE DEF full
  <2>3. /\ SideBut(b) /\ OthersStay /\ Wakens(b)
        /\ MailBoxTable'[b].status = full.status /\ MailBoxTable'[b].numSlots = full.numSlots
        /\ Senders(b)' = full.waitingToSend /\ Slots(b)' = full.slots
        /\ SentTo(b)' = full.numMessagesSent /\ NextTurn(b)' = full.nextInLineMessageNumber
    BY <1>2, <2>1, <2>2, WakeNextOrder
  <2> QED
    BY <1>3, <2>3 DEF PostedFrom
<1> QED
  BY <1>4, <1>5

LEMMA PutMessageOrder ==
    ASSUME Before, NEW b \in Boxes, NEW box \in MailBox, box.getCorrectOrder = Order(b),
           NEW c \in Call, c.box = b, PutMessage(b, box, c)
    PROVE  Aside \/ PostedFrom(b, box)
<1>1. CASE Halt("out_of_bounds")
  BY <1>1, HaltAside
<1>2. ASSUME NEW i \in MailSlots, nextSlot + i < MAXSLOTS, PutInSlot(b, box, c, nextSlot + i)
      PROVE  PostedFrom(b, box)
  <2>1. i \in Nat /\ nextSlot \in Nat /\ MAXSLOTS \in Nat
    BY MailboxAssumption DEF MailSlots, Before, CoreOK
  <2>2. nextSlot + i \in MailSlots
    BY <1>2, <2>1 DEF MailSlots
  <2> QED
    BY <1>2, <2>2, PutInSlotOrder
<1> QED
  BY <1>1, <1>2 DEF PutMessage

LEMMA SendMessageOrder ==
    ASSUME Before, NEW b \in Boxes, Open(b), NEW m \in Message,
           call[Current].pc = "user", SendMessage(b, m)
    PROVE  Aside \/ Joins(b) \/ Posts(b)
<1> DEFINE old == MailBoxTable[b]
           number == old.nextInLineMessageNumber
           box == [old EXCEPT !.nextInLineMessageNumber = @ + 1]
           c(pc) == [Idle EXCEPT !.pc = pc, !.box = b, !.msg = m, !.number = number]
           e == Len(processTable) + 1
<1>1. old \in MailBox /\ number \in Nat
  BY TableOf DEF MailBox
<1>2. /\ box \in MailBox /\ box.status = old.status /\ box.numSlots = old.numSlots
      /\ box.slots = old.slots /\ box.numSlotsUsed = old.numSlotsUsed
      /\ box.waitingToSend = old.waitingToSend /\ box.getCorrectOrder = old.getCorrectOrder
      /\ box.numMessagesSent = old.numMessagesSent
      /\ box.nextInLineMessageNumber = old.nextInLineMessageNumber + 1
  <2>1. number + 1 \in Nat
    BY <1>1
  <2> QED
    BY <1>1, <2>1 DEF MailBox
<1>3. /\ c("sendZero") \in Call /\ c("sendZero").box = b /\ c("sendZero").pc = "sendZero"
      /\ c("sendFull") \in Call /\ c("sendFull").box = b /\ c("sendFull").pc = "sendFull"
      /\ c("sendFull").number = number
      /\ c("user") \in Call /\ c("user").box = b
  BY <1>1, IdleIsCall DEF Call, Idle
<1>4. \/ /\ box.numSlots = 0
         /\ Block(b, [box EXCEPT !.waitingToSend = Append(@, NextEntry), !.zeroSlot = m],
                  c("sendZero"))
      \/ /\ box.numSlots = 0
         /\ MailBoxTable' = [MailBoxTable EXCEPT
                 ![b] = [box EXCEPT !.waitingToReceive = Tail(@), !.zeroSlot = m]]
         /\ call' = call
      \/ /\ box.numSlots # 0 /\ box.numSlotsUsed = box.numSlots
         /\ Block(b, [box EXCEPT !.waitingToSend = Append(@, NextEntry)], c("sendFull"))
      \/ box.numSlots # 0 /\ PutMessage(b, box, c("user"))
  BY DEF SendMessage
<1> DEFINE zero == c("sendZero")
           full == c("sendFull")
           put == c("user")
<1> HIDE DEF c, number, box, zero, full, put
<1>5. ASSUME NEW new, new.status = box.status, new.numSlots = box.numSlots, box.numSlots = 0
      PROVE  SameSide(new, old)
  BY <1>2, <1>5 DEF SameSide, Open
<1>6. ASSUME box.numSlots = 0,
             Block(b, [box EXCEPT !.waitingToSend = Append(@, NextEntry), !.zeroSlot = m], zero)
      PROVE  Aside
  <2> DEFINE new == [box EXCEPT !.waitingToSend = Append(@, NextEntry), !.zeroSlot = m]
             d == [zero EXCEPT !.entry = Len(processTable) + 1]
  <2>1. new.status = box.status /\ new.numSlots = box.numSlots
    BY <1>2 DEF MailBox
  <2>2. zero \in Call /\ d.pc = "sendZero" /\ d.box = b
    BY <1>3 DEF zero, Call
  <2> HIDE DEF new, d
  <2>3. SameSide(new, old)
    BY <1>5, <1>6, <2>1
  <2>4. Passes(call[Current], d)
    BY <1>2, <1>6, <2>2 DEF Passes, AsidePcs, ZeroSlots
  <2>5. \/ Aside
        \/ MailBoxTable'[b] = new /\ SideBut(b) /\ OthersStay /\ call'[Current] = d
    BY <1>6, <2>2, BlocksAs DEF new, d
  <2> QED
    BY <2>3, <2>4, <2>5, AllSides DEF Aside
<1>7. ASSUME box.numSlots = 0, call' = call,
             MailBoxTable' = [MailBoxTable EXCEPT
                 ![b] = [box EXCEPT !.waitingToReceive = Tail(@), !.zeroSlot = m]]
      PROVE  Aside
  <2> DEFINE new == [box EXCEPT !.waitingToReceive = Tail(@), !.zeroSlot = m]
  <2>1. new.status = box.status /\ new.numSlots = box.numSlots
    BY <1>2 DEF MailBox
  <2>2. MailBoxTable' = [MailBoxTable EXCEPT ![b] = new]
    BY <1>7
  <2> HIDE DEF new
  <2>3. SideBut(b) /\ SameSide(MailBoxTable'[b], MailBoxTable[b])
    BY <1>5, <1>7, <2>1, <2>2, SideAt
  <2> QED
    BY <1>7, <2>3, AllSides DEF Aside, OthersStay, Passes
<1>8. ASSUME box.numSlots # 0, box.numSlotsUsed = box.numSlots,
             Block(b, [box EXCEPT !.waitingToSend = Append(@, NextEntry)], full)
      PROVE  Aside \/ Joins(b)
  <2> DEFINE new == [box EXCEPT !.waitingToSend = Append(@, NextEntry)]
             d == [full EXCEPT !.entry = Len(processTable) + 1]
  <2>1. /\ new.status = CREATED /\ new.numSlots = old.numSlots /\ new.slots = old.slots
        /\ new.waitingToSend = Append(old.waitingToSend, Len(processTable) + 1)
        /\ new.getCorrectOrder = old.getCorrectOrder
        /\ new.numMessagesSent = old.numMessagesSent
        /\ new.nextInLineMessageNumber = old.nextInLineMessageNumber + 1
    BY <1>2 DEF MailBox, NextEntry, Open
  <2>2. /\ full \in Call /\ d.pc = "sendFull" /\ d.box = b /\ d.number = NextTurn(b)
        /\ d.entry = Len(processTable) + 1
    BY <1>1, <1>3 DEF full, Call, number, NextTurn
  <2> HIDE DEF new, d
  <2>3. \/ Aside
        \/ MailBoxTable'[b] = new /\ SideBut(b) /\ OthersStay /\ call'[Current] = d
    BY <1>8, <2>2, BlocksAs DEF new, d
  <2> QED
    BY <1>2, <1>8, <2>1, <2>2, <2>3
       DEF Joins, SameRest, Senders, Order, Slots, SentTo, NextTurn
<1>9. ASSUME box.numSlots # 0, PutMessage(b, box, put)
      PROVE  Aside \/ Posts(b)
  <2>1. put \in Call /\ put.box = b /\ box.getCorrectOrder = Order(b)
    BY <1>2, <1>3 DEF put, Order
  <2>2. Aside \/ PostedFrom(b, box)
    BY <1>2, <1>9, <2>1, PutMessageOrder
  <2> QED
    BY <1>2, <1>9, <2>2
       DEF PostedFrom, Posts, SameRest, Open, Senders, Slots, SentTo, NextTurn
<1> QED
  BY <1>4, <1>6, <1>7, <1>8, <1>9 DEF zero, full, put

LEMMA SendOrder ==
    ASSUME Before, ClientsOK, NEW b \in Boxes,
           \/ \E size \in Sizes : MboxSend(b, size) \/ MboxCondSend(b, size)
           \/ DeviceInterrupt(b)
    PROVE  Aside \/ Joins(b) \/ Posts(b)
<1>1. CASE Halt("halted")
  BY <1>1, HaltAside
<1>2. ASSUME NEW size \in Sizes, MboxSend(b, size) \/ MboxCondSend(b, size)
      PROVE  Aside \/ Joins(b) \/ Posts(b)
  <2> DEFINE m == NextMessage(Current, size)
  <2>1. /\ Current \in Procs /\ Open(b) /\ call[Current].pc = "user"
        /\ Halt("halted") \/ SendMessage(b, m)
    BY <1>2, CallerOf DEF MboxSend, MboxCondSend, Open, Sendable, Calls
  <2>2. m \in Message
    BY <2>1, NextMessageOf, MailboxAssumption
  <2> HIDE DEF m
  <2> QED
    BY <1>1, <2>1, <2>2, SendMessageOrder
<1>3. CASE DeviceInterrupt(b)
  <2> DEFINE m == NextMessage(NULL, DeviceMsgSize)
  <2>1. Open(b) /\ call[Current].pc = "user" /\ SendMessage(b, m)
    BY <1>3 DEF DeviceInterrupt, Open, Sendable
  <2>2. m \in Message
    BY NextMessageOf DEF DeviceMsgSize
  <2> HIDE DEF m
  <2> QED
    BY <2>1, <2>2, SendMessageOrder
<1> QED
  BY <1>2, <1>3

LEMMA SendGoesOnOrder ==
    ASSUME Before, SendAfterWaking \/ SendSorting \/ SendRendezvous \/ SendResume
    PROVE  OrderKinds
<1> SUFFICES ASSUME NEW b \in Boxes, b = call[Current].box PROVE OrderKinds
  BY CallOf
<1> DEFINE c == call[Current]
           old == MailBoxTable[b]
<1>1. c \in Call /\ b \in Boxes /\ old \in MailBox /\ old.getCorrectOrder = Order(b)
  BY CallOf, TableOf DEF Order
<1>2. Idle.pc = "user"
  BY DEF Idle
<1>0. c.box = b /\ old = MailBoxTable[b] /\ c = call[Current]
  OBVIOUS
<1>3. ASSUME c.pc \in UncountedPcs, WakeNextInOrder(b, old, c) PROVE OrderKinds
  <2> HIDE DEF old, c
  <2>1. /\ SideBut(b) /\ OthersStay /\ Wakens(b)
        /\ MailBoxTable'[b].status = old.status /\ MailBoxTable'[b].numSlots = old.numSlots
        /\ Senders(b)' = old.waitingToSend /\ Slots(b)' = old.slots
        /\ SentTo(b)' = old.numMessagesSent /\ NextTurn(b)' = old.nextInLineMessageNumber
    BY <1>0, <1>1, <1>3, WakeNextOrder
  <2>2. Finishes(b)
    BY <1>0, <1>3, <2>1 DEF Finishes, Senders, Slots, SentTo, NextTurn
  <2> QED
    BY <1>1, <2>2 DEF OrderKinds
<1>4. CASE SendAfterWaking
  <2>1. c.pc = "sendWoke"
    BY <1>4 DEF SendAfterWaking, In
  <2>2. CASE old.recv_size < c.msg.size
    <3>1. Passes(c, Idle)
      BY <1>2, <2>1, <2>2 DEF Passes
    <3>2. call' = [call EXCEPT ![Current] = Idle] /\ UNCHANGED MailBoxTable
      BY <1>4, <2>2 DEF SendAfterWaking, Returns
    <3> QED
      BY <3>1, <3>2, CallAside DEF OrderKinds
  <2>3. CASE ~(old.recv_size < c.msg.size)
    BY <1>3, <1>4, <2>1, <2>3 DEF SendAfterWaking, UncountedPcs
  <2> QED
    BY <2>2, <2>3
<1>5. CASE SendSorting
  BY <1>3, <1>5 DEF SendSorting, In, UncountedPcs
<1>6. CASE SendRendezvous
  <2>1. Passes(c, Idle)
    BY <1>2, <1>6 DEF SendRendezvous, In, Passes, AsidePcs
  <2> QED
    BY <1>6, <2>1, CallAside DEF SendRendezvous, ReturnOnly, Returns, OrderKinds
<1>7. CASE SendResume
  <2>1. c.pc \in PendingPcs
    BY <1>7 DEF SendResume, In, PendingPcs
  <2>2. CASE old.status = UNUSED
    <3>1. Passes(c, Idle)
      BY <1>2, <2>1, <2>2 DEF Passes, Open, UNUSED, CREATED
    <3>2. ReturnOnly
      BY <1>7, <2>2 DEF SendResume
    <3> QED
      BY <3>1, <3>2, CallAside DEF ReturnOnly, Returns, OrderKinds
  <2>3. CASE old.status # UNUSED
    <3>1. Open(b) /\ old.status = CREATED
      BY <1>1, <2>3 DEF Open, MailBox
    <3>2. CASE PutMessage(b, old, c)
      <4>1. Aside \/ PostedFrom(b, old)
        BY <1>1, <3>2, PutMessageOrder
      <4>2. PostedFrom(b, old) => Posts(b)
        BY <2>1, <3>1 DEF PostedFrom, Posts, SameRest, Senders, SentTo, NextTurn
      <4> QED
        BY <1>1, <4>1, <4>2 DEF OrderKinds
    <3>3. CASE /\ ~InTurn(old, c.number)
               /\ Block(b, [old EXCEPT !.getCorrectOrder = Append(@, NextEntry)],
                        [c EXCEPT !.pc = "sendOrder"])
      <4> DEFINE late == [c EXCEPT !.pc = "sendOrder"]
                 new == [old EXCEPT !.getCorrectOrder = Append(@, NextEntry)]
                 d == [late EXCEPT !.entry = Len(processTable) + 1]
      <4>1. /\ late \in Call /\ d.pc = "sendOrder" /\ d.box = b /\ d.number = c.number
            /\ d.entry = Len(processTable) + 1
        BY <1>1 DEF Call
      <4>2. /\ new.status = CREATED /\ new.numSlots = old.numSlots /\ new.slots = old.slots
            /\ new.waitingToSend = old.waitingToSend
            /\ new.getCorrectOrder = Append(old.getCorrectOrder, Len(processTable) + 1)
            /\ new.numMessagesSent = old.numMessagesSent
            /\ new.nextInLineMessageNumber = old.nextInLineMessageNumber
        BY <1>1, <3>1 DEF MailBox, NextEntry
      <4>3. c.number > SentTo(b) + 1
        <5>1. c.number \in Nat /\ SentTo(b) \in Nat
          BY <1>1 DEF Call, MailBox, SentTo
        <5>2. ~(c.number <= SentTo(b) + 1)
          BY <3>3 DEF InTurn, SentTo
        <5> HIDE DEF c
        <5> QED
          BY <5>1, <5>2
      <4>4. Block(b, new, late)
        BY <3>3
      <4>5. d = [late EXCEPT !.entry = Len(processTable) + 1]
        OBVIOUS
      <4> HIDE DEF old, c, new, late, d
      <4>6. \/ Aside
            \/ MailBoxTable'[b] = new /\ SideBut(b) /\ OthersStay /\ call'[Current] = d
        BY <1>1, <4>1, <4>4, <4>5, BlocksAs
      <4>7. Aside \/ Defers(b)
        BY <1>0, <2>1, <3>1, <4>1, <4>2, <4>3, <4>6
           DEF Defers, SameRest, Senders, Order, Slots, SentTo, NextTurn
      <4> QED
        BY <1>1, <4>7 DEF OrderKinds
    <3> QED
      BY <1>7, <2>3, <3>2, <3>3 DEF SendResume
  <2> QED
    BY <2>2, <2>3
<1> QED
  BY <1>4, <1>5, <1>6, <1>7

LEMMA TakeMessageOrder ==
    ASSUME Before, NEW b \in Boxes, Open(b), NEW k \in Range(Slots(b)),
           \/ call[Current].pc = "user" /\ Receives(Current, b)
           \/ call[Current].pc = "recvEmpty" /\ call[Current].box = b,
           TakeMessage(b, k)
    PROVE  Draws(b)
<1> DEFINE n == Len(processTable)
           old == MailBoxTable[b]
           rest == WithoutSlot(old, k)
           done(new) == /\ new.status = old.status /\ new.numSlots = old.numSlots
                        /\ new.getCorrectOrder = old.getCorrectOrder
                        /\ new.numMessagesSent = old.numMessagesSent
                        /\ new.nextInLineMessageNumber = old.nextInLineMessageNumber
<1>1. n \in Nat /\ BoxOK(old, n) /\ old \in MailBox
  BY TableOf
<1>2. rest \in MailBox /\ done(rest) /\ rest.waitingToSend = old.waitingToSend
  <2>1. rest \in MailBox
    BY <1>1, OtherBoxes DEF BoxOK, Slots
  <2> QED
    BY <1>1, <2>1 DEF WithoutSlot, MailBox
<1>3. CASE SenderToWake(old)
  <2> DEFINE new == WithoutSender(rest)
             d == [Idle EXCEPT !.pc = "recvWoke", !.box = b]
  <2>1. MailBoxTable' = [MailBoxTable EXCEPT ![b] = new] /\ call' = [call EXCEPT ![Current] = d]
    BY <1>3 DEF TakeMessage
  <2> HIDE DEF rest
  <2>2. done(new) /\ new.waitingToSend = Tail(old.waitingToSend)
    BY <1>2 DEF WithoutSender, MailBox
  <2>3. d.pc = "recvWoke" /\ d.box = b
    BY DEF Idle
  <2> HIDE DEF new, d
  <2>4. SideBut(b) /\ MailBoxTable'[b] = new /\ OthersStay /\ call'[Current] = d
    BY <2>1, SideAt, CallAt
  <2> QED
    BY <1>3, <2>2, <2>3, <2>4
       DEF Draws, SameRest, SenderToWake, Open, Senders, Order, SentTo, NextTurn
<1>4. CASE ~SenderToWake(old)
  <2> DEFINE new == [rest EXCEPT !.numSlotsUsed = @ - 1]
  <2>1. MailBoxTable' = [MailBoxTable EXCEPT ![b] = new] /\ call' = [call EXCEPT ![Current] = Idle]
    BY <1>4 DEF TakeMessage, Returns
  <2> HIDE DEF rest
  <2>2. done(new) /\ new.waitingToSend = old.waitingToSend
    BY <1>2 DEF MailBox
  <2>3. Idle.pc = "user"
    BY DEF Idle
  <2> HIDE DEF new
  <2>4. SideBut(b) /\ MailBoxTable'[b] = new /\ OthersStay /\ call'[Current] = Idle
    BY <2>1, SideAt, CallAt
  <2> QED
    BY <1>4, <2>2, <2>3, <2>4
       DEF Draws, SameRest, SenderToWake, Open, Senders, Order, SentTo, NextTurn
<1> QED
  BY <1>3, <1>4

LEMMA ReceiveOrder ==
    ASSUME Before, NEW b \in Boxes, NEW limit \in Limits, limit \in Nat,
           MboxReceive(b, limit) \/ MboxCondReceive(b, limit)
    PROVE  Aside \/ Draws(b)
<1> DEFINE old == MailBoxTable[b]
<1>1. old \in MailBox /\ BoxOK(old, Len(processTable)) /\ Len(processTable) \in Nat
  BY TableOf
<1>2. Open(b) /\ call[Current].pc = "user" /\ Receives(Current, b)
  BY DEF MboxReceive, MboxCondReceive, Open, Calls, Receives
<1>3. ASSUME NEW c \in Call, c.box = b, c.pc = "recvEmpty" \/ (c.pc = "recvZero" /\ old.numSlots = 0),
             NEW new, SameSide(new, old), Block(b, new, c)
      PROVE  Aside
  <2> DEFINE d == [c EXCEPT !.entry = Len(processTable) + 1]
  <2>1. d.pc = c.pc /\ d.box = b
    BY <1>3 DEF Call
  <2> HIDE DEF d
  <2>2. \/ Aside
        \/ MailBoxTable'[b] = new /\ SideBut(b) /\ OthersStay /\ call'[Current] = d
    BY <1>3, BlocksAs DEF d
  <2>3. Passes(call[Current], d)
    BY <1>2, <1>3, <2>1 DEF Passes, AsidePcs
  <2> QED
    BY <1>3, <2>2, <2>3, AllSides DEF Aside
<1>4. CASE old.numSlots = 0 /\ ReceiveZero(b)
  <2>1. CASE SenderToWake(old)
    <3> DEFINE new == WithoutSender(old)
    <3>1. MailBoxTable' = [MailBoxTable EXCEPT ![b] = new] /\ call' = call
      BY <1>4, <2>1 DEF ReceiveZero
    <3>2. SameSide(new, old)
      BY <1>1, <1>2, <1>4 DEF SameSide, WithoutSender, MailBox, Open
    <3> HIDE DEF new
    <3>3. \A a \in Boxes : SameSide(MailBoxTable'[a], MailBoxTable[a])
      BY <3>1, <3>2, SideAt, AllSides
    <3> QED
      BY <3>1, <3>3 DEF Aside, OthersStay, Passes
  <2>2. CASE ~SenderToWake(old)
    <3> DEFINE new == [old EXCEPT !.waitingToReceive = Append(@, NextEntry)]
               c == [Idle EXCEPT !.pc = "recvZero", !.box = b]
    <3>1. Block(b, new, c)
      BY <1>4, <2>2 DEF ReceiveZero
    <3>2. SameSide(new, old)
      BY <1>1, <1>2, <1>4 DEF SameSide, MailBox, Open
    <3>3. c \in Call /\ c.pc = "recvZero" /\ c.box = b
      BY IdleIsCall DEF Call, Idle
    <3> HIDE DEF new, c
    <3> QED
      BY <1>3, <1>4, <3>1, <3>2, <3>3
  <2> QED
    BY <2>1, <2>2
<1>5. CASE /\ old.numSlots # 0
           /\ Block(b, [old EXCEPT !.waitingToReceive = Append(@, NextEntry), !.recv_size = limit],
                    [Idle EXCEPT !.pc = "recvEmpty", !.box = b, !.limit = limit])
  <2> DEFINE new == [old EXCEPT !.waitingToReceive = Append(@, NextEntry), !.recv_size = limit]
             c == [Idle EXCEPT !.pc = "recvEmpty", !.box = b, !.limit = limit]
  <2>1. Block(b, new, c)
    BY <1>5
  <2>2. SameSide(new, old)
    BY <1>1 DEF SameSide, MailBox
  <2>3. c \in Call /\ c.pc = "recvEmpty" /\ c.box = b
    BY IdleIsCall DEF Call, Idle
  <2> HIDE DEF new, c
  <2> QED
    BY <1>3, <2>1, <2>2, <2>3
<1>6. CASE old.slots # <<>> /\ TakeMessage(b, Head(old.slots))
  <2>1. Head(old.slots) \in Range(Slots(b))
    BY <1>1, <1>6, HeadIsListed DEF Slots
  <2> QED
    BY <1>2, <1>6, <2>1, TakeMessageOrder
<1> QED
  BY <1>4, <1>5, <1>6 DEF MboxReceive, MboxCondReceive

LEMMA ReceiveGoesOnOrder ==
    ASSUME Before, ReceiveRendezvous \/ ReceiveResume \/ ReceiveAfterWaking
    PROVE  OrderKinds
<1> SUFFICES ASSUME NEW b \in Boxes, b = call[Current].box PROVE OrderKinds
  BY CallOf
<1> DEFINE c == call[Current]
           old == MailBoxTable[b]
<1>1. c \in Call /\ old \in MailBox
  BY CallOf, TableOf
<1>2. Idle.pc = "user"
  BY DEF Idle
<1>3. CASE ReceiveRendezvous
  <2>1. Passes(c, Idle)
    BY <1>2, <1>3 DEF ReceiveRendezvous, In, Passes, AsidePcs
  <2> QED
    BY <1>3, <2>1, CallAside DEF ReceiveRendezvous, Returns, OrderKinds
<1>4. CASE ReceiveResume
  <2> DEFINE k == processTable[c.entry].slotThatHoldsMyMessage
  <2>0. c.pc = "recvEmpty"
    BY <1>4 DEF ReceiveResume, In
  <2>1. CASE ReturnOnly
    <3>1. Passes(c, Idle)
      BY <1>2, <2>0 DEF Passes, AsidePcs
    <3> QED
      BY <2>1, <3>1, CallAside DEF ReturnOnly, Returns, OrderKinds
  <2>2. CASE Halt("null_pointer")
    BY <2>2, HaltAside DEF OrderKinds
  <2>3. CASE old.status # UNUSED /\ k \in Range(old.slots) /\ TakeMessage(b, k)
    <3>1. Open(b)
      BY <1>1, <2>3 DEF Open, MailBox
    <3> HIDE DEF k
    <3>2. Draws(b)
      BY <2>0, <2>3, <3>1, TakeMessageOrder DEF Slots
    <3> QED
      BY <3>2 DEF OrderKinds
  <2> QED
    BY <1>4, <2>1, <2>2, <2>3 DEF ReceiveResume
<1>5. CASE ReceiveAfterWaking
  <2> DEFINE new == [old EXCEPT !.numSlotsUsed = @ - 1]
  <2>1. /\ MailBoxTable' = [MailBoxTable EXCEPT ![b] = new] /\ c.pc = "recvWoke"
        /\ call' = [call EXCEPT ![Current] = Idle]
    BY <1>5 DEF ReceiveAfterWaking, Returns, In
  <2>2. SameSide(new, old)
    BY <1>1 DEF SameSide, MailBox
  <2>3. Passes(c, Idle)
    BY <1>2, <2>1 DEF Passes, AsidePcs
  <2> HIDE DEF new
  <2>4. MailBoxTable'[b] = new /\ SideBut(b)
    BY <2>1, SideAt
  <2>5. SameSide(MailBoxTable'[b], MailBoxTable[b])
    BY <2>2, <2>4
  <2>6. call'[Current] = Idle /\ OthersStay
    BY <2>1, CallAt
  <2>7. \A a \in Boxes : SameSide(MailBoxTable'[a], MailBoxTable[a])
    BY <2>4, <2>5, AllSides
  <2> QED
    BY <2>3, <2>6, <2>7 DEF Aside, OrderKinds
<1> QED
  BY <1>3, <1>4, <1>5

LEMMA CreateOrder ==
    ASSUME Before, ClientsOK, NEW args \in Client.creates, MboxCreate(args)
    PROVE  \E b \in Boxes : Opens(b)
<1>1. PICK i \in Boxes : /\ UnmadeAt(i)
                         /\ MailBoxTable' = [MailBoxTable EXCEPT
                               ![(nextMid + i) % MAXMBOX] = Made(@, args)]
  BY DEF MboxCreate
<1>2. (nextMid + i) % MAXMBOX \in Boxes
  <2>1. nextMid \in Nat /\ i \in Nat /\ MAXMBOX \in Nat \ {0}
    BY ClientOf, LenProperties, MailboxAssumption DEF ClientsOK, Boxes
  <2> QED
    BY <2>1 DEF Boxes
<1>3. PICK b \in Boxes : b = (nextMid + i) % MAXMBOX
  BY <1>2
<1> DEFINE old == MailBoxTable[b]
           new == Made(old, args)
<1>4. MailBoxTable' = [MailBoxTable EXCEPT ![b] = new]
  BY <1>1, <1>3
<1>5. ~Open(b)
  BY <1>1, <1>3 DEF UnmadeAt, Open, UNUSED, CREATED
<1>6. /\ new.status = CREATED /\ new.slots = <<>> /\ new.waitingToSend = old.waitingToSend
      /\ new.getCorrectOrder = old.getCorrectOrder
      /\ new.numMessagesSent = old.numMessagesSent
      /\ new.nextInLineMessageNumber = old.nextInLineMessageNumber
  BY BoxRecords DEF Made, MailBox
<1> HIDE DEF new
<1>7. MailBoxTable'[b] = new /\ SideBut(b)
  BY <1>4, SideAt
<1>8. call' = call
  BY DEF MboxCreate
<1>9. Open(b)'
  BY <1>6, <1>7 DEF Open
<1> QED
  BY <1>5, <1>6, <1>7, <1>8, <1>9 DEF Opens, Senders, Order, Slots, SentTo, NextTurn

LEMMA EveryOrderStep ==
    ASSUME Before, ClientsOK, NoReleases, call[Current].pc \notin ReleasePcs, Next
    PROVE  OrderKinds
<1>1. CASE ReleaseNext
  BY <1>1 DEF ReleaseNext, In, ReleasePcs
<1>2. CASE GoOn
  BY <1>1, <1>2, SendGoesOnOrder, ReceiveGoesOnOrder DEF GoOn
<1>3. ASSUME NEW b \in Boxes, NEW limit \in Limits,
             MboxReceive(b, limit) \/ MboxCondReceive(b, limit)
      PROVE  OrderKinds
  BY <1>3, ReceiveOrder, MailboxAssumption DEF OrderKinds
<1>4. ASSUME NEW b \in Boxes, MboxRelease(b) PROVE FALSE
  BY <1>4, CallerOf DEF MboxRelease, Calls, NoReleases
<1>5. ASSUME NEW b \in Devices, DeviceInterrupt(b) PROVE OrderKinds
  <2>1. b \in Boxes
    BY MailboxAssumption DEF Devices, Boxes
  <2> QED
    BY <1>5, <2>1, SendOrder DEF OrderKinds
<1>6. ASSUME NEW b \in Boxes, NEW size \in Sizes, MboxSend(b, size) \/ MboxCondSend(b, size)
      PROVE  OrderKinds
  BY <1>6, SendOrder DEF OrderKinds
<1>7. ASSUME NEW args \in Client.creates, MboxCreate(args) PROVE OrderKinds
  BY <1>7, CreateOrder DEF OrderKinds
<1>8. CASE Quit
  <2>1. /\ call' = [call EXCEPT ![Current] = [Idle EXCEPT !.pc = "gone"]]
        /\ call[Current].pc = "user" /\ UNCHANGED MailBoxTable
    BY <1>8 DEF Quit, Calls
  <2>2. Passes(call[Current], [Idle EXCEPT !.pc = "gone"])
    BY <2>1 DEF Idle, Passes, AsidePcs
  <2> QED
    BY <2>1, <2>2, CallAside DEF OrderKinds
<1>9. CASE TimeSlice
  <2>1. UNCHANGED <<MailBoxTable, call>>
    BY <1>9 DEF TimeSlice
  <2> QED
    BY <2>1, SameSides DEF Aside, OthersStay, Passes, OrderKinds
<1> QED
  BY <1>2, <1>3, <1>4, <1>5, <1>6, <1>7, <1>8, <1>9 DEF Next, Send, Receive

-----------------------------------------------------------------------------
(***************************************************************************)
(* Who waits on the lists.                                                 *)
(***************************************************************************)
WaitBefore ==
    /\ Before /\ Before' /\ ClientsOK /\ Kinds /\ OrderKinds
    /\ EntriesOK /\ AsleepOK /\ ListsDistinct /\ WaitersOK /\ EarlyOK

LEMMA NobodyReleases ==
    ASSUME WaitBefore
    PROVE  \A p \in All : call'[p].pc \notin ReleasePcs
<1>1. \A p \in All : call[p].pc \notin ReleasePcs
  BY DEF WaitBefore, WaitersOK
<1>2. Current \in All
  BY CallOf DEF WaitBefore
<1>3. ASSUME NEW b \in Boxes, Joins(b) \/ Defers(b)
      PROVE  OthersStay /\ call'[Current].pc \notin ReleasePcs
  BY <1>3 DEF Joins, Defers, SameRest, ReleasePcs
<1>4. ASSUME NEW b \in Boxes, Posts(b) \/ Finishes(b)
      PROVE  OthersStay /\ call'[Current].pc \notin ReleasePcs
  BY <1>4 DEF Posts, Finishes, Wakens, SameRest, ReleasePcs, UncountedPcs
<1>5. ASSUME NEW b \in Boxes, Draws(b)
      PROVE  OthersStay /\ call'[Current].pc \notin ReleasePcs
  BY <1>5 DEF Draws, SameRest, ReleasePcs
<1>6. ASSUME NEW b \in Boxes, Opens(b)
      PROVE  OthersStay /\ call'[Current].pc \notin ReleasePcs
  BY <1>1, <1>2, <1>6 DEF Opens, OthersStay
<1>7. ASSUME Aside PROVE OthersStay /\ call'[Current].pc \notin ReleasePcs
  <2>1. "user" \notin ReleasePcs /\ \A pc \in AsidePcs : pc \notin ReleasePcs
    BY DEF AsidePcs, ReleasePcs
  <2>2. call[Current].pc \notin ReleasePcs
    BY <1>1, <1>2
  <2> QED
    BY <1>7, <2>1, <2>2 DEF Aside, Passes
<1>8. OthersStay /\ call'[Current].pc \notin ReleasePcs
  BY <1>3, <1>4, <1>5, <1>6, <1>7 DEF WaitBefore, OrderKinds
<1> QED
  BY <1>1, <1>8 DEF OthersStay

LEMMA WaitKinds ==
    ASSUME WaitBefore
    PROVE  Quiet \/ Quits \/ \E b \in Boxes : Wakes(b) \/ Sleeps(b) \/ Creates(b)
<1>1. Current \in All
  BY CallOf DEF WaitBefore
<1>2. ~ReleaseNext
  BY <1>1 DEF WaitBefore, WaitersOK, ReleaseNext, In, ReleasePcs
<1>3. ASSUME NEW b \in Boxes, Releases(b) PROVE FALSE
  <2>1. call'[Current].pc = "releaseRecv"
    BY <1>3, IdleIsCall DEF Releases, Call
  <2> QED
    BY <1>1, <2>1, NobodyReleases, PcsApart
<1> QED
  BY <1>2, <1>3 DEF WaitBefore, Kinds

\* A process that waits on a list does so until its entry is taken off.
LEMMA WaitStays ==
    ASSUME WaitBefore, NEW b \in Boxes, NEW pcs, NEW e \in 1 .. Len(processTable),
           WaitsOn(e, b, pcs)
    PROVE  WaitsOn(e, b, pcs)' \/ (Wakes(b) /\ TakenOff(b, e, MailBoxTable'[b]))
<1> DEFINE p == processTable[e].pid
<1>1. /\ processTable'[e].pid = p /\ p \in All /\ Current \in Run /\ p # Current
      /\ call[p].pc \in pcs /\ call[p].box = b /\ call[p].entry = e /\ p \notin Run
  <2>1. p \in All
    BY PidOf DEF WaitBefore
  <2> QED
    BY <2>1, PidsStay, CallOf DEF WaitBefore, WaitsOn, Run, Runnable
<1> HIDE DEF p
<1>2. CASE Quiet \/ Quits \/ \E a \in Boxes : Sleeps(a) \/ Creates(a)
  <2>1. call'[p] = call[p] /\ p \notin Run'
    BY <1>1, <1>2 DEF Quiet, Quits, Sleeps, Creates, CallMoves, OthersStay
  <2> QED
    BY <1>1, <2>1 DEF WaitsOn
<1>3. ASSUME NEW a \in Boxes, Wakes(a)
      PROVE  WaitsOn(e, b, pcs)' \/ (Wakes(b) /\ TakenOff(b, e, MailBoxTable'[b]))
  <2>1. PICK f \in 1 .. Len(processTable) : TakenOff(a, f, MailBoxTable'[a]) /\ WakesOf(f)
    BY <1>3 DEF Wakes
  <2>2. call'[p] = call[p]
    BY <1>1, <1>3 DEF Wakes, CallMoves, OthersStay
  <2>3. CASE processTable[f].pid # p
    <3>1. p \notin Run'
      BY <1>1, <2>1, <2>3 DEF WakesOf
    <3> QED
      BY <1>1, <2>2, <3>1 DEF WaitsOn
  <2>4. CASE processTable[f].pid = p
    <3>1. f \in Members(Receivers(a)) \cup Members(Senders(a)) \cup Members(Order(a))
      BY <2>1, BoxRecords, TailMembers DEF WaitBefore, TakenOff, Receivers, Senders, Order
    <3>2. call[p].box = a /\ call[p].entry = f
      BY <2>4, <3>1 DEF WaitBefore, WaitersOK, WaitsOn
    <3> QED
      BY <1>1, <1>3, <2>1, <3>2
  <2> QED
    BY <2>3, <2>4
<1> QED
  BY <1>2, <1>3, WaitKinds

\* How the lists of a mailbox change.
GrowsBy(new, old) == Append(old, Len(processTable) + 1) = new

LEMMA ListsAfter ==
    ASSUME WaitBefore, NEW b \in Boxes
    PROVE  /\ \/ Receivers(b)' = Receivers(b)
              \/ Receivers(b) # <<>> /\ Receivers(b)' = Tail(Receivers(b))
              \/ Sleeps(b) /\ GrowsBy(Receivers(b)', Receivers(b)) /\ call'[Current].pc \in ReceivePcs
           /\ \/ Senders(b)' = Senders(b)
              \/ Senders(b) # <<>> /\ Senders(b)' = Tail(Senders(b))
              \/ Sleeps(b) /\ GrowsBy(Senders(b)', Senders(b)) /\ call'[Current].pc \in SendPcs
           /\ \/ Order(b)' = Order(b)
              \/ Order(b) # <<>> /\ Order(b)' = Tail(Order(b))
              \/ Sleeps(b) /\ GrowsBy(Order(b)', Order(b)) /\ call'[Current].pc = "sendOrder"
<1> DEFINE Same == Receivers(b)' = Receivers(b) /\ Senders(b)' = Senders(b) /\ Order(b)' = Order(b)
<1>1. CASE Quiet \/ Quits
  BY <1>1 DEF Quiet, Quits, Alike, Receivers, Senders, Order
<1>2. ASSUME NEW a \in Boxes, a # b, SameBoxesBut(a) PROVE Same
  BY <1>2 DEF SameBoxesBut, Alike, Receivers, Senders, Order
<1>3. ASSUME Creates(b) PROVE Same
  BY <1>3, BoxRecords DEF WaitBefore, Creates
<1>4. CASE Wakes(b)
  BY <1>4 DEF Wakes, TakenOff, Receivers, Senders, Order
<1>5. CASE Sleeps(b)
  BY <1>5 DEF Sleeps, PutOn, Receivers, Senders, Order, GrowsBy
<1>6. ASSUME NEW a \in Boxes, Wakes(a) \/ Sleeps(a) \/ Creates(a) PROVE a = b \/ Same
  BY <1>2, <1>6 DEF Wakes, Sleeps, Creates
<1> QED
  BY <1>1, <1>3, <1>4, <1>5, <1>6, WaitKinds

\* The same of one of the three lists: its new elements.
LEMMA ListMembers ==
    ASSUME WaitBefore, NEW q \in Seq(1 .. MAXPROC), Members(q) \subseteq 1 .. Len(processTable),
           Distinct(q), NEW r,
           \/ r = q
           \/ q # <<>> /\ r = Tail(q)
           \/ GrowsBy(r, q)
    PROVE  /\ Distinct(r)
           /\ \A e \in Members(r) : e \in Members(q) \/ (GrowsBy(r, q) /\ e = Len(processTable) + 1)
<1>0. Len(processTable) \in Nat
  BY BoxRecords DEF WaitBefore
<1>1. CASE r = q
  BY <1>1
<1>2. CASE q # <<>> /\ r = Tail(q)
  BY <1>2, TailMembers
<1>3. CASE GrowsBy(r, q)
  <2> DEFINE f == Len(processTable) + 1
  <2>1. q \in Seq(Nat) /\ f \in Nat /\ f \notin Members(q) /\ r = Append(q, f)
    BY <1>0, <1>3, SeqOfNats DEF GrowsBy
  <2> HIDE DEF f
  <2>2. Distinct(r) /\ Members(r) = Members(q) \cup {f}
    BY <2>1, AppendDistinct, AppendMembers
  <2> QED
    BY <1>3, <2>2 DEF f
<1> QED
  BY <1>1, <1>2, <1>3

LEMMA GrownMembers ==
    ASSUME NEW q \in Seq(Nat), NEW r, GrowsBy(r, q), Len(processTable) \in Nat
    PROVE  Members(r) = Members(q) \cup {Len(processTable) + 1}
<1> DEFINE f == Len(processTable) + 1
<1>1. f \in Nat /\ r = Append(q, f)
  BY DEF GrowsBy
<1> QED
  BY <1>1, AppendMembers

LEMMA NewToTheList ==
    ASSUME NEW q \in Seq(1 .. MAXPROC), NEW r, NEW e \in Members(r), e \notin Members(q)
    PROVE  r # q /\ ~(q # <<>> /\ r = Tail(q))
BY TailMembers

\* Whoever has just gone to sleep waits.
LEMMA SleeperWaits ==
    ASSUME WaitBefore, NEW b \in Boxes, Sleeps(b), NEW pcs, call'[Current].pc \in pcs,
           NEW e, e = Len(processTable) + 1
    PROVE  WaitsOn(e, b, pcs)'
BY DEF Sleeps, WaitsOn

LEMMA WaitersStep ==
    ASSUME WaitBefore
    PROVE  WaitersOK'
<1> DEFINE n == Len(processTable)
<1>1. SUFFICES ASSUME NEW b \in Boxes
               PROVE  /\ \A e \in Members(Receivers(b)') : WaitsOn(e, b, ReceivePcs)'
                      /\ \A e \in Members(Senders(b)') : WaitsOn(e, b, SendPcs)'
                      /\ \A e \in Members(Order(b)') : WaitsOn(e, b, {"sendOrder"})'
                      /\ Distinct(Order(b)')
  BY NobodyReleases DEF WaitersOK
<1>2. /\ n \in Nat
      /\ Receivers(b) \in Seq(1 .. MAXPROC) /\ Members(Receivers(b)) \subseteq 1 .. n
      /\ Senders(b) \in Seq(1 .. MAXPROC) /\ Members(Senders(b)) \subseteq 1 .. n
      /\ Order(b) \in Seq(1 .. MAXPROC) /\ Members(Order(b)) \subseteq 1 .. n
      /\ Distinct(Receivers(b)) /\ Distinct(Senders(b)) /\ Distinct(Order(b))
  BY BoxRecords DEF WaitBefore, ListsDistinct, WaitersOK
<1>3. /\ \A e \in Members(Receivers(b)) : WaitsOn(e, b, ReceivePcs)
      /\ \A e \in Members(Senders(b)) : WaitsOn(e, b, SendPcs)
      /\ \A e \in Members(Order(b)) : WaitsOn(e, b, {"sendOrder"})
  BY DEF WaitBefore, WaitersOK
<1> HIDE DEF n
\* An entry that is taken off one list was on no other.
<1>4. ASSUME NEW e \in 1 .. n, TakenOff(b, e, MailBoxTable'[b])
      PROVE  /\ WaitsOn(e, b, ReceivePcs) => Receivers(b) # <<>> /\ e = Head(Receivers(b)) /\ Receivers(b)' = Tail(Receivers(b))
             /\ WaitsOn(e, b, SendPcs) => Senders(b) # <<>> /\ e = Head(Senders(b)) /\ Senders(b)' = Tail(Senders(b))
             /\ WaitsOn(e, b, {"sendOrder"}) => Order(b) # <<>> /\ e = Head(Order(b)) /\ Order(b)' = Tail(Order(b))
  <2>1. \/ Receivers(b) # <<>> /\ e = Head(Receivers(b)) /\ Receivers(b)' = Tail(Receivers(b))
        \/ Senders(b) # <<>> /\ e = Head(Senders(b)) /\ Senders(b)' = Tail(Senders(b))
        \/ Order(b) # <<>> /\ e = Head(Order(b)) /\ Order(b)' = Tail(Order(b))
    BY <1>4 DEF TakenOff, Receivers, Senders, Order
  <2>2. \A q \in Seq(1 .. MAXPROC) : q # <<>> => Head(q) \in Members(q)
    BY TailMembers
  <2>3. /\ Receivers(b) # <<>> /\ e = Head(Receivers(b)) => WaitsOn(e, b, ReceivePcs)
        /\ Senders(b) # <<>> /\ e = Head(Senders(b)) => WaitsOn(e, b, SendPcs)
        /\ Order(b) # <<>> /\ e = Head(Order(b)) => WaitsOn(e, b, {"sendOrder"})
    BY <1>2, <1>3, <2>2
  <2>4. /\ ~(WaitsOn(e, b, ReceivePcs) /\ WaitsOn(e, b, SendPcs))
        /\ ~(WaitsOn(e, b, ReceivePcs) /\ WaitsOn(e, b, {"sendOrder"}))
        /\ ~(WaitsOn(e, b, SendPcs) /\ WaitsOn(e, b, {"sendOrder"}))
    BY DEF WaitsOn, ReceivePcs, SendPcs
  <2> QED
    BY <2>1, <2>3, <2>4
<1>5. \A q \in Seq(1 .. MAXPROC) : q # <<>> /\ Distinct(q) => Head(q) \notin Members(Tail(q))
  BY TailMembers
<1>6. ASSUME NEW e \in 1 .. n, NEW pcs, WaitsOn(e, b, pcs)
      PROVE  WaitsOn(e, b, pcs)' \/ TakenOff(b, e, MailBoxTable'[b])
  BY <1>6, WaitStays DEF n
<1>7. ASSUME NEW e \in Members(Receivers(b)') PROVE WaitsOn(e, b, ReceivePcs)'
  <2>1. CASE e \in Members(Receivers(b))
    BY <1>2, <1>3, <1>4, <1>5, <1>6, <1>7, <2>1
  <2>2. CASE GrowsBy(Receivers(b)', Receivers(b)) /\ e = Len(processTable) + 1 /\ e \notin Members(Receivers(b))
    <3>1. Sleeps(b) /\ call'[Current].pc \in ReceivePcs
      <4>1. Receivers(b)' # Receivers(b) /\ ~(Receivers(b) # <<>> /\ Receivers(b)' = Tail(Receivers(b)))
        BY <1>2, <1>7, <2>2, NewToTheList
      <4> QED
        BY <4>1, ListsAfter
    <3> QED
      BY <2>2, <3>1, SleeperWaits
  <2> QED
    BY <1>2, <1>7, <2>1, <2>2, ListMembers, ListsAfter DEF n
<1>8. ASSUME NEW e \in Members(Senders(b)') PROVE WaitsOn(e, b, SendPcs)'
  <2>1. CASE e \in Members(Senders(b))
    BY <1>2, <1>3, <1>4, <1>5, <1>6, <1>8, <2>1
  <2>2. CASE GrowsBy(Senders(b)', Senders(b)) /\ e = Len(processTable) + 1 /\ e \notin Members(Senders(b))
    <3>1. Sleeps(b) /\ call'[Current].pc \in SendPcs
      <4>1. Senders(b)' # Senders(b) /\ ~(Senders(b) # <<>> /\ Senders(b)' = Tail(Senders(b)))
        BY <1>2, <1>8, <2>2, NewToTheList
      <4> QED
        BY <4>1, ListsAfter
    <3> QED
      BY <2>2, <3>1, SleeperWaits
  <2> QED
    BY <1>2, <1>8, <2>1, <2>2, ListMembers, ListsAfter DEF n
<1>9. ASSUME NEW e \in Members(Order(b)') PROVE WaitsOn(e, b, {"sendOrder"})'
  <2>1. CASE e \in Members(Order(b))
    BY <1>2, <1>3, <1>4, <1>5, <1>6, <1>9, <2>1
  <2>2. CASE GrowsBy(Order(b)', Order(b)) /\ e = Len(processTable) + 1 /\ e \notin Members(Order(b))
    <3>1. Sleeps(b) /\ call'[Current].pc = "sendOrder"
      <4>1. Order(b)' # Order(b) /\ ~(Order(b) # <<>> /\ Order(b)' = Tail(Order(b)))
        BY <1>2, <1>9, <2>2, NewToTheList
      <4> QED
        BY <4>1, ListsAfter
    <3> QED
      BY <2>2, <3>1, SleeperWaits
  <2> QED
    BY <1>2, <1>9, <2>1, <2>2, ListMembers, ListsAfter DEF n
<1>10. Distinct(Order(b)')
  BY <1>2, ListMembers, ListsAfter DEF n
<1> QED
  BY <1>7, <1>8, <1>9, <1>10

\* Only a process that wakes another takes an entry off getCorrectOrder.
LEMMA OrderShrinks ==
    ASSUME WaitBefore, NEW a \in Boxes, Order(a) # <<>>, Order(a)' = Tail(Order(a))
    PROVE  Wakes(a)
<1>1. Order(a)' # Order(a) /\ Len(Order(a)') < Len(Order(a))
  BY BoxRecords, TailMembers, LenProperties DEF WaitBefore
<1>2. ASSUME NEW c \in Boxes, c # a PROVE ~Wakes(c) /\ ~Sleeps(c) /\ ~Creates(c)
  BY <1>1, <1>2 DEF Wakes, Sleeps, Creates, SameBoxesBut, Alike, Order
<1>3. ~Quiet /\ ~Quits
  BY <1>1 DEF Quiet, Quits, Alike, Order
<1>4. ~Creates(a)
  BY <1>1, BoxRecords DEF WaitBefore, Creates
<1>5. ~Sleeps(a)
  <2>1. Order(a) \in Seq(1 .. MAXPROC) /\ Len(Order(a)) \in Nat
    BY BoxRecords, LenProperties DEF WaitBefore
  <2>2. Sleeps(a) => Order(a)' = Order(a) \/ Order(a)' = Append(Order(a), Len(processTable) + 1)
    BY DEF Sleeps, PutOn, Order
  <2>3. Len(processTable) + 1 \in Nat /\ Order(a) \in Seq(Nat)
    BY BoxRecords, SeqOfNats DEF WaitBefore
  <2>4. Len(Append(Order(a), Len(processTable) + 1)) = Len(Order(a)) + 1
    BY <2>3, AppendProperties
  <2> QED
    BY <1>1, <2>1, <2>2, <2>4
<1> QED
  BY <1>2, <1>3, <1>4, <1>5, WaitKinds

LEMMA EarlyStep ==
    ASSUME WaitBefore
    PROVE  EarlyOK'
<1> SUFFICES ASSUME NEW p \in All, Asleep(p)', call'[p].pc = "sendOrder"
             PROVE  call'[p].entry \in Members(MailBoxTable'[call'[p].box].getCorrectOrder)
  BY DEF EarlyOK, Order
<1> DEFINE e == call[p].entry
           b == call[p].box
<1>1. CASE Asleep(p) /\ call'[p] = call[p]
  <2>1. b \in Boxes /\ e \in 1 .. Len(processTable) /\ processTable[e].pid = p /\ e \in Members(Order(b))
    BY <1>1, PcsApart DEF WaitBefore, Before, CoreOK, Call, EntriesOK, EarlyOK
  <2>2. PICK a \in Boxes, f \in 1 .. Len(processTable) : a = b /\ f = e
    BY <2>1
  <2>3. WaitsOn(f, a, {"sendOrder"}) /\ f \in Members(Order(a))
    BY <2>1, <2>2 DEF WaitBefore, WaitersOK
  <2>4. p \notin Run'
    BY DEF Asleep, Run
  <2>5. CASE Order(a)' = Order(a) \/ GrowsBy(Order(a)', Order(a))
    <3>1. Order(a) \in Seq(Nat) /\ Len(processTable) \in Nat
      BY BoxRecords, SeqOfNats DEF WaitBefore
    <3>2. Members(Order(a)) \subseteq Members(Order(a)')
      BY <2>5, <3>1, GrownMembers
    <3> QED
      BY <1>1, <2>2, <2>3, <3>2 DEF Order
  <2>6. CASE Order(a) # <<>> /\ Order(a)' = Tail(Order(a))
    <3>1. CASE f = Head(Order(a)) /\ Order(a)' # Order(a)
      <4>1. PICK g \in 1 .. Len(processTable) : TakenOff(a, g, MailBoxTable'[a]) /\ WakesOf(g)
        <5>1. Wakes(a)
          BY <2>6, <3>1, OrderShrinks
        <5> QED
          BY <5>1 DEF Wakes
      <4>2. g = f
        BY <2>6, <3>1, <4>1 DEF TakenOff, Order
      <4>3. Blockable(p)
        BY <1>1 DEF Asleep, Blockable
      <4> QED
        BY <2>1, <2>2, <2>4, <4>1, <4>2, <4>3 DEF WakesOf
    <3>2. CASE f # Head(Order(a)) \/ Order(a)' = Order(a)
      <4>1. Order(a) \in Seq(1 .. MAXPROC)
        BY BoxRecords DEF WaitBefore
      <4>2. f \in Members(Order(a)')
        BY <2>3, <2>6, <3>2, <4>1, TailMembers
      <4> QED
        BY <1>1, <2>2, <4>2 DEF Order
    <3> QED
      BY <3>1, <3>2
  <2> QED
    BY <2>5, <2>6, ListsAfter
<1>2. CASE p = Current /\ \E a \in Boxes : Sleeps(a)
  <2>1. PICK a \in Boxes : Sleeps(a)
    BY <1>2
  <2>2. /\ call'[p].box = a /\ call'[p].entry = Len(processTable) + 1
        /\ GrowsBy(Order(a)', Order(a))
    BY <1>2, <2>1, PcsApart DEF Sleeps, PutOn, Order, GrowsBy
  <2>3. Order(a) \in Seq(Nat) /\ Len(processTable) \in Nat
    BY BoxRecords, SeqOfNats DEF WaitBefore
  <2>4. Len(processTable) + 1 \in Members(Order(a)')
    BY <2>2, <2>3, GrownMembers
  <2> QED
    BY <2>2, <2>4 DEF Order
<1> QED
  BY <1>1, <1>2, AsleepBefore DEF WaitBefore

-----------------------------------------------------------------------------
(***************************************************************************)
(* The invariant: what a step does to one mailbox with slots.              *)
(***************************************************************************)
OrderBefore ==
    /\ WaitBefore /\ SizesFit /\ OneReceiver /\ SlotInv /\ OrderInv /\ clients' = clients

Apart(c, b) == c.pc \in AsidePcs \/ c.box # b

\* Nothing happens to the senders of b.
Untouched(b) ==
    /\ OthersStay
    /\ Senders(b)' = Senders(b) /\ Order(b)' = Order(b) /\ Slots(b)' = Slots(b)
    /\ SentTo(b)' = SentTo(b) /\ NextTurn(b)' = NextTurn(b)
    /\ \/ call'[Current] = call[Current]
       \/ /\ Apart(call[Current], b) \/ call[Current].pc = "recvWoke"
          /\ Apart(call'[Current], b)

LEMMA PassesBy ==
    ASSUME OrderBefore, Passes(call[Current], call'[Current])
    PROVE  \/ call'[Current] = call[Current]
           \/ /\ call[Current].pc \in AsidePcs \cup {"recvWoke"}
              /\ call'[Current].pc \in AsidePcs
              /\ call'[Current].pc = "sendZero" => ZeroSlots(call'[Current].box)
              /\ call'[Current].pc = "recvEmpty" => Receives(Current, call'[Current].box)
<1>1. CallOK(call[Current])
  BY CallOf DEF OrderBefore, WaitBefore, SlotInv, CallsOK
<1>2. call[Current].pc \in PendingPcs => Open(call[Current].box)
  BY <1>1, SlotPcs DEF CallOK, Slotted
<1>3. call[Current].pc = "sendWoke" =>
         ~(MailBoxTable[call[Current].box].recv_size < call[Current].msg.size)
  <2> DEFINE size == call[Current].msg.size
             limit == MailBoxTable[call[Current].box].recv_size
  <2>1. call[Current].pc = "sendWoke" => size \in Sizes /\ limit \in Limits
    BY <1>1 DEF CallOK
  <2> HIDE DEF size, limit
  <2>2. size \in Sizes /\ limit \in Limits => size <= limit /\ size \in Nat /\ limit \in Nat
    BY MailboxAssumption DEF OrderBefore, SizesFit
  <2>3. call[Current].pc = "sendWoke" => ~(limit < size)
    BY <2>1, <2>2
  <2> QED
    BY <2>3 DEF size, limit
<1> QED
  BY <1>2, <1>3 DEF Passes

LEMMA StepAt ==
    ASSUME OrderBefore, NEW b \in Boxes
    PROVE  /\ b \in Slotted => \/ Untouched(b) \/ Joins(b) \/ Posts(b) \/ Defers(b)
                               \/ Draws(b) \/ Finishes(b)
           /\ b \notin Slotted => b \notin Slotted' \/ Opens(b)
<1>1. ASSUME b \in Slotted, SameSide(MailBoxTable'[b], MailBoxTable[b])
      PROVE  /\ Senders(b)' = Senders(b) /\ Order(b)' = Order(b) /\ Slots(b)' = Slots(b)
             /\ SentTo(b)' = SentTo(b) /\ NextTurn(b)' = NextTurn(b)
  BY <1>1 DEF SameSide, Slotted, Senders, Order, Slots, SentTo, NextTurn
<1>2. ASSUME SameSide(MailBoxTable'[b], MailBoxTable[b])
      PROVE  b \in Slotted' <=> b \in Slotted
  BY <1>2 DEF SameSide, Slotted, Open
<1>3. CASE Aside
  <2>1. b \in Slotted => Untouched(b)
    BY <1>1, <1>3, PassesBy DEF Aside, Untouched, Apart
  <2> QED
    BY <1>2, <1>3, <2>1 DEF Aside
<1>4. ASSUME NEW a \in Boxes, a # b, Joins(a) \/ Posts(a) \/ Defers(a) \/ Draws(a) \/ Finishes(a)
      PROVE  /\ SameSide(MailBoxTable'[b], MailBoxTable[b]) /\ OthersStay
             /\ Apart(call[Current], b) /\ Apart(call'[Current], b)
  <2>1. SideBut(a) /\ OthersStay
    BY <1>4 DEF Joins, Posts, Defers, Draws, Finishes, SameRest
  <2>2. /\ call[Current].pc = "user" \/ call[Current].box = a
        /\ call'[Current].pc = "user" \/ call'[Current].box = a
    BY <1>4 DEF Joins, Posts, Defers, Draws, Finishes, Wakens
  <2> QED
    BY <1>4, <2>1, <2>2 DEF SideBut, Apart, AsidePcs
<1>5. ASSUME NEW a \in Boxes, a # b, Opens(a)
      PROVE  /\ SameSide(MailBoxTable'[b], MailBoxTable[b]) /\ OthersStay
             /\ call'[Current] = call[Current]
  BY <1>5 DEF Opens, SideBut, OthersStay
<1>6. ASSUME Joins(b) \/ Posts(b) \/ Defers(b) \/ Draws(b) \/ Finishes(b)
      PROVE  b \in Slotted' <=> b \in Slotted
  BY <1>6 DEF Joins, Posts, Defers, Draws, Finishes, SameRest, Slotted, Open
<1>7. ASSUME Opens(b) PROVE b \notin Slotted
  BY <1>7 DEF Opens, Slotted
<1>8. ASSUME NEW a \in Boxes, a # b,
             Joins(a) \/ Posts(a) \/ Defers(a) \/ Draws(a) \/ Finishes(a) \/ Opens(a)
      PROVE  (b \in Slotted => Untouched(b)) /\ (b \notin Slotted => b \notin Slotted')
  BY <1>1, <1>2, <1>4, <1>5, <1>8 DEF Untouched
<1> QED
  BY <1>3, <1>6, <1>7, <1>8 DEF OrderBefore, WaitBefore, OrderKinds

\* The calls of the others, as the properties see them.
LEMMA OthersAt ==
    ASSUME OthersStay, NEW b, NEW p \in All, p # Current
    PROVE  /\ call'[p] = call[p]
           /\ \A pcs : p \in InCall(b, pcs)' <=> p \in InCall(b, pcs)
           /\ p \in Unsent(b)' <=> p \in Unsent(b)
BY DEF OthersStay, InCall, Unsent

LEMMA PcsOf ==
    /\ \A pc \in AsidePcs : pc \notin PendingPcs /\ pc \notin UncountedPcs /\ pc # "recvWoke"
    /\ "recvWoke" \notin PendingPcs \cup UncountedPcs
    /\ \A pc \in PendingPcs : pc \notin UncountedPcs /\ pc # "recvWoke"
    /\ \A pc \in UncountedPcs : pc # "recvWoke"
    /\ "user" \in AsidePcs /\ "recvEmpty" \in AsidePcs
    /\ "sendFull" \in PendingPcs /\ "sendOrder" \in PendingPcs
BY DEF AsidePcs, PendingPcs, UncountedPcs

\* What the invariant says of one mailbox.
BoxOrder(b) == NumbersOK(b) /\ TurnsOK(b) /\ LineOK(b) /\ LetGoOK(b)

\* What a step finds in it.
LEMMA BoxFinds ==
    ASSUME OrderBefore, NEW b \in Slotted
    PROVE  /\ BoxOrder(b) /\ b \in Boxes /\ Open(b) /\ MailBoxTable[b].numSlots > 0
           /\ Current \in All /\ call[Current].entry \in 0 .. MAXPROC
           /\ SentTo(b) \in Nat /\ NextTurn(b) \in Nat /\ Len(processTable) \in Nat
           /\ Senders(b) \in Seq(1 .. MAXPROC) /\ Order(b) \in Seq(1 .. MAXPROC)
           /\ Members(Senders(b)) \subseteq 1 .. Len(processTable)
           /\ Members(Order(b)) \subseteq 1 .. Len(processTable)
           /\ \A p \in Unsent(b) : /\ p \in All /\ call[p].box = b /\ call[p].pc \in PendingPcs
                                   /\ call[p].number \in Nat
                                   /\ call[p].entry \in 1 .. Len(processTable)
                                   /\ processTable[call[p].entry].pid = p
<1>1. b \in Boxes /\ Open(b) /\ MailBoxTable[b].numSlots > 0
  BY DEF Slotted
<1>2. BoxOrder(b)
  BY DEF OrderBefore, OrderInv, BoxOrder
<1>3. MailBoxTable[b] \in MailBox
  BY <1>1, BoxRecords DEF OrderBefore, WaitBefore
<1>4. \A p \in Unsent(b) : /\ p \in All /\ call[p].box = b /\ call[p].pc \in PendingPcs
                           /\ call[p].number \in Nat
                           /\ call[p].entry \in 1 .. Len(processTable)
                           /\ processTable[call[p].entry].pid = p
  <2>1. \A pc \in PendingPcs : pc \in WaitPcs
    BY DEF PendingPcs, WaitPcs, SendPcs
  <2> QED
    BY <2>1 DEF Unsent, InCall, OrderBefore, WaitBefore, EntriesOK, Before, CoreOK, Call
<1>5. SentTo(b) \in Nat /\ NextTurn(b) \in Nat
  BY <1>3 DEF MailBox, SentTo, NextTurn
<1>6. Current \in All /\ call[Current].entry \in 0 .. MAXPROC
  BY CallOf DEF OrderBefore, WaitBefore, Call
<1> QED
  BY <1>1, <1>2, <1>4, <1>5, <1>6, BoxRecords DEF OrderBefore, WaitBefore

LEMMA UntouchedOrder ==
    ASSUME OrderBefore, NEW b \in Slotted, Untouched(b)
    PROVE  BoxOrder(b)'
<1>1. /\ Unsent(b)' = Unsent(b)
      /\ InCall(b, UncountedPcs)' = InCall(b, UncountedPcs)
      /\ InCall(b, {"recvWoke"})' \subseteq InCall(b, {"recvWoke"})
      /\ \A p \in Unsent(b) : call'[p] = call[p]
  <2>1. CASE call'[Current] = call[Current]
    <3>1. \A p \in All : call'[p] = call[p]
      BY <2>1 DEF Untouched, OthersStay
    <3> QED
      BY <3>1 DEF Unsent, InCall
  <2>2. CASE /\ Apart(call[Current], b) \/ call[Current].pc = "recvWoke"
             /\ Apart(call'[Current], b)
    <3>1. /\ Current \notin Unsent(b) /\ Current \notin Unsent(b)'
          /\ Current \notin InCall(b, UncountedPcs) /\ Current \notin InCall(b, UncountedPcs)'
          /\ Current \notin InCall(b, {"recvWoke"})'
      BY <2>2, PcsOf DEF Apart, Unsent, InCall
    <3>2. \A p \in All : p # Current => call'[p] = call[p]
      BY DEF Untouched, OthersStay
    <3> QED
      BY <3>1, <3>2 DEF Unsent, InCall
  <2> QED
    BY <2>1, <2>2 DEF Untouched
<1>2. BoxOrder(b)
  BY BoxFinds
<1>3. /\ Senders(b)' = Senders(b) /\ Order(b)' = Order(b) /\ Slots(b)' = Slots(b)
      /\ SentTo(b)' = SentTo(b) /\ NextTurn(b)' = NextTurn(b)
  BY DEF Untouched
<1>4. NumbersOK(b)'
  BY <1>1, <1>2, <1>3 DEF BoxOrder, NumbersOK
<1>5. TurnsOK(b)'
  BY <1>1, <1>2, <1>3 DEF BoxOrder, TurnsOK
<1>6. LineOK(b)'
  BY <1>1, <1>2, <1>3 DEF BoxOrder, LineOK, InLine
<1>7. LetGoOK(b)'
  BY <1>1, <1>2, <1>3 DEF BoxOrder, LetGoOK, InLine
<1> QED
  BY <1>4, <1>5, <1>6, <1>7 DEF BoxOrder

\* The early senders that are left when the last message is counted.
LEMMA WakensTurns ==
    ASSUME OrderBefore, NEW b \in Slotted, Wakens(b)
    PROVE  TurnsOK(b)'
<1>1. CASE call'[Current].pc \in UncountedPcs /\ call'[Current].box = b
  <2>1. Current \in InCall(b, UncountedPcs)'
    BY <1>1, BoxFinds DEF InCall
  <2> QED
    BY <2>1 DEF TurnsOK
<1>2. CASE Order(b)' = <<>>
  <2>1. Members(Order(b)') = {}
    BY <1>2, EmptySeq DEF Members
  <2> QED
    BY <2>1 DEF TurnsOK
<1> QED
  BY <1>1, <1>2 DEF Wakens

LEMMA FinishesOrder ==
    ASSUME OrderBefore, NEW b \in Slotted, Finishes(b)
    PROVE  BoxOrder(b)'
<1>1. BoxOrder(b) /\ Current \in All
  BY BoxFinds
<1>2. /\ Senders(b)' = Senders(b) /\ Slots(b)' = Slots(b)
      /\ SentTo(b)' = SentTo(b) /\ NextTurn(b)' = NextTurn(b)
  BY DEF Finishes
<1>3. /\ Unsent(b)' = Unsent(b)
      /\ InCall(b, {"recvWoke"})' = InCall(b, {"recvWoke"})
      /\ \A p \in Unsent(b) : call'[p] = call[p]
  <2>1. /\ call[Current].pc \in UncountedPcs
        /\ call'[Current].pc \in UncountedPcs \/ call'[Current].pc = "user"
    BY DEF Finishes, Wakens
  <2>2. /\ Current \notin Unsent(b) /\ Current \notin Unsent(b)'
        /\ Current \notin InCall(b, {"recvWoke"}) /\ Current \notin InCall(b, {"recvWoke"})'
    BY <2>1, PcsOf DEF Unsent, InCall
  <2>3. \A p \in All : p # Current => call'[p] = call[p]
    BY DEF Finishes, OthersStay
  <2> QED
    BY <2>2, <2>3 DEF Unsent, InCall
<1>4. NumbersOK(b)'
  BY <1>1, <1>2, <1>3 DEF BoxOrder, NumbersOK
<1>5. TurnsOK(b)'
  BY WakensTurns DEF Finishes
<1>6. LineOK(b)'
  BY <1>1, <1>2, <1>3 DEF BoxOrder, LineOK, InLine
<1>7. LetGoOK(b)'
  BY <1>1, <1>2, <1>3 DEF BoxOrder, LetGoOK, InLine
<1> QED
  BY <1>4, <1>5, <1>6, <1>7 DEF BoxOrder

\* How many have still to put their messages, when only Current comes or goes.
LEMMA UnsentCount ==
    ASSUME OrderBefore, NEW b \in Slotted, OthersStay
    PROVE  /\ Cardinality(Unsent(b)) \in Nat
           /\ Current \notin Unsent(b) /\ Current \notin Unsent(b)' =>
                Unsent(b)' = Unsent(b)
           /\ Current \in Unsent(b) /\ Current \in Unsent(b)' =>
                Unsent(b)' = Unsent(b)
           /\ Current \notin Unsent(b) /\ Current \in Unsent(b)' =>
                /\ Unsent(b)' = Unsent(b) \cup {Current}
                /\ Cardinality(Unsent(b)') = Cardinality(Unsent(b)) + 1
           /\ Current \in Unsent(b) /\ Current \notin Unsent(b)' =>
                /\ Unsent(b)' = Unsent(b) \ {Current}
                /\ Cardinality(Unsent(b)') = Cardinality(Unsent(b)) - 1
<1> SUFFICES ASSUME NEW cur, cur = Current, NEW S, S = Unsent(b), NEW T, T = Unsent(b)'
             PROVE  /\ Cardinality(S) \in Nat
                    /\ cur \notin S /\ cur \notin T => T = S
                    /\ cur \in S /\ cur \in T => T = S
                    /\ cur \notin S /\ cur \in T =>
                         T = S \cup {cur} /\ Cardinality(T) = Cardinality(S) + 1
                    /\ cur \in S /\ cur \notin T =>
                         T = S \ {cur} /\ Cardinality(T) = Cardinality(S) - 1
  OBVIOUS
<1>1. IsFiniteSet(S)
  BY Finite, FS_Subset DEF Unsent, InCall
<1>2. T \ {cur} = S \ {cur}
  BY OthersAt DEF Unsent, InCall
<1> QED
  BY <1>1, <1>2, CountMoves

LEMMA PostsOrder ==
    ASSUME OrderBefore, NEW b \in Slotted, Posts(b)
    PROVE  BoxOrder(b)'
<1>1. /\ BoxOrder(b) /\ Current \in All /\ SentTo(b) \in Nat /\ NextTurn(b) \in Nat
      /\ \A p \in Unsent(b) : call[p].number \in Nat
  BY BoxFinds
<1>2. /\ OthersStay /\ Senders(b)' = Senders(b) /\ Slots(b)' # <<>> /\ SentTo(b)' = SentTo(b) + 1
  BY DEF Posts, SameRest
<1>3. Current \notin Unsent(b)'
  BY PcsOf DEF Posts, Wakens, Unsent, InCall
<1>4. \A p \in Unsent(b)' : p \in Unsent(b) /\ call'[p] = call[p] /\ p # Current
  <2> SUFFICES ASSUME NEW p \in Unsent(b)' PROVE p \in Unsent(b) /\ call'[p] = call[p] /\ p # Current
    OBVIOUS
  <2>1. p \in All
    BY DEF Unsent, InCall
  <2> QED
    BY <1>2, <1>3, <2>1, OthersAt
<1>5. NumbersOK(b)'
  <2> DEFINE n == Cardinality(Unsent(b))
             m == Cardinality(Unsent(b)')
  <2>1. n \in Nat /\ SentTo(b) + n = NextTurn(b) - 1
    BY <1>1, <1>2, UnsentCount DEF BoxOrder, NumbersOK
  <2>2. CASE call[Current].pc = "user" /\ NextTurn(b)' = NextTurn(b) + 1
    <3>1. Unsent(b)' = Unsent(b)
      BY <1>2, <1>3, <2>2, UnsentCount, PcsOf DEF Unsent, InCall
    <3>2. SentTo(b)' + m = NextTurn(b)' - 1
      BY <1>1, <1>2, <2>1, <2>2, <3>1
    <3>3. \A p \in Unsent(b)' : call'[p].number \in 1 .. NextTurn(b)'-1
      <4>1. \A p \in Unsent(b)' : call'[p].number \in 1 .. NextTurn(b)-1
        BY <1>1, <1>4 DEF BoxOrder, NumbersOK
      <4>2. \A i \in 1 .. NextTurn(b)-1 : i \in 1 .. NextTurn(b)'-1
        BY <1>1, <2>2
      <4> QED
        BY <4>1, <4>2
    <3>4. \A p, q \in Unsent(b)' : call'[p].number = call'[q].number => p = q
      BY <1>1, <1>4 DEF BoxOrder, NumbersOK
    <3> QED
      BY <3>2, <3>3, <3>4 DEF NumbersOK
  <2>3. CASE call[Current].pc \in PendingPcs /\ call[Current].box = b /\ NextTurn(b)' = NextTurn(b)
    <3>1. Current \in Unsent(b)
      BY <1>1, <2>3 DEF Unsent, InCall
    <3>2. m = n - 1
      BY <1>2, <1>3, <3>1, UnsentCount
    <3>3. SentTo(b)' + m = NextTurn(b)' - 1
      BY <1>1, <1>2, <2>1, <2>3, <3>2
    <3> QED
      BY <1>1, <1>4, <2>3, <3>3 DEF BoxOrder, NumbersOK
  <2> QED
    BY <2>2, <2>3 DEF Posts
<1>6. TurnsOK(b)'
  BY WakensTurns DEF Posts
<1>7. LineOK(b)'
  BY <1>1, <1>2, <1>4 DEF BoxOrder, LineOK, InLine
<1>8. LetGoOK(b)'
  BY <1>2 DEF LetGoOK
<1> QED
  BY <1>5, <1>6, <1>7, <1>8 DEF BoxOrder

LEMMA JoinsOrder ==
    ASSUME OrderBefore, NEW b \in Slotted, Joins(b)
    PROVE  BoxOrder(b)'
<1> DEFINE n == Len(processTable)
<1>1. /\ BoxOrder(b) /\ b \in Boxes /\ MailBoxTable[b].numSlots > 0
      /\ Current \in All /\ SentTo(b) \in Nat /\ NextTurn(b) \in Nat /\ n \in Nat
      /\ Senders(b) \in Seq(1 .. MAXPROC) /\ Members(Senders(b)) \subseteq 1 .. n
      /\ Members(Order(b)) \subseteq 1 .. n
      /\ \A p \in Unsent(b) : call[p].number \in Nat /\ call[p].entry \in 1 .. n
  BY BoxFinds
<1>2. /\ OthersStay /\ Order(b)' = Order(b) /\ Slots(b)' = Slots(b) /\ SentTo(b)' = SentTo(b)
      /\ Senders(b)' = Append(Senders(b), n + 1) /\ NextTurn(b)' = NextTurn(b) + 1
      /\ call[Current].pc = "user" /\ call'[Current].pc = "sendFull" /\ call'[Current].box = b
      /\ call'[Current].number = NextTurn(b) /\ call'[Current].entry = n + 1
      /\ MailBoxTable[b].numSlotsUsed = MailBoxTable[b].numSlots
  BY DEF Joins, SameRest
<1> HIDE DEF n
<1>3. /\ Members(Senders(b)') = Members(Senders(b)) \cup {n + 1} /\ n + 1 \notin Members(Senders(b))
      /\ Len(Senders(b)) \in Nat /\ Len(Senders(b)') = Len(Senders(b)) + 1
      /\ Senders(b)'[Len(Senders(b)) + 1] = n + 1
      /\ \A i \in 1 .. Len(Senders(b)) : Senders(b)'[i] = Senders(b)[i] /\ Senders(b)[i] \in 1 .. n
  <2>1. PICK q, r, k : q = Senders(b) /\ r = Senders(b)' /\ k = n + 1
    OBVIOUS
  <2>2. /\ n \in Nat /\ q \in Seq(1 .. MAXPROC) /\ Members(q) \subseteq 1 .. n
        /\ k = n + 1 /\ r = Append(q, k)
    BY <1>1, <1>2, <2>1
  <2>3. q \in Seq(Nat) /\ k \in Nat /\ k \notin Members(q)
    BY <2>2, SeqOfNats
  <2>4. Members(r) = Members(q) \cup {k}
    BY <2>2, <2>3, AppendMembers
  <2>5. /\ Len(q) \in Nat /\ Len(r) = Len(q) + 1 /\ r[Len(q) + 1] = k
        /\ \A i \in 1 .. Len(q) : r[i] = q[i]
    BY <2>2, <2>3, AppendProperties, LenProperties
  <2>6. \A i \in 1 .. Len(q) : q[i] \in 1 .. n
    BY <2>2 DEF Members
  <2> QED
    BY <2>1, <2>3, <2>4, <2>5, <2>6
<1>4. Current \notin Unsent(b) /\ Current \in Unsent(b)' /\ Unsent(b)' = Unsent(b) \cup {Current}
  <2>1. Current \notin Unsent(b) /\ Current \in Unsent(b)'
    BY <1>1, <1>2, PcsOf DEF Unsent, InCall
  <2> QED
    BY <1>2, <2>1, UnsentCount
<1>4a. Cardinality(Unsent(b)) \in Nat /\ Cardinality(Unsent(b)') = Cardinality(Unsent(b)) + 1
  BY <1>2, <1>4, UnsentCount
<1>5. \A p \in Unsent(b) : p # Current /\ call'[p] = call[p]
  BY <1>2, <1>4, OthersAt DEF Unsent, InCall
<1>6. NumbersOK(b)'
  <2>0. SentTo(b) + Cardinality(Unsent(b)) = NextTurn(b) - 1
    BY <1>1 DEF BoxOrder, NumbersOK
  <2>1. SentTo(b)' + Cardinality(Unsent(b)') = NextTurn(b)' - 1
    <3>1. SentTo(b) \in Nat /\ NextTurn(b) \in Nat
      BY <1>1
    <3>2. SentTo(b)' = SentTo(b) /\ NextTurn(b)' = NextTurn(b) + 1
      BY <1>2
    <3> QED
      BY <1>4a, <2>0, <3>1, <3>2
  <2>2. \A p \in Unsent(b) : call'[p].number \in 1 .. NextTurn(b)-1
    BY <1>1, <1>5 DEF BoxOrder, NumbersOK
  <2>3. NextTurn(b) # 0
    BY <1>1, <1>4a DEF BoxOrder, NumbersOK
  <2>4. \A p \in Unsent(b)' : call'[p].number \in 1 .. NextTurn(b)'-1
    <3>1. \A i \in 1 .. NextTurn(b)-1 : i \in 1 .. NextTurn(b)'-1
      BY <1>1, <1>2
    <3>2. NextTurn(b) \in 1 .. NextTurn(b)'-1
      BY <1>1, <1>2, <2>3
    <3> QED
      BY <1>2, <1>4, <2>2, <3>1, <3>2
  <2>5. \A p \in Unsent(b) : call'[p].number # NextTurn(b)
    BY <1>1, <2>2
  <2>6. \A p, q \in Unsent(b) : call'[p].number = call'[q].number => p = q
    BY <1>1, <1>5 DEF BoxOrder, NumbersOK
  <2>7. \A p, q \in Unsent(b)' : call'[p].number = call'[q].number => p = q
    BY <1>2, <1>4, <2>5, <2>6
  <2> QED
    BY <2>1, <2>4, <2>7 DEF NumbersOK
<1>7. TurnsOK(b)'
  <2>1. InCall(b, UncountedPcs)' = InCall(b, UncountedPcs)
    <3>1. Current \notin InCall(b, UncountedPcs) /\ Current \notin InCall(b, UncountedPcs)'
      BY <1>2, PcsOf DEF InCall
    <3> QED
      BY <1>2, <3>1 DEF OthersStay, InCall
  <2>2. call'[Current].entry \notin Members(Order(b)')
    BY <1>1, <1>2
  <2> QED
    BY <1>1, <1>2, <1>4, <1>5, <2>1, <2>2 DEF BoxOrder, TurnsOK
<1>8. LineOK(b)'
  <2>1. \A i, j \in 1 .. Len(Senders(b)') : i < j => Senders(b)'[i] < Senders(b)'[j]
    <3> SUFFICES ASSUME NEW i \in 1 .. Len(Senders(b)'), NEW j \in 1 .. Len(Senders(b)'), i < j
                 PROVE  Senders(b)'[i] < Senders(b)'[j]
      OBVIOUS
    <3>1. i \in 1 .. Len(Senders(b)) /\ Senders(b)'[i] = Senders(b)[i] /\ Senders(b)[i] \in 1 .. n
      BY <1>3
    <3>2. CASE j \in 1 .. Len(Senders(b))
      BY <1>1, <1>3, <3>1, <3>2 DEF BoxOrder, LineOK
    <3>3. CASE j = Len(Senders(b)) + 1
      BY <1>1, <1>3, <3>1, <3>3
    <3> QED
      BY <1>3, <3>2, <3>3
  <2>2. \A p \in Unsent(b) : InLine(p, b)' <=> InLine(p, b)
    <3>1. \A p \in Unsent(b) : call[p].entry # n + 1
      BY <1>1
    <3> QED
      BY <1>3, <1>5, <3>1 DEF InLine
  <2>3. \A p : p = Current => InLine(p, b)'
    BY <1>2, <1>3 DEF InLine
  <2>4. \A p \in Unsent(b) : call[p].number < NextTurn(b)
    BY <1>1 DEF BoxOrder, NumbersOK
  <2>5. ASSUME NEW p \in Unsent(b)', NEW q \in Unsent(b)', InLine(q, b)',
               InLine(p, b)' => call'[p].entry < call'[q].entry
        PROVE  call'[p].number < call'[q].number
    <3>1. CASE p \in Unsent(b) /\ q \in Unsent(b)
      BY <1>1, <1>5, <2>2, <2>5, <3>1 DEF BoxOrder, LineOK
    <3>2. CASE p \in Unsent(b) /\ q = Current
      BY <1>2, <1>5, <2>4, <3>2
    <3>3. CASE p = Current
      <4>1. call'[q].entry <= n + 1
        BY <1>1, <1>2, <1>4, <1>5
      <4>2. call'[q].entry \in Nat
        BY <1>1, <1>2, <1>4, <1>5
      <4>3. n + 1 < call'[q].entry
        BY <1>2, <2>3, <2>5, <3>3
      <4> QED
        BY <1>1, <4>1, <4>2, <4>3
    <3> QED
      BY <1>4, <3>1, <3>2, <3>3
  <2> QED
    BY <2>1, <2>5 DEF LineOK
<1>9. LetGoOK(b)'
  <2> SUFFICES ASSUME Slots(b) = <<>> PROVE \E p \in Unsent(b)' : ~InLine(p, b)'
    BY <1>2 DEF LetGoOK
  <2>1. InCall(b, {"recvWoke"}) # {}
    <3> DEFINE w == Cardinality(InCall(b, {"recvWoke"}))
               u == Cardinality(InCall(b, UncountedPcs))
    <3>1. w \in Nat /\ u \in Nat
      BY CountTypes DEF Woken, Uncounted
    <3>2. Len(Slots(b)) = 0
      BY EmptySeq
    <3>3. MailBoxTable[b].numSlotsUsed = Len(Slots(b)) + w - u
      BY DEF OrderBefore, SlotInv, CountsOK, BoxCount
    <3>4. MailBoxTable[b].numSlots \in Nat
      BY <1>1, BoxRecords DEF OrderBefore, WaitBefore, MailBox
    <3> HIDE DEF w, u
    <3>5. w # 0
      BY <1>1, <1>2, <3>1, <3>2, <3>3, <3>4
    <3> QED
      BY <3>5, FS_EmptySet DEF w
  <2>2. PICK p \in Unsent(b) : ~InLine(p, b)
    BY <1>1, <2>1 DEF BoxOrder, LetGoOK
  <2>3. ~InLine(p, b)'
    BY <1>1, <1>3, <1>5, <2>2 DEF InLine
  <2> QED
    BY <1>4, <2>2, <2>3
<1> QED
  BY <1>6, <1>7, <1>8, <1>9 DEF BoxOrder

LEMMA DefersOrder ==
    ASSUME OrderBefore, NEW b \in Slotted, Defers(b)
    PROVE  BoxOrder(b)'
<1> DEFINE n == Len(processTable)
<1>1. /\ BoxOrder(b) /\ b \in Boxes
      /\ Current \in All /\ SentTo(b) \in Nat /\ n \in Nat
      /\ Members(Senders(b)) \subseteq 1 .. n
      /\ Order(b) \in Seq(1 .. MAXPROC) /\ Members(Order(b)) \subseteq 1 .. n
      /\ \A p \in Unsent(b) : call[p].number \in Nat /\ call[p].entry \in 1 .. n
                              /\ processTable[call[p].entry].pid = p
  BY BoxFinds
<1>2. /\ OthersStay /\ Senders(b)' = Senders(b) /\ Slots(b)' = Slots(b)
      /\ SentTo(b)' = SentTo(b) /\ NextTurn(b)' = NextTurn(b)
      /\ Order(b)' = Append(Order(b), n + 1)
      /\ call[Current].pc \in PendingPcs /\ call[Current].box = b
      /\ call[Current].number > SentTo(b) + 1
      /\ call'[Current].pc = "sendOrder" /\ call'[Current].box = b
      /\ call'[Current].number = call[Current].number /\ call'[Current].entry = n + 1
  BY DEF Defers, SameRest
<1> HIDE DEF n
<1>3. Members(Order(b)') = Members(Order(b)) \cup {n + 1}
  <2>1. PICK q, r, k : q = Order(b) /\ r = Order(b)' /\ k = n + 1
    OBVIOUS
  <2>2. n \in Nat /\ q \in Seq(1 .. MAXPROC) /\ k = n + 1 /\ r = Append(q, k)
    BY <1>1, <1>2, <2>1
  <2>3. q \in Seq(Nat) /\ k \in Nat
    BY <2>2, SeqOfNats
  <2>4. Members(r) = Members(q) \cup {k}
    BY <2>2, <2>3, AppendMembers
  <2> QED
    BY <2>1, <2>4
<1>4. Current \in Unsent(b) /\ Current \in Unsent(b)' /\ Unsent(b)' = Unsent(b)
  <2>1. Current \in Unsent(b) /\ Current \in Unsent(b)'
    BY <1>1, <1>2, PcsOf DEF Unsent, InCall
  <2> QED
    BY <1>2, <2>1, UnsentCount
<1>5. \A p \in Unsent(b) : p # Current => call'[p] = call[p]
  BY <1>2, OthersAt DEF Unsent, InCall
<1>6. \A p \in Unsent(b) : call'[p].number = call[p].number
  BY <1>2, <1>5
<1>7. NumbersOK(b)'
  BY <1>1, <1>2, <1>4, <1>6 DEF BoxOrder, NumbersOK
<1>8. TurnsOK(b)'
  <2>1. InCall(b, UncountedPcs)' = InCall(b, UncountedPcs)
    <3>1. Current \notin InCall(b, UncountedPcs) /\ Current \notin InCall(b, UncountedPcs)'
      BY <1>2, PcsOf DEF InCall
    <3> QED
      BY <1>2, <3>1 DEF OthersStay, InCall
  <2>2. ASSUME NEW p \in Unsent(b), p # Current, call'[p].entry \in Members(Order(b)')
        PROVE  call'[p].entry \in Members(Order(b)) /\ call'[p] = call[p]
    <3>1. call'[p] = call[p]
      BY <1>5, <2>2
    <3>2. call[p].entry # n + 1
      BY <1>1
    <3> QED
      BY <1>3, <2>2, <3>1, <3>2
  <2> QED
    BY <1>1, <1>2, <1>4, <2>1, <2>2 DEF BoxOrder, TurnsOK
<1>9. \A p \in Unsent(b) : InLine(p, b)' <=> InLine(p, b)
  <2>1. ~InLine(Current, b)
    <3> SUFFICES ASSUME NEW e \in Members(Senders(b)), e = call[Current].entry PROVE FALSE
      BY DEF InLine
    <3>1. WaitsOn(e, b, SendPcs)
      BY <1>1 DEF OrderBefore, WaitBefore, WaitersOK
    <3>2. Current \notin Run
      BY <1>1, <1>4, <3>1 DEF WaitsOn
    <3> QED
      BY <3>2 DEF Run, Runnable
  <2>2. \A p : p = Current => ~InLine(p, b)'
    BY <1>1, <1>2 DEF InLine
  <2> QED
    BY <1>2, <1>5, <2>1, <2>2 DEF InLine
<1>10. LineOK(b)'
  <2>1. \A q \in Unsent(b) : InLine(q, b)' => q # Current /\ call'[q] = call[q]
    <3>1. \A p : p = Current => ~InLine(p, b)'
      BY <1>1, <1>2 DEF InLine
    <3> QED
      BY <1>5, <3>1
  <2> QED
    BY <1>1, <1>2, <1>4, <1>5, <1>6, <1>9, <2>1 DEF BoxOrder, LineOK
<1>11. LetGoOK(b)'
  <2>1. InCall(b, {"recvWoke"})' = InCall(b, {"recvWoke"})
    <3>1. Current \notin InCall(b, {"recvWoke"}) /\ Current \notin InCall(b, {"recvWoke"})'
      BY <1>2, PcsOf DEF InCall
    <3> QED
      BY <1>2, <3>1 DEF OthersStay, InCall
  <2> QED
    BY <1>1, <1>2, <1>4, <1>9, <2>1 DEF BoxOrder, LetGoOK
<1> QED
  BY <1>7, <1>8, <1>10, <1>11 DEF BoxOrder

LEMMA DrawsOrder ==
    ASSUME OrderBefore, NEW b \in Slotted, Draws(b)
    PROVE  BoxOrder(b)'
<1>1. /\ BoxOrder(b) /\ b \in Boxes /\ MailBoxTable[b].numSlots > 0
      /\ Current \in All /\ Len(processTable) \in Nat
      /\ Senders(b) \in Seq(1 .. MAXPROC) /\ Members(Senders(b)) \subseteq 1 .. Len(processTable)
      /\ \A p \in Unsent(b) : call[p].entry \in 1 .. Len(processTable)
  BY BoxFinds
<1>2. /\ OthersStay /\ Order(b)' = Order(b)
      /\ SentTo(b)' = SentTo(b) /\ NextTurn(b)' = NextTurn(b)
  BY DEF Draws, SameRest
<1>3. /\ \/ call[Current].pc = "user" /\ Receives(Current, b)
         \/ call[Current].pc = "recvEmpty" /\ call[Current].box = b
      /\ call'[Current].pc \in {"recvWoke", "user"}
  BY DEF Draws
<1>4. /\ Unsent(b)' = Unsent(b)
      /\ InCall(b, UncountedPcs)' = InCall(b, UncountedPcs)
      /\ \A p \in Unsent(b) : call'[p] = call[p]
  <2>1. /\ Current \notin Unsent(b) /\ Current \notin Unsent(b)'
        /\ Current \notin InCall(b, UncountedPcs) /\ Current \notin InCall(b, UncountedPcs)'
    BY <1>3, PcsOf DEF Unsent, InCall
  <2>2. \A p \in All : p # Current => call'[p] = call[p]
    BY <1>2 DEF OthersStay
  <2> QED
    BY <2>1, <2>2 DEF Unsent, InCall
<1>5. NumbersOK(b)' /\ TurnsOK(b)'
  BY <1>1, <1>2, <1>4 DEF BoxOrder, NumbersOK, TurnsOK
<1>6. CASE Senders(b) # <<>> /\ Senders(b)' = Tail(Senders(b))
  <2> DEFINE e == Head(Senders(b))
  <2>1. /\ Len(Senders(b)) \in Nat \ {0} /\ Len(Senders(b)') = Len(Senders(b)) - 1
        /\ e = Senders(b)[1] /\ e \in Members(Senders(b))
        /\ \A i \in 1 .. Len(Senders(b))-1 : Senders(b)'[i] = Senders(b)[i+1]
        /\ Members(Senders(b)) = Members(Senders(b)') \cup {e}
        /\ e \notin Members(Senders(b)')
    BY <1>1, <1>6, TailMembers DEF OrderBefore, WaitBefore, ListsDistinct
  <2> HIDE DEF e
  <2>2. \A f \in Members(Senders(b)') : e < f
    <3> SUFFICES ASSUME NEW i \in 1 .. Len(Senders(b)') PROVE e < Senders(b)'[i]
      BY DEF Members
    <3>1. i \in 1 .. Len(Senders(b))-1 /\ i + 1 \in 1 .. Len(Senders(b)) /\ 1 < i + 1
          /\ 1 \in 1 .. Len(Senders(b))
      BY <2>1
    <3>2. Senders(b)[1] < Senders(b)[i+1]
      BY <1>1, <3>1 DEF BoxOrder, LineOK
    <3> QED
      BY <2>1, <3>1, <3>2
  <2>3. LineOK(b)'
    <3>1. ASSUME NEW i \in 1 .. Len(Senders(b)'), NEW j \in 1 .. Len(Senders(b)'), i < j
          PROVE  Senders(b)'[i] < Senders(b)'[j]
      <4>1. /\ i \in 1 .. Len(Senders(b))-1 /\ j \in 1 .. Len(Senders(b))-1
            /\ i + 1 \in 1 .. Len(Senders(b)) /\ j + 1 \in 1 .. Len(Senders(b)) /\ i + 1 < j + 1
        BY <2>1, <3>1
      <4>2. Senders(b)[i+1] < Senders(b)[j+1]
        BY <1>1, <4>1 DEF BoxOrder, LineOK
      <4> QED
        BY <2>1, <4>1, <4>2
    <3>2. ASSUME NEW p \in Unsent(b), NEW q \in Unsent(b), InLine(q, b)',
                 InLine(p, b)' => call[p].entry < call[q].entry
          PROVE  call[p].number < call[q].number
      <4>1. InLine(q, b) /\ e < call[q].entry
        BY <1>4, <2>1, <2>2, <3>2 DEF InLine
      <4>2. InLine(p, b) => call[p].entry < call[q].entry
        BY <1>4, <2>1, <3>2, <4>1 DEF InLine
      <4> QED
        BY <1>1, <4>1, <4>2 DEF BoxOrder, LineOK
    <3> QED
      BY <1>4, <3>1, <3>2 DEF LineOK
  <2>4. LetGoOK(b)'
    <3>0. PICK p : p = processTable[e].pid
      OBVIOUS
    <3>1. /\ call[p].pc \in SendPcs /\ call[p].box = b /\ call[p].entry = e
          /\ p \notin Run /\ p \in All
      <4>1. WaitsOn(e, b, SendPcs)
        BY <1>1, <2>1 DEF OrderBefore, WaitBefore, WaitersOK
      <4>2. p \in All
        BY <1>1, <2>1, <3>0, PidOf DEF OrderBefore, WaitBefore
      <4> QED
        BY <3>0, <4>1, <4>2 DEF WaitsOn
    <3>2. call[p].pc = "sendFull"
      <4>1. call[p].pc # "sendZero"
        BY <1>1, <3>1 DEF OrderBefore, OrderInv, ZeroOK, ZeroSlots
      <4> QED
        BY <3>1, <4>1 DEF SendPcs
    <3>3. p \in Unsent(b)
      BY <3>1, <3>2, PcsOf DEF Unsent, InCall
    <3>4. ~InLine(p, b)'
      BY <1>4, <2>1, <3>1, <3>3 DEF InLine
    <3> QED
      BY <1>4, <3>3, <3>4 DEF LetGoOK
  <2> QED
    BY <1>5, <2>3, <2>4 DEF BoxOrder
<1>7. CASE Senders(b) = <<>> /\ Senders(b)' = <<>> /\ call'[Current].pc = "user"
  <2>1. Members(<<>>) = {}
    BY EmptySeq DEF Members
  <2>2. LineOK(b)'
    <3>1. \A q \in Unsent(b)' : ~InLine(q, b)'
      BY <1>7, <2>1 DEF InLine
    <3>2. Len(Senders(b)') = 0
      BY <1>7, EmptySeq
    <3> QED
      BY <3>1, <3>2 DEF LineOK
  <2>3. InCall(b, {"recvWoke"})' = {}
    <3> SUFFICES ASSUME NEW q \in All, call'[q].box = b, call'[q].pc = "recvWoke" PROVE FALSE
      BY DEF InCall
    <3>1. q # Current
      BY <1>7
    <3>2. call[q].box = b /\ call[q].pc = "recvWoke"
      BY <1>2, <3>1 DEF OthersStay
    <3>3. Receives(q, b)
      BY <3>2 DEF OrderBefore, OrderInv, ReceiverOK
    <3>4. Receives(Current, b)
      BY <1>1, <1>3 DEF OrderBefore, OrderInv, ReceiverOK
    <3> QED
      BY <1>1, <3>1, <3>3, <3>4 DEF OrderBefore, OneReceiver
  <2>4. LetGoOK(b)'
    BY <1>7, <2>3 DEF LetGoOK
  <2> QED
    BY <1>5, <2>2, <2>4 DEF BoxOrder
<1> QED
  BY <1>6, <1>7 DEF Draws

LEMMA OpensOrder ==
    ASSUME OrderBefore, NEW b \in Boxes, b \notin Slotted, Opens(b)
    PROVE  BoxOrder(b)'
<1>1. \A p \in All : call[p].box = b => call[p].pc \notin SlottedPcs
  BY DEF OrderBefore, SlotInv, CallsOK, CallOK
<1>2. Unsent(b)' = {} /\ InCall(b, {"recvWoke"})' = {}
  <2>1. call' = call
    BY DEF Opens
  <2>2. PendingPcs \subseteq SlottedPcs /\ "recvWoke" \in SlottedPcs
    BY SlotPcs
  <2> QED
    BY <1>1, <2>1, <2>2 DEF Unsent, InCall
<1>3. /\ Senders(b)' = <<>> /\ SentTo(b)' = 0 /\ NextTurn(b)' = 1
  BY DEF Opens, OrderBefore, OrderInv, NewOK, SentTo, NextTurn
<1>4. Cardinality({}) = 0
  BY FS_EmptySet
<1>5. NumbersOK(b)'
  BY <1>2, <1>3, <1>4 DEF NumbersOK
<1>6. TurnsOK(b)'
  BY <1>2 DEF TurnsOK
<1>7. LineOK(b)'
  BY <1>2, <1>3, EmptySeq DEF LineOK
<1>8. LetGoOK(b)'
  BY <1>2, <1>3 DEF LetGoOK
<1> QED
  BY <1>5, <1>6, <1>7, <1>8 DEF BoxOrder

LEMMA BoxesOrder ==
    ASSUME OrderBefore, NEW b \in Slotted'
    PROVE  BoxOrder(b)'
<1>1. b \in Boxes
  BY DEF Slotted
<1>2. CASE b \in Slotted
  BY <1>1, <1>2, StepAt, UntouchedOrder, JoinsOrder, PostsOrder, DefersOrder, DrawsOrder, FinishesOrder
<1>3. CASE b \notin Slotted
  BY <1>1, <1>3, StepAt, OpensOrder
<1> QED
  BY <1>2, <1>3

\* A mailbox once open stays so, with as many slots as it has.
LEMMA StaysOpen ==
    ASSUME OrderBefore, NEW b \in Boxes
    PROVE  /\ Open(b) => Open(b)' /\ MailBoxTable'[b].numSlots = MailBoxTable[b].numSlots
           /\ ~Open(b) => \/ Open(b)'
                          \/ /\ Senders(b)' = Senders(b) /\ Order(b)' = Order(b)
                             /\ SentTo(b)' = SentTo(b) /\ NextTurn(b)' = NextTurn(b)
<1>1. ASSUME SameSide(MailBoxTable'[b], MailBoxTable[b])
      PROVE  /\ Open(b) => Open(b)' /\ MailBoxTable'[b].numSlots = MailBoxTable[b].numSlots
             /\ ~Open(b) => /\ Senders(b)' = Senders(b) /\ Order(b)' = Order(b)
                            /\ SentTo(b)' = SentTo(b) /\ NextTurn(b)' = NextTurn(b)
  BY <1>1 DEF SameSide, Open, Senders, Order, SentTo, NextTurn
<1>2. CASE Aside
  BY <1>1, <1>2 DEF Aside
<1>3. ASSUME NEW a \in Boxes, a # b,
             Joins(a) \/ Posts(a) \/ Defers(a) \/ Draws(a) \/ Finishes(a) \/ Opens(a)
      PROVE  SameSide(MailBoxTable'[b], MailBoxTable[b])
  BY <1>3 DEF Joins, Posts, Defers, Draws, Finishes, Opens, SameRest, SideBut
<1>4. ASSUME Joins(b) \/ Posts(b) \/ Defers(b) \/ Draws(b)
      PROVE  Open(b) /\ Open(b)' /\ MailBoxTable'[b].numSlots = MailBoxTable[b].numSlots
  BY <1>4 DEF Joins, Posts, Defers, Draws, SameRest, Open
<1>5. ASSUME Finishes(b)
      PROVE  Open(b) /\ Open(b)' /\ MailBoxTable'[b].numSlots = MailBoxTable[b].numSlots
  <2>1. call[Current].pc \in SlottedPcs /\ call[Current].box = b
    BY <1>5, SlotPcs DEF Finishes
  <2>2. Open(b)
    BY <2>1, CallOf DEF OrderBefore, WaitBefore, SlotInv, CallsOK, CallOK, Slotted
  <2> QED
    BY <1>5, <2>2 DEF Finishes, Open
<1>6. ASSUME Opens(b) PROVE ~Open(b) /\ Open(b)'
  BY <1>6 DEF Opens
<1> QED
  BY <1>1, <1>2, <1>3, <1>4, <1>5, <1>6 DEF OrderBefore, WaitBefore, OrderKinds

\* What the steps do with the running process's call, in a word.
LEMMA CallAfter ==
    ASSUME OrderBefore
    PROVE  /\ OthersStay
           /\ \/ call'[Current] = call[Current]
              \/ /\ call'[Current].pc = "sendZero" => ZeroSlots(call'[Current].box)
                 /\ call'[Current].pc \in {"recvEmpty", "recvWoke"} =>
                      Receives(Current, call'[Current].box)
<1> DEFINE d == call'[Current]
           Good == /\ d.pc = "sendZero" => ZeroSlots(d.box)
                   /\ d.pc \in {"recvEmpty", "recvWoke"} => Receives(Current, d.box)
<1>1. CASE Aside
  BY <1>1, PassesBy, PcsOf DEF Aside
<1>2. ASSUME NEW b \in Boxes, Joins(b) \/ Posts(b) \/ Defers(b) \/ Finishes(b)
      PROVE  OthersStay /\ Good
  <2>1. d.pc \in UncountedPcs \cup {"user", "sendFull", "sendOrder"}
    BY <1>2 DEF Joins, Posts, Defers, Finishes, Wakens
  <2>2. OthersStay
    BY <1>2 DEF Joins, Posts, Defers, Finishes, SameRest
  <2> QED
    BY <2>1, <2>2 DEF UncountedPcs
<1>3. ASSUME NEW b \in Boxes, Draws(b) PROVE OthersStay /\ Good
  <2>1. d.pc = "user" \/ (d.pc = "recvWoke" /\ d.box = b)
    BY <1>3 DEF Draws
  <2>2. Receives(Current, b)
    BY <1>3, CallOf DEF Draws, OrderBefore, WaitBefore, OrderInv, ReceiverOK
  <2>3. OthersStay
    BY <1>3 DEF Draws, SameRest
  <2> QED
    BY <2>1, <2>2, <2>3
<1>4. ASSUME NEW b \in Boxes, Opens(b) PROVE OthersStay /\ d = call[Current]
  BY <1>4 DEF Opens, OthersStay
<1> QED
  BY <1>1, <1>2, <1>3, <1>4 DEF OrderBefore, WaitBefore, OrderKinds

LEMMA OrderKeeps ==
    ASSUME OrderBefore
    PROVE  OrderInv'
<1>1. NewOK'
  BY StaysOpen DEF OrderBefore, OrderInv, NewOK, SentTo, NextTurn
<1>2. ZeroOK'
  <2> SUFFICES ASSUME NEW p \in All, NEW b, call'[p].pc = "sendZero", b = call'[p].box
               PROVE  ZeroSlots(b)'
    BY DEF ZeroOK, ZeroSlots, Open
  <2>1. ZeroSlots(b)
    BY CallAfter DEF OrderBefore, OrderInv, ZeroOK, OthersStay
  <2> QED
    BY <2>1, StaysOpen DEF ZeroSlots
<1>3. ReceiverOK'
  <2> SUFFICES ASSUME NEW p \in All, NEW b, call'[p].pc \in {"recvEmpty", "recvWoke"},
                      b = call'[p].box
               PROVE  Receives(p, b)'
    BY DEF ReceiverOK, Receives
  <2>1. Receives(p, b)
    BY CallAfter DEF OrderBefore, OrderInv, ReceiverOK, OthersStay
  <2>2. Client' = Client
    BY DEF OrderBefore, Client
  <2> QED
    BY <2>1, <2>2 DEF Receives
<1> QED
  BY <1>1, <1>2, <1>3, BoxesOrder DEF OrderInv, BoxOrder

\* No mailbox is released: MboxCreate takes the first that was not made yet.
LEMMA NoneReleasedKeeps ==
    ASSUME OrderBefore, UnmadeOK, NoneReleased, Next
    PROVE  NoneReleased'
<1>0. /\ nextMid \in Nat /\ MAXMBOX \in Nat \ {0} /\ nextMid <= MAXMBOX
      /\ \A b \in 0 .. nextMid-1 : Open(b) /\ b \in Boxes
  BY BoxNumbers DEF UnmadeOK, NoneReleased, Boxes
<1>1. \A b \in Boxes : Open(b) => Open(b)'
  BY StaysOpen
<1>2. CASE nextMid' = nextMid
  BY <1>0, <1>1, <1>2 DEF NoneReleased
<1>3. ASSUME NEW args, MboxCreate(args) PROVE NoneReleased'
  <2>1. PICK i \in Boxes : /\ UnmadeAt(i) /\ nextMid' = nextMid + i + 1
                           /\ MailBoxTable' = [MailBoxTable EXCEPT
                                 ![(nextMid + i) % MAXMBOX] = Made(@, args)]
    BY <1>3 DEF MboxCreate
  <2>2. i \in Nat /\ i < MAXMBOX
    BY BoxNumbers
  <2>3. nextMid + i < MAXMBOX
    <3> SUFFICES ASSUME nextMid + i >= MAXMBOX PROVE FALSE
      BY <1>0, <2>2
    <3>1. (nextMid + i) % MAXMBOX = nextMid + i - MAXMBOX
      <4>1. nextMid + i - MAXMBOX \in 0 .. MAXMBOX-1
        BY <1>0, <2>2
      <4> QED
        BY <1>0, <2>2, <4>1
    <3>2. nextMid + i - MAXMBOX \in 0 .. nextMid-1
      BY <1>0, <2>2
    <3>3. Open(nextMid + i - MAXMBOX)
      BY <1>0, <3>2
    <3> QED
      BY <2>1, <3>1, <3>3, BoxNumbers DEF UnmadeAt, Open
  <2>4. \A j \in 0 .. i : (nextMid + j) % MAXMBOX = nextMid + j /\ nextMid + j \in Boxes
    BY <1>0, <2>2, <2>3 DEF Boxes
  <2>5. i = 0
    <3> SUFFICES ASSUME i # 0 PROVE FALSE
      OBVIOUS
    <3>1. 0 \in 0 .. i-1 /\ 0 \in 0 .. i
      BY <2>2
    <3>2. MailBoxTable[(nextMid + 0) % MAXMBOX].status # UNUSED
      BY <2>1, <3>1 DEF UnmadeAt
    <3>3. nextMid \in Boxes /\ MailBoxTable[nextMid].status # UNUSED
      <4>1. (nextMid + 0) % MAXMBOX = nextMid + 0 /\ nextMid + 0 \in Boxes
        BY <2>4, <3>1
      <4>2. nextMid + 0 = nextMid
        BY <1>0
      <4> QED
        BY <3>2, <4>1, <4>2
    <3>4. ~Open(nextMid)
      BY <1>0, <3>3 DEF UnmadeOK
    <3> QED
      BY <3>3, <3>4, BoxRecords DEF OrderBefore, WaitBefore, Open
  <2>6. \A b : b = nextMid => Open(b)'
    <3>1. nextMid \in Boxes /\ (nextMid + i) % MAXMBOX = nextMid
      BY <1>0, <2>3, <2>4, <2>5 DEF Boxes
    <3>2. PICK b \in Boxes : b = nextMid
      BY <3>1
    <3>3. MailBoxTable' = [MailBoxTable EXCEPT ![b] = Made(MailBoxTable[b], args)]
      BY <2>1, <3>1, <3>2
    <3>4. Made(MailBoxTable[b], args).status = CREATED
      BY BoxRecords DEF OrderBefore, WaitBefore, Made, MailBox
    <3>5. MailBoxTable'[b].status = CREATED
      BY <3>3, <3>4, SideAt DEF OrderBefore, WaitBefore
    <3> QED
      BY <3>2, <3>5 DEF Open
  <2>7. nextMid' = nextMid + 1 /\ nextMid + 1 <= MAXMBOX
    BY <1>0, <2>1, <2>2, <2>3, <2>5
  <2>8. ASSUME NEW b \in 0 .. nextMid'-1 PROVE Open(b)'
    <3>1. CASE b = nextMid
      BY <2>6, <3>1
    <3>2. CASE b # nextMid
      <4>1. b \in 0 .. nextMid-1
        BY <1>0, <2>7, <3>2
      <4> QED
        BY <1>0, <1>1, <4>1
    <3> QED
      BY <3>1, <3>2
  <2> QED
    BY <2>7, <2>8 DEF NoneReleased
<1> QED
  BY <1>2, <1>3, MidStays

-----------------------------------------------------------------------------
(***************************************************************************)
(* The theorem.                                                            *)
(***************************************************************************)
OrderSafe == UsedAsChannels => NoneReleased /\ WaitersOK /\ EarlyOK /\ OrderInv

LEMMA SameUse == ASSUME clients' = clients PROVE UsedAsChannels' <=> UsedAsChannels
<1>1. Client' = Client
  BY DEF Client
<1> QED
  BY <1>1 DEF UsedAsChannels, NoReleases, OneReceiver, Receives

LEMMA OrderStep ==
    ASSUME TypeInv, TypeInv', WaitInv, SizesFit, UnmadeOK, NoneReleased => SlotInv,
           OrderSafe, [Next]_vars
    PROVE  OrderSafe'
<1>1. Before /\ Before' /\ ClientsOK
  BY DEF TypeInv, Before, ClientsOK
<1>2. CASE Next
  <2>1. clients' = clients
    BY <1>2, SameClients
  <2> SUFFICES ASSUME UsedAsChannels PROVE NoneReleased' /\ WaitersOK' /\ EarlyOK' /\ OrderInv'
    BY <2>1, SameUse DEF OrderSafe
  <2>2. NoneReleased /\ WaitersOK /\ EarlyOK /\ OrderInv /\ SlotInv
    BY DEF OrderSafe
  <2>3. Kinds
    BY <1>1, <1>2, EveryStep
  <2>4. OrderKinds
    <3>1. call[Current].pc \notin ReleasePcs
      BY <1>1, <2>2, CallOf DEF WaitersOK
    <3> QED
      BY <1>1, <1>2, <3>1, EveryOrderStep DEF UsedAsChannels
  <2>5. WaitBefore
    BY <1>1, <2>2, <2>3, <2>4 DEF WaitBefore, WaitInv
  <2>6. OrderBefore
    BY <2>1, <2>2, <2>5 DEF OrderBefore, UsedAsChannels
  <2> QED
    BY <1>2, <2>2, <2>5, <2>6, WaitersStep, EarlyStep, OrderKeeps, NoneReleasedKeeps
<1>3. CASE UNCHANGED vars
  <2>1. UsedAsChannels' <=> UsedAsChannels
    BY <1>3, SameUse DEF vars
  <2>2. NoneReleased' <=> NoneReleased
    BY <1>3 DEF vars, core, NoneReleased, Open
  <2>3. WaitersOK => WaitersOK'
    BY <1>3 DEF vars, core, WaitersOK, WaitsOn, Receivers, Senders, Order, Run, Runnable
  <2>4. EarlyOK => EarlyOK'
    BY <1>3 DEF vars, core, EarlyOK, Asleep, Order, Runnable
  <2>5. OrderInv => OrderInv'
    <3>1. UNCHANGED <<MailBoxTable, call, clients>>
      BY <1>3 DEF vars, core
    <3>2. NewOK /\ ZeroOK /\ ReceiverOK => NewOK' /\ ZeroOK' /\ ReceiverOK'
      BY <3>1 DEF NewOK, ZeroOK, ReceiverOK, Open, Senders, Order, ZeroSlots, Receives, Client
    <3>3. Slotted' = Slotted
      BY <3>1 DEF Slotted, Open
    <3>4. \A b : NumbersOK(b) /\ TurnsOK(b) => NumbersOK(b)' /\ TurnsOK(b)'
      BY <3>1 DEF NumbersOK, TurnsOK, Unsent, InCall, NextTurn, SentTo, Order
    <3>5. \A b : LineOK(b) /\ LetGoOK(b) => LineOK(b)' /\ LetGoOK(b)'
      BY <3>1 DEF LineOK, LetGoOK, Unsent, InCall, InLine, Senders, Slots
    <3> QED
      BY <3>2, <3>3, <3>4, <3>5 DEF OrderInv
  <2> QED
    BY <2>1, <2>2, <2>3, <2>4, <2>5 DEF OrderSafe
<1> QED
  BY <1>2, <1>3

LEMMA OrderInit == Init => OrderSafe
<1> SUFFICES ASSUME Init PROVE NoneReleased /\ WaitersOK /\ EarlyOK /\ OrderInv
  BY DEF OrderSafe
<1>1. \A p \in All : call[p].pc = "user"
  BY DEF Init, Idle
<1>2. ASSUME NEW b \in Boxes
      PROVE  /\ Senders(b) = <<>> /\ Order(b) = <<>> /\ Receivers(b) = <<>>
             /\ MailBoxTable[b].numMessagesSent = 0
             /\ MailBoxTable[b].nextInLineMessageNumber = 1
             /\ b \in 0 .. DEVICES + Len(Client.opened) - 1 => MailBoxTable[b].status = CREATED
  <2>1. \/ b \in Devices /\ MailBoxTable[b] = [UnmadeBox EXCEPT !.status = CREATED, !.slotSize = DeviceSlotSize]
        \/ /\ b \in DEVICES .. DEVICES + Len(Client.opened) - 1
           /\ MailBoxTable[b] = Made(UnmadeBox, Client.opened[b - DEVICES + 1])
        \/ /\ b \notin Devices /\ b \notin DEVICES .. DEVICES + Len(Client.opened) - 1
           /\ MailBoxTable[b] = UnmadeBox
    BY DEF Init
  <2>2. /\ Senders(b) = <<>> /\ Order(b) = <<>> /\ Receivers(b) = <<>>
        /\ MailBoxTable[b].numMessagesSent = 0
        /\ MailBoxTable[b].nextInLineMessageNumber = 1
    <3>1. \A args : LET box == Made(UnmadeBox, args)
                    IN  /\ box.waitingToSend = <<>> /\ box.getCorrectOrder = <<>>
                        /\ box.waitingToReceive = <<>>
                        /\ box.numMessagesSent = 0 /\ box.nextInLineMessageNumber = 1
      BY DEF UnmadeBox, Made
    <3>2. LET box == [UnmadeBox EXCEPT !.status = CREATED, !.slotSize = DeviceSlotSize]
          IN  /\ box.waitingToSend = <<>> /\ box.getCorrectOrder = <<>>
              /\ box.waitingToReceive = <<>>
              /\ box.numMessagesSent = 0 /\ box.nextInLineMessageNumber = 1
      BY DEF UnmadeBox
    <3>3. /\ UnmadeBox.waitingToSend = <<>> /\ UnmadeBox.getCorrectOrder = <<>>
          /\ UnmadeBox.waitingToReceive = <<>>
          /\ UnmadeBox.numMessagesSent = 0 /\ UnmadeBox.nextInLineMessageNumber = 1
      BY DEF UnmadeBox
    <3> QED
      BY <2>1, <3>1, <3>2, <3>3 DEF Senders, Order, Receivers
  <2>3. MailBoxTable[b].status = CREATED \/
          (b \notin Devices /\ b \notin DEVICES .. DEVICES + Len(Client.opened) - 1)
    BY <2>1 DEF UnmadeBox, Made
  <2>4. DEVICES \in Nat /\ Len(Client.opened) \in Nat
    <3>1. ClientsOK
      BY TypeInit DEF TypeInv
    <3> QED
      BY <3>1, ClientOf, LenProperties, BoxNumbers
  <2>5. b \in 0 .. DEVICES + Len(Client.opened) - 1 =>
          b \in Devices \/ b \in DEVICES .. DEVICES + Len(Client.opened) - 1
    BY <2>4 DEF Devices
  <2> QED
    BY <2>2, <2>3, <2>5
<1>3. NoneReleased
  <2>1. ClientsOK
    BY TypeInit DEF TypeInv
  <2>2. /\ nextMid = DEVICES + Len(Client.opened) /\ nextMid <= MAXMBOX /\ nextMid \in Nat
        /\ MAXMBOX \in Nat /\ DEVICES \in Nat /\ Len(Client.opened) \in Nat
    BY <2>1, ClientOf, LenProperties, BoxNumbers DEF Init
  <2>3. ASSUME NEW b \in 0 .. nextMid-1 PROVE Open(b)
    <3>1. b \in Boxes
      BY <2>2 DEF Boxes
    <3>2. b \in 0 .. DEVICES + Len(Client.opened) - 1
      BY <2>2
    <3> QED
      BY <1>2, <3>1, <3>2 DEF Open
  <2> QED
    BY <2>2, <2>3 DEF NoneReleased
<1>4. Members(<<>>) = {} /\ Distinct(<<>>)
  BY EmptyList, EmptySeq DEF Distinct
<1>5. WaitersOK
  BY <1>1, <1>2, <1>4 DEF WaitersOK, ReleasePcs
<1>6. EarlyOK
  BY <1>1 DEF EarlyOK
<1>7. NewOK /\ ZeroOK /\ ReceiverOK
  BY <1>1, <1>2 DEF NewOK, ZeroOK, ReceiverOK
<1>8. ASSUME NEW b \in Slotted
      PROVE  NumbersOK(b) /\ TurnsOK(b) /\ LineOK(b) /\ LetGoOK(b)
  <2>1. b \in Boxes
    BY DEF Slotted
  <2>2. Unsent(b) = {} /\ InCall(b, {"recvWoke"}) = {}
    BY <1>1 DEF Unsent, InCall, PendingPcs
  <2>3. Senders(b) = <<>> /\ Len(<<>>) = 0 /\ SentTo(b) = 0 /\ NextTurn(b) = 1
    BY <1>2, <2>1, EmptySeq DEF SentTo, NextTurn
  <2>4. Cardinality({}) = 0
    BY FS_EmptySet
  <2> QED
    BY <2>2, <2>3, <2>4 DEF NumbersOK, TurnsOK, LineOK, LetGoOK
<1> QED
  BY <1>3, <1>5, <1>6, <1>7, <1>8 DEF OrderInv

\* Of numbers given out in turn the least is among the first.
LEMMA LeastNumber ==
    ASSUME NEW S, IsFiniteSet(S), S # {}, NEW N \in Nat, NEW f \in Injection(S, 1 .. N-1)
    PROVE  \E q \in S : (\A p \in S : f[q] <= f[p]) /\ Cardinality(S) + f[q] <= N
<1> DEFINE D == {f[p] : p \in S}
<1>1. f \in [S -> 1 .. N-1]
  BY DEF Injection
<1>2. D \in SUBSET Nat /\ D # {}
  BY <1>1
<1> HIDE DEF D
<1>3. PICK x \in D : \A y \in D : x <= y
  BY <1>2, LeastElement
<1>4. PICK q \in S : x = f[q]
  BY <1>3 DEF D
<1>5. \A p \in S : f[q] <= f[p]
  BY <1>3, <1>4 DEF D
<1>6. f[q] \in 1 .. N-1
  BY <1>1
<1>7. f \in Injection(S, f[q] .. N-1)
  <2>1. \A p \in S : f[p] \in f[q] .. N-1
    BY <1>1, <1>5, <1>6
  <2> QED
    BY <1>1, <2>1 DEF Injection, IsInjective
<1>8. /\ IsFiniteSet(f[q] .. N-1)
      /\ Cardinality(f[q] .. N-1) = N-1 - f[q] + 1
  <2>1. f[q] \in Int /\ N-1 \in Int /\ ~(f[q] > N-1)
    BY <1>6
  <2> QED
    BY <2>1, FS_Interval, Zenon
<1>9. Cardinality(S) <= Cardinality(f[q] .. N-1) /\ Cardinality(S) \in Nat
  BY <1>7, <1>8, FS_Injection, FS_CardinalityType
<1>10. Cardinality(S) + f[q] <= N
  BY <1>6, <1>8, <1>9
<1> QED
  BY <1>5, <1>10

\* Whose turn is next, of those who have still to put their messages.
LEMMA NextOne ==
    ASSUME TypeInv, WaitersOK, NEW b \in Slotted, NumbersOK(b), NEW p0 \in Unsent(b)
    PROVE  \E q \in Unsent(b) : /\ call[q].number <= call[p0].number
                                /\ call[q].number <= SentTo(b) + 1
                                /\ q \in All /\ call[q].number \in Nat
                                /\ call[p0].number \in Nat /\ SentTo(b) \in Nat
<1> DEFINE S == Unsent(b)
           f == [p \in S |-> call[p].number]
<1>1. MailBoxTable[b] \in MailBox
  BY BoxRecords DEF Slotted, TypeInv, ClientsOK, Before
<1>2. SentTo(b) \in Nat /\ NextTurn(b) \in Nat
  BY <1>1 DEF MailBox, SentTo, NextTurn
<1>3. IsFiniteSet(S) /\ S \subseteq All /\ S # {}
  BY Finite, FS_Subset DEF Unsent, InCall
<1>4. f \in Injection(S, 1 .. NextTurn(b)-1)
  BY DEF NumbersOK, Injection, IsInjective
<1>5. SentTo(b) + Cardinality(S) = NextTurn(b) - 1
  BY DEF NumbersOK
<1>6. \A p \in S : f[p] = call[p].number /\ f[p] \in Nat
  BY DEF NumbersOK
<1>7. Cardinality(S) \in Nat /\ p0 \in S
  BY <1>3, FS_CardinalityType
<1> HIDE DEF S, f
<1>8. PICK q \in S : (\A p \in S : f[q] <= f[p]) /\ Cardinality(S) + f[q] <= NextTurn(b)
  BY <1>2, <1>3, <1>4, LeastNumber
<1>9. f[q] <= SentTo(b) + 1
  <2>1. f[q] \in Nat
    BY <1>6, <1>8
  <2> QED
    BY <1>2, <1>5, <1>7, <1>8, <2>1
<1> QED
  BY <1>2, <1>3, <1>6, <1>7, <1>8, <1>9 DEF S

LEMMA InvSenderNotStranded ==
    ASSUME TypeInv, WaitInv, WaitersOK, EarlyOK, OrderInv
    PROVE  SenderNotStranded
<1>0. Before
  BY DEF TypeInv, ClientsOK, Before
<1> SUFFICES ASSUME NEW b \in Slotted, InCall(b, UncountedPcs) = {}
             PROVE  /\ Senders(b) # <<>> =>
                          Slots(b) # <<>> \/ \E p \in Unsent(b) : Awake(p)
                    /\ \A p \in Unsent(b) : call[p].entry \in Range(Order(b)) =>
                          \E q \in Unsent(b) : /\ call[q].number < call[p].number
                                               /\ call[q].entry \notin Range(Order(b))
  BY DEF SenderNotStranded, UncountedPcs, PendingPcs, Unsent, Senders, Slots, Order
<1>1. b \in Boxes /\ NumbersOK(b) /\ TurnsOK(b) /\ LineOK(b) /\ LetGoOK(b)
  BY DEF OrderInv, Slotted
<1>2. Range(Order(b)) = Members(Order(b))
  BY <1>0, <1>1, BoxRecords, RangeIsMembers
<1>3. \A p \in Unsent(b) : /\ call[p].box = b /\ p \in All
                           /\ call[p].pc = "sendFull" \/ call[p].pc = "sendOrder"
  BY DEF Unsent, InCall, PendingPcs
<1>4. ASSUME Senders(b) # <<>>, Slots(b) = <<>>
      PROVE  \E p \in Unsent(b) : Awake(p)
  <2>1. PICK p \in Unsent(b) : ~InLine(p, b)
    BY <1>1, <1>4 DEF LetGoOK
  <2>2. PICK q \in Unsent(b) : /\ call[q].number <= call[p].number
                               /\ call[q].number <= SentTo(b) + 1
                               /\ call[q].number \in Nat /\ call[p].number \in Nat
                               /\ SentTo(b) \in Nat
    BY <1>1, NextOne
  <2>3. ~InLine(q, b)
    BY <1>1, <2>1, <2>2 DEF LineOK
  <2>4. call[q].entry \notin Members(Order(b))
    BY <1>1, <2>2 DEF TurnsOK
  <2>5. ~Asleep(q)
    <3>1. q \in All /\ call[q].box = b
      BY <1>3
    <3>2. CASE call[q].pc = "sendFull"
      <4>1. ListOf(q) = Senders(b)
        BY <3>1, <3>2 DEF ListOf, ReceivePcs
      <4> QED
        BY <2>3, <3>1, <3>2, <4>1 DEF WaitInv, AsleepOK, InLine
    <3>3. CASE call[q].pc = "sendOrder"
      BY <2>4, <3>1, <3>3 DEF EarlyOK
    <3> QED
      BY <1>3, <3>2, <3>3
  <2>6. Awake(q)
    BY <1>3, <2>5, RangeIsMembers DEF TypeInv, QueueOK, Awake, Blocked, Asleep, Runnable
  <2> QED
    BY <2>6
<1>5. ASSUME NEW p \in Unsent(b), call[p].entry \in Range(Order(b))
      PROVE  \E q \in Unsent(b) : /\ call[q].number < call[p].number
                                  /\ call[q].entry \notin Range(Order(b))
  <2>1. call[p].number > SentTo(b) + 1
    BY <1>1, <1>2, <1>5 DEF TurnsOK
  <2>2. PICK q \in Unsent(b) : /\ call[q].number <= SentTo(b) + 1
                               /\ call[q].number \in Nat /\ call[p].number \in Nat
                               /\ SentTo(b) \in Nat
    BY <1>1, NextOne
  <2>3. call[q].entry \notin Members(Order(b))
    BY <1>1, <2>2 DEF TurnsOK
  <2> QED
    BY <1>2, <2>1, <2>2, <2>3
<1> QED
  BY <1>4, <1>5

\* When the clients use the mailboxes as channels (each has one receiver, and none is
\* released) and every message fits every buffer, then for any number of senders,
\* priorities, mailboxes and slots no wakeup is lost in MboxSend: while senders
\* wait for room there is a message left to take, or a process awake to let them
\* on, and whoever waits for its turn has somebody ahead of it who is not
\* waiting for a turn.
THEOREM SendersAreWoken ==
    ASSUME SizesFit
    PROVE  Spec => [](UsedAsChannels => SenderNotStranded)
<1>1. Init => OrderSafe
  BY OrderInit
<1>2. TypeInv /\ TypeInv' /\ WaitInv /\ UnmadeOK /\ (NoneReleased => SlotInv) /\ OrderSafe
        /\ [Next]_vars => OrderSafe'
  BY OrderStep
<1>3. TypeInv /\ WaitInv /\ OrderSafe => (UsedAsChannels => SenderNotStranded)
  BY InvSenderNotStranded DEF OrderSafe
<1> QED
  BY <1>1, <1>2, <1>3, Types, Waiting, SlotsInvariance, PTL DEF Spec
=============================================================================
