---------------------------- MODULE LowerPhases ----------------------------
(***************************************************************************)
(* What the upper phases expect of phases 1 and 2, and phases 4 and 5 of   *)
(* phase 3: processes that run strictly by priority, fork, join, zap and   *)
(* quit, mailboxes that pass messages in order, counting semaphores.       *)
(* Those are linked as binary libraries, so they are external here.        *)
(*                                                                         *)
(* The state is one record.  An operator is what a call of the running     *)
(* process, cur, makes of it; the call may leave another process running,  *)
(* and cur goes on behind its call when it runs again.                     *)
(***************************************************************************)
EXTENDS Integers, Sequences, FiniteSets, SequencesExt

CONSTANTS
    MAXPROC,   \* entries of a process table
    MaxPid     \* bound: no pid above it is handed out

Pids == 1 .. MaxPid
IDLE == 0      \* cur, when only the sentinel can run
NoChildren == -2

ASSUME LowerPhasesAssumption ==
    /\ MAXPROC \in Nat \ {0}
    /\ MaxPid \in Nat

Box(n) == [slots |-> n, held |-> 0, senders |-> <<>>, receivers |-> <<>>]
Semaphore(n) == [count |-> n, waiting |-> <<>>]

\* The machine on which process p, of priority prio, runs, those before it wait,
\* and pids from next on are free.  boxes and sems say what has been created.
Machine(p, prio, next, boxes, sems) ==
    [cur |-> p, ready |-> <<>>, next |-> next,
     prio |-> [q \in Pids |-> IF q = p THEN prio ELSE 0],
     life |-> [q \in Pids |-> IF q <= p THEN "live" ELSE "unborn"],
     parent |-> [q \in Pids |-> IDLE],
     code |-> [q \in Pids |-> 0],
     quits |-> [q \in Pids |-> <<>>],
     joining |-> {}, got |-> [q \in Pids |-> NoChildren],
     zappers |-> [q \in Pids |-> <<>>],
     box |-> boxes, sem |-> sems]

-----------------------------------------------------------------------------
(***************************************************************************)
(* The dispatcher.  ready is ordered by priority, and equals by arrival.   *)
(***************************************************************************)
Inserted(prio, ready, q) ==
    LET ahead == {i \in DOMAIN ready : prio[ready[i]] <= prio[q]}
    IN  InsertAt(ready, Cardinality(ahead) + 1, q)

\* The first of ready runs, if there is one.
Running(m, ready) ==
    IF ready = <<>> THEN [m EXCEPT !.cur = IDLE, !.ready = <<>>]
    ELSE [m EXCEPT !.cur = Head(ready), !.ready = Tail(ready)]

\* cur blocks, or is no more.
Yielded(m) == Running(m, m.ready)

\* Those of ready are ready: cur goes on unless a stronger one is among them.
Dispatched(m, ready) ==
    IF m.cur = IDLE THEN Running(m, ready)
    ELSE IF ready # <<>> /\ m.prio[Head(ready)] < m.prio[m.cur]
         THEN Running(m, Inserted(m.prio, ready, m.cur))
         ELSE [m EXCEPT !.ready = ready]

Unblocked(m, q) == Dispatched(m, Inserted(m.prio, m.ready, q))

\* A time slice ends and an equal of cur is ready.
HasEqual(m) ==
    m.cur # IDLE /\ m.ready # <<>> /\ m.prio[Head(m.ready)] = m.prio[m.cur]
Sliced(m) == Running(m, Inserted(m.prio, m.ready, m.cur))

-----------------------------------------------------------------------------
(***************************************************************************)
(* Processes.                                                              *)
(***************************************************************************)
\* A slot of the table is free again when its process has been joined.
InUse(m) == {q \in Pids : m.life[q] \in {"live", "quit"}}

\* The pid fork1 gives: the next one whose slot is free.
CanFork(m) == \E q \in m.next .. MaxPid : \A r \in InUse(m) : r % MAXPROC # q % MAXPROC
NextPid(m) ==
    CHOOSE q \in m.next .. MaxPid :
        /\ \A r \in InUse(m) : r % MAXPROC # q % MAXPROC
        /\ \A o \in m.next .. q-1 : \E r \in InUse(m) : r % MAXPROC = o % MAXPROC

Forked(m, prio) ==
    LET q == NextPid(m)
    IN  Unblocked([m EXCEPT !.life[q] = "live", !.prio[q] = prio,
                            !.parent[q] = m.cur, !.next = q + 1], q)

LiveChildren(m, p) == {q \in Pids : m.life[q] = "live" /\ m.parent[q] = p}

\* got is what join returns: the first child that quit, or that there is none.
Joined(m) ==
    LET p == m.cur
    IN  IF m.quits[p] # <<>>
        THEN [m EXCEPT !.got[p] = Head(m.quits[p]), !.quits[p] = Tail(@),
                       !.life[Head(m.quits[p])] = "joined"]
        ELSE IF LiveChildren(m, p) = {} THEN [m EXCEPT !.got[p] = NoChildren]
        ELSE Yielded([m EXCEPT !.joining = @ \cup {p}])

\* cur zaps q, and waits unless q has quit.
Zapped(m, q) ==
    IF m.life[q] # "live" THEN m
    ELSE Yielded([m EXCEPT !.zappers[q] = Append(@, m.cur)])

IsZapped(m) == m.zappers[m.cur] # <<>>

\* ready with those of qs, in their order, behind it.
InsertedAll(prio, ready, qs) ==
    LET upTo[i \in 0 .. Len(qs)] ==
            IF i = 0 THEN ready ELSE Inserted(prio, upTo[i-1], qs[i])
    IN  upTo[Len(qs)]

\* Zappers are woken before the parent is.  Those whose status p has not asked
\* for are forgotten with it.
Quit(m, status) ==
    LET p == m.cur
        up == m.parent[p]
        joins == up \in m.joining
        woken == IF joins THEN Append(m.zappers[p], up) ELSE m.zappers[p]
        unasked == {m.quits[p][i] : i \in DOMAIN m.quits[p]}
    IN  Running([m EXCEPT !.life = [q \in Pids |->
                              IF q \in unasked \/ (q = p /\ joins) THEN "joined"
                              ELSE IF q = p THEN "quit" ELSE @[q]],
                          !.code[p] = status,
                          !.joining = @ \ {up},
                          !.got = IF joins THEN [@ EXCEPT ![up] = p] ELSE @,
                          !.quits = IF joins \/ up = IDLE THEN @
                                    ELSE [@ EXCEPT ![up] = Append(m.quits[up], p)]],
                InsertedAll(m.prio, m.ready, woken))

-----------------------------------------------------------------------------
(***************************************************************************)
(* Mailboxes: a message is handed to the first that waits for it.          *)
(***************************************************************************)
CondSent(m, b) ==
    LET box == m.box[b]
    IN  IF box.receivers # <<>>
        THEN Unblocked([m EXCEPT !.box[b].receivers = Tail(@)], Head(box.receivers))
        ELSE IF box.held < box.slots THEN [m EXCEPT !.box[b].held = @ + 1]
        ELSE m

Sent(m, b) ==
    LET box == m.box[b]
    IN  IF box.receivers # <<>> \/ box.held < box.slots THEN CondSent(m, b)
        ELSE Yielded([m EXCEPT !.box[b].senders = Append(@, m.cur)])

Received(m, b) ==
    LET box == m.box[b]
    IN  IF box.held = 0
        THEN Yielded([m EXCEPT !.box[b].receivers = Append(@, m.cur)])
        ELSE IF box.senders = <<>> THEN [m EXCEPT !.box[b].held = @ - 1]
        ELSE Unblocked([m EXCEPT !.box[b].senders = Tail(@)], Head(box.senders))

\* Those waiting in box b.
Waiting(m, b) ==
    {m.box[b].senders[i] : i \in DOMAIN m.box[b].senders}
    \cup {m.box[b].receivers[i] : i \in DOMAIN m.box[b].receivers}

-----------------------------------------------------------------------------
(***************************************************************************)
(* Semaphores, for programs in which one process at most calls SemP on     *)
(* each: then nobody can take the permit of a process that SemV has woken, *)
(* and phase3.c counts as CountingSemaphore does.                          *)
(***************************************************************************)
SemPed(m, s) ==
    IF m.sem[s].count > 0 THEN [m EXCEPT !.sem[s].count = @ - 1]
    ELSE Yielded([m EXCEPT !.sem[s].waiting = Append(@, m.cur)])

SemVed(m, s) ==
    IF m.sem[s].waiting = <<>> THEN [m EXCEPT !.sem[s].count = @ + 1]
    ELSE Unblocked([m EXCEPT !.sem[s].waiting = Tail(@)], Head(m.sem[s].waiting))

\* The calls of the test programs.
Spawn(f, prio) == [call |-> "Spawn", f |-> f, prio |-> prio]
Wait == [call |-> "Wait", prints |-> TRUE]
WaitQuietly == [call |-> "Wait", prints |-> FALSE]
Terminate(status) == [call |-> "Terminate", status |-> status]
Exit(status) == [call |-> "Exit", status |-> status]
SemP(s) == [call |-> "SemP", sem |-> s]
SemV(s) == [call |-> "SemV", sem |-> s]
SemCreate(n) == [call |-> "SemCreate", count |-> n]
SemFree(s) == [call |-> "SemFree", sem |-> s]
=============================================================================
