----------------------------- MODULE PagerTests -----------------------------
(***************************************************************************)
(* The test programs of src/phase5/testcases, as programs of Pager, and    *)
(* families of our own in which equals share the processor.  What a test   *)
(* prints is left out; a string or a number it writes to a page is one     *)
(* value, and a comparison of the page with it is a read.                  *)
(***************************************************************************)
EXTENDS Pager

ReadAt(addr) == [call |-> "Read", addr |-> addr]
WriteAt(addr, value) == [call |-> "Write", addr |-> addr, value |-> value]
\* What the tests touch is the beginning of a page.
Read(page) == ReadAt(page * PARTS)
Write(page, value) == WriteAt(page * PARTS, value)
VmInitCall == [call |-> "VmInit"]
VmDestroyCall == [call |-> "VmDestroy"]

Times(n, calls) == FlattenSeq([i \in 1 .. n |-> calls])
InEachPage(pages, Calls(_)) == FlattenSeq([i \in 1 .. pages |-> Calls(i-1)])

\* start5 of every test: n children, which say by their SemV how far they are.
Start5(n, creates, child) ==
    LET ups == SelectSeq(child, LAMBDA c : c.call = "SemV")
    IN  <<VmInitCall>> \o creates \o Times(n, <<Spawn("Child", 5)>>)
        \o Times(n, [i \in DOMAIN ups |-> SemP(ups[i].sem)]) \o Times(n, <<Wait>>)
        \o <<VmDestroyCall, Terminate(1)>>

\* The semaphores: phase 4's, and the test's own.
Semaphore0 == 1
Sem == 2

\* stats: the faults, new pages, pages in and pages out that src/phase5/testResults
\* record.
Replay(pages, frames, n, child, stats) ==
    [pages |-> pages, frames |-> frames, pagers |-> 1, slices |-> 0,
     slowDisk |-> TRUE, remaps |-> BOOLEAN, stats |-> stats,
     code |-> [start5 |-> Start5(n, <<SemCreate(0)>>, child), Child |-> child]]

Simple1 ==
    Replay(1, 1, 1, <<Write(0, 1), Read(0), SemV(Sem), Read(0), Terminate(117)>>, <<1, 1, 0, 0>>)

Simple2 == Replay(1, 1, 1, <<Read(0), SemV(Sem), Terminate(119)>>, <<1, 1, 0, 0>>)

Simple3 ==
    Replay(3, 3, 1, InEachPage(3, LAMBDA p : <<Write(p, 1)>>) \o <<SemV(Sem), Terminate(121)>>,
           <<3, 3, 0, 0>>)

Simple4 ==
    Replay(7, 6, 1, Times(10, InEachPage(7, LAMBDA p : <<Read(p)>>))
                    \o <<SemV(Sem), Terminate(123)>>,
           <<70, 7, 0, 0>>)

\* What is written and read again at once, n times over in each page.
Rewrites(n, pages) ==
    FlattenSeq([i \in 1 .. n |-> InEachPage(pages, LAMBDA p : <<Write(p, i), Read(p)>>)])

\* Two tests make no semaphore: what they use is 0, the value of a variable that
\* nobody assigns.
Uncreated(replay) == [replay EXCEPT !.code.start5 = Start5(1, <<>>, replay.code.Child)]

Simple5 ==
    Uncreated(Replay(2, 1, 1, Rewrites(2, 2) \o <<SemV(Semaphore0), Terminate(127)>>,
                     <<4, 2, 2, 3>>))

Simple6 ==
    Uncreated(Replay(7, 6, 1, Rewrites(10, 7) \o <<SemV(Semaphore0), Terminate(127)>>,
                     <<70, 7, 63, 64>>))

\* Its statistics are left out: the file has another schedule than this code.
Simple7 ==
    Replay(1, 2, 3, <<Write(0, 1), Read(0), SemV(Sem), Read(0), Terminate(137)>>, <<>>)

Simple8 ==
    Replay(4, 3, 2, Times(10, InEachPage(4, LAMBDA p : <<Read(p)>>))
                    \o <<SemV(Sem), Terminate(135)>>,
           <<80, 8, 0, 0>>)

Simple9 ==
    Replay(2, 2, 2, <<Write(0, 1), Read(0), SemV(Sem), Read(0), Terminate(137)>>, <<2, 2, 0, 0>>)

\* The recorded reads need an MMU that replaces a mapping.
Simple10 ==
    [Replay(2, 2, 2, InEachPage(2, LAMBDA p : <<Write(p, p), Read(p), SemV(Sem), Read(p)>>)
                     \o <<Terminate(137)>>,
            <<4, 4, 0, 2>>)
     EXCEPT !.remaps = {TRUE}]

\* Two children of our own, with time slices between them.
Shared(pages, frames, pagers, ends, slow, child1, child2) ==
    [pages |-> pages, frames |-> frames, pagers |-> pagers, slices |-> ends,
     slowDisk |-> slow, remaps |-> BOOLEAN, stats |-> <<>>,
     code |-> [start5 |-> <<VmInitCall, Spawn("Child1", 5), Spawn("Child2", 5), Wait, Wait>>
                          \o (IF pagers = 1 THEN <<VmDestroyCall, Terminate(1)>> ELSE <<>>),
               Child1 |-> child1 \o <<Terminate(1)>>, Child2 |-> child2 \o <<Terminate(2)>>]]

\* Readers, served by two pagers.
Readers ==
    Shared(2, 2, 2, 3, FALSE, <<Read(0), Read(1)>>, <<Read(0), Read(1)>>)

\* Writers of different pages, whose pages go out and in again.
Writers ==
    Shared(4, 2, 1, 3, TRUE, <<Write(0, 1), Write(1, 1), Read(0), Read(1)>>,
                             <<Write(2, 1), Write(3, 1), Read(2)>>)

\* Two pagers, while pages only go out.
Leavers ==
    Shared(4, 2, 2, 2, FALSE, <<Write(0, 1), Write(1, 2)>>, <<Write(2, 1), Write(3, 2)>>)

\* A page is read back from the disk into a frame that need not be written first.
ReadBack ==
    Replay(3, 2, 1, <<Write(0, 1), Read(1), Read(2), Read(0), SemV(Sem), Terminate(1)>>, <<>>)

\* Both halves of a page, which goes out and is read back from its rest.
Halves ==
    Replay(2, 1, 1, <<Write(0, 1), WriteAt(1, 2), Write(1, 3), ReadAt(1), Read(0), WriteAt(0, 4),
                      ReadAt(3), ReadAt(1), Read(0), SemV(Sem), Terminate(1)>>, <<>>)

\* Two children with pages of the same numbers, and frames enough for all but one.
SamePages ==
    [Shared(2, 3, 1, 3, TRUE, <<Write(0, 1), Write(1, 1), Read(0), Read(1)>>,
                              <<Write(0, 1), Write(1, 1), Read(0)>>)
     EXCEPT !.remaps = {TRUE}]

\* The same with a frame less.
OthersPage == [SamePages EXCEPT !.frames = 2]

\* A process goes on writing to a page that another one's fault takes from it.
LostWrite ==
    Shared(3, 2, 1, 1, FALSE, <<Write(0, 1), Write(0, 2), Read(0)>>, <<Write(1, 1), Write(2, 1)>>)

\* The first that is touched of a page is its rest.
RestFirst ==
    Replay(2, 2, 1, <<WriteAt(1, 1), ReadAt(1), SemV(Sem), Terminate(1)>>, <<>>)

AllTests ==
    [simple1 |-> Simple1, simple2 |-> Simple2, simple3 |-> Simple3, simple4 |-> Simple4,
     simple5 |-> Simple5, simple6 |-> Simple6, simple7 |-> Simple7, simple8 |-> Simple8,
     simple9 |-> Simple9, simple10 |-> Simple10,
     simple10Sliced |-> [Simple10 EXCEPT !.slices = 1, !.stats = <<>>],
     readers |-> Readers, writers |-> Writers, leavers |-> Leavers, halves |-> Halves,
     samePages |-> SamePages]
Back == [readBack |-> ReadBack]
Lost == [lostWrite |-> LostWrite]
Unaligned == [restFirst |-> RestFirst]
Others == [othersPage |-> OthersPage]
=============================================================================
