----------------------------- MODULE UserTests -----------------------------
(***************************************************************************)
(* The test programs of src/phase3/testcases, as programs of               *)
(* UserProcesses, and families of our own whose equals share the           *)
(* processor.  What a test prints and compares is left out, and so are     *)
(* the loops that only pass time.                                          *)
(***************************************************************************)
EXTENDS UserProcesses

\* recorded: what the prints after Wait say in src/phase3/testResults.
Replay(code, recorded) == [code |-> code, recorded |-> recorded, slices |-> "never"]

Repeat(n, calls) == FlattenSeq([i \in 1 .. n |-> calls])
Ask == [call |-> "Ask"]

Test00 ==
    Replay([start3 |-> <<Spawn("Child1", 5), Wait, Terminate(8)>>,
            Child1 |-> <<Terminate(9)>>], <<<<5, 9>>>>)

Test01 ==
    Replay([start3 |-> <<Spawn("Child1", 2), Terminate(8)>>, Child1 |-> <<Exit(9)>>], <<>>)

Test02 == Replay([start3 |-> <<Exit(-3)>>], <<>>)

Test03 ==
    Replay([start3 |-> <<Spawn("Child1", 2), Terminate(8)>>,
            Child1 |-> <<Spawn("Child2", 1), Terminate(9)>>,
            Child2 |-> <<Terminate(7)>>], <<>>)

Test04 == Replay([start3 |-> Repeat(2, <<SemCreate(0)>>) \o <<Terminate(8)>>], <<>>)

Test05 == Replay([start3 |-> Repeat(MAXSEMS + 2, <<SemCreate(0)>>) \o <<Terminate(8)>>], <<>>)

Test06 ==
    Replay([start3 |-> <<SemCreate(0), Spawn("Child1", 2), Spawn("Child2", 2),
                         WaitQuietly, WaitQuietly, Terminate(8)>>,
            Child1 |-> <<SemP(0), Exit(9)>>, Child2 |-> <<SemV(0), Exit(9)>>], <<>>)

Test07 ==
    Replay([start3 |-> <<SemCreate(0)>> \o Repeat(3, <<Spawn("Child1", 2)>>)
                       \o <<Spawn("Child2", 2), Terminate(8)>>,
            Child1 |-> <<SemP(0), Exit(9)>>,
            Child2 |-> <<Ask, SemV(0), SemV(0), SemV(0), Exit(9)>>], <<>>)

\* One of all semaphores is freed and made again; which one does not matter.
Test08 ==
    Replay([start3 |-> Repeat(MAXSEMS + 1, <<SemCreate(0)>>)
                       \o <<SemFree(MAXSEMS \div 2), SemCreate(0), Terminate(8)>>], <<>>)

Test09 ==
    Replay([start3 |-> <<SemCreate(0)>> \o Repeat(3, <<Spawn("Child1", 1)>>)
                       \o <<Spawn("Child2", 2), Terminate(8)>>,
            Child1 |-> <<SemP(0), Exit(9)>>, Child2 |-> <<SemFree(0), Exit(9)>>], <<>>)

\* start3 spawns three stronger children with the same calls and waits for them.
Three(calls) ==
    Replay([start3 |-> Repeat(3, <<Spawn("Child1", 1)>>) \o Repeat(3, <<WaitQuietly>>)
                       \o <<Terminate(8)>>,
            Child1 |-> calls \o <<Exit(9)>>], <<>>)

Test10 == Three(Repeat(3, <<Ask>>))

Test11 == Three(Repeat(3, <<Ask>>))

Test12 == Three(Repeat(3, <<Ask, Ask>>))

Test13 == Three(<<Ask>>)

Test14 ==
    Replay([start3 |-> <<Spawn("Child1", 4), Wait, Terminate(0)>>,
            Child1 |-> <<Terminate(32)>>], <<<<5, 32>>>>)

Test15 ==
    Replay([start3 |-> <<Spawn("Child1", 4), Wait, Terminate(0)>>,
            Child1 |-> <<Terminate(32)>>], <<<<5, 32>>>>)

\* start3 frees the semaphore that both children wait for.
Test16 ==
    Replay([start3 |-> <<SemCreate(1), SemP(0), Spawn("Child1", 2), Spawn("Child2", 2),
                         SemFree(0), Wait, Wait, Terminate(8)>>,
            Child1 |-> <<SemP(0), SemV(0), Terminate(9)>>,
            Child2 |-> <<SemP(0), SemV(0), Terminate(9)>>], <<<<5, 1>>, <<6, 1>>>>)

Test17 ==
    Replay([start3 |-> <<Spawn("Child1", 4), Wait, Terminate(8)>>,
            Child1 |-> <<Spawn("Child2", 5), Wait, Spawn("Child3", 5), Wait, Terminate(9)>>,
            Child2 |-> <<Terminate(9)>>, Child3 |-> <<Terminate(10)>>],
           <<<<6, 9>>, <<7, 10>>, <<5, 9>>>>)

\* The three children of Child2 are zapped before they have run.
Test18 ==
    Replay([start3 |-> <<Spawn("Child1", 4), Wait, Terminate(8)>>,
            Child1 |-> <<Ask, Spawn("Child2", 2), Wait, Spawn("Child3", 5), Wait, Terminate(9)>>,
            Child2 |-> <<Ask>> \o Repeat(3, <<Spawn("Child3", 5)>>) \o <<Terminate(10)>>,
            Child3 |-> <<Terminate(11)>>],
           <<<<6, 10>>, <<10, 11>>, <<5, 9>>>>)

Test19 == Replay([start3 |-> <<Ask, Ask, Ask, Terminate(0)>>], <<>>)

Test20 ==
    Replay([start3 |-> <<SemCreate(3), SemP(0), Spawn("Child1", 2), Spawn("Child2", 3),
                         SemV(0), Wait, Wait, Terminate(8)>>,
            Child1 |-> Repeat(5, <<SemP(0)>>) \o <<Terminate(9)>>,
            Child2 |-> Repeat(5, <<SemV(0)>>) \o <<Terminate(10)>>], <<<<5, 9>>, <<6, 10>>>>)

\* start3 waits for Child1, which waits for Child2, which spawns n children
\* weaker than all of them.
Generations(n, child2, recorded) ==
    Replay([start3 |-> <<Spawn("Child1", 4), Wait, Terminate(8)>>,
            Child1 |-> <<Ask, Spawn("Child2", 2), Wait, Terminate(9)>>,
            Child2 |-> <<Ask>> \o SubSeq(<<Spawn("Child2a", 5), Spawn("Child2b", 5),
                                           Spawn("Child2c", 5)>>, 1, n) \o child2,
            Child2a |-> <<Terminate(11)>>, Child2b |-> <<Terminate(11)>>,
            Child2c |-> <<Terminate(11)>>],
           recorded \o <<<<6, 10>>, <<5, 9>>>>)

Test21 ==
    Generations(3, Repeat(3, <<Wait>>) \o <<Terminate(10)>>,
                <<<<7, 11>>, <<8, 11>>, <<9, 11>>>>)

Test22 == Generations(1, <<Terminate(10)>>, <<>>)

Test23 == Generations(2, <<Terminate(10)>>, <<>>)

Test24 == Generations(3, <<Terminate(10)>>, <<>>)

\* Child2 fills the table.
Test25 ==
    Replay([start3 |-> <<Spawn("Child1", 4), Wait, Terminate(8)>>,
            Child1 |-> <<Ask, Spawn("Child2", 2), WaitQuietly, Spawn("Child2b", 2), Wait,
                         Terminate(9)>>,
            Child2 |-> <<Ask>> \o Repeat(MAXPROC, <<Spawn("Child2a", 3)>>) \o <<Terminate(10)>>,
            Child2a |-> <<Ask, Terminate(11)>>,
            Child2b |-> <<Ask, Spawn("Child2c", 1), WaitQuietly, Terminate(50)>>,
            Child2c |-> <<Terminate(11)>>], <<<<6 + MAXPROC, 50>>, <<5, 9>>>>)

Replays ==
    [test00 |-> Test00, test01 |-> Test01, test02 |-> Test02, test03 |-> Test03,
     test04 |-> Test04, test05 |-> Test05, test06 |-> Test06, test07 |-> Test07,
     test08 |-> Test08, test09 |-> Test09, test10 |-> Test10, test11 |-> Test11,
     test12 |-> Test12, test13 |-> Test13, test14 |-> Test14, test15 |-> Test15,
     test16 |-> Test16, test17 |-> Test17, test18 |-> Test18, test19 |-> Test19,
     test20 |-> Test20, test21 |-> Test21, test22 |-> Test22, test23 |-> Test23,
     test24 |-> Test24, test25 |-> Test25]

-----------------------------------------------------------------------------
\* Equals that share the processor, each with children of its own, some weaker
\* than it, some its equals.
Share(code, slices) == [code |-> code, recorded |-> <<>>, slices |-> slices]

Cousins ==
    Share([start3 |-> <<Spawn("left", 4), Spawn("right", 4), WaitQuietly, WaitQuietly,
                        Terminate(0)>>,
           left |-> <<Spawn("weak", 5), Spawn("weak", 5), Terminate(1)>>,
           right |-> <<Spawn("equal", 4), WaitQuietly, Spawn("weak", 5), Terminate(2)>>,
           weak |-> <<Terminate(3)>>, equal |-> <<Ask, Terminate(4)>>], "outside Spawn")

\* Of n equals one passes a semaphore, and the others wait when it is freed.  The
\* one that frees it is weaker, or an equal that the woken need not run before.
Crowd(n, freer) ==
    Share([start3 |-> <<SemCreate(0)>> \o Repeat(n, <<Spawn("waiter", 4)>>)
                      \o <<Spawn("freer", freer)>> \o Repeat(n + 1, <<WaitQuietly>>) \o <<Terminate(0)>>,
           waiter |-> <<SemP(0), Ask, Terminate(1)>>,
           freer |-> <<SemV(0), Ask, SemFree(0), Terminate(2)>>], "outside Spawn")

\* Two families under start3.  The priorities of a and of its children are any: a
\* waits for them if they can end before it does.
Family(pa, pfirst, psecond) ==
    Share([start3 |-> <<Spawn("a", pa), Spawn("b", 4), WaitQuietly, WaitQuietly, Terminate(0)>>,
           a |-> <<Spawn("first", pfirst), Spawn("second", psecond)>>
                 \o (IF pfirst > pa /\ psecond > pa THEN <<>> ELSE <<WaitQuietly, WaitQuietly>>)
                 \o <<Terminate(1)>>,
           b |-> <<Spawn("first", pfirst), WaitQuietly, Exit(2)>>,
           first |-> <<Ask, Exit(3)>>, second |-> <<Terminate(4)>>], "outside Spawn")

Priorities == {3, 4} \X (3 .. 5) \X (3 .. 5)
FamilyName(ps) == "family" \o ToString(ps)
Families ==
    [name \in {FamilyName(ps) : ps \in Priorities} |->
        LET ps == CHOOSE ps \in Priorities : FamilyName(ps) = name
        IN  Family(ps[1], ps[2], ps[3])]

AllTests == Replays @@ [cousins |-> Cousins, crowd |-> Crowd(3, 5), equals |-> Crowd(2, 4)] @@ Families

\* A legal program: one child has terminated, and another has not, when their
\* parent terminates.
Siblinghood ==
    [siblings |-> Replay([start3 |-> <<Spawn("A", 4), Spawn("B", 5), WaitQuietly, Terminate(0)>>,
                          A |-> <<Terminate(1)>>, B |-> <<Terminate(2)>>], <<>>)]
=============================================================================
