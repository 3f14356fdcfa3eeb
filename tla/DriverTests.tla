---------------------------- MODULE DriverTests ----------------------------
(***************************************************************************)
(* The test programs of src/phase4/testcases that sleep and use the disks, *)
(* as programs of Drivers, and clients of our own that race.  What a test  *)
(* prints and compares is left out; a buffer is a name and the sector it   *)
(* starts at.  The terminal calls are stubs in phase 4: they do nothing.   *)
(***************************************************************************)
EXTENDS Drivers

\* recorded: the statuses that Wait returns in src/phase4/testResults, for a
\* test that prints them.
Replay(code, end, recorded) ==
    [code |-> code, ticks |-> 0, end |-> end, recorded |-> recorded, patient |-> TRUE]

Repeat(n, calls) == FlattenSeq([i \in 1 .. n |-> calls])

\* What is at the start of buffer n of a test.
Data(n) == <<n, 0>>

Test00 == Replay([start4 |-> <<Sleep(5), Terminate(0)>>], 7, <<>>)

Test01 ==
    Replay([start4 |-> Repeat(5, <<Spawn("Child", 4)>>) \o Repeat(5, <<Wait>>)
                       \o <<Terminate(0)>>,
            Child |-> <<Sleep(10), Terminate(1)>>], 12, <<>>)

Named(name, i) == name \o ToString(i)

\* start4 spawns n children, child i with the calls code(i), and waits for them.
Family(n, name, prio, code(_), last) ==
    [start4 |-> [i \in 1 .. n |-> Spawn(Named(name, i), prio)] \o Repeat(n, <<Wait>>)
                \o last]
    @@ [f \in {Named(name, i) : i \in 1 .. n} |->
            code(CHOOSE i \in 1 .. n : f = Named(name, i))]

\* Child i sleeps the shorter the later it is spawned.
Test02 ==
    LET child(i) == <<Sleep((11 - i) * 3), Terminate(9 + i)>>
    IN  Replay(Family(10, "Child", 3, child, <<Terminate(0)>>), 32,
               <<19, 18, 17, 16, 15, 14, 13, 12, 11, 10>>)

Test09 == Replay([start4 |-> <<DiskSize(0), DiskSize(1), Terminate(0)>>], 0, <<>>)

Test10 ==
    Replay([start4 |-> <<DiskSize(0), DiskSize(1), DiskWrite(Data("A"), 0, 5, 0, 1),
                         DiskRead(0, 5, 0, 1), Terminate(0)>>], 0, <<>>)

ThreeSectors(u) == <<DiskWrite(Data("sectors"), u, 4, 2, 3), DiskRead(u, 4, 2, 3)>>

Test11 == Replay([start4 |-> ThreeSectors(0) \o ThreeSectors(1) \o <<Terminate(24)>>], 0, <<>>)

Test12 == Replay([start4 |-> ThreeSectors(0) \o ThreeSectors(1) \o <<Terminate(24)>>], 0, <<>>)

\* From the last sector of a track on to the next.
Test13 ==
    Replay([start4 |->
      <<DiskWrite(Data("sectors"), 0, 4, 15, 3), DiskWrite(Data("sectors"), 1, 4, 15, 1),
        DiskWrite(<<"sectors", 1>>, 1, 5, 0, 1), DiskWrite(<<"sectors", 2>>, 1, 5, 1, 1),
        DiskRead(0, 4, 15, 3),
        DiskWrite(Data("different"), 1, 4, 15, 3), DiskRead(1, 4, 15, 3),
        Terminate(24)>>], 0, <<>>)

\* ubiq of the disk tests: the buffer is picked by the number.
Ubiq14(t) == <<DiskWrite(Data(ToString(t % 4)), 1, t % 4, t % 4, 1)>>
AllUbiq14(ts) == FlattenSeq([i \in DOMAIN ts |-> Ubiq14(ts[i])])

Test14 ==
    LET tracks == <<<<0, 3, 0, 5, 0, 5, 0>>, <<5, 4, 1, 6, 1, 6, 1>>,
                    <<9, 9, 2, 7, 2, 7, 2>>, <<2, 9, 3, 8, 3, 8, 3>>>>
        child(i) == AllUbiq14(tracks[i]) \o <<Terminate(i + 1)>>
        read == [j \in 1 .. 4 |-> DiskRead(1, j - 1, j - 1, 1)]
    IN  Replay(Family(4, "k", 4, child, read \o <<Terminate(2)>>), 0, <<>>)

\* Each of these writes is refused.
Test15 ==
    Replay([start4 |-> <<DiskWrite(Data("buffer"), 3, 1, 1, 1),
                         DiskWrite(Data("buffer"), 0, 17, 1, 1),
                         DiskWrite(Data("buffer"), 0, 1, 17, 1), Terminate(8)>>], 0, <<>>)

\* Eight children write to disk 1, on tracks of their own, ...
Test16 ==
    LET track == <<5, 3, 9, 0, 7, 2, 1, 6>>
        child(i) == <<DiskWrite(Data(ToString(track[i] % 4)), 1, track[i], 4, 1),
                      Terminate(i + 1)>>
    IN  Replay(Family(8, "k", 1, child, <<Terminate(2)>>), 0, <<2, 9, 6, 4, 5, 8, 7, 3>>)

\* ... or in sectors of their own of one track.
Test17 ==
    LET sector == <<5, 3, 9, 0, 7, 2, 1, 6>>
        child(i) == <<DiskWrite(Data(ToString(sector[i] % 4)), 1, 4, sector[i], 1),
                      Terminate(i + 1)>>
    IN  Replay(Family(8, "k", 1, child, <<Terminate(2)>>), 0, <<2, 3, 4, 5, 6, 7, 8, 9>>)

\* Three children write to either disk.
Test18 ==
    LET track == <<5, 3, 9, 4, 2, 8>>
        child(i) == <<DiskWrite(Data(ToString(track[i] % 4)), IF i <= 3 THEN 0 ELSE 1,
                                track[i], 4, 1), Terminate(i + 1)>>
    IN  Replay(Family(6, "k", 1, child, <<Terminate(2)>>), 0, <<2, 5, 4, 7, 3, 6>>)

\* Sleepers, writers and readers at once.
Test23 ==
    LET sleeper(i) == <<Sleep(6 - i), Terminate(9 + i)>>
    IN  Replay([start4 |-> [i \in 1 .. 5 |-> Spawn(Named("ChildS", i), 2)]
                    \o <<Spawn("ChildTR", 2), Spawn("ChildTW", 2),
                         Spawn("ChildDW0", 2), Spawn("ChildDW1", 2),
                         Spawn("ChildDR0", 4), Spawn("ChildDR1", 4)>>
                    \o Repeat(11, <<Wait>>) \o <<Terminate(1)>>,
                ChildTR |-> <<Terminate(0)>>, ChildTW |-> <<Terminate(1)>>,
                ChildDW0 |-> <<DiskWrite(Data("ChildDW0"), 0, 5, 0, 1), Terminate(0)>>,
                ChildDW1 |-> <<DiskWrite(Data("ChildDW1"), 1, 5, 0, 1), Terminate(0)>>,
                ChildDR0 |-> <<DiskRead(0, 5, 0, 1), Terminate(0)>>,
                ChildDR1 |-> <<DiskRead(1, 5, 0, 1), Terminate(0)>>]
               @@ [f \in {Named("ChildS", i) : i \in 1 .. 5} |->
                     sleeper(CHOOSE i \in 1 .. 5 : f = Named("ChildS", i))], 7, <<>>)

Replays ==
    [test00 |-> Test00, test01 |-> Test01, test02 |-> Test02, test09 |-> Test09,
     test10 |-> Test10, test11 |-> Test11, test12 |-> Test12, test13 |-> Test13,
     test14 |-> Test14, test15 |-> Test15, test16 |-> Test16, test17 |-> Test17,
     test18 |-> Test18, test23 |-> Test23]

-----------------------------------------------------------------------------
(***************************************************************************)
(* Clients that race: devices interrupt when they like, and equals share   *)
(* the processor in time slices.                                           *)
(***************************************************************************)
Race(code, ticks) ==
    [code |-> code, ticks |-> ticks, end |-> 2 * ticks, recorded |-> <<>>, patient |-> FALSE]

\* Requests above and below the arm come while it moves.
RaceForTheArm ==
    LET track == <<2, 0, 3>>
        child(i) == <<DiskRead(1, track[i], 0, 1), Terminate(0)>>
    IN  Race(Family(3, "k", 4, child, <<Terminate(0)>>), 0)

\* Two sectors, on two tracks, are written by one process and read by another,
\* while a third asks the other disk for its size.
RaceForTheSectors ==
    Race([start4 |-> <<Spawn("writer", 4), Spawn("reader", 4), Spawn("sizer", 4),
                       Wait, Wait, Wait, Terminate(0)>>,
          writer |-> <<DiskWrite(Data("new"), 0, 1, 15, 2), Terminate(0)>>,
          reader |-> <<DiskRead(0, 1, 15, 2), Terminate(0)>>,
          sizer |-> <<DiskSize(1), Terminate(0)>>], 0)

\* Sleepers stronger and weaker than the clock driver, two of them equals.
RaceToBed ==
    Race([start4 |-> <<Spawn("strong", 1), Spawn("weak1", 4), Spawn("weak2", 4),
                       Wait, Wait, Wait, Terminate(0)>>,
          strong |-> <<Sleep(2), Terminate(1)>>,
          weak1 |-> <<Sleep(1), Terminate(2)>>, weak2 |-> <<Sleep(-1), Sleep(1), Terminate(3)>>], 4)

Races ==
    [arm |-> RaceForTheArm, sectors |-> RaceForTheSectors, bed |-> RaceToBed]

AllTests == Replays @@ Races

\* A process is woken while another sleeps behind it in the list, and goes
\* back to sleep.
Again ==
    LET child == <<Sleep(1), Sleep(2), Terminate(0)>>
    IN  [again |-> Race([start4 |-> <<Spawn("strong", 1), Spawn("weak", 4), Wait, Wait,
                                      Terminate(0)>>,
                         strong |-> child, weak |-> child], 4)]
=============================================================================
