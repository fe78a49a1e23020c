------------------------------- MODULE MCFs -------------------------------
(* The tests, each after init. *)
EXTENDS Fs

T == INSTANCE FsTests

After(steps) == T!init \o steps

MCImages == <<"echo">>

Key(c) == <<c, 0>>

MCJobs ==
    [truncate1 |-> After(T!truncate1),
     truncate2 |-> After(T!truncate2),
     truncate3 |-> After(T!truncate3(1, 1)),
     writetest |-> After(T!writetest(2, 3)),
     writebig |-> After(T!writebig(MAXFILE, BSIZE)),
     bigwrite |-> After(T!bigwrite(<<3, 7>>)),
     bigfile |-> After(T!bigfile(3, 4)),
     sharedfd |-> After(T!sharedfd(2, 2)),
     fourfiles |-> After(T!fourfiles(2, 1, 3)),
     createtest |-> After(T!createtest(4)),
     opentest |-> After(T!opentest),
     unlinkread |-> After(T!unlinkread),
     linktest |-> After(T!linktest),
     createdelete |-> After(T!createdelete(1, 4)),
     concreate |-> After(T!concreate(2, 1)),
     linkunlink |-> After(T!linkunlink(<<0, 1, 2>>, <<2, 0, 1>>)),
     exectest |-> After(T!exectest),
     iputtest |-> After(T!iputtest),
     exitiputtest |-> After(T!exitiputtest),
     openiputtest |-> After(T!openiputtest),
     dirtest |-> After(T!dirtest),
     rmdot |-> After(T!rmdot),
     dirfile |-> After(T!dirfile),
     fourteen |-> After(T!fourteen),
     iref |-> After(T!iref(NINODE + 1)),
     bigdir |-> After(T!bigdir(6)),
     subdir |-> After(T!subdir),
     diskfull |-> After(T!diskfull(<<4, 2>>, 2, BSIZE)),
     mkdirfull |-> After(T!mkdirfull(<<4, 1>>, 2, BSIZE)),
     outofinodes |-> After(T!outofinodes(8)),
     badwrite |-> After(T!badwrite(10)),
     manywrites |-> After(T!manywrites(1, 2, 2)),
     grind1 |-> After(T!iter(<<5>>, <<21>>)),
     grind2 |-> After(T!iter(<<1, 11>>, <<2, 12>>)),
     grind3 |-> After(T!iter(<<1, 2, 3, 4>>, <<>>)),
     grind4 |-> After(T!iter(<<6, 7, 8, 9>>, <<>>)),
     grind5 |-> After(T!iter(<<10>>, <<>>)),
     stressfs |-> After(T!stressfs(1, 3)),
     devices |-> After(T!devices(NDEV)),
     ls |-> After(T!ls(BSIZE)),
     cat |-> After(T!cat(<< <<Key("b"), Key("\n")>>, <<Key("c"), Key("\n")>>, <<Key("d"), Key("\n")>> >>)),
     gets |-> After(T!Read(0, 2, {2}) \o T!Exit),
     echo |-> After(T!echo(<< <<"h", 1>> >>, << <<"h", 2>>, <<"o", 2>> >>)),
     type |-> After(T!WriteAll(1, << <<"h", 1>>, <<"i", 1>>, <<"o", 1>> >>) \o T!Exit)]

MCKeys ==
    [cat |-> <<Key("a"), Key("^H"), Key("b"), Key("\r"), Prompt, Key("c"), Key("\r"), Prompt,
              Key("d"), Key("\r"), Prompt, Key("^D")>>,
     gets |-> <<Key("a"), Key("^U"), Key("b"), Key("c"), Key("d"), Key("e")>>,
     type |-> <<Key("a")>>]

(* Two processes of linkunlink, each of which creates and removes a file. *)
LeakJobs == [linkunlink |-> After(T!linkunlink(<<0, 2>>, <<0, 2>>))]
===========================================================================
