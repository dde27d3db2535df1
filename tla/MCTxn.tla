------------------------------- MODULE MCTxn -------------------------------
(* Small batches for Txn: the declarations cover disjoint and nested prefixes,
   the whole repository, readers, writers, removals, no-ops, an access outside
   the declared sets and an Apply that fails.                               *)
EXTENDS Txn, SequencesExt

A  == <<"a">>
AX == <<"a", "x">>
B  == <<"b">>
C  == <<"c">>

MCPaths == {AX, B, C}

Decl(reads, writes, sees, touch, drop, fails, prio) ==
    [reads |-> reads, writes |-> writes, sees |-> sees, touch |-> touch, drop |-> drop,
     fails |-> fails, prio |-> prio, batch |-> "run"]

WriteA  == Decl({}, {A}, {AX}, {AX}, {}, FALSE, 0)
WriteAX == Decl({B}, {AX}, {AX, B}, {AX}, {}, FALSE, 1)
CopyB   == Decl({A}, {B}, {AX}, {B}, {}, FALSE, 0)
DropB   == Decl({}, {B}, {}, {}, {B}, FALSE, 2)
ReadAll == Decl({<<>>}, {}, {AX, B}, {}, {}, FALSE, 1)
Stray   == Decl({B}, {A}, {B}, {AX, B}, {}, FALSE, 1)
CopyC   == Decl({B}, {C}, {B}, {C}, {}, FALSE, 0)
OnlyC   == Decl({}, {C}, {}, {C}, {}, FALSE, 1)
Broken  == Decl({<<>>}, {}, {AX}, {}, {}, TRUE, 0)

MCDecls == {WriteA, WriteAX, CopyC, DropB, ReadAll, Stray}

\* Two Run calls on one scheduler, whose claims all name something.
InRun(d, b) == [d EXCEPT !.batch = b]
NamedClaims == {InRun(OnlyC, "run"), InRun(CopyB, "run"), InRun(WriteA, "other"),
                InRun(Broken, "other")}

\* The committed transactions in the order the Ordering ranks them.
CommittedInRank ==
    SortSeq(SetToSeq({chain[k].by : k \in DOMAIN chain}), LAMBDA i, j : Before(i, j))

\* When Run has returned and no other process wrote, the ref's tree is what
\* running the committed transactions one after the other in rank order would
\* give: parallel execution, retries and failures leave no other trace.
SerialInRank ==
    (\A i \in Txns : pc[i] = "done") /\ Foreign = {} =>
        FilesAt(tip) = FoldLeft(LAMBDA f, i : Effect(i, f), NoFiles, CommittedInRank)
=============================================================================
