---------------------------- MODULE MCBuildPrepare ----------------------------
(***************************************************************************)
(* Finite values for BuildPrepare: two sources, one of them with an        *)
(* option the other lacks, and two repositories, a package of its own and  *)
(* a family, with PKGBUILDs in the shapes the edits tell apart.            *)
(***************************************************************************)
EXTENDS BuildPrepare, TLC

CONSTANTS p1, p2

MCPool == {p1, p2}
PoolSymmetry == Permutations(MCPool)
MCOffered == [s \in Sources |-> IF s = "aur" THEN {"lto"} ELSE {}]

L(k) == Line(k, NoEntry)
Ver == L("stmt")     \* pkgver=, above everything else
PkgFile(lines) == [head |-> <<Ver>> \o lines, prep |-> TRUE, base |-> <<"linux">>]

\* A multi-line array with a patch, and a foreign array between it and prepare().
ForeignBelow == PkgFile(<<Line("open", "tar"), Line("item", "up.patch"), L("close"),
                          Line("fopen", "sum1"), Line("last", "sum2"), L("blank")>>)
\* Two arrays directly above prepare(), other lines above them.
StackedBlocks == PkgFile(<<L("fopen"), L("close"), L("code"), L("open"), Line("last", "up.patch"),
                           Line("one", "tar"), L("blank")>>)
Unprepared == [PkgFile(<<Line("one", "tar")>>) EXCEPT !.prep = FALSE, !.base = NoBase]

MCLayouts == {ForeignBelow, StackedBlocks, Unprepared}
MCUpstreams == {[first |-> ForeignBelow, second |-> NoFile],
                [first |-> Unprepared, second |-> StackedBlocks]}
MCPages == {[name |-> <<PH>>, on |-> {}], [name |-> <<PH, "-custom">>, on |-> {"lto"}]}
===============================================================================
