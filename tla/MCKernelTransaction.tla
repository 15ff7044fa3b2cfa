------------------------- MODULE MCKernelTransaction -------------------------
(* Finite instances of KernelTransaction for TLC. *)
EXTENDS KernelTransaction

CONSTANTS k1, k2

MCKernels == {k1, k2}
MCCurated == {k2}

\* k1 is offered by an enabled repository and k2 by none that is enabled; either
\* may be installed (k2 then from a file), k1 possibly in an older version or
\* from another repository than the one that lists it.
StockDisks == {d \in Disk : /\ d.repos = {k1}
                            /\ d.installed \in {{}, {k1}, {k2}}
                            /\ d.outdated \subseteq d.installed \cap {k1}
                            /\ d.foreign \subseteq d.outdated}

\* The same without the older version and the other repository.
PlainDisks == {d \in StockDisks : d.outdated = {}}
=============================================================================
