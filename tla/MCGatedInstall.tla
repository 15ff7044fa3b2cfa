----------------------------- MODULE MCGatedInstall -----------------------------
(***************************************************************************)
(* Instances of GatedInstall for TLC.                                      *)
(***************************************************************************)
EXTENDS GatedInstall, TLC

Line(lead, name, tail) == [lead |-> lead, name |-> name, tail |-> tail]

\* A section commented out with one of another name, one pacman reads, and one
\* that only the script's grep reads.
Off == <<Line("comment", "repo", "none"), Line("space", "other", "none")>>
On == <<Header>>
Mistaken == <<Line("none", "repo", "bracket")>>

Box(c, k, n, l) == [conf |-> c, key |-> k, known |-> n, longIds |-> l]

\* A trusted key is what the first run of the script leaves.
MCMachines == {Box(Off, "absent", TRUE, FALSE),
               Box(Off, "present", FALSE, TRUE),
               Box(On, "present", FALSE, FALSE),
               Box(Mistaken, "bad", TRUE, FALSE)}
EnabledMachines == {Box(On, "trusted", TRUE, FALSE)}

\* A build of the repository's kernel without its headers, and a renamed kernel
\* with its own beside another.
Built(kernels, headers) == [kernels |-> kernels, headers |-> headers, version |-> MaxVersion]
MCDirs == {Built(<<"linux">>, {}), Built(<<"custom", "linux">>, {"custom"})}

MCGpus == <<"UNKNOWN", "TURING_PLUS">>

ScriptSymmetry == Permutations(Scripts)
=============================================================================
