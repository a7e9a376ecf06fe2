---------------------------- MODULE MCAngelRecovery ----------------------------
(* Small instances of AngelRecovery: the build software, the Python runtime, the *)
(* rest of the software directory above it, which no boot check looks into, and  *)
(* the top-level boot directory, which a reinstall does not verify.              *)
EXTENDS AngelRecovery, TLC

CONSTANTS python, system, build, bootdir

MCItems == [python |-> <<{python}>>,
            build  |-> <<{build}>>,
            reset  |-> <<{bootdir}, {build}, {python, system}>>]

Symmetry == Permutations(BootIds)
===============================================================================
