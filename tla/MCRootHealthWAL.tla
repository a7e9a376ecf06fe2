---------------------------- MODULE MCRootHealthWAL ----------------------------
(* Small instances of RootHealthWAL: the targets are the primary and mirror     *)
(* copies of a volume record, one bitmap or data sector and two restart pages.  *)
EXTENDS RootHealthWAL, TLC

CONSTANTS prim, mirr,   \* flag sector of the $Volume record and of its mirror
          sect,         \* a bitmap sector
          rec,          \* an MFT or index record, several sectors long
          rst1, rst2    \* the two $LogFile restart pages

MCMirror == prim :> mirr
NoMirror == <<>>

O(k, t, c) == [kind |-> k, target |-> t, new |-> c]

(* dirty flag set, an index rewrite, one bitmap correction *)
MetadataPlan == [tx |-> "metadata_repair",
                 ops |-> <<O("dirty_set", prim, "b"), O("dirty_set", mirr, "b"),
                           O("index_root", rec, "b"), O("bitmap", sect, "b")>>]
(* an index rewrite, then two corrections of one bitmap sector *)
ChainPlan == [tx |-> "metadata_repair",
              ops |-> <<O("index_root", rec, "b"),
                        O("bitmap", sect, "b"), O("bitmap", sect, "c")>>]
(* the separate transaction that clears the dirty flag *)
DirtyClearPlan == [tx |-> "dirty_clear",
                   ops |-> <<O("dirty_clear", prim, "a"), O("dirty_clear", mirr, "a")>>]
(* native log replay *)
NativePlan == [tx |-> "metadata_repair",
               ops |-> <<O("redo", rec, "b"), O("restart", rst1, "b"),
                         O("restart", rst2, "b")>>]
(* the log needs only new restart pages *)
RestartOnlyPlan == [tx |-> "metadata_repair",
                    ops |-> <<O("restart", rst1, "b"), O("restart", rst2, "b")>>]
(* two bytes of one index bitmap sector *)
OverlapPlan == [tx |-> "metadata_repair",
                ops |-> <<O("derived", sect, "b"), O("derived", sect, "c")>>]

(* dirty or clean volumes with a good mirror, damaged or not elsewhere *)
Volumes1 == {v \in Volumes :
                /\ {prim, mirr} \subseteq Targets => v[prim] = v[mirr]
                /\ \A t \in Targets \ {rst1, rst2} : v[t] # "c"
                /\ \A t \in Targets \ {prim, mirr, rec} : v[t] = "a"}

PlansDisjoint == {MetadataPlan, DirtyClearPlan, NativePlan}
PlansRestartOnly == {RestartOnlyPlan}
PlansOverlap == {OverlapPlan}
PlansChain == {ChainPlan}
PlansAll == {MetadataPlan, DirtyClearPlan, NativePlan, RestartOnlyPlan,
             OverlapPlan, ChainPlan}
===============================================================================
