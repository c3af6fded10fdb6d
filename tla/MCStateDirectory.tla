-------------------------- MODULE MCStateDirectory --------------------------
(* Instances of StateDirectory for TLC.                                    *)
EXTENDS StateDirectory

CONSTANTS r1, c1, v1, v2

Replayers == Permutations(Replayer)

(* What the processes append.                                              *)
Submissions == {<<"REQ_SUBMITTED", "none", 0>>, <<"STORY_CREATED", "s", {}>>}

(* One of the processes never runs: every three of them are checked.       *)
ThreeRun == Cardinality({p \in Process : phase[p] # "new" \/ handle[p] # 0}) <= 3
=============================================================================
