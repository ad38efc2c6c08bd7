-------------------------- MODULE MCLearningRuntime --------------------------
(***************************************************************************)
(* Instances of LearningRuntime: one item, the candidate that creates it,  *)
(* a revision of it and another patch of it.                               *)
(***************************************************************************)
EXTENDS LearningRuntime

CONSTANTS p1, p2, new, fix, alt

MCTarget == [c \in Candidate |-> new]
MCBase == [c \in Candidate |-> "knew"]
MCContent == [c \in Candidate |-> IF c = new THEN "knew" ELSE
                                  IF c = fix THEN "kfix" ELSE "kalt"]
MCKnowledge == {"knew", "kfix", "kalt"}

\* The reviewer's authority has been given the next key, the other has not.
MCActiveKey == [p \in Proc |-> IF p = p2 THEN "v2" ELSE "v1"]
MCGranted == {<<fix, "approved">>}

\* Only the services name a reviewer.
MCOffered == [passed : BOOLEAN, reviewed : {FALSE}]

\* The store as it was used before checkpoints: new is approved and active.
Empty == [ledger |-> <<>>, versions |-> <<>>]
Reviewed == [passed |-> TRUE, reviewed |-> TRUE]
Result(dbs) == CHOOSE db \in dbs : TRUE
MCInitial ==
    Result(Promote(Result(Promote(Result(Stage(Empty, new)),
                                  new, "validated", Reviewed)),
                   new, "approved", Reviewed))

================================================================================
