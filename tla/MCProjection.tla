---------------------------- MODULE MCProjection ----------------------------
(***************************************************************************)
(* An instance of Projection for TLC.  Each behaviour is about one topic,  *)
(* chosen at the start: the columns of the accounts (none has a limit and  *)
(* no grants are written), or the grants of accounts that all have the     *)
(* same columns.                                                           *)
(***************************************************************************)
EXTENDS Projection, TLC

VARIABLE topic  \* Nil for the accounts, <<cfg, hash>> for the grants

AccountOps    == {"create", "update", "reset", "remove"}
GrantRequests == {"create", "remove", "replace", "revoke"}

Asked  == {req'[w].op : w \in Worker} \ {Nil}
Stored == {rows'[i] : i \in Id} \ {Nil}

InTopic ==
    /\ IF topic = Nil
       THEN /\ Asked \subseteq AccountOps
            /\ \A r \in Stored : r.limit = Nil
            /\ \A w \in Worker : req'[w].limit = Nil
       ELSE /\ Asked \subseteq GrantRequests
            /\ \A r \in Stored : <<r.cfg, r.hash>> = topic
    /\ UNCHANGED topic

TopicInit == Init /\ topic \in {Nil} \cup (Config \X Hash)

TopicSpec == TopicInit /\ [][Next /\ InTopic]_<<vars, topic>>

Symmetry == Permutations(Worker) \cup Permutations(Config) \cup Permutations(Hash)
            \cup Permutations(Bucket)
=============================================================================
