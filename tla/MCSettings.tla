----------------------------- MODULE MCSettings -----------------------------
(***************************************************************************)
(* An instance of Settings for TLC: one kind of cleanup and the endpoint.  *)
(* Each behaviour is about one of the two topics, chosen at the start:     *)
(* patches name its keys only, and the regions are left alone when the     *)
(* topic is the cleanup.  Requests write, read and push all keys all the   *)
(* same.                                                                   *)
(***************************************************************************)
EXTENDS Settings, TLC

VARIABLE topic

Trash == {<<"trash_retention_days", "trash_cleanup_enabled">>}
Endpoints == {"s3_endpoint"}
Written   == <<"s3_endpoint", "trash_retention_days", "trash_cleanup_enabled">>

\* The defaults of the code; the environment gives no endpoint.
Defaults == ("trash_retention_days" :> "0") @@ ("trash_cleanup_enabled" :> "false")
            @@ ("s3_endpoint" :> Nil)

InTopic ==
    /\ \A w \in Worker : DOMAIN req'[w].patch \subseteq
           IF topic = "cleanup" THEN DaysKeys \cup OnKeys ELSE Plain
    /\ topic = "cleanup" => UNCHANGED region
    /\ UNCHANGED topic

TopicInit == Init /\ topic \in {"cleanup", "endpoint"}

TopicSpec == TopicInit /\ [][Next /\ InTopic]_<<vars, topic>>

Symmetry == Permutations(Worker)
=============================================================================
