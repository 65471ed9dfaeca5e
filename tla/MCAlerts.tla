------------------------------ MODULE MCAlerts ------------------------------
(***************************************************************************)
(* An instance of Alerts for TLC.  Each behaviour is about one topic,      *)
(* chosen at the start.  "overlap": one rule of any type but "bucket",     *)
(* which notifies, evaluated by several goroutines while it, its events    *)
(* and the accounts are edited.  "conclusive": a rule about quotas and     *)
(* one about buckets, evaluated by one goroutine at a time while use and   *)
(* standing change.                                                        *)
(***************************************************************************)
EXTENDS Alerts, TLC

CONSTANT r1

VARIABLE topic

\* r1 is of any type but "bucket", the other rules are about buckets.
Kinds == {f \in [Rule -> {"quota", "rgw", "audit", "bucket"}] :
              \A r \in Rule : f[r] = "bucket" <=> r # r1}

Started ==
    \/ /\ topic = "overlap"
       /\ load \subseteq Account
       /\ \A b \in Bucket : standing[b] = "exempt"
    \/ /\ topic = "conclusive"
       /\ kind[r1] = "quota"

InTopic ==
    /\ \/ /\ topic = "overlap"
          /\ UNCHANGED load
          /\ \A t \in Target : standing'[t] \in {standing[t], "gone"}
          /\ \A r \in Rule \ {r1} : rules'[r] = Nil
          /\ rules'[r1] \notin {Nil, Gone} => rules'[r1].notify
       \/ /\ topic = "conclusive"
          /\ Cardinality({w \in Worker : pc'[w] # "idle"}) <= 1
          /\ Cardinality({e \in EventId : events'[e] # Nil}) <= 2
          /\ \A t \in Target : standing'[t] # "gone"
          /\ \A r \in Rule : rules'[r] # rules[r] => rules[r] = Nil
    /\ UNCHANGED topic

TopicInit == Init /\ Started

TopicSpec == TopicInit /\ [][Next /\ InTopic]_<<vars, topic>>

Symmetry == Permutations(Worker) \cup Permutations(EventId)
=============================================================================
