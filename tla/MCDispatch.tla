----------------------------- MODULE MCDispatch -----------------------------
(***************************************************************************)
(* An instance of Dispatch for TLC.  Each behaviour is about one topic,    *)
(* chosen at the start: the edits of one of the three tables by goroutines *)
(* that overlap, or the dispatch of events while one operator edits the    *)
(* rule and its channels.                                                  *)
(***************************************************************************)
EXTENDS Dispatch, TLC

VARIABLE topic

Table == [lifecycle |-> LifecycleRule, rule |-> AlertRule, channel |-> Channel]

\* Configs: the key of each type, what is there but no string, and blanks.
Cfg(k, v) == [[x \in {"recipients", "url", "webhook_url"} |-> "none"] EXCEPT ![k] = v]
Configs   == {Cfg("recipients", "text"), Cfg("url", "text"), Cfg("url", "other"), Cfg("url", "blank")}

Started == topic \in DOMAIN Table \cup {"dispatch"}

\* In the topic "dispatch", one request at a time edits the tables.
InTopic ==
    /\ topic \in DOMAIN Table =>
        /\ \A e \in Evaluator : step'[e] = "idle"
        /\ \A id \in Id : rows'[id] # Nil => id \in Table[topic]
        /\ Cardinality({ch \in Channel : rows'[ch] # Nil}) <= 1
    /\ topic = "dispatch" =>
        /\ \A id \in LifecycleRule : rows'[id] = Nil
        /\ Cardinality({w \in Worker : pc'[w] # "idle"}) <= 1
        /\ \A id \in AlertRule : Exists(id)' => rows'[id].enabled
    /\ UNCHANGED topic

TopicInit == DispatchInit /\ Started

TopicSpec == TopicInit /\ [][DispatchNext /\ InTopic]_<<vars, dispatch, topic>>

Symmetry == Permutations(Worker) \cup Permutations(EventId) \cup Permutations(Channel)
=============================================================================
