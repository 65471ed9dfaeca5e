----------------------------- MODULE MCGateway ------------------------------
(***************************************************************************)
(* An instance of Gateway for TLC.  Each behaviour is about one topic,     *)
(* chosen at the start: requests that register buckets, changes of a       *)
(* policy, rolling restarts, single ones that are audited, or a walk of    *)
(* the audit log.                                                          *)
(***************************************************************************)
EXTENDS Gateway, TLC

VARIABLE topic

InTopic ==
    /\ topic # "walk" => \A i \in DOMAIN log' : log'[i].act # "other"
    /\ topic \in {"register", "policy"} => UNCHANGED <<now, tenantLog, walk, op>>
    /\ topic = "register" =>
        /\ \A w \in Worker : pc'[w] # "policy"
        /\ \A v, w \in Worker : v = w \/ run'[v].asked + run'[w].asked <= 3
    /\ topic = "policy" =>
        /\ Cardinality({w \in Worker : run'[w].asked # 0}) <= 1
        /\ \A w \in Worker : run'[w].asked # 0 =>
               run'[w].asked = 1 /\ (run[w].asked = 0 => registry = {})
    /\ topic \in {"roll", "restart", "walk"} => UNCHANGED bucketsVars
    /\ topic = "roll" =>
        /\ UNCHANGED auditVars
        /\ Cardinality({o \in Operator : op'[o].act = "rolling_restart_rgw"}) <= 1
    /\ topic = "restart" =>
        /\ UNCHANGED <<now, tenantLog, walk>>
        /\ \A o \in Operator : op'[o].act # "rolling_restart_rgw"
        /\ Len(log') <= 1
    /\ topic = "walk" => UNCHANGED op /\ Len(log') + Len(tenantLog') <= 4
    /\ UNCHANGED topic

TopicInit ==
    /\ GatewayInit /\ topic \in {"register", "policy", "roll", "restart", "walk"}
    /\ topic \in {"roll", "restart", "walk"} => gateway = {}

TopicSpec == TopicInit /\ [][GatewayNext /\ InTopic]_<<gatewayVars, topic>> /\ RollingFairness
=============================================================================
