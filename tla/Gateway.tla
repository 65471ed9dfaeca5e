------------------------------ MODULE Gateway -------------------------------
(***************************************************************************)
(* What the ops API does at the gateways of the cluster, put together:     *)
(* the registry of buckets and their policies, the restarts, and the audit *)
(* log both write to while an operator walks its pages.                    *)
(***************************************************************************)
EXTENDS Buckets, Rolling

gatewayVars == <<bucketsVars, auditVars, op>>

GatewayInit == AuditInit /\ BucketsInit /\ RollingInit

GatewayNext ==
    \/ BucketsNext /\ UNCHANGED op
    \/ RollingNext /\ UNCHANGED bucketsVars
    \/ AuditNext /\ UNCHANGED <<bucketsVars, op>>

GatewaySpec == GatewayInit /\ [][GatewayNext]_gatewayVars /\ RollingFairness

-----------------------------------------------------------------------------
Actions  == {"other", "bucket_register", "modify_bucket_policy", "restart_rgw", "rolling_restart_rgw"}
Statuses == {"success", "failure"}

\* The values the variables take: rows of the audit log, requests and operations.
GatewayTypeOK ==
    /\ registry \subseteq Name \ BadName
    /\ gateway \subseteq Name \ BadName
    /\ jobs \subseteq registry
    /\ lost \subseteq Name
    /\ policy \in [Name -> Policy \cup {Nil}]
    /\ log \in Seq([act : Actions, about : Name \cup {Nil}, status : Statuses, at : Time])
    /\ tenantLog \in Seq(Time)
    /\ \A w \in Worker :
        /\ pc[w] \in {"idle", "name", "head", "insert", "audit", "enqueue", "policy", "done"}
        /\ pc[w] = "audit" <=> run[w].act \in Actions
        /\ pc[w] \in {"head", "insert", "audit", "enqueue", "policy"} => run[w].todo # <<>>
    /\ \A o \in Operator :
        /\ op[o].at \in {"idle", "sent", "audit", "answered"}
        /\ op[o].srv \in {"none", "list", "command", "wait", "over"}
        /\ op[o].srv \in {"command", "wait"} <=> op[o].todo # <<>>
        /\ op[o].srv = "over" <=> op[o].reply # Nil
=============================================================================
