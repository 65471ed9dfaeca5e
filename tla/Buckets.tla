------------------------------ MODULE Buckets -------------------------------
(***************************************************************************)
(* The registry of buckets (internal/buckets).  A request registers one    *)
(* bucket, or up to fifty one after the other, each looked up at the       *)
(* gateway and inserted in a step of its own, with an audit entry and a    *)
(* job at the tenant API after it; a failure of one does not stop the      *)
(* next.  Policies of buckets are kept by the gateway alone.  A request    *)
(* whose client is gone has its context cancelled: every call it still     *)
(* makes fails, the audit entry too.  No bucket is ever removed from the   *)
(* registry.  Which storage region a bucket is given is left out: a region *)
(* that is refused is one more way for a request to fail.                  *)
(***************************************************************************)
EXTENDS Audit

CONSTANTS
    Worker,    \* goroutines serving requests at the same time
    Name,      \* names requests give
    BadName,   \* those validateName refuses
    Policy,    \* policies
    MaxBatch,  \* names in a request (50)
    MaxChanges \* bound: changes of a bucket's policy

ASSUME BucketsAssumption ==
    /\ BadName \subseteq Name
    /\ MaxBatch \in Nat \ {0}
    /\ MaxChanges \in Nat
    /\ Nil \notin Name /\ Nil \notin Policy
    /\ Nil \notin {"other", "bucket_register", "modify_bucket_policy"}
    /\ IsFiniteSet(Worker)

VARIABLES
    registry,  \* platform_buckets: the names in it
    gateway,   \* buckets there are at the gateway
    policy,    \* their policies
    jobs,      \* inventory jobs the tenant API was given, by bucket
    credit,    \* history: how many times a name was reported imported
    changes,   \* history: how many times the gateway changed a policy
    lost,      \* history: names an entry of which may be lost: the client left, or the database failed
    pc, run    \* where each goroutine is, and its local variables

registryVars == <<registry, gateway, policy, jobs, credit, changes, lost>>
bucketsVars  == <<registryVars, pc, run>>
allButLog    == <<registryVars, auditVars>>

(***************************************************************************)
(* Local variables of a request: the names still to register (the first is *)
(* being registered), how many it was given, whether its client has left,  *)
(* and what it will write to the audit log.                                *)
(***************************************************************************)
Blank == [todo |-> <<>>, asked |-> 0, left |-> FALSE, act |-> Nil, status |-> Nil]

GoOn(w, next, r) ==
    /\ pc' = [pc EXCEPT ![w] = next]
    /\ run' = [run EXCEPT ![w] = r]

name(w) == Head(run[w].todo)

\* importBatch goes on with the next name, whatever became of this one.
NextName(r) == [r EXCEPT !.todo = Tail(@)]

Fail(w) == GoOn(w, "name", NextName(run[w]))

-----------------------------------------------------------------------------
(***************************************************************************)
(* Registering                                                             *)
(***************************************************************************)
\* create, with one name, and importBatch; a name may be there twice.
Import(w) ==
    /\ pc[w] = "idle"
    /\ \E n \in 1..MaxBatch : \E names \in [1..n -> Name] :
           GoOn(w, "name", [Blank EXCEPT !.todo = names, !.asked = n])
    /\ UNCHANGED allButLog

\* validateName, checkRegion.
CheckName(w) ==
    /\ pc[w] = "name"
    /\ run[w].todo # <<>>
    /\ \/ name(w) \notin BadName /\ GoOn(w, "head", run[w])
       \/ Fail(w)  \* the name or the region is refused, or the database failed
    /\ UNCHANGED allButLog

\* What HeadBucket says of the name.
Found(w) == ~run[w].left /\ name(w) \in gateway

\* liveS3 reads the settings; HeadBucket.  Whatever the gateway said is audited,
\* unless it is not configured.
HeadBucket(w) ==
    /\ pc[w] = "head"
    /\ \/ Found(w) /\ GoOn(w, "insert", run[w])
       \/ GoOn(w, "audit", [run[w] EXCEPT !.act = "bucket_register", !.status = "failure"])
       \/ Fail(w)
    /\ UNCHANGED allButLog

\* Mutant of Conflicts: ON CONFLICT DO NOTHING.
ConflictsNever(n) == FALSE

\* The unique index on bucket_name.
Conflicts(n) == n \in registry

\* INSERT ... RETURNING id, and GetByID.  An error other than a conflict is not
\* audited, and the row may be there.
InsertBucket(w) ==
    LET n == name(w)
        r == [run[w] EXCEPT !.act = "bucket_register"] IN
    /\ pc[w] = "insert"
    /\ \/ /\ ~run[w].left
          /\ Conflicts(n)
          /\ GoOn(w, "audit", [r EXCEPT !.status = "failure"])
          /\ UNCHANGED <<registry, lost>>
       \/ /\ ~run[w].left
          /\ ~Conflicts(n)
          /\ registry' = registry \cup {n}
          /\ \/ GoOn(w, "audit", [r EXCEPT !.status = "success"]) /\ UNCHANGED lost
             \/ Fail(w) /\ lost' = lost \cup {n}
       \/ /\ Fail(w)
          /\ UNCHANGED <<registry, lost>>
    /\ UNCHANGED <<gateway, policy, jobs, credit, changes, auditVars>>

\* Store.Insert of the audit log; its error is dropped.
AuditRegister(w) ==
    LET r  == [run[w] EXCEPT !.act = Nil, !.status = Nil]
        ok == run[w].status = "success"
    IN  /\ pc[w] = "audit"
        /\ run[w].act = "bucket_register"
        /\ \/ /\ ~run[w].left
              /\ Written(run[w].act, name(w), run[w].status)
              /\ UNCHANGED lost
           \/ /\ lost' = lost \cup {name(w)}
              /\ UNCHANGED auditVars
        /\ IF ok THEN GoOn(w, "enqueue", r) ELSE GoOn(w, "name", NextName(r))
        /\ UNCHANGED <<registry, gateway, policy, jobs, credit, changes>>

\* EnqueueInventory; its error is only logged.
Enqueue(w) ==
    /\ pc[w] = "enqueue"
    /\ \/ ~run[w].left /\ jobs' = jobs \cup {name(w)}
       \/ UNCHANGED jobs
    /\ credit' = [credit EXCEPT ![name(w)] = @ + 1]
    /\ GoOn(w, "name", NextName(run[w]))
    /\ UNCHANGED <<registry, gateway, policy, changes, lost, auditVars>>

\* The answer.
Answer(w) ==
    /\ pc[w] \in {"name", "done"}
    /\ run[w].todo = <<>>
    /\ GoOn(w, "idle", Blank)
    /\ UNCHANGED allButLog

-----------------------------------------------------------------------------
(***************************************************************************)
(* Inventory and policies                                                  *)
(***************************************************************************)
\* GetByID, and EnqueueInventory.  Every row's status is "active".
Inventory(w) ==
    /\ pc[w] = "idle"
    /\ \E n \in registry : jobs' = jobs \cup {n}
    /\ UNCHANGED <<registry, gateway, policy, credit, changes, lost, auditVars, pc, run>>

\* loadBucketS3.
LoadBucket(w) ==
    /\ pc[w] = "idle"
    /\ \E n \in registry : GoOn(w, "policy", [Blank EXCEPT !.todo = <<n>>])
    /\ UNCHANGED allButLog

\* Mutant of AfterPolicy: a change that failed is not audited.
AfterPolicyQuietly(w, answered) ==
    IF answered
    THEN GoOn(w, "audit", [run[w] EXCEPT !.act = "modify_bucket_policy", !.status = "success"])
    ELSE GoOn(w, "done", [run[w] EXCEPT !.todo = <<>>])

\* What becomes of a request whose call has returned: either way it is audited.
AfterPolicy(w, answered) ==
    GoOn(w, "audit", [run[w] EXCEPT !.act = "modify_bucket_policy",
                                    !.status = IF answered THEN "success" ELSE "failure"])

\* A call that failed may have changed the policy, one that was answered has.
ChangePolicy(w, p) ==
    LET n == name(w) IN
    /\ pc[w] = "policy"
    /\ \/ /\ n \in gateway
          /\ changes[n] < MaxChanges
          /\ policy' = [policy EXCEPT ![n] = p]
          /\ changes' = [changes EXCEPT ![n] = @ + 1]
          /\ \E answered \in BOOLEAN : AfterPolicy(w, answered)
       \/ AfterPolicy(w, FALSE) /\ UNCHANGED <<policy, changes>>
    /\ UNCHANGED <<registry, gateway, jobs, credit, lost, auditVars>>

PutPolicy(w) == \E p \in Policy : ChangePolicy(w, p)

DeletePolicy(w) == ChangePolicy(w, Nil)

AuditPolicy(w) ==
    /\ pc[w] = "audit"
    /\ run[w].act = "modify_bucket_policy"
    /\ \/ /\ ~run[w].left
          /\ Written(run[w].act, name(w), run[w].status)
          /\ UNCHANGED lost
       \/ /\ lost' = lost \cup {name(w)}
          /\ UNCHANGED auditVars
    /\ GoOn(w, "done", [run[w] EXCEPT !.todo = <<>>, !.act = Nil, !.status = Nil])
    /\ UNCHANGED <<registry, gateway, policy, jobs, credit, changes>>

-----------------------------------------------------------------------------
(***************************************************************************)
(* What happens meanwhile                                                  *)
(***************************************************************************)
\* The client of a request leaves.
Leave(w) ==
    /\ pc[w] # "idle"
    /\ run' = [run EXCEPT ![w].left = TRUE]
    /\ UNCHANGED <<registryVars, auditVars, pc>>

\* Buckets are made and removed at the gateway, by others.
GatewayChanges ==
    /\ \E n \in Name \ BadName :
        \/ /\ n \notin gateway
           /\ gateway' = gateway \cup {n}
           /\ UNCHANGED policy
        \/ /\ n \in gateway
           /\ gateway' = gateway \ {n}
           /\ policy' = [policy EXCEPT ![n] = Nil]
    /\ UNCHANGED <<registry, jobs, credit, changes, lost, auditVars, pc, run>>

-----------------------------------------------------------------------------
BucketsInit ==
    /\ registry = {}
    /\ gateway \in SUBSET (Name \ BadName)
    /\ policy = [n \in Name |-> Nil]
    /\ jobs = {}
    /\ credit = [n \in Name |-> 0]
    /\ changes = [n \in Name |-> 0]
    /\ lost = {}
    /\ pc = [w \in Worker |-> "idle"]
    /\ run = [w \in Worker |-> Blank]

Registering(w) ==
    \/ Import(w) \/ CheckName(w) \/ HeadBucket(w) \/ InsertBucket(w) \/ AuditRegister(w)
    \/ Enqueue(w) \/ Answer(w) \/ Leave(w)
Policies(w) ==
    \/ Inventory(w) \/ LoadBucket(w) \/ PutPolicy(w) \/ DeletePolicy(w) \/ AuditPolicy(w)

BucketsNext ==
    \/ \E w \in Worker : Registering(w) \/ Policies(w)
    \/ GatewayChanges

-----------------------------------------------------------------------------
(***************************************************************************)
(* Properties                                                              *)
(***************************************************************************)
\* A request that asks for the same bucket as another, or for one twice, gets
\* it once: over all requests a name is reported imported at most once, and has
\* at most one entry that says it was registered; and a name that was reported,
\* that such an entry is about or that a job was given for is in the registry.
RegisteredOnce ==
    \A n \in Name :
        /\ credit[n] <= 1
        /\ Rows("bucket_register", n, "success") <= 1
        /\ (credit[n] = 1 \/ Rows("bucket_register", n, "success") = 1 \/ n \in jobs) => n \in registry

\* A bucket in the registry has an entry that says so, and a change of a policy
\* at the gateway, even one whose answer was lost, has an entry of its own;
\* unless the request's client left or the database failed it (the entry is
\* written under the context of the request, internal/buckets/handler.go:225),
\* or the request is still under way.
ChangesAreAudited ==
    \A n \in Name \ lost :
        LET under(act, status) == {w \in Worker : /\ pc[w] = "audit"
                                                  /\ name(w) = n
                                                  /\ run[w].act = act
                                                  /\ run[w].status \in status}
        IN  /\ n \in registry => \/ Rows("bucket_register", n, "success") = 1
                              \/ under("bucket_register", {"success"}) # {}
            /\ changes[n] <= Rows("modify_bucket_policy", n, "success")
                             + Rows("modify_bucket_policy", n, "failure")
                             + Cardinality(under("modify_bucket_policy", {"success", "failure"}))
=============================================================================
