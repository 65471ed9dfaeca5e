------------------------------ MODULE Rolling -------------------------------
(***************************************************************************)
(* Restarting the gateways of the cluster (internal/ceph, cmd/ceph-mgmt).  *)
(* The ops API asks the management API of the cluster, a process of its    *)
(* own, to restart one gateway or all of them, or to go through their list *)
(* and restart one after the other with a pause between two.  It waits 120 *)
(* seconds for the answer, and audits what it got.  When it gives up, the  *)
(* management API finds the connection closed only some time later, and    *)
(* goes on until then.  Nothing keeps two operators from restarting at the *)
(* same time.                                                              *)
(***************************************************************************)
EXTENDS Audit

CONSTANTS
    Operator,  \* operators restarting at the same time
    Rgw,       \* gateways
    All,       \* the service: all of them
    Waits,     \* values of wait_seconds, in units of time
    Limit      \* what the ops API waits for an answer, in the same units (120 s)

ASSUME RollingAssumption ==
    /\ Waits \subseteq Nat
    /\ Limit \in Nat
    /\ All \notin Rgw /\ Nil \notin Rgw
    /\ Nil \notin {"success", "failure", "ok", "none", "error", "restart_rgw", "rolling_restart_rgw"}

VARIABLE op    \* the operation of each operator

allButOp == auditVars

(***************************************************************************)
(* at: where the handler of the ops API is; act, status: what it audits;   *)
(* left: its client has left.  srv: where the management API is; todo: the *)
(* gateways it has still to restart; wait: its pause; noticed: it knows    *)
(* that nobody waits for it; reply: its answer.  History: the gateways it  *)
(* listed, those that were restarted, and the time that passed.            *)
(***************************************************************************)
Unused == [at |-> "idle", act |-> Nil, status |-> Nil, left |-> FALSE,
           srv |-> "none", todo |-> <<>>, wait |-> 0, noticed |-> FALSE, reply |-> Nil,
           listed |-> <<>>, done |-> <<>>, elapsed |-> 0]

Becomes(o, r) == op' = [op EXCEPT ![o] = r]

\* Lists of gateways, none twice.  Rows without a name, which parse.go:62-65 reads
\* as the whole service, are left out.
Lists == UNION {{s \in [1..n -> Rgw] : IsInjective(s)} : n \in 0..Cardinality(Rgw)}

-----------------------------------------------------------------------------
(***************************************************************************)
(* The ops API                                                             *)
(***************************************************************************)
\* The settings could not be read, or the request is refused: nothing is audited.
\* The management API is not configured or does not answer: a failure is.
Ask(o, act, r) ==
    /\ op[o].at = "idle"
    /\ \/ Becomes(o, [r EXCEPT !.at = "sent", !.act = act])
       \/ Becomes(o, [Unused EXCEPT !.at = "audit", !.act = act, !.status = "failure"])
    /\ UNCHANGED allButOp

\* restart; restartTarget takes an empty id for the service.
StartRestart(o) ==
    \E target \in Rgw \cup {All} :
        Ask(o, "restart_rgw", [Unused EXCEPT !.srv = "command", !.todo = <<target>>, !.listed = <<target>>])

\* rolling.
StartRoll(o) ==
    \E wait \in Waits : Ask(o, "rolling_restart_rgw", [Unused EXCEPT !.srv = "list", !.wait = wait])

\* client.do gets an answer; a status of 400 or more is an error.
Receive(o) ==
    /\ op[o].at = "sent"
    /\ op[o].srv = "over"
    /\ Becomes(o, [op[o] EXCEPT !.at = "audit",
                                !.status = IF op[o].reply = "error" THEN "failure" ELSE "success"])
    /\ UNCHANGED allButOp

\* Mutant of InTime: the client that was cloned has no timeout.
InTimeAlways(r, d) == TRUE

\* Something that takes d ends before the client gives up.
InTime(r, d) == r.at = "sent" => r.elapsed + d <= Limit

\* The 120 seconds may pass in any command, and in a pause that is longer than
\* what is left of them.
Expired(r) == r.srv = "wait" => ~InTime(r, r.wait)

\* client.do gives up: the time is over, or the connection breaks.
GiveUp(o) ==
    /\ op[o].at = "sent"
    /\ Expired(op[o])
    /\ Becomes(o, [op[o] EXCEPT !.at = "audit", !.status = "failure"])
    /\ UNCHANGED allButOp

\* The request's client leaves, and client.do is cancelled.
Abandon(o) ==
    /\ op[o].at = "sent"
    /\ Becomes(o, [op[o] EXCEPT !.at = "audit", !.status = "failure", !.left = TRUE])
    /\ UNCHANGED allButOp

\* Mutant of AuditOp: the insert is tried again until it is made, which a context
\* that is cancelled never lets it be.
AuditOpRetried(o) ==
    /\ op[o].at = "audit"
    /\ ~op[o].left
    /\ Written(op[o].act, Nil, op[o].status) \/ UNCHANGED auditVars
    /\ Becomes(o, [op[o] EXCEPT !.at = "answered"])

\* audit.Write, whose error is dropped.
AuditOp(o) ==
    /\ op[o].at = "audit"
    /\ \/ ~op[o].left /\ Written(op[o].act, Nil, op[o].status)
       \/ UNCHANGED auditVars
    /\ Becomes(o, [op[o] EXCEPT !.at = "answered"])

\* Both sides are through.
Forget(o) ==
    /\ op[o].at = "answered"
    /\ op[o].srv \in {"none", "over"}
    /\ Becomes(o, Unused)
    /\ UNCHANGED allButOp

-----------------------------------------------------------------------------
(***************************************************************************)
(* The management API                                                      *)
(***************************************************************************)
Reply(r, reply) == [r EXCEPT !.srv = "over", !.todo = <<>>, !.reply = reply]

\* Instances: what the orchestrator lists or, failing that, the status does.
ListInstances(o) ==
    /\ op[o].srv = "list"
    /\ \/ /\ ~op[o].noticed
          /\ \E list \in Lists :
              Becomes(o, IF list = <<>> THEN Reply(op[o], "none")
                         ELSE [op[o] EXCEPT !.srv = "command", !.todo = list, !.listed = list])
       \/ Becomes(o, Reply(op[o], "error"))
    /\ UNCHANGED allButOp

\* Where the loop goes after a restart: no pause follows the last.
Onward(r) ==
    IF Len(r.todo) = 1 THEN Reply(r, "ok")
    ELSE [r EXCEPT !.todo = Tail(@), !.srv = IF r.wait > 0 THEN "wait" ELSE "command"]

\* Time is counted while the ops API waits.
Later(r, d) == [r EXCEPT !.elapsed = IF r.at = "sent" THEN @ + d ELSE @]

\* Mutant of AfterError: the next gateway is restarted all the same.
AfterErrorOnward(r) == Onward(r)

\* The first restart that fails ends the roll; the list of those restarted is
\* dropped.
AfterError(r) == Reply(r, "error")

\* ceph orch restart.  A command that fails, or is killed because its time is
\* over or nobody waits any more, may have restarted the gateway; none is begun
\* when it is known that nobody waits.
Restart(o) ==
    LET r  == op[o]
        r1 == [r EXCEPT !.done = Append(@, Head(r.todo))]
    IN  /\ r.srv = "command"
        /\ \/ /\ ~r.noticed
              /\ \/ \E d \in {0, 1} : InTime(r, d) /\ Becomes(o, Onward(Later(r1, d)))
                 \/ Becomes(o, AfterError(r1))
           \/ Becomes(o, AfterError(r))
        /\ UNCHANGED allButOp

\* The select of RollingRestart.
Pause(o) ==
    LET r == op[o] IN
    /\ r.srv = "wait"
    /\ \/ InTime(r, r.wait) /\ Becomes(o, [Later(r, r.wait) EXCEPT !.srv = "command"])
       \/ r.noticed /\ Becomes(o, AfterError(r))
    /\ UNCHANGED allButOp

\* The server finds the connection closed, and cancels the request's context.
Notice(o) ==
    /\ op[o].at \in {"audit", "answered"}
    /\ op[o].srv \in {"list", "command", "wait"}
    /\ ~op[o].noticed
    /\ Becomes(o, [op[o] EXCEPT !.noticed = TRUE])
    /\ UNCHANGED allButOp

\* The management API is restarted, in the middle of everything it does.
MgmtRestarts ==
    /\ \E o \in Operator : op[o].srv \in {"list", "command", "wait"}
    /\ op' = [o \in Operator |->
                IF op[o].srv \in {"list", "command", "wait"} THEN Reply(op[o], "error") ELSE op[o]]
    /\ UNCHANGED allButOp

-----------------------------------------------------------------------------
RollingInit == op = [o \in Operator |-> Unused]

OpsSide(o)  == Receive(o) \/ GiveUp(o) \/ AuditOp(o) \/ Forget(o)
MgmtSide(o) == ListInstances(o) \/ Restart(o) \/ Pause(o)

RollingNext ==
    \/ \E o \in Operator :
        StartRestart(o) \/ StartRoll(o) \/ Abandon(o) \/ Notice(o) \/ OpsSide(o) \/ MgmtSide(o)
    \/ MgmtRestarts

\* Each side goes on by itself: the handler's goroutine, and that of the management
\* API, whose commands end after CEPH_RESTART_TIMEOUT_SECONDS at the latest.
RollingFairness == \A o \in Operator : WF_op(OpsSide(o)) /\ WF_op(MgmtSide(o))

-----------------------------------------------------------------------------
(***************************************************************************)
(* Properties                                                              *)
(***************************************************************************)
\* An operation audited as a success restarted every gateway it listed, once
\* and in their order, whatever others did meanwhile; a list that was empty is
\* a success too.  One audited as a failure has restarted some first part of
\* the list, the whole of it included.
RollIsHonest ==
    \A o \in Operator :
        /\ op[o].status = "success" => op[o].done = op[o].listed
        /\ IsPrefix(op[o].done, op[o].listed)

\* The pauses of a roll that is reported as done fit into the time the ops API
\* waits: a roll of longer ones, which wait_seconds allows (300 seconds against
\* 120, internal/ceph/handler.go:178 and :185), restarts gateways and is
\* reported as failed.
OkRollsAreShort ==
    \A o \in Operator :
        (op[o].status = "success" /\ op[o].listed # <<>>) =>
            (Len(op[o].listed) - 1) * op[o].wait <= Limit

\* Every operation ends on both sides: its client gets an answer, and the
\* management API stops restarting.
RollEnds == \A o \in Operator : (op[o].at = "sent") ~> (op[o].at = "idle")
=============================================================================
