------------------------------- MODULE Alerts -------------------------------
(***************************************************************************)
(* Alert rules, their events and what the tenant API is told of them       *)
(* (internal/alerts).  An evaluation is one HTTP request: it reads the     *)
(* enabled rules once, the use the tenant API reports once, and then       *)
(* checks, inserts and closes events in one statement each.  Evaluations   *)
(* overlap with one another, with operators who acknowledge and resolve    *)
(* events, and with edits of rules and accounts.                           *)
(*                                                                         *)
(* Use, quota and threshold are abstracted to whether a target's use has   *)
(* reached the threshold of the rules about it (`load').                   *)
(***************************************************************************)
EXTENDS Naturals, FiniteSets

CONSTANTS
    Worker,   \* goroutines serving requests at the same time
    Account,  \* ids of tenant accounts
    Bucket,   \* ids of platform buckets; never deleted
    Rule,     \* ids of alert rules, never reused
    Typing,   \* assignments of types to rules considered in this instance
    EventId,  \* ids of alert events (bound: how many events are ever written)
    Changes,  \* what else changes in this instance: "use", "standing", "remove", "rule", "user"
    Nil,      \* SQL NULL, a Go nil pointer, no row yet
    Gone      \* a rule that was deleted

Target == Account \cup Bucket
Watched(type) == IF type = "quota" THEN Account ELSE Bucket

RuleRow == [on : BOOLEAN, notify : BOOLEAN]
Event   == [rule : Rule \cup {Nil}, target : Target \cup {Nil},
            status : {"firing", "acknowledged", "resolved"}]

ASSUME AlertsAssumption ==
    /\ Typing \subseteq [Rule -> {"quota", "bucket", "rgw", "audit"}]
    /\ Account \cap Bucket = {}
    /\ Nil \notin Target \cup Rule
    /\ \A S \in SUBSET Target : Nil # S
    /\ Nil \notin RuleRow \cup Event /\ Gone \notin RuleRow /\ Nil # Gone
    /\ IsFiniteSet(Worker)

VARIABLES
    kind,      \* the type a rule is created with; no request changes it
    rules,     \* alert_rules: id -> row, Nil before it is created, Gone after it is deleted
    standing,  \* "counted": active and with a quota (and, for a bucket, in the report)
    load,      \* targets whose use has reached the threshold
    events,    \* alert_events
    board,     \* the tenant API's status of each fingerprint
    pc, run    \* where each goroutine is, and its local variables

data == <<rules, standing, load, events, board>>
vars == <<kind, rules, standing, load, events, board, pc, run>>

Exists(r) == rules[r] \notin {Nil, Gone}

\* Open events of rule r about target t: those with a NULL target for Nil.
Open(r, t) == {e \in EventId : /\ events[e] # Nil
                               /\ events[e].rule = r
                               /\ events[e].target = t
                               /\ events[e].status # "resolved"}

\* What ResolveOpen closes: a nil id is no filter.
Closable(r, t) == IF t = Nil THEN UNION {Open(r, x) : x \in Target \cup {Nil}} ELSE Open(r, t)

Closed(S) == [e \in EventId |-> IF e \in S THEN [events[e] EXCEPT !.status = "resolved"]
                                ELSE events[e]]

(***************************************************************************)
(* Local variables of a request.  `use' is the report loadUsage got, Nil   *)
(* when it failed.  `truth' and `calm' are history: what the use was then, *)
(* and whether nothing else has happened and no read has failed since.     *)
(***************************************************************************)
Blank == [todo |-> {}, notify |-> {}, use |-> Nil, rule |-> Nil, queue |-> {}, seen |-> {},
          sweep |-> {}, target |-> Nil, say |-> Nil, back |-> Nil, event |-> Nil,
          truth |-> {}, calm |-> FALSE]

Run == [todo : SUBSET Rule, notify : SUBSET Rule, use : (SUBSET Target) \cup {Nil},
        rule : Rule \cup {Nil}, queue : SUBSET Target, seen : SUBSET Target,
        sweep : SUBSET Target, target : Target \cup {Nil},
        say : {Nil, "firing", "resolved"}, back : {Nil, "target", "sweep"},
        event : EventId \cup {Nil}, truth : SUBSET Target, calm : BOOLEAN]

Disturbed == [v \in Worker |-> [run[v] EXCEPT !.calm = FALSE]]

\* A request begins: evaluations that overlap are not calm.
Begin(w, next, r) ==
    /\ pc[w] = "idle"
    /\ pc' = [pc EXCEPT ![w] = next]
    /\ run' = [Disturbed EXCEPT ![w] =
                  [r EXCEPT !.calm = \A v \in Worker \ {w} : pc[v] = "idle"]]

GoOn(w, next, r) ==
    /\ pc' = [pc EXCEPT ![w] = next]
    /\ run' = [run EXCEPT ![w] = r]

Finish(w) == GoOn(w, "idle", Blank)

\* Local variables once a rule is done with, and once a target is.
RuleDone(r)   == [r EXCEPT !.rule = Nil, !.target = Nil, !.seen = {}]
TargetDone(r) == [r EXCEPT !.target = Nil, !.say = Nil, !.back = Nil]

-----------------------------------------------------------------------------
(***************************************************************************)
(* Evaluator.Run                                                           *)
(***************************************************************************)
\* ListEnabledRules.
Evaluate(w) ==
    /\ Begin(w, "usage", [Blank EXCEPT !.todo = {r \in Rule : Exists(r) /\ rules[r].on},
                                       !.notify = {r \in Rule : Exists(r) /\ rules[r].notify}])
    /\ UNCHANGED data

\* loadUsage: its error is dropped.
LoadUsage(w) ==
    /\ pc[w] = "usage"
    /\ \/ GoOn(w, "rule", [run[w] EXCEPT !.use = load, !.truth = load])
       \/ GoOn(w, "rule", [run[w] EXCEPT !.truth = load, !.calm = FALSE])
    /\ UNCHANGED data

\* evalTenantQuota and evalBucketCapacity list their targets.  A bucket that is
\* not in the report is passed over.  Rules are taken in any order.
NextRule(w) ==
    /\ pc[w] = "rule"
    /\ \E r \in run[w].todo :
        /\ kind[r] \in {"quota", "bucket"}
        /\ LET counted == {t \in Watched(kind[r]) : standing[t] = "counted"}
               listed  == IF kind[r] = "bucket" /\ run[w].use = Nil THEN {} ELSE counted
           IN  GoOn(w, "target", [run[w] EXCEPT !.todo = @ \ {r}, !.rule = r,
                                                !.queue = listed, !.seen = listed])
    /\ UNCHANGED data

\* evalRGW5xx and evalAuditRate: one figure for the whole platform.  When it is
\* not known the first closes the rule's events, the second leaves them.
ReadRate(w) ==
    /\ pc[w] = "rule"
    /\ \E r \in run[w].todo, figure \in {"over", "under", "unknown"} :
        /\ kind[r] \in {"rgw", "audit"}
        /\ LET next == [run[w] EXCEPT !.todo = @ \ {r}] IN
           \/ /\ figure = "over"
              /\ GoOn(w, "check", [next EXCEPT !.rule = r])
              /\ UNCHANGED events
           \/ /\ figure = "under" \/ (figure = "unknown" /\ kind[r] = "rgw")
              /\ events' = Closed(Closable(r, Nil))
              /\ GoOn(w, "rule", next)
           \/ /\ figure = "unknown" /\ kind[r] = "audit"
              /\ GoOn(w, "rule", next)
              /\ UNCHANGED events
    /\ UNCHANGED <<rules, standing, load, board>>

\* fire returns: the next target, or the next rule.
Fired(w) == IF kind[run[w].rule] \in {"quota", "bucket"}
            THEN GoOn(w, "target", TargetDone(run[w])) ELSE GoOn(w, "rule", RuleDone(run[w]))

\* resolveAndProject: the tenant is told when an event was closed.
ResolveAndProject(w, t, here, r) ==
    /\ events' = Closed(Closable(run[w].rule, t))
    /\ IF Closable(run[w].rule, t) # {} /\ run[w].rule \in run[w].notify /\ t \in Account
       THEN GoOn(w, "announce", [r EXCEPT !.target = t, !.say = "resolved", !.back = here])
       ELSE GoOn(w, here, r)

\* The next target of a list.  Without a report, or without the account's
\* grants (`granted'), an account has used nothing.
NextTarget(w) ==
    /\ pc[w] = "target"
    /\ \E t \in run[w].queue, granted \in BOOLEAN :
        LET r    == [run[w] EXCEPT !.queue = @ \ {t}, !.calm = @ /\ granted]
            over == run[w].use # Nil /\ t \in run[w].use /\ granted
        IN  /\ t \in Bucket => granted
            /\ \/ /\ over
                  /\ GoOn(w, "check", [r EXCEPT !.target = t])
                  /\ UNCHANGED events
               \/ /\ ~over
                  /\ ResolveAndProject(w, t, "target", r)
    /\ UNCHANGED <<rules, standing, load, board>>

\* Mutant of Check: acknowledged events do not count as open.
CheckFiringOnly(w) ==
    /\ pc[w] = "check"
    /\ IF \E e \in Open(run[w].rule, run[w].target) : events[e].status = "firing"
       THEN Fired(w) ELSE GoOn(w, "insert", run[w])
    /\ UNCHANGED data

\* fire: HasOpenEvent.
Check(w) ==
    /\ pc[w] = "check"
    /\ IF Open(run[w].rule, run[w].target) # {}
       THEN Fired(w) ELSE GoOn(w, "insert", run[w])
    /\ UNCHANGED data

\* fire: InsertEvent.  The foreign keys refuse a rule or an account that is
\* gone, and the whole evaluation fails.
InsertEvent(w) ==
    /\ pc[w] = "insert"
    /\ LET r     == run[w].rule
           t     == run[w].target
           valid == Exists(r) /\ (t \in Account => standing[t] # "gone")
       IN  \/ /\ valid
              /\ \E e \in EventId :
                    /\ events[e] = Nil
                    /\ events' = [events EXCEPT ![e] =
                                     [rule |-> r, target |-> t, status |-> "firing"]]
              /\ IF r \in run[w].notify /\ t \in Account
                 THEN GoOn(w, "announce", [run[w] EXCEPT !.say = "firing", !.back = "target"])
                 ELSE Fired(w)
           \/ /\ ~valid
              /\ Finish(w)
              /\ UNCHANGED events
    /\ UNCHANGED <<rules, standing, load, board>>

\* projectEvent: no call for an account that is gone; a failed call is ignored.
Announce(w) ==
    /\ pc[w] = "announce"
    /\ \/ /\ standing[run[w].target] # "gone"
          /\ board' = [board EXCEPT ![run[w].rule][run[w].target] = run[w].say]
       \/ UNCHANGED board
    /\ GoOn(w, run[w].back, TargetDone(run[w]))
    /\ UNCHANGED <<rules, standing, load, events>>

\* Mutant of ListUnseen: what was not seen stays open.
ListNothing(w) ==
    /\ pc[w] = "target"
    /\ run[w].queue = {}
    /\ GoOn(w, "sweep", run[w])
    /\ UNCHANGED data

\* resolveUnseen: ListOpenByRule.  Events whose target is NULL are skipped.
ListUnseen(w) ==
    /\ pc[w] = "target"
    /\ run[w].queue = {}
    /\ GoOn(w, "sweep", [run[w] EXCEPT !.sweep =
                            {t \in Target \ run[w].seen : Open(run[w].rule, t) # {}}])
    /\ UNCHANGED data

ResolveUnseen(w) ==
    /\ pc[w] = "sweep"
    /\ \/ \E t \in run[w].sweep :
             ResolveAndProject(w, t, "sweep", [run[w] EXCEPT !.sweep = @ \ {t}])
       \/ /\ run[w].sweep = {}
          /\ GoOn(w, "rule", RuleDone(run[w]))
          /\ UNCHANGED events
    /\ UNCHANGED <<rules, standing, load, board>>

\* The last rule is done; the counts are answered.
Conclude(w) ==
    /\ pc[w] = "rule"
    /\ run[w].todo = {}
    /\ GoOn(w, "answer", run[w])
    /\ UNCHANGED data

\* The answer; or, anywhere, a database error, a cancelled context or a crash.
Stop(w) ==
    /\ pc[w] # "idle"
    /\ Finish(w)
    /\ UNCHANGED data

-----------------------------------------------------------------------------
(***************************************************************************)
(* Requests of operators about events                                      *)
(***************************************************************************)
\* ack: read the event; a resolved one is refused.
LoadEvent(w) ==
    /\ "user" \in Changes
    /\ \E e \in EventId :
        /\ events[e] # Nil
        /\ events[e].status # "resolved"
        /\ Begin(w, "ack", [Blank EXCEPT !.event = e])
    /\ UNCHANGED data

\* Mutant of Acknowledge: the status is not one the other queries know.
AcknowledgeMisspelt(w) ==
    /\ pc[w] = "ack"
    /\ events' = [events EXCEPT ![run[w].event].status =
                     IF @ = "resolved" THEN @ ELSE "acked"]
    /\ Finish(w)
    /\ UNCHANGED <<rules, standing, load, board>>

\* Mutant of Acknowledge: the UPDATE relies on the status read before.
AcknowledgeUnchecked(w) ==
    /\ pc[w] = "ack"
    /\ events' = [events EXCEPT ![run[w].event].status = "acknowledged"]
    /\ Finish(w)
    /\ UNCHANGED <<rules, standing, load, board>>

\* Store.Acknowledge: the UPDATE looks at the status again.
Acknowledge(w) ==
    /\ pc[w] = "ack"
    /\ events' = [events EXCEPT ![run[w].event].status =
                     IF @ = "resolved" THEN @ ELSE "acknowledged"]
    /\ Finish(w)
    /\ UNCHANGED <<rules, standing, load, board>>

\* resolve: the tenant is not told.
Resolve ==
    /\ "user" \in Changes
    /\ \E e \in EventId : events[e] # Nil /\ events' = Closed({e})
    /\ run' = Disturbed
    /\ UNCHANGED <<rules, standing, load, board, pc>>

-----------------------------------------------------------------------------
(***************************************************************************)
(* What changes around the evaluations                                     *)
(***************************************************************************)
\* Objects are written and deleted.
UseChanges ==
    /\ "use" \in Changes
    /\ \E t \in Target : load' = IF t \in load THEN load \ {t} ELSE load \cup {t}
    /\ run' = Disturbed
    /\ UNCHANGED <<rules, standing, events, board, pc>>

\* A target is disabled or enabled, or loses or gets a quota.
StandingChanges ==
    /\ "standing" \in Changes
    /\ \E t \in Target :
        /\ standing[t] # "gone"
        /\ standing' = [standing EXCEPT ![t] = IF @ = "counted" THEN "exempt" ELSE "counted"]
    /\ run' = Disturbed
    /\ UNCHANGED <<rules, load, events, board, pc>>

\* accounts.Store.Delete: the foreign key sets the events' tenant to NULL.
RemoveAccount ==
    /\ "remove" \in Changes
    /\ \E a \in Account :
        /\ standing[a] # "gone"
        /\ standing' = [standing EXCEPT ![a] = "gone"]
        /\ events' = [e \in EventId |->
                         IF events[e] # Nil /\ events[e].target = a
                         THEN [events[e] EXCEPT !.target = Nil] ELSE events[e]]
    /\ run' = Disturbed
    /\ UNCHANGED <<rules, load, board, pc>>

\* createRule and updateRule (which writes all the columns it read or was given).
WriteRule ==
    /\ \E r \in Rule, row \in RuleRow :
        /\ rules[r] # Gone
        /\ rules[r] = Nil \/ "rule" \in Changes
        /\ rules' = [rules EXCEPT ![r] = row]
    /\ run' = Disturbed
    /\ UNCHANGED <<standing, load, events, board, pc>>

\* deleteRule: the foreign key sets the events' rule to NULL.
DeleteRule ==
    /\ "rule" \in Changes
    /\ \E r \in Rule :
        /\ Exists(r)
        /\ rules' = [rules EXCEPT ![r] = Gone]
        /\ events' = [e \in EventId |->
                         IF events[e] # Nil /\ events[e].rule = r
                         THEN [events[e] EXCEPT !.rule = Nil] ELSE events[e]]
    /\ run' = Disturbed
    /\ UNCHANGED <<standing, load, board, pc>>

-----------------------------------------------------------------------------
Init ==
    /\ kind \in Typing
    /\ rules = [r \in Rule |-> Nil]
    /\ standing \in [Target -> {"counted", "exempt"}]
    /\ load \in SUBSET Target
    /\ events = [e \in EventId |-> Nil]
    /\ board = [r \in Rule |-> [a \in Account |-> Nil]]
    /\ pc = [w \in Worker |-> "idle"]
    /\ run = [w \in Worker |-> Blank]

RunStep(w) ==
    \/ Evaluate(w) \/ LoadUsage(w) \/ NextRule(w) \/ ReadRate(w) \/ NextTarget(w)
    \/ Check(w) \/ InsertEvent(w) \/ Announce(w) \/ ListUnseen(w) \/ ResolveUnseen(w)
    \/ Conclude(w) \/ Stop(w)

Next ==
    /\ \/ \E w \in Worker : RunStep(w) \/ LoadEvent(w) \/ Acknowledge(w)
       \/ Resolve \/ UseChanges \/ StandingChanges \/ RemoveAccount \/ WriteRule \/ DeleteRule
    /\ UNCHANGED kind

Spec == Init /\ [][Next]_vars

-----------------------------------------------------------------------------
(***************************************************************************)
(* Properties                                                              *)
(***************************************************************************)
\* Every variable holds a value of its type.
TypeOK ==
    /\ kind \in Typing
    /\ rules \in [Rule -> RuleRow \cup {Nil, Gone}]
    /\ standing \in [Target -> {"counted", "exempt", "gone"}]
    /\ load \subseteq Target
    /\ events \in [EventId -> Event \cup {Nil}]
    /\ board \in [Rule -> [Account -> {Nil, "firing", "resolved"}]]
    /\ pc \in [Worker -> {"idle", "usage", "rule", "target", "check", "insert", "announce",
                         "sweep", "answer", "ack"}]
    /\ run \in [Worker -> Run]

\* HasOpenEvent and InsertEvent are two statements, so overlapping evaluations
\* may each open an event about the same target, but never more than one each,
\* whatever is acknowledged or closed meanwhile; evaluations that do not
\* overlap never open a second one (evaluate.go, fire).
OpenEventsBounded ==
    \A r \in Rule :
        \A t \in IF kind[r] \in {"quota", "bucket"} THEN Target ELSE {Nil} :
            Cardinality(Open(r, t)) <= Cardinality(Worker)

\* A resolved event is never opened again, though ack reads the status in one
\* statement and writes it in another (store.go, Acknowledge).
ResolvedIsFinal ==
    [][\A e \in EventId : (events[e] # Nil /\ events[e].status = "resolved")
                              => events'[e].status = "resolved"]_vars

\* An evaluation that nothing overlapped with and that read all it needed
\* leaves, for each enabled rule about quotas, an open event for exactly the
\* targets that are counted and have reached the threshold.
EvaluationConclusive ==
    \A w \in Worker : (pc[w] = "answer" /\ run[w].calm) =>
        \A r \in Rule : (Exists(r) /\ rules[r].on /\ kind[r] \in {"quota", "bucket"}) =>
            \A t \in Watched(kind[r]) :
                Open(r, t) # {} <=> (standing[t] = "counted" /\ t \in load)

\* README.md:31 says evaluations open and close events by the thresholds: an
\* evaluation closes no event of a target that was counted and over the
\* threshold when it asked for the use.  Broken when the report could not be
\* had, for then nothing has been used.
ClosedBelowThreshold ==
    [][\A w \in Worker, t \in Target :
          (/\ pc[w] \in {"target", "sweep"}
           /\ run'[w].queue # run[w].queue \/ run'[w].sweep # run[w].sweep
           /\ \E e \in Open(run[w].rule, t) : events'[e].status = "resolved")
              => ~(standing[t] = "counted" /\ t \in run[w].truth)]_vars
=============================================================================
