----------------------------- MODULE Lifecycle -----------------------------
(***************************************************************************)
(* A run of the lifecycle rules over a bucket (internal/lifecycle/         *)
(* runner.go).  It reads the enabled rules once and then, for each of      *)
(* their actions, lists the bucket page by page and deletes what is old;   *)
(* tenants write and delete objects and uploads all the while.  The table  *)
(* of rules is whatever it is when a run reads it.                         *)
(*                                                                         *)
(* Time is counted in units of the days a rule gives, so that an object is *)
(* old when it was written in an earlier unit than the one an action       *)
(* begins in.                                                              *)
(***************************************************************************)
EXTENDS Naturals, Sequences, FiniteSetsExt

CONSTANTS
    Rule,        \* ids of rules
    Prefix,      \* prefixes of rules; "" is under none
    ActSets,     \* sets of actions a rule may have in this instance
    Listing,     \* keys and uploads there may be, as [area, dir], in the order of listings
    PageSize,    \* keys in a page (1000)
    MaxDeletes,  \* maxDeletesPerAction (2000)
    MaxTime,     \* bound: the last unit of time
    Nil          \* no rule, no object, no task under way

Key    == DOMAIN Listing
Action == {"delete", "trash", "versions", "multipart"}
Row    == [prefix : Prefix, on : BOOLEAN, acts : ActSets]
Time   == 0..MaxTime

\* What each action is about.
Subject == [delete |-> "live", trash |-> "trash", versions |-> "versions", multipart |-> "upload"]

ASSUME LifecycleAssumption ==
    /\ "" \in Prefix
    /\ \A acts \in ActSets : acts \subseteq Action
    /\ Listing \in Seq([area : {Subject[a] : a \in Action}, dir : Prefix])
    /\ PageSize \in Nat \ {0}
    /\ MaxDeletes \in Nat \ {0}
    /\ MaxTime \in Nat
    /\ Nil \notin Row /\ Nil \notin Nat

VARIABLES
    now,      \* the time
    written,  \* when each key's object (or upload) was last written, or Nil
    pc, run   \* where the run is, and its local variables

vars == <<now, written, pc, run>>

Task == [rule : Rule, act : Action, prefix : Prefix]

\* An action on a prefix is about a key.
About(act, prefix, k) == Listing[k].area = Subject[act] /\ prefix \in {"", Listing[k].dir}

(***************************************************************************)
(* Local variables of the run: tasks still to do and the one under way,    *)
(* its cutoff, the continuation token (the last key listed), what is left  *)
(* of the page, whether it was truncated, and how much was deleted.  Three *)
(* are history: `asked', the keys enabled rules were about when the run    *)
(* began; `rewritten', the keys written since the page was listed;         *)
(* `clean', that during this task nothing was written and no call failed.  *)
(***************************************************************************)
Blank == [todo |-> {}, task |-> Nil, cutoff |-> 0, token |-> 0, page |-> {}, more |-> FALSE,
          deleted |-> 0, asked |-> {}, rewritten |-> {}, clean |-> FALSE]
Run   == [todo : SUBSET Task, task : Task \cup {Nil}, cutoff : Time, token : Key \cup {0},
          page : SUBSET Key, more : BOOLEAN, deleted : 0..MaxDeletes,
          asked : SUBSET Key, rewritten : SUBSET Key, clean : BOOLEAN]

GoOn(next, r) == pc' = next /\ run' = r

-----------------------------------------------------------------------------
(***************************************************************************)
(* Runner.Run                                                              *)
(***************************************************************************)
\* Mutant of Enabled: List in place of ListEnabled.
EnabledOrNot(rules) == {r \in Rule : rules[r] # Nil}

\* ListEnabled.
Enabled(rules) == {r \in Rule : rules[r] # Nil /\ rules[r].on}

BeginRun ==
    /\ pc = "idle"
    /\ \E rules \in [Rule -> Row \cup {Nil}] :
        LET tasks == {t \in Task : /\ t.rule \in Enabled(rules)
                                   /\ t.prefix = rules[t.rule].prefix
                                   /\ t.act \in rules[t.rule].acts}
            wanted(k) == \E r \in Rule : /\ rules[r] # Nil /\ rules[r].on
                                         /\ \E a \in rules[r].acts : About(a, rules[r].prefix, k)
        IN  GoOn("task", [Blank EXCEPT !.todo = tasks, !.asked = {k \in Key : wanted(k)}])
    /\ UNCHANGED <<now, written>>

\* deletePrefix or abortMultipart begins.  Tasks are taken in any order.
NextTask ==
    /\ pc = "task"
    /\ \E t \in run.todo :
           GoOn("list", [Blank EXCEPT !.todo = run.todo \ {t}, !.task = t, !.cutoff = now,
                                      !.asked = run.asked, !.clean = TRUE])
    /\ UNCHANGED <<now, written>>

EndRun ==
    /\ pc = "task"
    /\ run.todo = {}
    /\ GoOn("idle", Blank)
    /\ UNCHANGED <<now, written>>

\* What a listing finds under the prefix: without one, deletePrefix also gets
\* the trash and the versions.
Found(t) == {k \in Key : /\ written[k] # Nil
                         /\ \/ About(t.act, t.prefix, k)
                            \/ t.act = "delete" /\ t.prefix = "" /\ Listing[k].area # "upload"}

\* Mutant of Keep: anyKey in place of liveOnly.
KeepAny(t, k) == TRUE

\* liveOnly, anyKey.
Keep(t, k) == t.act = "delete" => Listing[k].area = "live"

\* The first keys of a listing after the token.
Page(t, token) ==
    LET rest == {k \in Found(t) : k > token}
    IN  {k \in rest : Cardinality({j \in rest : j <= k}) <= PageSize}

\* Mutant of NextToken: the token is never set, each page is the first.
NextTokenUnset(t, token) == 0

\* The token that continues after a truncated page.
NextToken(t, token) == Max(Page(t, token))

\* ListObjects or ListMultipart, and the tests on what it returned; an error
\* ends the task.
ListPage ==
    /\ pc = "list"
    /\ LET t     == run.task
           page  == Page(t, run.token)
           more  == \E k \in Found(t) : k > run.token /\ k \notin page
       IN  \/ GoOn("items", [run EXCEPT
                   !.page = {k \in page : Keep(t, k) /\ written[k] < run.cutoff},
                   !.token = IF more THEN NextToken(t, @) ELSE @,
                   !.more = more,
                   !.rewritten = {}])
           \/ GoOn("task", [run EXCEPT !.clean = FALSE])
    /\ UNCHANGED <<now, written>>

\* Mutant of Full: the limit is exceeded by one.
FullByOne == run.deleted > MaxDeletes

Full == run.deleted >= MaxDeletes

\* DeleteObject or AbortMultipart of the next old key; a failure is only logged.
DeleteNext ==
    /\ pc = "items"
    /\ run.page # {}
    /\ ~Full
    /\ LET k    == Min(run.page)
           left == [run EXCEPT !.page = @ \ {k}]
       IN  \/ /\ written' = [written EXCEPT ![k] = Nil]
              /\ GoOn("items", [left EXCEPT !.deleted = @ + 1])
           \/ /\ GoOn("items", [left EXCEPT !.clean = FALSE])
              /\ UNCHANGED written
    /\ UNCHANGED now

\* Mutant of PageDone: a page that deleted nothing ends the task.
PageDoneWhenIdle ==
    /\ pc = "items"
    /\ run.page = {} \/ Full
    /\ GoOn(IF run.more /\ ~Full /\ run.deleted > 0 THEN "list" ELSE "task", [run EXCEPT !.page = {}])
    /\ UNCHANGED <<now, written>>

PageDone ==
    /\ pc = "items"
    /\ run.page = {} \/ Full
    /\ GoOn(IF run.more /\ ~Full THEN "list" ELSE "task", [run EXCEPT !.page = {}])
    /\ UNCHANGED <<now, written>>

\* The process stops.
Crash ==
    /\ pc # "idle"
    /\ GoOn("idle", Blank)
    /\ UNCHANGED <<now, written>>

-----------------------------------------------------------------------------
(***************************************************************************)
(* Tenants, and time                                                       *)
(***************************************************************************)
\* An object is written anew or over, an upload begun.
Write ==
    /\ \E k \in Key :
        /\ written' = [written EXCEPT ![k] = now]
        /\ run' = IF pc = "idle" THEN run
                  ELSE [run EXCEPT !.rewritten = IF k \in run.page THEN @ \cup {k} ELSE @,
                                   !.clean = FALSE]
    /\ UNCHANGED <<now, pc>>

Delete ==
    /\ \E k \in Key : written[k] # Nil /\ written' = [written EXCEPT ![k] = Nil]
    /\ UNCHANGED <<now, pc, run>>

Tick ==
    /\ now < MaxTime
    /\ now' = now + 1
    /\ UNCHANGED <<written, pc, run>>

-----------------------------------------------------------------------------
Init ==
    /\ now = 0
    /\ written = [k \in Key |-> Nil]
    /\ pc = "idle"
    /\ run = Blank

RunStep == NextTask \/ EndRun \/ ListPage \/ DeleteNext \/ PageDone

Next ==
    \/ BeginRun \/ RunStep \/ Crash
    \/ Write \/ Delete \/ Tick

Spec == Init /\ [][Next]_vars

\* A run that has begun is given the processor; every call it makes returns.
FairSpec == Spec /\ WF_vars(RunStep)

-----------------------------------------------------------------------------
(***************************************************************************)
(* Properties                                                              *)
(***************************************************************************)
\* Every variable holds a value of its type; an action never deletes more than
\* its limit, over however many pages and failures.
TypeOK ==
    /\ now \in Time
    /\ written \in [Key -> Time \cup {Nil}]
    /\ pc \in {"idle", "task", "list", "items"}
    /\ run \in Run

\* A run deletes an object only if a rule that was enabled when the run began
\* has an action about it (a rule about live objects leaves the trash and the
\* versions alone, though listings find them), and only if the object is old -
\* or was overwritten after the page with it was listed, which nothing guards
\* against (runner.go:94).
DeletesAreAsked ==
    [][\A k \in Key : (DeleteNext /\ written[k] # Nil /\ written'[k] = Nil) =>
          k \in run.asked /\ (written[k] < now \/ k \in run.rewritten)]_vars

\* A task that came to its end below the limit, with no call failing and
\* nothing written meanwhile, has left nothing old of what it is about, on
\* whatever page it was, and whatever tenants deleted between two pages.
TaskIsThorough ==
    (pc = "task" /\ run.task # Nil /\ run.clean /\ run.deleted < MaxDeletes) =>
        \A k \in Key : About(run.task.act, run.task.prefix, k) =>
            written[k] = Nil \/ written[k] >= run.cutoff

\* Every run ends, though every delete may fail and tenants keep writing.
RunEnds == (pc # "idle") ~> (pc = "idle")
=============================================================================
