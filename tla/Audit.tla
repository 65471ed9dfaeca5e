------------------------------- MODULE Audit --------------------------------
(***************************************************************************)
(* The audit log (internal/audit): what operations of the ops API write to *)
(* it, and how an operator walks its pages.  A page is merged from the     *)
(* newest rows of two sources read one after the other: the table          *)
(* audit_logs and the tenant API, which keeps a log of its own; both grow  *)
(* all the while.  Rows are never changed or deleted.                      *)
(*                                                                         *)
(* Filters are left out: the walk is of whatever entries they select.  An  *)
(* export is the first page, of 10000 rows.                                *)
(***************************************************************************)
EXTENDS Naturals, Sequences, SequencesExt

CONSTANTS
    PageSize,  \* rows in a page
    MaxLog,    \* bound: rows either source ever holds
    MaxTime,   \* bound: the last unit of time
    Nil        \* nothing

Time == 0..MaxTime

\* tenantIDShift: no id of the ops log is as large.
TenantIDShift == MaxLog

ASSUME AuditAssumption == PageSize \in Nat \ {0} /\ MaxLog \in Nat /\ MaxTime \in Nat

VARIABLES
    now,        \* the time
    log,        \* audit_logs, by id: what each row says and its created_at
    tenantLog,  \* created_at of the rows of the tenant API's log, by id
    walk        \* the operator walking the pages

auditVars == <<now, log, tenantLog, walk>>
notLog    == <<now, tenantLog, walk>>

(***************************************************************************)
(* The page being read, the rows read of the ops log, what was shown.      *)
(* `nOps', `nTenant', `start', `seen' and `whole' are history: how long    *)
(* the logs were when they were read, the rows there when the walk began,  *)
(* those shown since, and that the tenant API answered every time.         *)
(***************************************************************************)
Asleep == [at |-> "idle", page |-> 0, ops |-> <<>>, shown |-> <<>>, nOps |-> 0, nTenant |-> 0,
           start |-> {}, seen |-> {}, whole |-> TRUE]

-----------------------------------------------------------------------------
(***************************************************************************)
(* Writing                                                                 *)
(***************************************************************************)
\* Mutant of Written: the status is what the answer says.
WrittenAsAnswered(act, about, status) ==
    /\ Len(log) < MaxLog
    /\ log' = Append(log, [act |-> act, about |-> about, at |-> now,
                           status |-> IF status = "success" THEN "ok" ELSE "error"])
    /\ UNCHANGED notLog

\* Store.Insert: created_at is when the statement began.
Written(act, about, status) ==
    /\ Len(log) < MaxLog
    /\ \E t \in {now, now - 1} \cap Time :
          log' = Append(log, [act |-> act, about |-> about, status |-> status, at |-> t])
    /\ UNCHANGED notLog

Rows(act, about, status) ==
    Cardinality({i \in DOMAIN log : /\ log[i].act = act
                                    /\ log[i].about = about
                                    /\ log[i].status = status})

\* Any other audited operation.
OtherWrite == Written("other", Nil, "success")

\* A tenant does something its API logs.
TenantWrite ==
    /\ Len(tenantLog) < MaxLog
    /\ \E t \in {now, now - 1} \cap Time : tenantLog' = Append(tenantLog, t)
    /\ UNCHANGED <<now, log, walk>>

Tick ==
    /\ now < MaxTime
    /\ now' = now + 1
    /\ UNCHANGED <<log, tenantLog, walk>>

-----------------------------------------------------------------------------
(***************************************************************************)
(* Reading                                                                 *)
(***************************************************************************)
\* Items by id, those of the tenant API shifted (tenantEntries).
OpsItems(n)    == {[id |-> i, at |-> log[i].at] : i \in 1..n}
TenantItems(n) == {[id |-> i + TenantIDShift, at |-> tenantLog[i]] : i \in 1..n}
Items          == OpsItems(Len(log)) \cup TenantItems(Len(tenantLog))

\* after; and ORDER BY created_at DESC, id DESC.
After(x, y) == IF x.at = y.at THEN x.id > y.id ELSE x.at > y.at

\* The list of items in that order: as many are before one as its place says.
InOrder(items) ==
    [k \in 1..Cardinality(items) |->
        CHOOSE x \in items : Cardinality({y \in items : After(y, x)}) = k - 1]

Newest(items, n) == LET s == InOrder(items) IN SubSeq(s, 1, IF n < Len(s) THEN n ELSE Len(s))

\* Mutant of Need: the rows of one page.
NeedOnePage(page) == PageSize

\* Rows to read of each source for a page.
Need(page) == page * PageSize

\* The loop of mergePage over two lists in order: its counter of rows taken from
\* the ops log, after k rounds; the other k - i[k] are from the tenant's.
Taken(ops, tenant) ==
    LET i[k \in 0..Len(ops) + Len(tenant)] ==
            IF k = 0 THEN 0
            ELSE IF /\ i[k - 1] < Len(ops)
                    /\ \/ k - 1 - i[k - 1] >= Len(tenant)
                       \/ After(ops[i[k - 1] + 1], tenant[k - i[k - 1]])
            THEN i[k - 1] + 1 ELSE i[k - 1]
    IN  i

\* What each round appends to the page.
Merged(ops, tenant) ==
    LET i == Taken(ops, tenant)
    IN  [k \in 1..Len(ops) + Len(tenant) |->
            IF i[k] > i[k - 1] THEN ops[i[k]] ELSE tenant[k - i[k]]]

\* Mutant of Slice: its first item is left out.
SliceLate(s, page) ==
    LET end == page * PageSize
    IN  SubSeq(s, (page - 1) * PageSize + 2, IF end < Len(s) THEN end ELSE Len(s))

\* The slice of a list that is a page.
Slice(s, page) ==
    LET end == page * PageSize
    IN  SubSeq(s, (page - 1) * PageSize + 1, IF end < Len(s) THEN end ELSE Len(s))

BeginWalk ==
    /\ walk.at = "idle"
    /\ walk' = [Asleep EXCEPT !.at = "ops", !.page = 1, !.start = Items]
    /\ UNCHANGED <<now, log, tenantLog>>

\* Store.List; an error ends the walk.
ListOps ==
    /\ walk.at = "ops"
    /\ \/ walk' = [walk EXCEPT !.at = "tenant", !.nOps = Len(log),
                               !.ops = Newest(OpsItems(Len(log)), Need(walk.page))]
       \/ walk' = Asleep
    /\ UNCHANGED <<now, log, tenantLog>>

\* tenantAudit and mergePage: when the tenant API does not answer, the page is
\* of the ops log alone.
Show ==
    /\ walk.at = "tenant"
    /\ \E answered \in BOOLEAN :
        LET n      == IF answered THEN Len(tenantLog) ELSE 0
            merged == Merged(walk.ops, Newest(TenantItems(n), Need(walk.page)))
            shown  == Slice(merged, walk.page)
        IN  walk' = [walk EXCEPT !.at = "shown", !.ops = <<>>, !.shown = shown, !.nTenant = n,
                                 !.seen = @ \cup ToSet(shown),
                                 !.whole = @ /\ answered]
    /\ UNCHANGED <<now, log, tenantLog>>

\* The operator turns the page, unless it was the last.
Turn ==
    /\ walk.at = "shown"
    /\ Len(walk.shown) = PageSize
    /\ walk' = [walk EXCEPT !.at = "ops", !.page = @ + 1, !.shown = <<>>]
    /\ UNCHANGED <<now, log, tenantLog>>

Close ==
    /\ walk.at = "shown"
    /\ walk' = Asleep
    /\ UNCHANGED <<now, log, tenantLog>>

-----------------------------------------------------------------------------
AuditInit ==
    /\ now = 0
    /\ log = <<>>
    /\ tenantLog = <<>>
    /\ walk = Asleep

AuditNext == OtherWrite \/ TenantWrite \/ Tick \/ BeginWalk \/ ListOps \/ Show \/ Turn \/ Close

-----------------------------------------------------------------------------
(***************************************************************************)
(* Properties                                                              *)
(***************************************************************************)
\* A page holds exactly the items it would if both logs were one: merging only
\* the first rows of each loses none and shows none twice (mergePage's "only
\* the first need rows from each source", internal/audit/merge.go:32).
PageIsRight ==
    walk.at = "shown" =>
        walk.shown = Slice(InOrder(OpsItems(walk.nOps) \cup TenantItems(walk.nTenant)), walk.page)

\* A walk to the last page, on which the tenant API answered every time, has
\* shown every entry that was there when it began, however the logs grew
\* between two pages and between the two reads of one.
WalkFindsAll ==
    (walk.at = "shown" /\ Len(walk.shown) < PageSize /\ walk.whole) => walk.start \subseteq walk.seen
=============================================================================
