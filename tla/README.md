# Formal models of osspilot-ops-api

The repository is the operations API of an object storage platform: a Go HTTP
server over PostgreSQL which administrators use to manage tenant accounts,
buckets, storage regions, lifecycle and alert rules, and which keeps a copy of
part of that at a second service, the *tenant API*. This directory holds TLA+
models of it, the TLC configurations that check them, and proofs for TLAPS.

## 1. The system

Every HTTP request is served by a goroutine of its own. A handler passes a
gate (`auth.RequireUser` or `RequireAdmin`), reads rows, works on the copies in
memory and writes rows back, mostly one statement at a time outside any
transaction, and then may call the tenant API over HTTP. There is no lock in
the process, no queue and no retry. What can go wrong therefore lies between
two statements: another request, a failed call, a client that went away (the
request's context is cancelled and the next statement fails) or a crash.

| component | state | operations | talks to |
|---|---|---|---|
| tenant accounts (`accounts`) | `tenant_accounts` | list, get, create, update, remove, resetPassword | tenant API (upsert, delete), regions |
| bucket grants (`grants`) | `account_bucket_grants` | list, replace, revoke | tenant API (replace buckets), accounts, buckets |
| projection client (`project`) | none | one HTTP call per method, a timeout, any status but 2xx is an error | tenant API |
| alert evaluation (`alerts/evaluate.go`) | none of its own | `Run`: read rules, use, accounts; open and close events | tenant API (use, alerts) |
| alert rules, events, channels (`alerts`) | `alert_rules`, `alert_events`, `notification_channels` | CRUD, ack, resolve, evaluate, test | evaluation, dispatch |
| alert dispatch (`alerts/dispatch.go`) | none | webhooks and mail when an event opens | outside |
| storage regions (`regions`) | `storage_regions` with a partial unique index on the default | list, get, create, update, remove | accounts and buckets refer to it |
| operators (`users`) | `ops_users`, `ops_user_roles` | list, get, create, update, remove, resetPassword | gates |
| gates and login (`auth`) | reads `ops_users` | RequireUser, RequireAdmin, login, changePassword | every handler |
| system settings (`settings`) | `system_settings` | get, put, `Runtime` for other components | tenant API (settings), regions |
| bucket registry (`buckets`) | `platform_buckets` | list, create, import, inventory, discover | RGW, tenant API |
| buckets at the gateway (`buckets/s3.go`, `rgw`) | at RGW | policies, listings | RGW |
| lifecycle rules (`lifecycle/handler.go`) | `lifecycle_rules` | list, create, update, remove | buckets |
| lifecycle runner (`lifecycle/runner.go`) | none | `Run`: delete what is old | RGW |
| ceph management (`ceph`, and the process `cmd/ceph-mgmt`) | none | health, statistics, restart, rolling restart | each other over HTTP, `ceph` CLI |
| audit (`audit`) | `audit_logs` | insert, list, export, merge with the tenant API's | tenant API |
| statistics, access, file locks, tenant RBAC | none | reads and pass-through | tenant API |

What makes each correct, and what is hard about it:

* **accounts and grants**: the tenant API must end up with what the database
  says. Two stores are written one after the other; either write may fail,
  calls that timed out may be served late, and two requests on one account may
  be ordered differently in the two stores. No grant may outlive its account,
  no replace may exceed the account's limit.
* **alerts**: an event must be open for exactly the targets over the threshold.
  "Is there an open event" and "insert one" are two statements; evaluations
  overlap with one another and with operators who acknowledge and resolve;
  the reads an evaluation rests on may fail.
* **regions**: at most one default, no gap in handing it over, no deletion of
  the default or of a region in use. Transactions run at READ COMMITTED, so
  an UPDATE sees what was committed when it started and waits for row locks.
* **operators**: roles of one request, whole; nobody who must change the
  password does anything else; nobody loses what nobody asked to change.
* **settings**: a cleanup that is on has days; the tenant API has the settings.
* **lifecycle runs**: only what a rule asks for is deleted, and all of it; a
  run ends.
* **tables edited by hand** (lifecycle rules, alert rules, channels): a request
  reads a row, merges what the body names and writes every column back, so
  that of two overlapping requests one undoes the other; a row may be gone when
  it is written or read back. What no overlap explains must not be lost, and
  a channel must keep the target its type needs.
* **dispatch**: the rule is read when the evaluation begins, its channels after
  the event was inserted, and the sends follow one by one while operators edit
  both; answers are lost and the evaluation may stop. What the event records of
  its channels must be true, nobody is sent an event twice, and nobody who was
  off all along is sent it.
* **registry**: up to fifty names in one request, each checked at the gateway
  and inserted on its own, racing other requests for the same names and a
  client that leaves. A name is registered once, and what was done is audited.
* **rolling restart**: two processes and an HTTP call between them that gives up
  after 120 seconds, while the pauses alone may take longer; either may go on
  without the other. What is reported must have happened, and a roll must end.
* **audit**: pages are merged from the first rows of two logs which grow while
  an operator turns the pages.

The hazards are listed one by one, with the line they bite at and the
properties aimed at them, in `PROJECT.json`.

## 2. The modules

| module | models | checked by | proofs |
|---|---|---|---|
| `Projection` | accounts, grants, the projection client and the tenant API | `MCProjection`: *projection* | `ProjectionProofs` |
| `Mirror` | what a projection promises, abstractly | refined by `Projection` twice, in *projection* | `ProjectionProofs` |
| `Regions` | regions, and the binding of accounts to them | `MCRegions`: *default_region*, *bound_deleted* | `RegionsProofs` |
| `OpsUsers` | operators, roles, gates | `MCOpsUsers`: *roles* | `OpsUsersProofs` |
| `Alerts` | evaluations, events, ack and resolve | `MCAlerts`: *alerts*, *unknown_use* | `AlertsProofs` |
| `Tables` | the requests that edit lifecycle rules, alert rules and channels | `MCDispatch`: *catalog*, *row_gone* | `DispatchProofs` |
| `Dispatch` | what channels are sent of an event, composed with `Tables` | `MCDispatch`: *catalog* | `DispatchProofs` |
| `Settings` | settings and their push | `MCSettings`: *settings*, *half_written* | `SettingsProofs` |
| `Lifecycle` | a run of the lifecycle rules over a bucket | `MCLifecycle`: *lifecycle* | `LifecycleProofs` |
| `Audit` | the audit log, and a walk of its pages | `MCGateway`: *gateway* | `GatewayProofs` |
| `Buckets` | the registry of buckets, and policies; writes `Audit` | `MCGateway`: *gateway* | `GatewayProofs` |
| `Rolling` | restarts of gateways, in both processes; writes `Audit` | `MCGateway`: *gateway* | `GatewayProofs` |
| `Gateway` | `Buckets`, `Rolling` and `Audit` side by side | `MCGateway`: *gateway* | `GatewayProofs` |

All follow one pattern. `Worker` is a set of goroutines; `pc[w]` says which
statement or call goroutine `w` makes next and `req[w]` (`run[w]`) holds the
handler's local variables. One action is one database statement, one
transaction that holds no lock others wait for, or one HTTP call, together with all
the code up to the next such point; its guard is the handler's conditions. A
request may start whenever its goroutine is idle, so requests come in any
order and number. Errors, cancelled contexts and crashes are the `Abort` (or
`Stop`, `GiveUp`, `Refused`) actions: the goroutine is idle again and the
tables stay as they are. An error answer before anything was written changes
nothing and is a stutter. A few fields and variables are *history*, marked so
where they are declared: the code does not have them and no guard reads them.
`alone` (`calm`, `clean`) says that a request overlapped with nothing that
could interfere, which is how the properties state what a request promises
without claiming what concurrent requests cannot give.

**Projection.** `rows`, `used` and `grants` are the tables, `tenant` and
`tgrants` what the tenant API holds, `late` the calls given up by their caller
which may yet be served. `Create`, `LoadForUpdate`/`WriteRow`/`Reload`,
`LoadForReset`/`WritePassword`, `LoadForRemove`/`DeleteRow` are
`accounts/handler.go` and `store.go`; `PushAccount` reads the secret and
`Delivered`, `Refused`, `GiveUp` end a call. `LoadForReplace`, `ClearGrants`,
`CommitGrants` are `grants.replace` with its transaction (its DELETE sees what
is committed when it runs, its INSERT meets the unique and foreign keys),
`LoadForRevoke`, `DeleteGrant`, `ListGrants` are `revoke`. The pushed columns
are one value, `cfg`. The tenant API is external and modelled by what the
client relies on: upsert writes, deleting an unknown account succeeds (the
client treats 404 as an error and `remove` could otherwise never be repeated), and
buckets of an unknown account are refused. Left out: the tenant's
must-change-password flag and the tenant's own password change, the region's
attributes that are pushed with the account, a server without a projection
client, audit entries.

**Mirror.** A source and a replica over the same keys: while a key is *agreed*
neither side changes and both hold the same value; work on a key opens it, and
closing it makes them equal. `Projection` implements it twice, for accounts
and for grants, with `settled` as the agreed keys. That says more than the
agreement invariants: nothing at all may touch the replica of an agreed key.

**Regions.** `regions` is the table, `bound` the region of each account. A
transaction that clears the default keeps the rows it updated locked until it
commits (`locked`), waits for rows others locked, and on the INSERT or UPDATE
meets the partial unique index (`Admits`). The final statement and COMMIT are
one step: a conflict with an entry that is not committed yet waits and then fails
or goes on, which is the same as starting later. Ids stand for codes. Buckets'
regions are not modelled; accounts exist throughout.

**OpsUsers.** The gate's two statements, then the handler's. `Store.Update` is
one transaction: the UPDATE locks the row (`held`), the roles are deleted as
committed (`seen`) and inserted. Only the flags of the row matter; password
hashes, login, tokens, `resetPassword` and `cmd/reset-password` are left out
(`resetPassword` writes the hash alone).

**Alerts.** An evaluation reads the enabled rules once (`Evaluate`) and the
use report once (`LoadUsage`, which may fail and then counts as nothing used),
then per rule lists targets (`NextRule`) and takes them one by one
(`NextTarget`, `Check`, `InsertEvent`, `Announce`) before it closes the events of
targets it did not see (`ListUnseen`, `ResolveUnseen`); rules with one figure
for the platform go through `ReadRate`. Use, quota and threshold are
abstracted to whether a target's use has reached the threshold; rules about
the same targets share that. Rules are taken in any order. Webhooks are in
`Dispatch`; details, titles and late service of `PutAlert` are left out.

**Settings.** `Put` loads and validates, `Upsert` writes the named keys one by
one in the code's order, then `ReadPublic`, `ReadRegion`, `ReadRuntime` collect
what is pushed; `Get` starts at the second half. A row with an empty text and
no row read the same, as `pick` makes them; a masked secret in a patch is a key
not named. The tenant API keeps keys a push does not name. `ReadRegion` and
`ReadRuntime` may fail and are then passed over, as in the code: without the
regions the endpoint of the settings is pushed in place of the default region's,
without `Runtime` its keys are left out. `agreed` is history: the keys of which the
tenant is known to hold what it should.

**Lifecycle.** `BeginRun` reads the rules (any content of the table),
`NextTask` begins `deletePrefix` or `abortMultipart`, `ListPage` lists and
filters a page, `DeleteNext` deletes, `PageDone` decides whether to go on.
Keys are positions in the order of listings with an area (live, trash,
versions, upload) and a directory; time counts in units of the days a rule
gives. Nothing in this repository calls `Runner.Run`; README.md:26 says a
worker does. Listings are complete and ordered, continue after the token, and a
truncated one has its token, as S3 defines.

**Tables.** `rows` holds the three tables. `Load` is the handler's `GetByID`,
`Update` merges the patch (`Merge`), checks what the handler checks and writes
every column in one UPDATE, `Answer` reads the row once more; `Insert` and
`Delete` are a statement each. `Refuse` is every way to end early. `Answer` of
a row that is gone leads to `panicked`: `toJSON(*out)` of a nil pointer, which
`net/http` recovers (`Recover`). `asked` and `doubt` are history: what was asked
of a row last, and the columns on which an overlapping or failed request
leaves open what the row should hold. The four columns of days are one;
columns no property tells apart are left out. An update takes the channel's
type from the row, as the UPDATE does not name the column (`TypeOfUpdate`), and
`Config` says of each key whether it holds text, blanks, something else or
nothing, as `validateChannel` and `configString` judge them differently.

**Dispatch.** An evaluation reads a rule (`ReadRule`), inserts an event
(`Fire`), lists the enabled channels of the rule as it was read (`ListChannels`),
sends to them one after the other in any order (`SendChannel`, whose POST may
arrive although its answer is lost) and writes the outcomes into the event
(`Record`). It may stop at any point (`Stop`). Which events fire is in
`Alerts`; here any may. `Edit` is a step of `Tables`. `got` counts what the
receivers got, and `listed` and `quiet` are history. Bodies of messages are
left out; a mail is queued and never counts as sent, as the code says.

**Audit.** `log` and `tenantLog` are the two logs, in the order of their ids.
`Written` is `Store.Insert`, used by the modules that audit; its time is when
the statement began, so the order by time and by id differ. `BeginWalk`,
`ListOps`, `Show` and `Turn` are an operator who reads page after page: `ListOps`
reads the ops log, `Show` the tenant API's and merges them (`Merged`, `Slice`).
`InOrder` is the `ORDER BY` of the query, `Taken` the counter of the loop of
`mergePage`.
When the tenant API does not answer, the page is of the ops log alone.

**Buckets.** `Import` begins a request with its names (`create` has one),
`CheckName`, `HeadBucket`, `InsertBucket`, `AuditRegister` and `Enqueue` are done
for each, whatever became of the one before, and `Answer` ends it.
`Leave` is a client that goes away: every call the request still makes fails, the
audit entry too. `Inventory`, `LoadBucket`, `ChangePolicy` and `AuditPolicy` are
the requests about one bucket. `GatewayChanges` is what tenants do at the
gateway. `credit` counts the names reported as imported, `lost` what nobody
could audit; both are history.

**Rolling.** Each operator has one operation `op[o]`: `at` is where the ops
API's handler is and `srv` where the management API is. `StartRestart` and
`StartRoll` send the request, `ListInstances`, `Restart` and `Pause` are the
loop of `RollingRestart`, `Receive` gets the answer, `GiveUp` is the timeout of 120
seconds or a broken connection, `Abandon` a client that leaves, `Notice` the
moment the management API learns that nobody waits, `MgmtRestarts` the
restart of that process. A command that fails or is killed may have restarted
its gateway. Time passes in pauses, counted while the ops API waits.

**Gateway.** The three side by side: a step of one leaves the others' variables
alone, but for the audit log, which they share.

## 3. Runs

Bounds are constants in the `.cfg` files. Two goroutines are enough for every
race of two requests, which all the hazards listed are; with three, the
properties that are proved are covered by the proofs. Symmetry is used for sets
of model values that no definition tells apart (goroutines, ids, hashes...), never
together with liveness.

Several runs have *topics*: a variable `topic` of the MC module is chosen at the
start and `TopicSpec` conjoins to `Next` what the topic confines. Each topic is
a set of behaviours of the module's own specification, so that a property that fails
in a topic fails in the module; the topics keep apart what does not interact
and would only multiply states.

| run | bounds | distinct states | shows |
|---|---|---|---|
| projection | 2 goroutines, 1 name, 2 ids, 1 late call; topics: 2 values of columns and hash without grants, or 2 buckets and limit 1 | 0.74 M | `AccountAgreement`, `GrantAgreement`: what is answered with success and ran alone is what the tenant API holds, whatever failed before; `AccountsMirrored`, `GrantsMirrored`; `GrantsOfLiveAccounts`, `GrantsWithinLimit` |
| alerts | 3 events; topic overlap: 2 evaluations, 1 rule of type quota, rgw or audit; topic conclusive: 1 evaluation, a quota rule and a bucket rule, 2 events | 0.72 M | `OpenEventsBounded`: overlapping evaluations leave at most one event each; `ResolvedIsFinal`; `EvaluationConclusive`: undisturbed, events are open for exactly the targets over the threshold |
| default_region | 2 goroutines, 3 regions, 1 account | 0.25 M | `OneDefault`, `DefaultHandedOver`, `BindingsExist`, `DeleteIsChecked` |
| roles | 2 goroutines, 3 users, 2 sets of roles | 0.86 M | `RolesAsked`, `FirstLoginGate`, `StatusAsked` |
| settings | 2 goroutines, 1 late push; topics: one kind of cleanup, or the endpoint with 2 values | 0.80 M | `PutIsConsistent`; `TenantAgreement`, key by key, with the default region's precedence, through failing reads and abandoned pushes |
| lifecycle | 1 rule, 5 keys, pages of 2, limit 2, 2 units of time | 0.16 M | `TaskIsThorough`, `DeletesAreAsked`, `RunEnds` |
| catalog | topics: 2 goroutines on one lifecycle rule, one alert rule or one channel at a time; or an evaluation of 1 event with 2 channels and one request at a time | 0.33 M | `AskedIsStored`, `ChannelsAreValid`, `NotesAreTrue`, `QuietGetsNothing` |
| gateway | topics register (2 requests, 3 names among them, 2 buckets), policy (a request at a time, 2 changes), roll (2 operators of whom one rolls, 2 gateways, pauses of 0 to 2 against a limit of 1), restart (2 operators, 1 audit entry), walk (4 entries in two logs, 2 times, pages of 2) | 0.55 M | `RegisteredOnce`, `ChangesAreAudited`, `RollIsHonest`, `OkRollsAreShort`, `PageIsRight`, `WalkFindsAll`; `RollEnds` |
| unknown_use | 1 evaluation, 1 quota rule | violated | an evaluation without a use report closes the events of accounts over their quota |
| bound_deleted | 2 goroutines, 2 regions, 1 account | violated | a region is deleted with an account bound after the count |
| half_written | as settings | violated | cleanup enabled without days, by an interrupted PUT or two that overlap |
| row_gone | as catalog | violated | a row deleted between the UPDATE and the read for the answer makes the handler panic, where it means to answer 404 |

The last four are disagreements of the code with the README or its own
messages; `PROJECT.json` quotes them under `findings`. One more needs no run:
`src/README.md:24` says that registering buckets and `import-batch` do not access
RGW, but both ask it for each name (`HeadBucket`, `buckets/handler.go:176`), as the
model does.

What `TenantAgreement` does not claim: `projectTenant` drops the error of
`regions.List` (`settings/handler.go:181`), so that any GET during such an error
pushes the endpoint of the settings over that of the default region, and it stays
until a later request pushes the region's. The model has that push. Nothing in
the repository says which endpoint the tenant should have meanwhile, so the property ends
its claim about the endpoint, and about no other key, when `regions.List` fails
while there is a default region; without that exception TLC finds it violated.
A key without a value is not pushed, and nothing is claimed of it.

Why the bounds reach the interesting cases: one name with two ids is an account
removed and created again under its name while old requests are in flight; two
buckets and a limit of one let a replace and a survivor of an overlapping one
exceed it; three regions let two requests each move the default away from a
third; three events are one more than two overlapping evaluations should open;
pages of two over five keys, of which three are live, make an action cross a
page and meet its limit in the middle of one; the trash sorts first, so that the
first page has a key that must be kept. Two goroutines on one row are all that
an overwrite takes; two channels let one be sent to while the other is edited.
Three names over two requests are a batch that races another for a name, or
holds one twice; a name that is refused stands in a batch before one that is
not. Pauses of 0, 1 and 2 against a limit of 1 are rolls that fit, just fit and
do not; one roll against single restarts is every interference, as operations
share no state but the audit log. Pages of two over four entries have an entry
of each log on both sides of the boundary, and entries that push others over it.
The topics of *settings* are apart because the kinds of cleanup and the plain
keys do not interact; each other kind of cleanup is a copy of the one checked.

Deadlock is checked in *settings* and *lifecycle*. In the other passing runs ids and
events are never reused, so an instance that has used them all, or a log that
has reached its bound, may stop, which the system does not.

**Fairness.** `FairSpec` of `Lifecycle` is weak fairness of the run's own steps
(`RunStep`), that is, that the process is scheduled and each S3 call returns, with
success or not. `RollingFairness` is weak fairness of each side of each
operation by itself: the handler's goroutine goes on, gives up when its 120 seconds
are over and audits; the management API's loop goes on, its commands being
killed after `CEPH_RESTART_TIMEOUT_SECONDS` and its pauses bounded by
`wait_seconds`. That a client leaves, that the management API notices it, its
restarts, tenants, time and crashes are not fair. Everything else is safety:
nothing retries a failed push, evaluation or send, so nothing is bound to happen
eventually.

Each property of a passing run has a mutant, a plausible bug of the code
written as a definition next to the one it replaces (`... Mutant of ...`), under
which TLC finds the property violated.

## 4. Proofs

TLAPS proves, for every value of the constants that satisfies the `ASSUME`
(sets of any size, any limits and bounds):

* `ProjectionProofs`: `TypeOK`, `AccountAgreement`, `GrantAgreement`,
  `GrantsOfLiveAccounts`, `GrantsWithinLimit`; and that `Projection` implements
  `Mirror`, once for accounts and once for grants (`AccountsMirrored`,
  `GrantsMirrored`).
* `RegionsProofs`: `TypeOK`, `OneDefault`, `BindingsExist`, `DeleteIsChecked`
  and the action property `DefaultHandedOver`.
* `OpsUsersProofs`: `TypeOK`, `RolesAsked`, `FirstLoginGate` and the action
  property `StatusAsked`.
* `AlertsProofs`: `TypeOK`, `OpenEventsBounded`, `EvaluationConclusive` and the
  action property `ResolvedIsFinal`.
* `SettingsProofs`: `TypeOK`, `PutIsConsistent`, `TenantAgreement`.
* `LifecycleProofs`: `TypeOK`, `TaskIsThorough` and the action property
  `DeletesAreAsked`.
* `DispatchProofs`: of `Tables`, `TypeOK`, `AskedIsStored`, `ChannelsAreValid`; that
  `Dispatch` implements `Tables` (`DispatchKeepsTables`), hence both properties of
  the tables there; `DispatchTypeOK`, `NotesAreTrue`, `QuietGetsNothing`.
* `GatewayProofs`: `GatewayTypeOK`, `RegisteredOnce`, `ChangesAreAudited`,
  `RollIsHonest`, `OkRollsAreShort`, `PageIsRight`, `WalkFindsAll`.

Each module defines an inductive invariant (`IInv`; `DInv` of `Dispatch`; `BInv`
and `CInv` of `Buckets`, `RInv` and `TInv` of `Rolling`, `WInv` of `Audit`), proves `Init => IInv` and
`IInv /\ [Next]_vars => IInv'` with one lemma per action or group of actions,
and derives the properties. The constants are assumed to be as the code has them:
`Worker` is finite where goroutines are counted (`Alerts`, `Buckets`), `Nil` is
no value of a column.

*Projection.* Agreement is not inductive: that a push leaves the replica equal
to the row depends on nobody having written the row since it was read, and on
nobody still being about to write the replica. `IInv` is `TypeOK`, `Local` (what
local variables hold at each statement), `LateInv` (types of abandoned calls),
`Database` (names are unique, ids are not reused, grants have rows),
`Exclusive` (a request that is alone has no rival and there is no late call for
its account), `Quiet` (while an aspect of an account is settled no request and
no late call is about to touch it), `Progress` (what a request that is alone
has established when it gets to each statement: its copy is the row, the row
the tenant's record, the grants the list it will push) and `Mirrored` (the
agreement, row by row). A step by a rival ends both `alone` and `settled`; all
others touch other accounts or other aspects (`Apart`).

That `Projection` implements `Mirror` rests on the same invariant. Every step of
a request under way has an *effect* (`Effect`): it writes rows or the tenant's
records, never both, of its own account and of the aspects it acts on, none of
which is settled (`Quiet`). So it is `Work` on an open key, or `Close` when it
also settles, which agreement, holding after the step, makes a moment when both
sides are equal. The first step of a request is `Open` or `Work`, an abandoned
call served late is `Work`, everything else a stutter.

*Regions.* `IInv` is `TypeOK`, `Local`, `Intent` (only a request that sets the
flag clears it elsewhere), `Locks` (a row a transaction cleared is to the others
still the default, and no two transactions hold the same), `OneDefault`,
`BindingsExist` and `Checked` (what a delete that is alone has read is still so).

*OpsUsers.* `IInv` is `TypeOK`, `Local`, `Locked` (the row of an open
transaction exists, no other transaction has it, and its roles are those the
DELETE saw), `Gate` (the actor of any request but a change of password need not
change it; ids are not reused, so the actor's row is the one the gate read or
gone) and `RolesAsked`. For `StatusAsked`, `AInv` adds that a request that is
alone has the server to itself (`Solo`) and carries from its read to its commit
the status its user has (`Carried`).

*Alerts.* The bound on open events is not inductive: an evaluation that has found
no open event inserts one later. `Bounded` counts both: of a rule and a target,
open events and evaluations about to insert one are together at most the
goroutines, for an evaluation only gets there when no event is open.
`Untargeted` says that a rule with one figure for the platform has events without
a target, so that they are counted where they belong. `Apart` says that nothing is
under way beside a calm request, and `Calm` what a calm evaluation has established,
rule by rule and target by target, and what it still has to do (`Thorough`).

*Settings.* `IInv` is `Types`, `Apart` (nothing is under way, and no push is late,
beside a request that is alone), `Calm` (what such a PUT checked of the
rows holds while it writes them one by one, and after: `Promise`), `Fresh` (what
it has read is what is stored: `Whole`; and what anybody has read of a key on which
the tenant agrees is that, or nothing where a read failed: `Seen`) and `Settled`
(nobody writes a key on which the tenant agrees, and late pushes leave it out or
say what it has).

*Lifecycle.* `IInv` is `TypeOK`, `Local`, `Wanted` (tasks are about what enabled
rules ask for), `Listed` (what is on the page was asked for, and old or
overwritten since) and `Ahead` (of an undisturbed task, an old key that is left
is on the page or after its token). That a page is a beginning of what was found,
so that a short one is all of it, is an induction over the order of the keys. It is
done with the least number of a set of naturals (`Least`, from the library's
well-foundedness of `<`), which takes no operator as a parameter.

*Tables.* The properties say nothing of a request in the middle of its work, so
`IInv` adds `Loaded`: a goroutine that has read a row still has, in every column
nobody else has named since (`over`), what the row holds, and a
channel's copy is valid. A merge of such a copy writes nothing back that was
not there, and the history `asked` and `doubt` follows. That channels stay
valid also needs that no update changes a channel's type.

*Dispatch.* `DispatchSpec => Spec` holds as every step of `Dispatch` is a step
of `Tables` or leaves the tables alone; so the theorems of `Tables` carry
over. `DInv` is the shapes, `Fresh` (an event not fired has nothing), `Owns` (an
event being dispatched has one evaluation), `Before`, `Sending` (each channel
listed is either still to be sent to or has a result, never both; results are the
truth), `QuietIsOff`, and the two properties.

*Rolling.* `RInv` says of each operation that what was restarted is a first part of
what was listed, followed by exactly what is still to do while the loop
runs, that an answer of success means all of it, and that an audit entry of
success rests on such an answer. `FirstPart` states "first part" with an
existential, which the provers handle better than `IsPrefix`; the two are
shown equivalent for lists of gateways. `TInv` keeps account of time: the pauses made
and the one under way fit into the time that has passed while the ops API waits
(`Fit`), and it waits no longer than the limit.

*Gateway.* `BInv` follows, for each name, the one request whose INSERT made the row:
until it has answered, nobody has been credited with the name; until it has
audited, no entry of the log says so; and no other request is in its place
(`Once`). That restarts and other entries leave this alone is
`ApartBInv`. `CInv` counts: of each name, the changes made at the gateway are at
most the entries of a change and the requests about to write one, and a
registered name has an entry of its own or a request about to write it, unless
the audit was lost. All the invariants together are one theorem of the composition.

*Audit.* What pages hold is a matter of lists in order, of which the proof has a
small theory: a finite set of items has exactly one list (`InOrderLists`: the places
are as many as the items, and no two share one; `OneList`), an item does not come
earlier in the list of more items (`RankGrows`), so the first rows of two sets are all
that the first rows of both can hold (`FirstOfBoth`, the comment of `mergePage` on
its "only the first need rows from each source"). `MergedLists` is the loop of
`mergePage`: what a round takes is later than all that is left, and the rounds leave
nothing. Its counter is a recursive function; that it exists, and what it is after each
round, are inductions done with the least counterexample (`Least`). On this stands
`WInv`: rows only come after others, so the ops rows read are those of the log as
it was, the page shown is the page of both logs as they were read, and of the
entries there at the beginning all those that are now among the pages turned
were seen (`SeenFirst`): rows that come meanwhile push entries to later pages,
never to earlier ones.

Only model-checked: liveness (`RunEnds`, `RollEnds`) and `ENABLED`, which are out of
the prover's reach; and that the system does not get stuck (deadlock). All other
properties of the passing runs are theorems.

## 5. Not modelled

Statistics (reads and sums), access, file locks and tenant RBAC (each passes
a request on and its answer back), start-up, configuration, texts and logging.
Of modelled parts: password hashes, tokens and login; region attributes
inside a pushed account; the texts of masked secrets; filters, totals and the
texts of audit entries, which other components' operations write too and which change
nothing else; the region a bucket is given; columns of rules and channels that
only pass through; bodies of notifications; the management API's reads of the
cluster.

## 6. Plan

In the order of the system's own weight; the first twelve are done.

1. `Projection` with `Mirror`, and its proofs: the two stores and their agreement.
2. `Regions` and its proofs.
3. `Alerts`.
4. `OpsUsers` and its proofs.
5. `Settings`.
6. `Lifecycle`.
7. `Tables`: the requests that write rules and channels, and its proofs.
8. `Dispatch` over `Tables`, and its proofs.
9. `Audit`, `Buckets`, `Rolling`, and `Gateway` which composes them.
10. Proofs of `RegisteredOnce` and `RollIsHonest`.
11. Proofs of the other safety properties: `OpenEventsBounded`, `ResolvedIsFinal`,
    `ChangesAreAudited`, `OkRollsAreShort`, `TenantAgreement`, `PutIsConsistent`,
    `DeletesAreAsked`, `StatusAsked`, and the refinement of `Mirror`.
12. Proofs of `PageIsRight` and `WalkFindsAll`, for which `Audit` states the order of
    a list by places and the loop of `mergePage` by its counter.
13. Password hashes: a change of password against a reset, login in between;
    the tenant's must-change flag in `Projection`.
14. Functions checked against reference definitions: percentile and top users of
    statistics, the masks of settings.
