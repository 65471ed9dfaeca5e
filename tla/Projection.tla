----------------------------- MODULE Projection -----------------------------
(***************************************************************************)
(* The tenant accounts and bucket grants of the operations database, and   *)
(* the copy of them the tenant API keeps (internal/accounts,               *)
(* internal/grants, internal/project).  Every HTTP request is a goroutine  *)
(* of its own: it reads and writes the database in separate statements,    *)
(* then calls the tenant API, and nothing ties the two together.  Any      *)
(* request may stop at any step (error, cancelled context, crash), and a   *)
(* call that was given up may still reach the tenant API later.            *)
(***************************************************************************)
EXTENDS Naturals, FiniteSets

CONSTANTS
    Worker,      \* goroutines serving requests at the same time
    Username,    \* account names, the key of the tenant API
    Id,          \* primary keys of tenant_accounts, never reused
    Bucket,      \* registered buckets; the code never removes or disables one
    Config,      \* values of the row's columns that are pushed (status, quota, region...)
    Hash,        \* password hashes
    Limit,       \* values of bucket_limit
    Operations,  \* the requests clients send in this instance
    MaxLate,     \* bound: abandoned calls in flight at the same time
    Nil,         \* SQL NULL, a Go nil pointer, no row
    NoHash       \* the empty hash Secret returns for a row that is gone

PushOps  == {"create", "update", "reset"}
GrantOps == {"replace", "revoke"}
AllOps   == PushOps \cup GrantOps \cup {"remove"}
Limits   == Limit \cup {Nil}

AccountRow == [user : Username, cfg : Config, limit : Limits, hash : Hash]
TenantRow  == [cfg : Config, hash : Hash \cup {NoHash}]

ASSUME ConstantsAssumption ==
    /\ Operations \subseteq AllOps
    /\ Limit \subseteq Nat
    /\ MaxLate \in Nat
    /\ IsFiniteSet(Bucket)
    /\ NoHash \notin Hash
    /\ Nil \notin Username \cup Id \cup Config \cup Limit \cup Hash \cup {NoHash}
    /\ Nil \notin AllOps
    /\ Nil \notin AccountRow
    /\ Nil \notin TenantRow

VARIABLES
    rows,     \* tenant_accounts: id -> row or Nil
    used,     \* ids the sequence has handed out
    grants,   \* account_bucket_grants: id -> granted buckets
    tenant,   \* the tenant API's accounts: username -> record or Nil
    tgrants,  \* the tenant API's buckets of each account
    pc,       \* where each goroutine is
    req,      \* its local variables
    late,     \* calls the caller gave up on that may still be served
    settled   \* history: what is known to be mirrored, see Start and Answer

db   == <<rows, used, grants>>
api  == <<tenant, tgrants>>
vars == <<rows, used, grants, tenant, tgrants, pc, req, late, settled>>

(***************************************************************************)
(* Calls to the tenant API.  Deletion of an unknown account succeeds: the  *)
(* client treats every status outside 2xx as an error and has no case for  *)
(* 404, so it relies on that.  Buckets of an unknown account are refused.  *)
(***************************************************************************)
Call(op) == IF op \in PushOps THEN "upsert"
            ELSE IF op = "remove" THEN "delete" ELSE "buckets"

Aspects == {"acct", "grant"}

\* What a call writes at the tenant API.
Touches(kind) == IF kind = "upsert" THEN {"acct"}
                 ELSE IF kind = "buckets" THEN {"grant"} ELSE Aspects

Message == [kind : {"upsert", "delete", "buckets"}, user : Username,
            cfg : Config \cup {Nil}, hash : Hash \cup {NoHash, Nil}, set : SUBSET Bucket]

Accepts(m) == m.kind = "buckets" => tenant[m.user] # Nil

Serve(m) ==
    \/ /\ m.kind = "upsert"
       /\ tenant' = [tenant EXCEPT ![m.user] = [cfg |-> m.cfg, hash |-> m.hash]]
       /\ UNCHANGED tgrants
    \/ /\ m.kind = "delete"
       /\ tenant' = [tenant EXCEPT ![m.user] = Nil]
       /\ tgrants' = [tgrants EXCEPT ![m.user] = {}]
    \/ /\ m.kind = "buckets"
       /\ tgrants' = [tgrants EXCEPT ![m.user] = m.set]
       /\ UNCHANGED tenant

-----------------------------------------------------------------------------
Blank == [op |-> Nil, id |-> Nil, user |-> Nil, cfg |-> Nil, limit |-> Nil,
          hash |-> Nil, set |-> {}, seen |-> {}, alone |-> FALSE]

Request == [op : AllOps, id : Id, user : Username, cfg : Config \cup {Nil},
            limit : Limits, hash : Hash \cup {NoHash, Nil},
            set : SUBSET Bucket, seen : SUBSET Bucket, alone : BOOLEAN]

Busy == {w \in Worker : pc[w] # "idle"}

\* The call worker w makes, built from its local variables.
Outgoing(w) == [kind |-> Call(req[w].op), user |-> req[w].user, cfg |-> req[w].cfg,
                hash |-> req[w].hash, set |-> req[w].set]

\* Request v and a request r write the same aspect of the same account.
Rivals(v, r) == /\ v \in Busy
                /\ req[v].user = r.user
                /\ Touches(Call(req[v].op)) \cap Touches(Call(r.op)) # {}

LateRival(m, r) == /\ m.user = r.user
                   /\ Touches(m.kind) \cap Touches(Call(r.op)) # {}

(***************************************************************************)
(* The first database statement of request r by worker w, which goes on at *)
(* `next'.  The history variables record that what r may change is no      *)
(* longer known to be mirrored, and that r and the requests and calls it   *)
(* overlaps with did not run alone.                                        *)
(***************************************************************************)
Start(w, r, next) ==
    /\ pc[w] = "idle"
    /\ r.op \in Operations
    /\ pc' = [pc EXCEPT ![w] = next]
    /\ req' = [v \in Worker |->
                  IF v = w
                  THEN [r EXCEPT !.alone = /\ \A x \in Worker : ~Rivals(x, r)
                                           /\ \A m \in late : ~LateRival(m, r)]
                  ELSE IF Rivals(v, r) THEN [req[v] EXCEPT !.alone = FALSE] ELSE req[v]]
    /\ settled' = [settled EXCEPT ![r.user] = @ \ Touches(Call(r.op))]

\* The handler returns; `ok' is whether it answers with a success.
Answer(w, ok) ==
    /\ pc' = [pc EXCEPT ![w] = "idle"]
    /\ req' = [req EXCEPT ![w] = Blank]
    /\ settled' = IF ok /\ req[w].alone
                  THEN [settled EXCEPT ![req[w].user] = @ \cup Touches(Call(req[w].op))]
                  ELSE settled

\* The handler goes on at `next' with local variables r.
Continue(w, r, next) ==
    /\ pc' = [pc EXCEPT ![w] = next]
    /\ req' = [req EXCEPT ![w] = r]
    /\ UNCHANGED settled

-----------------------------------------------------------------------------
(***************************************************************************)
(* internal/accounts                                                       *)
(***************************************************************************)
\* The rows of a username: the unique index admits at most one.
RowsOf(u) == {i \in Id : rows[i] # Nil /\ rows[i].user = u}

\* Mutant of Create: the record Insert returns is pushed as it is, not read again.
CreateUnread(w) ==
    \E u \in Username, i \in Id \ used, c \in Config, l \in Limits, h \in Hash :
        /\ RowsOf(u) = {}
        /\ Start(w, [Blank EXCEPT !.op = "create", !.id = i, !.user = u], "secret")
        /\ rows' = [rows EXCEPT ![i] = [user |-> u, cfg |-> c, limit |-> l, hash |-> h]]
        /\ used' = used \cup {i}
        /\ UNCHANGED <<grants, api, late>>

\* create: INSERT; a taken username is answered with 409 and changes nothing.
Create(w) ==
    /\ pc[w] = "idle"
    /\ \E u \in Username, i \in Id \ used, c \in Config, l \in Limits, h \in Hash :
           /\ RowsOf(u) = {}
           /\ Start(w, [Blank EXCEPT !.op = "create", !.id = i, !.user = u], "reload")
           /\ rows' = [rows EXCEPT ![i] = [user |-> u, cfg |-> c, limit |-> l, hash |-> h]]
           /\ used' = used \cup {i}
           /\ UNCHANGED <<grants, api, late>>

\* update: read the row and merge the patch into it; columns the patch does
\* not name keep the value read here, which is one of the choices of c and l.
LoadForUpdate(w) ==
    /\ pc[w] = "idle"
    /\ \E i \in Id, c \in Config, l \in Limits :
           /\ rows[i] # Nil
           /\ Start(w, [Blank EXCEPT !.op = "update", !.id = i, !.user = rows[i].user,
                                     !.cfg = c, !.limit = l], "write")
           /\ UNCHANGED <<db, api, late>>

\* Store.Update writes every mutable column.  A row that is gone makes it
\* return nil, which the handler dereferences.
WriteRow(w) ==
    /\ pc[w] = "write"
    /\ LET i == req[w].id IN
       \/ /\ rows[i] # Nil
          /\ rows' = [rows EXCEPT ![i] = [@ EXCEPT !.cfg = req[w].cfg, !.limit = req[w].limit]]
          /\ Continue(w, req[w], "reload")
       \/ /\ rows[i] = Nil
          /\ Answer(w, FALSE)
          /\ UNCHANGED rows
    /\ UNCHANGED <<used, grants, api, late>>

\* The row Insert and Update return is read again with GetByID (nil as above).
Reload(w) ==
    /\ pc[w] = "reload"
    /\ LET i == req[w].id IN
       \/ /\ rows[i] # Nil
          /\ Continue(w, [req[w] EXCEPT !.cfg = rows[i].cfg], "secret")
       \/ /\ rows[i] = Nil
          /\ Answer(w, FALSE)
    /\ UNCHANGED <<db, api, late>>

\* resetPassword: read the row, which is what will be pushed.
LoadForReset(w) ==
    /\ pc[w] = "idle"
    /\ \E i \in Id, h \in Hash :
           /\ rows[i] # Nil
           /\ Start(w, [Blank EXCEPT !.op = "reset", !.id = i, !.user = rows[i].user,
                                     !.cfg = rows[i].cfg, !.hash = h], "password")
           /\ UNCHANGED <<db, api, late>>

\* Mutant of WritePassword: the new hash is not pushed.
WritePasswordUnpushed(w) ==
    /\ pc[w] = "password"
    /\ rows[req[w].id] # Nil
    /\ rows' = [rows EXCEPT ![req[w].id].hash = req[w].hash]
    /\ Answer(w, TRUE)
    /\ UNCHANGED <<used, grants, api, late>>

WritePassword(w) ==
    /\ pc[w] = "password"
    /\ LET i == req[w].id IN
       \/ /\ rows[i] # Nil
          /\ rows' = [rows EXCEPT ![i] = [@ EXCEPT !.hash = req[w].hash]]
          /\ Continue(w, req[w], "secret")
       \/ /\ rows[i] = Nil
          /\ Answer(w, FALSE)
          /\ UNCHANGED rows
    /\ UNCHANGED <<used, grants, api, late>>

\* pushAccount: the hash is read afresh, the rest comes from the record in hand.
PushAccount(w) ==
    /\ pc[w] = "secret"
    /\ LET i == req[w].id
           h == IF rows[i] = Nil THEN NoHash ELSE rows[i].hash
       IN  Continue(w, [req[w] EXCEPT !.hash = h], "sent")
    /\ UNCHANGED <<db, api, late>>

\* remove: read the row, then delete the account at the tenant API first.
LoadForRemove(w) ==
    /\ pc[w] = "idle"
    /\ \E i \in Id :
           /\ rows[i] # Nil
           /\ Start(w, [Blank EXCEPT !.op = "remove", !.id = i, !.user = rows[i].user], "sent")
           /\ UNCHANGED <<db, api, late>>

\* Store.Delete; the foreign key of the grants cascades.
DeleteRow(w) ==
    /\ pc[w] = "delete"
    /\ LET i == req[w].id IN
       \/ /\ rows[i] # Nil
          /\ rows' = [rows EXCEPT ![i] = Nil]
          /\ grants' = [grants EXCEPT ![i] = {}]
          /\ Answer(w, TRUE)
       \/ /\ rows[i] = Nil
          /\ Answer(w, FALSE)
          /\ UNCHANGED <<rows, grants>>
    /\ UNCHANGED <<used, api, late>>

-----------------------------------------------------------------------------
(***************************************************************************)
(* internal/grants                                                         *)
(***************************************************************************)
\* Mutant of ExceedsLimit: off by one.
ExceedsLimitByTwo(set, limit) == limit # Nil /\ Cardinality(set) > limit + 1

ExceedsLimit(set, limit) == limit # Nil /\ Cardinality(set) > limit

\* replace: read the account and check its limit.  All buckets exist.
LoadForReplace(w) ==
    /\ pc[w] = "idle"
    /\ \E i \in Id, set \in SUBSET Bucket :
           /\ rows[i] # Nil
           /\ ~ExceedsLimit(set, rows[i].limit)
           /\ Start(w, [Blank EXCEPT !.op = "replace", !.id = i, !.user = rows[i].user,
                                     !.limit = rows[i].limit, !.set = set], "clear")
           /\ UNCHANGED <<db, api, late>>

\* Mutant of ClearGrants: Replace only inserts.
ClearNothing(w) ==
    /\ pc[w] = "clear"
    /\ Continue(w, [req[w] EXCEPT !.seen = {}], "commit")
    /\ UNCHANGED <<db, api, late>>

\* The DELETE of Replace's transaction sees the rows committed so far.
ClearGrants(w) ==
    /\ pc[w] = "clear"
    /\ Continue(w, [req[w] EXCEPT !.seen = grants[req[w].id]], "commit")
    /\ UNCHANGED <<db, api, late>>

\* Rows other transactions deleted are no longer there for their DELETE either.
Forget(w, i, gone, r) ==
    req' = [v \in Worker |->
               IF v = w THEN r
               ELSE IF req[v].id = i THEN [req[v] EXCEPT !.seen = @ \ gone] ELSE req[v]]

\* Mutant of CommitGrants: no foreign key to the account.
CommitUnchecked(w) ==
    /\ pc[w] = "commit"
    /\ LET i        == req[w].id
           survivor == grants[i] \ req[w].seen
       IN  /\ grants' = [grants EXCEPT ![i] = survivor \cup req[w].set]
           /\ pc' = [pc EXCEPT ![w] = "sent"]
           /\ Forget(w, i, req[w].seen, [req[w] EXCEPT !.seen = {}])
    /\ UNCHANGED <<rows, used, api, late, settled>>

\* The INSERTs and the commit.  Rows committed since the DELETE (READ
\* COMMITTED) survive it; an INSERT of one of them, or for an account that is
\* gone, fails and rolls the transaction back.
CommitGrants(w) ==
    /\ pc[w] = "commit"
    /\ LET i        == req[w].id
           survivor == grants[i] \ req[w].seen
           valid    == /\ req[w].set \cap survivor = {}
                       /\ req[w].set # {} => rows[i] # Nil
       IN  \/ /\ valid
              /\ grants' = [grants EXCEPT ![i] = survivor \cup req[w].set]
              /\ pc' = [pc EXCEPT ![w] = "sent"]
              /\ Forget(w, i, req[w].seen, [req[w] EXCEPT !.seen = {}])
              /\ UNCHANGED settled
           \/ /\ ~valid
              /\ Answer(w, FALSE)
              /\ UNCHANGED grants
    /\ UNCHANGED <<rows, used, api, late>>

\* revoke: read the account.
LoadForRevoke(w) ==
    /\ pc[w] = "idle"
    /\ \E i \in Id, b \in Bucket :
           /\ rows[i] # Nil
           /\ Start(w, [Blank EXCEPT !.op = "revoke", !.id = i, !.user = rows[i].user,
                                     !.set = {b}], "revoke")
           /\ UNCHANGED <<db, api, late>>

\* Store.Revoke: one DELETE; no such grant is answered with 404.
DeleteGrant(w) ==
    /\ pc[w] = "revoke"
    /\ LET i == req[w].id IN
       \/ /\ req[w].set \subseteq grants[i]
          /\ grants' = [grants EXCEPT ![i] = @ \ req[w].set]
          /\ pc' = [pc EXCEPT ![w] = "list"]
          /\ Forget(w, i, req[w].set, req[w])
          /\ UNCHANGED settled
       \/ /\ ~(req[w].set \subseteq grants[i])
          /\ Answer(w, FALSE)
          /\ UNCHANGED grants
    /\ UNCHANGED <<rows, used, api, late>>

\* Mutant of ListGrants: when no grant is left there is nothing to push.
ListSkipsEmpty(w) ==
    /\ pc[w] = "list"
    /\ IF grants[req[w].id] = {} THEN Answer(w, TRUE)
       ELSE Continue(w, [req[w] EXCEPT !.set = grants[req[w].id]], "sent")
    /\ UNCHANGED <<db, api, late>>

\* The grants that are left are read back and pushed.
ListGrants(w) ==
    /\ pc[w] = "list"
    /\ Continue(w, [req[w] EXCEPT !.set = grants[req[w].id]], "sent")
    /\ UNCHANGED <<db, api, late>>

-----------------------------------------------------------------------------
(***************************************************************************)
(* The call, and everything that can go wrong                              *)
(***************************************************************************)
\* The tenant API serves the call and its answer arrives.
Delivered(w) ==
    /\ pc[w] = "sent"
    /\ Accepts(Outgoing(w))
    /\ Serve(Outgoing(w))
    /\ IF req[w].op = "remove" THEN Continue(w, req[w], "delete") ELSE Answer(w, TRUE)
    /\ UNCHANGED <<db, late>>

\* Mutant of Refused: a failed call is logged, and the request succeeds.
RefusedIsLogged(w) ==
    /\ pc[w] = "sent"
    /\ Answer(w, TRUE)
    /\ UNCHANGED <<db, api, late>>

\* The tenant API refuses the call or cannot be reached: 502.
Refused(w) ==
    /\ pc[w] = "sent"
    /\ Answer(w, FALSE)
    /\ UNCHANGED <<db, api, late>>

\* The client's timeout, a cancelled context or a crash, with the call under way.
GiveUp(w) ==
    /\ pc[w] = "sent"
    /\ Cardinality(late) < MaxLate
    /\ late' = late \cup {Outgoing(w)}
    /\ Answer(w, FALSE)
    /\ UNCHANGED <<db, api>>

\* A database error, a cancelled context or a crash between two statements.
Abort(w) ==
    /\ pc[w] \notin {"idle", "sent"}
    /\ Answer(w, FALSE)
    /\ UNCHANGED <<db, api, late>>

\* An abandoned call is served after all, or never.
LateDelivery ==
    \E m \in late :
        /\ late' = late \ {m}
        /\ IF Accepts(m) THEN Serve(m) ELSE UNCHANGED api
        /\ UNCHANGED <<db, pc, req, settled>>

LateLoss ==
    \E m \in late :
        /\ late' = late \ {m}
        /\ UNCHANGED <<db, api, pc, req, settled>>

-----------------------------------------------------------------------------
Init ==
    /\ rows = [i \in Id |-> Nil]
    /\ used = {}
    /\ grants = [i \in Id |-> {}]
    /\ tenant = [u \in Username |-> Nil]
    /\ tgrants = [u \in Username |-> {}]
    /\ pc = [w \in Worker |-> "idle"]
    /\ req = [w \in Worker |-> Blank]
    /\ late = {}
    /\ settled = [u \in Username |-> Aspects]

AccountStep(w) ==
    \/ Create(w) \/ LoadForUpdate(w) \/ WriteRow(w) \/ Reload(w) \/ LoadForReset(w)
    \/ WritePassword(w) \/ PushAccount(w) \/ LoadForRemove(w) \/ DeleteRow(w)

GrantStep(w) ==
    \/ LoadForReplace(w) \/ ClearGrants(w) \/ CommitGrants(w)
    \/ LoadForRevoke(w) \/ DeleteGrant(w) \/ ListGrants(w)

CallStep(w) == Delivered(w) \/ Refused(w) \/ GiveUp(w) \/ Abort(w)

Next ==
    \/ \E w \in Worker : AccountStep(w) \/ GrantStep(w) \/ CallStep(w)
    \/ LateDelivery
    \/ LateLoss

Spec == Init /\ [][Next]_vars

-----------------------------------------------------------------------------
(***************************************************************************)
(* Properties                                                              *)
(***************************************************************************)
\* The account the operations database wants the tenant API to hold.
Account(u) == IF RowsOf(u) = {} THEN Nil
              ELSE LET i == CHOOSE j \in RowsOf(u) : TRUE
                   IN  [cfg |-> rows[i].cfg, hash |-> rows[i].hash]

\* The buckets it wants the tenant API to grant.
Granted(u) == UNION {grants[i] : i \in RowsOf(u)}

\* Every variable holds a value of its type (types of pushAccount's and
\* Replace's arguments, columns of tenant_accounts).
TypeOK ==
    /\ rows \in [Id -> AccountRow \cup {Nil}]
    /\ used \subseteq Id
    /\ grants \in [Id -> SUBSET Bucket]
    /\ tenant \in [Username -> TenantRow \cup {Nil}]
    /\ tgrants \in [Username -> SUBSET Bucket]
    /\ pc \in [Worker -> {"idle", "write", "reload", "password", "secret", "sent", "delete",
                         "clear", "commit", "revoke", "list"}]
    /\ req \in [Worker -> Request \cup {Blank}]
    /\ late \subseteq Message
    /\ settled \in [Username -> SUBSET Aspects]

\* A create, update, reset or remove that is answered with success, and that
\* overlapped with no other request on the account and no abandoned call for
\* it, leaves the tenant API with exactly the row's columns and hash (or with
\* no account), and they stay so until the next such request, whatever failed
\* before it (accounts/handler.go: every error path returns before the answer).
AccountAgreement ==
    \A u \in Username : "acct" \in settled[u] => tenant[u] = Account(u)

\* The same of replace, revoke and remove and the account's buckets: replace
\* pushes the list it computed, revoke the list it reads back.
GrantAgreement ==
    \A u \in Username : "grant" \in settled[u] => tgrants[u] = Granted(u)

\* No grant outlives its account, though Replace may commit after remove
\* deleted the row (the foreign keys of migration 00005).
GrantsOfLiveAccounts ==
    \A i \in Id : grants[i] # {} => rows[i] # Nil

\* A replace that ran alone leaves the account with at most the bucket_limit
\* it read, however many grants were there (replace clears them all first).
GrantsWithinLimit ==
    \A w \in Worker :
        (pc[w] = "sent" /\ req[w].op = "replace" /\ req[w].alone)
            => (req[w].limit # Nil => Cardinality(grants[req[w].id]) <= req[w].limit)

Agreed(aspect) == {u \in Username : aspect \in settled[u]}

AccountMirror == INSTANCE Mirror WITH
    Key <- Username, source <- [u \in Username |-> Account(u)],
    replica <- tenant, agreed <- Agreed("acct")

GrantMirror == INSTANCE Mirror WITH
    Key <- Username, source <- [u \in Username |-> Granted(u)],
    replica <- tgrants, agreed <- Agreed("grant")

\* Accounts and their projection are a mirror: in particular nothing touches
\* the tenant's copy of an account that is agreed (no call is left over).
AccountsMirrored == AccountMirror!Spec

\* So are the grants.
GrantsMirrored == GrantMirror!Spec
=============================================================================
