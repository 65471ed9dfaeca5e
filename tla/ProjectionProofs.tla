-------------------------- MODULE ProjectionProofs --------------------------
(***************************************************************************)
(* Proofs about Projection for any number of goroutines, accounts, ids,    *)
(* buckets and abandoned calls.  The inductive invariant says who may      *)
(* still write an account at the tenant API (Exclusive, Quiet) and what a  *)
(* request that runs alone has established so far (Progress).  From it     *)
(* follow the agreements, and that every step is one of Mirror.            *)
(***************************************************************************)
EXTENDS Projection, FiniteSetTheorems, TLAPS

\* What the request of worker w writes at the tenant API.
Acts(w) == Touches(Call(req[w].op))

Alone(w) == pc[w] # "idle" /\ req[w].alone

\* The operations that pass through each program counter.
OpsAt(w) ==
    /\ pc[w] = "write" => req[w].op = "update"
    /\ pc[w] = "reload" => req[w].op \in {"create", "update"}
    /\ pc[w] = "password" => req[w].op = "reset"
    /\ pc[w] = "secret" => req[w].op \in PushOps
    /\ pc[w] = "delete" => req[w].op = "remove"
    /\ pc[w] \in {"clear", "commit"} => req[w].op = "replace"
    /\ pc[w] \in {"revoke", "list"} => req[w].op = "revoke"

\* What a request holds before it is pushed.
HoldsAt(w) ==
    /\ pc[w] \in {"write", "password", "secret"} => req[w].cfg \in Config
    /\ pc[w] = "password" => req[w].hash \in Hash
    /\ pc[w] = "sent" /\ req[w].op \in PushOps =>
           req[w].cfg \in Config /\ req[w].hash \in Hash \cup {NoHash}
    /\ req[w].op = "replace" => ~ExceedsLimit(req[w].set, req[w].limit)

\* The local variables of every goroutine fit its program counter.
LocalOf(w) ==
    /\ pc[w] = "idle" => req[w] = Blank
    /\ pc[w] # "idle" =>
          /\ req[w] \in Request
          /\ OpsAt(w)
          /\ HoldsAt(w)
          /\ req[w].id \in used
          /\ rows[req[w].id] # Nil => rows[req[w].id].user = req[w].user

Local == \A w \in Worker : LocalOf(w)

\* Calls that were given up are calls pushAccount or the grants made.
LateInv == \A m \in late : m.kind = "upsert" => m.cfg \in Config /\ m.hash \in Hash \cup {NoHash}

\* The unique index, the sequence and the foreign keys.
Database ==
    /\ \A i, j \in Id : rows[i] # Nil /\ rows[j] # Nil /\ rows[i].user = rows[j].user => i = j
    /\ \A i \in Id : i \notin used => rows[i] = Nil
    /\ GrantsOfLiveAccounts

\* Nobody else, and no abandoned call, writes what a request that runs alone writes.
Exclusive ==
    \A w \in Worker : Alone(w) =>
        /\ \A v \in Worker : v # w /\ pc[v] # "idle" /\ req[v].user = req[w].user
               => Acts(v) \cap Acts(w) = {}
        /\ \A m \in late : m.user = req[w].user => Touches(m.kind) \cap Acts(w) = {}

\* Nobody, and no abandoned call, writes what is settled.
Quiet ==
    \A u \in Username : \A a \in settled[u] :
        /\ \A v \in Worker : pc[v] # "idle" /\ req[v].user = u => a \notin Acts(v)
        /\ \A m \in late : m.user = u => a \notin Touches(m.kind)

\* What a request that runs alone can rely on at each step.
ProgressOf(w) ==
    LET i == req[w].id IN
    /\ rows[i] # Nil
    /\ pc[w] \in {"password", "secret"} => req[w].cfg = rows[i].cfg
    /\ pc[w] = "sent" /\ req[w].op \in PushOps =>
           req[w].cfg = rows[i].cfg /\ req[w].hash = rows[i].hash
    /\ pc[w] = "delete" => tenant[req[w].user] = Nil /\ tgrants[req[w].user] = {}
    /\ pc[w] = "commit" => grants[i] \subseteq req[w].seen
    /\ pc[w] = "sent" /\ req[w].op \in GrantOps => grants[i] = req[w].set

Progress == \A w \in Worker : Alone(w) => ProgressOf(w)

\* AccountAgreement and GrantAgreement, row by row.
AcctMirrored(u) ==
    /\ \A i \in RowsOf(u) : tenant[u] = [cfg |-> rows[i].cfg, hash |-> rows[i].hash]
    /\ RowsOf(u) = {} => tenant[u] = Nil

GrantMirrored(u) ==
    /\ \A i \in RowsOf(u) : tgrants[u] = grants[i]
    /\ RowsOf(u) = {} => tgrants[u] = {}

Mirrored ==
    \A u \in Username : /\ "acct" \in settled[u] => AcctMirrored(u)
                        /\ "grant" \in settled[u] => GrantMirrored(u)

IInv == /\ TypeOK /\ Local /\ LateInv /\ Database
        /\ Exclusive /\ Quiet /\ Progress /\ Mirrored

-----------------------------------------------------------------------------
\* Calls are of three kinds, and each writes some aspect.
LEMMA CallKinds ==
    ASSUME NEW op \in AllOps
    PROVE  /\ Call(op) \in {"upsert", "delete", "buckets"}
           /\ Touches(Call(op)) \subseteq Aspects
           /\ op \in PushOps <=> Call(op) = "upsert"
           /\ op = "remove" <=> Call(op) = "delete"
BY DEF AllOps, PushOps, GrantOps, Call, Touches, Aspects

\* The local variables of a goroutine that serves a request.
LEMMA Serving ==
    ASSUME TypeOK, Local, NEW w \in Worker, pc[w] # "idle"
    PROVE  /\ req[w] \in Request
           /\ req[w].id \in Id /\ req[w].user \in Username
           /\ Outgoing(w) \in Message
           /\ Acts(w) \subseteq Aspects
<1>1. req[w] \in Request
  BY DEF LocalOf, Local
<1>2. req[w].op \in AllOps /\ req[w].set \subseteq Bucket
  BY <1>1 DEF Request
<1>3. Call(req[w].op) \in {"upsert", "delete", "buckets"} /\ Acts(w) \subseteq Aspects
  BY <1>2, CallKinds DEF Acts
<1>4. QED
  BY <1>1, <1>2, <1>3 DEF Request, Outgoing, Message

\* Answer and Continue keep the types of what they change.
LEMMA AnswerType ==
    ASSUME TypeOK, Local, NEW w \in Worker, pc[w] # "idle", NEW ok \in BOOLEAN, Answer(w, ok)
    PROVE  /\ pc' \in [Worker -> {"idle", "write", "reload", "password", "secret", "sent",
                                  "delete", "clear", "commit", "revoke", "list"}]
           /\ req' \in [Worker -> Request \cup {Blank}]
           /\ settled' \in [Username -> SUBSET Aspects]
<1>1. Acts(w) \subseteq Aspects /\ req[w].user \in Username
  BY Serving
<1>2. QED
  BY <1>1 DEF TypeOK, Answer, Acts

\* A served call keeps the types of the tenant API.
LEMMA ServeType ==
    ASSUME TypeOK, NEW m \in Message, Serve(m),
           m.kind = "upsert" => m.cfg \in Config /\ m.hash \in Hash \cup {NoHash}
    PROVE  /\ tenant' \in [Username -> TenantRow \cup {Nil}]
           /\ tgrants' \in [Username -> SUBSET Bucket]
<1>1. m.user \in Username /\ m.set \subseteq Bucket /\ m.kind \in {"upsert", "delete", "buckets"}
  BY DEF Message
<1>2. CASE m.kind = "upsert"
  BY <1>1, <1>2 DEF TypeOK, Serve, TenantRow
<1>3. CASE m.kind = "delete"
  BY <1>1, <1>3 DEF TypeOK, Serve
<1>4. CASE m.kind = "buckets"
  BY <1>1, <1>4 DEF TypeOK, Serve
<1>5. QED
  BY <1>1, <1>2, <1>3, <1>4

\* What each operation writes, by operation.
LEMMA ActsOf ==
    ASSUME TypeOK, Local, NEW w \in Worker, pc[w] # "idle"
    PROVE  /\ req[w].op \in PushOps => Acts(w) = {"acct"}
           /\ req[w].op \in GrantOps => Acts(w) = {"grant"}
           /\ req[w].op = "remove" => Acts(w) = {"acct", "grant"}
BY DEF Acts, Touches, Call, PushOps, GrantOps, Aspects

\* A request that shares an aspect with one that runs alone is about another row.
LEMMA Apart ==
    ASSUME IInv, NEW v \in Worker, NEW w \in Worker, v # w, Alone(w), pc[v] # "idle",
           Acts(v) \cap Acts(w) # {}
    PROVE  req[v].user # req[w].user /\ req[v].id # req[w].id
<1>1. req[v].user # req[w].user
  BY DEF IInv, Exclusive
<1>2. rows[req[w].id] # Nil
  BY DEF IInv, Progress, ProgressOf
<1>3. pc[w] # "idle"
  BY DEF Alone
<1>4. QED
  BY <1>1, <1>2, <1>3 DEF IInv, Local, LocalOf

\* What a request writes is not settled.
LEMMA Unsettled ==
    ASSUME IInv, NEW w \in Worker, pc[w] # "idle", NEW a \in Acts(w), NEW u \in Username,
           a \in settled[u]
    PROVE  req[w].user # u /\ (rows[req[w].id] # Nil => rows[req[w].id].user # u)
BY DEF IInv, Quiet, Local, LocalOf

-----------------------------------------------------------------------------
(***************************************************************************)
(* Exclusive and Quiet depend on who is at work on what, which changes in  *)
(* four ways: not at all, a request starts, ends, or leaves a call behind. *)
(***************************************************************************)
\* The same requests are at work on the same accounts.
LEMMA SameWork ==
    ASSUME Exclusive, Quiet, late' \subseteq late, UNCHANGED settled,
           \A v \in Worker : /\ pc'[v] = "idle" <=> pc[v] = "idle"
                            /\ req'[v].op = req[v].op /\ req'[v].user = req[v].user
                            /\ req'[v].alone = req[v].alone
    PROVE  Exclusive' /\ Quiet'
<1>1. \A v \in Worker : Acts(v)' = Acts(v) /\ Alone(v)' = Alone(v)
  BY DEF Acts, Alone
<1>2. Exclusive'
  BY <1>1 DEF Exclusive
<1>3. Quiet'
  BY <1>1 DEF Quiet
<1>4. QED
  BY <1>2, <1>3

\* A request starts: it takes itself off what is settled, and it and its
\* rivals no longer run alone.
LEMMA WorkStarts ==
    ASSUME TypeOK, Local, Exclusive, Quiet, NEW w \in Worker, NEW r \in Request, NEW n,
           n # "idle", Start(w, r, n), UNCHANGED late
    PROVE  Exclusive' /\ Quiet'
<1> DEFINE T == Touches(Call(r.op))
<1>1. /\ pc[w] = "idle" /\ r.user \in Username /\ r.op \in AllOps
      /\ pc' = [pc EXCEPT ![w] = n]
      /\ settled' = [settled EXCEPT ![r.user] = @ \ T]
  BY DEF Start, Request
<1>2. /\ req'[w].op = r.op /\ req'[w].user = r.user
      /\ req'[w].alone <=> /\ \A x \in Worker : ~Rivals(x, r)
                           /\ \A m \in late : ~LateRival(m, r)
  BY DEF Start, Request
<1>3. \A v \in Worker \ {w} :
         /\ pc[v] # "idle" => req'[v].op = req[v].op /\ req'[v].user = req[v].user
         /\ pc[v] # "idle" => (req'[v].alone <=> req[v].alone /\ ~Rivals(v, r))
  BY DEF Start, Request, Rivals, Local, LocalOf, TypeOK
<1>4. Acts(w)' = T /\ \A v \in Worker \ {w} : pc[v] # "idle" => Acts(v)' = Acts(v)
  BY <1>2, <1>3 DEF Acts
<1>5. \A v \in Worker : pc'[v] # "idle" <=> v = w \/ pc[v] # "idle"
  BY <1>1 DEF TypeOK
<1>6. \A v \in Worker : Rivals(v, r) <=>
          pc[v] # "idle" /\ req[v].user = r.user /\ Acts(v) \cap T # {}
  BY DEF Rivals, Busy, Acts
<1>7. Exclusive'
  <2>1. SUFFICES ASSUME NEW x \in Worker, Alone(x)'
                 PROVE  /\ \A v \in Worker :
                               v # x /\ pc'[v] # "idle" /\ req'[v].user = req'[x].user
                                   => Acts(v)' \cap Acts(x)' = {}
                        /\ \A m \in late : m.user = req'[x].user
                                   => Touches(m.kind) \cap Acts(x)' = {}
    BY DEF Exclusive
  <2>2. CASE x = w
    BY <2>1, <2>2, <1>2, <1>3, <1>4, <1>5, <1>6 DEF Alone, LateRival
  <2>3. CASE x # w
    <3>1. Alone(x) /\ ~Rivals(x, r) /\ Acts(x)' = Acts(x) /\ req'[x].user = req[x].user
      BY <2>1, <2>3, <1>3, <1>4, <1>5 DEF Alone
    <3>2. QED
      BY <3>1, <2>3, <1>2, <1>3, <1>4, <1>5, <1>6 DEF Exclusive, Alone
  <2>4. QED
    BY <2>2, <2>3
<1>8. Quiet'
  <2>1. SUFFICES ASSUME NEW u \in Username, NEW a \in settled'[u]
                 PROVE  /\ \A v \in Worker : pc'[v] # "idle" /\ req'[v].user = u
                                   => a \notin Acts(v)'
                        /\ \A m \in late : m.user = u => a \notin Touches(m.kind)
    BY DEF Quiet
  <2>2. a \in settled[u] /\ (u = r.user => a \notin T)
    BY <1>1, <2>1 DEF TypeOK
  <2>3. QED
    BY <2>2, <1>2, <1>3, <1>4, <1>5 DEF Quiet
<1>9. QED
  BY <1>7, <1>8

\* An answer settles what a request that ran alone wrote.  A call that is left
\* behind counts as the request's own.
LEMMA WorkEnds ==
    ASSUME TypeOK, Local, Exclusive, Quiet, NEW w \in Worker, pc[w] # "idle",
           NEW ok \in BOOLEAN, Answer(w, ok),
           late' = late \/ (~ok /\ late' = late \cup {Outgoing(w)})
    PROVE  Exclusive' /\ Quiet'
<1> DEFINE u0 == req[w].user
<1>1. /\ u0 \in Username /\ Acts(w) \subseteq Aspects
      /\ Outgoing(w).user = u0 /\ Touches(Outgoing(w).kind) = Acts(w)
  BY Serving DEF Outgoing, Acts
<1>2. /\ pc' = [pc EXCEPT ![w] = "idle"]
      /\ req' = [req EXCEPT ![w] = Blank]
      /\ settled' = IF ok /\ req[w].alone
                    THEN [settled EXCEPT ![u0] = @ \cup Acts(w)] ELSE settled
  BY DEF Answer, Acts
<1>3. \A v \in Worker : pc'[v] # "idle" <=> v # w /\ pc[v] # "idle"
  BY <1>2 DEF TypeOK
<1>4. \A v \in Worker \ {w} : req'[v] = req[v] /\ Acts(v)' = Acts(v)
  BY <1>2 DEF TypeOK, Acts
<1>5. \A m \in late' : m \in late \/ (~ok /\ m.user = u0 /\ Touches(m.kind) = Acts(w))
  BY <1>1
<1>6. Exclusive'
  <2>1. SUFFICES ASSUME NEW x \in Worker, Alone(x)'
                 PROVE  /\ \A v \in Worker :
                               v # x /\ pc'[v] # "idle" /\ req'[v].user = req'[x].user
                                   => Acts(v)' \cap Acts(x)' = {}
                        /\ \A m \in late' : m.user = req'[x].user
                                   => Touches(m.kind) \cap Acts(x)' = {}
    BY DEF Exclusive
  <2>2. x # w /\ Alone(x) /\ req'[x] = req[x] /\ Acts(x)' = Acts(x)
    BY <2>1, <1>3, <1>4 DEF Alone
  <2>3. /\ \A v \in Worker : v # x /\ pc[v] # "idle" /\ req[v].user = req[x].user
               => Acts(v) \cap Acts(x) = {}
        /\ \A m \in late : m.user = req[x].user => Touches(m.kind) \cap Acts(x) = {}
    BY <2>2 DEF Exclusive
  <2>4. QED
    BY <2>2, <2>3, <1>3, <1>4, <1>5
<1>7. Quiet'
  <2>1. SUFFICES ASSUME NEW u \in Username, NEW a \in settled'[u]
                 PROVE  /\ \A v \in Worker : pc'[v] # "idle" /\ req'[v].user = u
                                   => a \notin Acts(v)'
                        /\ \A m \in late' : m.user = u => a \notin Touches(m.kind)
    BY DEF Quiet
  <2>2. CASE a \in settled[u]
    BY <2>2, <1>3, <1>4, <1>5 DEF Quiet
  <2>3. CASE a \notin settled[u]
    <3>1. u = u0 /\ a \in Acts(w) /\ ok /\ Alone(w)
      BY <2>1, <2>3, <1>1, <1>2 DEF TypeOK, Alone
    <3>2. QED
      BY <3>1, <1>3, <1>4, <1>5 DEF Exclusive
  <2>4. QED
    BY <2>2, <2>3
<1>8. QED
  BY <1>6, <1>7

-----------------------------------------------------------------------------
(***************************************************************************)
(* Every step keeps the inductive invariant.                               *)
(***************************************************************************)
\* The empty database and an idle server satisfy the invariant.
LEMMA InitIInv == Init => IInv
<1>1. SUFFICES ASSUME Init PROVE IInv
  OBVIOUS
<1>2. TypeOK
  BY <1>1 DEF Init, TypeOK, Aspects
<1>3. Local /\ LateInv /\ Database
  BY <1>1 DEF Init, Local, LocalOf, LateInv, Database, GrantsOfLiveAccounts
<1>4. Exclusive /\ Quiet /\ Progress
  BY <1>1 DEF Init, Exclusive, Quiet, Progress, Alone
<1>5. Mirrored
  BY <1>1 DEF Init, Mirrored, AcctMirrored, GrantMirrored, RowsOf
<1>6. QED
  BY <1>2, <1>3, <1>4, <1>5 DEF IInv

\* Program counters.
PcSet == {"idle", "write", "reload", "password", "secret", "sent", "delete",
          "clear", "commit", "revoke", "list"}

\* The next state's locals of v are those of r, but for history and `seen'.
Locals(v, r) == /\ req'[v].op = r.op /\ req'[v].id = r.id /\ req'[v].user = r.user
                /\ req'[v].cfg = r.cfg /\ req'[v].hash = r.hash
                /\ req'[v].set = r.set /\ req'[v].limit = r.limit

\* A step of w leaves the local variables of v alone, but for history and the
\* rows v's transaction saw; and no row it cares about gets another owner.
LEMMA OthersLocal ==
    ASSUME NEW v \in Worker, LocalOf(v), pc'[v] = pc[v], used \subseteq used',
           pc[v] = "idle" => req'[v] = req[v],
           pc[v] # "idle" => req'[v] \in Request /\ Locals(v, req[v]),
           \A i \in used : rows'[i] # Nil => rows[i] # Nil /\ rows'[i].user = rows[i].user
    PROVE  LocalOf(v)'
<1>1. CASE pc[v] = "idle"
  BY <1>1 DEF LocalOf
<1>2. CASE pc[v] # "idle"
  <2>1. OpsAt(v)' /\ HoldsAt(v)'
    BY <1>2 DEF LocalOf, OpsAt, HoldsAt, Locals
  <2>2. QED
    BY <2>1, <1>2 DEF LocalOf, Locals
<1>3. QED
  BY <1>1, <1>2

\* What Start does to the local variables.
LEMMA StartShape ==
    ASSUME TypeOK, Local, NEW w \in Worker, NEW r \in Request, NEW n \in PcSet \ {"idle"},
           Start(w, r, n)
    PROVE  /\ pc[w] = "idle" /\ pc' = [pc EXCEPT ![w] = n] /\ pc' \in [Worker -> PcSet]
           /\ r.op \in Operations
           /\ req' \in [Worker -> Request \cup {Blank}]
           /\ req'[w] \in Request /\ Locals(w, r)
           /\ \A v \in Worker \ {w} :
                 /\ pc[v] = "idle" => req'[v] = req[v]
                 /\ pc[v] # "idle" => /\ req'[v] \in Request /\ Locals(v, req[v])
                                      /\ req'[v].seen = req[v].seen
                                      /\ req'[v].alone => req[v].alone
           /\ settled' = [settled EXCEPT ![r.user] = @ \ Touches(Call(r.op))]
           /\ settled' \in [Username -> SUBSET Aspects]
<1>1. /\ pc[w] = "idle" /\ pc' = [pc EXCEPT ![w] = n] /\ r.op \in Operations
      /\ settled' = [settled EXCEPT ![r.user] = @ \ Touches(Call(r.op))]
  BY DEF Start
<1>2. pc' \in [Worker -> PcSet] /\ settled' \in [Username -> SUBSET Aspects]
  BY <1>1 DEF TypeOK, PcSet, Request
<1> DEFINE B == /\ \A x \in Worker : ~Rivals(x, r)
                /\ \A m \in late : ~LateRival(m, r)
<1>3. req'[w] = [r EXCEPT !.alone = B] /\ B \in BOOLEAN
  BY DEF Start
<1>4. req'[w] \in Request /\ Locals(w, r)
  <2> HIDE DEF B
  <2>1. QED
    BY <1>3 DEF Request, Locals
<1>5. ASSUME NEW v \in Worker \ {w}
      PROVE  /\ pc[v] = "idle" => req'[v] = req[v]
             /\ pc[v] # "idle" => /\ req'[v] \in Request /\ Locals(v, req[v])
                                  /\ req'[v].seen = req[v].seen
                                  /\ req'[v].alone => req[v].alone
  <2>1. req'[v] = IF Rivals(v, r) THEN [req[v] EXCEPT !.alone = FALSE] ELSE req[v]
    BY <1>5 DEF Start
  <2>2. Rivals(v, r) => pc[v] # "idle"
    BY DEF Rivals, Busy
  <2>3. pc[v] # "idle" => req[v] \in Request
    BY DEF Local, LocalOf
  <2>4. QED
    BY <2>1, <2>2, <2>3 DEF Request, Locals
<1>6. req' \in [Worker -> Request \cup {Blank}]
  <2>1. req' = [v \in Worker |-> req'[v]]
    BY DEF Start
  <2>2. \A v \in Worker : req'[v] \in Request \cup {Blank}
    BY <1>4, <1>5 DEF Local, LocalOf
  <2>3. QED
    BY <2>1, <2>2
<1>7. QED
  BY <1>1, <1>2, <1>4, <1>5, <1>6

\* A request starts by reading the row of its account.
LEMMA LoadKeeps ==
    ASSUME IInv, NEW w \in Worker, NEW r \in Request,
           NEW n \in {"write", "password", "sent", "clear", "revoke"},
           Start(w, r, n), UNCHANGED <<db, api, late>>,
           rows[r.id] # Nil, rows[r.id].user = r.user,
           n = "write" => r.op = "update" /\ r.cfg \in Config,
           n = "password" => r.op = "reset" /\ r.hash \in Hash /\ r.cfg = rows[r.id].cfg,
           n = "sent" => r.op = "remove",
           n = "clear" => r.op = "replace",
           n = "revoke" => r.op = "revoke",
           r.op = "replace" => ~ExceedsLimit(r.set, r.limit)
    PROVE  IInv'
<1> USE DEF IInv
<1>1. n \in PcSet \ {"idle"}
  BY DEF PcSet
<1>2. Exclusive' /\ Quiet'
  BY <1>1, WorkStarts
<1>3. UNCHANGED <<rows, used, grants, tenant, tgrants, late>>
  BY DEF db, api
<1>4. /\ pc[w] = "idle" /\ pc' = [pc EXCEPT ![w] = n] /\ pc' \in [Worker -> PcSet]
      /\ req' \in [Worker -> Request \cup {Blank}]
      /\ req'[w] \in Request /\ Locals(w, r)
      /\ \A v \in Worker \ {w} :
            /\ pc[v] = "idle" => req'[v] = req[v]
            /\ pc[v] # "idle" => /\ req'[v] \in Request /\ Locals(v, req[v])
                                 /\ req'[v].seen = req[v].seen
                                 /\ req'[v].alone => req[v].alone
      /\ settled' = [settled EXCEPT ![r.user] = @ \ Touches(Call(r.op))]
      /\ settled' \in [Username -> SUBSET Aspects]
  BY <1>1, StartShape
<1>5. TypeOK'
  BY <1>3, <1>4 DEF TypeOK, PcSet
<1>6. r.id \in Id
  BY DEF Request
<1>7. pc'[w] = n /\ \A v \in Worker \ {w} : pc'[v] = pc[v]
  BY <1>4 DEF TypeOK
<1>8. Local'
  <2>1. LocalOf(w)'
    <3>1. r.id \in used
      BY <1>6 DEF Database
    <3>2. OpsAt(w)' /\ HoldsAt(w)'
      BY <1>4, <1>6, <1>7 DEF OpsAt, HoldsAt, TypeOK, AccountRow, PushOps, Locals
    <3>3. QED
      BY <3>1, <3>2, <1>3, <1>4, <1>7 DEF LocalOf, Locals
  <2>2. ASSUME NEW v \in Worker \ {w} PROVE LocalOf(v)'
    BY <1>3, <1>4, <1>7, OthersLocal DEF Local
  <2>3. QED
    BY <2>1, <2>2 DEF Local
<1>9. LateInv' /\ Database'
  BY <1>3 DEF LateInv, Database, GrantsOfLiveAccounts
<1>10. Progress'
  <2>1. SUFFICES ASSUME NEW v \in Worker, Alone(v)' PROVE ProgressOf(v)'
    BY DEF Progress
  <2>2. CASE v = w
    BY <2>2, <1>3, <1>4, <1>7 DEF PushOps, GrantOps, Locals, ProgressOf
  <2>3. CASE v # w
    <3>1. Alone(v) /\ pc'[v] = pc[v] /\ Locals(v, req[v]) /\ req'[v].seen = req[v].seen
      BY <2>1, <2>3, <1>4, <1>7 DEF Alone
    <3>2. QED
      BY <3>1, <1>3 DEF Progress, ProgressOf, Locals
  <2>4. QED
    BY <2>2, <2>3
<1>11. Mirrored'
  <2>1. \A u \in Username : settled'[u] \subseteq settled[u]
    BY <1>4 DEF TypeOK, Request
  <2>2. QED
    BY <2>1, <1>3 DEF Mirrored, AcctMirrored, GrantMirrored, RowsOf
<1>12. QED
  BY <1>2, <1>5, <1>8, <1>9, <1>10, <1>11

(***************************************************************************)
(* A step of a request changes data of its own account only, and of that   *)
(* only what it writes: what the others rely on, and what is settled,      *)
(* stays as it is.                                                         *)
(***************************************************************************)
Footprint(w) ==
    LET i0 == req[w].id
        u0 == req[w].user
    IN  /\ \A i \in Id : i # i0 => rows'[i] = rows[i] /\ grants'[i] = grants[i]
        /\ \A u \in Username : u # u0 => tenant'[u] = tenant[u] /\ tgrants'[u] = tgrants[u]
        /\ rows'[i0] # Nil => rows[i0] # Nil /\ rows'[i0].user = rows[i0].user
        /\ "acct" \notin Acts(w) => rows' = rows /\ tenant' = tenant
        /\ "grant" \notin Acts(w) => /\ grants' = grants /\ tgrants' = tgrants
                                     /\ rows[i0] # Nil => rows'[i0] # Nil

\* The other goroutines stay where they are; only a transaction on the same
\* account may lose rows it saw.
OthersStay(w) ==
    \A v \in Worker \ {w} :
        /\ pc'[v] = pc[v]
        /\ pc[v] = "idle" => req'[v] = req[v]
        /\ pc[v] # "idle" => /\ req'[v] \in Request /\ Locals(v, req[v])
                             /\ req'[v].alone = req[v].alone
                             /\ req'[v].seen # req[v].seen =>
                                    req[v].id = req[w].id /\ "grant" \in Acts(w)

\* What the other requests rely on, and what is settled, outlives such a step.
LEMMA OthersUndisturbed ==
    ASSUME IInv, NEW w \in Worker, pc[w] # "idle", used' = used, Footprint(w), OthersStay(w)
    PROVE  /\ \A v \in Worker \ {w} : LocalOf(v)' /\ (Alone(v)' => ProgressOf(v)')
           /\ \A u \in Username : /\ "acct" \in settled[u] => AcctMirrored(u)'
                                  /\ "grant" \in settled[u] => GrantMirrored(u)'
<1> USE DEF IInv
<1> DEFINE i0 == req[w].id
           u0 == req[w].user
<1>1. /\ i0 \in Id /\ u0 \in Username /\ i0 \in used
      /\ rows[i0] # Nil => rows[i0].user = u0
  BY Serving DEF Local, LocalOf
<1>2. ASSUME NEW v \in Worker \ {w}
      PROVE  LocalOf(v)' /\ (Alone(v)' => ProgressOf(v)')
  <2>1. LocalOf(v)'
    <3>1. \A i \in used : rows'[i] # Nil => rows[i] # Nil /\ rows'[i].user = rows[i].user
      BY <1>1 DEF Footprint, TypeOK
    <3>2. QED
      BY <3>1, OthersLocal DEF OthersStay, Local
  <2>2. SUFFICES ASSUME Alone(v)' PROVE ProgressOf(v)'
    BY <2>1
  <2>3. /\ Alone(v) /\ pc'[v] = pc[v] /\ Locals(v, req[v]) /\ pc[v] # "idle"
        /\ ProgressOf(v)
    BY <2>2 DEF OthersStay, Alone, Progress
  <2>4. /\ req[v].id \in Id /\ req[v].user \in Username
        /\ req[v].op \in AllOps /\ OpsAt(v)
    BY <2>3, Serving DEF Local, LocalOf, Request
  <2>5. Acts(v) \cap Acts(w) # {} => req[v].user # u0 /\ req[v].id # i0
    BY <2>3, Apart
  <2>6. rows'[req[v].id] # Nil
    <3>1. CASE req[v].id # i0
      BY <3>1, <2>3, <2>4 DEF Footprint, ProgressOf
    <3>2. CASE req[v].id = i0
      <4>1. req[w].op # "remove"
        BY <3>2, <2>3, <2>4, <2>5, ActsOf DEF AllOps
      <4>2. "acct" \notin Acts(w) \/ "grant" \notin Acts(w)
        BY <4>1, ActsOf, Serving DEF Request, AllOps
      <4>3. QED
        BY <4>2, <3>2, <2>3 DEF Footprint, ProgressOf
    <3>3. QED
      BY <3>1, <3>2
  <2>7. CASE Acts(v) = {"acct"}
    <3>1. rows'[req[v].id] = rows[req[v].id]
      BY <2>7, <2>4, <2>5 DEF Footprint
    <3>2. req[v].op \in PushOps
      BY <2>7, <2>3, <2>4, ActsOf DEF AllOps
    <3>3. QED
      BY <3>1, <3>2, <2>3, <2>4, <2>6 DEF ProgressOf, Locals, OpsAt, PushOps, GrantOps
  <2>8. CASE Acts(v) = {"grant"}
    <3>1. grants'[req[v].id] = grants[req[v].id] /\ req'[v].seen = req[v].seen
      BY <2>8, <2>3, <2>4, <2>5 DEF Footprint, OthersStay
    <3>2. req[v].op \in GrantOps
      BY <2>8, <2>3, <2>4, ActsOf DEF AllOps
    <3>3. QED
      BY <3>1, <3>2, <2>3, <2>4, <2>6 DEF ProgressOf, Locals, OpsAt, PushOps, GrantOps
  <2>9. CASE Acts(v) = {"acct", "grant"}
    <3>1. /\ grants'[req[v].id] = grants[req[v].id] /\ req'[v].seen = req[v].seen
          /\ rows'[req[v].id] = rows[req[v].id]
          /\ tenant'[req[v].user] = tenant[req[v].user]
          /\ tgrants'[req[v].user] = tgrants[req[v].user]
      BY <2>9, <2>3, <2>4, <2>5 DEF Footprint, OthersStay
    <3>2. QED
      BY <3>1, <2>3, <2>4, <2>6 DEF ProgressOf, Locals
  <2>10. QED
    BY <2>3, <2>4, <2>7, <2>8, <2>9, ActsOf DEF AllOps
<1>3. ASSUME NEW u \in Username, "acct" \in settled[u]
      PROVE  AcctMirrored(u)'
  <2>1. AcctMirrored(u) /\ ("acct" \in Acts(w) => u # u0)
    BY <1>3, Unsettled DEF Mirrored
  <2>2. /\ \A i \in Id : i \in RowsOf(u)' <=> i \in RowsOf(u)
        /\ \A i \in RowsOf(u) : rows'[i] = rows[i]
        /\ tenant'[u] = tenant[u]
    BY <2>1, <1>1 DEF Footprint, RowsOf
  <2>3. QED
    BY <2>1, <2>2 DEF AcctMirrored, RowsOf
<1>4. ASSUME NEW u \in Username, "grant" \in settled[u]
      PROVE  GrantMirrored(u)'
  <2>1. GrantMirrored(u) /\ ("grant" \in Acts(w) => u # u0)
    BY <1>4, Unsettled DEF Mirrored
  <2>2. /\ \A i \in Id : i \in RowsOf(u)' <=> i \in RowsOf(u)
        /\ \A i \in RowsOf(u) : grants'[i] = grants[i]
        /\ tgrants'[u] = tgrants[u]
    BY <2>1, <1>1 DEF Footprint, RowsOf
  <2>3. QED
    BY <2>1, <2>2 DEF GrantMirrored, RowsOf
<1>5. QED
  BY <1>2, <1>3, <1>4

\* The data stays of its type, and within the database's constraints.
DataOK == /\ rows' \in [Id -> AccountRow \cup {Nil}]
          /\ grants' \in [Id -> SUBSET Bucket]
          /\ tenant' \in [Username -> TenantRow \cup {Nil}]
          /\ tgrants' \in [Username -> SUBSET Bucket]
          /\ Database'

\* A step that ends a request, when a success is justified, keeps the invariant.
LEMMA EndKeeps ==
    ASSUME IInv, NEW w \in Worker, pc[w] # "idle", NEW ok \in BOOLEAN, Answer(w, ok),
           UNCHANGED used, Footprint(w), DataOK,
           late' = late \/ (~ok /\ pc[w] = "sent" /\ late' = late \cup {Outgoing(w)}),
           ok /\ Alone(w) => \A u \in Username : u = req[w].user =>
                                /\ "acct" \in Acts(w) => AcctMirrored(u)'
                                /\ "grant" \in Acts(w) => GrantMirrored(u)'
    PROVE  IInv'
<1> USE DEF IInv
<1>1. Exclusive' /\ Quiet'
  BY WorkEnds
<1>2. /\ pc' = [pc EXCEPT ![w] = "idle"]
      /\ req' = [req EXCEPT ![w] = Blank]
      /\ settled' = IF ok /\ req[w].alone
                    THEN [settled EXCEPT ![req[w].user] = @ \cup Acts(w)] ELSE settled
  BY DEF Answer, Acts
<1>3. Outgoing(w) \in Message /\ req[w] \in Request /\ req[w].op \in AllOps
  BY Serving DEF Request
<1>4. TypeOK'
  <2>1. late' \subseteq Message
    BY <1>3 DEF TypeOK
  <2>2. QED
    BY <2>1, AnswerType DEF TypeOK, DataOK
<1>5. LateInv'
  <2>1. pc[w] = "sent" /\ Outgoing(w).kind = "upsert" =>
            Outgoing(w).cfg \in Config /\ Outgoing(w).hash \in Hash \cup {NoHash}
    BY <1>3, CallKinds DEF Outgoing, Local, LocalOf, HoldsAt
  <2>2. QED
    BY <2>1 DEF LateInv
<1>6. OthersStay(w) /\ pc'[w] = "idle" /\ req'[w] = Blank
  BY <1>2, Serving DEF OthersStay, Locals, TypeOK
<1>7. /\ \A v \in Worker \ {w} : LocalOf(v)' /\ (Alone(v)' => ProgressOf(v)')
      /\ \A u \in Username : /\ "acct" \in settled[u] => AcctMirrored(u)'
                             /\ "grant" \in settled[u] => GrantMirrored(u)'
  BY <1>6, OthersUndisturbed
<1>8. Local' /\ Progress'
  <2>1. LocalOf(w)' /\ ~Alone(w)'
    BY <1>6 DEF LocalOf, Alone
  <2>2. QED
    BY <2>1, <1>7 DEF Local, Progress
<1>9. Mirrored'
  <2>1. SUFFICES ASSUME NEW u \in Username, NEW a \in settled'[u]
                 PROVE  /\ a = "acct" => AcctMirrored(u)'
                        /\ a = "grant" => GrantMirrored(u)'
    BY DEF Mirrored
  <2>2. CASE a \in settled[u]
    BY <2>2, <1>7
  <2>3. CASE a \notin settled[u]
    <3>1. u = req[w].user /\ a \in Acts(w) /\ ok /\ Alone(w)
      BY <2>1, <2>3, <1>2, <1>3 DEF TypeOK, Alone
    <3>2. QED
      BY <3>1
  <2>4. QED
    BY <2>2, <2>3
<1>10. QED
  BY <1>1, <1>4, <1>5, <1>8, <1>9 DEF DataOK

\* A step within a request keeps the invariant when the request's own part holds.
LEMMA GoOnKeeps ==
    ASSUME IInv, NEW w \in Worker, pc[w] # "idle",
           NEW n \in PcSet \ {"idle"}, pc' = [pc EXCEPT ![w] = n],
           req' \in [Worker -> Request \cup {Blank}], req'[w] \in Request, OthersStay(w),
           req'[w].op = req[w].op, req'[w].user = req[w].user, req'[w].alone = req[w].alone,
           UNCHANGED <<used, late, settled>>, Footprint(w), DataOK,
           LocalOf(w)', Alone(w)' => ProgressOf(w)'
    PROVE  IInv'
<1> USE DEF IInv
<1>1. \A v \in Worker : pc'[v] = "idle" <=> pc[v] = "idle"
  BY DEF TypeOK
<1>2. \A v \in Worker : /\ req'[v].op = req[v].op /\ req'[v].user = req[v].user
                       /\ req'[v].alone = req[v].alone
  BY DEF OthersStay, Locals
<1>3. Exclusive' /\ Quiet'
  BY <1>1, <1>2, SameWork
<1>4. TypeOK'
  BY DEF TypeOK, DataOK, PcSet
<1>5. /\ \A v \in Worker \ {w} : LocalOf(v)' /\ (Alone(v)' => ProgressOf(v)')
      /\ \A u \in Username : /\ "acct" \in settled[u] => AcctMirrored(u)'
                             /\ "grant" \in settled[u] => GrantMirrored(u)'
  BY OthersUndisturbed
<1>6. Local' /\ Progress' /\ Mirrored' /\ LateInv'
  BY <1>5 DEF Local, Progress, Mirrored, LateInv
<1>7. QED
  BY <1>3, <1>4, <1>6 DEF DataOK

\* Continue, for a step that keeps the request's id, user and place in history.
LEMMA ContinueShape ==
    ASSUME IInv, NEW w \in Worker, pc[w] # "idle", NEW r \in Request, NEW n, Continue(w, r, n)
    PROVE  /\ pc' = [pc EXCEPT ![w] = n] /\ req' \in [Worker -> Request \cup {Blank}]
           /\ pc'[w] = n /\ req'[w] = r /\ OthersStay(w) /\ UNCHANGED settled
BY Serving DEF IInv, TypeOK, Continue, OthersStay, Locals

-----------------------------------------------------------------------------
(***************************************************************************)
(* One lemma per action.                                                   *)
(***************************************************************************)
\* A request that fails changes nothing else.
LEMMA FailKeeps ==
    ASSUME IInv, NEW w \in Worker, pc[w] # "idle", Answer(w, FALSE), UNCHANGED <<db, api>>,
           late' = late \/ (pc[w] = "sent" /\ late' = late \cup {Outgoing(w)})
    PROVE  IInv'
<1>1. UNCHANGED <<rows, used, grants, tenant, tgrants>>
  BY DEF db, api
<1>2. Footprint(w) /\ DataOK
  BY <1>1 DEF Footprint, DataOK, IInv, TypeOK, Database, GrantsOfLiveAccounts
<1>3. QED
  BY <1>1, <1>2, EndKeeps

\* A refused call, one that is given up, and a failure between two statements.
LEMMA CallFailKeeps ==
    ASSUME IInv, NEW w \in Worker, Refused(w) \/ GiveUp(w) \/ Abort(w)
    PROVE  IInv'
<1>1. CASE Refused(w)
  BY <1>1, FailKeeps DEF Refused
<1>2. CASE GiveUp(w)
  BY <1>2, FailKeeps DEF GiveUp
<1>3. CASE Abort(w)
  BY <1>3, FailKeeps DEF Abort
<1>4. QED
  BY <1>1, <1>2, <1>3

\* update starts.
LEMMA LoadForUpdateKeeps ==
    ASSUME IInv, NEW w \in Worker, LoadForUpdate(w)
    PROVE  IInv'
<1>1. PICK i \in Id, c \in Config, l \in Limits :
        /\ rows[i] # Nil
        /\ Start(w, [Blank EXCEPT !.op = "update", !.id = i, !.user = rows[i].user,
                                  !.cfg = c, !.limit = l], "write")
        /\ UNCHANGED <<db, api, late>>
  BY DEF LoadForUpdate
<1> DEFINE r == [Blank EXCEPT !.op = "update", !.id = i, !.user = rows[i].user,
                              !.cfg = c, !.limit = l]
<1>2. /\ r \in Request /\ r.op = "update" /\ r.id = i /\ r.user = rows[i].user /\ r.cfg = c
  BY <1>1 DEF Blank, Request, AllOps, PushOps, Limits, IInv, TypeOK, AccountRow
<1>3. QED
  BY <1>1, <1>2, LoadKeeps

\* resetPassword starts.
LEMMA LoadForResetKeeps ==
    ASSUME IInv, NEW w \in Worker, LoadForReset(w)
    PROVE  IInv'
<1>1. PICK i \in Id, h \in Hash :
        /\ rows[i] # Nil
        /\ Start(w, [Blank EXCEPT !.op = "reset", !.id = i, !.user = rows[i].user,
                                  !.cfg = rows[i].cfg, !.hash = h], "password")
        /\ UNCHANGED <<db, api, late>>
  BY DEF LoadForReset
<1> DEFINE r == [Blank EXCEPT !.op = "reset", !.id = i, !.user = rows[i].user,
                              !.cfg = rows[i].cfg, !.hash = h]
<1>2. /\ r \in Request /\ r.op = "reset" /\ r.id = i /\ r.user = rows[i].user
      /\ r.cfg = rows[i].cfg /\ r.hash = h
  BY <1>1 DEF Blank, Request, AllOps, PushOps, Limits, IInv, TypeOK, AccountRow
<1>3. QED
  BY <1>1, <1>2, LoadKeeps

\* remove starts.
LEMMA LoadForRemoveKeeps ==
    ASSUME IInv, NEW w \in Worker, LoadForRemove(w)
    PROVE  IInv'
<1>1. PICK i \in Id :
        /\ rows[i] # Nil
        /\ Start(w, [Blank EXCEPT !.op = "remove", !.id = i, !.user = rows[i].user], "sent")
        /\ UNCHANGED <<db, api, late>>
  BY DEF LoadForRemove
<1> DEFINE r == [Blank EXCEPT !.op = "remove", !.id = i, !.user = rows[i].user]
<1>2. r \in Request /\ r.op = "remove" /\ r.id = i /\ r.user = rows[i].user
  BY <1>1 DEF Blank, Request, AllOps, Limits, IInv, TypeOK, AccountRow
<1>3. QED
  BY <1>1, <1>2, LoadKeeps

\* replace starts, having checked the limit.
LEMMA LoadForReplaceKeeps ==
    ASSUME IInv, NEW w \in Worker, LoadForReplace(w)
    PROVE  IInv'
<1>1. PICK i \in Id, set \in SUBSET Bucket :
        /\ rows[i] # Nil
        /\ ~ExceedsLimit(set, rows[i].limit)
        /\ Start(w, [Blank EXCEPT !.op = "replace", !.id = i, !.user = rows[i].user,
                                  !.limit = rows[i].limit, !.set = set], "clear")
        /\ UNCHANGED <<db, api, late>>
  BY DEF LoadForReplace
<1> DEFINE r == [Blank EXCEPT !.op = "replace", !.id = i, !.user = rows[i].user,
                              !.limit = rows[i].limit, !.set = set]
<1>2. /\ r \in Request /\ r.op = "replace" /\ r.id = i /\ r.user = rows[i].user
      /\ r.limit = rows[i].limit /\ r.set = set
  BY <1>1 DEF Blank, Request, AllOps, GrantOps, Limits, IInv, TypeOK, AccountRow
<1>3. QED
  BY <1>1, <1>2, LoadKeeps

\* revoke starts.
LEMMA LoadForRevokeKeeps ==
    ASSUME IInv, NEW w \in Worker, LoadForRevoke(w)
    PROVE  IInv'
<1>1. PICK i \in Id, b \in Bucket :
        /\ rows[i] # Nil
        /\ Start(w, [Blank EXCEPT !.op = "revoke", !.id = i, !.user = rows[i].user,
                                  !.set = {b}], "revoke")
        /\ UNCHANGED <<db, api, late>>
  BY DEF LoadForRevoke
<1> DEFINE r == [Blank EXCEPT !.op = "revoke", !.id = i, !.user = rows[i].user, !.set = {b}]
<1>2. r \in Request /\ r.op = "revoke" /\ r.id = i /\ r.user = rows[i].user
  BY <1>1 DEF Blank, Request, AllOps, GrantOps, Limits, IInv, TypeOK, AccountRow
<1>3. QED
  BY <1>1, <1>2, LoadKeeps

\* Create starts a request as the Load actions do, but writes a new row.
LEMMA CreateKeeps ==
    ASSUME IInv, NEW w \in Worker, Create(w)
    PROVE  IInv'
<1> USE DEF IInv
<1>1. PICK u \in Username, i \in Id \ used, c \in Config, l \in Limits, h \in Hash :
        /\ RowsOf(u) = {}
        /\ Start(w, [Blank EXCEPT !.op = "create", !.id = i, !.user = u], "reload")
        /\ rows' = [rows EXCEPT ![i] = [user |-> u, cfg |-> c, limit |-> l, hash |-> h]]
        /\ used' = used \cup {i}
        /\ UNCHANGED <<grants, api, late>>
  BY DEF Create
<1> DEFINE r == [Blank EXCEPT !.op = "create", !.id = i, !.user = u]
           n == "reload"
<1>2. r \in Request /\ r.op = "create" /\ r.id = i /\ r.user = u
  BY DEF Blank, Request, AllOps, PushOps, Limits
<1>3. n \in PcSet \ {"idle"} /\ Start(w, r, n)
  BY <1>1 DEF PcSet
<1> HIDE DEF r, n
<1>4. Exclusive' /\ Quiet'
  BY <1>1, <1>2, <1>3, WorkStarts
<1>5. /\ pc[w] = "idle" /\ pc' = [pc EXCEPT ![w] = n] /\ pc' \in [Worker -> PcSet]
      /\ req' \in [Worker -> Request \cup {Blank}]
      /\ req'[w] \in Request /\ Locals(w, r)
      /\ \A v \in Worker \ {w} :
            /\ pc[v] = "idle" => req'[v] = req[v]
            /\ pc[v] # "idle" => /\ req'[v] \in Request /\ Locals(v, req[v])
                                 /\ req'[v].seen = req[v].seen
                                 /\ req'[v].alone => req[v].alone
      /\ settled' = [settled EXCEPT ![r.user] = @ \ Touches(Call(r.op))]
      /\ settled' \in [Username -> SUBSET Aspects]
  BY <1>2, <1>3, StartShape
<1>6. UNCHANGED <<grants, tenant, tgrants, late>>
  BY <1>1 DEF api
<1>7. /\ rows' \in [Id -> AccountRow \cup {Nil}] /\ rows'[i] \in AccountRow
      /\ rows'[i].user = u /\ rows[i] = Nil /\ rows'[i] # Nil
      /\ \A j \in Id : j # i => rows'[j] = rows[j]
  <2>1. rows[i] = Nil
    BY <1>1 DEF Database
  <2>2. [user |-> u, cfg |-> c, limit |-> l, hash |-> h] \in AccountRow
    BY DEF AccountRow
  <2>3. QED
    BY <2>1, <2>2, <1>1, ConstantsAssumption DEF TypeOK
<1>8. TypeOK'
  BY <1>1, <1>5, <1>6, <1>7 DEF TypeOK, PcSet
<1>9. pc'[w] = n /\ \A v \in Worker \ {w} : pc'[v] = pc[v]
  BY <1>5 DEF TypeOK
<1>10. Local'
  <2>1. LocalOf(w)'
    <3>1. OpsAt(w)' /\ HoldsAt(w)'
      BY <1>2, <1>5, <1>9 DEF n, OpsAt, HoldsAt, PushOps, Locals
    <3>2. QED
      BY <3>1, <1>1, <1>2, <1>5, <1>7, <1>9 DEF n, LocalOf, Locals
  <2>2. \A j \in used : rows'[j] # Nil => rows[j] # Nil /\ rows'[j].user = rows[j].user
    BY <1>7 DEF TypeOK
  <2>3. ASSUME NEW v \in Worker \ {w} PROVE LocalOf(v)'
    BY <2>2, <1>1, <1>5, <1>9, OthersLocal DEF Local
  <2>4. QED
    BY <2>1, <2>3 DEF Local
<1>11. LateInv'
  BY <1>6 DEF LateInv
<1>12. Database'
  <2>1. \A j, k \in Id :
            rows'[j] # Nil /\ rows'[k] # Nil /\ rows'[j].user = rows'[k].user => j = k
    BY <1>1, <1>7 DEF Database, RowsOf
  <2>2. QED
    BY <2>1, <1>1, <1>6, <1>7 DEF Database, GrantsOfLiveAccounts
<1>13. Progress'
  <2>1. SUFFICES ASSUME NEW v \in Worker, Alone(v)' PROVE ProgressOf(v)'
    BY DEF Progress
  <2>2. CASE v = w
    BY <2>2, <1>2, <1>5, <1>7, <1>9 DEF n, Locals, ProgressOf
  <2>3. CASE v # w
    <3>1. /\ Alone(v) /\ pc'[v] = pc[v] /\ Locals(v, req[v]) /\ req'[v].seen = req[v].seen
          /\ pc[v] # "idle"
      BY <2>1, <2>3, <1>5, <1>9 DEF Alone
    <3>2. ProgressOf(v) /\ req[v].id \in Id /\ req[v].id # i
      BY <3>1, Serving, <1>1 DEF Progress, Local, LocalOf
    <3>3. rows'[req[v].id] = rows[req[v].id]
      BY <3>2, <1>7
    <3>4. QED
      BY <3>1, <3>2, <3>3, <1>6 DEF ProgressOf, Locals
  <2>4. QED
    BY <2>2, <2>3
<1>14. Mirrored'
  <2>1. SUFFICES ASSUME NEW x \in Username
                 PROVE  /\ "acct" \in settled'[x] => AcctMirrored(x)'
                        /\ "grant" \in settled'[x] => GrantMirrored(x)'
    BY DEF Mirrored
  <2>2. CASE x = u
    <3>1. "acct" \notin settled'[u]
      BY <1>2, <1>5 DEF TypeOK, Call, Touches, PushOps
    <3>2. ASSUME "grant" \in settled'[u] PROVE GrantMirrored(u)'
      <4>1. tgrants[u] = {}
        BY <3>2, <1>1, <1>2, <1>5 DEF TypeOK, Mirrored, GrantMirrored
      <4>2. \A j \in Id : j \in RowsOf(u)' => j = i
        BY <1>1, <1>7 DEF RowsOf
      <4>3. i \in RowsOf(u)' /\ grants[i] = {}
        BY <1>7 DEF RowsOf, Database, GrantsOfLiveAccounts
      <4>4. QED
        BY <4>1, <4>2, <4>3, <1>6 DEF GrantMirrored, RowsOf
    <3>3. QED
      BY <2>2, <3>1, <3>2
  <2>3. CASE x # u
    <3>1. settled'[x] = settled[x]
      BY <2>3, <1>2, <1>5 DEF TypeOK
    <3>2. RowsOf(x)' = RowsOf(x) /\ \A j \in RowsOf(x) : rows'[j] = rows[j]
      BY <2>3, <1>7 DEF RowsOf
    <3>3. QED
      BY <3>1, <3>2, <1>6 DEF Mirrored, AcctMirrored, GrantMirrored
  <2>4. QED
    BY <2>2, <2>3
<1>15. QED
  BY <1>4, <1>8, <1>10, <1>11, <1>12, <1>13, <1>14

\* A push operation that replaces its row touches nothing else.
LEMMA OwnRowChanges ==
    ASSUME IInv, NEW w \in Worker, pc[w] # "idle", req[w].op \in PushOps,
           rows[req[w].id] # Nil, NEW row \in AccountRow, row.user = rows[req[w].id].user,
           rows' = [rows EXCEPT ![req[w].id] = row], UNCHANGED <<used, grants, tenant, tgrants>>
    PROVE  rows'[req[w].id] = row /\ Footprint(w) /\ DataOK
<1> DEFINE i0 == req[w].id
<1>1. i0 \in Id /\ Acts(w) = {"acct"} /\ row # Nil
  BY Serving, ActsOf, ConstantsAssumption DEF IInv
<1>2. /\ rows'[i0] = row /\ \A i \in Id : i # i0 => rows'[i] = rows[i]
      /\ rows' \in [Id -> AccountRow \cup {Nil}]
  BY <1>1 DEF IInv, TypeOK
<1>3. Footprint(w)
  BY <1>1, <1>2 DEF Footprint
<1>4. Database'
  <2>1. \A i \in Id : rows'[i] = Nil <=> rows[i] = Nil
    BY <1>1, <1>2
  <2>2. \A i \in Id : rows'[i].user = rows[i].user
    BY <1>1, <1>2
  <2>3. QED
    BY <2>1, <2>2 DEF IInv, Database, GrantsOfLiveAccounts
<1>5. QED
  BY <1>2, <1>3, <1>4 DEF DataOK, IInv, TypeOK

\* Store.Update: a request that runs alone finds its row, and only it writes it.
LEMMA WriteRowKeeps ==
    ASSUME IInv, NEW w \in Worker, WriteRow(w)
    PROVE  IInv'
<1> USE DEF IInv
<1> DEFINE i0 == req[w].id
<1>1. /\ pc[w] = "write" /\ UNCHANGED <<used, grants, tenant, tgrants, late>>
      /\ \/ /\ rows[i0] # Nil
            /\ rows' = [rows EXCEPT ![i0] =
                           [@ EXCEPT !.cfg = req[w].cfg, !.limit = req[w].limit]]
            /\ Continue(w, req[w], "reload")
         \/ rows[i0] = Nil /\ Answer(w, FALSE) /\ UNCHANGED rows
  BY DEF WriteRow, api
<1>2. CASE rows[i0] = Nil
  BY <1>1, <1>2, FailKeeps DEF db, api
<1>3. CASE rows[i0] # Nil
  <2>1. /\ req[w] \in Request /\ i0 \in Id /\ req[w].limit \in Limits
        /\ req[w].op = "update" /\ req[w].cfg \in Config /\ LocalOf(w)
    BY <1>1, Serving DEF Local, LocalOf, OpsAt, HoldsAt, Request
  <2> DEFINE row == [rows[i0] EXCEPT !.cfg = req[w].cfg, !.limit = req[w].limit]
  <2>2. row \in AccountRow /\ row.user = rows[i0].user
    BY <1>3, <2>1 DEF TypeOK, AccountRow
  <2>3. rows' = [rows EXCEPT ![i0] = row]
    BY <1>1, <1>3
  <2> HIDE DEF row
  <2>4. Footprint(w) /\ DataOK /\ rows'[i0] = row /\ row # Nil
    BY <1>1, <1>3, <2>1, <2>2, <2>3, OwnRowChanges, ConstantsAssumption DEF PushOps
  <2>5. /\ pc' = [pc EXCEPT ![w] = "reload"] /\ req' \in [Worker -> Request \cup {Blank}]
        /\ pc'[w] = "reload" /\ req'[w] = req[w] /\ OthersStay(w) /\ UNCHANGED settled
    BY <1>1, <1>3, <2>1, ContinueShape
  <2>6. LocalOf(w)' /\ ProgressOf(w)'
    BY <1>1, <1>3, <2>1, <2>2, <2>4, <2>5 DEF LocalOf, OpsAt, HoldsAt, ProgressOf
  <2>7. QED
    BY <1>1, <2>1, <2>4, <2>5, <2>6, GoOnKeeps DEF PcSet
<1>4. QED
  BY <1>2, <1>3

\* GetByID after Insert and Update: what is pushed is the row as it is now.
LEMMA ReloadKeeps ==
    ASSUME IInv, NEW w \in Worker, Reload(w)
    PROVE  IInv'
<1> USE DEF IInv
<1> DEFINE i0 == req[w].id
           r  == [req[w] EXCEPT !.cfg = rows[i0].cfg]
<1>1. /\ pc[w] = "reload" /\ UNCHANGED <<rows, used, grants, tenant, tgrants, late>>
      /\ \/ rows[i0] # Nil /\ Continue(w, r, "secret")
         \/ rows[i0] = Nil /\ Answer(w, FALSE)
  BY DEF Reload, db, api
<1>2. CASE rows[i0] = Nil
  BY <1>1, <1>2, FailKeeps DEF db, api
<1>3. CASE rows[i0] # Nil
  <2>1. /\ req[w] \in Request /\ i0 \in Id /\ LocalOf(w)
        /\ req[w].op \in {"create", "update"}
    BY <1>1, Serving DEF Local, LocalOf, OpsAt
  <2>2. /\ r \in Request /\ r.cfg = rows[i0].cfg /\ r.cfg \in Config
        /\ r.op = req[w].op /\ r.id = i0 /\ r.user = req[w].user /\ r.alone = req[w].alone
        /\ r.set = req[w].set /\ r.limit = req[w].limit
    BY <1>3, <2>1 DEF Request, TypeOK, AccountRow
  <2>3. Footprint(w) /\ DataOK
    BY <1>1 DEF Footprint, DataOK, TypeOK, Database, GrantsOfLiveAccounts
  <2> HIDE DEF r
  <2>4. /\ pc' = [pc EXCEPT ![w] = "secret"] /\ req' \in [Worker -> Request \cup {Blank}]
        /\ pc'[w] = "secret" /\ req'[w] = r /\ OthersStay(w) /\ UNCHANGED settled
    BY <1>1, <1>3, <2>2, ContinueShape
  <2>5. LocalOf(w)' /\ ProgressOf(w)'
    BY <1>1, <1>3, <2>1, <2>2, <2>4 DEF LocalOf, OpsAt, HoldsAt, ProgressOf, PushOps
  <2>6. QED
    BY <1>1, <2>2, <2>3, <2>4, <2>5, GoOnKeeps DEF PcSet
<1>4. QED
  BY <1>2, <1>3

\* Store.UpdatePassword leaves the columns resetPassword has in hand as they are.
LEMMA WritePasswordKeeps ==
    ASSUME IInv, NEW w \in Worker, WritePassword(w)
    PROVE  IInv'
<1> USE DEF IInv
<1> DEFINE i0 == req[w].id
<1>1. /\ pc[w] = "password" /\ UNCHANGED <<used, grants, tenant, tgrants, late>>
      /\ \/ /\ rows[i0] # Nil
            /\ rows' = [rows EXCEPT ![i0] = [@ EXCEPT !.hash = req[w].hash]]
            /\ Continue(w, req[w], "secret")
         \/ rows[i0] = Nil /\ Answer(w, FALSE) /\ UNCHANGED rows
  BY DEF WritePassword, api
<1>2. CASE rows[i0] = Nil
  BY <1>1, <1>2, FailKeeps DEF db, api
<1>3. CASE rows[i0] # Nil
  <2>1. /\ req[w] \in Request /\ i0 \in Id /\ LocalOf(w)
        /\ req[w].op = "reset" /\ req[w].hash \in Hash /\ req[w].cfg \in Config
    BY <1>1, Serving DEF Local, LocalOf, OpsAt, HoldsAt
  <2> DEFINE row == [rows[i0] EXCEPT !.hash = req[w].hash]
  <2>2. row \in AccountRow /\ row.user = rows[i0].user /\ row.cfg = rows[i0].cfg
    BY <1>3, <2>1 DEF TypeOK, AccountRow
  <2>3. rows' = [rows EXCEPT ![i0] = row]
    BY <1>1, <1>3
  <2> HIDE DEF row
  <2>4. Footprint(w) /\ DataOK /\ rows'[i0] = row /\ row # Nil
    BY <1>1, <1>3, <2>1, <2>2, <2>3, OwnRowChanges, ConstantsAssumption DEF PushOps
  <2>5. /\ pc' = [pc EXCEPT ![w] = "secret"] /\ req' \in [Worker -> Request \cup {Blank}]
        /\ pc'[w] = "secret" /\ req'[w] = req[w] /\ OthersStay(w) /\ UNCHANGED settled
    BY <1>1, <1>3, <2>1, ContinueShape
  <2>6. LocalOf(w)' /\ (Alone(w)' => ProgressOf(w)')
    <3>1. LocalOf(w)'
      BY <1>1, <1>3, <2>1, <2>2, <2>4, <2>5 DEF LocalOf, OpsAt, HoldsAt, PushOps
    <3>2. Alone(w)' => Alone(w)
      BY <1>1, <2>5 DEF Alone
    <3>3. Alone(w) => ProgressOf(w)
      BY DEF Progress
    <3>4. QED
      BY <3>1, <3>2, <3>3, <1>1, <2>2, <2>4, <2>5 DEF ProgressOf
  <2>7. QED
    BY <1>1, <2>1, <2>4, <2>5, <2>6, GoOnKeeps DEF PcSet
<1>4. QED
  BY <1>2, <1>3

\* pushAccount reads the hash the row has now.
LEMMA PushAccountKeeps ==
    ASSUME IInv, NEW w \in Worker, PushAccount(w)
    PROVE  IInv'
<1> USE DEF IInv
<1> DEFINE i0 == req[w].id
           h0 == IF rows[i0] = Nil THEN NoHash ELSE rows[i0].hash
           r  == [req[w] EXCEPT !.hash = h0]
<1>1. /\ pc[w] = "secret" /\ UNCHANGED <<rows, used, grants, tenant, tgrants, late>>
      /\ Continue(w, r, "sent")
  BY DEF PushAccount, db, api
<1>2. /\ req[w] \in Request /\ i0 \in Id /\ LocalOf(w)
      /\ req[w].op \in PushOps /\ req[w].cfg \in Config
  BY <1>1, Serving DEF Local, LocalOf, OpsAt, HoldsAt
<1>3. h0 \in Hash \cup {NoHash} /\ (rows[i0] # Nil => h0 = rows[i0].hash)
  BY <1>2 DEF TypeOK, AccountRow
<1>4. /\ r \in Request /\ r.hash = h0 /\ r.cfg = req[w].cfg
      /\ r.op = req[w].op /\ r.id = i0 /\ r.user = req[w].user /\ r.alone = req[w].alone
      /\ r.set = req[w].set /\ r.limit = req[w].limit
  BY <1>2, <1>3 DEF Request
<1>5. Footprint(w) /\ DataOK
  BY <1>1 DEF Footprint, DataOK, TypeOK, Database, GrantsOfLiveAccounts
<1> HIDE DEF r, h0
<1>6. /\ pc' = [pc EXCEPT ![w] = "sent"] /\ req' \in [Worker -> Request \cup {Blank}]
      /\ pc'[w] = "sent" /\ req'[w] = r /\ OthersStay(w) /\ UNCHANGED settled
  BY <1>1, <1>4, ContinueShape
<1>7. LocalOf(w)'
  BY <1>1, <1>2, <1>3, <1>4, <1>6 DEF LocalOf, OpsAt, HoldsAt, PushOps
<1>8. Alone(w)' => ProgressOf(w)'
  <2>1. Alone(w)' => Alone(w)
    BY <1>1, <1>4, <1>6 DEF Alone
  <2>2. Alone(w) => ProgressOf(w)
    BY DEF Progress
  <2>3. QED
    BY <2>1, <2>2, <1>1, <1>2, <1>3, <1>4, <1>6 DEF ProgressOf, PushOps, GrantOps
<1>9. QED
  BY <1>1, <1>4, <1>5, <1>6, <1>7, <1>8, GoOnKeeps DEF PcSet

\* Store.Delete: the tenant API has already forgotten the account of a remove
\* that runs alone.
LEMMA DeleteRowKeeps ==
    ASSUME IInv, NEW w \in Worker, DeleteRow(w)
    PROVE  IInv'
<1> USE DEF IInv
<1> DEFINE i0 == req[w].id
<1>1. /\ pc[w] = "delete" /\ UNCHANGED <<used, tenant, tgrants, late>>
      /\ \/ /\ rows[i0] # Nil
            /\ rows' = [rows EXCEPT ![i0] = Nil]
            /\ grants' = [grants EXCEPT ![i0] = {}]
            /\ Answer(w, TRUE)
         \/ rows[i0] = Nil /\ Answer(w, FALSE) /\ UNCHANGED <<rows, grants>>
  BY DEF DeleteRow, api
<1>2. CASE rows[i0] = Nil
  BY <1>1, <1>2, FailKeeps DEF db, api
<1>3. CASE rows[i0] # Nil
  <2>1. /\ i0 \in Id /\ req[w].op = "remove" /\ rows[i0].user = req[w].user
        /\ req[w].user \in Username
    BY <1>1, <1>3, Serving DEF Local, LocalOf, OpsAt
  <2>2. Acts(w) = {"acct", "grant"}
    BY <2>1, <1>1, ActsOf
  <2>3. /\ rows'[i0] = Nil /\ grants'[i0] = {}
        /\ \A i \in Id : i # i0 => rows'[i] = rows[i] /\ grants'[i] = grants[i]
        /\ rows' \in [Id -> AccountRow \cup {Nil}] /\ grants' \in [Id -> SUBSET Bucket]
    BY <1>1, <1>3, <2>1 DEF TypeOK
  <2>4. Footprint(w) /\ DataOK
    BY <1>1, <2>1, <2>2, <2>3 DEF Footprint, DataOK, TypeOK, Database, GrantsOfLiveAccounts
  <2>5. ASSUME Alone(w), NEW u \in Username, u = req[w].user
        PROVE  AcctMirrored(u)' /\ GrantMirrored(u)'
    <3>1. tenant[u] = Nil /\ tgrants[u] = {}
      BY <2>5, <1>1 DEF Progress, ProgressOf
    <3>2. RowsOf(u)' = {}
      BY <2>1, <2>3, <2>5, <1>3 DEF RowsOf, Database
    <3>3. QED
      BY <3>1, <3>2, <1>1 DEF AcctMirrored, GrantMirrored, RowsOf
  <2>6. QED
    BY <1>1, <1>3, <2>4, <2>5, EndKeeps
<1>4. QED
  BY <1>2, <1>3

\* Forget only takes rows off what other transactions on the account saw.
LEMMA ForgetShape ==
    ASSUME IInv, NEW w \in Worker, pc[w] # "idle", "grant" \in Acts(w), NEW n, NEW gone,
           NEW r \in Request, pc' = [pc EXCEPT ![w] = n], Forget(w, req[w].id, gone, r)
    PROVE  /\ req' \in [Worker -> Request \cup {Blank}]
           /\ req'[w] = r /\ pc'[w] = n /\ OthersStay(w)
<1> USE DEF IInv
<1>1. req[w].id \in Id /\ req[w].id # Nil
  BY Serving, ConstantsAssumption
<1>2. req'[w] = r /\ pc'[w] = n
  BY DEF Forget, TypeOK
<1>3. ASSUME NEW v \in Worker \ {w}
      PROVE  /\ pc'[v] = pc[v]
             /\ pc[v] = "idle" => req'[v] = req[v]
             /\ pc[v] # "idle" => /\ req'[v] \in Request /\ Locals(v, req[v])
                                  /\ req'[v].alone = req[v].alone
                                  /\ req'[v].seen # req[v].seen => req[v].id = req[w].id
  <2>1. pc'[v] = pc[v]
    BY <1>3 DEF TypeOK
  <2>2. req'[v] = IF req[v].id = req[w].id
                  THEN [req[v] EXCEPT !.seen = @ \ gone] ELSE req[v]
    BY <1>3 DEF Forget
  <2>3. CASE pc[v] = "idle"
    <3>1. req[v].id = Nil
      BY <2>3 DEF Local, LocalOf, Blank
    <3>2. QED
      BY <3>1, <2>1, <2>2, <2>3, <1>1
  <2>4. CASE pc[v] # "idle"
    <3>1. req[v] \in Request
      BY <2>4 DEF Local, LocalOf
    <3>2. QED
      BY <3>1, <2>1, <2>2, <2>4 DEF Request, Locals
  <2>5. QED
    BY <2>3, <2>4
<1>4. req' \in [Worker -> Request \cup {Blank}]
  <2>1. \A v \in Worker : req'[v] \in Request \cup {Blank}
    BY <1>2, <1>3 DEF Local, LocalOf
  <2>2. req' = [v \in Worker |-> req'[v]]
    BY DEF Forget
  <2>3. QED
    BY <2>1, <2>2
<1>5. QED
  BY <1>2, <1>3, <1>4 DEF OthersStay

\* A grant operation that replaces the grants of its row touches nothing else.
LEMMA OwnGrantsChange ==
    ASSUME IInv, NEW w \in Worker, pc[w] # "idle", req[w].op \in GrantOps,
           NEW set \in SUBSET Bucket, set # {} => rows[req[w].id] # Nil,
           grants' = [grants EXCEPT ![req[w].id] = set], UNCHANGED <<rows, used, tenant, tgrants>>
    PROVE  /\ "grant" \in Acts(w) /\ Footprint(w) /\ DataOK
           /\ grants'[req[w].id] = set
<1> DEFINE i0 == req[w].id
<1>1. i0 \in Id /\ Acts(w) = {"grant"}
  BY Serving, ActsOf DEF IInv
<1>2. /\ grants'[i0] = set /\ \A i \in Id : i # i0 => grants'[i] = grants[i]
      /\ grants' \in [Id -> SUBSET Bucket]
  BY <1>1 DEF IInv, TypeOK
<1>3. Footprint(w)
  BY <1>1, <1>2 DEF Footprint
<1>4. QED
  BY <1>1, <1>2, <1>3 DEF DataOK, IInv, TypeOK, Database, GrantsOfLiveAccounts

\* The DELETE of Replace sees every grant there is.
LEMMA ClearGrantsKeeps ==
    ASSUME IInv, NEW w \in Worker, ClearGrants(w)
    PROVE  IInv'
<1> USE DEF IInv
<1> DEFINE i0 == req[w].id
           r  == [req[w] EXCEPT !.seen = grants[i0]]
<1>1. /\ pc[w] = "clear" /\ UNCHANGED <<rows, used, grants, tenant, tgrants, late>>
      /\ Continue(w, r, "commit")
  BY DEF ClearGrants, db, api
<1>2. /\ req[w] \in Request /\ i0 \in Id /\ LocalOf(w) /\ req[w].op = "replace"
  BY <1>1, Serving DEF Local, LocalOf, OpsAt
<1>3. /\ r \in Request /\ r.seen = grants[i0] /\ r.cfg = req[w].cfg /\ r.hash = req[w].hash
      /\ r.op = req[w].op /\ r.id = i0 /\ r.user = req[w].user /\ r.alone = req[w].alone
      /\ r.set = req[w].set /\ r.limit = req[w].limit
  BY <1>2 DEF Request, TypeOK
<1>4. Footprint(w) /\ DataOK
  BY <1>1 DEF Footprint, DataOK, TypeOK, Database, GrantsOfLiveAccounts
<1> HIDE DEF r
<1>5. /\ pc' = [pc EXCEPT ![w] = "commit"] /\ req' \in [Worker -> Request \cup {Blank}]
      /\ pc'[w] = "commit" /\ req'[w] = r /\ OthersStay(w) /\ UNCHANGED settled
  BY <1>1, <1>3, ContinueShape
<1>6. LocalOf(w)'
  BY <1>1, <1>2, <1>3, <1>5 DEF LocalOf, OpsAt, HoldsAt, PushOps
<1>7. Alone(w)' => ProgressOf(w)'
  <2>1. Alone(w)' => Alone(w)
    BY <1>1, <1>3, <1>5 DEF Alone
  <2>2. Alone(w) => ProgressOf(w)
    BY DEF Progress
  <2>3. QED
    BY <2>1, <2>2, <1>1, <1>2, <1>3, <1>5 DEF ProgressOf
<1>8. QED
  BY <1>1, <1>3, <1>4, <1>5, <1>6, <1>7, GoOnKeeps DEF PcSet

\* The commit of a replace that runs alone leaves exactly the buckets it asked for.
LEMMA CommitGrantsKeeps ==
    ASSUME IInv, NEW w \in Worker, CommitGrants(w)
    PROVE  IInv'
<1> USE DEF IInv
<1> DEFINE i0       == req[w].id
           survivor == grants[i0] \ req[w].seen
           r        == [req[w] EXCEPT !.seen = {}]
<1>1. /\ pc[w] = "commit" /\ UNCHANGED <<rows, used, tenant, tgrants, late>>
      /\ \/ /\ req[w].set # {} => rows[i0] # Nil
            /\ grants' = [grants EXCEPT ![i0] = survivor \cup req[w].set]
            /\ pc' = [pc EXCEPT ![w] = "sent"]
            /\ Forget(w, i0, req[w].seen, r)
            /\ UNCHANGED settled
         \/ Answer(w, FALSE) /\ UNCHANGED grants
  BY DEF CommitGrants, api
<1>2. CASE Answer(w, FALSE) /\ UNCHANGED grants
  BY <1>1, <1>2, FailKeeps DEF db, api
<1>3. CASE /\ req[w].set # {} => rows[i0] # Nil
           /\ grants' = [grants EXCEPT ![i0] = survivor \cup req[w].set]
           /\ pc' = [pc EXCEPT ![w] = "sent"]
           /\ Forget(w, i0, req[w].seen, r)
           /\ UNCHANGED settled
  <2>1. /\ req[w] \in Request /\ i0 \in Id /\ LocalOf(w) /\ req[w].op = "replace"
        /\ req[w].set \subseteq Bucket /\ grants[i0] \subseteq Bucket
    BY <1>1, Serving DEF Local, LocalOf, OpsAt, Request, TypeOK
  <2>2. /\ r \in Request /\ r.cfg = req[w].cfg /\ r.hash = req[w].hash
        /\ r.op = req[w].op /\ r.id = i0 /\ r.user = req[w].user /\ r.alone = req[w].alone
        /\ r.set = req[w].set /\ r.limit = req[w].limit
    BY <2>1 DEF Request
  <2>3. survivor \cup req[w].set # {} => rows[i0] # Nil
    BY <1>3, <2>1 DEF Database, GrantsOfLiveAccounts
  <2>4. /\ "grant" \in Acts(w) /\ Footprint(w) /\ DataOK
        /\ grants'[i0] = survivor \cup req[w].set
    <3> DEFINE set == survivor \cup req[w].set
    <3>1. set \in SUBSET Bucket /\ grants' = [grants EXCEPT ![i0] = set]
          /\ (set # {} => rows[i0] # Nil) /\ req[w].op \in GrantOps /\ pc[w] # "idle"
      BY <2>1, <2>3, <1>1, <1>3 DEF GrantOps
    <3> HIDE DEF set
    <3>2. "grant" \in Acts(w) /\ Footprint(w) /\ DataOK /\ grants'[i0] = set
      BY <3>1, <1>1, OwnGrantsChange
    <3>3. QED
      BY <3>2 DEF set
  <2> HIDE DEF r
  <2>5. /\ req' \in [Worker -> Request \cup {Blank}]
        /\ pc'[w] = "sent" /\ req'[w] = r /\ OthersStay(w)
    <3>1. /\ pc[w] # "idle" /\ "grant" \in Acts(w) /\ pc' = [pc EXCEPT ![w] = "sent"]
          /\ r \in Request /\ Forget(w, req[w].id, req[w].seen, r)
      BY <1>1, <1>3, <2>2, <2>4
    <3>2. QED
      BY <3>1, ForgetShape
  <2>6. LocalOf(w)'
    BY <1>1, <2>1, <2>2, <2>5 DEF LocalOf, OpsAt, HoldsAt, PushOps
  <2>7. Alone(w)' => ProgressOf(w)'
    <3>1. Alone(w)' => Alone(w)
      BY <1>1, <2>2, <2>5 DEF Alone
    <3>2. Alone(w) => ProgressOf(w)
      BY DEF Progress
    <3>3. QED
      BY <3>1, <3>2, <1>1, <2>1, <2>2, <2>4, <2>5 DEF ProgressOf, PushOps
  <2>8. QED
    BY <1>1, <1>3, <2>2, <2>4, <2>5, <2>6, <2>7, GoOnKeeps DEF PcSet
<1>4. QED
  BY <1>1, <1>2, <1>3

\* Store.Revoke changes the grants of its own account only.
LEMMA DeleteGrantKeeps ==
    ASSUME IInv, NEW w \in Worker, DeleteGrant(w)
    PROVE  IInv'
<1> USE DEF IInv
<1> DEFINE i0 == req[w].id
<1>1. /\ pc[w] = "revoke" /\ UNCHANGED <<rows, used, tenant, tgrants, late>>
      /\ \/ /\ grants' = [grants EXCEPT ![i0] = @ \ req[w].set]
            /\ pc' = [pc EXCEPT ![w] = "list"]
            /\ Forget(w, i0, req[w].set, req[w])
            /\ UNCHANGED settled
         \/ Answer(w, FALSE) /\ UNCHANGED grants
  BY DEF DeleteGrant, api
<1>2. CASE Answer(w, FALSE) /\ UNCHANGED grants
  BY <1>1, <1>2, FailKeeps DEF db, api
<1>3. CASE /\ grants' = [grants EXCEPT ![i0] = @ \ req[w].set]
           /\ pc' = [pc EXCEPT ![w] = "list"]
           /\ Forget(w, i0, req[w].set, req[w])
           /\ UNCHANGED settled
  <2>1. /\ req[w] \in Request /\ i0 \in Id /\ LocalOf(w) /\ req[w].op = "revoke"
        /\ grants[i0] \subseteq Bucket
    BY <1>1, Serving DEF Local, LocalOf, OpsAt, TypeOK
  <2>2. "grant" \in Acts(w) /\ Footprint(w) /\ DataOK
    <3> DEFINE set == grants[i0] \ req[w].set
    <3>1. set \in SUBSET Bucket /\ grants' = [grants EXCEPT ![i0] = set]
          /\ (set # {} => rows[i0] # Nil) /\ req[w].op \in GrantOps /\ pc[w] # "idle"
      BY <2>1, <1>1, <1>3 DEF GrantOps, Database, GrantsOfLiveAccounts
    <3> HIDE DEF set
    <3>2. QED
      BY <3>1, <1>1, OwnGrantsChange
  <2>3. /\ req' \in [Worker -> Request \cup {Blank}]
        /\ pc'[w] = "list" /\ req'[w] = req[w] /\ OthersStay(w)
    BY <1>1, <1>3, <2>1, <2>2, ForgetShape
  <2>4. LocalOf(w)'
    BY <1>1, <2>1, <2>3 DEF LocalOf, OpsAt, HoldsAt, PushOps
  <2>5. Alone(w)' => ProgressOf(w)'
    <3>1. Alone(w)' => Alone(w)
      BY <1>1, <2>3 DEF Alone
    <3>2. Alone(w) => ProgressOf(w)
      BY DEF Progress
    <3>3. QED
      BY <3>1, <3>2, <1>1, <2>1, <2>3 DEF ProgressOf
  <2>6. QED
    BY <1>1, <1>3, <2>1, <2>2, <2>3, <2>4, <2>5, GoOnKeeps DEF PcSet
<1>4. QED
  BY <1>1, <1>2, <1>3

\* What a revoke that runs alone reads back is what it pushes.
LEMMA ListGrantsKeeps ==
    ASSUME IInv, NEW w \in Worker, ListGrants(w)
    PROVE  IInv'
<1> USE DEF IInv
<1> DEFINE i0 == req[w].id
           r  == [req[w] EXCEPT !.set = grants[i0]]
<1>1. /\ pc[w] = "list" /\ UNCHANGED <<rows, used, grants, tenant, tgrants, late>>
      /\ Continue(w, r, "sent")
  BY DEF ListGrants, db, api
<1>2. /\ req[w] \in Request /\ i0 \in Id /\ LocalOf(w) /\ req[w].op = "revoke"
  BY <1>1, Serving DEF Local, LocalOf, OpsAt
<1>3. /\ r \in Request /\ r.set = grants[i0] /\ r.cfg = req[w].cfg /\ r.hash = req[w].hash
      /\ r.op = req[w].op /\ r.id = i0 /\ r.user = req[w].user /\ r.alone = req[w].alone
  BY <1>2 DEF Request, TypeOK
<1>4. Footprint(w) /\ DataOK
  BY <1>1 DEF Footprint, DataOK, TypeOK, Database, GrantsOfLiveAccounts
<1> HIDE DEF r
<1>5. /\ pc' = [pc EXCEPT ![w] = "sent"] /\ req' \in [Worker -> Request \cup {Blank}]
      /\ pc'[w] = "sent" /\ req'[w] = r /\ OthersStay(w) /\ UNCHANGED settled
  BY <1>1, <1>3, ContinueShape
<1>6. LocalOf(w)'
  BY <1>1, <1>2, <1>3, <1>5 DEF LocalOf, OpsAt, HoldsAt, PushOps
<1>7. Alone(w)' => ProgressOf(w)'
  <2>1. Alone(w)' => Alone(w)
    BY <1>1, <1>3, <1>5 DEF Alone
  <2>2. Alone(w) => ProgressOf(w)
    BY DEF Progress
  <2>3. QED
    BY <2>1, <2>2, <1>1, <1>2, <1>3, <1>5 DEF ProgressOf, PushOps
<1>8. QED
  BY <1>1, <1>3, <1>4, <1>5, <1>6, <1>7, GoOnKeeps DEF PcSet

\* A call changes the tenant API's copy of its own account and aspect only.
LEMMA ServeKeepsApart ==
    ASSUME NEW m \in Message, Serve(m), TypeOK
    PROVE  /\ \A u \in Username : u # m.user => tenant'[u] = tenant[u] /\ tgrants'[u] = tgrants[u]
           /\ "acct" \notin Touches(m.kind) => tenant' = tenant
           /\ "grant" \notin Touches(m.kind) => tgrants' = tgrants
           /\ m.kind = "upsert" => tenant'[m.user] = [cfg |-> m.cfg, hash |-> m.hash]
           /\ m.kind = "delete" => tenant'[m.user] = Nil /\ tgrants'[m.user] = {}
           /\ m.kind = "buckets" => tgrants'[m.user] = m.set
<1>1. m.user \in Username /\ m.kind \in {"upsert", "delete", "buckets"}
  BY DEF Message
<1>2. CASE m.kind = "upsert"
  BY <1>1, <1>2 DEF Serve, TypeOK, Touches, Aspects
<1>3. CASE m.kind = "delete"
  BY <1>1, <1>3 DEF Serve, TypeOK, Touches, Aspects
<1>4. CASE m.kind = "buckets"
  BY <1>1, <1>4 DEF Serve, TypeOK, Touches, Aspects
<1>5. QED
  BY <1>1, <1>2, <1>3, <1>4

\* A call that is served and answered: the request that ran alone has made the
\* tenant API agree with its row.
LEMMA DeliveredKeeps ==
    ASSUME IInv, NEW w \in Worker, Delivered(w)
    PROVE  IInv'
<1> USE DEF IInv
<1> DEFINE i0 == req[w].id
           u0 == req[w].user
           m  == Outgoing(w)
<1>1. /\ pc[w] = "sent" /\ Serve(m) /\ UNCHANGED <<rows, used, grants, late>>
      /\ IF req[w].op = "remove" THEN Continue(w, req[w], "delete") ELSE Answer(w, TRUE)
  BY DEF Delivered, db
<1>2. /\ req[w] \in Request /\ i0 \in Id /\ u0 \in Username /\ LocalOf(w) /\ HoldsAt(w)
      /\ m \in Message /\ req[w].op \in AllOps /\ m.user = u0 /\ m.kind = Call(req[w].op)
      /\ Touches(m.kind) = Acts(w) /\ m.cfg = req[w].cfg /\ m.hash = req[w].hash
      /\ m.set = req[w].set
  BY <1>1, Serving DEF Local, LocalOf, Request, Outgoing, Acts
<1> HIDE DEF m
<1>3. /\ m.kind = "upsert" <=> req[w].op \in PushOps
      /\ m.kind = "delete" <=> req[w].op = "remove"
      /\ m.kind \in {"upsert", "delete", "buckets"}
  BY <1>2, CallKinds
<1>4. /\ tenant' \in [Username -> TenantRow \cup {Nil}]
      /\ tgrants' \in [Username -> SUBSET Bucket]
  BY <1>1, <1>2, <1>3, ServeType DEF HoldsAt
<1>5. /\ \A u \in Username : u # u0 => tenant'[u] = tenant[u] /\ tgrants'[u] = tgrants[u]
      /\ "acct" \notin Acts(w) => tenant' = tenant
      /\ "grant" \notin Acts(w) => tgrants' = tgrants
      /\ m.kind = "upsert" => tenant'[u0] = [cfg |-> m.cfg, hash |-> m.hash]
      /\ m.kind = "delete" => tenant'[u0] = Nil /\ tgrants'[u0] = {}
      /\ m.kind = "buckets" => tgrants'[u0] = m.set
  BY <1>1, <1>2, ServeKeepsApart
<1>6. Footprint(w)
  BY <1>1, <1>5 DEF Footprint
<1>7. DataOK
  BY <1>1, <1>4 DEF DataOK, TypeOK, Database, GrantsOfLiveAccounts
<1>8. CASE req[w].op = "remove"
  <2>1. /\ pc' = [pc EXCEPT ![w] = "delete"] /\ req' \in [Worker -> Request \cup {Blank}]
        /\ pc'[w] = "delete" /\ req'[w] = req[w] /\ OthersStay(w) /\ UNCHANGED settled
    BY <1>1, <1>2, <1>8, ContinueShape
  <2>2. LocalOf(w)'
    BY <1>1, <1>2, <1>8, <2>1 DEF LocalOf, OpsAt, HoldsAt, PushOps
  <2>3. Alone(w)' => ProgressOf(w)'
    <3>1. Alone(w)' => Alone(w)
      BY <1>1, <2>1 DEF Alone
    <3>2. Alone(w) => ProgressOf(w)
      BY DEF Progress
    <3>3. QED
      BY <3>1, <3>2, <1>1, <1>3, <1>5, <1>8, <2>1 DEF ProgressOf
  <2>4. QED
    BY <1>1, <1>2, <1>6, <1>7, <2>1, <2>2, <2>3, GoOnKeeps DEF PcSet
<1>9. CASE req[w].op # "remove"
  <2>1. ASSUME Alone(w), NEW u \in Username, u = u0
        PROVE  /\ "acct" \in Acts(w) => AcctMirrored(u)'
               /\ "grant" \in Acts(w) => GrantMirrored(u)'
    <3>1. ProgressOf(w) /\ rows[i0] # Nil /\ rows[i0].user = u0
      BY <2>1, <1>1, <1>2 DEF Progress, ProgressOf, LocalOf
    <3>2. i0 \in RowsOf(u)' /\ \A i \in RowsOf(u)' : i = i0
      BY <3>1, <2>1, <1>1, <1>2 DEF RowsOf, Database
    <3>3. CASE req[w].op \in PushOps
      <4>1. tenant'[u] = [cfg |-> rows[i0].cfg, hash |-> rows[i0].hash] /\ Acts(w) = {"acct"}
        BY <3>1, <3>3, <2>1, <1>1, <1>2, <1>3, <1>5, ActsOf DEF ProgressOf
      <4>2. QED
        BY <4>1, <3>2, <1>1 DEF AcctMirrored
    <3>4. CASE req[w].op \in GrantOps
      <4>1. tgrants'[u] = grants[i0] /\ Acts(w) = {"grant"}
        BY <3>1, <3>4, <2>1, <1>1, <1>2, <1>3, <1>5, ActsOf DEF ProgressOf, GrantOps, PushOps
      <4>2. QED
        BY <4>1, <3>2, <1>1 DEF GrantMirrored
    <3>5. QED
      BY <3>3, <3>4, <1>2, <1>9 DEF AllOps
  <2>2. Answer(w, TRUE)
    BY <1>1, <1>9
  <2>3. QED
    BY <1>1, <1>6, <1>7, <2>1, <2>2, EndKeeps
<1>10. QED
  BY <1>8, <1>9

\* A call that was given up writes nothing that is settled, nor anything a
\* request that runs alone relies on.
LEMMA LateDeliveryKeeps ==
    ASSUME IInv, LateDelivery
    PROVE  IInv'
<1> USE DEF IInv
<1>1. PICK m \in late : /\ late' = late \ {m}
                        /\ IF Accepts(m) THEN Serve(m) ELSE UNCHANGED api
                        /\ UNCHANGED <<db, pc, req, settled>>
  BY DEF LateDelivery
<1>2. UNCHANGED <<rows, used, grants, pc, req, settled>>
  BY <1>1 DEF db
<1>3. m \in Message /\ m.kind \in {"upsert", "delete", "buckets"}
  BY DEF TypeOK, Message
<1>4. /\ tenant' \in [Username -> TenantRow \cup {Nil}]
      /\ tgrants' \in [Username -> SUBSET Bucket]
      /\ \A u \in Username : u # m.user => tenant'[u] = tenant[u] /\ tgrants'[u] = tgrants[u]
      /\ "acct" \notin Touches(m.kind) => tenant' = tenant
      /\ "grant" \notin Touches(m.kind) => tgrants' = tgrants
  <2>1. CASE Serve(m)
    BY <2>1, <1>3, ServeType, ServeKeepsApart DEF LateInv
  <2>2. CASE UNCHANGED api
    BY <2>2 DEF api, TypeOK
  <2>3. QED
    BY <2>1, <2>2, <1>1
<1>5. TypeOK' /\ Local' /\ LateInv' /\ Database'
  <2>1. TypeOK'
    BY <1>1, <1>2, <1>4 DEF TypeOK
  <2>2. Local'
    BY <1>2 DEF Local, LocalOf, OpsAt, HoldsAt
  <2>3. LateInv' /\ Database'
    BY <1>1, <1>2 DEF LateInv, Database, GrantsOfLiveAccounts
  <2>4. QED
    BY <2>1, <2>2, <2>3
<1>6. Exclusive' /\ Quiet'
  BY <1>1, <1>2, SameWork
<1>7. Progress'
  <2>1. SUFFICES ASSUME NEW v \in Worker, Alone(v) PROVE ProgressOf(v)'
    BY <1>2 DEF Progress, Alone
  <2>2. ProgressOf(v) /\ pc[v] # "idle"
    BY <2>1 DEF Progress, Alone
  <2>3. CASE pc[v] # "delete"
    BY <2>2, <2>3, <1>2 DEF ProgressOf
  <2>4. CASE pc[v] = "delete"
    <3>1. req[v].op = "remove" /\ req[v].user \in Username
      BY <2>2, <2>4, Serving DEF Local, LocalOf, OpsAt
    <3>2. Acts(v) = {"acct", "grant"}
      BY <2>2, <3>1, ActsOf
    <3>3. m.user # req[v].user
      BY <2>1, <3>2, <1>3 DEF Exclusive, Touches, Aspects
    <3>4. QED
      BY <2>2, <3>1, <3>3, <1>2, <1>4 DEF ProgressOf
  <2>5. QED
    BY <2>3, <2>4
<1>8. Mirrored'
  <2>1. SUFFICES ASSUME NEW u \in Username
                 PROVE  /\ "acct" \in settled[u] => AcctMirrored(u)'
                        /\ "grant" \in settled[u] => GrantMirrored(u)'
    BY <1>2 DEF Mirrored
  <2>2. "acct" \in settled[u] => tenant'[u] = tenant[u]
    BY <1>4 DEF Quiet
  <2>3. "grant" \in settled[u] => tgrants'[u] = tgrants[u]
    BY <1>4 DEF Quiet
  <2>4. QED
    BY <2>2, <2>3, <1>2 DEF Mirrored, AcctMirrored, GrantMirrored, RowsOf
<1>9. QED
  BY <1>5, <1>6, <1>7, <1>8

\* A step that changes nothing but forgets some abandoned calls keeps the invariant.
LEMMA QuietKeeps ==
    ASSUME IInv, UNCHANGED <<db, api, pc, req, settled>>, late' \subseteq late
    PROVE  IInv'
<1> USE DEF IInv
<1>1. UNCHANGED <<rows, used, grants, tenant, tgrants, pc, req, settled>>
  BY DEF db, api
<1>2. TypeOK'
  BY <1>1 DEF TypeOK
<1>3. Local' /\ LateInv' /\ Database'
  BY <1>1 DEF Local, LocalOf, OpsAt, HoldsAt, LateInv, Database, GrantsOfLiveAccounts
<1>4. Exclusive' /\ Quiet'
  BY <1>1, SameWork
<1>5. Progress'
  BY <1>1 DEF Progress, ProgressOf, Alone
<1>6. Mirrored'
  BY <1>1 DEF Mirrored, AcctMirrored, GrantMirrored, RowsOf
<1>7. QED
  BY <1>2, <1>3, <1>4, <1>5, <1>6

\* The invariant is inductive.
LEMMA NextKeeps == IInv /\ [Next]_vars => IInv'
<1>1. SUFFICES ASSUME IInv, [Next]_vars PROVE IInv'
  OBVIOUS
<1>2. ASSUME NEW w \in Worker, AccountStep(w) PROVE IInv'
  BY <1>1, <1>2, CreateKeeps, LoadForUpdateKeeps, WriteRowKeeps, ReloadKeeps, LoadForResetKeeps,
     WritePasswordKeeps, PushAccountKeeps, LoadForRemoveKeeps, DeleteRowKeeps DEF AccountStep
<1>3. ASSUME NEW w \in Worker, GrantStep(w) PROVE IInv'
  BY <1>1, <1>3, LoadForReplaceKeeps, ClearGrantsKeeps, CommitGrantsKeeps, LoadForRevokeKeeps,
     DeleteGrantKeeps, ListGrantsKeeps DEF GrantStep
<1>4. ASSUME NEW w \in Worker, CallStep(w) PROVE IInv'
  BY <1>1, <1>4, DeliveredKeeps, CallFailKeeps DEF CallStep
<1>5. CASE LateDelivery
  BY <1>1, <1>5, LateDeliveryKeeps
<1>6. CASE LateLoss
  BY <1>1, <1>6, QuietKeeps DEF LateLoss
<1>7. CASE UNCHANGED vars
  BY <1>1, <1>7, QuietKeeps DEF vars, db, api
<1>8. QED
  BY <1>1, <1>2, <1>3, <1>4, <1>5, <1>6, <1>7 DEF Next

-----------------------------------------------------------------------------
(***************************************************************************)
(* Accounts and grants implement Mirror, whose keys are the usernames.  A  *)
(* request opens its account when it starts, works on it, and closes it    *)
(* with the step that makes row and projection equal.                      *)
(***************************************************************************)
\* What each row says of its account.
Described ==
    \A u \in Username : \A i \in RowsOf(u) :
        /\ Account(u) = [cfg |-> rows[i].cfg, hash |-> rows[i].hash]
        /\ Granted(u) = grants[i]

\* The account a row describes, whichever of its rows CHOOSE takes.
LEMMA AccountOfRow == Database => Described
<1>1. SUFFICES ASSUME Database, NEW u \in Username, NEW i \in RowsOf(u)
               PROVE  /\ Account(u) = [cfg |-> rows[i].cfg, hash |-> rows[i].hash]
                      /\ Granted(u) = grants[i]
  BY DEF Described
<1>2. RowsOf(u) = {i}
  BY <1>1 DEF RowsOf, Database
<1>3. QED
  BY <1>2 DEF Account, Granted

\* What is settled agrees, which is the last conjunct of the invariant.
LEMMA Agreements == IInv => AccountAgreement /\ GrantAgreement
<1>1. SUFFICES ASSUME IInv, NEW u \in Username
               PROVE  /\ "acct" \in settled[u] => tenant[u] = Account(u)
                      /\ "grant" \in settled[u] => tgrants[u] = Granted(u)
  BY DEF AccountAgreement, GrantAgreement
<1>2. /\ "acct" \in settled[u] => AcctMirrored(u)
      /\ "grant" \in settled[u] => GrantMirrored(u)
  BY <1>1 DEF IInv, Mirrored
<1>3. CASE RowsOf(u) = {}
  BY <1>2, <1>3 DEF AcctMirrored, GrantMirrored, Account, Granted
<1>4. CASE RowsOf(u) # {}
  <2>1. PICK i \in RowsOf(u) : TRUE
    BY <1>4
  <2>2. /\ Account(u) = [cfg |-> rows[i].cfg, hash |-> rows[i].hash]
        /\ Granted(u) = grants[i]
    BY <1>1, <2>1, AccountOfRow DEF IInv, Described
  <2>3. QED
    BY <1>2, <2>1, <2>2 DEF AcctMirrored, GrantMirrored
<1>5. QED
  BY <1>3, <1>4

\* An account whose rows, or whose rows' grants, stay as they are.
LEMMA SourcesStay ==
    ASSUME IInv, IInv', NEW u \in Username,
           \A i \in Id : i \in RowsOf(u)' <=> i \in RowsOf(u)
    PROVE  /\ (\A i \in RowsOf(u) : rows'[i] = rows[i]) => Account(u)' = Account(u)
           /\ (\A i \in RowsOf(u) : grants'[i] = grants[i]) => Granted(u)' = Granted(u)
<1>1. /\ \A i \in RowsOf(u) : /\ Account(u) = [cfg |-> rows[i].cfg, hash |-> rows[i].hash]
                              /\ Granted(u) = grants[i]
      /\ \A i \in RowsOf(u)' : /\ Account(u)' = [cfg |-> rows'[i].cfg, hash |-> rows'[i].hash]
                               /\ Granted(u)' = grants'[i]
  <2>1. Described'
    <3>1. Database' => Described'
      BY AccountOfRow, PTL
    <3>2. QED
      BY <3>1 DEF IInv
  <2>2. QED
    BY <2>1, AccountOfRow DEF IInv, Described
<1>2. RowsOf(u)' = RowsOf(u)
  BY DEF RowsOf
<1>3. CASE RowsOf(u) = {}
  BY <1>2, <1>3 DEF Account, Granted
<1>4. CASE RowsOf(u) # {}
  <2>1. PICK i \in RowsOf(u) : TRUE
    BY <1>4
  <2>2. i \in RowsOf(u)'
    BY <1>2, <2>1
  <2>3. QED
    BY <1>1, <2>1, <2>2
<1>5. QED
  BY <1>3, <1>4

\* A step that concerns the account k alone, writes the row or the projection
\* but not both, and writes neither side while k stays agreed, and no
\* projection when k is reopened, is a step of the mirror of accounts.
LEMMA AccountMirrorStep ==
    ASSUME IInv, IInv', NEW k \in Username,
           \A u \in Username \ {k} : /\ Account(u)' = Account(u)
                                     /\ tenant'[u] = tenant[u]
                                     /\ "acct" \in settled'[u] <=> "acct" \in settled[u],
           Account(k)' = Account(k) \/ tenant'[k] = tenant[k],
           "acct" \in settled[k] => tenant'[k] = tenant[k],
           "acct" \in settled[k] /\ "acct" \in settled'[k] => Account(k)' = Account(k)
    PROVE  [AccountMirror!Next]_(AccountMirror!vars)
<1> DEFINE A == Agreed("acct")
           S == [u \in Username |-> Account(u)]
<1>1. /\ tenant \in [Username -> TenantRow \cup {Nil}]
      /\ tenant' \in [Username -> TenantRow \cup {Nil}]
  BY DEF IInv, TypeOK
<1>2. /\ tenant'[k] = tenant[k] => tenant' = tenant
      /\ Account(k)' = Account(k) => S' = S
      /\ AccountMirror!ChangesAt(k, S, S')
      /\ AccountMirror!ChangesAt(k, tenant, tenant')
  BY <1>1 DEF AccountMirror!ChangesAt
<1>3. /\ k \in A <=> "acct" \in settled[k]
      /\ k \in A' <=> "acct" \in settled'[k]
      /\ k \in A /\ k \in A' => A' = A
      /\ k \notin A /\ k \notin A' => A' = A
      /\ k \in A /\ k \notin A' => A' = A \ {k}
      /\ k \notin A /\ k \in A' => A' = A \cup {k}
  BY DEF Agreed
<1>4. k \in A' => S'[k] = tenant'[k]
  <2>1. AccountAgreement'
    BY Agreements, PTL
  <2>2. QED
    BY <1>3, <2>1 DEF AccountAgreement
<1> HIDE DEF A, S
<1>5. CASE k \in A /\ k \in A'
  <2>1. A' = A /\ S' = S /\ tenant' = tenant
    BY <1>2, <1>3, <1>5
  <2>2. QED
    BY <2>1 DEF AccountMirror!vars, A, S
<1>6. CASE k \in A /\ k \notin A'
  <2>1. AccountMirror!Open(k)
    BY <1>2, <1>3, <1>6 DEF AccountMirror!Open, A, S
  <2>2. QED
    BY <2>1 DEF AccountMirror!Next
<1>7. CASE k \notin A /\ k \notin A'
  <2>1. AccountMirror!Work(k)
    BY <1>2, <1>3, <1>7 DEF AccountMirror!Work, A, S
  <2>2. QED
    BY <2>1 DEF AccountMirror!Next
<1>8. CASE k \notin A /\ k \in A'
  <2>1. AccountMirror!Close(k)
    BY <1>2, <1>3, <1>4, <1>8 DEF AccountMirror!Close, A, S
  <2>2. QED
    BY <2>1 DEF AccountMirror!Next
<1>9. QED
  BY <1>5, <1>6, <1>7, <1>8

\* The same of the mirror of grants.
LEMMA GrantMirrorStep ==
    ASSUME IInv, IInv', NEW k \in Username,
           \A u \in Username \ {k} : /\ Granted(u)' = Granted(u)
                                     /\ tgrants'[u] = tgrants[u]
                                     /\ "grant" \in settled'[u] <=> "grant" \in settled[u],
           Granted(k)' = Granted(k) \/ tgrants'[k] = tgrants[k],
           "grant" \in settled[k] => tgrants'[k] = tgrants[k],
           "grant" \in settled[k] /\ "grant" \in settled'[k] => Granted(k)' = Granted(k)
    PROVE  [GrantMirror!Next]_(GrantMirror!vars)
<1> DEFINE A == Agreed("grant")
           S == [u \in Username |-> Granted(u)]
<1>1. /\ tgrants \in [Username -> SUBSET Bucket]
      /\ tgrants' \in [Username -> SUBSET Bucket]
  BY DEF IInv, TypeOK
<1>2. /\ tgrants'[k] = tgrants[k] => tgrants' = tgrants
      /\ Granted(k)' = Granted(k) => S' = S
      /\ GrantMirror!ChangesAt(k, S, S')
      /\ GrantMirror!ChangesAt(k, tgrants, tgrants')
  BY <1>1 DEF GrantMirror!ChangesAt
<1>3. /\ k \in A <=> "grant" \in settled[k]
      /\ k \in A' <=> "grant" \in settled'[k]
      /\ k \in A /\ k \in A' => A' = A
      /\ k \notin A /\ k \notin A' => A' = A
      /\ k \in A /\ k \notin A' => A' = A \ {k}
      /\ k \notin A /\ k \in A' => A' = A \cup {k}
  BY DEF Agreed
<1>4. k \in A' => S'[k] = tgrants'[k]
  <2>1. GrantAgreement'
    BY Agreements, PTL
  <2>2. QED
    BY <1>3, <2>1 DEF GrantAgreement
<1> HIDE DEF A, S
<1>5. CASE k \in A /\ k \in A'
  <2>1. A' = A /\ S' = S /\ tgrants' = tgrants
    BY <1>2, <1>3, <1>5
  <2>2. QED
    BY <2>1 DEF GrantMirror!vars, A, S
<1>6. CASE k \in A /\ k \notin A'
  <2>1. GrantMirror!Open(k)
    BY <1>2, <1>3, <1>6 DEF GrantMirror!Open, A, S
  <2>2. QED
    BY <2>1 DEF GrantMirror!Next
<1>7. CASE k \notin A /\ k \notin A'
  <2>1. GrantMirror!Work(k)
    BY <1>2, <1>3, <1>7 DEF GrantMirror!Work, A, S
  <2>2. QED
    BY <2>1 DEF GrantMirror!Next
<1>8. CASE k \notin A /\ k \in A'
  <2>1. GrantMirror!Close(k)
    BY <1>2, <1>3, <1>4, <1>8 DEF GrantMirror!Close, A, S
  <2>2. QED
    BY <2>1 DEF GrantMirror!Next
<1>9. QED
  BY <1>5, <1>6, <1>7, <1>8

\* A request that is at work writes the database or the tenant API, never both
\* in a step, and settles nothing but what it writes.
Effect(w) ==
    /\ Footprint(w)
    /\ \/ rows' = rows /\ grants' = grants
       \/ tenant' = tenant /\ tgrants' = tgrants
    /\ settled' = settled \/ settled' = [settled EXCEPT ![req[w].user] = @ \cup Acts(w)]

\* Such a step is one of both mirrors: what the request writes is not agreed,
\* what it does not write stays as it is.
LEMMA EffectMirrored ==
    ASSUME IInv, IInv', NEW w \in Worker, pc[w] # "idle", Effect(w)
    PROVE  /\ [AccountMirror!Next]_(AccountMirror!vars)
           /\ [GrantMirror!Next]_(GrantMirror!vars)
<1>1. PICK k \in Username, i0 \in Id : k = req[w].user /\ i0 = req[w].id
  BY Serving DEF IInv
<1>2. /\ rows[i0] # Nil => rows[i0].user = k
      /\ rows'[i0] # Nil => rows[i0] # Nil /\ rows'[i0].user = k
      /\ \A i \in Id : i # i0 => rows'[i] = rows[i] /\ grants'[i] = grants[i]
      /\ \A u \in Username : u # k => tenant'[u] = tenant[u] /\ tgrants'[u] = tgrants[u]
      /\ "acct" \notin Acts(w) => rows' = rows /\ tenant' = tenant
      /\ "grant" \notin Acts(w) => /\ grants' = grants /\ tgrants' = tgrants
                                   /\ rows[i0] # Nil => rows'[i0] # Nil
  BY <1>1 DEF Effect, Footprint, IInv, Local, LocalOf
<1>3. \A a \in settled[k] : a \notin Acts(w)
  BY <1>1 DEF IInv, Quiet
<1>4. /\ \A u \in Username : u # k => settled'[u] = settled[u]
      /\ settled[k] \subseteq settled'[k]
      /\ \A a \in settled'[k] : a \in settled[k] \/ a \in Acts(w)
  BY <1>1 DEF Effect, IInv, TypeOK
<1>5. ASSUME NEW u \in Username, u # k \/ rows' = rows
      PROVE  Account(u)' = Account(u)
  <2>1. /\ \A i \in Id : i \in RowsOf(u)' <=> i \in RowsOf(u)
        /\ \A i \in RowsOf(u) : rows'[i] = rows[i]
    BY <1>2, <1>5 DEF RowsOf
  <2>2. QED
    BY <2>1, SourcesStay
<1>6. ASSUME NEW u \in Username,
             \/ u # k
             \/ "grant" \notin Acts(w)
             \/ rows' = rows /\ grants' = grants
      PROVE  Granted(u)' = Granted(u)
  <2>1. /\ \A i \in Id : i \in RowsOf(u)' <=> i \in RowsOf(u)
        /\ \A i \in RowsOf(u) : grants'[i] = grants[i]
    BY <1>2, <1>6 DEF RowsOf
  <2>2. QED
    BY <2>1, SourcesStay
<1>7. \/ rows' = rows /\ grants' = grants
      \/ tenant' = tenant /\ tgrants' = tgrants
  BY DEF Effect
<1>8. [AccountMirror!Next]_(AccountMirror!vars)
  <2>1. /\ Account(k)' = Account(k) \/ tenant'[k] = tenant[k]
        /\ "acct" \in settled[k] => Account(k)' = Account(k) /\ tenant'[k] = tenant[k]
    BY <1>2, <1>3, <1>5, <1>7
  <2>2. QED
    BY <1>2, <1>4, <1>5, <2>1, AccountMirrorStep
<1>9. [GrantMirror!Next]_(GrantMirror!vars)
  <2>1. /\ Granted(k)' = Granted(k) \/ tgrants'[k] = tgrants[k]
        /\ "grant" \in settled[k] => Granted(k)' = Granted(k) /\ tgrants'[k] = tgrants[k]
    BY <1>2, <1>3, <1>6, <1>7
  <2>2. QED
    BY <1>2, <1>4, <1>6, <2>1, GrantMirrorStep
<1>10. QED
  BY <1>8, <1>9

\* An answer settles what the request writes, or nothing.
LEMMA AnswerSettles ==
    ASSUME NEW w \in Worker, NEW ok \in BOOLEAN, Answer(w, ok)
    PROVE  settled' = settled \/ settled' = [settled EXCEPT ![req[w].user] = @ \cup Acts(w)]
BY DEF Answer, Acts

\* A step that leaves the data alone has a footprint.
LEMMA NoFootprint ==
    ASSUME NEW w \in Worker, UNCHANGED <<db, api>>
    PROVE  /\ Footprint(w)
           /\ rows' = rows /\ grants' = grants /\ tenant' = tenant /\ tgrants' = tgrants
BY DEF Footprint, db, api

\* The steps of accounts, after the request's first.
LEMMA AccountEffect ==
    ASSUME IInv, NEW w \in Worker,
           WriteRow(w) \/ Reload(w) \/ WritePassword(w) \/ PushAccount(w) \/ DeleteRow(w)
    PROVE  pc[w] # "idle" /\ Effect(w)
<1> USE DEF IInv
<1> DEFINE i0 == req[w].id
<1>1. CASE Reload(w) \/ PushAccount(w)
  <2>1. pc[w] # "idle" /\ UNCHANGED <<db, api>>
    BY <1>1 DEF Reload, PushAccount
  <2>2. settled' = settled \/ settled' = [settled EXCEPT ![req[w].user] = @ \cup Acts(w)]
    BY <1>1, AnswerSettles DEF Reload, PushAccount, Continue
  <2>3. QED
    BY <2>1, <2>2, NoFootprint DEF Effect
<1>2. CASE WriteRow(w) \/ WritePassword(w)
  <2>1. /\ pc[w] # "idle" /\ req[w].op \in PushOps /\ UNCHANGED <<used, grants, tenant, tgrants>>
        /\ req[w] \in Request /\ i0 \in Id
    BY <1>2, Serving DEF WriteRow, WritePassword, api, Local, LocalOf, OpsAt, PushOps
  <2>2. settled' = settled \/ settled' = [settled EXCEPT ![req[w].user] = @ \cup Acts(w)]
    BY <1>2, AnswerSettles DEF WriteRow, WritePassword, Continue
  <2>3. CASE rows[i0] = Nil
    <3>1. UNCHANGED <<db, api>>
      BY <1>2, <2>1, <2>3 DEF WriteRow, WritePassword, db, api
    <3>2. QED
      BY <2>1, <2>2, <3>1, NoFootprint DEF Effect
  <2>4. CASE rows[i0] # Nil
    <3>1. PICK row \in AccountRow : row.user = rows[i0].user /\ rows' = [rows EXCEPT ![i0] = row]
      <4>1. CASE WriteRow(w)
        <5>1. req[w].cfg \in Config /\ req[w].limit \in Limits
          BY <4>1, <2>1 DEF WriteRow, Local, LocalOf, HoldsAt, Request
        <5> DEFINE row == [rows[i0] EXCEPT !.cfg = req[w].cfg, !.limit = req[w].limit]
        <5>2. row \in AccountRow /\ row.user = rows[i0].user
          BY <2>1, <2>4, <5>1 DEF TypeOK, AccountRow
        <5>3. rows' = [rows EXCEPT ![i0] = row]
          BY <4>1, <2>4 DEF WriteRow
        <5> QED
          BY <5>2, <5>3
      <4>2. CASE WritePassword(w)
        <5>1. req[w].hash \in Hash
          BY <4>2, <2>1 DEF WritePassword, Local, LocalOf, HoldsAt
        <5> DEFINE row == [rows[i0] EXCEPT !.hash = req[w].hash]
        <5>2. row \in AccountRow /\ row.user = rows[i0].user
          BY <2>1, <2>4, <5>1 DEF TypeOK, AccountRow
        <5>3. rows' = [rows EXCEPT ![i0] = row]
          BY <4>2, <2>4 DEF WritePassword
        <5> QED
          BY <5>2, <5>3
      <4>3. QED
        BY <1>2, <4>1, <4>2
    <3>2. Footprint(w)
      BY <2>1, <2>4, <3>1, OwnRowChanges
    <3>3. QED
      BY <2>1, <2>2, <3>2 DEF Effect
  <2>5. QED
    BY <2>3, <2>4
<1>3. CASE DeleteRow(w)
  <2>1. /\ pc[w] = "delete" /\ req[w].op = "remove" /\ UNCHANGED <<used, tenant, tgrants>>
        /\ i0 \in Id
    BY <1>3, Serving DEF DeleteRow, api, Local, LocalOf, OpsAt
  <2>2. Acts(w) = {"acct", "grant"}
    BY <2>1, ActsOf
  <2>3. settled' = settled \/ settled' = [settled EXCEPT ![req[w].user] = @ \cup Acts(w)]
    BY <1>3, AnswerSettles DEF DeleteRow
  <2>4. /\ \A i \in Id : i # i0 => rows'[i] = rows[i] /\ grants'[i] = grants[i]
        /\ rows'[i0] = Nil
    BY <1>3, <2>1 DEF DeleteRow, TypeOK
  <2>5. Footprint(w)
    BY <2>1, <2>2, <2>4 DEF Footprint
  <2>6. QED
    BY <2>1, <2>3, <2>5 DEF Effect
<1>4. QED
  BY <1>1, <1>2, <1>3

\* The steps of grants, after the request's first.
LEMMA GrantEffect ==
    ASSUME IInv, NEW w \in Worker,
           ClearGrants(w) \/ CommitGrants(w) \/ DeleteGrant(w) \/ ListGrants(w)
    PROVE  pc[w] # "idle" /\ Effect(w)
<1> USE DEF IInv
<1> DEFINE i0 == req[w].id
<1>1. CASE ClearGrants(w) \/ ListGrants(w)
  <2>1. pc[w] # "idle" /\ UNCHANGED <<db, api>> /\ settled' = settled
    BY <1>1 DEF ClearGrants, ListGrants, Continue
  <2>2. QED
    BY <2>1, NoFootprint DEF Effect
<1>2. CASE CommitGrants(w) \/ DeleteGrant(w)
  <2>1. /\ pc[w] # "idle" /\ req[w].op \in GrantOps /\ UNCHANGED <<rows, used, tenant, tgrants>>
        /\ req[w] \in Request /\ i0 \in Id
    BY <1>2, Serving DEF CommitGrants, DeleteGrant, api, Local, LocalOf, OpsAt, GrantOps
  <2>2. settled' = settled \/ settled' = [settled EXCEPT ![req[w].user] = @ \cup Acts(w)]
    BY <1>2, AnswerSettles DEF CommitGrants, DeleteGrant
  <2>3. CASE grants' = grants
    <3>1. UNCHANGED <<db, api>>
      BY <2>1, <2>3 DEF db, api
    <3>2. QED
      BY <2>1, <2>2, <3>1, NoFootprint DEF Effect
  <2>4. CASE grants' # grants
    <3>1. Acts(w) = {"grant"}
      BY <2>1, ActsOf
    <3>2. \A i \in Id : i # i0 => grants'[i] = grants[i]
      BY <1>2, <2>1, <2>4 DEF CommitGrants, DeleteGrant, TypeOK
    <3>3. Footprint(w)
      BY <2>1, <3>1, <3>2 DEF Footprint
    <3>4. QED
      BY <2>1, <2>2, <3>3 DEF Effect
  <2>5. QED
    BY <2>3, <2>4
<1>3. QED
  BY <1>1, <1>2

\* The call of a request, and every way it fails.
LEMMA CallEffect ==
    ASSUME IInv, NEW w \in Worker, CallStep(w)
    PROVE  pc[w] # "idle" /\ Effect(w)
<1> USE DEF IInv
<1>1. CASE Refused(w) \/ GiveUp(w) \/ Abort(w)
  <2>1. /\ pc[w] # "idle" /\ UNCHANGED <<db, api>>
        /\ settled' = settled
    BY <1>1 DEF Refused, GiveUp, Abort, Answer
  <2>2. QED
    BY <2>1, NoFootprint DEF Effect
<1>2. CASE Delivered(w)
  <2> DEFINE m == Outgoing(w)
  <2>1. /\ pc[w] = "sent" /\ Serve(m) /\ UNCHANGED <<rows, used, grants>>
        /\ settled' = settled \/ settled' = [settled EXCEPT ![req[w].user] = @ \cup Acts(w)]
    BY <1>2, AnswerSettles DEF Delivered, db, Continue
  <2>2. m \in Message /\ m.user = req[w].user /\ Touches(m.kind) = Acts(w)
    BY <2>1, Serving DEF Outgoing, Acts
  <2> HIDE DEF m
  <2>3. Footprint(w)
    BY <2>1, <2>2, ServeKeepsApart DEF Footprint
  <2>4. QED
    BY <2>1, <2>3 DEF Effect
<1>3. QED
  BY <1>1, <1>2 DEF CallStep

\* What Start does to the agreed accounts: the request takes its own off what
\* it is going to write.
LEMMA StartSettles ==
    ASSUME IInv, NEW w \in Worker, NEW r \in Request, NEW n, Start(w, r, n)
    PROVE  /\ r.user \in Username
           /\ \A u \in Username : u # r.user => settled'[u] = settled[u]
           /\ settled'[r.user] = settled[r.user] \ Touches(Call(r.op))
BY DEF Start, Request, IInv, TypeOK

\* A request that starts by reading its row opens what it is going to write.
LEMMA LoadMirrored ==
    ASSUME IInv, IInv', NEW w \in Worker, NEW r \in Request, NEW n, Start(w, r, n),
           UNCHANGED <<db, api>>
    PROVE  /\ [AccountMirror!Next]_(AccountMirror!vars)
           /\ [GrantMirror!Next]_(GrantMirror!vars)
<1>1. PICK k \in Username : k = r.user
  BY DEF Request
<1>2. /\ \A u \in Username : u # k => settled'[u] = settled[u]
      /\ settled'[k] \subseteq settled[k]
  BY <1>1, StartSettles
<1>3. UNCHANGED <<rows, used, grants, tenant, tgrants>>
  BY DEF db, api
<1>4. \A u \in Username : Account(u)' = Account(u) /\ Granted(u)' = Granted(u)
  <2>1. SUFFICES ASSUME NEW u \in Username
                 PROVE  Account(u)' = Account(u) /\ Granted(u)' = Granted(u)
    OBVIOUS
  <2>2. /\ \A i \in Id : i \in RowsOf(u)' <=> i \in RowsOf(u)
        /\ \A i \in RowsOf(u) : rows'[i] = rows[i] /\ grants'[i] = grants[i]
    BY <1>3 DEF RowsOf
  <2>3. QED
    BY <2>2, SourcesStay
<1>5. [AccountMirror!Next]_(AccountMirror!vars)
  BY <1>2, <1>3, <1>4, AccountMirrorStep
<1>6. [GrantMirror!Next]_(GrantMirror!vars)
  BY <1>2, <1>3, <1>4, GrantMirrorStep
<1>7. QED
  BY <1>5, <1>6

\* The requests that start by reading their row.
LEMMA LoadsMirrored ==
    ASSUME IInv, IInv', NEW w \in Worker,
           \/ LoadForUpdate(w) \/ LoadForReset(w) \/ LoadForRemove(w)
           \/ LoadForReplace(w) \/ LoadForRevoke(w)
    PROVE  /\ [AccountMirror!Next]_(AccountMirror!vars)
           /\ [GrantMirror!Next]_(GrantMirror!vars)
<1>1. PICK r \in Request, n \in PcSet : Start(w, r, n) /\ UNCHANGED <<db, api>>
  <2>1. CASE LoadForUpdate(w)
    <3>1. PICK i \in Id, c \in Config, l \in Limits :
            /\ rows[i] # Nil
            /\ Start(w, [Blank EXCEPT !.op = "update", !.id = i, !.user = rows[i].user,
                                      !.cfg = c, !.limit = l], "write")
            /\ UNCHANGED <<db, api, late>>
      BY <2>1 DEF LoadForUpdate
    <3> DEFINE r == [Blank EXCEPT !.op = "update", !.id = i, !.user = rows[i].user,
                                  !.cfg = c, !.limit = l]
    <3>2. r \in Request
      BY <3>1 DEF Blank, Request, AllOps, PushOps, Limits, IInv, TypeOK, AccountRow
    <3>3. QED
      BY <3>1, <3>2 DEF PcSet
  <2>2. CASE LoadForReset(w)
    <3>1. PICK i \in Id, h \in Hash :
            /\ rows[i] # Nil
            /\ Start(w, [Blank EXCEPT !.op = "reset", !.id = i, !.user = rows[i].user,
                                      !.cfg = rows[i].cfg, !.hash = h], "password")
            /\ UNCHANGED <<db, api, late>>
      BY <2>2 DEF LoadForReset
    <3> DEFINE r == [Blank EXCEPT !.op = "reset", !.id = i, !.user = rows[i].user,
                                  !.cfg = rows[i].cfg, !.hash = h]
    <3>2. r \in Request
      BY <3>1 DEF Blank, Request, AllOps, PushOps, Limits, IInv, TypeOK, AccountRow
    <3>3. QED
      BY <3>1, <3>2 DEF PcSet
  <2>3. CASE LoadForRemove(w)
    <3>1. PICK i \in Id :
            /\ rows[i] # Nil
            /\ Start(w, [Blank EXCEPT !.op = "remove", !.id = i, !.user = rows[i].user], "sent")
            /\ UNCHANGED <<db, api, late>>
      BY <2>3 DEF LoadForRemove
    <3> DEFINE r == [Blank EXCEPT !.op = "remove", !.id = i, !.user = rows[i].user]
    <3>2. r \in Request
      BY <3>1 DEF Blank, Request, AllOps, PushOps, Limits, IInv, TypeOK, AccountRow
    <3>3. QED
      BY <3>1, <3>2 DEF PcSet
  <2>4. CASE LoadForReplace(w)
    <3>1. PICK i \in Id, set \in SUBSET Bucket :
            /\ rows[i] # Nil
            /\ Start(w, [Blank EXCEPT !.op = "replace", !.id = i, !.user = rows[i].user,
                                      !.limit = rows[i].limit, !.set = set], "clear")
            /\ UNCHANGED <<db, api, late>>
      BY <2>4 DEF LoadForReplace
    <3> DEFINE r == [Blank EXCEPT !.op = "replace", !.id = i, !.user = rows[i].user,
                                  !.limit = rows[i].limit, !.set = set]
    <3>2. r \in Request
      BY <3>1 DEF Blank, Request, AllOps, GrantOps, Limits, IInv, TypeOK, AccountRow
    <3>3. QED
      BY <3>1, <3>2 DEF PcSet
  <2>5. CASE LoadForRevoke(w)
    <3>1. PICK i \in Id, b \in Bucket :
            /\ rows[i] # Nil
            /\ Start(w, [Blank EXCEPT !.op = "revoke", !.id = i, !.user = rows[i].user,
                                      !.set = {b}], "revoke")
            /\ UNCHANGED <<db, api, late>>
      BY <2>5 DEF LoadForRevoke
    <3> DEFINE r == [Blank EXCEPT !.op = "revoke", !.id = i, !.user = rows[i].user,
                                  !.set = {b}]
    <3>2. r \in Request
      BY <3>1 DEF Blank, Request, AllOps, GrantOps, Limits, IInv, TypeOK, AccountRow
    <3>3. QED
      BY <3>1, <3>2 DEF PcSet
  <2>6. QED
    BY <2>1, <2>2, <2>3, <2>4, <2>5
<1>2. QED
  BY <1>1, LoadMirrored

\* create opens its account and inserts the row at once; a new account has no
\* grants, so theirs stay as they are.
LEMMA CreateMirrored ==
    ASSUME IInv, IInv', NEW w \in Worker, Create(w)
    PROVE  /\ [AccountMirror!Next]_(AccountMirror!vars)
           /\ [GrantMirror!Next]_(GrantMirror!vars)
<1>1. PICK k \in Username, i0 \in Id \ used, c \in Config, l \in Limits, h \in Hash :
        /\ RowsOf(k) = {}
        /\ Start(w, [Blank EXCEPT !.op = "create", !.id = i0, !.user = k], "reload")
        /\ rows' = [rows EXCEPT ![i0] = [user |-> k, cfg |-> c, limit |-> l, hash |-> h]]
        /\ UNCHANGED <<grants, api>>
  BY DEF Create
<1> DEFINE r == [Blank EXCEPT !.op = "create", !.id = i0, !.user = k]
<1>2. r \in Request /\ r.user = k /\ r.op = "create"
  BY DEF Blank, Request, AllOps, PushOps, Limits
<1>3. Touches(Call(r.op)) = {"acct"}
  BY <1>2 DEF Touches, Call, PushOps
<1> HIDE DEF r
<1>4. /\ \A u \in Username : u # k => settled'[u] = settled[u]
      /\ settled'[k] = settled[k] \ {"acct"}
  BY <1>1, <1>2, <1>3, StartSettles DEF r
<1>5. UNCHANGED <<grants, tenant, tgrants>>
  BY <1>1 DEF api
<1>6. /\ rows[i0] = Nil /\ rows'[i0].user = k /\ rows'[i0] # Nil
      /\ \A i \in Id : i # i0 => rows'[i] = rows[i]
      /\ grants[i0] = {}
  <2>1. rows[i0] = Nil /\ grants[i0] = {}
    BY DEF IInv, Database, GrantsOfLiveAccounts
  <2>2. [user |-> k, cfg |-> c, limit |-> l, hash |-> h] \in AccountRow
    BY DEF AccountRow
  <2>3. QED
    BY <1>1, <2>1, <2>2, ConstantsAssumption DEF IInv, TypeOK
<1>7. ASSUME NEW u \in Username, u # k
      PROVE  Account(u)' = Account(u) /\ Granted(u)' = Granted(u)
  <2>1. /\ \A i \in Id : i \in RowsOf(u)' <=> i \in RowsOf(u)
        /\ \A i \in RowsOf(u) : rows'[i] = rows[i] /\ grants'[i] = grants[i]
    BY <1>5, <1>6, <1>7 DEF RowsOf
  <2>2. QED
    BY <2>1, SourcesStay
<1>8. Granted(k)' = Granted(k)
  <2>1. Granted(k) = {}
    BY <1>1 DEF Granted
  <2>2. RowsOf(k)' = {i0}
    BY <1>1, <1>6 DEF RowsOf
  <2>3. Granted(k)' = {}
    BY <2>2, <1>5, <1>6 DEF Granted
  <2>4. QED
    BY <2>1, <2>3
<1>9. [AccountMirror!Next]_(AccountMirror!vars)
  BY <1>4, <1>5, <1>7, AccountMirrorStep
<1>10. [GrantMirror!Next]_(GrantMirror!vars)
  BY <1>4, <1>5, <1>7, <1>8, GrantMirrorStep
<1>11. QED
  BY <1>9, <1>10

\* A call that was given up finds the account it is for open.
LEMMA LateMirrored ==
    ASSUME IInv, IInv', LateDelivery
    PROVE  /\ [AccountMirror!Next]_(AccountMirror!vars)
           /\ [GrantMirror!Next]_(GrantMirror!vars)
<1>1. PICK m \in late : /\ IF Accepts(m) THEN Serve(m) ELSE UNCHANGED api
                        /\ UNCHANGED <<db, settled>>
  BY DEF LateDelivery
<1>2. PICK k \in Username : k = m.user
  BY DEF IInv, TypeOK, Message
<1>3. m \in Message
  BY DEF IInv, TypeOK
<1>4. /\ \A u \in Username : u # k => tenant'[u] = tenant[u] /\ tgrants'[u] = tgrants[u]
      /\ "acct" \in settled[k] => tenant'[k] = tenant[k]
      /\ "grant" \in settled[k] => tgrants'[k] = tgrants[k]
  <2>1. CASE Serve(m)
    <3>1. \A a \in settled[k] : a \notin Touches(m.kind)
      BY <1>2 DEF IInv, Quiet
    <3>2. QED
      BY <2>1, <3>1, <1>2, <1>3, ServeKeepsApart DEF IInv
  <2>2. CASE UNCHANGED api
    BY <2>2 DEF api
  <2>3. QED
    BY <1>1, <2>1, <2>2
<1>5. UNCHANGED <<rows, grants, settled>>
  BY <1>1 DEF db
<1>6. \A u \in Username : Account(u)' = Account(u) /\ Granted(u)' = Granted(u)
  <2>1. SUFFICES ASSUME NEW u \in Username
                 PROVE  Account(u)' = Account(u) /\ Granted(u)' = Granted(u)
    OBVIOUS
  <2>2. /\ \A i \in Id : i \in RowsOf(u)' <=> i \in RowsOf(u)
        /\ \A i \in RowsOf(u) : rows'[i] = rows[i] /\ grants'[i] = grants[i]
    BY <1>5 DEF RowsOf
  <2>3. QED
    BY <2>2, SourcesStay
<1>7. [AccountMirror!Next]_(AccountMirror!vars)
  BY <1>4, <1>5, <1>6, AccountMirrorStep
<1>8. [GrantMirror!Next]_(GrantMirror!vars)
  BY <1>4, <1>5, <1>6, GrantMirrorStep
<1>9. QED
  BY <1>7, <1>8

\* A step that leaves the data and its history alone is a stutter of both.
LEMMA StutterMirrored ==
    ASSUME UNCHANGED <<rows, grants, tenant, tgrants, settled>>
    PROVE  /\ UNCHANGED AccountMirror!vars
           /\ UNCHANGED GrantMirror!vars
BY DEF AccountMirror!vars, GrantMirror!vars, Account, Granted, RowsOf, Agreed

\* Every step is one of both mirrors.
LEMMA NextMirrored ==
    IInv /\ IInv' /\ [Next]_vars => /\ [AccountMirror!Next]_(AccountMirror!vars)
                                    /\ [GrantMirror!Next]_(GrantMirror!vars)
<1> DEFINE Goal == /\ [AccountMirror!Next]_(AccountMirror!vars)
                   /\ [GrantMirror!Next]_(GrantMirror!vars)
<1>1. SUFFICES ASSUME IInv, IInv', [Next]_vars PROVE Goal
  OBVIOUS
<1>2. ASSUME NEW w \in Worker, AccountStep(w) PROVE Goal
  <2>1. CASE WriteRow(w) \/ Reload(w) \/ WritePassword(w) \/ PushAccount(w) \/ DeleteRow(w)
    BY <1>1, <2>1, AccountEffect, EffectMirrored
  <2>2. CASE LoadForUpdate(w) \/ LoadForReset(w) \/ LoadForRemove(w)
    BY <1>1, <2>2, LoadsMirrored
  <2>3. CASE Create(w)
    BY <1>1, <2>3, CreateMirrored
  <2>4. QED
    BY <1>2, <2>1, <2>2, <2>3 DEF AccountStep
<1>3. ASSUME NEW w \in Worker, GrantStep(w) PROVE Goal
  <2>1. CASE ClearGrants(w) \/ CommitGrants(w) \/ DeleteGrant(w) \/ ListGrants(w)
    BY <1>1, <2>1, GrantEffect, EffectMirrored
  <2>2. CASE LoadForReplace(w) \/ LoadForRevoke(w)
    BY <1>1, <2>2, LoadsMirrored
  <2>3. QED
    BY <1>3, <2>1, <2>2 DEF GrantStep
<1>4. ASSUME NEW w \in Worker, CallStep(w) PROVE Goal
  BY <1>1, <1>4, CallEffect, EffectMirrored
<1>5. CASE LateDelivery
  BY <1>1, <1>5, LateMirrored
<1>6. CASE LateLoss \/ UNCHANGED vars
  <2>1. UNCHANGED <<rows, grants, tenant, tgrants, settled>>
    BY <1>6 DEF LateLoss, vars, db, api
  <2>2. QED
    BY <2>1, StutterMirrored
<1>7. QED
  BY <1>1, <1>2, <1>3, <1>4, <1>5, <1>6 DEF Next

\* Initially everything is agreed, and there is nothing.
LEMMA InitMirrored == Init => AccountMirror!Init /\ GrantMirror!Init
<1>1. SUFFICES ASSUME Init PROVE AccountMirror!Init /\ GrantMirror!Init
  OBVIOUS
<1>2. \A u \in Username : RowsOf(u) = {}
  BY <1>1 DEF Init, RowsOf
<1>3. \A u \in Username : Account(u) = Nil /\ Granted(u) = {}
  BY <1>2 DEF Account, Granted
<1>4. Agreed("acct") = Username /\ Agreed("grant") = Username
  BY <1>1 DEF Init, Agreed, Aspects
<1>5. \A u \in Username : tenant[u] = Nil /\ tgrants[u] = {}
  BY <1>1 DEF Init
<1>6. QED
  BY <1>3, <1>4, <1>5 DEF AccountMirror!Init, GrantMirror!Init

-----------------------------------------------------------------------------
(***************************************************************************)
(* The theorems.                                                           *)
(***************************************************************************)
\* The inductive invariant holds in every reachable state.
THEOREM Invariance == Spec => []IInv
<1>1. Init => IInv
  BY InitIInv
<1>2. IInv /\ [Next]_vars => IInv'
  BY NextKeeps
<1>3. QED
  BY <1>1, <1>2, PTL DEF Spec

\* Every variable always holds a value of its type.
THEOREM TypeCorrect == Spec => []TypeOK
<1>1. IInv => TypeOK
  BY DEF IInv
<1>2. QED
  BY <1>1, Invariance, PTL

\* A create, update, reset or remove that succeeded and ran alone leaves the
\* tenant API with the row's columns and hash, and they stay (accounts/handler.go).
THEOREM AccountsAgree == Spec => []AccountAgreement
BY Agreements, Invariance, PTL

\* The same of replace, revoke and remove and the account's buckets
\* (grants/handler.go).
THEOREM GrantsAgree == Spec => []GrantAgreement
BY Agreements, Invariance, PTL

\* No grant outlives its account (the foreign keys of account_bucket_grants).
THEOREM GrantsHaveAccounts == Spec => []GrantsOfLiveAccounts
<1>1. IInv => GrantsOfLiveAccounts
  BY DEF IInv, Database
<1>2. QED
  BY <1>1, Invariance, PTL

\* A replace that runs alone leaves at most bucket_limit grants (exceedsLimit).
THEOREM GrantsAreLimited == Spec => []GrantsWithinLimit
<1>1. IInv => GrantsWithinLimit
  <2>1. SUFFICES ASSUME IInv, NEW w \in Worker,
                        pc[w] = "sent", req[w].op = "replace", req[w].alone,
                        req[w].limit # Nil
                 PROVE  Cardinality(grants[req[w].id]) <= req[w].limit
    BY DEF GrantsWithinLimit
  <2>2. grants[req[w].id] = req[w].set
    BY <2>1 DEF IInv, Progress, ProgressOf, Alone, GrantOps
  <2>3. ~ExceedsLimit(req[w].set, req[w].limit)
    BY <2>1 DEF IInv, Local, LocalOf, HoldsAt
  <2>4. req[w].limit \in Nat /\ req[w].set \subseteq Bucket
    BY <2>1, Serving, ConstantsAssumption DEF IInv, Request, Limits
  <2>5. Cardinality(req[w].set) \in Nat
    BY <2>4, ConstantsAssumption, FS_Subset, FS_CardinalityType
  <2>6. QED
    BY <2>1, <2>2, <2>3, <2>4, <2>5 DEF ExceedsLimit
<1>2. QED
  BY <1>1, Invariance, PTL

\* Accounts and their projection implement Mirror: neither side of an account
\* changes while they are known to agree, and they are known to agree only from
\* a moment when they do (accounts/handler.go).
THEOREM AccountsRefineMirror == Spec => AccountsMirrored
<1>1. Init => AccountMirror!Init
  BY InitMirrored
<1>2. IInv /\ IInv' /\ [Next]_vars => [AccountMirror!Next]_(AccountMirror!vars)
  BY NextMirrored
<1>3. QED
  BY <1>1, <1>2, Invariance, PTL DEF Spec, AccountMirror!Spec, AccountsMirrored

\* So do grants and theirs (grants/handler.go).
THEOREM GrantsRefineMirror == Spec => GrantsMirrored
<1>1. Init => GrantMirror!Init
  BY InitMirrored
<1>2. IInv /\ IInv' /\ [Next]_vars => [GrantMirror!Next]_(GrantMirror!vars)
  BY NextMirrored
<1>3. QED
  BY <1>1, <1>2, Invariance, PTL DEF Spec, GrantMirror!Spec, GrantsMirrored
=============================================================================
