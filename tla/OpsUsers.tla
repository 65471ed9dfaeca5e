------------------------------ MODULE OpsUsers ------------------------------
(***************************************************************************)
(* Operators of the platform, their roles, and the gates every request     *)
(* passes first (internal/users, internal/auth).  The gate reads the       *)
(* actor's row and roles, the handler then reads and writes others, each   *)
(* in a statement of its own; updating a user is one transaction at READ   *)
(* COMMITTED.  Password hashes are left out: only the flag that asks for a *)
(* new password is kept.                                                   *)
(***************************************************************************)
EXTENDS Naturals, FiniteSets

CONSTANTS
    Worker,    \* goroutines serving requests at the same time
    Id,        \* primary keys of ops_users, never reused
    Seed,      \* the user the first migration inserts
    Admin,     \* the role platform_admin
    RoleSets,  \* the sets of roles requests ask for in this instance
    Nil,       \* no row yet, a field the patch does not name
    Gone       \* a user that was deleted

Role    == UNION RoleSets
UserRow == [active : BOOLEAN, must : BOOLEAN]

ASSUME OpsUsersAssumption ==
    /\ Seed \in Id
    /\ {Admin} \in RoleSets
    /\ Nil \notin Id
    /\ Nil \notin RoleSets
    /\ Nil \notin BOOLEAN
    /\ Nil \notin UserRow
    /\ Gone \notin UserRow
    /\ Nil # Gone

VARIABLES
    users,    \* ops_users: id -> row, Nil or Gone
    roles,    \* ops_user_roles
    pc, req   \* where each goroutine is, and its local variables

vars == <<users, roles, pc, req>>

Exists(i) == users[i] \notin {Nil, Gone}

AdminOps == {"create", "update", "remove"}

(***************************************************************************)
(* Local variables.  `status' is what an update will write, `named'        *)
(* whether its patch names it; `set' the roles asked for; `held' whether   *)
(* its transaction has locked the row; `seen' the roles its DELETE found.  *)
(* `alone' is history: no other request was under way since it began.      *)
(***************************************************************************)
Blank   == [op |-> Nil, actor |-> Nil, target |-> Nil, status |-> FALSE, named |-> FALSE,
            set |-> Nil, held |-> FALSE, seen |-> {}, alone |-> FALSE]
Request == [op : AdminOps \cup {"change"}, actor : Id, target : Id \cup {Nil},
            status : BOOLEAN, named : BOOLEAN, set : RoleSets \cup {Nil},
            held : BOOLEAN, seen : SUBSET Role, alone : BOOLEAN]

GoOn(w, r, next) ==
    /\ pc' = [pc EXCEPT ![w] = next]
    /\ req' = [req EXCEPT ![w] = r]

Finish(w) == GoOn(w, Blank, "idle")

\* Another transaction has changed the user's row and not yet committed.
Held(w, i) == \E v \in Worker \ {w} : req[v].held /\ req[v].target = i

-----------------------------------------------------------------------------
(***************************************************************************)
(* The gates                                                               *)
(***************************************************************************)
\* Mutant of RequireUser: must_change_password is for the portal to look at.
RequireUserOnly(w) ==
    /\ pc[w] = "idle"
    /\ \E a \in Id, op \in AdminOps \cup {"change"} :
        /\ Exists(a)
        /\ users[a].active
        /\ pc' = [pc EXCEPT ![w] = "roles"]
        /\ req' = [v \in Worker |->
                      IF v = w THEN [Blank EXCEPT !.op = op, !.actor = a,
                                                  !.alone = \A x \in Worker : pc[x] = "idle"]
                      ELSE [req[v] EXCEPT !.alone = FALSE]]
    /\ UNCHANGED <<users, roles>>

\* RequireUser: the actor's row.  One who must change the password may do only
\* that (and read /api/me, and log out).
RequireUser(w) ==
    /\ pc[w] = "idle"
    /\ \E a \in Id, op \in AdminOps \cup {"change"} :
        /\ Exists(a)
        /\ users[a].active
        /\ users[a].must => op = "change"
        /\ pc' = [pc EXCEPT ![w] = "roles"]
        /\ req' = [v \in Worker |->
                      IF v = w THEN [Blank EXCEPT !.op = op, !.actor = a,
                                                  !.alone = \A x \in Worker : pc[x] = "idle"]
                      ELSE [req[v] EXCEPT !.alone = FALSE]]
    /\ UNCHANGED <<users, roles>>

\* The actor's roles, in a second statement, and RequireAdmin.
RequireAdmin(w) ==
    /\ pc[w] = "roles"
    /\ IF req[w].op = "change" \/ Admin \in roles[req[w].actor]
       THEN GoOn(w, req[w], "handler") ELSE Finish(w)
    /\ UNCHANGED <<users, roles>>

-----------------------------------------------------------------------------
(***************************************************************************)
(* internal/users                                                          *)
(***************************************************************************)
\* create: Insert, with the roles, in one transaction.
Create(w) ==
    /\ pc[w] = "handler" /\ req[w].op = "create"
    /\ \E i \in Id, must \in BOOLEAN, set \in RoleSets :
        /\ users[i] = Nil
        /\ users' = [users EXCEPT ![i] = [active |-> TRUE, must |-> must]]
        /\ roles' = [roles EXCEPT ![i] = set]
    /\ Finish(w)

\* Mutant of LoadUser: a patch without a status makes the user active.
LoadUserActive(w) ==
    /\ pc[w] = "handler" /\ req[w].op = "update"
    /\ \E i \in Id, asked \in {TRUE, FALSE, Nil}, set \in RoleSets \cup {Nil} :
        /\ Exists(i)
        /\ ~(asked = FALSE /\ i = req[w].actor)
        /\ GoOn(w, [req[w] EXCEPT !.target = i, !.named = (asked # Nil), !.set = set,
                                  !.status = (asked # FALSE)], "update")
    /\ UNCHANGED <<users, roles>>

\* update: read the user and merge the patch into it.  The actor may not name
\* "disabled" for himself.
LoadUser(w) ==
    /\ pc[w] = "handler" /\ req[w].op = "update"
    /\ \E i \in Id, asked \in {TRUE, FALSE, Nil}, set \in RoleSets \cup {Nil} :
        /\ Exists(i)
        /\ ~(asked = FALSE /\ i = req[w].actor)
        /\ GoOn(w, [req[w] EXCEPT !.target = i, !.named = (asked # Nil), !.set = set,
                                  !.status = IF asked = Nil THEN users[i].active ELSE asked],
                "update")
    /\ UNCHANGED <<users, roles>>

Committed(w) == users' = [users EXCEPT ![req[w].target].active = req[w].status]

\* Mutant of UpdateRow: the roles are written first, so no row is locked.
UpdateRowLast(w) ==
    /\ pc[w] = "update"
    /\ ~Held(w, req[w].target)
    /\ Exists(req[w].target)
    /\ req[w].set # Nil
    /\ GoOn(w, req[w], "clear")
    /\ UNCHANGED <<users, roles>>

\* Store.Update's UPDATE, which waits for a locked row; without roles it is the
\* whole transaction.  A row that is gone returns nil, which the handler
\* dereferences.
UpdateRow(w) ==
    /\ pc[w] = "update"
    /\ ~Held(w, req[w].target)
    /\ \/ /\ Exists(req[w].target)
          /\ req[w].set # Nil
          /\ GoOn(w, [req[w] EXCEPT !.held = TRUE], "clear")
          /\ UNCHANGED users
       \/ /\ Exists(req[w].target)
          /\ req[w].set = Nil
          /\ Committed(w)
          /\ Finish(w)
       \/ /\ ~Exists(req[w].target)
          /\ Finish(w)
          /\ UNCHANGED users
    /\ UNCHANGED roles

\* replaceRoles: the DELETE sees what is committed.
ClearRoles(w) ==
    /\ pc[w] = "clear"
    /\ GoOn(w, [req[w] EXCEPT !.seen = roles[req[w].target]], "bind")
    /\ UNCHANGED <<users, roles>>

\* replaceRoles: the INSERT, and the commit.  A role that is there already
\* (UNIQUE) or a user that is gone (foreign key) rolls the update back.
BindRoles(w) ==
    /\ pc[w] = "bind"
    /\ LET i     == req[w].target
           stays == roles[i] \ req[w].seen
           valid == Exists(i) /\ req[w].set \cap stays = {}
       IN  IF valid
           THEN Committed(w) /\ roles' = [roles EXCEPT ![i] = stays \cup req[w].set]
           ELSE UNCHANGED <<users, roles>>
    /\ Finish(w)

\* remove: nobody removes himself; the roles are deleted with the user.
Remove(w) ==
    /\ pc[w] = "handler" /\ req[w].op = "remove"
    /\ \E i \in Id \ {req[w].actor} :
        /\ Exists(i)
        /\ ~Held(w, i)
        /\ users' = [users EXCEPT ![i] = Gone]
        /\ roles' = [roles EXCEPT ![i] = {}]
    /\ Finish(w)

-----------------------------------------------------------------------------
\* auth.Store.UpdatePassword, for the actor; no row, no change.
ChangePassword(w) ==
    /\ pc[w] = "handler" /\ req[w].op = "change"
    /\ ~Held(w, req[w].actor)
    /\ users' = IF Exists(req[w].actor) THEN [users EXCEPT ![req[w].actor].must = FALSE]
                ELSE users
    /\ Finish(w)
    /\ UNCHANGED roles

\* Mutant of Abort: the connection goes back to the pool with its transaction.
AbortHolding(w) ==
    /\ pc[w] # "idle"
    /\ GoOn(w, [Blank EXCEPT !.held = req[w].held, !.target = req[w].target], "idle")
    /\ UNCHANGED <<users, roles>>

\* A database error, a cancelled context or a crash: the transaction, if there
\* is one, is rolled back.  So ends a request about a user that is not there.
Abort(w) ==
    /\ pc[w] # "idle"
    /\ Finish(w)
    /\ UNCHANGED <<users, roles>>

-----------------------------------------------------------------------------
Init ==
    /\ users = [i \in Id |-> IF i = Seed THEN [active |-> TRUE, must |-> TRUE] ELSE Nil]
    /\ roles = [i \in Id |-> IF i = Seed THEN {Admin} ELSE {}]
    /\ pc = [w \in Worker |-> "idle"]
    /\ req = [w \in Worker |-> Blank]

Step(w) ==
    \/ RequireUser(w) \/ RequireAdmin(w) \/ Create(w) \/ LoadUser(w) \/ UpdateRow(w)
    \/ ClearRoles(w) \/ BindRoles(w) \/ Remove(w) \/ ChangePassword(w) \/ Abort(w)

Next == \E w \in Worker : Step(w)

Spec == Init /\ [][Next]_vars

-----------------------------------------------------------------------------
(***************************************************************************)
(* Properties                                                              *)
(***************************************************************************)
\* Every variable holds a value of its type.
TypeOK ==
    /\ users \in [Id -> UserRow \cup {Nil, Gone}]
    /\ roles \in [Id -> SUBSET Role]
    /\ pc \in [Worker -> {"idle", "roles", "handler", "update", "clear", "bind"}]
    /\ req \in [Worker -> Request \cup {Blank}]

\* Concurrent updates never mix the roles they ask for: a user always has the
\* roles of one request, whole (store.go, Update: the row is locked before the
\* roles are touched; without that two updates would leave the union).
RolesAsked ==
    \A i \in Id : IF Exists(i) THEN roles[i] \in RoleSets ELSE roles[i] = {}

\* README.md:34: whoever must change the password can do nothing else, though
\* the flag is read at the gate and the work is done later.
FirstLoginGate ==
    \A w \in Worker : (pc[w] # "idle" /\ req[w].op # "change" /\ Exists(req[w].actor))
                          => ~users[req[w].actor].must

\* An update that ran alone changes the status only when its patch names it.
StatusAsked ==
    [][\A w \in Worker : (pc[w] \in {"update", "bind"} /\ pc'[w] = "idle"
                            /\ req[w].alone /\ ~req[w].named)
          => \A i \in Id : Exists(i) => users'[i].active = users[i].active]_vars
=============================================================================
