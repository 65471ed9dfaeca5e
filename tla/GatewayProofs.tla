--------------------------- MODULE GatewayProofs ----------------------------
(***************************************************************************)
(* What is proved of Gateway: first of Rolling, that an operation tells    *)
(* the truth about itself (RInv: what was restarted and what is still to   *)
(* be restarted is, in this order, what was listed, until an error leaves  *)
(* the rest away) and that its time is accounted for (TInv); then of       *)
(* Buckets, that names are registered once (BInv) and changes audited      *)
(* (CInv); last of Audit, that pages and walks are complete (WInv).  The   *)
(* audit log they share ties them together.                                *)
(***************************************************************************)
EXTENDS Gateway, FiniteSetTheorems, WellFoundedInduction, SequenceTheorems, TLAPS

Target   == Rgw \cup {All}
Gateways == Seq(Target)

Operation == [at : {"idle", "sent", "audit", "answered"},
              act : {"restart_rgw", "rolling_restart_rgw", Nil},
              status : {"success", "failure", Nil}, left : BOOLEAN,
              srv : {"none", "list", "command", "wait", "over"},
              todo : Gateways, wait : Nat, noticed : BOOLEAN,
              reply : {"ok", "none", "error", Nil},
              listed : Gateways, done : Gateways, elapsed : Nat]

\* Where the management API is says what is left to do and what was answered.
Coherent(r) ==
    /\ r.srv \in {"command", "wait"} => r.todo # <<>> /\ r.done \o r.todo = r.listed
    /\ r.srv \in {"none", "list"} => r.done = <<>> /\ r.listed = <<>>
    /\ r.at \in {"sent", "audit"} => r.act # Nil
    /\ r.at \in {"audit", "answered"} => r.status # Nil
    /\ r.at \in {"idle", "sent"} => r.status = Nil

FirstPart(s, t) == \E rest \in Gateways : s \o rest = t

\* What was restarted is the first part of what was listed, and all of it when
\* the answer or the audit says so.
Honest(r) ==
    /\ FirstPart(r.done, r.listed)
    /\ r.reply \in {"ok", "none"} => r.done = r.listed
    /\ r.status = "success" => r.srv = "over" /\ r.reply # "error"
    /\ r.srv = "over" <=> r.reply # Nil

Good(r) == r \in Operation /\ Coherent(r) /\ Honest(r)

RInv == op \in [Operator -> Operation] /\ \A o \in Operator : Good(op[o])

-----------------------------------------------------------------------------
LEMMA ConcatFacts ==
  ASSUME NEW S, NEW s \in Seq(S), NEW t \in Seq(S)
  PROVE  /\ s \o <<>> = s /\ <<>> \o s = s
         /\ t # <<>> => /\ Head(t) \in S /\ Tail(t) \in Seq(S)
                        /\ Append(s, Head(t)) \in Seq(S)
                        /\ Append(s, Head(t)) \o Tail(t) = s \o t
                        /\ Len(t) = 1 => Append(s, Head(t)) = s \o t
                        /\ Len(t) # 1 => Tail(t) # <<>>
  <1>1. s \o <<>> = s /\ <<>> \o s = s
    OBVIOUS
  <1>2. ASSUME t # <<>>
        PROVE  /\ Head(t) \in S /\ Tail(t) \in Seq(S) /\ Append(s, Head(t)) \in Seq(S)
    BY <1>2
  <1>3. ASSUME t # <<>>
        PROVE  Append(s, Head(t)) \o Tail(t) = s \o t
    BY <1>3
  <1>4. ASSUME t # <<>>, Len(t) = 1
        PROVE  Append(s, Head(t)) = s \o t
    <2>1. t = <<Head(t)>>
      BY <1>4
    <2>2. Append(s, Head(t)) = s \o <<Head(t)>>
      BY <1>2, <1>4
    <2> QED BY <2>1, <2>2
  <1>5. ASSUME t # <<>>, Len(t) # 1
        PROVE  Tail(t) # <<>>
    <2>1. Len(t) \in Nat /\ Len(t) # 0
      BY <1>5
    <2>2. Len(Tail(t)) = Len(t) - 1
      BY <1>5, <2>1
    <2>3. Len(Tail(t)) # 0
      BY <1>5, <2>1, <2>2
    <2>4. \A u : u = <<>> => Len(u) = 0
      OBVIOUS
    <2> QED BY <2>3, <2>4, Zenon
  <1> QED BY <1>1, <1>2, <1>3, <1>4, <1>5

\* The empty list.
LEMMA NoGateways == <<>> \in Gateways /\ <<>> \o <<>> = <<>> /\ \A s \in Gateways : s \o <<>> = s
  BY ConcatFacts DEF Gateways

LEMMA UnusedIsGood == Good(Unused) /\ Unused.srv = "none"
  <1>1. Unused \in Operation
    BY NoGateways DEF Operation, Unused
  <1>2. Coherent(Unused)
    BY RollingAssumption DEF Coherent, Unused
  <1>3. Honest(Unused)
    <2>1. FirstPart(Unused.done, Unused.listed)
      BY NoGateways DEF FirstPart, Unused
    <2> QED BY <2>1, RollingAssumption DEF Honest, Unused
  <1> QED BY <1>1, <1>2, <1>3 DEF Good, Unused

\* An operation that becomes another good one keeps the invariant.
LEMMA BecomesRInv ==
  ASSUME RInv, NEW o \in Operator, NEW r, Good(r), Becomes(o, r)
  PROVE  RInv'
  BY DEF RInv, Becomes, Good

LEMMA InitRInv == RollingInit => RInv
  BY UnusedIsGood DEF RollingInit, RInv, Good

\* Answering, at any point of the loop.
LEMMA ReplyIs ==
  ASSUME NEW r \in Operation, NEW reply \in {"ok", "none", "error"}
  PROVE  LET q == Reply(r, reply) IN
         /\ q \in Operation
         /\ q.srv = "over" /\ q.todo = <<>> /\ q.reply = reply /\ q.at = r.at /\ q.act = r.act
         /\ q.status = r.status /\ q.done = r.done /\ q.listed = r.listed
         /\ q.wait = r.wait /\ q.elapsed = r.elapsed
  BY NoGateways DEF Operation, Reply

LEMMA ErrorIsGood ==
  ASSUME NEW r, Good(r), r.srv \in {"list", "command", "wait"}
  PROVE  Good(Reply(r, "error"))
  <1> DEFINE q == Reply(r, "error")
  <1>1. /\ q \in Operation
        /\ q.srv = "over" /\ q.reply = "error" /\ q.at = r.at /\ q.act = r.act
        /\ q.status = r.status /\ q.done = r.done /\ q.listed = r.listed
    BY ReplyIs DEF Good
  <1>2. r.status # "success"
    BY DEF Good, Honest
  <1> HIDE DEF q
  <1>3. Coherent(q)
    BY <1>1 DEF Good, Coherent
  <1>4. Honest(q)
    BY <1>1, <1>2, RollingAssumption DEF Good, Honest
  <1>5. Good(q)
    BY <1>1, <1>3, <1>4 DEF Good
  <1> QED BY <1>5 DEF q

\* The next gateway was restarted.
LEMMA RestartedFacts ==
  ASSUME NEW r, Good(r), r.srv = "command"
  PROVE  /\ r.done \in Gateways /\ r.todo \in Gateways /\ r.todo # <<>>
         /\ r.listed = r.done \o r.todo
         /\ Append(r.done, Head(r.todo)) \in Gateways
         /\ Tail(r.todo) \in Gateways
         /\ Append(r.done, Head(r.todo)) \o Tail(r.todo) = r.listed
         /\ Len(r.todo) = 1 => Append(r.done, Head(r.todo)) = r.listed
         /\ Len(r.todo) # 1 => Tail(r.todo) # <<>>
  <1> DEFINE s == r.done
             t == r.todo
  <1>1. s \in Gateways /\ t \in Gateways /\ t # <<>> /\ s \o t = r.listed
    BY DEF Good, Operation, Coherent
  <1> HIDE DEF s, t
  <1>2. /\ Append(s, Head(t)) \in Gateways /\ Tail(t) \in Gateways
        /\ Append(s, Head(t)) \o Tail(t) = s \o t
        /\ Len(t) = 1 => Append(s, Head(t)) = s \o t
        /\ Len(t) # 1 => Tail(t) # <<>>
    BY <1>1, ConcatFacts DEF Gateways
  <1> QED BY <1>1, <1>2 DEF s, t

Restarted(r) == [r EXCEPT !.done = Append(@, Head(r.todo))]

\* What the invariant is about stays.
Same(q, r) ==
    /\ q.at = r.at /\ q.act = r.act /\ q.status = r.status /\ q.srv = r.srv /\ q.reply = r.reply
    /\ q.todo = r.todo /\ q.listed = r.listed /\ q.done = r.done

LEMMA LaterIs ==
  ASSUME NEW r \in Operation, NEW d \in Nat
  PROVE  Later(r, d) \in Operation /\ Same(Later(r, d), r)
  BY DEF Operation, Later, Same

LEMMA RestartedIs ==
  ASSUME NEW r, Good(r), r.srv = "command"
  PROVE  LET q == Restarted(r) IN
         /\ q \in Operation
         /\ q.done = Append(r.done, Head(r.todo))
         /\ q.at = r.at /\ q.act = r.act /\ q.status = r.status /\ q.srv = r.srv
         /\ q.reply = r.reply /\ q.todo = r.todo /\ q.listed = r.listed
  <1>1. Append(r.done, Head(r.todo)) \in Gateways /\ r \in Operation
    BY RestartedFacts DEF Good
  <1> QED BY <1>1 DEF Operation, Restarted

LEMMA OnwardIs ==
  ASSUME NEW r \in Operation, Len(r.todo) # 1, Tail(r.todo) \in Gateways
  PROVE  LET q == Onward(r) IN
         /\ q \in Operation
         /\ q.srv \in {"command", "wait"} /\ q.todo = Tail(r.todo)
         /\ q.at = r.at /\ q.act = r.act /\ q.status = r.status
         /\ q.reply = r.reply /\ q.done = r.done /\ q.listed = r.listed
  BY DEF Operation, Onward

\* An operation that goes on after a restart.
LEMMA OnwardIsGood ==
  ASSUME NEW r, Good(r), r.srv = "command", NEW d \in Nat
  PROVE  Good(Onward(Later(Restarted(r), d)))
  <1> DEFINE r1 == Restarted(r)
             r2 == Later(r1, d)
             q  == Onward(r2)
  <1> SUFFICES Good(q)
    OBVIOUS
  <1>1. /\ r1 \in Operation /\ r1.done = Append(r.done, Head(r.todo)) /\ r1.todo = r.todo
        /\ r1.listed = r.listed /\ r1.at = r.at /\ r1.act = r.act /\ r1.status = r.status
        /\ r1.reply = r.reply /\ r1.srv = r.srv
    BY RestartedIs
  <1> HIDE DEF r1
  <1>2. r2 \in Operation /\ Same(r2, r1)
    BY <1>1, LaterIs
  <1> HIDE DEF r2
  <1>3. /\ r2.done = Append(r.done, Head(r.todo)) /\ r2.todo = r.todo
        /\ r2.listed = r.listed /\ r2.at = r.at /\ r2.act = r.act /\ r2.status = r.status
        /\ r2.reply = r.reply
    BY <1>1, <1>2 DEF Same
  <1>4. r.status # "success" /\ r.reply = Nil
    BY DEF Good, Honest
  <1>5. CASE Len(r.todo) = 1
    <2>1. q = Reply(r2, "ok")
      BY <1>3, <1>5 DEF Onward
    <2>2. /\ q \in Operation
          /\ q.srv = "over" /\ q.todo = <<>> /\ q.reply = "ok" /\ q.at = r.at /\ q.act = r.act
          /\ q.status = r.status /\ q.done = Append(r.done, Head(r.todo)) /\ q.listed = r.listed
      BY <2>1, <1>2, <1>3, ReplyIs
    <2> HIDE DEF q
    <2>3. q.done = q.listed
      BY <2>2, <1>5, RestartedFacts
    <2>4. FirstPart(q.done, q.listed)
      BY <2>2, <2>3, NoGateways DEF FirstPart, Operation
    <2>5. Coherent(q)
      BY <2>2 DEF Good, Coherent
    <2>6. q.srv = "over" /\ q.reply = "ok" /\ q.status # "success"
      BY <2>2, <1>4
    <2>7. Honest(q)
      BY <2>3, <2>4, <2>6, RollingAssumption DEF Honest
    <2> QED BY <2>2, <2>5, <2>7 DEF Good
  <1>6. CASE Len(r.todo) # 1
    <2>1. Tail(r.todo) \in Gateways /\ Tail(r.todo) # <<>>
          /\ Append(r.done, Head(r.todo)) \o Tail(r.todo) = r.listed
      BY <1>6, RestartedFacts
    <2>2. /\ q \in Operation
          /\ q.srv \in {"command", "wait"} /\ q.todo = Tail(r.todo)
          /\ q.at = r.at /\ q.act = r.act /\ q.status = r.status
          /\ q.reply = Nil /\ q.done = Append(r.done, Head(r.todo)) /\ q.listed = r.listed
      BY <1>2, <1>3, <1>4, <1>6, <2>1, OnwardIs
    <2> HIDE DEF q
    <2>3. q.todo # <<>> /\ q.done \o q.todo = q.listed
      BY <2>1, <2>2
    <2>4. FirstPart(q.done, q.listed)
      BY <2>1, <2>2, <2>3 DEF FirstPart
    <2>5. Coherent(q)
      BY <2>2, <2>3 DEF Good, Coherent
    <2>6. q.srv # "over" /\ q.reply = Nil /\ q.status # "success"
      BY <2>2, <1>4
    <2>7. Honest(q)
      BY <2>4, <2>6, RollingAssumption DEF Honest
    <2>8. q \in Operation
      BY <2>2
    <2> QED BY <2>5, <2>7, <2>8 DEF Good
  <1> QED BY <1>5, <1>6

\* A restart that failed may have had its effect.
LEMMA FailedIsGood ==
  ASSUME NEW r, Good(r), r.srv = "command"
  PROVE  Good(Reply(Restarted(r), "error"))
  <1> DEFINE r1 == Restarted(r)
             q  == Reply(r1, "error")
  <1>1. /\ r1 \in Operation /\ r1.done = Append(r.done, Head(r.todo))
        /\ r1.listed = r.listed /\ r1.at = r.at /\ r1.act = r.act /\ r1.status = r.status
    BY RestartedIs
  <1> HIDE DEF r1
  <1>2. /\ q \in Operation
        /\ q.srv = "over" /\ q.reply = "error" /\ q.at = r.at /\ q.act = r.act
        /\ q.status = r.status /\ q.done = Append(r.done, Head(r.todo)) /\ q.listed = r.listed
    BY <1>1, ReplyIs
  <1> HIDE DEF q
  <1>3. FirstPart(q.done, q.listed)
    BY <1>2, RestartedFacts DEF FirstPart
  <1>4. r.status # "success"
    BY DEF Good, Honest
  <1>5. Coherent(q)
    BY <1>2 DEF Good, Coherent
  <1>6. Honest(q)
    BY <1>2, <1>3, <1>4, RollingAssumption DEF Honest
  <1>7. Good(q)
    BY <1>2, <1>5, <1>6 DEF Good
  <1> QED BY <1>7 DEF q, r1

-----------------------------------------------------------------------------
(***************************************************************************)
(* The actions                                                             *)
(***************************************************************************)
\* What a side does besides answering changes none of the lists.
Kept(q, r) == q.todo = r.todo /\ q.listed = r.listed /\ q.done = r.done

LEMMA KeptIsGood ==
  ASSUME NEW r, Good(r), NEW q \in Operation, Kept(q, r), q.reply = r.reply,
         \/ q.srv = r.srv
         \/ q.srv = "command" /\ r.srv = "wait",
         q.at \in {"sent", "audit"} => q.act # Nil,
         q.at \in {"audit", "answered"} <=> q.status # Nil,
         q.status = "success" => q.srv = "over" /\ q.reply # "error"
  PROVE  Good(q)
  <1>1. FirstPart(q.done, q.listed) /\ (q.reply \in {"ok", "none"} => q.done = q.listed)
    BY DEF Good, Honest, Kept
  <1>2. q.srv = "over" <=> q.reply # Nil
    BY DEF Good, Honest
  <1>3. Honest(q)
    BY <1>1, <1>2 DEF Honest
  <1>4. q.srv \in {"command", "wait"} => q.todo # <<>> /\ q.done \o q.todo = q.listed
    BY DEF Good, Coherent, Kept
  <1>5. q.srv \in {"none", "list"} => q.done = <<>> /\ q.listed = <<>>
    BY DEF Good, Coherent, Kept
  <1>6. Coherent(q)
    BY <1>4, <1>5 DEF Coherent, Operation
  <1> QED BY <1>3, <1>6 DEF Good

LEMMA AskRInv ==
  ASSUME RInv, NEW o \in Operator, NEW act \in {"restart_rgw", "rolling_restart_rgw"},
         NEW r, Good(r), r.at = "idle", r.status = Nil, Ask(o, act, r)
  PROVE  RInv'
  <1>1. act # Nil
    BY RollingAssumption
  <1>2. CASE Becomes(o, [r EXCEPT !.at = "sent", !.act = act])
    <2> DEFINE q == [r EXCEPT !.at = "sent", !.act = act]
    <2>1. /\ q \in Operation /\ Kept(q, r) /\ q.reply = r.reply /\ q.srv = r.srv
          /\ q.at = "sent" /\ q.act = act /\ q.status = r.status
      BY DEF Good, Operation, Kept
    <2> HIDE DEF q
    <2>2. Good(q)
      BY <2>1, <1>1, KeptIsGood, RollingAssumption
    <2> QED BY <2>2, <1>2, BecomesRInv DEF q
  <1>3. CASE Becomes(o, [Unused EXCEPT !.at = "audit", !.act = act, !.status = "failure"])
    <2> DEFINE q == [Unused EXCEPT !.at = "audit", !.act = act, !.status = "failure"]
    <2>1. /\ q \in Operation /\ Kept(q, Unused) /\ q.reply = Unused.reply /\ q.srv = Unused.srv
          /\ q.at = "audit" /\ q.act = act /\ q.status = "failure"
      BY UnusedIsGood DEF Good, Operation, Kept
    <2> HIDE DEF q
    <2>2. Good(q)
      BY <2>1, <1>1, KeptIsGood, UnusedIsGood, RollingAssumption
    <2> QED BY <2>2, <1>3, BecomesRInv DEF q
  <1> QED BY <1>2, <1>3 DEF Ask

LEMMA StartRestartRInv ==
  ASSUME RInv, NEW o \in Operator, StartRestart(o)
  PROVE  RInv'
  <1>1. PICK target \in Target :
          Ask(o, "restart_rgw", [Unused EXCEPT !.srv = "command", !.todo = <<target>>,
                                               !.listed = <<target>>])
    BY DEF StartRestart, Target
  <1> DEFINE s == <<target>>
             q == [Unused EXCEPT !.srv = "command", !.todo = s, !.listed = s]
  <1>2. s \in Gateways /\ s # <<>> /\ <<>> \o s = s
    BY ConcatFacts DEF Gateways
  <1> HIDE DEF s
  <1>3. /\ q \in Operation /\ q.todo = s /\ q.listed = s /\ q.srv = "command"
        /\ q.done = <<>> /\ q.reply = Nil /\ q.at = "idle" /\ q.status = Nil
    BY <1>2, UnusedIsGood DEF Good, Operation, Unused
  <1>4. Ask(o, "restart_rgw", q)
    BY <1>1 DEF s
  <1> HIDE DEF q
  <1>5. FirstPart(q.done, q.listed)
    BY <1>2, <1>3 DEF FirstPart
  <1>6. q.reply = Nil /\ q.status = Nil /\ q.srv # "over"
    BY <1>3
  <1>7. Honest(q)
    BY <1>5, <1>6, RollingAssumption DEF Honest
  <1>8. Coherent(q)
    BY <1>2, <1>3 DEF Coherent
  <1>9. Good(q)
    BY <1>3, <1>7, <1>8 DEF Good
  <1> QED BY <1>3, <1>4, <1>9, AskRInv

LEMMA StartRollRInv ==
  ASSUME RInv, NEW o \in Operator, StartRoll(o)
  PROVE  RInv'
  <1>1. PICK wait \in Waits :
          Ask(o, "rolling_restart_rgw", [Unused EXCEPT !.srv = "list", !.wait = wait])
    BY DEF StartRoll
  <1> DEFINE q == [Unused EXCEPT !.srv = "list", !.wait = wait]
  <1>2. wait \in Nat
    BY RollingAssumption
  <1>3. /\ q \in Operation /\ q.listed = <<>> /\ q.srv = "list"
        /\ q.done = <<>> /\ q.reply = Nil /\ q.at = "idle" /\ q.status = Nil
    BY <1>2, UnusedIsGood DEF Good, Operation, Unused
  <1>4. Ask(o, "rolling_restart_rgw", q)
    BY <1>1
  <1> HIDE DEF q
  <1>5. FirstPart(q.done, q.listed)
    BY <1>3, NoGateways DEF FirstPart
  <1>6. q.reply = Nil /\ q.status = Nil /\ q.srv # "over"
    BY <1>3
  <1>7. Honest(q)
    BY <1>5, <1>6, RollingAssumption DEF Honest
  <1>8. Coherent(q)
    BY <1>3 DEF Coherent
  <1>9. Good(q)
    BY <1>3, <1>7, <1>8 DEF Good
  <1> QED BY <1>3, <1>4, <1>9, AskRInv

\* Receive, GiveUp, Abandon, AuditOp, Forget.
LEMMA OpsSideRInv ==
  ASSUME RInv, NEW o \in Operator, OpsSide(o) \/ Abandon(o)
  PROVE  RInv'
  <1> DEFINE r == op[o]
  <1>1. Good(r) /\ r \in Operation
    BY DEF RInv, Good
  <1>2. CASE Receive(o)
    <2> DEFINE status == IF r.reply = "error" THEN "failure" ELSE "success"
               q      == [r EXCEPT !.at = "audit", !.status = status]
    <2>1. r.at = "sent" /\ r.srv = "over" /\ Becomes(o, q)
      BY <1>2 DEF Receive
    <2>2. /\ q \in Operation /\ Kept(q, r) /\ q.reply = r.reply /\ q.srv = r.srv
          /\ q.at = "audit" /\ q.act = r.act /\ q.status = status
      BY <1>1 DEF Operation, Kept
    <2>3. r.act # Nil
      BY <1>1, <2>1 DEF Good, Coherent
    <2>4. status # Nil /\ (status = "success" => r.reply # "error")
      BY RollingAssumption
    <2> HIDE DEF q, status, r
    <2>5. Good(q)
      BY <1>1, <2>1, <2>2, <2>3, <2>4, KeptIsGood
    <2> QED BY <2>1, <2>5, BecomesRInv
  <1>3. CASE GiveUp(o) \/ Abandon(o)
    <2>1. PICK left \in BOOLEAN :
            /\ r.at = "sent"
            /\ Becomes(o, [r EXCEPT !.at = "audit", !.status = "failure", !.left = left])
      <3>1. CASE GiveUp(o)
        <4>1. [r EXCEPT !.at = "audit", !.status = "failure"]
              = [r EXCEPT !.at = "audit", !.status = "failure", !.left = r.left]
          BY <1>1 DEF Operation
        <4>2. r.left \in BOOLEAN
          BY <1>1 DEF Operation
        <4> QED BY <3>1, <4>1, <4>2 DEF GiveUp
      <3>2. CASE Abandon(o)
        BY <3>2 DEF Abandon
      <3> QED BY <1>3, <3>1, <3>2
    <2> DEFINE q == [r EXCEPT !.at = "audit", !.status = "failure", !.left = left]
    <2>2. /\ q \in Operation /\ Kept(q, r) /\ q.reply = r.reply /\ q.srv = r.srv
          /\ q.at = "audit" /\ q.act = r.act /\ q.status = "failure"
      BY <1>1 DEF Operation, Kept
    <2>3. r.act # Nil
      BY <1>1, <2>1 DEF Good, Coherent
    <2>4. Becomes(o, q)
      BY <2>1
    <2> HIDE DEF q, r
    <2>5. Good(q)
      BY <1>1, <2>2, <2>3, KeptIsGood, RollingAssumption
    <2> QED BY <2>4, <2>5, BecomesRInv
  <1>4. CASE AuditOp(o)
    <2> DEFINE q == [r EXCEPT !.at = "answered"]
    <2>1. r.at = "audit" /\ Becomes(o, q)
      BY <1>4 DEF AuditOp
    <2>2. /\ q \in Operation /\ Kept(q, r) /\ q.reply = r.reply /\ q.srv = r.srv
          /\ q.at = "answered" /\ q.act = r.act /\ q.status = r.status
      BY <1>1 DEF Operation, Kept
    <2>3. r.status # Nil /\ (r.status = "success" => r.srv = "over" /\ r.reply # "error")
      BY <1>1, <2>1 DEF Good, Coherent, Honest
    <2> HIDE DEF q, r
    <2>4. Good(q)
      BY <1>1, <2>2, <2>3, KeptIsGood
    <2> QED BY <2>1, <2>4, BecomesRInv
  <1>5. CASE Forget(o)
    BY <1>5, UnusedIsGood, BecomesRInv DEF Forget
  <1> QED BY <1>2, <1>3, <1>4, <1>5 DEF OpsSide

LEMMA ListRInv ==
  ASSUME RInv, NEW o \in Operator, ListInstances(o)
  PROVE  RInv'
  <1> DEFINE r == op[o]
  <1>1. Good(r) /\ r \in Operation /\ r.srv = "list"
    BY DEF RInv, Good, ListInstances
  <1>2. r.done = <<>> /\ r.listed = <<>> /\ r.status # "success" /\ r.reply = Nil
    BY <1>1 DEF Good, Coherent, Honest
  <1>3. CASE Becomes(o, Reply(r, "error"))
    BY <1>1, <1>3, ErrorIsGood, BecomesRInv
  <1>4. CASE Becomes(o, Reply(r, "none"))
    <2> DEFINE q == Reply(r, "none")
    <2>1. /\ q \in Operation
          /\ q.srv = "over" /\ q.reply = "none" /\ q.at = r.at /\ q.act = r.act
          /\ q.status = r.status /\ q.done = r.done /\ q.listed = r.listed
      BY <1>1, ReplyIs
    <2> HIDE DEF q, r
    <2>2. FirstPart(q.done, q.listed) /\ q.done = q.listed
      BY <1>2, <2>1, NoGateways DEF FirstPart
    <2>3. q.srv = "over" /\ q.reply = "none" /\ q.status # "success"
      BY <1>2, <2>1
    <2>4. Honest(q)
      BY <2>2, <2>3, RollingAssumption DEF Honest
    <2>5. Coherent(q)
      BY <1>1, <2>1 DEF Good, Coherent
    <2>6. Good(q)
      BY <2>1, <2>4, <2>5 DEF Good
    <2> QED BY <1>4, <2>6, BecomesRInv DEF q, r
  <1>5. ASSUME NEW list \in Lists, list # <<>>,
               Becomes(o, [r EXCEPT !.srv = "command", !.todo = list, !.listed = list])
        PROVE  RInv'
    <2> DEFINE q == [r EXCEPT !.srv = "command", !.todo = list, !.listed = list]
    <2>1. list \in Gateways
      <3>1. PICK n \in Nat : list \in [1..n -> Rgw]
        <4>1. PICK n \in 0..Cardinality(Rgw) : list \in [1..n -> Rgw]
          BY <1>5 DEF Lists
        <4> QED BY <4>1
      <3>2. list \in [1..n -> Target]
        BY <3>1 DEF Target
      <3> QED BY <3>2 DEF Gateways
    <2>2. <<>> \o list = list
      BY <2>1, ConcatFacts DEF Gateways
    <2>3. /\ q \in Operation /\ q.todo = list /\ q.listed = list /\ q.srv = "command"
          /\ q.done = r.done /\ q.at = r.at /\ q.act = r.act /\ q.status = r.status
          /\ q.reply = r.reply
      BY <1>1, <2>1 DEF Operation
    <2> HIDE DEF q, r
    <2>4. FirstPart(q.done, q.listed)
      BY <1>2, <2>1, <2>2, <2>3 DEF FirstPart
    <2>5. q.srv # "over" /\ q.reply = Nil /\ q.status # "success"
      BY <1>2, <2>3
    <2>6. Honest(q)
      BY <2>4, <2>5, RollingAssumption DEF Honest
    <2>7. q.todo # <<>> /\ q.done \o q.todo = q.listed
      BY <1>2, <1>5, <2>2, <2>3
    <2>8. Coherent(q)
      BY <1>1, <2>3, <2>7 DEF Good, Coherent
    <2>9. q \in Operation
      BY <2>3
    <2>10. Good(q)
      BY <2>6, <2>8, <2>9 DEF Good
    <2> QED BY <1>5, <2>10, BecomesRInv DEF q, r
  <1> QED BY <1>3, <1>4, <1>5 DEF ListInstances

LEMMA RestartRInv ==
  ASSUME RInv, NEW o \in Operator, Restart(o)
  PROVE  RInv'
  <1> DEFINE r == op[o]
  <1>1. Good(r) /\ r.srv = "command"
    BY DEF RInv, Restart
  <1>2. \/ \E d \in {0, 1} : Becomes(o, Onward(Later(Restarted(r), d)))
        \/ Becomes(o, Reply(Restarted(r), "error"))
        \/ Becomes(o, Reply(r, "error"))
    BY DEF Restart, Restarted, AfterError
  <1> HIDE DEF r
  <1>3. \A d \in {0, 1} : Good(Onward(Later(Restarted(r), d)))
    BY <1>1, OnwardIsGood
  <1>4. Good(Reply(Restarted(r), "error")) /\ Good(Reply(r, "error"))
    BY <1>1, FailedIsGood, ErrorIsGood
  <1> QED BY <1>2, <1>3, <1>4, BecomesRInv

LEMMA PauseRInv ==
  ASSUME RInv, NEW o \in Operator, Pause(o)
  PROVE  RInv'
  <1> DEFINE r == op[o]
             s == Later(r, r.wait)
             q == [s EXCEPT !.srv = "command"]
  <1>1. Good(r) /\ r \in Operation /\ r.srv = "wait"
    BY DEF RInv, Good, Pause
  <1>2. CASE Becomes(o, q)
    <2>1. s \in Operation /\ Same(s, r)
      BY <1>1, LaterIs DEF Operation
    <2> HIDE DEF s, r
    <2>2. /\ q \in Operation /\ q.srv = "command" /\ Kept(q, r) /\ q.reply = r.reply
          /\ q.at = r.at /\ q.act = r.act /\ q.status = r.status
      BY <2>1 DEF Operation, Same, Kept
    <2>3. /\ r.at \in {"sent", "audit"} => r.act # Nil
          /\ r.at \in {"audit", "answered"} <=> r.status # Nil
          /\ r.status # "success"
      BY <1>1 DEF Good, Coherent, Honest, Operation
    <2> HIDE DEF q
    <2>4. Good(q)
      BY <1>1, <2>2, <2>3, KeptIsGood
    <2> QED BY <1>2, <2>4, BecomesRInv
  <1>3. CASE Becomes(o, AfterError(r))
    BY <1>1, <1>3, ErrorIsGood, BecomesRInv DEF AfterError
  <1> QED BY <1>2, <1>3 DEF Pause

LEMMA NoticeRInv ==
  ASSUME RInv, NEW o \in Operator, Notice(o)
  PROVE  RInv'
  <1> DEFINE r == op[o]
             q == [r EXCEPT !.noticed = TRUE]
  <1>1. Good(r) /\ r \in Operation /\ Becomes(o, q)
    BY DEF RInv, Good, Notice
  <1>2. /\ q \in Operation /\ Kept(q, r) /\ q.reply = r.reply /\ q.srv = r.srv
        /\ q.at = r.at /\ q.act = r.act /\ q.status = r.status
    BY <1>1 DEF Operation, Kept
  <1>3. /\ r.at \in {"sent", "audit"} => r.act # Nil
        /\ r.at \in {"audit", "answered"} <=> r.status # Nil
        /\ r.status = "success" => r.srv = "over" /\ r.reply # "error"
    BY <1>1 DEF Good, Coherent, Honest, Operation
  <1> HIDE DEF q, r
  <1>4. Good(q)
    BY <1>1, <1>2, <1>3, KeptIsGood
  <1> QED BY <1>1, <1>4, BecomesRInv

LEMMA MgmtRestartsRInv ==
  ASSUME RInv, MgmtRestarts
  PROVE  RInv'
  <1>1. op' = [o \in Operator |->
                 IF op[o].srv \in {"list", "command", "wait"} THEN Reply(op[o], "error") ELSE op[o]]
    BY DEF MgmtRestarts
  <1>2. \A o \in Operator : Good(op'[o])
    BY <1>1, ErrorIsGood DEF RInv
  <1> QED BY <1>1, <1>2 DEF RInv, Good

LEMMA StepRInv == RInv /\ [RollingNext]_op => RInv'
  <1> SUFFICES ASSUME RInv, [RollingNext]_op PROVE RInv'
    OBVIOUS
  <1>1. ASSUME NEW o \in Operator, OpsSide(o) \/ Abandon(o)
        PROVE  RInv'
    BY <1>1, OpsSideRInv
  <1>2. ASSUME NEW o \in Operator, MgmtSide(o)
        PROVE  RInv'
    BY <1>2, ListRInv, RestartRInv, PauseRInv DEF MgmtSide
  <1>3. ASSUME NEW o \in Operator, StartRestart(o) \/ StartRoll(o) \/ Notice(o)
        PROVE  RInv'
    BY <1>3, StartRestartRInv, StartRollRInv, NoticeRInv
  <1>4. CASE MgmtRestarts
    BY <1>4, MgmtRestartsRInv
  <1>5. CASE UNCHANGED op
    BY <1>5 DEF RInv
  <1> QED BY <1>1, <1>2, <1>3, <1>4, <1>5 DEF RollingNext

\* A first part is a prefix in the sense of the community modules.
LEMMA FirstPartIsPrefix ==
  ASSUME NEW s \in Gateways, NEW t \in Gateways, FirstPart(s, t)
  PROVE  IsPrefix(s, t)
  <1>1. PICK rest \in Gateways : s \o rest = t
    BY DEF FirstPart
  <1>2. Len(s) <= Len(t) /\ \A i \in 1..Len(s) : s[i] = t[i]
    BY <1>1 DEF Gateways
  <1>3. SubSeq(t, 1, Len(s)) = SubSeq(s, 1, Len(s))
    BY <1>2 DEF Gateways
  <1> QED BY <1>2, <1>3 DEF IsPrefix

LEMMA RInvIsHonest == RInv => RollIsHonest
  <1> SUFFICES ASSUME RInv, NEW o \in Operator
               PROVE  /\ op[o].status = "success" => op[o].done = op[o].listed
                      /\ IsPrefix(op[o].done, op[o].listed)
    BY DEF RollIsHonest
  <1>1. op[o] \in Operation /\ Honest(op[o])
    BY DEF RInv, Good
  <1>2. op[o].done \in Gateways /\ op[o].listed \in Gateways /\ op[o].reply \in {"ok", "none", "error", Nil}
    BY <1>1 DEF Operation
  <1>3. IsPrefix(op[o].done, op[o].listed)
    BY <1>1, <1>2, FirstPartIsPrefix DEF Honest
  <1>4. op[o].status = "success" => op[o].done = op[o].listed
    BY <1>1, <1>2 DEF Honest
  <1> QED BY <1>3, <1>4

-----------------------------------------------------------------------------
(***************************************************************************)
(* The time a roll takes.  While the ops API waits, what has passed is at  *)
(* least the pauses made, and at most what it waits: one pause for each    *)
(* gateway restarted, but for the one after which the loop is pausing, or  *)
(* has ended.                                                              *)
(***************************************************************************)
\* n pauses fit into d.
Fit(n, r, d) == n * r.wait <= d

Timed(r) ==
    /\ r.srv \notin {"command", "wait"} => r.todo = <<>>
    /\ r.reply = "none" => r.listed = <<>>
    /\ r.at = "sent" =>
        /\ r.elapsed <= Limit
        /\ r.srv = "command" => Fit(Len(r.done), r, r.elapsed)
        /\ r.srv = "wait" => \E n \in Nat : Len(r.done) = n + 1 /\ Fit(n, r, r.elapsed)
        /\ r.reply = "ok" => Fit(Len(r.listed) - 1, r, r.elapsed)
    /\ r.status = "success" /\ r.listed # <<>> => Fit(Len(r.listed) - 1, r, Limit)

TInv == \A o \in Operator : Timed(op[o])

LEMMA FitFacts ==
  ASSUME NEW r \in Operation, NEW n \in Nat, NEW d \in Nat
  PROVE  /\ Fit(0, r, d)
         /\ r.wait = 0 => Fit(n, r, d)
         /\ Fit(n, r, d) => Fit(n + 1, r, d + r.wait)
         /\ \A e \in Nat : Fit(n, r, d) => Fit(n, r, d + e)
         /\ \A e \in Nat : Fit(n, r, d) /\ d <= e => Fit(n, r, e)
  <1>1. PICK w \in Nat : w = r.wait
    BY DEF Operation
  <1>2. PICK m \in Nat : m = n * w
    OBVIOUS
  <1>3. (n + 1) * w = m + w /\ 0 * w = 0 /\ n * 0 = 0
    BY <1>2
  <1> QED BY <1>1, <1>2, <1>3 DEF Fit

LEMMA UnusedIsTimed == Timed(Unused)
  BY RollingAssumption DEF Timed, Unused

LEMMA InitTInv == RollingInit => TInv
  BY UnusedIsTimed DEF RollingInit, TInv

LEMMA BecomesTInv ==
  ASSUME RInv, TInv, NEW o \in Operator, NEW r, Timed(r), Becomes(o, r)
  PROVE  TInv'
  BY DEF RInv, TInv, Becomes

\* What the ops API does besides receiving an answer.
LEMMA KeptIsTimed ==
  ASSUME NEW r, Timed(r), NEW q,
         Kept(q, r), q.reply = r.reply, q.srv = r.srv, q.wait = r.wait, q.elapsed = r.elapsed,
         q.at = "sent" => r.at = "sent",
         q.status = "success" => r.status = "success"
  PROVE  Timed(q)
  BY DEF Timed, Kept, Fit

LEMMA ErrorIsTimed ==
  ASSUME NEW r, Good(r), Timed(r), r.srv \in {"list", "command", "wait"}
  PROVE  Timed(Reply(r, "error"))
  <1> DEFINE q == Reply(r, "error")
  <1>1. /\ q.srv = "over" /\ q.todo = <<>> /\ q.reply = "error" /\ q.at = r.at
        /\ q.status = r.status /\ q.elapsed = r.elapsed
    BY ReplyIs DEF Good
  <1>2. r.status # "success"
    BY DEF Good, Honest
  <1> HIDE DEF q
  <1>3. Timed(q)
    BY <1>1, <1>2 DEF Timed
  <1> QED BY <1>3 DEF q

LEMMA AskTInv ==
  ASSUME RInv, TInv, NEW o \in Operator, NEW act, NEW r \in Operation,
         r.elapsed = 0, r.done = <<>>, r.reply = Nil, r.status = Nil,
         r.srv = "command" \/ (r.srv = "list" /\ r.todo = <<>>),
         Ask(o, act, r)
  PROVE  TInv'
  <1>1. CASE Becomes(o, [r EXCEPT !.at = "sent", !.act = act])
    <2> DEFINE q == [r EXCEPT !.at = "sent", !.act = act]
    <2>1. /\ q.todo = r.todo /\ q.done = <<>> /\ q.elapsed = 0 /\ q.reply = Nil /\ q.status = Nil
          /\ q.srv = r.srv /\ q.wait = r.wait
      BY DEF Operation
    <2> HIDE DEF q
    <2>2. Fit(Len(q.done), q, q.elapsed)
      <3>1. Len(q.done) = 0 /\ Fit(0, r, 0)
        BY <2>1, FitFacts
      <3> QED BY <2>1, <3>1 DEF Fit
    <2>3. Timed(q)
      BY <2>1, <2>2, RollingAssumption DEF Timed
    <2> QED BY <1>1, <2>3, BecomesTInv DEF q
  <1>2. CASE Becomes(o, [Unused EXCEPT !.at = "audit", !.act = act, !.status = "failure"])
    <2> DEFINE q == [Unused EXCEPT !.at = "audit", !.act = act, !.status = "failure"]
    <2>1. /\ q.todo = <<>> /\ q.srv = "none" /\ q.reply = Nil /\ q.status = "failure"
          /\ q.at = "audit"
      BY DEF Unused
    <2> HIDE DEF q
    <2>2. Timed(q)
      BY <2>1, RollingAssumption DEF Timed
    <2> QED BY <1>2, <2>2, BecomesTInv DEF q
  <1> QED BY <1>1, <1>2 DEF Ask

LEMMA StartTInv ==
  ASSUME RInv, TInv, NEW o \in Operator, StartRestart(o) \/ StartRoll(o)
  PROVE  TInv'
  <1>1. ASSUME NEW target \in Target,
               Ask(o, "restart_rgw", [Unused EXCEPT !.srv = "command", !.todo = <<target>>,
                                                    !.listed = <<target>>])
        PROVE  TInv'
    <2> DEFINE s == <<target>>
               q == [Unused EXCEPT !.srv = "command", !.todo = s, !.listed = s]
    <2>1. s \in Gateways
      BY DEF Gateways
    <2>2. Ask(o, "restart_rgw", q)
      BY <1>1
    <2> HIDE DEF s
    <2>3. /\ q \in Operation /\ q.srv = "command" /\ q.elapsed = 0
          /\ q.done = <<>> /\ q.reply = Nil /\ q.status = Nil
      BY <2>1, UnusedIsGood DEF Good, Operation, Unused
    <2> HIDE DEF q
    <2>4. q.srv = "command" \/ (q.srv = "list" /\ q.todo = <<>>)
      BY <2>3
    <2> QED BY <2>2, <2>3, <2>4, AskTInv
  <1>2. ASSUME NEW wait \in Waits,
               Ask(o, "rolling_restart_rgw", [Unused EXCEPT !.srv = "list", !.wait = wait])
        PROVE  TInv'
    <2> DEFINE q == [Unused EXCEPT !.srv = "list", !.wait = wait]
    <2>1. wait \in Nat
      BY RollingAssumption
    <2>2. /\ q \in Operation /\ q.srv = "list" /\ q.todo = <<>> /\ q.elapsed = 0
          /\ q.done = <<>> /\ q.reply = Nil /\ q.status = Nil
      BY <2>1, UnusedIsGood DEF Good, Operation, Unused
    <2>3. Ask(o, "rolling_restart_rgw", q)
      BY <1>2
    <2> HIDE DEF q
    <2> QED BY <2>2, <2>3, AskTInv
  <1> QED BY <1>1, <1>2 DEF StartRestart, StartRoll, Target

LEMMA OpsSideTInv ==
  ASSUME RInv, TInv, NEW o \in Operator, OpsSide(o) \/ Abandon(o) \/ Notice(o)
  PROVE  TInv'
  <1> DEFINE r == op[o]
  <1>1. Good(r) /\ r \in Operation /\ Timed(r)
    BY DEF RInv, TInv, Good
  <1>2. CASE Receive(o)
    <2> DEFINE status == IF r.reply = "error" THEN "failure" ELSE "success"
               q      == [r EXCEPT !.at = "audit", !.status = status]
    <2>1. r.at = "sent" /\ r.srv = "over" /\ Becomes(o, q)
      BY <1>2 DEF Receive
    <2>2. /\ Kept(q, r) /\ q.reply = r.reply /\ q.srv = r.srv /\ q.wait = r.wait
          /\ q.at = "audit" /\ q.status = status
      BY <1>1 DEF Operation, Kept
    <2>3. r.reply \in {"ok", "none", "error"} /\ r.elapsed \in Nat /\ r.elapsed <= Limit
      BY <1>1, <2>1 DEF Good, Honest, Timed, Operation
    <2>4. ASSUME status = "success", r.listed # <<>> PROVE Fit(Len(r.listed) - 1, r, Limit)
      <3>1. r.reply = "ok"
        BY <1>1, <2>3, <2>4 DEF Timed
      <3>2. Fit(Len(r.listed) - 1, r, r.elapsed)
        BY <1>1, <2>1, <3>1 DEF Timed
      <3>3. Len(r.listed) - 1 \in Nat
        <4>1. PICK s \in Gateways : s = r.listed
          BY <1>1 DEF Operation
        <4>2. Len(s) \in Nat /\ (Len(s) = 0 => s = <<>>)
          BY DEF Gateways
        <4> QED BY <2>4, <4>1, <4>2
      <3> QED BY <1>1, <2>3, <3>2, <3>3, FitFacts, RollingAssumption
    <2> HIDE DEF q, status
    <2>5. Timed(q)
      BY <1>1, <2>1, <2>2, <2>4 DEF Timed, Kept, Fit
    <2> QED BY <2>1, <2>5, BecomesTInv
  <1>3. CASE GiveUp(o) \/ Abandon(o)
    <2>1. PICK left \in BOOLEAN :
            /\ r.at = "sent"
            /\ Becomes(o, [r EXCEPT !.at = "audit", !.status = "failure", !.left = left])
      <3>1. CASE GiveUp(o)
        <4>1. [r EXCEPT !.at = "audit", !.status = "failure"]
              = [r EXCEPT !.at = "audit", !.status = "failure", !.left = r.left]
          BY <1>1 DEF Operation
        <4>2. r.left \in BOOLEAN
          BY <1>1 DEF Operation
        <4> QED BY <3>1, <4>1, <4>2 DEF GiveUp
      <3>2. CASE Abandon(o)
        BY <3>2 DEF Abandon
      <3> QED BY <1>3, <3>1, <3>2
    <2> DEFINE q == [r EXCEPT !.at = "audit", !.status = "failure", !.left = left]
    <2>2. /\ Kept(q, r) /\ q.reply = r.reply /\ q.srv = r.srv /\ q.wait = r.wait
          /\ q.elapsed = r.elapsed /\ q.at = "audit" /\ q.status = "failure"
      BY <1>1 DEF Operation, Kept
    <2>3. Becomes(o, q)
      BY <2>1
    <2> HIDE DEF q, r
    <2>4. Timed(q)
      BY <1>1, <2>2, KeptIsTimed
    <2> QED BY <2>3, <2>4, BecomesTInv
  <1>4. CASE AuditOp(o)
    <2> DEFINE q == [r EXCEPT !.at = "answered"]
    <2>1. /\ Kept(q, r) /\ q.reply = r.reply /\ q.srv = r.srv /\ q.wait = r.wait
          /\ q.elapsed = r.elapsed /\ q.at = "answered" /\ q.status = r.status
      BY <1>1 DEF Operation, Kept
    <2>2. Becomes(o, q)
      BY <1>4 DEF AuditOp
    <2> HIDE DEF q, r
    <2>3. Timed(q)
      BY <1>1, <2>1, KeptIsTimed
    <2> QED BY <2>2, <2>3, BecomesTInv
  <1>5. CASE Forget(o)
    BY <1>5, UnusedIsTimed, BecomesTInv DEF Forget
  <1>6. CASE Notice(o)
    <2> DEFINE q == [r EXCEPT !.noticed = TRUE]
    <2>1. /\ Kept(q, r) /\ q.reply = r.reply /\ q.srv = r.srv /\ q.wait = r.wait
          /\ q.elapsed = r.elapsed /\ q.at = r.at /\ q.status = r.status
      BY <1>1 DEF Operation, Kept
    <2>2. Becomes(o, q)
      BY <1>6 DEF Notice
    <2> HIDE DEF q, r
    <2>3. Timed(q)
      BY <1>1, <2>1, KeptIsTimed
    <2> QED BY <2>2, <2>3, BecomesTInv
  <1> QED BY <1>2, <1>3, <1>4, <1>5, <1>6 DEF OpsSide

LEMMA ListTInv ==
  ASSUME RInv, TInv, NEW o \in Operator, ListInstances(o)
  PROVE  TInv'
  <1> DEFINE r == op[o]
  <1>1. Good(r) /\ r \in Operation /\ r.srv = "list" /\ Timed(r)
    BY DEF RInv, TInv, Good, ListInstances
  <1>2. r.done = <<>> /\ r.listed = <<>> /\ r.status # "success" /\ r.reply = Nil
    BY <1>1 DEF Good, Coherent, Honest
  <1>3. CASE Becomes(o, Reply(r, "error"))
    BY <1>1, <1>3, ErrorIsTimed, BecomesTInv
  <1>4. CASE Becomes(o, Reply(r, "none"))
    <2> DEFINE q == Reply(r, "none")
    <2>1. /\ q.srv = "over" /\ q.reply = "none" /\ q.at = r.at /\ q.todo = <<>>
          /\ q.status = r.status /\ q.listed = r.listed /\ q.elapsed = r.elapsed
      BY <1>1, ReplyIs
    <2> HIDE DEF q
    <2>2. Timed(q)
      BY <1>1, <1>2, <2>1 DEF Timed
    <2> QED BY <1>4, <2>2, BecomesTInv DEF q
  <1>5. ASSUME NEW list,
               Becomes(o, [r EXCEPT !.srv = "command", !.todo = list, !.listed = list])
        PROVE  TInv'
    <2> DEFINE q == [r EXCEPT !.srv = "command", !.todo = list, !.listed = list]
    <2>1. /\ q.srv = "command" /\ q.done = r.done /\ q.at = r.at /\ q.status = r.status
          /\ q.reply = r.reply /\ q.elapsed = r.elapsed /\ q.wait = r.wait
      BY <1>1 DEF Operation
    <2> HIDE DEF q
    <2>2. Fit(Len(q.done), q, q.elapsed)
      <3>1. Len(q.done) = 0 /\ Fit(0, r, r.elapsed)
        BY <1>1, <1>2, <2>1, FitFacts DEF Operation
      <3> QED BY <2>1, <3>1 DEF Fit
    <2>3. q.srv = "command" /\ q.reply = Nil /\ q.status # "success" /\ (q.at = "sent" => q.elapsed <= Limit)
      BY <1>1, <1>2, <2>1 DEF Timed
    <2>4. Timed(q)
      BY <2>2, <2>3, RollingAssumption DEF Timed
    <2> QED BY <1>5, <2>4, BecomesTInv DEF q
  <1> QED BY <1>3, <1>4, <1>5 DEF ListInstances

\* One more gateway was restarted, while the ops API waited d at most.
LEMMA OnwardIsTimed ==
  ASSUME NEW r, Good(r), Timed(r), r.srv = "command", NEW d \in Nat, InTime(r, d)
  PROVE  Timed(Onward(Later(Restarted(r), d)))
  <1> DEFINE r1 == Restarted(r)
             r2 == Later(r1, d)
             q  == Onward(r2)
  <1> SUFFICES Timed(q)
    OBVIOUS
  <1>1. PICK n \in Nat : n = Len(r.done)
    BY DEF Good, Operation, Gateways
  <1>2. r \in Operation /\ r.status # "success" /\ r.reply = Nil
    BY DEF Good, Honest
  <1>3. /\ r1 \in Operation /\ r1.done = Append(r.done, Head(r.todo)) /\ r1.todo = r.todo
        /\ r1.listed = r.listed /\ r1.at = r.at /\ r1.status = r.status /\ r1.reply = r.reply
        /\ r1.elapsed = r.elapsed /\ r1.wait = r.wait
    <2>1. Append(r.done, Head(r.todo)) \in Gateways
      BY RestartedFacts
    <2> QED BY <1>2, <2>1 DEF Operation, Restarted
  <1>4. Len(r1.done) = n + 1
    BY <1>1, <1>3, RestartedFacts DEF Gateways
  <1> HIDE DEF r1
  <1>5. PICK e \in Nat : e = IF r.at = "sent" THEN r.elapsed + d ELSE r.elapsed
    BY <1>2 DEF Operation
  <1>6. /\ r2 \in Operation /\ r2.done = r1.done /\ r2.todo = r.todo
        /\ r2.listed = r.listed /\ r2.at = r.at /\ r2.status = r.status /\ r2.reply = r.reply
        /\ r2.elapsed = e /\ r2.wait = r.wait
    <2>1. r2 \in Operation /\ Same(r2, r1)
      BY <1>3, LaterIs
    <2>2. r2.elapsed = e /\ r2.wait = r.wait
      BY <1>3, <1>5 DEF Operation, Later
    <2> QED BY <1>3, <2>1, <2>2 DEF Same
  <1> HIDE DEF r2
  <1>7. ASSUME r.at = "sent" PROVE e <= Limit /\ Fit(n, r, e)
    <2>1. e = r.elapsed + d /\ r.elapsed \in Nat
      BY <1>2, <1>5, <1>7 DEF Operation
    <2>2. e <= Limit
      BY <1>7, <2>1 DEF InTime
    <2>3. Fit(n, r, r.elapsed)
      BY <1>1, <1>7 DEF Timed
    <2> QED BY <1>2, <2>1, <2>2, <2>3, FitFacts
  <1>8. CASE Len(r.todo) = 1
    <2>1. /\ q.srv = "over" /\ q.todo = <<>> /\ q.reply = "ok" /\ q.at = r.at
          /\ q.status = r.status /\ q.listed = r.listed /\ q.wait = r.wait /\ q.elapsed = e
      <3>1. q = Reply(r2, "ok")
        BY <1>6, <1>8 DEF Onward
      <3> QED BY <3>1, <1>6, ReplyIs
    <2>2. r.listed = r1.done
      BY <1>3, <1>8, RestartedFacts
    <2>3. Len(q.listed) - 1 = n
      BY <1>4, <2>1, <2>2
    <2> HIDE DEF q
    <2>4. q.at = "sent" => q.elapsed <= Limit /\ Fit(Len(q.listed) - 1, q, q.elapsed)
      BY <1>7, <2>1, <2>3 DEF Fit
    <2>5. q.srv = "over" /\ q.todo = <<>> /\ q.reply = "ok" /\ q.status # "success"
      BY <1>2, <2>1
    <2> QED BY <2>4, <2>5 DEF Timed
  <1>9. CASE Len(r.todo) # 1
    <2>1. /\ q.srv = IF r.wait > 0 THEN "wait" ELSE "command"
          /\ q.reply = Nil /\ q.at = r.at /\ q.done = r1.done
          /\ q.status = r.status /\ q.wait = r.wait /\ q.elapsed = e
      <3>1. Tail(r.todo) \in Gateways
        BY RestartedFacts
      <3> QED BY <3>1, <1>2, <1>6, <1>9 DEF Onward, Operation
    <2> HIDE DEF q
    <2>2. q.status # "success" /\ q.reply = Nil /\ q.srv \in {"command", "wait"}
      BY <1>2, <2>1
    <2>3. ASSUME q.at = "sent", q.srv = "command" PROVE Fit(Len(q.done), q, q.elapsed)
      <3>1. r.wait = 0
        BY <1>2, <2>1, <2>3 DEF Operation
      <3>2. n + 1 \in Nat
        OBVIOUS
      <3>3. Fit(n + 1, r, e)
        BY <1>2, <3>1, <3>2, FitFacts
      <3> QED BY <1>4, <2>1, <3>3 DEF Fit
    <2>4. q.at = "sent" => Fit(n, q, q.elapsed) /\ Len(q.done) = n + 1 /\ q.elapsed <= Limit
      BY <1>4, <1>7, <2>1 DEF Fit
    <2> QED BY <2>2, <2>3, <2>4, RollingAssumption DEF Timed
  <1> QED BY <1>8, <1>9

LEMMA RestartTInv ==
  ASSUME RInv, TInv, NEW o \in Operator, Restart(o)
  PROVE  TInv'
  <1> DEFINE r == op[o]
  <1>1. Good(r) /\ Timed(r) /\ r.srv = "command"
    BY DEF RInv, TInv, Restart
  <1>2. \/ \E d \in {0, 1} : InTime(r, d) /\ Becomes(o, Onward(Later(Restarted(r), d)))
        \/ Becomes(o, Reply(Restarted(r), "error"))
        \/ Becomes(o, Reply(r, "error"))
    BY DEF Restart, Restarted, AfterError
  <1> HIDE DEF r
  <1>3. \A d \in {0, 1} : InTime(r, d) => Timed(Onward(Later(Restarted(r), d)))
    BY <1>1, OnwardIsTimed
  <1>4. Timed(Reply(r, "error"))
    BY <1>1, ErrorIsTimed
  <1>5. Timed(Reply(Restarted(r), "error"))
    <2> DEFINE r1 == Restarted(r)
               q  == Reply(r1, "error")
    <2>1. r1 \in Operation /\ r1.at = r.at /\ r1.status = r.status /\ r1.elapsed = r.elapsed
      <3>1. r1 \in Operation /\ r1.at = r.at /\ r1.status = r.status
        BY <1>1, RestartedIs
      <3>2. r1.elapsed = r.elapsed
        BY <1>1 DEF Restarted, Good, Operation
      <3> QED BY <3>1, <3>2
    <2> HIDE DEF r1
    <2>2. /\ q.srv = "over" /\ q.todo = <<>> /\ q.reply = "error" /\ q.at = r.at
          /\ q.status = r.status /\ q.elapsed = r.elapsed
      BY <2>1, ReplyIs
    <2>3. r.status # "success"
      BY <1>1 DEF Good, Honest
    <2> HIDE DEF q
    <2>4. Timed(q)
      BY <1>1, <2>2, <2>3 DEF Timed
    <2> QED BY <2>4 DEF q, r1
  <1> QED BY <1>2, <1>3, <1>4, <1>5, BecomesTInv

LEMMA PauseTInv ==
  ASSUME RInv, TInv, NEW o \in Operator, Pause(o)
  PROVE  TInv'
  <1> DEFINE r == op[o]
             s == Later(r, r.wait)
             q == [s EXCEPT !.srv = "command"]
  <1>1. Good(r) /\ Timed(r) /\ r \in Operation /\ r.srv = "wait"
    BY DEF RInv, TInv, Good, Pause
  <1>2. CASE InTime(r, r.wait) /\ Becomes(o, q)
    <2>1. PICK e \in Nat : e = IF r.at = "sent" THEN r.elapsed + r.wait ELSE r.elapsed
      BY <1>1 DEF Operation
    <2>2. /\ q.srv = "command" /\ q.at = r.at /\ q.status = r.status /\ q.reply = r.reply
          /\ q.done = r.done /\ q.wait = r.wait /\ q.elapsed = e
      BY <1>1, <2>1 DEF Operation, Later
    <2>3. r.reply = Nil /\ r.status # "success"
      BY <1>1 DEF Good, Honest
    <2>4. ASSUME r.at = "sent" PROVE e <= Limit /\ Fit(Len(r.done), r, e)
      <3>1. e = r.elapsed + r.wait /\ r.elapsed \in Nat
        BY <1>1, <2>1, <2>4 DEF Operation
      <3>2. e <= Limit
        BY <1>2, <2>4, <3>1 DEF InTime
      <3>3. PICK n \in Nat : Len(r.done) = n + 1 /\ Fit(n, r, r.elapsed)
        BY <1>1, <2>4 DEF Timed
      <3>4. Fit(n + 1, r, e)
        BY <1>1, <3>1, <3>3, FitFacts
      <3> QED BY <3>2, <3>3, <3>4
    <2> HIDE DEF q, r
    <2>5. /\ q.srv = "command" /\ q.reply = Nil /\ q.status # "success"
          /\ q.at = "sent" => q.elapsed <= Limit /\ Fit(Len(q.done), q, q.elapsed)
      BY <2>2, <2>3, <2>4 DEF Fit
    <2>6. Timed(q)
      BY <2>5, RollingAssumption DEF Timed
    <2> QED BY <1>2, <2>6, BecomesTInv
  <1>3. CASE Becomes(o, AfterError(r))
    BY <1>1, <1>3, ErrorIsTimed, BecomesTInv DEF AfterError
  <1> QED BY <1>2, <1>3 DEF Pause

LEMMA StepTInv == RInv /\ TInv /\ [RollingNext]_op => TInv'
  <1> SUFFICES ASSUME RInv, TInv, [RollingNext]_op PROVE TInv'
    OBVIOUS
  <1>1. ASSUME NEW o \in Operator, OpsSide(o) \/ Abandon(o) \/ Notice(o)
        PROVE  TInv'
    BY <1>1, OpsSideTInv
  <1>2. ASSUME NEW o \in Operator, MgmtSide(o)
        PROVE  TInv'
    BY <1>2, ListTInv, RestartTInv, PauseTInv DEF MgmtSide
  <1>3. ASSUME NEW o \in Operator, StartRestart(o) \/ StartRoll(o)
        PROVE  TInv'
    BY <1>3, StartTInv
  <1>4. CASE MgmtRestarts
    <2>1. op' = [o \in Operator |->
                   IF op[o].srv \in {"list", "command", "wait"} THEN Reply(op[o], "error") ELSE op[o]]
      BY <1>4 DEF MgmtRestarts
    <2>2. \A o \in Operator : Timed(op'[o])
      BY <2>1, ErrorIsTimed DEF RInv, TInv
    <2> QED BY <2>2 DEF TInv
  <1>5. CASE UNCHANGED op
    BY <1>5 DEF TInv
  <1> QED BY <1>1, <1>2, <1>3, <1>4, <1>5 DEF RollingNext

-----------------------------------------------------------------------------
(***************************************************************************)
(* What is proved of Gateway.  Registering is at most once: the invariant  *)
(* follows the one request whose INSERT made the row from there to its     *)
(* audit entry and its answer (Mine).  Other requests, restarts and the    *)
(* other entries of the audit log do not interfere.  What is shown above   *)
(* of an operation holds beside them.                                      *)
(***************************************************************************)

Entry   == [act : Actions, about : Name \cup {Nil}, status : Statuses, at : Time]
Request == [todo : Seq(Name), asked : Nat, left : BOOLEAN, act : Actions \cup {Nil},
            status : Statuses \cup {Nil}]
Places  == {"idle", "name", "head", "insert", "audit", "enqueue", "policy", "done"}

\* Where a request is about its first name, and where it has what to write.
About(place, r) ==
    /\ place \in {"head", "insert", "audit", "enqueue", "policy"} => r.todo # <<>>
    /\ place = "audit" => r.act \in Actions /\ r.status \in Statuses

BucketsShapes ==
    /\ registry \subseteq Name
    /\ jobs \subseteq registry
    /\ log \in Seq(Entry)
    /\ credit \in [Name -> Nat]
    /\ pc \in [Worker -> Places]
    /\ run \in [Worker -> Request]
    /\ \A w \in Worker : About(pc[w], run[w])

\* The entries that say n was registered.
Entries(n) == Rows("bucket_register", n, "success")

\* A request that has inserted n and not yet answered.
Entering(w, n) == /\ pc[w] = "audit" /\ run[w].act = "bucket_register"
                  /\ run[w].status = "success" /\ name(w) = n

Queueing(w, n) == pc[w] = "enqueue" /\ name(w) = n

Mine(w, n) == Entering(w, n) \/ Queueing(w, n)

Once(n) ==
    /\ credit[n] <= 1
    /\ Entries(n) <= 1
    /\ n \notin registry => credit[n] = 0 /\ Entries(n) = 0
    /\ \A w \in Worker : Mine(w, n) => n \in registry /\ credit[n] = 0
    /\ \A w \in Worker : Entering(w, n) => Entries(n) = 0
    /\ \A w, v \in Worker : Mine(w, n) /\ Mine(v, n) => w = v

BInv == BucketsShapes /\ \A n \in Name : Once(n)

-----------------------------------------------------------------------------
LEMMA RowsIsNat ==
  ASSUME log \in Seq(Entry), NEW act, NEW about, NEW status
  PROVE  Rows(act, about, status) \in Nat
  <1> DEFINE S == {i \in DOMAIN log : log[i].act = act /\ log[i].about = about /\ log[i].status = status}
  <1>1. IsFiniteSet(DOMAIN log)
    <2>1. DOMAIN log = 1..Len(log) /\ Len(log) \in Int
      OBVIOUS
    <2> QED BY <2>1, FS_Interval
  <1>2. IsFiniteSet(S)
    BY <1>1, FS_Subset
  <1> QED BY <1>2, FS_CardinalityType DEF Rows

LEMMA RowsAppend ==
  ASSUME log \in Seq(Entry), NEW x \in Entry, log' = Append(log, x),
         NEW act, NEW about, NEW status
  PROVE  Rows(act, about, status)' =
           Rows(act, about, status) +
             (IF x.act = act /\ x.about = about /\ x.status = status THEN 1 ELSE 0)
  <1> DEFINE S == {i \in DOMAIN log : log[i].act = act /\ log[i].about = about /\ log[i].status = status}
             T == {i \in DOMAIN log' : log'[i].act = act /\ log'[i].about = about /\ log'[i].status = status}
  <1>1. DOMAIN log = 1..Len(log) /\ Len(log) \in Nat
    OBVIOUS
  <1>2. /\ DOMAIN log' = 1..(Len(log) + 1)
        /\ log'[Len(log) + 1] = x
        /\ \A i \in 1..Len(log) : log'[i] = log[i]
    OBVIOUS
  <1>3. IsFiniteSet(S)
    <2>1. IsFiniteSet(DOMAIN log)
      BY <1>1, FS_Interval
    <2> QED BY <2>1, FS_Subset
  <1>4. Cardinality(S) \in Nat
    BY <1>3, FS_CardinalityType
  <1>5. Rows(act, about, status) = Cardinality(S) /\ Rows(act, about, status)' = Cardinality(T)
    BY DEF Rows
  <1>6. CASE x.act = act /\ x.about = about /\ x.status = status
    <2>1. T = S \cup {Len(log) + 1} /\ Len(log) + 1 \notin S
      BY <1>1, <1>2, <1>6
    <2> HIDE DEF S, T
    <2>2. Cardinality(T) = Cardinality(S) + 1
      BY <2>1, <1>3, FS_AddElement
    <2> QED BY <2>2, <1>5, <1>6
  <1>7. CASE ~(x.act = act /\ x.about = about /\ x.status = status)
    <2>1. T = S
      BY <1>1, <1>2, <1>7
    <2> HIDE DEF S, T
    <2> QED BY <2>1, <1>4, <1>5, <1>7
  <1> QED BY <1>6, <1>7

-----------------------------------------------------------------------------
\* A registration is entered for no other operation.
LEMMA WrittenIs ==
  ASSUME log \in Seq(Entry), NEW act \in Actions, NEW about \in Name \cup {Nil},
         NEW status \in Statuses, Written(act, about, status)
  PROVE  /\ log' \in Seq(Entry)
         /\ \A n \in Name :
              Entries(n)' = Entries(n) + (IF /\ act = "bucket_register" /\ about = n
                                             /\ status = "success" THEN 1 ELSE 0)
  <1>1. PICK t \in Time : log' = Append(log, [act |-> act, about |-> about, status |-> status, at |-> t])
    BY DEF Written
  <1> DEFINE x == [act |-> act, about |-> about, status |-> status, at |-> t]
  <1>2. x \in Entry /\ x.act = act /\ x.about = about /\ x.status = status
    BY DEF Entry
  <1> HIDE DEF x
  <1>3. log' = Append(log, x)
    BY <1>1 DEF x
  <1>4. log' \in Seq(Entry)
    BY <1>2, <1>3
  <1>5. ASSUME NEW n \in Name
        PROVE  Entries(n)' = Entries(n) + (IF /\ act = "bucket_register" /\ about = n
                                              /\ status = "success" THEN 1 ELSE 0)
    BY <1>2, <1>3, RowsAppend DEF Entries
  <1> QED BY <1>4, <1>5

LEMMA EntriesAreNat == ASSUME BInv, NEW n \in Name PROVE Entries(n) \in Nat
  BY RowsIsNat DEF BInv, BucketsShapes, Entries

LEMMA InitBInv == AuditInit /\ BucketsInit => BInv
  <1> SUFFICES ASSUME AuditInit, BucketsInit PROVE BInv
    OBVIOUS
  <1>1. BucketsShapes
    BY DEF AuditInit, BucketsInit, BucketsShapes, Blank, Request, Places, About
  <1>2. ASSUME NEW n \in Name PROVE Entries(n) = 0
    <2>1. {i \in DOMAIN log : /\ log[i].act = "bucket_register" /\ log[i].about = n
                              /\ log[i].status = "success"} = {}
      BY DEF AuditInit
    <2> QED BY <2>1, FS_EmptySet DEF Entries, Rows
  <1>3. ASSUME NEW n \in Name PROVE Once(n)
    BY <1>2 DEF BucketsInit, Once, Mine, Entering, Queueing
  <1> QED BY <1>1, <1>3 DEF BInv

\* What a step of one request leaves of the others.
LEMMA GoOnIs ==
  ASSUME BInv, NEW w \in Worker, NEW next \in Places, NEW r \in Request, GoOn(w, next, r),
         About(next, r)
  PROVE  /\ pc'[w] = next /\ run'[w] = r
         /\ \A v \in Worker \ {w} : pc'[v] = pc[v] /\ run'[v] = run[v]
         /\ pc' \in [Worker -> Places] /\ run' \in [Worker -> Request]
         /\ \A v \in Worker : About(pc'[v], run'[v])
  BY DEF GoOn, BInv, BucketsShapes

\* A request that goes on with nothing of its own in the registry.
LEMMA MoveBInv ==
  ASSUME BInv, NEW w \in Worker, NEW next \in Places, NEW r \in Request, GoOn(w, next, r),
         About(next, r),
         next # "enqueue",
         ~(next = "audit" /\ r.act = "bucket_register" /\ r.status = "success"),
         registry \subseteq registry', registry' \subseteq Name, jobs' \subseteq registry',
         credit' = credit, log' \in Seq(Entry), \A n \in Name : Entries(n)' = Entries(n)
  PROVE  BInv'
  <1>1. /\ pc'[w] = next /\ run'[w] = r
        /\ \A v \in Worker \ {w} : pc'[v] = pc[v] /\ run'[v] = run[v]
        /\ pc' \in [Worker -> Places] /\ run' \in [Worker -> Request]
        /\ \A v \in Worker : About(pc'[v], run'[v])
    BY GoOnIs
  <1>2. BucketsShapes'
    BY <1>1 DEF BInv, BucketsShapes
  <1>3. ASSUME NEW n \in Name PROVE Once(n)'
    <2>1. \A v \in Worker : /\ Entering(v, n)' => v # w /\ Entering(v, n)
                            /\ Mine(v, n)' => v # w /\ Mine(v, n)
      BY <1>1 DEF Entering, Queueing, Mine, name
    <2>2. Once(n) /\ Entries(n)' = Entries(n)
      BY DEF BInv
    <2> QED BY <2>1, <2>2 DEF Once
  <1> QED BY <1>2, <1>3 DEF BInv

\* When no entry is written the entries are the same.
LEMMA SameEntries ==
  ASSUME BInv, log' = log
  PROVE  log' \in Seq(Entry) /\ \A n \in Name : Entries(n)' = Entries(n)
  BY DEF BInv, BucketsShapes, Entries, Rows

\* The requests of the invariant.
LEMMA RequestFacts ==
  ASSUME BInv, NEW w \in Worker
  PROVE  /\ run[w] \in Request /\ About(pc[w], run[w])
         /\ run[w].todo # <<>> => name(w) \in Name /\ NextName(run[w]) \in Request
         /\ Blank \in Request
  <1>1. run[w] \in Request /\ About(pc[w], run[w])
    BY DEF BInv, BucketsShapes
  <1>2. ASSUME run[w].todo # <<>> PROVE name(w) \in Name /\ NextName(run[w]) \in Request
    <2>1. run[w].todo \in Seq(Name)
      BY <1>1 DEF Request
    <2>2. Head(run[w].todo) \in Name /\ Tail(run[w].todo) \in Seq(Name)
      BY <1>2, <2>1
    <2> QED BY <1>1, <2>2 DEF Request, name, NextName
  <1>3. Blank \in Request
    BY DEF Blank, Request
  <1> QED BY <1>1, <1>2, <1>3

\* A request that only moves: nothing is written and nothing registered.
LEMMA StayBInv ==
  ASSUME BInv, NEW w \in Worker, NEW next \in Places, NEW r \in Request, GoOn(w, next, r),
         About(next, r),
         next # "enqueue",
         ~(next = "audit" /\ r.act = "bucket_register" /\ r.status = "success"),
         UNCHANGED <<registry, jobs, credit, log>>
  PROVE  BInv'
  <1>1. registry \subseteq registry' /\ registry' \subseteq Name /\ jobs' \subseteq registry'
        /\ credit' = credit
    BY DEF BInv, BucketsShapes
  <1>2. log' \in Seq(Entry) /\ \A n \in Name : Entries(n)' = Entries(n)
    BY SameEntries
  <1> QED BY <1>1, <1>2, MoveBInv

\* A name that failed.
LEMMA FailBInv ==
  ASSUME BInv, NEW w \in Worker, run[w].todo # <<>>, Fail(w),
         registry \subseteq registry', registry' \subseteq Name, UNCHANGED <<jobs, credit, log>>
  PROVE  BInv'
  <1> DEFINE r == NextName(run[w])
  <1>1. r \in Request /\ GoOn(w, "name", r)
    BY RequestFacts DEF Fail
  <1>2. jobs' \subseteq registry'
    BY DEF BInv, BucketsShapes
  <1>3. log' \in Seq(Entry) /\ \A n \in Name : Entries(n)' = Entries(n)
    BY SameEntries
  <1> HIDE DEF r
  <1>4. About("name", r) /\ "name" \in Places
    BY DEF About, Places
  <1> QED BY <1>1, <1>2, <1>3, <1>4, MoveBInv

LEMMA ImportBInv ==
  ASSUME BInv, NEW w \in Worker, Import(w)
  PROVE  BInv'
  <1>1. PICK n \in 1..MaxBatch : \E names \in [1..n -> Name] :
          GoOn(w, "name", [Blank EXCEPT !.todo = names, !.asked = n])
    BY DEF Import
  <1>2. PICK names \in [1..n -> Name] : GoOn(w, "name", [Blank EXCEPT !.todo = names, !.asked = n])
    BY <1>1
  <1> DEFINE r == [Blank EXCEPT !.todo = names, !.asked = n]
  <1>3. n \in Nat /\ names \in Seq(Name)
    BY BucketsAssumption
  <1>4. r \in Request
    BY <1>3 DEF Blank, Request
  <1>5. GoOn(w, "name", r) /\ UNCHANGED <<registry, jobs, credit, log>>
    BY <1>2 DEF Import, allButLog, registryVars, auditVars
  <1> HIDE DEF r
  <1>6. About("name", r) /\ "name" \in Places
    BY DEF About, Places
  <1> QED BY <1>4, <1>5, <1>6, StayBInv

LEMMA CheckNameBInv ==
  ASSUME BInv, NEW w \in Worker, CheckName(w)
  PROVE  BInv'
  <1>1. run[w].todo # <<>> /\ UNCHANGED <<registry, jobs, credit, log>>
    BY DEF CheckName, allButLog, registryVars, auditVars
  <1>2. CASE GoOn(w, "head", run[w])
    <2>1. About("head", run[w]) /\ "head" \in Places /\ run[w] \in Request
      BY <1>1, RequestFacts DEF About, Places
    <2> QED BY <1>1, <1>2, <2>1, StayBInv
  <1>3. CASE Fail(w)
    <2>1. registry \subseteq registry' /\ registry' \subseteq Name
      BY <1>1 DEF BInv, BucketsShapes
    <2> QED BY <1>1, <1>3, <2>1, FailBInv
  <1> QED BY <1>2, <1>3 DEF CheckName

LEMMA HeadBInv ==
  ASSUME BInv, NEW w \in Worker, HeadBucket(w)
  PROVE  BInv'
  <1>1. pc[w] = "head" /\ UNCHANGED <<registry, jobs, credit, log>>
    BY DEF HeadBucket, allButLog, registryVars, auditVars
  <1>2. run[w] \in Request /\ run[w].todo # <<>>
    BY <1>1, RequestFacts DEF About
  <1>3. CASE GoOn(w, "insert", run[w])
    <2>1. About("insert", run[w]) /\ "insert" \in Places
      BY <1>2 DEF About, Places
    <2> QED BY <1>1, <1>2, <1>3, <2>1, StayBInv
  <1>4. CASE GoOn(w, "audit", [run[w] EXCEPT !.act = "bucket_register", !.status = "failure"])
    <2> DEFINE r == [run[w] EXCEPT !.act = "bucket_register", !.status = "failure"]
    <2>1. /\ r \in Request /\ r.todo = run[w].todo /\ r.status = "failure"
          /\ r.act \in Actions /\ r.status \in Statuses
      BY <1>2 DEF Request, Actions, Statuses
    <2> HIDE DEF r
    <2>2. About("audit", r) /\ "audit" \in Places
      BY <1>2, <2>1 DEF About, Places
    <2>3. GoOn(w, "audit", r)
      BY <1>4 DEF r
    <2> QED BY <1>1, <2>1, <2>2, <2>3, StayBInv
  <1>5. CASE Fail(w)
    <2>1. registry \subseteq registry' /\ registry' \subseteq Name
      BY <1>1 DEF BInv, BucketsShapes
    <2> QED BY <1>1, <1>2, <1>5, <2>1, FailBInv
  <1> QED BY <1>3, <1>4, <1>5 DEF HeadBucket

\* The row is made by one request, whose it is.
LEMMA InsertBInv ==
  ASSUME BInv, NEW w \in Worker, InsertBucket(w)
  PROVE  BInv'
  <1> DEFINE n == name(w)
             r(status) == [run[w] EXCEPT !.act = "bucket_register", !.status = status]
  <1>1. pc[w] = "insert" /\ UNCHANGED <<jobs, credit, log>>
    BY DEF InsertBucket, auditVars
  <1>2. run[w] \in Request /\ run[w].todo # <<>> /\ n \in Name
    BY <1>1, RequestFacts DEF About
  <1>3. ASSUME NEW status \in Statuses
        PROVE  /\ r(status) \in Request /\ r(status).todo = run[w].todo
               /\ r(status).status = status /\ r(status).act = "bucket_register"
               /\ About("audit", r(status)) /\ "audit" \in Places
    BY <1>2 DEF Request, Actions, About, Places
  <1>4. \/ Fail(w) /\ registry' = registry
        \/ GoOn(w, "audit", r("failure")) /\ registry' = registry
        \/ n \notin registry /\ registry' = registry \cup {n} /\ Fail(w)
        \/ n \notin registry /\ registry' = registry \cup {n} /\ GoOn(w, "audit", r("success"))
    <2>1. ASSUME NEW status
          PROVE  [[run[w] EXCEPT !.act = "bucket_register"] EXCEPT !.status = status] = r(status)
      BY <1>2 DEF Request
    <2> HIDE DEF r
    <2> QED BY <2>1 DEF InsertBucket, Conflicts
  <1>5. registry \subseteq Name
    BY DEF BInv, BucketsShapes
  <1>6. CASE Fail(w) /\ registry \subseteq registry' /\ registry' \subseteq Name
    BY <1>1, <1>2, <1>6, FailBInv
  <1>7. CASE GoOn(w, "audit", r("failure")) /\ registry' = registry
    <2>1. "failure" \in Statuses
      BY DEF Statuses
    <2> DEFINE q == r("failure")
    <2>2. q \in Request /\ q.status = "failure" /\ About("audit", q) /\ "audit" \in Places
      BY <1>3, <2>1
    <2>3. GoOn(w, "audit", q)
      BY <1>7
    <2> HIDE DEF q
    <2> QED BY <1>1, <1>7, <2>2, <2>3, StayBInv
  <1>8. CASE n \notin registry /\ registry' = registry \cup {n} /\ GoOn(w, "audit", r("success"))
    <2> DEFINE q == r("success")
    <2>1. "success" \in Statuses
      BY DEF Statuses
    <2>2. /\ q \in Request /\ q.todo = run[w].todo /\ q.status = "success" /\ q.act = "bucket_register"
          /\ About("audit", q) /\ "audit" \in Places
      BY <1>3, <2>1
    <2>3. GoOn(w, "audit", q)
      BY <1>8
    <2> HIDE DEF q
    <2>4. /\ pc'[w] = "audit" /\ run'[w] = q
          /\ \A v \in Worker \ {w} : pc'[v] = pc[v] /\ run'[v] = run[v]
          /\ pc' \in [Worker -> Places] /\ run' \in [Worker -> Request]
          /\ \A v \in Worker : About(pc'[v], run'[v])
      BY <2>2, <2>3, GoOnIs
    <2>5. log' \in Seq(Entry) /\ \A m \in Name : Entries(m)' = Entries(m)
      BY <1>1, SameEntries
    <2>6. BucketsShapes'
      BY <1>1, <1>2, <1>5, <1>8, <2>4, <2>5 DEF BInv, BucketsShapes
    <2>7. \A v \in Worker, m \in Name :
            /\ v # w => (Entering(v, m)' => Entering(v, m)) /\ (Mine(v, m)' => Mine(v, m))
            /\ v = w => (Mine(v, m)' => m = n)
      BY <2>2, <2>4 DEF Entering, Queueing, Mine, name
    <2>8. ASSUME NEW m \in Name PROVE Once(m)'
      <3>1. Once(m) /\ Entries(m)' = Entries(m) /\ credit' = credit
        BY <1>1, <2>5 DEF BInv
      <3>2. CASE m = n
        BY <1>8, <2>7, <3>1, <3>2 DEF Once, Mine
      <3>3. CASE m # n
        BY <1>8, <2>7, <3>1, <3>3 DEF Once, Mine
      <3> QED BY <3>2, <3>3
    <2> QED BY <2>6, <2>8 DEF BInv
  <1> QED BY <1>2, <1>4, <1>5, <1>6, <1>7, <1>8

\* The entry of a registration, written or lost.
LEMMA AuditRegisterBInv ==
  ASSUME BInv, NEW w \in Worker, AuditRegister(w)
  PROVE  BInv'
  <1> DEFINE n == name(w)
             r == [run[w] EXCEPT !.act = Nil, !.status = Nil]
  <1>1. /\ pc[w] = "audit" /\ run[w].act = "bucket_register"
        /\ UNCHANGED <<registry, jobs, credit>>
    BY DEF AuditRegister
  <1>2. run[w] \in Request /\ run[w].todo # <<>> /\ n \in Name
    BY <1>1, RequestFacts DEF About
  <1>3. r \in Request /\ r.todo = run[w].todo
    BY <1>2 DEF Request
  <1>4. \/ log' = log
        \/ Written("bucket_register", n, run[w].status)
    BY <1>1 DEF AuditRegister, auditVars
  <1>5. IF run[w].status = "success" THEN GoOn(w, "enqueue", r) ELSE GoOn(w, "name", NextName(r))
    BY DEF AuditRegister
  <1>6. log \in Seq(Entry) /\ "bucket_register" \in Actions
    BY DEF BInv, BucketsShapes, Actions
  <1>7. registry \subseteq Name /\ jobs \subseteq registry
    BY DEF BInv, BucketsShapes
  <1>8. CASE run[w].status # "success"
    <2> DEFINE q == NextName(r)
    <2>1. q \in Request
      <3>1. Tail(r.todo) \in Seq(Name)
        BY <1>2, <1>3 DEF Request
      <3> QED BY <3>1, <1>3 DEF Request, NextName
    <2>2. log' \in Seq(Entry) /\ \A m \in Name : Entries(m)' = Entries(m)
      <3>1. CASE log' = log
        BY <3>1, SameEntries
      <3>2. CASE Written("bucket_register", n, run[w].status)
        <4>1. run[w].status \in Statuses
          BY <1>1, RequestFacts DEF About
        <4> QED BY <3>2, <4>1, <1>2, <1>6, <1>8, WrittenIs, EntriesAreNat
      <3> QED BY <1>4, <3>1, <3>2
    <2>3. GoOn(w, "name", q)
      BY <1>5, <1>8
    <2> HIDE DEF q, r, n
    <2>4. About("name", q) /\ "name" \in Places
      BY DEF About, Places
    <2> QED BY <1>1, <1>7, <2>1, <2>2, <2>3, <2>4, MoveBInv
  <1>9. CASE run[w].status = "success"
    <2>1. GoOn(w, "enqueue", r) /\ "success" \in Statuses
      BY <1>5, <1>9 DEF Statuses
    <2> HIDE DEF r
    <2>2. About("enqueue", r) /\ "enqueue" \in Places
      BY <1>2, <1>3 DEF About, Places
    <2>3. /\ pc'[w] = "enqueue" /\ run'[w] = r
          /\ \A v \in Worker \ {w} : pc'[v] = pc[v] /\ run'[v] = run[v]
          /\ pc' \in [Worker -> Places] /\ run' \in [Worker -> Request]
          /\ \A v \in Worker : About(pc'[v], run'[v])
      BY <1>3, <2>1, <2>2, GoOnIs
    <2>4. /\ log' \in Seq(Entry)
          /\ \/ \A m \in Name : Entries(m)' = Entries(m)
             \/ \A m \in Name : Entries(m)' = Entries(m) + (IF n = m THEN 1 ELSE 0)
      <3>1. CASE log' = log
        BY <3>1, SameEntries
      <3>2. CASE Written("bucket_register", n, "success")
        BY <3>2, <1>2, <1>6, <2>1, WrittenIs
      <3> QED BY <1>4, <1>9, <3>1, <3>2
    <2>5. BucketsShapes'
      BY <1>1, <2>3, <2>4 DEF BInv, BucketsShapes
    <2>6. Entering(w, n)
      BY <1>1, <1>9 DEF Entering
    <2>7. \A v \in Worker, m \in Name :
            /\ v # w => (Entering(v, m)' => Entering(v, m)) /\ (Mine(v, m)' => Mine(v, m))
            /\ v = w => (Mine(v, m)' => m = n) /\ ~Entering(v, m)'
      BY <1>3, <2>3 DEF Entering, Queueing, Mine, name
    <2>8. ASSUME NEW m \in Name PROVE Once(m)'
      <3>1. Once(m) /\ credit' = credit /\ registry' = registry /\ Entries(m) \in Nat
        BY <1>1, EntriesAreNat DEF BInv
      <3>2. CASE m = n
        <4>1. /\ m \in registry /\ credit[m] = 0 /\ Entries(m) = 0
              /\ \A v \in Worker : Mine(v, m) => v = w
          BY <3>1, <3>2, <2>6 DEF Once, Mine
        <4>2. Entries(m)' <= 1
          BY <2>4, <4>1
        <4> HIDE DEF n
        <4> QED BY <2>7, <3>1, <3>2, <4>1, <4>2 DEF Once, Mine
      <3>3. CASE m # n
        <4>1. Entries(m)' = Entries(m)
          BY <2>4, <3>1, <3>3
        <4> QED BY <2>7, <3>1, <3>3, <4>1 DEF Once, Mine
      <3> QED BY <3>2, <3>3
    <2> QED BY <2>5, <2>8 DEF BInv
  <1> QED BY <1>8, <1>9

\* The answer counts it.
LEMMA EnqueueBInv ==
  ASSUME BInv, NEW w \in Worker, Enqueue(w)
  PROVE  BInv'
  <1> DEFINE n == name(w)
             r == NextName(run[w])
  <1>1. /\ pc[w] = "enqueue" /\ UNCHANGED <<registry, log>> /\ GoOn(w, "name", r)
        /\ jobs' \in {jobs, jobs \cup {n}}
        /\ credit' = [credit EXCEPT ![n] = @ + 1]
    BY DEF Enqueue, auditVars
  <1>2. run[w].todo # <<>> /\ n \in Name /\ r \in Request
    BY <1>1, RequestFacts DEF About
  <1>3. Queueing(w, n)
    BY <1>1 DEF Queueing
  <1> HIDE DEF r
  <1>4. About("name", r) /\ "name" \in Places
    BY DEF About, Places
  <1>5. /\ pc'[w] = "name" /\ run'[w] = r
        /\ \A v \in Worker \ {w} : pc'[v] = pc[v] /\ run'[v] = run[v]
        /\ pc' \in [Worker -> Places] /\ run' \in [Worker -> Request]
        /\ \A v \in Worker : About(pc'[v], run'[v])
    BY <1>1, <1>2, <1>4, GoOnIs
  <1>6. \A v \in Worker, m \in Name :
          (Entering(v, m)' => v # w /\ Entering(v, m)) /\ (Mine(v, m)' => v # w /\ Mine(v, m))
    BY <1>5 DEF Entering, Queueing, Mine, name
  <1>7. log' \in Seq(Entry) /\ \A m \in Name : Entries(m)' = Entries(m)
    BY <1>1, SameEntries
  <1>8. Once(n) /\ n \in registry /\ credit[n] = 0
    BY <1>2, <1>3 DEF BInv, Once, Mine
  <1>9. /\ credit' \in [Name -> Nat] /\ credit'[n] = 1
        /\ \A m \in Name \ {n} : credit'[m] = credit[m]
    BY <1>1, <1>2, <1>8 DEF BInv, BucketsShapes
  <1>10. BucketsShapes'
    BY <1>1, <1>5, <1>7, <1>8, <1>9 DEF BInv, BucketsShapes
  <1>11. ASSUME NEW m \in Name PROVE Once(m)'
    <2>1. Once(m) /\ Entries(m)' = Entries(m) /\ registry' = registry
      BY <1>1, <1>7 DEF BInv
    <2>2. CASE m = n
      <3>1. \A v \in Worker : ~Mine(v, m)' /\ ~Entering(v, m)'
        BY <1>3, <1>6, <2>1, <2>2 DEF Once, Mine
      <3> QED BY <2>1, <2>2, <3>1, <1>8, <1>9 DEF Once
    <2>3. CASE m # n
      BY <2>1, <2>3, <1>6, <1>9 DEF Once
    <2> QED BY <2>2, <2>3
  <1> QED BY <1>10, <1>11 DEF BInv

\* Another operation enters no registration.
LEMMA OtherEntry ==
  ASSUME BInv, NEW act \in Actions \ {"bucket_register"}, NEW about \in Name \cup {Nil},
         NEW status \in Statuses, Written(act, about, status)
  PROVE  log' \in Seq(Entry) /\ \A n \in Name : Entries(n)' = Entries(n)
  <1>1. log \in Seq(Entry) /\ act \in Actions /\ act # "bucket_register"
    BY DEF BInv, BucketsShapes
  <1>2. /\ log' \in Seq(Entry)
        /\ \A n \in Name :
             Entries(n)' = Entries(n) + (IF /\ act = "bucket_register" /\ about = n
                                            /\ status = "success" THEN 1 ELSE 0)
    BY <1>1, WrittenIs
  <1> QED BY <1>1, <1>2, EntriesAreNat

\* The steps of requests that register nothing.
LEMMA OthersBInv ==
  ASSUME BInv, NEW w \in Worker,
         Answer(w) \/ Leave(w) \/ Inventory(w) \/ LoadBucket(w)
  PROVE  BInv'
  <1>1. CASE Answer(w)
    <2>1. GoOn(w, "idle", Blank) /\ UNCHANGED <<registry, jobs, credit, log>>
      BY <1>1 DEF Answer, allButLog, registryVars, auditVars
    <2>2. About("idle", Blank) /\ "idle" \in Places /\ Blank \in Request
      BY RequestFacts DEF About, Places
    <2> QED BY <2>1, <2>2, StayBInv
  <1>2. CASE Leave(w)
    <2>1. /\ UNCHANGED <<registry, jobs, credit, log, pc>>
          /\ run' = [run EXCEPT ![w].left = TRUE]
      BY <1>2 DEF Leave, registryVars, auditVars
    <2>2. /\ run' \in [Worker -> Request]
          /\ \A v \in Worker : /\ run'[v].todo = run[v].todo /\ run'[v].act = run[v].act
                               /\ run'[v].status = run[v].status
      BY <2>1 DEF BInv, BucketsShapes, Request
    <2>3. BucketsShapes'
      BY <2>1, <2>2 DEF BInv, BucketsShapes, About
    <2>4. ASSUME NEW n \in Name PROVE Once(n)'
      <3>1. Entries(n)' = Entries(n)
        BY <2>1, SameEntries
      <3> QED BY <2>1, <2>2, <3>1 DEF BInv, Once, Mine, Entering, Queueing, name
    <2> QED BY <2>3, <2>4 DEF BInv
  <1>3. CASE Inventory(w)
    <2>1. /\ UNCHANGED <<registry, credit, log, pc, run>>
          /\ jobs' \subseteq registry
      BY <1>3 DEF Inventory, auditVars, BInv, BucketsShapes
    <2>2. BucketsShapes'
      BY <2>1 DEF BInv, BucketsShapes
    <2>3. ASSUME NEW n \in Name PROVE Once(n)'
      <3>1. Entries(n)' = Entries(n)
        BY <2>1, SameEntries
      <3> QED BY <2>1, <3>1 DEF BInv, Once, Mine, Entering, Queueing, name
    <2> QED BY <2>2, <2>3 DEF BInv
  <1>4. CASE LoadBucket(w)
    <2>1. PICK n \in registry : GoOn(w, "policy", [Blank EXCEPT !.todo = <<n>>])
      BY <1>4 DEF LoadBucket
    <2> DEFINE s == <<n>>
               r == [Blank EXCEPT !.todo = s]
    <2>2. s \in Seq(Name) /\ s # <<>>
      BY DEF BInv, BucketsShapes
    <2> HIDE DEF s
    <2>3. r \in Request /\ r.todo = s
      BY <2>2 DEF Request, Blank
    <2>4. GoOn(w, "policy", r) /\ UNCHANGED <<registry, jobs, credit, log>>
      BY <1>4, <2>1 DEF LoadBucket, allButLog, registryVars, auditVars, s
    <2> HIDE DEF r
    <2>5. About("policy", r) /\ "policy" \in Places
      BY <2>2, <2>3 DEF About, Places
    <2> QED BY <2>3, <2>4, <2>5, StayBInv
  <1> QED BY <1>1, <1>2, <1>3, <1>4

LEMMA PolicyBInv ==
  ASSUME BInv, NEW w \in Worker, PutPolicy(w) \/ DeletePolicy(w) \/ AuditPolicy(w)
  PROVE  BInv'
  <1>1. ASSUME NEW p, ChangePolicy(w, p)
        PROVE  BInv'
    <2>1. pc[w] = "policy" /\ UNCHANGED <<registry, jobs, credit, log>>
      BY <1>1 DEF ChangePolicy, auditVars
    <2>2. PICK answered \in BOOLEAN : AfterPolicy(w, answered)
      BY <1>1 DEF ChangePolicy
    <2> DEFINE r == [run[w] EXCEPT !.act = "modify_bucket_policy",
                                   !.status = IF answered THEN "success" ELSE "failure"]
    <2>3. run[w] \in Request /\ run[w].todo # <<>>
      BY <2>1, RequestFacts DEF About
    <2>4. /\ r \in Request /\ r.todo = run[w].todo /\ r.act = "modify_bucket_policy"
          /\ r.act \in Actions /\ r.status \in Statuses
      BY <2>3 DEF Request, Actions, Statuses
    <2>5. GoOn(w, "audit", r)
      BY <2>2 DEF AfterPolicy
    <2> HIDE DEF r
    <2>6. About("audit", r) /\ "audit" \in Places
      BY <2>3, <2>4 DEF About, Places
    <2> QED BY <2>1, <2>4, <2>5, <2>6, StayBInv
  <1>2. CASE AuditPolicy(w)
    <2>1. /\ pc[w] = "audit" /\ run[w].act = "modify_bucket_policy"
          /\ UNCHANGED <<registry, jobs, credit>>
      BY <1>2 DEF AuditPolicy
    <2>2. run[w] \in Request /\ run[w].status \in Statuses /\ name(w) \in Name
      BY <2>1, RequestFacts DEF About
    <2>3. log' \in Seq(Entry) /\ \A n \in Name : Entries(n)' = Entries(n)
      <3>1. CASE log' = log
        BY <3>1, SameEntries
      <3>2. CASE Written("modify_bucket_policy", name(w), run[w].status)
        <4>1. "modify_bucket_policy" \in Actions \ {"bucket_register"}
          BY DEF Actions
        <4> QED BY <3>2, <4>1, <2>2, OtherEntry
      <3> QED BY <1>2, <2>1, <3>1, <3>2 DEF AuditPolicy, auditVars
    <2> DEFINE r == [run[w] EXCEPT !.todo = <<>>, !.act = Nil, !.status = Nil]
    <2>4. r \in Request
      <3>1. <<>> \in Seq(Name)
        OBVIOUS
      <3> QED BY <2>2, <3>1 DEF Request
    <2>5. GoOn(w, "done", r)
      BY <1>2 DEF AuditPolicy
    <2> HIDE DEF r
    <2>6. About("done", r) /\ "done" \in Places
      BY DEF About, Places
    <2>7. registry \subseteq registry' /\ registry' \subseteq Name /\ jobs' \subseteq registry'
      BY <2>1 DEF BInv, BucketsShapes
    <2> QED BY <2>1, <2>3, <2>4, <2>5, <2>6, <2>7, MoveBInv
  <1> QED BY <1>1, <1>2 DEF PutPolicy, DeletePolicy

\* What is not a request: the buckets' variables stay, and no entry says that a
\* bucket was registered.
LEMMA ApartBInv ==
  ASSUME BInv, UNCHANGED <<registry, jobs, credit, pc, run>>,
         log' \in Seq(Entry), \A n \in Name : Entries(n)' = Entries(n)
  PROVE  BInv'
  <1>1. BucketsShapes'
    BY DEF BInv, BucketsShapes
  <1>2. ASSUME NEW n \in Name PROVE Once(n)'
    BY DEF BInv, Once, Mine, Entering, Queueing, name
  <1> QED BY <1>1, <1>2 DEF BInv

-----------------------------------------------------------------------------
(***************************************************************************)
(* What is changed is audited.  Unless an entry was lost, the request that *)
(* made a row has entered it or is about to; and each change of a policy   *)
(* has an entry or a request about to write one, which is counted in no    *)
(* other change.                                                           *)
(***************************************************************************)
PolicyEntries(n) == Rows("modify_bucket_policy", n, "success")
                    + Rows("modify_bucket_policy", n, "failure")

\* The requests about to enter a change of n's policy.
Changing(n) == {w \in Worker : /\ pc[w] = "audit" /\ name(w) = n
                               /\ run[w].act = "modify_bucket_policy"
                               /\ run[w].status \in Statuses}

Audited(n) ==
    /\ n \in registry => Entries(n) = 1 \/ \E w \in Worker : Entering(w, n)
    /\ changes[n] <= PolicyEntries(n) + Cardinality(Changing(n))

\* A name that got past validateName; and a request has something to write
\* when it is about to, and at no other time.
Fitting(place, r) ==
    /\ place \in {"head", "insert"} => Head(r.todo) \notin BadName
    /\ place = "audit" => r.act \in {"bucket_register", "modify_bucket_policy"}
    /\ place # "audit" => r.act = Nil

Kinds ==
    /\ registry \subseteq Name \ BadName
    /\ gateway \subseteq Name \ BadName
    /\ lost \subseteq Name
    /\ policy \in [Name -> Policy \cup {Nil}]
    /\ changes \in [Name -> Nat]
    /\ tenantLog \in Seq(Time)
    /\ \A w \in Worker : Fitting(pc[w], run[w])

CInv == Kinds /\ \A n \in Name \ lost : Audited(n)

LEMMA ChangingIsFinite == ASSUME NEW n PROVE IsFiniteSet(Changing(n)) /\ Cardinality(Changing(n)) \in Nat
  <1>1. IsFiniteSet(Changing(n))
    BY BucketsAssumption, FS_Subset DEF Changing
  <1> QED BY <1>1, FS_CardinalityType

LEMMA PolicyEntriesAreNat == ASSUME log \in Seq(Entry), NEW n PROVE PolicyEntries(n) \in Nat
  BY RowsIsNat DEF PolicyEntries

LEMMA PolicyWritten ==
  ASSUME log \in Seq(Entry), NEW act \in Actions, NEW about \in Name \cup {Nil},
         NEW status \in Statuses, Written(act, about, status), NEW n \in Name
  PROVE  PolicyEntries(n)' =
           PolicyEntries(n) + (IF act = "modify_bucket_policy" /\ about = n THEN 1 ELSE 0)
  <1>1. PICK t \in Time : log' = Append(log, [act |-> act, about |-> about, status |-> status, at |-> t])
    BY DEF Written
  <1> DEFINE x == [act |-> act, about |-> about, status |-> status, at |-> t]
  <1>2. x \in Entry /\ x.act = act /\ x.about = about /\ x.status = status
    BY DEF Entry
  <1> HIDE DEF x
  <1>3. log' = Append(log, x)
    BY <1>1 DEF x
  <1>4. ASSUME NEW s \in Statuses
        PROVE  /\ Rows("modify_bucket_policy", n, s) \in Nat
               /\ Rows("modify_bucket_policy", n, s)' = Rows("modify_bucket_policy", n, s)
                  + (IF act = "modify_bucket_policy" /\ about = n /\ status = s THEN 1 ELSE 0)
    BY <1>2, <1>3, RowsAppend, RowsIsNat
  <1>5. PICK a \in Nat, b \in Nat : /\ a = Rows("modify_bucket_policy", n, "success")
                                    /\ b = Rows("modify_bucket_policy", n, "failure")
    BY <1>4 DEF Statuses
  <1>6. /\ Rows("modify_bucket_policy", n, "success")'
             = a + (IF act = "modify_bucket_policy" /\ about = n /\ status = "success" THEN 1 ELSE 0)
        /\ Rows("modify_bucket_policy", n, "failure")'
             = b + (IF act = "modify_bucket_policy" /\ about = n /\ status = "failure" THEN 1 ELSE 0)
    BY <1>4, <1>5 DEF Statuses
  <1>7. status = "success" \/ status = "failure"
    BY DEF Statuses
  <1> QED BY <1>5, <1>6, <1>7 DEF PolicyEntries

LEMMA InitCInv == AuditInit /\ BucketsInit => CInv
  <1> SUFFICES ASSUME AuditInit, BucketsInit PROVE CInv
    OBVIOUS
  <1>1. Kinds
    BY DEF AuditInit, BucketsInit, Kinds, Fitting, Blank
  <1>2. log \in Seq(Entry)
    BY DEF AuditInit
  <1>3. ASSUME NEW n \in Name PROVE Audited(n)
    <2>1. PolicyEntries(n) \in Nat /\ Cardinality(Changing(n)) \in Nat
      BY <1>2, PolicyEntriesAreNat, ChangingIsFinite
    <2>2. changes[n] = 0 /\ registry = {}
      BY DEF BucketsInit
    <2> QED BY <2>1, <2>2 DEF Audited
  <1> QED BY <1>1, <1>3 DEF CInv

\* Whose steps leave the entries and the requests about to write one.
LEMMA SameCInv ==
  ASSUME CInv, UNCHANGED <<log, changes>>, Kinds',
         registry \subseteq registry', registry' \subseteq registry \cup lost', lost \subseteq lost',
         \A w \in Worker, n \in Name : Entering(w, n)' <=> Entering(w, n),
         \A n \in Name : Changing(n)' = Changing(n)
  PROVE  CInv'
  <1>1. ASSUME NEW n \in Name, n \notin lost' PROVE Audited(n)'
    <2>1. Audited(n)
      BY <1>1 DEF CInv
    <2>2. Entries(n)' = Entries(n) /\ PolicyEntries(n)' = PolicyEntries(n)
      BY DEF Entries, PolicyEntries, Rows
    <2>3. n \in registry' => n \in registry
      BY <1>1
    <2>4. n \in registry' => Entries(n)' = 1 \/ \E w \in Worker : Entering(w, n)'
      BY <2>1, <2>2, <2>3 DEF Audited
    <2>5. changes'[n] <= PolicyEntries(n)' + Cardinality(Changing(n)')
      BY <2>1, <2>2 DEF Audited
    <2> QED BY <2>4, <2>5 DEF Audited
  <1> QED BY <1>1 DEF CInv

\* What a step of one request leaves of this.
LEMMA GoOnKeeps ==
  ASSUME BInv, CInv, NEW w \in Worker, NEW next \in Places, NEW r \in Request, GoOn(w, next, r),
         About(next, r), Fitting(next, r)
  PROVE  /\ \A v \in Worker : Fitting(pc'[v], run'[v])
         /\ \A v \in Worker \ {w}, n \in Name : Entering(v, n)' <=> Entering(v, n)
         /\ \A v \in Worker \ {w}, n \in Name : v \in Changing(n)' <=> v \in Changing(n)
         /\ \A n \in Name : Entering(w, n)' <=> /\ next = "audit" /\ r.act = "bucket_register"
                                                /\ r.status = "success" /\ Head(r.todo) = n
         /\ \A n \in Name : w \in Changing(n)' <=> /\ next = "audit" /\ r.act = "modify_bucket_policy"
                                                   /\ Head(r.todo) = n
  <1>1. /\ pc'[w] = next /\ run'[w] = r
        /\ \A v \in Worker \ {w} : pc'[v] = pc[v] /\ run'[v] = run[v]
    BY GoOnIs
  <1>2. \A v \in Worker : Fitting(pc'[v], run'[v])
    BY <1>1 DEF CInv, Kinds
  <1>3. \A v \in Worker \ {w}, n \in Name : /\ Entering(v, n)' <=> Entering(v, n)
                                            /\ v \in Changing(n)' <=> v \in Changing(n)
    BY <1>1 DEF Entering, Changing, name
  <1>4. \A n \in Name : Entering(w, n)' <=> /\ next = "audit" /\ r.act = "bucket_register"
                                            /\ r.status = "success" /\ Head(r.todo) = n
    BY <1>1 DEF Entering, name
  <1>5. next = "audit" => r.status \in Statuses
    BY DEF About
  <1>6. \A n \in Name : w \in Changing(n)' <=> /\ next = "audit" /\ r.act = "modify_bucket_policy"
                                               /\ Head(r.todo) = n
    BY <1>1, <1>5 DEF Changing, name
  <1> QED BY <1>2, <1>3, <1>4, <1>6

\* A request that moves and is about to write nothing, before or after.
LEMMA StayCInv ==
  ASSUME BInv, CInv, NEW w \in Worker, NEW next \in Places, NEW r \in Request, GoOn(w, next, r),
         About(next, r), Fitting(next, r), pc[w] # "audit", next # "audit",
         UNCHANGED <<gateway, policy, changes, log, tenantLog>>,
         registry \subseteq registry', registry' \subseteq Name \ BadName,
         registry' \subseteq registry \cup lost', lost \subseteq lost', lost' \subseteq Name
  PROVE  CInv'
  <1>1. Kinds'
    <2>1. \A v \in Worker : Fitting(pc'[v], run'[v])
      BY GoOnKeeps
    <2> QED BY <2>1 DEF CInv, Kinds
  <1>2. \A v \in Worker, n \in Name : Entering(v, n)' <=> Entering(v, n)
    BY GoOnKeeps DEF Entering
  <1>3. ASSUME NEW n \in Name PROVE Changing(n)' = Changing(n)
    <2>1. \A v \in Worker : v \in Changing(n)' <=> v \in Changing(n)
      BY GoOnKeeps DEF Changing
    <2>2. Changing(n) \subseteq Worker /\ Changing(n)' \subseteq Worker
      BY DEF Changing
    <2> QED BY <2>1, <2>2, Zenon
  <1> QED BY <1>1, <1>2, <1>3, SameCInv

\* A request that moves and leaves the tables alone.
LEMMA MoveCInv ==
  ASSUME BInv, CInv, NEW w \in Worker, NEW next \in Places, NEW r \in Request, GoOn(w, next, r),
         About(next, r), Fitting(next, r), pc[w] # "audit", next # "audit",
         UNCHANGED <<registry, gateway, policy, changes, lost, log, tenantLog>>
  PROVE  CInv'
  <1>1. registry \subseteq Name \ BadName /\ lost \subseteq Name
    BY DEF CInv, Kinds
  <1> QED BY <1>1, StayCInv

\* A request that is about to write of its name, which it may have registered,
\* or whose policy it may have changed.
LEMMA EnterCInv ==
  ASSUME BInv, CInv, NEW w \in Worker, NEW r \in Request, GoOn(w, "audit", r),
         About("audit", r), Fitting("audit", r), pc[w] # "audit", NEW n \in Name, Head(r.todo) = n,
         UNCHANGED <<gateway, lost, log, tenantLog>>,
         policy' \in [Name -> Policy \cup {Nil}], changes' \in [Name -> Nat],
         \/ registry' = registry
         \/ /\ registry' = registry \cup {n} /\ n \notin BadName
            /\ r.act = "bucket_register" /\ r.status = "success",
         \/ changes' = changes
         \/ r.act = "modify_bucket_policy" /\ changes' = [changes EXCEPT ![n] = @ + 1]
  PROVE  CInv'
  <1>1. "audit" \in Places
    BY DEF Places
  <1>2. /\ \A v \in Worker : Fitting(pc'[v], run'[v])
        /\ \A v \in Worker \ {w}, m \in Name : Entering(v, m)' <=> Entering(v, m)
        /\ \A v \in Worker \ {w}, m \in Name : v \in Changing(m)' <=> v \in Changing(m)
        /\ \A m \in Name : Entering(w, m)' <=> r.act = "bucket_register" /\ r.status = "success" /\ m = n
        /\ \A m \in Name : w \in Changing(m)' <=> r.act = "modify_bucket_policy" /\ m = n
    BY <1>1, GoOnKeeps
  <1>3. Kinds'
    BY <1>2 DEF CInv, Kinds
  <1>4. ASSUME NEW m \in Name, m \notin lost' PROVE Audited(m)'
    <2>1. Audited(m)
      BY <1>4 DEF CInv
    <2>2. Entries(m)' = Entries(m) /\ PolicyEntries(m)' = PolicyEntries(m)
      BY DEF Entries, PolicyEntries, Rows
    <2>3. m \in registry' => Entries(m)' = 1 \/ \E v \in Worker : Entering(v, m)'
      <3>1. CASE m \in registry
        <4>1. Entries(m) = 1 \/ \E v \in Worker : Entering(v, m)
          BY <2>1, <3>1 DEF Audited
        <4>2. ~Entering(w, m)
          BY DEF Entering
        <4> QED BY <1>2, <2>2, <4>1, <4>2
      <3>2. CASE m \notin registry
        BY <1>2, <3>2
      <3> QED BY <3>1, <3>2
    <2>4. PICK p \in Nat, a \in Nat, b \in Nat, c \in Nat, d \in Nat :
            /\ p = PolicyEntries(m) /\ a = Cardinality(Changing(m)) /\ b = Cardinality(Changing(m)')
            /\ c = changes[m] /\ d = changes'[m]
      <3>1. PolicyEntries(m) \in Nat /\ Cardinality(Changing(m)) \in Nat
        BY PolicyEntriesAreNat, ChangingIsFinite DEF BInv, BucketsShapes
      <3>2. Cardinality(Changing(m)') \in Nat
        <4>1. Changing(m)' \subseteq Worker
          BY DEF Changing
        <4> QED BY <4>1, BucketsAssumption, FS_Subset, FS_CardinalityType
      <3>3. changes[m] \in Nat /\ changes'[m] \in Nat
        BY DEF CInv, Kinds
      <3> QED BY <3>1, <3>2, <3>3
    <2>5. c <= p + a
      BY <2>1, <2>4 DEF Audited
    <2>6. CASE r.act = "modify_bucket_policy" /\ m = n
      <3>1. w \in Changing(m)' /\ w \notin Changing(m)
        BY <1>2, <2>6 DEF Changing
      <3>2. Changing(m)' = Changing(m) \cup {w}
        <4>1. Changing(m) \subseteq Worker /\ Changing(m)' \subseteq Worker
          BY DEF Changing
        <4> QED BY <1>2, <3>1, <4>1
      <3>3. b = a + 1
        BY <2>4, <3>1, <3>2, ChangingIsFinite, FS_AddElement
      <3>4. d <= c + 1
        BY <2>4, <2>6 DEF CInv, Kinds
      <3>5. d <= p + b
        BY <2>5, <3>3, <3>4
      <3> QED BY <2>2, <2>3, <2>4, <3>5 DEF Audited
    <2>7. CASE ~(r.act = "modify_bucket_policy" /\ m = n)
      <3>1. Changing(m)' = Changing(m)
        <4>1. Changing(m) \subseteq Worker /\ Changing(m)' \subseteq Worker /\ w \notin Changing(m)
          BY DEF Changing
        <4>2. \A v \in Worker : v \in Changing(m)' <=> v \in Changing(m)
          BY <1>2, <2>7, <4>1
        <4> QED BY <4>1, <4>2, Zenon
      <3>2. d = c
        BY <2>4, <2>7 DEF CInv, Kinds
      <3>3. d <= p + b
        BY <2>4, <2>5, <3>1, <3>2
      <3> QED BY <2>2, <2>3, <2>4, <3>3 DEF Audited
    <2> QED BY <2>6, <2>7
  <1> QED BY <1>3, <1>4 DEF CInv

\* A request that wrote its entry, or did not.
LEMMA EnteredCInv ==
  ASSUME BInv, CInv, NEW w \in Worker, NEW next \in Places, NEW r \in Request, GoOn(w, next, r),
         About(next, r), Fitting(next, r), pc[w] = "audit", next # "audit",
         UNCHANGED <<registry, gateway, policy, changes>>,
         \/ Written(run[w].act, name(w), run[w].status) /\ UNCHANGED lost
         \/ lost' = lost \cup {name(w)} /\ UNCHANGED auditVars
  PROVE  CInv'
  <1>1. /\ \A v \in Worker : Fitting(pc'[v], run'[v])
        /\ \A v \in Worker \ {w}, m \in Name : Entering(v, m)' <=> Entering(v, m)
        /\ \A v \in Worker \ {w}, m \in Name : v \in Changing(m)' <=> v \in Changing(m)
        /\ \A m \in Name : ~Entering(w, m)' /\ w \notin Changing(m)'
    BY GoOnKeeps
  <1>2. PICK n \in Name : n = name(w)
    BY RequestFacts DEF About
  <1>3. run[w].status \in Statuses /\ run[w].act \in {"bucket_register", "modify_bucket_policy"}
    BY RequestFacts DEF About, CInv, Kinds, Fitting
  <1>4. tenantLog' = tenantLog /\ lost' \subseteq Name
    BY <1>2 DEF Written, notLog, auditVars, CInv, Kinds
  <1>5. Kinds'
    BY <1>1, <1>4 DEF CInv, Kinds
  <1>6. log \in Seq(Entry) /\ run[w].act \in Actions /\ n \in Name \cup {Nil}
    BY <1>3 DEF BInv, BucketsShapes, Actions
  <1>7. ASSUME NEW m \in Name, m \notin lost' PROVE Audited(m)'
    <2>1. Audited(m) /\ Once(m) /\ Entries(m) \in Nat
      BY <1>7, EntriesAreNat DEF CInv, BInv
    <2>2. Changing(m) \subseteq Worker /\ Changing(m)' \subseteq Worker
      BY DEF Changing
    <2>3. PICK p \in Nat, a \in Nat, c \in Nat :
            /\ p = PolicyEntries(m) /\ a = Cardinality(Changing(m)) /\ c = changes[m]
      BY <1>6, PolicyEntriesAreNat, ChangingIsFinite DEF CInv, Kinds
    <2>4. c <= p + a
      BY <2>1, <2>3 DEF Audited
    <2>5. CASE m # n
      <3>1. Entries(m)' = Entries(m) /\ PolicyEntries(m)' = PolicyEntries(m)
        <4>1. CASE log' = log
          BY <4>1 DEF Entries, PolicyEntries, Rows
        <4>2. CASE Written(run[w].act, n, run[w].status)
          BY <4>2, <2>1, <2>3, <2>5, <1>3, <1>6, WrittenIs, PolicyWritten
        <4> QED BY <1>2, <4>1, <4>2 DEF auditVars
      <3>2. Changing(m)' = Changing(m)
        <4>1. w \notin Changing(m)
          BY <1>2, <2>5 DEF Changing
        <4> QED BY <1>1, <2>2, <4>1
      <3>3. ~Entering(w, m)
        BY <1>2, <2>5 DEF Entering
      <3>4. m \in registry' => Entries(m)' = 1 \/ \E v \in Worker : Entering(v, m)'
        BY <1>1, <2>1, <3>1, <3>3 DEF Audited
      <3>5. changes'[m] <= PolicyEntries(m)' + Cardinality(Changing(m)')
        BY <2>3, <2>4, <3>1, <3>2
      <3> QED BY <3>4, <3>5 DEF Audited
    <2>6. CASE m = n
      <3>1. Written(run[w].act, m, run[w].status)
        BY <1>2, <1>7, <2>6
      <3>2. CASE run[w].act = "bucket_register"
        <4>1. Entries(m)' = Entries(m) + (IF run[w].status = "success" THEN 1 ELSE 0)
          BY <3>1, <3>2, <1>3, <1>6, WrittenIs
        <4>2. PolicyEntries(m)' = p
          BY <3>1, <3>2, <1>3, <1>6, <2>3, PolicyWritten
        <4>3. w \notin Changing(m)
          BY <3>2 DEF Changing
        <4>4. Changing(m)' = Changing(m)
          BY <1>1, <2>2, <4>3
        <4>5. m \in registry' => Entries(m)' = 1 \/ \E v \in Worker : Entering(v, m)'
          <5>1. CASE run[w].status = "success"
            <6>1. Entering(w, m)
              BY <1>2, <2>6, <3>2, <5>1 DEF Entering
            <6> QED BY <2>1, <4>1, <5>1, <6>1 DEF Once
          <5>2. CASE run[w].status # "success"
            <6>1. ~Entering(w, m)
              BY <5>2 DEF Entering
            <6> QED BY <1>1, <2>1, <4>1, <5>2, <6>1 DEF Audited
          <5> QED BY <5>1, <5>2
        <4>6. changes'[m] <= PolicyEntries(m)' + Cardinality(Changing(m)')
          BY <2>3, <2>4, <4>2, <4>4
        <4> QED BY <4>5, <4>6 DEF Audited
      <3>3. CASE run[w].act = "modify_bucket_policy"
        <4>1. Entries(m)' = Entries(m)
          BY <2>1, <3>1, <3>3, <1>3, <1>6, WrittenIs
        <4>2. PolicyEntries(m)' = p + 1
          BY <3>1, <3>3, <1>3, <1>6, <2>3, PolicyWritten
        <4>3. w \in Changing(m)
          BY <1>2, <1>3, <2>6, <3>3 DEF Changing
        <4>4. Changing(m)' = Changing(m) \ {w}
          BY <1>1, <2>2, <4>3
        <4>5. Cardinality(Changing(m)') = a - 1
          BY <2>3, <4>3, <4>4, ChangingIsFinite, FS_RemoveElement
        <4>6. ~Entering(w, m)
          BY <3>3 DEF Entering
        <4>7. m \in registry' => Entries(m)' = 1 \/ \E v \in Worker : Entering(v, m)'
          BY <1>1, <2>1, <4>1, <4>6 DEF Audited
        <4>8. changes'[m] <= PolicyEntries(m)' + Cardinality(Changing(m)')
          BY <2>3, <2>4, <4>2, <4>5
        <4> QED BY <4>7, <4>8 DEF Audited
      <3> QED BY <1>3, <3>2, <3>3
    <2> QED BY <2>5, <2>6
  <1> QED BY <1>5, <1>7 DEF CInv

LEMMA RegisteringCInv ==
  ASSUME BInv, CInv, NEW w \in Worker, Registering(w)
  PROVE  CInv'
  <1> DEFINE n == name(w)
             r == NextName(run[w])
  <1>1. run[w] \in Request /\ About(pc[w], run[w]) /\ Fitting(pc[w], run[w])
    BY RequestFacts DEF CInv, Kinds
  <1>2. run[w].todo # <<>> => n \in Name /\ r \in Request /\ r.act = run[w].act
    BY <1>1, RequestFacts DEF NextName, Request
  <1>3. registry \subseteq Name \ BadName /\ lost \subseteq Name
    BY DEF CInv, Kinds
  <1>4. ASSUME run[w].todo # <<>>, pc[w] # "audit", Fail(w),
               UNCHANGED <<gateway, policy, changes, log, tenantLog>>,
               registry \subseteq registry', registry' \subseteq Name \ BadName,
               registry' \subseteq registry \cup lost', lost \subseteq lost', lost' \subseteq Name
        PROVE  CInv'
    <2>1. r \in Request /\ r.act = Nil /\ GoOn(w, "name", r)
      BY <1>1, <1>2, <1>4 DEF Fitting, Fail
    <2> HIDE DEF r
    <2>2. About("name", r) /\ Fitting("name", r) /\ "name" \in Places
      BY <2>1 DEF About, Fitting, Places
    <2> QED BY <1>4, <2>1, <2>2, StayCInv
  <1>5. CASE Import(w)
    <2>1. PICK k \in 1..MaxBatch : \E names \in [1..k -> Name] :
            GoOn(w, "name", [Blank EXCEPT !.todo = names, !.asked = k])
      BY <1>5 DEF Import
    <2>2. PICK names \in [1..k -> Name] : GoOn(w, "name", [Blank EXCEPT !.todo = names, !.asked = k])
      BY <2>1
    <2> DEFINE q == [Blank EXCEPT !.todo = names, !.asked = k]
    <2>3. k \in Nat /\ names \in Seq(Name)
      BY BucketsAssumption
    <2>4. q \in Request /\ q.act = Nil
      BY <2>3 DEF Blank, Request
    <2>5. /\ GoOn(w, "name", q) /\ pc[w] # "audit"
          /\ UNCHANGED <<registry, gateway, policy, changes, lost, log, tenantLog>>
      BY <1>5, <2>2 DEF Import, allButLog, registryVars, auditVars
    <2> HIDE DEF q
    <2>6. About("name", q) /\ Fitting("name", q) /\ "name" \in Places
      BY <2>4 DEF About, Fitting, Places
    <2> QED BY <2>4, <2>5, <2>6, MoveCInv
  <1>6. CASE CheckName(w)
    <2>1. /\ run[w].todo # <<>> /\ pc[w] = "name"
          /\ UNCHANGED <<registry, gateway, policy, changes, lost, log, tenantLog>>
      BY <1>6 DEF CheckName, allButLog, registryVars, auditVars
    <2>2. CASE n \notin BadName /\ GoOn(w, "head", run[w])
      <3>1. About("head", run[w]) /\ Fitting("head", run[w]) /\ "head" \in Places
        BY <1>1, <2>1, <2>2 DEF About, Fitting, Places, name
      <3> QED BY <1>1, <2>1, <2>2, <3>1, MoveCInv
    <2>3. CASE Fail(w)
      BY <1>3, <1>4, <2>1, <2>3
    <2> QED BY <1>6, <2>2, <2>3 DEF CheckName
  <1>7. CASE HeadBucket(w)
    <2>1. /\ run[w].todo # <<>> /\ pc[w] = "head"
          /\ UNCHANGED <<registry, gateway, policy, changes, lost, log, tenantLog>>
      BY <1>1, <1>7 DEF HeadBucket, allButLog, registryVars, auditVars, About
    <2>2. CASE GoOn(w, "insert", run[w])
      <3>1. About("insert", run[w]) /\ Fitting("insert", run[w]) /\ "insert" \in Places
        BY <1>1, <2>1, <2>2 DEF About, Fitting, Places
      <3> QED BY <1>1, <2>1, <2>2, <3>1, MoveCInv
    <2>3. CASE GoOn(w, "audit", [run[w] EXCEPT !.act = "bucket_register", !.status = "failure"])
      <3> DEFINE q == [run[w] EXCEPT !.act = "bucket_register", !.status = "failure"]
      <3>1. /\ q \in Request /\ q.todo = run[w].todo /\ q.status = "failure"
            /\ q.act = "bucket_register" /\ q.act \in Actions /\ q.status \in Statuses
        BY <1>1 DEF Request, Actions, Statuses
      <3>2. GoOn(w, "audit", q)
        BY <2>3
      <3> HIDE DEF q
      <3>3. About("audit", q) /\ Fitting("audit", q) /\ Head(q.todo) = n
        BY <2>1, <3>1 DEF About, Fitting, name
      <3>4. policy' \in [Name -> Policy \cup {Nil}] /\ changes' \in [Name -> Nat] /\ n \in Name
        BY <1>2, <2>1 DEF CInv, Kinds
      <3> HIDE DEF n, r
      <3> QED BY <2>1, <3>1, <3>2, <3>3, <3>4, EnterCInv
    <2>4. CASE Fail(w)
      BY <1>3, <1>4, <2>1, <2>4
    <2> QED BY <1>7, <2>2, <2>3, <2>4 DEF HeadBucket
  <1>8. CASE InsertBucket(w)
    <2> DEFINE q(status) == [run[w] EXCEPT !.act = "bucket_register", !.status = status]
    <2>1. /\ run[w].todo # <<>> /\ pc[w] = "insert" /\ n \in Name /\ n \notin BadName
          /\ UNCHANGED <<gateway, policy, changes, log, tenantLog>>
      BY <1>1, <1>2, <1>8 DEF InsertBucket, auditVars, About, Fitting, name
    <2>2. ASSUME NEW status \in Statuses, GoOn(w, "audit", q(status)), lost' = lost,
                 \/ registry' = registry
                 \/ registry' = registry \cup {n} /\ status = "success"
          PROVE  CInv'
      <3> DEFINE x == q(status)
      <3>1. /\ x \in Request /\ x.todo = run[w].todo /\ x.status = status
            /\ x.act = "bucket_register" /\ x.act \in Actions
        BY <1>1 DEF Request, Actions
      <3>2. GoOn(w, "audit", x)
        BY <2>2
      <3> HIDE DEF x
      <3>3. About("audit", x) /\ Fitting("audit", x) /\ Head(x.todo) = n
        BY <2>1, <3>1 DEF About, Fitting, name
      <3>4. policy' \in [Name -> Policy \cup {Nil}] /\ changes' \in [Name -> Nat]
        BY <2>1 DEF CInv, Kinds
      <3> HIDE DEF n, r
      <3> QED BY <2>1, <2>2, <3>1, <3>2, <3>3, <3>4, EnterCInv
    <2>3. \/ Fail(w) /\ registry' = registry /\ lost' = lost
          \/ GoOn(w, "audit", q("failure")) /\ registry' = registry /\ lost' = lost
          \/ registry' = registry \cup {n} /\ Fail(w) /\ lost' = lost \cup {n}
          \/ registry' = registry \cup {n} /\ GoOn(w, "audit", q("success")) /\ lost' = lost
      <3>1. ASSUME NEW status
            PROVE  [[run[w] EXCEPT !.act = "bucket_register"] EXCEPT !.status = status] = q(status)
        BY <1>1 DEF Request
      <3> HIDE DEF q
      <3> QED BY <1>8, <3>1 DEF InsertBucket
    <2>4. "success" \in Statuses /\ "failure" \in Statuses
      BY DEF Statuses
    <2>5. CASE Fail(w) /\ registry' = registry /\ lost' = lost
      BY <1>3, <1>4, <2>1, <2>5
    <2>6. CASE registry' = registry \cup {n} /\ Fail(w) /\ lost' = lost \cup {n}
      BY <1>3, <1>4, <2>1, <2>6
    <2> HIDE DEF q
    <2> QED BY <2>2, <2>3, <2>4, <2>5, <2>6
  <1>9. CASE AuditRegister(w)
    <2> DEFINE x == [run[w] EXCEPT !.act = Nil, !.status = Nil]
               y == NextName(x)
    <2>1. /\ pc[w] = "audit" /\ run[w].act = "bucket_register"
          /\ UNCHANGED <<registry, gateway, policy, changes>>
          /\ \/ Written(run[w].act, n, run[w].status) /\ UNCHANGED lost
             \/ lost' = lost \cup {n} /\ UNCHANGED auditVars
          /\ GoOn(w, "enqueue", x) \/ GoOn(w, "name", y)
      BY <1>9 DEF AuditRegister
    <2>2. run[w].todo # <<>> /\ n \in Name
      BY <1>1, <1>2, <2>1 DEF About
    <2>3. x \in Request /\ x.todo = run[w].todo /\ x.act = Nil
      BY <1>1 DEF Request
    <2>4. y \in Request /\ y.act = Nil
      <3>1. PICK s \in Seq(Name) : s = x.todo /\ s # <<>>
        BY <2>2, <2>3 DEF Request
      <3>2. Tail(s) \in Seq(Name)
        BY <3>1
      <3> QED BY <2>3, <3>1, <3>2 DEF Request, NextName
    <2> HIDE DEF x, y
    <2>5. /\ About("enqueue", x) /\ Fitting("enqueue", x) /\ "enqueue" \in Places
          /\ About("name", y) /\ Fitting("name", y) /\ "name" \in Places
      BY <2>2, <2>3, <2>4 DEF About, Fitting, Places
    <2> HIDE DEF r
    <2>6. CASE GoOn(w, "enqueue", x)
      BY <2>1, <2>3, <2>5, <2>6, EnteredCInv
    <2>7. CASE GoOn(w, "name", y)
      BY <2>1, <2>4, <2>5, <2>7, EnteredCInv
    <2> QED BY <2>1, <2>6, <2>7
  <1>10. CASE Enqueue(w)
    <2>1. /\ pc[w] = "enqueue" /\ GoOn(w, "name", r)
          /\ UNCHANGED <<registry, gateway, policy, changes, lost, log, tenantLog>>
      BY <1>10 DEF Enqueue, auditVars
    <2>2. run[w].todo # <<>>
      BY <1>1, <2>1 DEF About
    <2> QED BY <1>3, <1>4, <2>1, <2>2 DEF Fail
  <1>11. CASE Answer(w)
    <2>1. /\ GoOn(w, "idle", Blank) /\ pc[w] # "audit"
          /\ UNCHANGED <<registry, gateway, policy, changes, lost, log, tenantLog>>
      BY <1>11 DEF Answer, allButLog, registryVars, auditVars
    <2>2. /\ About("idle", Blank) /\ Fitting("idle", Blank) /\ "idle" \in Places
          /\ Blank \in Request
      BY RequestFacts DEF About, Fitting, Places, Blank
    <2> QED BY <2>1, <2>2, MoveCInv
  <1>12. CASE Leave(w)
    <2>1. /\ UNCHANGED <<registry, gateway, policy, changes, lost, log, tenantLog, pc>>
          /\ run' = [run EXCEPT ![w].left = TRUE]
      BY <1>12 DEF Leave, registryVars, auditVars
    <2>2. \A v \in Worker : /\ run'[v].todo = run[v].todo /\ run'[v].act = run[v].act
                            /\ run'[v].status = run[v].status
      BY <2>1 DEF BInv, BucketsShapes, Request
    <2>3. Kinds'
      BY <2>1, <2>2 DEF CInv, Kinds, Fitting
    <2>4. /\ \A v \in Worker, m \in Name : Entering(v, m)' <=> Entering(v, m)
          /\ \A m \in Name : Changing(m)' = Changing(m)
      BY <2>1, <2>2 DEF Entering, Changing, name
    <2> QED BY <2>1, <2>3, <2>4, SameCInv
  <1> QED BY <1>5, <1>6, <1>7, <1>8, <1>9, <1>10, <1>11, <1>12 DEF Registering

LEMMA PoliciesCInv ==
  ASSUME BInv, CInv, NEW w \in Worker, Policies(w)
  PROVE  CInv'
  <1>1. run[w] \in Request /\ About(pc[w], run[w])
    BY RequestFacts
  <1>2. CASE Inventory(w)
    <2>1. UNCHANGED <<registry, gateway, policy, changes, lost, log, tenantLog, pc, run>>
      BY <1>2 DEF Inventory, auditVars
    <2>2. Kinds'
      BY <2>1 DEF CInv, Kinds
    <2>3. /\ \A v \in Worker, m \in Name : Entering(v, m)' <=> Entering(v, m)
          /\ \A m \in Name : Changing(m)' = Changing(m)
      BY <2>1 DEF Entering, Changing, name
    <2> QED BY <2>1, <2>2, <2>3, SameCInv
  <1>3. CASE LoadBucket(w)
    <2>1. PICK n \in registry : GoOn(w, "policy", [Blank EXCEPT !.todo = <<n>>])
      BY <1>3 DEF LoadBucket
    <2> DEFINE s == <<n>>
               r == [Blank EXCEPT !.todo = s]
    <2>2. s \in Seq(Name) /\ s # <<>>
      BY DEF BInv, BucketsShapes
    <2>3. /\ GoOn(w, "policy", r) /\ pc[w] # "audit"
          /\ UNCHANGED <<registry, gateway, policy, changes, lost, log, tenantLog>>
      BY <1>3, <2>1 DEF LoadBucket, allButLog, registryVars, auditVars
    <2> HIDE DEF s
    <2>4. r \in Request /\ r.todo = s /\ r.act = Nil
      BY <2>2 DEF Request, Blank
    <2> HIDE DEF r
    <2>5. About("policy", r) /\ Fitting("policy", r) /\ "policy" \in Places
      BY <2>2, <2>4 DEF About, Fitting, Places
    <2> QED BY <2>3, <2>4, <2>5, MoveCInv
  <1>4. ASSUME NEW p \in Policy \cup {Nil}, ChangePolicy(w, p)
        PROVE  CInv'
    <2>1. PICK n \in Name : n = name(w) /\ run[w].todo # <<>>
      BY <1>4, RequestFacts DEF ChangePolicy, About
    <2>2. pc[w] = "policy" /\ UNCHANGED <<registry, gateway, lost, log, tenantLog>>
      BY <1>4 DEF ChangePolicy, auditVars
    <2>3. \/ /\ policy' = [policy EXCEPT ![n] = p]
             /\ changes' = [changes EXCEPT ![n] = @ + 1]
          \/ policy' = policy /\ changes' = changes
      BY <1>4, <2>1 DEF ChangePolicy
    <2>4. PICK answered \in BOOLEAN : AfterPolicy(w, answered)
      BY <1>4 DEF ChangePolicy
    <2> DEFINE r == [run[w] EXCEPT !.act = "modify_bucket_policy",
                                   !.status = IF answered THEN "success" ELSE "failure"]
    <2>5. /\ r \in Request /\ r.todo = run[w].todo /\ r.act = "modify_bucket_policy"
          /\ r.act \in Actions /\ r.status \in Statuses
      BY <1>1 DEF Request, Actions, Statuses
    <2>6. GoOn(w, "audit", r)
      BY <2>4 DEF AfterPolicy
    <2> HIDE DEF r
    <2>7. About("audit", r) /\ Fitting("audit", r) /\ Head(r.todo) = n
      BY <2>1, <2>5 DEF About, Fitting, name
    <2>8. policy \in [Name -> Policy \cup {Nil}] /\ changes \in [Name -> Nat]
      BY DEF CInv, Kinds
    <2>9. policy' \in [Name -> Policy \cup {Nil}] /\ changes' \in [Name -> Nat]
      BY <2>3, <2>8
    <2> QED BY <2>2, <2>3, <2>5, <2>6, <2>7, <2>9, EnterCInv
  <1>5. CASE AuditPolicy(w)
    <2> DEFINE r == [run[w] EXCEPT !.todo = <<>>, !.act = Nil, !.status = Nil]
    <2>1. /\ pc[w] = "audit" /\ GoOn(w, "done", r)
          /\ UNCHANGED <<registry, gateway, policy, changes>>
          /\ \/ Written(run[w].act, name(w), run[w].status) /\ UNCHANGED lost
             \/ lost' = lost \cup {name(w)} /\ UNCHANGED auditVars
      BY <1>5 DEF AuditPolicy
    <2>2. r \in Request /\ r.act = Nil
      <3>1. <<>> \in Seq(Name)
        OBVIOUS
      <3> QED BY <1>1, <3>1 DEF Request
    <2> HIDE DEF r
    <2>3. About("done", r) /\ Fitting("done", r) /\ "done" \in Places
      BY <2>2 DEF About, Fitting, Places
    <2> QED BY <2>1, <2>2, <2>3, EnteredCInv
  <1> QED BY <1>2, <1>3, <1>4, <1>5 DEF Policies, PutPolicy, DeletePolicy

\* What is not a request: its entries are about no bucket.
LEMMA ApartCInv ==
  ASSUME BInv, CInv, UNCHANGED <<registry, changes, lost, pc, run>>,
         gateway' \subseteq Name \ BadName, policy' \in [Name -> Policy \cup {Nil}],
         tenantLog' \in Seq(Time),
         \/ log' = log
         \/ \E act \in Actions \ {"bucket_register", "modify_bucket_policy"}, status \in Statuses :
                Written(act, Nil, status)
  PROVE  CInv'
  <1>1. Kinds'
    BY DEF CInv, Kinds
  <1>2. ASSUME NEW m \in Name PROVE Entries(m)' = Entries(m) /\ PolicyEntries(m)' = PolicyEntries(m)
    <2>1. CASE log' = log
      BY <2>1 DEF Entries, PolicyEntries, Rows
    <2>2. ASSUME NEW act \in Actions \ {"bucket_register", "modify_bucket_policy"},
                 NEW status \in Statuses, Written(act, Nil, status)
          PROVE  Entries(m)' = Entries(m) /\ PolicyEntries(m)' = PolicyEntries(m)
      <3>1. log \in Seq(Entry) /\ Nil \in Name \cup {Nil} /\ act \in Actions
        BY DEF BInv, BucketsShapes
      <3>2. PICK e \in Nat, p \in Nat : e = Entries(m) /\ p = PolicyEntries(m)
        BY <3>1, EntriesAreNat, PolicyEntriesAreNat
      <3>3. act # "bucket_register" /\ act # "modify_bucket_policy"
        OBVIOUS
      <3>4. Entries(m)' = Entries(m) + 0
        <4>1. Entries(m)' = Entries(m) + (IF /\ act = "bucket_register" /\ Nil = m
                                             /\ status = "success" THEN 1 ELSE 0)
          BY <2>2, <3>1, WrittenIs, Zenon
        <4> QED BY <3>3, <4>1, Zenon
      <3>5. PolicyEntries(m)' = PolicyEntries(m) + 0
        <4>1. PolicyEntries(m)' = PolicyEntries(m)
                + (IF act = "modify_bucket_policy" /\ Nil = m THEN 1 ELSE 0)
          BY <2>2, <3>1, PolicyWritten, Zenon
        <4> QED BY <3>3, <4>1, Zenon
      <3> QED BY <3>2, <3>4, <3>5
    <2> QED BY <2>1, <2>2
  <1>3. ASSUME NEW m \in Name, m \notin lost' PROVE Audited(m)'
    <2>1. Audited(m)
      BY <1>3 DEF CInv
    <2>2. \A w \in Worker : Entering(w, m)' <=> Entering(w, m)
      BY DEF Entering, name
    <2>3. Changing(m)' = Changing(m)
      BY DEF Changing, name
    <2>4. m \in registry' => Entries(m)' = 1 \/ \E w \in Worker : Entering(w, m)'
      BY <1>2, <2>1, <2>2 DEF Audited
    <2>5. changes'[m] <= PolicyEntries(m)' + Cardinality(Changing(m)')
      BY <1>2, <2>1, <2>3 DEF Audited
    <2> QED BY <2>4, <2>5 DEF Audited
  <1> QED BY <1>1, <1>3 DEF CInv

LEMMA StepGateway == BInv /\ RInv /\ [GatewayNext]_gatewayVars => BInv' /\ RInv'
  <1> SUFFICES ASSUME BInv, RInv, [GatewayNext]_gatewayVars PROVE BInv' /\ RInv'
    OBVIOUS
  <1>1. CASE BucketsNext /\ UNCHANGED op
    <2>1. RInv'
      BY <1>1 DEF RInv
    <2>2. ASSUME NEW w \in Worker, Registering(w) PROVE BInv'
      BY <2>2, ImportBInv, CheckNameBInv, HeadBInv, InsertBInv, AuditRegisterBInv, EnqueueBInv,
         OthersBInv DEF Registering
    <2>3. ASSUME NEW w \in Worker, Policies(w) PROVE BInv'
      BY <2>3, OthersBInv, PolicyBInv DEF Policies
    <2>4. CASE GatewayChanges
      <3>1. UNCHANGED <<registry, jobs, credit, pc, run, log>>
        BY <2>4 DEF GatewayChanges, auditVars
      <3>2. log' \in Seq(Entry) /\ \A n \in Name : Entries(n)' = Entries(n)
        BY <3>1, SameEntries
      <3>3. BInv'
        BY <3>1, <3>2, ApartBInv
      <3> QED BY <2>1, <3>3
    <2> QED BY <1>1, <2>1, <2>2, <2>3, <2>4 DEF BucketsNext
  <1>2. CASE RollingNext /\ UNCHANGED bucketsVars
    <2>1. RInv'
      BY <1>2, StepRInv
    <2>2. UNCHANGED <<registry, jobs, credit, pc, run>>
      BY <1>2 DEF bucketsVars, registryVars
    <2>3. log' \in Seq(Entry) /\ \A n \in Name : Entries(n)' = Entries(n)
      <3>1. CASE log' = log
        BY <3>1, SameEntries
      <3>2. ASSUME NEW o \in Operator, op[o].at = "audit", Written(op[o].act, Nil, op[o].status)
            PROVE  log' \in Seq(Entry) /\ \A n \in Name : Entries(n)' = Entries(n)
        <4>1. op[o] \in Operation /\ Coherent(op[o])
          BY DEF RInv, Good
        <4>2. /\ op[o].act \in {"restart_rgw", "rolling_restart_rgw"}
              /\ op[o].status \in {"success", "failure"}
          BY <3>2, <4>1 DEF Operation, Coherent
        <4>3. op[o].act \in Actions \ {"bucket_register"} /\ op[o].status \in Statuses
          BY <4>2 DEF Actions, Statuses
        <4>4. Nil \in Name \cup {Nil}
          OBVIOUS
        <4> QED BY <3>2, <4>3, <4>4, OtherEntry
      <3>3. \/ log' = log
            \/ \E o \in Operator : op[o].at = "audit" /\ Written(op[o].act, Nil, op[o].status)
        BY <1>2 DEF RollingNext, StartRestart, StartRoll, Ask, Abandon, Notice, OpsSide, MgmtSide,
                    MgmtRestarts, Receive, GiveUp, AuditOp, Forget, ListInstances, Restart, Pause,
                    allButOp, auditVars
      <3> QED BY <3>1, <3>2, <3>3
    <2> QED BY <2>1, <2>2, <2>3, ApartBInv
  <1>3. CASE AuditNext /\ UNCHANGED <<bucketsVars, op>>
    <2>1. RInv'
      BY <1>3 DEF RInv
    <2>2. UNCHANGED <<registry, jobs, credit, pc, run>>
      BY <1>3 DEF bucketsVars, registryVars
    <2>3. log' \in Seq(Entry) /\ \A n \in Name : Entries(n)' = Entries(n)
      <3>1. CASE log' = log
        BY <3>1, SameEntries
      <3>2. CASE OtherWrite
        <4>1. "other" \in Actions \ {"bucket_register"} /\ "success" \in Statuses
          BY DEF Actions, Statuses
        <4>2. Nil \in Name \cup {Nil} /\ Written("other", Nil, "success")
          BY <3>2 DEF OtherWrite
        <4> QED BY <4>1, <4>2, OtherEntry
      <3>3. OtherWrite \/ log' = log
        BY <1>3 DEF AuditNext, TenantWrite, Tick, BeginWalk, ListOps, Show, Turn, Close
      <3> QED BY <3>1, <3>2, <3>3
    <2> QED BY <2>1, <2>2, <2>3, ApartBInv
  <1>4. CASE UNCHANGED gatewayVars
    <2>1. UNCHANGED <<registry, jobs, credit, pc, run, log, op>>
      BY <1>4 DEF gatewayVars, bucketsVars, registryVars, auditVars
    <2> QED BY <2>1, SameEntries, ApartBInv DEF RInv
  <1> QED BY <1>1, <1>2, <1>3, <1>4 DEF GatewayNext

LEMMA StepAudited ==
  ASSUME BInv, CInv, RInv, TInv, [GatewayNext]_gatewayVars
  PROVE  CInv' /\ TInv'
  <1>1. CASE BucketsNext /\ UNCHANGED op
    <2>1. TInv'
      BY <1>1 DEF TInv
    <2>2. ASSUME NEW w \in Worker, Registering(w) \/ Policies(w) PROVE CInv'
      BY <2>2, RegisteringCInv, PoliciesCInv
    <2>3. CASE GatewayChanges
      <3>1. UNCHANGED <<registry, changes, lost, pc, run, log, tenantLog>>
        BY <2>3 DEF GatewayChanges, auditVars
      <3>2. PICK n \in Name \ BadName :
              \/ gateway' = gateway \cup {n} /\ policy' = policy
              \/ gateway' = gateway \ {n} /\ policy' = [policy EXCEPT ![n] = Nil]
        BY <2>3 DEF GatewayChanges
      <3>3. gateway \subseteq Name \ BadName /\ policy \in [Name -> Policy \cup {Nil}]
            /\ tenantLog \in Seq(Time)
        BY DEF CInv, Kinds
      <3>4. gateway' \subseteq Name \ BadName /\ policy' \in [Name -> Policy \cup {Nil}]
        BY <3>2, <3>3
      <3> QED BY <2>1, <3>1, <3>3, <3>4, ApartCInv
    <2> QED BY <1>1, <2>1, <2>2, <2>3 DEF BucketsNext
  <1>2. CASE RollingNext /\ UNCHANGED bucketsVars
    <2>1. TInv'
      BY <1>2, StepTInv
    <2>2. UNCHANGED <<registry, gateway, policy, changes, lost, pc, run>>
      BY <1>2 DEF bucketsVars, registryVars
    <2>3. gateway \subseteq Name \ BadName /\ policy \in [Name -> Policy \cup {Nil}]
          /\ tenantLog \in Seq(Time)
      BY DEF CInv, Kinds
    <2>4. \/ UNCHANGED auditVars
          \/ \E o \in Operator : op[o].at = "audit" /\ Written(op[o].act, Nil, op[o].status)
      BY <1>2 DEF RollingNext, StartRestart, StartRoll, Ask, Abandon, Notice, OpsSide, MgmtSide,
                  MgmtRestarts, Receive, GiveUp, AuditOp, Forget, ListInstances, Restart, Pause,
                  allButOp
    <2>5. CASE UNCHANGED auditVars
      <3>1. UNCHANGED <<log, tenantLog>>
        BY <2>5 DEF auditVars
      <3> QED BY <2>1, <2>2, <2>3, <3>1, ApartCInv
    <2>6. ASSUME NEW o \in Operator, op[o].at = "audit", Written(op[o].act, Nil, op[o].status)
          PROVE  CInv'
      <3>1. op[o] \in Operation /\ Coherent(op[o])
        BY DEF RInv, Good
      <3>2. PICK act, status : act = op[o].act /\ status = op[o].status
        OBVIOUS
      <3>3. act \in {"restart_rgw", "rolling_restart_rgw"} /\ status \in {"success", "failure"}
        BY <2>6, <3>1, <3>2 DEF Operation, Coherent
      <3>4. /\ act \in Actions \ {"bucket_register", "modify_bucket_policy"} /\ status \in Statuses
            /\ Written(act, Nil, status)
        BY <2>6, <3>2, <3>3 DEF Actions, Statuses
      <3>5. tenantLog' = tenantLog
        BY <2>6 DEF Written, notLog
      <3> QED BY <2>2, <2>3, <3>4, <3>5, ApartCInv
    <2> QED BY <2>1, <2>4, <2>5, <2>6
  <1>3. CASE AuditNext /\ UNCHANGED <<bucketsVars, op>>
    <2>1. TInv'
      BY <1>3 DEF TInv
    <2>2. UNCHANGED <<registry, gateway, policy, changes, lost, pc, run>>
      BY <1>3 DEF bucketsVars, registryVars
    <2>3. gateway \subseteq Name \ BadName /\ policy \in [Name -> Policy \cup {Nil}]
          /\ tenantLog \in Seq(Time)
      BY DEF CInv, Kinds
    <2>4. \/ log' = log
          \/ Written("other", Nil, "success")
      BY <1>3 DEF AuditNext, OtherWrite, TenantWrite, Tick, BeginWalk, ListOps, Show, Turn, Close
    <2>5. tenantLog' = tenantLog \/ \E t \in Time : tenantLog' = Append(tenantLog, t)
      BY <1>3 DEF AuditNext, OtherWrite, TenantWrite, Tick, BeginWalk, ListOps, Show, Turn, Close,
                  Written, notLog
    <2>6. tenantLog' \in Seq(Time)
      BY <2>3, <2>5
    <2>7. /\ "other" \in Actions \ {"bucket_register", "modify_bucket_policy"}
          /\ "success" \in Statuses
      BY DEF Actions, Statuses
    <2>8. CInv'
      BY <2>2, <2>3, <2>4, <2>6, <2>7, ApartCInv
    <2> QED BY <2>1, <2>8
  <1>4. CASE UNCHANGED gatewayVars
    <2>1. UNCHANGED <<registry, gateway, policy, changes, lost, pc, run, log, tenantLog, op>>
      BY <1>4 DEF gatewayVars, bucketsVars, registryVars, auditVars
    <2>2. gateway \subseteq Name \ BadName /\ policy \in [Name -> Policy \cup {Nil}]
          /\ tenantLog \in Seq(Time)
      BY DEF CInv, Kinds
    <2>3. CInv'
      BY <2>1, <2>2, ApartCInv
    <2> QED BY <2>1, <2>3 DEF TInv
  <1> QED BY <1>1, <1>2, <1>3, <1>4 DEF GatewayNext

-----------------------------------------------------------------------------
(***************************************************************************)
(* Lists in order, and what merging two of them gives.                     *)
(***************************************************************************)
Item == [id : Nat, at : Nat]

\* A set of naturals has a least element.
LEMMA Least ==
  ASSUME NEW S \in SUBSET Nat, S # {}
  PROVE  \E m \in S : \A n \in S : m <= n
  <1>1. PICK R : R = OpToRel(<, Nat)
    OBVIOUS
  <1>2. IsWellFoundedOn(R, Nat)
    BY <1>1, NatLessThanWellFounded
  <1>3. PICK m \in S : \A n \in S : <<n, m>> \notin R
    BY <1>2, WFMin
  <1>4. ASSUME NEW n \in S PROVE m <= n
    <2>1. n \in Nat /\ m \in Nat /\ <<n, m>> \notin R
      BY <1>3
    <2>2. ~(n < m)
      BY <1>1, <2>1 DEF OpToRel
    <2> QED BY <2>1, <2>2
  <1> QED BY <1>4

\* after is a strict order of all items.
LEMMA AfterIsOrder ==
  /\ \A x \in Item : ~After(x, x)
  /\ \A x, y \in Item : After(x, y) => ~After(y, x)
  /\ \A x, y \in Item : x # y => After(x, y) \/ After(y, x)
  /\ \A x, y, z \in Item : After(x, y) /\ After(y, z) => After(x, z)
  <1>1. ASSUME NEW x \in Item, NEW y \in Item, x.at = y.at, x.id = y.id PROVE x = y
    BY <1>1 DEF Item
  <1>2. \A x \in Item : x.id \in Nat /\ x.at \in Nat
    BY DEF Item
  <1> QED BY <1>1, <1>2 DEF After

\* s is the list, in order, of the set S.
IsListOf(s, S) ==
  /\ s \in Seq(S)
  /\ \A x \in S : \E i \in 1..Len(s) : s[i] = x
  /\ \A i, j \in 1..Len(s) : i < j => After(s[i], s[j])

\* No item is in a list twice, and of two the one before is the later.
LEMMA ListFacts ==
  ASSUME NEW S \in SUBSET Item, NEW s, IsListOf(s, S)
  PROVE  /\ Len(s) \in Nat
         /\ \A i \in 1..Len(s) : s[i] \in S /\ s[i] \in Item
         /\ \A i, j \in 1..Len(s) : s[i] = s[j] => i = j
         /\ \A i, j \in 1..Len(s) : After(s[i], s[j]) => i < j
  <1>1. Len(s) \in Nat /\ \A i \in 1..Len(s) : s[i] \in S /\ s[i] \in Item
    BY DEF IsListOf
  <1>2. ASSUME NEW i \in 1..Len(s), NEW j \in 1..Len(s), i # j
        PROVE  i < j \/ j < i
    BY <1>1, <1>2
  <1>3. \A i, j \in 1..Len(s) : i < j => After(s[i], s[j]) /\ ~After(s[j], s[i]) /\ s[i] # s[j]
    BY <1>1, AfterIsOrder DEF IsListOf
  <1>4. \A i \in 1..Len(s) : ~After(s[i], s[i])
    BY <1>1, AfterIsOrder
  <1> QED BY <1>1, <1>2, <1>3, <1>4

\* In a list of more, an item does not come earlier.
LEMMA RankGrows ==
  ASSUME NEW C \in SUBSET Item, NEW A \in SUBSET C, NEW a, NEW c, IsListOf(a, A), IsListOf(c, C),
         NEW p \in 1..Len(a), NEW q \in 1..Len(c), a[p] = c[q]
  PROVE  p <= q
  <1>1. A \in SUBSET Item
    OBVIOUS
  <1>2. /\ Len(a) \in Nat /\ Len(c) \in Nat
        /\ \A i \in 1..Len(a) : a[i] \in A
        /\ \A i, j \in 1..Len(a) : i < j => After(a[i], a[j])
        /\ \A i, j \in 1..Len(c) : After(c[i], c[j]) => i < j
        /\ \A x \in C : \E i \in 1..Len(c) : c[i] = x
    BY <1>1, ListFacts DEF IsListOf
  <1> DEFINE Bad == {i \in 1..Len(a) : \E j \in 1..Len(c) : a[i] = c[j] /\ j < i}
  <1>3. SUFFICES ASSUME p \in Bad PROVE FALSE
    BY <1>2
  <1>4. PICK i \in Bad : \A n \in Bad : i <= n
    <2>1. Bad \in SUBSET Nat
      BY <1>2
    <2> HIDE DEF Bad
    <2> QED BY <1>3, <2>1, Least
  <1>5. PICK j \in 1..Len(c) : a[i] = c[j] /\ j < i
    BY <1>4
  <1>6. i \in 1..Len(a) /\ i - 1 \in 1..Len(a)
    BY <1>2, <1>4, <1>5
  <1>7. PICK k \in 1..Len(c) : c[k] = a[i - 1]
    BY <1>2, <1>6
  <1>8. After(a[i - 1], a[i])
    BY <1>2, <1>6
  <1>9. k < j
    BY <1>2, <1>5, <1>7, <1>8
  <1>10. i - 1 \in Bad
    BY <1>2, <1>5, <1>6, <1>7, <1>9
  <1> QED BY <1>2, <1>4, <1>6, <1>10

\* A set has one list.
LEMMA OneList ==
  ASSUME NEW S \in SUBSET Item, NEW s, NEW t, IsListOf(s, S), IsListOf(t, S)
  PROVE  s = t
  <1>1. /\ s \in Seq(S) /\ t \in Seq(S) /\ Len(s) \in Nat /\ Len(t) \in Nat
        /\ \A i \in 1..Len(s) : s[i] \in S
        /\ \A i \in 1..Len(t) : t[i] \in S
    BY ListFacts DEF IsListOf
  <1>2. \A i \in 1..Len(s) : i \in 1..Len(t) /\ s[i] = t[i]
    <2>1. SUFFICES ASSUME NEW i \in 1..Len(s) PROVE i \in 1..Len(t) /\ s[i] = t[i]
      OBVIOUS
    <2>2. PICK j \in 1..Len(t) : t[j] = s[i]
      BY <1>1 DEF IsListOf
    <2>3. i <= j /\ j <= i
      BY <2>2, RankGrows
    <2> QED BY <1>1, <2>2, <2>3
  <1>3. \A i \in 1..Len(t) : i \in 1..Len(s)
    <2>1. SUFFICES ASSUME NEW i \in 1..Len(t) PROVE i \in 1..Len(s)
      OBVIOUS
    <2>2. PICK j \in 1..Len(s) : s[j] = t[i]
      BY <1>1 DEF IsListOf
    <2>3. i <= j /\ j <= i
      BY <2>2, RankGrows
    <2> QED BY <1>1, <2>2, <2>3
  <1>4. Len(s) = Len(t)
    BY <1>1, <1>2, <1>3
  <1> QED BY <1>1, <1>2, <1>4

-----------------------------------------------------------------------------
\* InOrder lists the set: an item comes as many places down as there are items
\* before it, which differs from item to item and leaves no place empty.
LEMMA InOrderLists ==
  ASSUME NEW S \in SUBSET Item, IsFiniteSet(S)
  PROVE  IsListOf(InOrder(S), S)
  <1> DEFINE n == Cardinality(S)
             above(x) == {y \in S : After(y, x)}
             rank == [x \in S |-> Cardinality(above(x)) + 1]
  <1>1. n \in Nat /\ IsFiniteSet(1..n) /\ Cardinality(1..n) = n
    <2>1. n \in Nat
      BY FS_CardinalityType
    <2> HIDE DEF n
    <2> QED BY <2>1, FS_Interval
  <1>2. ASSUME NEW x \in S
        PROVE  above(x) \in SUBSET S /\ IsFiniteSet(above(x)) /\ Cardinality(above(x)) \in Nat /\ rank[x] \in 1..n
    <2>1. above(x) \in SUBSET (S \ {x})
      BY AfterIsOrder
    <2>2. IsFiniteSet(S \ {x}) /\ Cardinality(S \ {x}) = n - 1
      BY FS_RemoveElement
    <2> HIDE DEF above
    <2>3. IsFiniteSet(above(x)) /\ Cardinality(above(x)) <= n - 1
      BY <2>1, <2>2, FS_Subset
    <2>4. Cardinality(above(x)) \in Nat
      BY <2>3, FS_CardinalityType
    <2> HIDE DEF n
    <2> QED BY <1>1, <2>1, <2>3, <2>4
  <1>3. ASSUME NEW x \in S, NEW y \in S, After(x, y)
        PROVE  rank[x] < rank[y]
    <2>1. above(x) \in SUBSET above(y) /\ x \in above(y) /\ x \notin above(x)
      BY <1>3, AfterIsOrder
    <2>2. IsFiniteSet(above(y)) /\ Cardinality(above(y)) \in Nat /\ Cardinality(above(x)) \in Nat
      BY <1>2
    <2>3. Cardinality(above(x)) <= Cardinality(above(y)) /\ Cardinality(above(y)) # Cardinality(above(x))
      <3> HIDE DEF above
      <3> QED BY <2>1, <2>2, FS_Subset
    <2> HIDE DEF above
    <2> QED BY <2>2, <2>3
  <1>4. \A x, y \in S : rank[x] = rank[y] => x = y
    <2> HIDE DEF rank, above, n
    <2>1. \A x \in S : rank[x] \in Int
      BY <1>1, <1>2
    <2> QED BY <1>3, <2>1, AfterIsOrder
  <1>5. rank \in [S -> 1..n]
    BY <1>2
  <1>6. \A k \in 1..n : \E x \in S : rank[x] = k
    <2> HIDE DEF rank, n
    <2>1. rank \in Injection(S, 1..n)
      BY <1>4, <1>5 DEF Injection, IsInjective
    <2>2. Cardinality(S) = Cardinality(1..n)
      BY <1>1 DEF n
    <2>3. rank \in Surjection(S, 1..n)
      BY <1>1, <2>1, <2>2, FS_Injection
    <2> QED BY <2>3 DEF Surjection
  <1> DEFINE s == InOrder(S)
  <1>7. s = [k \in 1..n |-> CHOOSE x \in S : Cardinality(above(x)) = k - 1]
    BY Zenon DEF InOrder
  <1>8. \A x \in S : Cardinality(above(x)) \in Nat /\ rank[x] = Cardinality(above(x)) + 1
    BY <1>2
  <1>9. \A k \in 1..n : s[k] \in S /\ rank[s[k]] = k
    <2> SUFFICES ASSUME NEW k \in 1..n PROVE s[k] \in S /\ rank[s[k]] = k
      OBVIOUS
    <2> HIDE DEF rank, s, above, n
    <2>1. s[k] = CHOOSE x \in S : Cardinality(above(x)) = k - 1
      BY <1>7
    <2>2. PICK x \in S : rank[x] = k
      BY <1>6
    <2>3. Cardinality(above(x)) = k - 1
      BY <1>1, <1>8, <2>2
    <2>4. s[k] \in S /\ Cardinality(above(s[k])) = k - 1
      BY <2>1, <2>3
    <2> QED BY <1>1, <1>8, <2>4
  <1> HIDE DEF rank, s, above
  <1>10. s \in Seq(S) /\ Len(s) = n
    <2> HIDE DEF n
    <2>1. s \in [1..n -> S]
      BY <1>7, <1>9
    <2> QED BY <1>1, <2>1
  <1> HIDE DEF n
  <1>11. ASSUME NEW x \in S PROVE \E i \in 1..Len(s) : s[i] = x
    <2>1. rank[x] \in 1..n
      BY <1>5
    <2>2. s[rank[x]] \in S /\ rank[s[rank[x]]] = rank[x]
      BY <1>9, <2>1
    <2>3. s[rank[x]] = x
      BY <1>4, <2>2
    <2> QED BY <1>10, <2>1, <2>3
  <1>12. ASSUME NEW i \in 1..Len(s), NEW j \in 1..Len(s), i < j PROVE After(s[i], s[j])
    <2>1. s[i] \in S /\ s[j] \in S /\ rank[s[i]] = i /\ rank[s[j]] = j /\ s[i] # s[j]
      BY <1>1, <1>9, <1>10, <1>12
    <2>2. ~After(s[j], s[i])
      BY <1>3, <1>12, <2>1
    <2> QED BY <2>1, <2>2, AfterIsOrder
  <1>13. IsListOf(s, S)
    BY <1>10, <1>11, <1>12 DEF IsListOf
  <1> QED BY <1>13 DEF s

\* The first m of a list, as a set.
Top(s, m) == {s[i] : i \in {k \in 1..Len(s) : k <= m}}

\* The first of a list are the list of themselves.
LEMMA TopLists ==
  ASSUME NEW S \in SUBSET Item, NEW s, IsListOf(s, S), NEW m \in Nat, m <= Len(s)
  PROVE  /\ IsListOf(SubSeq(s, 1, m), Top(s, m))
         /\ Len(SubSeq(s, 1, m)) = m
         /\ \A i \in 1..m : SubSeq(s, 1, m)[i] = s[i]
         /\ Top(s, m) \in SUBSET S
  <1> DEFINE t == SubSeq(s, 1, m)
  <1>1. /\ s \in Seq(S) /\ Len(s) \in Nat
        /\ \A i \in 1..Len(s) : s[i] \in S
        /\ \A i, j \in 1..Len(s) : i < j => After(s[i], s[j])
    BY ListFacts DEF IsListOf
  <1>2. t \in Seq(S) /\ Len(t) = m /\ \A i \in 1..m : t[i] = s[i]
    BY <1>1
  <1>3. Top(s, m) \in SUBSET S /\ \A i \in 1..m : s[i] \in Top(s, m)
    BY <1>1 DEF Top
  <1> HIDE DEF t
  <1>4. t \in Seq(Top(s, m))
    <2>1. t \in [1..m -> Top(s, m)]
      BY <1>2, <1>3
    <2> QED BY <2>1
  <1>5. \A x \in Top(s, m) : \E i \in 1..Len(t) : t[i] = x
    BY <1>1, <1>2 DEF Top
  <1>6. \A i, j \in 1..Len(t) : i < j => After(t[i], t[j])
    <2>1. \A i \in 1..m : i \in 1..Len(s)
      BY <1>1
    <2> QED BY <1>1, <1>2, <2>1
  <1>7. IsListOf(t, Top(s, m))
    BY <1>4, <1>5, <1>6 DEF IsListOf
  <1> QED BY <1>2, <1>3, <1>7 DEF t

\* The longest list is of the larger set.
LEMMA LenGrows ==
  ASSUME NEW C \in SUBSET Item, NEW A \in SUBSET C, NEW a, NEW c, IsListOf(a, A), IsListOf(c, C)
  PROVE  Len(a) <= Len(c)
  <1>1. A \in SUBSET Item
    OBVIOUS
  <1>2. /\ Len(a) \in Nat /\ Len(c) \in Nat
        /\ \A i \in 1..Len(a) : a[i] \in A
        /\ \A x \in C : \E i \in 1..Len(c) : c[i] = x
    BY <1>1, ListFacts DEF IsListOf
  <1>3. SUFFICES ASSUME Len(a) > 0 PROVE Len(a) <= Len(c)
    BY <1>2
  <1>4. Len(a) \in 1..Len(a) /\ a[Len(a)] \in C
    BY <1>2, <1>3
  <1>5. PICK q \in 1..Len(c) : c[q] = a[Len(a)]
    BY <1>2, <1>4
  <1>6. Len(a) <= q
    BY <1>4, <1>5, RankGrows
  <1> QED BY <1>2, <1>6

\* What a page needs of two sets is in the first rows of each: the first rows
\* of what those hold are the first of all.
LEMMA FirstOfBoth ==
  ASSUME NEW A \in SUBSET Item, NEW B \in SUBSET Item, NEW a, NEW b, NEW c, NEW d, NEW m \in Nat,
         IsListOf(a, A), IsListOf(b, B), IsListOf(c, A \cup B), IsListOf(d, Top(a, m) \cup Top(b, m))
  PROVE  /\ \A i \in 1..Len(c) : i <= m => i <= Len(d) /\ d[i] = c[i]
         /\ Len(d) <= Len(c)
  <1> DEFINE C == A \cup B
             D == Top(a, m) \cup Top(b, m)
  <1>1. /\ Len(a) \in Nat /\ Len(b) \in Nat /\ Len(c) \in Nat
        /\ \A i \in 1..Len(a) : a[i] \in A
        /\ \A i \in 1..Len(b) : b[i] \in B
        /\ \A x \in A : \E i \in 1..Len(a) : a[i] = x
        /\ \A x \in B : \E i \in 1..Len(b) : b[i] = x
        /\ \A i \in 1..Len(c) : c[i] \in C
    <2>1. C \in SUBSET Item
      OBVIOUS
    <2> QED BY <2>1, ListFacts DEF IsListOf
  <1>2. C \in SUBSET Item /\ A \in SUBSET C /\ B \in SUBSET C /\ D \in SUBSET C /\ D \in SUBSET Item
    BY <1>1 DEF Top
  <1> HIDE DEF C, D
  <1>3. IsListOf(c, C) /\ IsListOf(d, D)
    BY DEF C, D
  <1>4. Len(d) \in Nat /\ \A x \in D : \E i \in 1..Len(d) : d[i] = x
    BY <1>2, <1>3, ListFacts DEF IsListOf
  <1>5. ASSUME NEW i \in 1..Len(c), i <= m
        PROVE  c[i] \in D
    <2>1. CASE c[i] \in A
      <3>1. PICK p \in 1..Len(a) : a[p] = c[i]
        BY <1>1, <2>1
      <3>2. p <= i
        BY <1>2, <1>3, <3>1, RankGrows
      <3>3. p <= m
        BY <1>1, <1>5, <3>2
      <3> QED BY <3>1, <3>3 DEF D, Top
    <2>2. CASE c[i] \in B
      <3>1. PICK p \in 1..Len(b) : b[p] = c[i]
        BY <1>1, <2>2
      <3>2. p <= i
        BY <1>2, <1>3, <3>1, RankGrows
      <3>3. p <= m
        BY <1>1, <1>5, <3>2
      <3> QED BY <3>1, <3>3 DEF D, Top
    <2> QED BY <1>1, <2>1, <2>2 DEF C
  <1>6. ASSUME NEW i \in 1..Len(c), i <= m
        PROVE  i <= Len(d) /\ d[i] = c[i]
    <2> DEFINE t == SubSeq(c, 1, i)
               T == Top(c, i)
    <2>1. i \in Nat /\ i <= Len(c)
      BY <1>1
    <2>2. IsListOf(t, T) /\ Len(t) = i /\ t[i] = c[i]
      BY <1>2, <1>3, <2>1, TopLists
    <2>3. T \in SUBSET D
      <3>1. \A k \in 1..Len(c) : k <= i => k <= m
        BY <1>1, <1>6
      <3> QED BY <1>5, <3>1 DEF Top
    <2> HIDE DEF t, T
    <2>4. PICK j \in 1..Len(d) : d[j] = c[i]
      BY <1>4, <1>5, <1>6
    <2>5. j <= i
      BY <1>2, <1>3, <2>4, RankGrows
    <2>6. i <= j
      <3>1. i \in 1..Len(t) /\ t[i] = d[j]
        BY <2>1, <2>2, <2>4
      <3> QED BY <1>2, <1>3, <2>2, <2>3, <3>1, RankGrows
    <2> QED BY <1>1, <1>4, <2>4, <2>5, <2>6
  <1>7. Len(d) <= Len(c)
    BY <1>2, <1>3, LenGrows
  <1> QED BY <1>6, <1>7

-----------------------------------------------------------------------------
\* A function that never steps down is not less later on.
LEMMA Monotone ==
  ASSUME NEW N \in Nat, NEW g \in [0..N -> Nat], \A k \in 1..N : g[k - 1] <= g[k],
         NEW k \in 0..N, NEW l \in 0..N, k <= l
  PROVE  g[k] <= g[l]
  <1> DEFINE Bad == {j \in 0..N : k <= j /\ ~(g[k] <= g[j])}
  <1>1. SUFFICES ASSUME l \in Bad PROVE FALSE
    OBVIOUS
  <1>2. PICK j \in Bad : \A n \in Bad : j <= n
    <2>1. Bad \in SUBSET Nat
      OBVIOUS
    <2> HIDE DEF Bad
    <2> QED BY <1>1, <2>1, Least
  <1>3. j \in 0..N /\ k <= j /\ ~(g[k] <= g[j]) /\ j # k
    <2>1. g[k] \in Nat /\ g[k] <= g[k]
      OBVIOUS
    <2> QED BY <2>1
  <1>4. j - 1 \in 0..N /\ k <= j - 1 /\ j \in 1..N /\ j - 1 < j
    BY <1>3
  <1>5. g[j - 1] <= g[j] /\ g[k] \in Nat /\ g[j] \in Nat /\ g[j - 1] \in Nat
    BY <1>3, <1>4
  <1>6. ~(g[k] <= g[j - 1])
    BY <1>3, <1>5
  <1>7. j - 1 \in Bad
    BY <1>4, <1>6
  <1>8. j <= j - 1
    BY <1>2, <1>7
  <1> QED BY <1>4, <1>8

\* Steps from 0 on make a function.
LEMMA Recursion ==
  ASSUME NEW N \in Nat, NEW h \in [1..N -> [Nat -> Nat]]
  PROVE  \E f \in [0..N -> Nat] : f[0] = 0 /\ \A k \in 1..N : f[k] = h[k][f[k - 1]]
  <1> DEFINE Is(m, f) == f \in [0..m -> Nat] /\ f[0] = 0 /\ \A k \in 1..m : f[k] = h[k][f[k - 1]]
             Bad == {m \in 0..N : ~\E f : Is(m, f)}
  <1> SUFFICES ASSUME ~\E f : Is(N, f) PROVE FALSE
    <2>1. ASSUME NEW f, Is(N, f)
          PROVE  f \in [0..N -> Nat] /\ f[0] = 0 /\ \A k \in 1..N : f[k] = h[k][f[k - 1]]
      BY <2>1
    <2> HIDE DEF Is
    <2> QED BY <2>1
  <1>1. N \in Bad
    <2> HIDE DEF Is
    <2> QED OBVIOUS
  <1>2. PICK m \in Bad : \A n \in Bad : m <= n
    <2>1. Bad \in SUBSET Nat
      OBVIOUS
    <2> HIDE DEF Bad
    <2> QED BY <1>1, <2>1, Least
  <1>3. m \in 0..N /\ ~\E f : Is(m, f)
    OBVIOUS
  <1>4. m # 0
    <2>1. SUFFICES ASSUME m = 0 PROVE FALSE
      OBVIOUS
    <2> DEFINE f == [k \in 0..0 |-> 0]
    <2>2. Is(0, f)
      OBVIOUS
    <2> QED BY <1>3, <2>1, <2>2
  <1>5. m - 1 \in 0..N /\ m \in 1..N /\ ~(m <= m - 1)
    BY <1>3, <1>4
  <1>6. m - 1 \notin Bad
    BY <1>2, <1>5
  <1>7. PICK f : Is(m - 1, f)
    BY <1>5, <1>6
  <1> DEFINE g == [k \in 0..m |-> IF k < m THEN f[k] ELSE h[m][f[m - 1]]]
  <1>8. f \in [0..m - 1 -> Nat] /\ f[0] = 0 /\ \A k \in 1..m - 1 : f[k] = h[k][f[k - 1]]
    BY <1>7
  <1>9. f[m - 1] \in Nat /\ h[m][f[m - 1]] \in Nat
    BY <1>5, <1>8
  <1>10. \A k \in 0..m : k < m => k \in 0..m - 1
    BY <1>5
  <1>11. g \in [0..m -> Nat]
    BY <1>8, <1>9, <1>10
  <1>12. g[0] = 0
    BY <1>5, <1>8
  <1>13. \A k \in 1..m : g[k] = h[k][g[k - 1]]
    <2> SUFFICES ASSUME NEW k \in 1..m PROVE g[k] = h[k][g[k - 1]]
      OBVIOUS
    <2>1. k - 1 \in 0..m /\ k - 1 < m /\ k \in 0..m
      BY <1>5
    <2>2. g[k - 1] = f[k - 1]
      BY <2>1
    <2>3. CASE k < m
      <3>1. k \in 1..m - 1
        BY <1>5, <2>3
      <3> QED BY <1>8, <2>1, <2>2, <2>3, <3>1
    <2>4. CASE ~(k < m)
      <3>1. k = m
        BY <1>5, <2>4
      <3> QED BY <2>1, <2>2, <3>1
    <2> QED BY <2>3, <2>4
  <1>14. Is(m, g)
    BY <1>11, <1>12, <1>13
  <1> QED BY <1>3, <1>14

\* The counter of mergePage: each round takes one row, of the ops log or not.
TakesOps(a, b, k, i) ==
  /\ i < Len(a)
  /\ \/ k - 1 - i >= Len(b)
     \/ After(a[i + 1], b[k - i])

LEMMA TakenIs ==
  ASSUME NEW a, NEW b, Len(a) \in Nat, Len(b) \in Nat
  PROVE  LET N == Len(a) + Len(b)
             f == Taken(a, b)
         IN  /\ f \in [0..N -> Nat]
             /\ f[0] = 0
             /\ \A k \in 1..N : f[k] = IF TakesOps(a, b, k, f[k - 1]) THEN f[k - 1] + 1 ELSE f[k - 1]
  <1> DEFINE N == Len(a) + Len(b)
             h == [k \in 1..N |-> [i \in Nat |-> IF TakesOps(a, b, k, i) THEN i + 1 ELSE i]]
             Loop(f) == [k \in 0..N |->
                            IF k = 0 THEN 0
                            ELSE IF /\ f[k - 1] < Len(a)
                                    /\ \/ k - 1 - f[k - 1] >= Len(b)
                                       \/ After(a[f[k - 1] + 1], b[k - f[k - 1]])
                            THEN f[k - 1] + 1 ELSE f[k - 1]]
  <1>1. N \in Nat
    OBVIOUS
  <1>2. h \in [1..N -> [Nat -> Nat]] /\ \A k \in 1..N, i \in Nat : h[k][i] = IF TakesOps(a, b, k, i) THEN i + 1 ELSE i
    <2> HIDE DEF N
    <2> QED OBVIOUS
  <1>3. PICK g \in [0..N -> Nat] : g[0] = 0 /\ \A k \in 1..N : g[k] = h[k][g[k - 1]]
    <2>1. 0 \in Nat
      OBVIOUS
    <2>2. h \in [1..N -> [Nat -> Nat]]
      BY <1>2
    <2> HIDE DEF N, h
    <2>3. \E f \in [0..N -> Nat] : f[0] = 0 /\ \A k \in 1..N : f[k] = h[k][f[k - 1]]
      BY ONLY <1>1, <2>1, <2>2, Recursion
    <2> QED BY <2>3
  <1>4. ASSUME NEW f, f = Loop(f)
        PROVE  \A k \in 0..N : f[k] = IF k = 0 THEN 0
                                      ELSE IF TakesOps(a, b, k, f[k - 1]) THEN f[k - 1] + 1 ELSE f[k - 1]
    BY <1>4 DEF TakesOps
  <1>5. g = Loop(g)
    <2>1. \A k \in 1..N : k - 1 \in 0..N
      <3> HIDE DEF N
      <3> QED BY <1>1
    <2>2. \A k \in 1..N : g[k] = IF TakesOps(a, b, k, g[k - 1]) THEN g[k - 1] + 1 ELSE g[k - 1]
      <3> HIDE DEF N, h
      <3> QED BY <1>2, <1>3, <2>1
    <2>3. \A k \in 0..N : k = 0 \/ k \in 1..N
      <3> HIDE DEF N
      <3> QED BY <1>1
    <2>4. \A k \in 0..N : g[k] = Loop(g)[k]
      <3> HIDE DEF N, h
      <3> QED BY <1>3, <2>2, <2>3 DEF TakesOps
    <2> HIDE DEF N, h
    <2> QED BY <1>3, <2>4
  <1>6. PICK f : f = Taken(a, b)
    OBVIOUS
  <1>7. f = CHOOSE i : i = Loop(i)
    BY <1>6, Zenon DEF Taken
  <1>8. f = Loop(f)
    <2> HIDE DEF Loop
    <2> QED BY <1>5, <1>7
  <1>9. \A k \in 1..N : f[k] = IF TakesOps(a, b, k, f[k - 1]) THEN f[k - 1] + 1 ELSE f[k - 1]
    <2>1. \A k \in 1..N : k \in 0..N /\ k # 0
      <3> HIDE DEF N
      <3> QED BY <1>1
    <2> HIDE DEF Loop, N
    <2> QED BY <1>4, <1>8, <2>1
  <1>10. f[0] = 0
    <2>1. 0 \in 0..N
      <3> HIDE DEF N
      <3> QED BY <1>1
    <2> HIDE DEF Loop, N
    <2> QED BY <1>4, <1>8, <2>1
  <1>11. ASSUME NEW k \in 0..N
         PROVE  f[k] \in Nat
    <2> HIDE DEF N, Loop, h
    <2> DEFINE Bad == {j \in 0..N : f[j] \notin Nat}
    <2>1. SUFFICES ASSUME k \in Bad PROVE FALSE
      OBVIOUS
    <2>2. PICK j \in Bad : \A n \in Bad : j <= n
      <3>1. Bad \in SUBSET Nat
        BY <1>1
      <3> HIDE DEF Bad
      <3> QED BY <2>1, <3>1, Least
    <2>3. j \in 0..N /\ f[j] \notin Nat /\ j # 0
      BY <1>10
    <2>4. j \in 1..N /\ j - 1 \in 0..N /\ ~(j <= j - 1)
      BY <1>1, <2>3
    <2>5. f[j - 1] \in Nat
      BY <2>2, <2>4
    <2> QED BY <1>9, <2>3, <2>4, <2>5
  <1>12. f \in [0..N -> Nat]
    <2>1. f \in [0..N -> {f[k] : k \in 0..N}]
      <3>1. f = [k \in 0..N |-> f[k]]
        <4> HIDE DEF N
        <4> QED BY <1>8
      <3> HIDE DEF N, Loop
      <3> QED BY <3>1
    <2> HIDE DEF N, Loop
    <2> QED BY <1>11, <2>1
  <1> QED BY <1>6, <1>9, <1>10, <1>12

\* The counters stay in the two lists, and never step back.
LEMMA TakenFacts ==
  ASSUME NEW a, NEW b, Len(a) \in Nat, Len(b) \in Nat, NEW N, N = Len(a) + Len(b),
         NEW f, f = Taken(a, b)
  PROVE  /\ N \in Nat /\ f \in [0..N -> Nat] /\ f[0] = 0 /\ f[N] = Len(a)
         /\ \A k \in 1..N : IF TakesOps(a, b, k, f[k - 1]) THEN f[k] = f[k - 1] + 1 ELSE f[k] = f[k - 1]
         /\ \A k \in 0..N : f[k] <= Len(a) /\ f[k] <= k /\ k - f[k] <= Len(b)
         /\ \A k, l \in 0..N : k <= l => f[k] <= f[l] /\ k - f[k] <= l - f[l]
  <1>1. /\ N \in Nat /\ f \in [0..N -> Nat] /\ f[0] = 0
        /\ \A k \in 1..N : f[k] = IF TakesOps(a, b, k, f[k - 1]) THEN f[k - 1] + 1 ELSE f[k - 1]
    BY TakenIs
  <1>2. \A k \in 1..N : k - 1 \in 0..N /\ k \in 0..N /\ f[k - 1] \in Nat /\ f[k] \in Nat
    BY <1>1
  <1>3. \A k \in 1..N : f[k] = f[k - 1] + 1 \/ f[k] = f[k - 1]
    BY <1>1
  <1> DEFINE Fits(k) == f[k] <= Len(a) /\ f[k] <= k /\ k - f[k] <= Len(b)
  <1>4. ASSUME NEW k \in 1..N, Fits(k - 1)
        PROVE  Fits(k)
    <2>1. f[k - 1] <= Len(a) /\ f[k - 1] <= k - 1 /\ (k - 1) - f[k - 1] <= Len(b)
      BY <1>4
    <2>2. CASE TakesOps(a, b, k, f[k - 1])
      <3>1. f[k] = f[k - 1] + 1 /\ f[k - 1] < Len(a)
        BY <1>1, <2>2 DEF TakesOps
      <3> QED BY <1>2, <2>1, <3>1
    <2>3. CASE ~TakesOps(a, b, k, f[k - 1])
      <3>1. f[k] = f[k - 1] /\ ~(f[k - 1] < Len(a) /\ k - 1 - f[k - 1] >= Len(b))
        BY <1>1, <2>3 DEF TakesOps
      <3> QED BY <1>1, <1>2, <2>1, <3>1
    <2> QED BY <2>2, <2>3
  <1>5. ASSUME NEW k \in 0..N
        PROVE  Fits(k)
    <2> DEFINE Bad == {j \in 0..N : ~Fits(j)}
    <2>1. SUFFICES ASSUME k \in Bad PROVE FALSE
      OBVIOUS
    <2>2. PICK j \in Bad : \A n \in Bad : j <= n
      <3>1. Bad \in SUBSET Nat
        BY <1>1
      <3> HIDE DEF Bad
      <3> QED BY <2>1, <3>1, Least
    <2>3. Fits(0)
      BY <1>1
    <2>4. j \in 0..N /\ ~Fits(j) /\ j # 0
      <3> HIDE DEF Fits
      <3> QED BY <2>3
    <2>5. j \in 1..N /\ j - 1 \in 0..N /\ ~(j <= j - 1)
      BY <1>1, <2>4
    <2>6. Fits(j - 1)
      <3> HIDE DEF Fits
      <3> QED BY <2>2, <2>5
    <2> HIDE DEF Fits
    <2> QED BY <1>4, <2>4, <2>5, <2>6
  <1>6. f[N] = Len(a)
    <2>1. N \in 0..N /\ f[N] \in Nat
      BY <1>1
    <2>2. Fits(N)
      BY <1>5, <2>1
    <2> QED BY <2>1, <2>2
  <1>7. ASSUME NEW k \in 0..N, NEW l \in 0..N, k <= l
        PROVE  f[k] <= f[l] /\ k - f[k] <= l - f[l]
    <2>1. \A i \in 1..N : f[i - 1] <= f[i]
      BY <1>2, <1>3
    <2>2. f[k] <= f[l]
      BY <1>1, <1>7, <2>1, Monotone
    <2>3. PICK g : g = [i \in 0..N |-> i - f[i]]
      OBVIOUS
    <2>4. \A i \in 0..N : f[i] \in Nat /\ f[i] <= i /\ i \in Nat
      BY <1>1, <1>5
    <2>5. g \in [0..N -> Nat]
      BY <2>3, <2>4
    <2>6. \A i \in 1..N : g[i - 1] <= g[i]
      <3> SUFFICES ASSUME NEW i \in 1..N PROVE g[i - 1] <= g[i]
        OBVIOUS
      <3>1. i \in 0..N /\ i - 1 \in 0..N /\ f[i - 1] \in Nat /\ f[i] \in Nat
        BY <1>2
      <3>2. g[i] = i - f[i] /\ g[i - 1] = (i - 1) - f[i - 1]
        BY <2>3, <3>1
      <3>3. f[i] = f[i - 1] + 1 \/ f[i] = f[i - 1]
        BY <1>3
      <3> QED BY <3>1, <3>2, <3>3
    <2>7. g[k] <= g[l]
      BY <1>1, <1>7, <2>5, <2>6, Monotone
    <2> QED BY <2>2, <2>3, <2>7
  <1>8. \A k \in 0..N : f[k] <= Len(a) /\ f[k] <= k /\ k - f[k] <= Len(b)
    BY <1>5
  <1>9. \A k \in 1..N : IF TakesOps(a, b, k, f[k - 1]) THEN f[k] = f[k - 1] + 1 ELSE f[k] = f[k - 1]
    BY <1>1
  <1> QED BY <1>1, <1>6, <1>7, <1>8, <1>9

\* Merging two lists that have no item in common lists them both: what a round
\* takes is later than all that is left, and the last round leaves nothing.
LEMMA MergedLists ==
  ASSUME NEW A \in SUBSET Item, NEW B \in SUBSET Item, A \cap B = {},
         NEW a, NEW b, IsListOf(a, A), IsListOf(b, B)
  PROVE  IsListOf(Merged(a, b), A \cup B)
  <1>1. /\ Len(a) \in Nat /\ Len(b) \in Nat
        /\ \A i \in 1..Len(a) : a[i] \in A
        /\ \A i \in 1..Len(b) : b[i] \in B
        /\ \A x \in A : \E i \in 1..Len(a) : a[i] = x
        /\ \A x \in B : \E i \in 1..Len(b) : b[i] = x
        /\ \A i, j \in 1..Len(a) : i < j => After(a[i], a[j])
        /\ \A i, j \in 1..Len(b) : i < j => After(b[i], b[j])
    BY ListFacts DEF IsListOf
  <1>2. PICK N, f : N = Len(a) + Len(b) /\ f = Taken(a, b)
    OBVIOUS
  <1>3. /\ N \in Nat /\ f \in [0..N -> Nat] /\ f[0] = 0 /\ f[N] = Len(a)
        /\ \A k \in 1..N : IF TakesOps(a, b, k, f[k - 1]) THEN f[k] = f[k - 1] + 1 ELSE f[k] = f[k - 1]
        /\ \A k \in 0..N : f[k] <= Len(a) /\ f[k] <= k /\ k - f[k] <= Len(b)
        /\ \A k, l \in 0..N : k <= l => f[k] <= f[l] /\ k - f[k] <= l - f[l]
    BY <1>1, <1>2, TakenFacts
  <1>4. PICK m : m = Merged(a, b)
    OBVIOUS
  <1>5. m = [k \in 1..N |-> IF f[k] > f[k - 1] THEN a[f[k]] ELSE b[k - f[k]]]
    BY <1>2, <1>4, Zenon DEF Merged
  \* What a round takes.
  <1>6. ASSUME NEW k \in 1..N
        PROVE  /\ k - 1 \in 0..N /\ k \in 0..N /\ f[k] \in Nat /\ f[k - 1] \in Nat
               /\ \/ /\ TakesOps(a, b, k, f[k - 1]) /\ f[k] = f[k - 1] + 1
                     /\ f[k] \in 1..Len(a) /\ m[k] = a[f[k]]
                  \/ /\ ~TakesOps(a, b, k, f[k - 1]) /\ f[k] = f[k - 1]
                     /\ k - f[k] \in 1..Len(b) /\ m[k] = b[k - f[k]]
    <2>1. k - 1 \in 0..N /\ k \in 0..N
      BY <1>3
    <2>2. f[k] \in Nat /\ f[k - 1] \in Nat /\ f[k] <= Len(a) /\ k - f[k] <= Len(b) /\ f[k - 1] <= k - 1
      BY <1>3, <2>1
    <2>3. CASE TakesOps(a, b, k, f[k - 1])
      <3>1. f[k] = f[k - 1] + 1
        BY <1>3, <2>3
      <3> QED BY <1>1, <1>5, <2>1, <2>2, <2>3, <3>1
    <2>4. CASE ~TakesOps(a, b, k, f[k - 1])
      <3>1. f[k] = f[k - 1]
        BY <1>3, <2>4
      <3>2. m[k] = b[k - f[k]]
        <4>1. ~(f[k] > f[k - 1])
          BY <2>2, <3>1
        <4> QED BY <1>5, <4>1
      <3>3. k - f[k] \in 1..Len(b)
        BY <1>1, <2>1, <2>2, <3>1
      <3> QED BY <2>1, <2>2, <2>4, <3>1, <3>2, <3>3
    <2> QED BY <2>1, <2>2, <2>3, <2>4
  <1>7. m \in Seq(A \cup B) /\ Len(m) = N
    <2>1. \A k \in 1..N : m[k] \in A \cup B
      BY <1>1, <1>6
    <2>2. m \in [1..N -> A \cup B]
      BY <1>5, <2>1
    <2> QED BY <1>3, <2>2
  \* It is later than what is left of either list.
  <1>8. ASSUME NEW k \in 1..N, NEW p \in 1..Len(a), f[k] < p
        PROVE  After(m[k], a[p])
    <2>1. CASE m[k] = a[f[k]] /\ f[k] \in 1..Len(a)
      BY <1>1, <1>8, <2>1
    <2>2. CASE /\ ~TakesOps(a, b, k, f[k - 1]) /\ f[k] = f[k - 1]
               /\ k - f[k] \in 1..Len(b) /\ m[k] = b[k - f[k]]
      <3>1. f[k] \in Nat /\ f[k] + 1 \in 1..Len(a) /\ f[k] + 1 <= p
        BY <1>1, <1>6, <1>8
      <3>2. ~After(a[f[k] + 1], m[k])
        BY <1>1, <1>3, <2>2, <3>1 DEF TakesOps
      <3>3. a[f[k] + 1] \in A /\ m[k] \in B /\ a[f[k] + 1] # m[k] /\ a[p] \in A
        BY <1>1, <2>2, <3>1
      <3>4. After(m[k], a[f[k] + 1])
        BY <3>2, <3>3, AfterIsOrder
      <3>5. f[k] + 1 = p \/ After(a[f[k] + 1], a[p])
        BY <1>1, <3>1
      <3> QED BY <3>3, <3>4, <3>5, AfterIsOrder
    <2> QED BY <1>6, <2>1, <2>2
  <1>9. ASSUME NEW k \in 1..N, NEW q \in 1..Len(b), k - f[k] < q
        PROVE  After(m[k], b[q])
    <2>1. CASE m[k] = b[k - f[k]] /\ k - f[k] \in 1..Len(b)
      BY <1>1, <1>9, <2>1
    <2>2. CASE /\ TakesOps(a, b, k, f[k - 1]) /\ f[k] = f[k - 1] + 1
               /\ f[k] \in 1..Len(a) /\ m[k] = a[f[k]]
      <3> DEFINE r == k - f[k - 1]
      <3>1. f[k - 1] \in Nat /\ r = (k - f[k]) + 1 /\ k - f[k] >= 0
        BY <1>3, <1>6, <2>2
      <3>2. r \in 1..Len(b) /\ r <= q
        <4>1. k \in Nat /\ f[k] \in Nat /\ Len(b) \in Nat
          BY <1>1, <1>6
        <4>2. k - f[k] \in Nat /\ q \in 1..Len(b) /\ k - f[k] < q
          BY <1>9, <3>1, <4>1
        <4> HIDE DEF r
        <4> QED BY <3>1, <4>1, <4>2
      <3>3. After(m[k], b[r])
        BY <1>1, <1>3, <2>2, <3>1, <3>2 DEF TakesOps
      <3> HIDE DEF r
      <3>4. m[k] \in A /\ b[r] \in B /\ b[q] \in B
        BY <1>1, <2>2, <3>2
      <3>5. r = q \/ After(b[r], b[q])
        BY <1>1, <3>2
      <3> QED BY <3>3, <3>4, <3>5, AfterIsOrder
    <2> QED BY <1>6, <2>1, <2>2
  <1>10. ASSUME NEW k \in 1..N, NEW l \in 1..N, k < l
         PROVE  After(m[k], m[l])
    <2>1. l - 1 \in 0..N /\ k \in 0..N /\ k <= l - 1
      BY <1>3, <1>10
    <2>2. f[k] <= f[l - 1] /\ k - f[k] <= (l - 1) - f[l - 1]
      BY <1>3, <2>1
    <2>3. f[k] \in Nat /\ f[l] \in Nat /\ f[l - 1] \in Nat
      BY <1>6
    <2>4. CASE f[l] = f[l - 1] + 1 /\ f[l] \in 1..Len(a) /\ m[l] = a[f[l]]
      <3>1. f[k] < f[l]
        BY <2>2, <2>3, <2>4
      <3> QED BY <1>8, <2>4, <3>1
    <2>5. CASE f[l] = f[l - 1] /\ l - f[l] \in 1..Len(b) /\ m[l] = b[l - f[l]]
      <3>1. k - f[k] < l - f[l]
        BY <2>2, <2>3, <2>5
      <3> QED BY <1>9, <2>5, <3>1
    <2> QED BY <1>6, <2>4, <2>5
  \* Every row of either list is taken by some round.
  <1>11. ASSUME NEW p \in 1..Len(a)
         PROVE  \E k \in 1..N : m[k] = a[p]
    <2> DEFINE Past == {k \in 0..N : p <= f[k]}
    <2>1. N \in Past
      BY <1>1, <1>3
    <2>2. PICK k \in Past : \A n \in Past : k <= n
      <3>1. Past \in SUBSET Nat
        BY <1>3
      <3> HIDE DEF Past
      <3> QED BY <2>1, <3>1, Least
    <2>3. k \in 0..N /\ p <= f[k] /\ k # 0
      BY <1>1, <1>3
    <2>4. k \in 1..N /\ k - 1 \in 0..N /\ ~(k <= k - 1)
      BY <1>3, <2>3
    <2>5. ~(p <= f[k - 1])
      BY <2>2, <2>4
    <2>6. f[k] = p /\ m[k] = a[p]
      BY <1>1, <1>6, <2>3, <2>4, <2>5
    <2> QED BY <2>4, <2>6
  <1>12. ASSUME NEW q \in 1..Len(b)
         PROVE  \E k \in 1..N : m[k] = b[q]
    <2> DEFINE Past == {k \in 0..N : q <= k - f[k]}
    <2>1. N \in Past
      BY <1>1, <1>2, <1>3
    <2>2. PICK k \in Past : \A n \in Past : k <= n
      <3>1. Past \in SUBSET Nat
        BY <1>3
      <3> HIDE DEF Past
      <3> QED BY <2>1, <3>1, Least
    <2>3. k \in 0..N /\ q <= k - f[k] /\ k # 0
      BY <1>1, <1>3
    <2>4. k \in 1..N /\ k - 1 \in 0..N /\ ~(k <= k - 1)
      BY <1>3, <2>3
    <2>5. ~(q <= (k - 1) - f[k - 1])
      BY <2>2, <2>4
    <2>6. k - f[k] = q /\ m[k] = b[q]
      BY <1>1, <1>6, <2>3, <2>4, <2>5
    <2> QED BY <2>4, <2>6
  <1>13. \A x \in A \cup B : \E k \in 1..Len(m) : m[k] = x
    <2> SUFFICES ASSUME NEW x \in A \cup B PROVE \E k \in 1..N : m[k] = x
      BY <1>7
    <2>1. CASE x \in A
      <3>1. PICK p \in 1..Len(a) : a[p] = x
        BY <1>1, <2>1
      <3> QED BY <1>11, <3>1
    <2>2. CASE x \in B
      <3>1. PICK q \in 1..Len(b) : b[q] = x
        BY <1>1, <2>2
      <3> QED BY <1>12, <3>1
    <2> QED BY <2>1, <2>2
  <1>14. IsListOf(m, A \cup B)
    BY <1>7, <1>10, <1>13 DEF IsListOf
  <1> QED BY <1>4, <1>14

-----------------------------------------------------------------------------
\* The newest rows of a set are the first of its list.
LEMMA NewestIs ==
  ASSUME NEW S \in SUBSET Item, IsFiniteSet(S), NEW m \in Nat
  PROVE  /\ IsListOf(Newest(S, m), Top(InOrder(S), m))
         /\ Top(InOrder(S), m) \in SUBSET S
         /\ Newest(S, m) \in Seq(Item)
  <1>1. PICK s : s = InOrder(S)
    OBVIOUS
  <1>2. IsListOf(s, S)
    BY <1>1, InOrderLists
  <1>3. Len(s) \in Nat
    BY <1>2, ListFacts
  <1>4. PICK n \in Nat : n = IF m < Len(s) THEN m ELSE Len(s)
    BY <1>3
  <1>5. n <= Len(s) /\ \A i \in 1..Len(s) : i <= n <=> i <= m
    BY <1>3, <1>4
  <1>6. Top(s, n) = Top(s, m)
    BY <1>5 DEF Top
  <1>7. IsListOf(SubSeq(s, 1, n), Top(s, n)) /\ Top(s, n) \in SUBSET S
    BY <1>2, <1>5, TopLists
  <1>8. Newest(S, m) = SubSeq(s, 1, n)
    BY <1>1, <1>4 DEF Newest
  <1>9. SubSeq(s, 1, n) \in Seq(Item)
    <2>1. s \in Seq(Item)
      BY <1>2 DEF IsListOf
    <2> QED BY <1>3, <1>5, <2>1, SubSeqProperties
  <1> QED BY <1>1, <1>6, <1>7, <1>8, <1>9

\* Where a page begins and ends.
LEMMA PageBounds ==
  ASSUME NEW page \in Nat \ {0}
  PROVE  /\ (page - 1) * PageSize \in Nat /\ page * PageSize \in Nat
         /\ page * PageSize = (page - 1) * PageSize + PageSize
         /\ (page + 1 - 1) * PageSize = page * PageSize
         /\ (1 - 1) * PageSize = 0
         /\ page * PageSize # 0
  <1>1. PageSize \in Nat /\ PageSize # 0
    BY AuditAssumption
  <1>2. (page - 1) * PageSize \in Nat /\ page * PageSize \in Nat
    BY <1>1
  <1>3. page * PageSize = (page - 1) * PageSize + PageSize
    BY <1>1
  <1>4. (page + 1 - 1) * PageSize = page * PageSize /\ (1 - 1) * PageSize = 0
    BY <1>1
  <1> QED BY <1>1, <1>2, <1>3, <1>4

\* The items of a page.
LEMMA SliceIs ==
  ASSUME NEW s \in Seq(Item), NEW page \in Nat \ {0}
  PROVE  LET lo == (page - 1) * PageSize
             hi == page * PageSize
             p  == Slice(s, page)
         IN  /\ p \in Seq(Item)
             /\ Len(p) \in Nat
             /\ \A i \in 1..Len(p) : lo + i <= Len(s) /\ lo + i <= hi /\ p[i] = s[lo + i]
             /\ \A i \in 1..Len(s) : lo < i /\ i <= hi => i - lo \in 1..Len(p) /\ p[i - lo] = s[i]
             /\ Len(p) < PageSize => Len(s) <= hi
  <1>1. PICK lo, hi : lo = (page - 1) * PageSize /\ hi = page * PageSize
    OBVIOUS
  <1>2. lo \in Nat /\ hi \in Nat /\ hi = lo + PageSize /\ PageSize \in Nat /\ PageSize # 0
    BY <1>1, PageBounds, AuditAssumption
  <1>3. Len(s) \in Nat
    OBVIOUS
  <1>4. PICK e \in Nat : e = IF hi < Len(s) THEN hi ELSE Len(s)
    BY <1>2, <1>3
  <1>5. PICK p : p = SubSeq(s, lo + 1, e)
    OBVIOUS
  <1>6. Slice(s, page) = p
    BY <1>1, <1>4, <1>5 DEF Slice
  <1>7. /\ p \in Seq(Item)
        /\ Len(p) = IF lo + 1 <= e THEN e - (lo + 1) + 1 ELSE 0
        /\ \A i \in 1..e - (lo + 1) + 1 : p[i] = s[(lo + 1) + i - 1]
    <2>1. lo + 1 \in 1..Len(s) + 1 \/ lo >= Len(s)
      BY <1>2, <1>3
    <2> QED BY <1>2, <1>3, <1>4, <1>5
  <1>8. Len(p) = (IF lo < e THEN e - lo ELSE 0) /\ Len(p) \in Nat
    BY <1>2, <1>4, <1>7
  <1>9. \A i \in 1..Len(p) : lo + i <= e /\ p[i] = s[lo + i]
    <2> SUFFICES ASSUME NEW i \in 1..Len(p) PROVE lo + i <= e /\ p[i] = s[lo + i]
      OBVIOUS
    <2>1. i \in Nat /\ i \in 1..e - (lo + 1) + 1 /\ lo + i <= e
      BY <1>2, <1>4, <1>8
    <2>2. (lo + 1) + i - 1 = lo + i
      BY <1>2, <2>1
    <2> QED BY <1>7, <2>1, <2>2
  <1>10. ASSUME NEW i \in 1..Len(s), lo < i, i <= hi
         PROVE  i - lo \in 1..Len(p) /\ p[i - lo] = s[i]
    <2>1. i \in Nat /\ i <= e /\ i - lo \in Nat /\ i - lo # 0
      BY <1>2, <1>3, <1>4, <1>10
    <2>2. i - lo \in 1..Len(p) /\ lo + (i - lo) = i
      BY <1>2, <1>4, <1>8, <2>1
    <2> QED BY <1>9, <2>2
  <1>11. ASSUME Len(p) < PageSize PROVE Len(s) <= hi
    BY <1>2, <1>3, <1>4, <1>8, <1>11
  <1>12. \A i \in 1..Len(p) : lo + i <= Len(s) /\ lo + i <= hi
    <2> SUFFICES ASSUME NEW i \in 1..Len(p) PROVE lo + i <= Len(s) /\ lo + i <= hi
      OBVIOUS
    <2>1. lo + i <= e /\ i \in Nat
      BY <1>8, <1>9
    <2> QED BY <1>2, <1>3, <1>4, <2>1
  <1> QED BY <1>1, <1>6, <1>7, <1>8, <1>9, <1>10, <1>11, <1>12

\* Lists that agree up to a place have the same rows up to there.
LEMMA SameRows ==
  ASSUME NEW c \in Seq(Item), NEW d \in Seq(Item), NEW lo \in Nat, NEW e \in Nat, e <= Len(c), e <= Len(d),
         \A i \in 1..e : c[i] = d[i]
  PROVE  SubSeq(c, lo + 1, e) = SubSeq(d, lo + 1, e)
  <1>1. PICK p, q : p = SubSeq(c, lo + 1, e) /\ q = SubSeq(d, lo + 1, e)
    OBVIOUS
  <1>2. \A i \in lo + 1..e : i \in 1..e /\ c[i] \in Item /\ d[i] \in Item
    OBVIOUS
  <1>3. PICK m \in Int, n \in Int : m = lo + 1 /\ n = e
    OBVIOUS
  <1>4. /\ p \in Seq(Item) /\ Len(p) = IF m <= n THEN n - m + 1 ELSE 0
        /\ \A i \in 1..n - m + 1 : p[i] = c[m + i - 1]
    BY <1>1, <1>2, <1>3, SubSeqProperties
  <1>5. /\ q \in Seq(Item) /\ Len(q) = IF m <= n THEN n - m + 1 ELSE 0
        /\ \A i \in 1..n - m + 1 : q[i] = d[m + i - 1]
    BY <1>1, <1>2, <1>3, SubSeqProperties
  <1>6. Len(p) = Len(q) /\ Len(p) \in Nat
    BY <1>4, <1>5
  <1>7. \A i \in 1..Len(p) : p[i] = q[i]
    <2> SUFFICES ASSUME NEW i \in 1..Len(p) PROVE p[i] = q[i]
      OBVIOUS
    <2>1. i \in 1..n - m + 1 /\ m + i - 1 \in 1..e
      BY <1>3, <1>4
    <2> QED BY <1>4, <1>5, <2>1
  <1>8. p = q
    BY <1>4, <1>5, <1>6, <1>7, SeqEqual
  <1> QED BY <1>1, <1>8

\* A page merged from what it needs of two sets is that page of both.
LEMMA SamePage ==
  ASSUME NEW A \in SUBSET Item, NEW B \in SUBSET Item, IsFiniteSet(A), IsFiniteSet(B), A \cap B = {},
         NEW page \in Nat \ {0}
  PROVE  Slice(Merged(Newest(A, Need(page)), Newest(B, Need(page))), page) = Slice(InOrder(A \cup B), page)
  <1>1. PICK m, a, b, c, d :
          /\ m = Need(page) /\ a = InOrder(A) /\ b = InOrder(B) /\ c = InOrder(A \cup B)
          /\ d = Merged(Newest(A, m), Newest(B, m))
    OBVIOUS
  <1>2. m \in Nat /\ m # 0 /\ m = page * PageSize
    BY <1>1, PageBounds DEF Need
  <1>3. A \cup B \in SUBSET Item /\ IsFiniteSet(A \cup B)
    BY FS_Union
  <1>4. IsListOf(a, A) /\ IsListOf(b, B) /\ IsListOf(c, A \cup B)
    BY <1>1, <1>3, InOrderLists
  <1>5. /\ IsListOf(Newest(A, m), Top(a, m)) /\ Top(a, m) \in SUBSET A
        /\ IsListOf(Newest(B, m), Top(b, m)) /\ Top(b, m) \in SUBSET B
    BY <1>1, <1>2, NewestIs
  <1>6. IsListOf(d, Top(a, m) \cup Top(b, m)) /\ Top(a, m) \cup Top(b, m) \in SUBSET Item
    <2>1. Top(a, m) \in SUBSET Item /\ Top(b, m) \in SUBSET Item /\ Top(a, m) \cap Top(b, m) = {}
      BY <1>5
    <2> QED BY <1>1, <1>5, <2>1, MergedLists
  <1>7. /\ \A i \in 1..Len(c) : i <= m => i <= Len(d) /\ d[i] = c[i]
        /\ Len(d) <= Len(c)
    <2>1. m \in Nat
      BY <1>2
    <2>2. IsListOf(a, A) /\ IsListOf(b, B) /\ IsListOf(c, A \cup B) /\ IsListOf(d, Top(a, m) \cup Top(b, m))
      BY <1>4, <1>6
    <2> QED BY <2>1, <2>2, FirstOfBoth, Zenon
  <1>8. c \in Seq(Item) /\ d \in Seq(Item) /\ Len(c) \in Nat /\ Len(d) \in Nat
    BY <1>3, <1>4, <1>6, ListFacts DEF IsListOf
  <1>9. (IF m < Len(c) THEN m ELSE Len(c)) = (IF m < Len(d) THEN m ELSE Len(d))
    <2>1. CASE m < Len(c)
      <3>1. m \in 1..Len(c)
        BY <1>2, <1>8, <2>1
      <3>2. m <= Len(d)
        BY <1>2, <1>7, <3>1
      <3> QED BY <1>2, <1>8, <2>1, <3>2
    <2>2. CASE ~(m < Len(c)) /\ Len(c) = 0
      BY <1>2, <1>7, <1>8, <2>2
    <2>3. CASE ~(m < Len(c)) /\ Len(c) # 0
      <3>1. Len(c) \in 1..Len(c) /\ Len(c) <= m
        BY <1>2, <1>8, <2>3
      <3>2. Len(c) <= Len(d)
        BY <1>7, <3>1
      <3> QED BY <1>2, <1>7, <1>8, <2>3, <3>2
    <2> QED BY <2>1, <2>2, <2>3
  <1>10. PICK lo, e : lo = (page - 1) * PageSize /\ e = IF m < Len(c) THEN m ELSE Len(c)
    OBVIOUS
  <1>11. lo \in Nat /\ e \in Nat /\ e <= Len(c) /\ e <= m
    BY <1>2, <1>8, <1>10, PageBounds
  <1>12. SubSeq(c, lo + 1, e) = SubSeq(d, lo + 1, e)
    <2>1. \A i \in 1..e : c[i] = d[i]
      BY <1>2, <1>7, <1>8, <1>11
    <2>2. e <= Len(d)
      BY <1>2, <1>8, <1>9, <1>10
    <2> QED BY <1>8, <1>11, <2>1, <2>2, SameRows
  <1>13. Slice(c, page) = SubSeq(c, lo + 1, e) /\ Slice(d, page) = SubSeq(d, lo + 1, e)
    BY <1>2, <1>9, <1>10 DEF Slice
  <1> QED BY <1>1, <1>12, <1>13

-----------------------------------------------------------------------------
(***************************************************************************)
(* The walk, of logs that only grow.                                       *)
(***************************************************************************)
OpsOf(l, n)     == {[id |-> i, at |-> l[i].at] : i \in 1..n}
TenantOf(t, n)  == {[id |-> i + TenantIDShift, at |-> t[i]] : i \in 1..n}
Both(l, n, t, m) == OpsOf(l, n) \cup TenantOf(t, m)

Logs(l, t) ==
  /\ Len(l) \in 0..MaxLog /\ Len(t) \in 0..MaxLog
  /\ \A i \in 1..Len(l) : l[i].at \in Nat
  /\ \A i \in 1..Len(t) : t[i] \in Nat

Grown(s, t) == Len(s) <= Len(t) /\ \A i \in 1..Len(s) : t[i] = s[i]

Walk == [at : {"idle", "ops", "tenant", "shown"}, page : Nat, ops : Seq(Item), shown : Seq(Item),
         nOps : Nat, nTenant : Nat, start : SUBSET Item, seen : SUBSET Item, whole : BOOLEAN]

\* All of start is in U, and what of it is among the first m of U was seen.
SeenFirst(U, m, start, seen) ==
  /\ start \in SUBSET U
  /\ \A q \in 1..Len(InOrder(U)) : q <= m /\ InOrder(U)[q] \in start => InOrder(U)[q] \in seen

\* What was read and shown is of the logs as long as they were, and a walk has
\* seen what the pages it turned hold.
OpsRead(l, w) == w.nOps \in 0..Len(l) /\ w.ops = Newest(OpsOf(l, w.nOps), Need(w.page))

PageShown(l, t, w) ==
  /\ w.nOps \in 0..Len(l) /\ w.nTenant \in 0..Len(t)
  /\ w.shown = Slice(InOrder(Both(l, w.nOps, t, w.nTenant)), w.page)

Walking(l, t, w) ==
  /\ w \in Walk
  /\ w.at # "idle" => w.page # 0
  /\ w.at = "tenant" => OpsRead(l, w)
  /\ w.at = "shown" => PageShown(l, t, w)
  /\ w.whole =>
      /\ w.at = "ops" => SeenFirst(Both(l, Len(l), t, Len(t)), (w.page - 1) * PageSize, w.start, w.seen)
      /\ w.at = "tenant" => SeenFirst(Both(l, w.nOps, t, Len(t)), (w.page - 1) * PageSize, w.start, w.seen)
      /\ w.at = "shown" => SeenFirst(Both(l, w.nOps, t, w.nTenant), w.page * PageSize, w.start, w.seen)

\* Items have their places in the two logs, which are apart.
LEMMA BothFacts ==
  ASSUME NEW l, NEW t, Logs(l, t), NEW n \in 0..Len(l), NEW m \in 0..Len(t)
  PROVE  /\ OpsOf(l, n) \in SUBSET Item /\ IsFiniteSet(OpsOf(l, n))
         /\ TenantOf(t, m) \in SUBSET Item /\ IsFiniteSet(TenantOf(t, m))
         /\ OpsOf(l, n) \cap TenantOf(t, m) = {}
         /\ Both(l, n, t, m) \in SUBSET Item /\ IsFiniteSet(Both(l, n, t, m))
  <1>1. /\ Len(l) \in Nat /\ Len(t) \in Nat /\ n \in Nat /\ m \in Nat /\ MaxLog \in Nat /\ n <= MaxLog
        /\ \A i \in 1..n : l[i].at \in Nat
        /\ \A i \in 1..m : t[i] \in Nat
    BY AuditAssumption DEF Logs
  <1>2. IsFiniteSet(1..n) /\ IsFiniteSet(1..m)
    BY <1>1, FS_Interval
  <1>3. OpsOf(l, n) \in SUBSET Item /\ IsFiniteSet(OpsOf(l, n))
    <2>1. OpsOf(l, n) \in SUBSET Item
      BY <1>1 DEF OpsOf, Item
    <2> DEFINE f == [i \in 1..n |-> [id |-> i, at |-> l[i].at]]
    <2>2. f \in Surjection(1..n, OpsOf(l, n))
      BY DEF OpsOf, Surjection
    <2> HIDE DEF f
    <2> QED BY <1>2, <2>1, <2>2, FS_Surjection
  <1>4. TenantOf(t, m) \in SUBSET Item /\ IsFiniteSet(TenantOf(t, m))
    <2>1. TenantOf(t, m) \in SUBSET Item
      BY <1>1 DEF TenantOf, Item, TenantIDShift
    <2> DEFINE f == [i \in 1..m |-> [id |-> i + TenantIDShift, at |-> t[i]]]
    <2>2. f \in Surjection(1..m, TenantOf(t, m))
      BY DEF TenantOf, Surjection
    <2> HIDE DEF f
    <2> QED BY <1>2, <2>1, <2>2, FS_Surjection
  <1>5. OpsOf(l, n) \cap TenantOf(t, m) = {}
    <2>1. \A x \in OpsOf(l, n) : x.id <= MaxLog
      BY <1>1 DEF OpsOf
    <2>2. \A x \in TenantOf(t, m) : ~(x.id <= MaxLog)
      BY <1>1 DEF TenantOf, TenantIDShift
    <2> QED BY <2>1, <2>2
  <1>6. Both(l, n, t, m) \in SUBSET Item /\ IsFiniteSet(Both(l, n, t, m))
    BY <1>3, <1>4, FS_Union DEF Both
  <1> QED BY <1>3, <1>4, <1>5, <1>6

\* With more items, what was found is found still: no item moves up.
LEMMA FoundGrows ==
  ASSUME NEW U \in SUBSET Item, NEW V \in SUBSET Item, IsFiniteSet(U), IsFiniteSet(V), U \in SUBSET V,
         NEW m \in Nat, NEW start, NEW seen, SeenFirst(U, m, start, seen)
  PROVE  SeenFirst(V, m, start, seen)
  <1>1. PICK u, v : u = InOrder(U) /\ v = InOrder(V)
    OBVIOUS
  <1>2. IsListOf(u, U) /\ IsListOf(v, V)
    BY <1>1, InOrderLists
  <1>3. /\ start \in SUBSET U
        /\ \A q \in 1..Len(u) : q <= m /\ u[q] \in start => u[q] \in seen
    BY <1>1 DEF SeenFirst
  <1>4. ASSUME NEW q \in 1..Len(v), q <= m, v[q] \in start
        PROVE  v[q] \in seen
    <2>1. PICK p \in 1..Len(u) : u[p] = v[q]
      BY <1>2, <1>3, <1>4 DEF IsListOf
    <2>2. p <= q
      BY <1>2, <2>1, RankGrows
    <2>3. p \in Nat /\ q \in Nat
      BY <1>2, ListFacts
    <2>4. p <= m
      BY <1>4, <2>2, <2>3
    <2> QED BY <1>3, <1>4, <2>1, <2>4
  <1> QED BY <1>1, <1>3, <1>4 DEF SeenFirst

LEMMA GrownFacts ==
  ASSUME NEW l, NEW t, NEW k, NEW s, Logs(l, t), Logs(k, s), Grown(l, k), Grown(t, s)
  PROVE  /\ \A n \in 0..Len(l) : n \in 0..Len(k) /\ OpsOf(k, n) = OpsOf(l, n)
         /\ \A m \in 0..Len(t) : m \in 0..Len(s) /\ TenantOf(s, m) = TenantOf(t, m)
         /\ \A n \in 0..Len(l), m \in 0..Len(t) : \A i \in n..Len(k), j \in m..Len(s) :
                Both(l, n, t, m) \in SUBSET Both(k, i, s, j)
  <1>1. Len(l) \in Nat /\ Len(k) \in Nat /\ Len(t) \in Nat /\ Len(s) \in Nat /\ Len(l) <= Len(k) /\ Len(t) <= Len(s)
    BY DEF Logs, Grown
  <1>2. ASSUME NEW n \in 0..Len(l)
        PROVE  n \in 0..Len(k) /\ OpsOf(k, n) = OpsOf(l, n)
    <2>1. \A i \in 1..n : k[i] = l[i]
      BY <1>1 DEF Grown
    <2> QED BY <1>1, <2>1 DEF OpsOf
  <1>3. ASSUME NEW m \in 0..Len(t)
        PROVE  m \in 0..Len(s) /\ TenantOf(s, m) = TenantOf(t, m)
    <2>1. \A i \in 1..m : s[i] = t[i]
      BY <1>1 DEF Grown
    <2> QED BY <1>1, <2>1 DEF TenantOf
  <1>4. ASSUME NEW n \in 0..Len(l), NEW m \in 0..Len(t), NEW i \in n..Len(k), NEW j \in m..Len(s)
        PROVE  Both(l, n, t, m) \in SUBSET Both(k, i, s, j)
    <2>1. \A x \in 1..n : x \in 1..i
      BY <1>1
    <2>2. \A x \in 1..m : x \in 1..j
      BY <1>1
    <2>3. OpsOf(k, n) \in SUBSET OpsOf(k, i) /\ TenantOf(s, m) \in SUBSET TenantOf(s, j)
      BY <2>1, <2>2 DEF OpsOf, TenantOf
    <2> QED BY <1>2, <1>3, <2>3 DEF Both
  <1> QED BY <1>2, <1>3, <1>4

\* Rows written while the operator walks.
LEMMA WrittenKeepsWalking ==
  ASSUME NEW l, NEW t, NEW k, NEW s, NEW w, Logs(l, t), Logs(k, s), Grown(l, k), Grown(t, s), Walking(l, t, w)
  PROVE  Walking(k, s, w)
  <1>1. /\ w \in Walk
        /\ w.at # "idle" => w.page # 0
        /\ w.page \in Nat
        /\ w.at = "tenant" => OpsRead(l, w)
        /\ w.at = "shown" => PageShown(l, t, w)
    BY DEF Walking, Walk
  <1>2. /\ \A n \in 0..Len(l) : n \in 0..Len(k) /\ OpsOf(k, n) = OpsOf(l, n)
        /\ \A m \in 0..Len(t) : m \in 0..Len(s) /\ TenantOf(s, m) = TenantOf(t, m)
        /\ \A n \in 0..Len(l), m \in 0..Len(t) : \A i \in n..Len(k), j \in m..Len(s) :
               Both(l, n, t, m) \in SUBSET Both(k, i, s, j)
    BY GrownFacts
  <1>3. Len(l) \in 0..Len(l) /\ Len(t) \in 0..Len(t) /\ Len(k) \in Len(l)..Len(k) /\ Len(s) \in Len(t)..Len(s)
    BY DEF Logs, Grown
  <1>4. w.at = "tenant" => OpsRead(k, w)
    BY <1>1, <1>2 DEF OpsRead
  <1>5. w.at = "shown" => PageShown(k, s, w)
    BY <1>1, <1>2 DEF PageShown, Both
  <1>9. w.at # "idle" => (w.page - 1) * PageSize \in Nat
    <2>1. SUFFICES ASSUME w.at # "idle" PROVE (w.page - 1) * PageSize \in Nat
      OBVIOUS
    <2>2. PICK p \in Nat \ {0} : p = w.page
      BY <1>1, <2>1
    <2>3. (p - 1) * PageSize \in Nat
      BY PageBounds
    <2> QED BY <2>2, <2>3
  <1>6. ASSUME w.whole, w.at = "ops"
        PROVE  SeenFirst(Both(k, Len(k), s, Len(s)), (w.page - 1) * PageSize, w.start, w.seen)
    <2>1. PICK m \in Nat : m = (w.page - 1) * PageSize
      BY <1>6, <1>9
    <2>2. PICK U, V : U = Both(l, Len(l), t, Len(t)) /\ V = Both(k, Len(k), s, Len(s))
      OBVIOUS
    <2>3. SeenFirst(U, m, w.start, w.seen)
      BY <1>6, <2>1, <2>2 DEF Walking
    <2>4. U \in SUBSET Item /\ IsFiniteSet(U)
      BY <1>3, <2>2, BothFacts
    <2>5. V \in SUBSET Item /\ IsFiniteSet(V)
      BY <1>2, <1>3, <2>2, BothFacts DEF Logs
    <2>6. U \in SUBSET V
      BY <1>2, <1>3, <2>2
    <2>7. SeenFirst(V, m, w.start, w.seen)
      BY <2>3, <2>4, <2>5, <2>6, FoundGrows
    <2> QED BY <2>1, <2>2, <2>7
  <1>7. ASSUME w.whole, w.at = "tenant"
        PROVE  SeenFirst(Both(k, w.nOps, s, Len(s)), (w.page - 1) * PageSize, w.start, w.seen)
    <2>1. PICK m \in Nat : m = (w.page - 1) * PageSize
      BY <1>7, <1>9
    <2>2. PICK U, V : U = Both(l, w.nOps, t, Len(t)) /\ V = Both(k, w.nOps, s, Len(s))
      OBVIOUS
    <2>3. SeenFirst(U, m, w.start, w.seen)
      BY <1>7, <2>1, <2>2 DEF Walking
    <2>4. w.nOps \in 0..Len(l) /\ w.nOps \in 0..Len(k) /\ w.nOps \in w.nOps..Len(k) /\ Len(s) \in 0..Len(s)
      BY <1>1, <1>2, <1>7 DEF OpsRead, Logs
    <2>5. U \in SUBSET Item /\ IsFiniteSet(U)
      BY <1>3, <2>2, <2>4, BothFacts
    <2>6. V \in SUBSET Item /\ IsFiniteSet(V)
      BY <2>2, <2>4, BothFacts
    <2>7. U \in SUBSET V
      BY <1>2, <1>3, <2>2, <2>4
    <2>8. SeenFirst(V, m, w.start, w.seen)
      BY <2>3, <2>5, <2>6, <2>7, FoundGrows
    <2> QED BY <2>1, <2>2, <2>8
  <1>8. ASSUME w.whole, w.at = "shown"
        PROVE  SeenFirst(Both(k, w.nOps, s, w.nTenant), w.page * PageSize, w.start, w.seen)
    <2>1. Both(k, w.nOps, s, w.nTenant) = Both(l, w.nOps, t, w.nTenant)
      BY <1>1, <1>2, <1>8 DEF PageShown, Both
    <2>2. SeenFirst(Both(l, w.nOps, t, w.nTenant), w.page * PageSize, w.start, w.seen)
      BY <1>8 DEF Walking
    <2> QED BY <2>1, <2>2, Zenon
  <1> QED BY <1>1, <1>4, <1>5, <1>6, <1>7, <1>8 DEF Walking

\* The list of a set of items, and its pages, are of items.
LEMMA InOrderIsSeq ==
  ASSUME NEW U \in SUBSET Item, IsFiniteSet(U)
  PROVE  InOrder(U) \in Seq(Item)
  <1>1. PICK u : u = InOrder(U)
    OBVIOUS
  <1>2. u \in Seq(U)
    BY <1>1, InOrderLists DEF IsListOf
  <1>3. u \in Seq(Item)
    BY <1>2
  <1> QED BY <1>1, <1>3

LEMMA AsleepWalks ==
  ASSUME NEW l, NEW t
  PROVE  Asleep \in Walk /\ Walking(l, t, Asleep)
  <1>1. Asleep \in Walk
    BY DEF Asleep, Walk
  <1> QED BY <1>1 DEF Walking, Asleep

LEMMA BeginWalking ==
  ASSUME NEW l, NEW t, Logs(l, t), NEW U, U = Both(l, Len(l), t, Len(t)),
         NEW w, w = [Asleep EXCEPT !.at = "ops", !.page = 1, !.start = U]
  PROVE  Walking(l, t, w)
  <1>1. Len(l) \in 0..Len(l) /\ Len(t) \in 0..Len(t)
    BY DEF Logs
  <1>2. U \in SUBSET Item /\ IsFiniteSet(U)
    BY <1>1, BothFacts
  <1>3. w \in Walk /\ w.at = "ops" /\ w.page = 1 /\ w.start = U /\ w.seen = {}
    BY <1>2, AsleepWalks DEF Walk, Asleep
  <1>4. (w.page - 1) * PageSize = 0
    <2>1. w.page - 1 = 0
      BY <1>3
    <2>2. 0 * PageSize = 0
      BY AuditAssumption
    <2> QED BY <2>1, <2>2, Zenon
  <1>5. SeenFirst(U, 0, U, {})
    <2>1. PICK u : u = InOrder(U)
      OBVIOUS
    <2>2. \A q \in 1..Len(u) : ~(q <= 0)
      OBVIOUS
    <2> QED BY <2>1, <2>2 DEF SeenFirst
  <1>6. SeenFirst(Both(l, Len(l), t, Len(t)), (w.page - 1) * PageSize, w.start, w.seen)
    BY <1>3, <1>4, <1>5, Zenon
  <1> QED BY <1>3, <1>6 DEF Walking

LEMMA ListWalking ==
  ASSUME NEW l, NEW t, Logs(l, t), NEW v, Walking(l, t, v), v.at = "ops",
         NEW w, w = [v EXCEPT !.at = "tenant", !.nOps = Len(l), !.ops = Newest(OpsOf(l, Len(l)), Need(v.page))]
  PROVE  Walking(l, t, w)
  <1>1. v \in Walk /\ v.page # 0 /\ v.page \in Nat
    BY DEF Walking, Walk
  <1>2. Len(l) \in 0..Len(l) /\ Len(t) \in 0..Len(t) /\ Len(l) \in Nat
    BY DEF Logs
  <1>3. OpsOf(l, Len(l)) \in SUBSET Item /\ IsFiniteSet(OpsOf(l, Len(l)))
    BY <1>2, BothFacts
  <1>4. Need(v.page) \in Nat
    <2>1. PICK p \in Nat \ {0} : p = v.page
      BY <1>1
    <2>2. p * PageSize \in Nat
      BY PageBounds
    <2> QED BY <2>1, <2>2 DEF Need
  <1>5. PICK ops : ops = Newest(OpsOf(l, Len(l)), Need(v.page))
    OBVIOUS
  <1>6. ops \in Seq(Item)
    BY <1>3, <1>4, <1>5, NewestIs
  <1>7. /\ w \in Walk /\ w.at = "tenant" /\ w.nOps = Len(l) /\ w.page = v.page /\ w.ops = ops
        /\ w.start = v.start /\ w.seen = v.seen /\ w.whole = v.whole
    BY <1>1, <1>2, <1>5, <1>6 DEF Walk
  <1>8. OpsRead(l, w)
    BY <1>2, <1>5, <1>7 DEF OpsRead
  <1>9. v.whole => SeenFirst(Both(l, Len(l), t, Len(t)), (v.page - 1) * PageSize, v.start, v.seen)
    BY DEF Walking
  <1>10. w.whole => SeenFirst(Both(l, w.nOps, t, Len(t)), (w.page - 1) * PageSize, w.start, w.seen)
    BY <1>7, <1>9
  <1> QED BY <1>1, <1>7, <1>8, <1>10 DEF Walking

\* A page found and shown is a page more of what was seen.
LEMMA ShowFinds ==
  ASSUME NEW U \in SUBSET Item, IsFiniteSet(U), NEW page \in Nat \ {0}, NEW start, NEW seen,
         SeenFirst(U, (page - 1) * PageSize, start, seen),
         NEW p, p = Slice(InOrder(U), page), NEW more, more = seen \cup ToSet(p)
  PROVE  SeenFirst(U, page * PageSize, start, more)
  <1>0. PICK u : u = InOrder(U)
    OBVIOUS
  <1>1. PICK lo \in Nat, hi \in Nat : u = InOrder(U) /\ lo = (page - 1) * PageSize /\ hi = page * PageSize
    BY <1>0, PageBounds
  <1>2. u \in Seq(Item)
    BY <1>1, InOrderIsSeq
  <1>3. /\ p \in Seq(Item) /\ Len(p) \in Nat
        /\ \A i \in 1..Len(u) : lo < i /\ i <= hi => i - lo \in 1..Len(p) /\ p[i - lo] = u[i]
    BY <1>1, <1>2, SliceIs
  <1>4. start \in SUBSET U /\ \A q \in 1..Len(u) : q <= lo /\ u[q] \in start => u[q] \in seen
    BY <1>1 DEF SeenFirst
  <1>5. lo \in Nat /\ Len(u) \in Nat /\ DOMAIN p = 1..Len(p)
    BY <1>2, <1>3
  <1>6. ASSUME NEW q \in 1..Len(u), q <= hi, u[q] \in start
        PROVE  u[q] \in more
    <2>1. CASE q <= lo
      BY <1>4, <1>6, <2>1
    <2>2. CASE lo < q
      BY <1>3, <1>5, <1>6, <2>2 DEF ToSet
    <2> QED BY <1>5, <2>1, <2>2
  <1> QED BY <1>1, <1>4, <1>6 DEF SeenFirst

LEMMA ShowWalking ==
  ASSUME NEW l, NEW t, Logs(l, t), NEW v, Walking(l, t, v), v.at = "tenant",
         NEW answered \in BOOLEAN, NEW n, n = IF answered THEN Len(t) ELSE 0,
         NEW p, p = Slice(Merged(v.ops, Newest(TenantOf(t, n), Need(v.page))), v.page),
         NEW w, w = [v EXCEPT !.at = "shown", !.ops = <<>>, !.shown = p, !.nTenant = n,
                              !.seen = @ \cup ToSet(p), !.whole = @ /\ answered]
  PROVE  Walking(l, t, w)
  <1>1. v \in Walk /\ v.page # 0 /\ v.page \in Nat /\ OpsRead(l, v)
    BY DEF Walking, Walk
  <1>2. n \in 0..Len(t) /\ n \in Nat /\ Len(t) \in 0..Len(t)
    BY DEF Logs
  <1>3. PICK page \in Nat \ {0}, k \in 0..Len(l) : page = v.page /\ k = v.nOps
    BY <1>1 DEF OpsRead
  <1>4. PICK A, B, U : A = OpsOf(l, k) /\ B = TenantOf(t, n) /\ U = Both(l, k, t, n)
    OBVIOUS
  <1>5. /\ A \in SUBSET Item /\ B \in SUBSET Item /\ IsFiniteSet(A) /\ IsFiniteSet(B) /\ A \cap B = {}
        /\ U \in SUBSET Item /\ IsFiniteSet(U) /\ U = A \cup B
    BY <1>2, <1>4, BothFacts DEF Both
  <1>6. p = Slice(InOrder(U), page)
    <2>1. v.ops = Newest(A, Need(page))
      BY <1>1, <1>3, <1>4 DEF OpsRead
    <2>2. p = Slice(Merged(Newest(A, Need(page)), Newest(B, Need(page))), page)
      BY <1>3, <1>4, <2>1
    <2>3. p = Slice(InOrder(A \cup B), page)
      BY <1>5, <2>2, SamePage
    <2> QED BY <1>5, <2>3
  <1>7. p \in Seq(Item)
    <2>1. PICK u : u = InOrder(U)
      OBVIOUS
    <2>2. u \in Seq(Item)
      BY <1>5, <2>1, InOrderIsSeq
    <2> QED BY <1>6, <2>1, <2>2, SliceIs
  <1>8. PICK seen : seen = v.seen \cup ToSet(p)
    OBVIOUS
  <1>9. seen \in SUBSET Item
    <2>1. ToSet(p) \in SUBSET Item
      BY <1>7 DEF ToSet
    <2>2. v.seen \in SUBSET Item
      BY <1>1 DEF Walk
    <2> QED BY <1>8, <2>1, <2>2
  <1>10. <<>> \in Seq(Item)
    OBVIOUS
  <1>11. /\ w \in Walk /\ w.at = "shown" /\ w.nOps = k /\ w.page = page /\ w.nTenant = n /\ w.shown = p
         /\ w.start = v.start /\ w.seen = seen /\ w.whole = (v.whole /\ answered)
    <2>1. w = [v EXCEPT !.at = "shown", !.ops = <<>>, !.shown = p, !.nTenant = n,
                        !.seen = seen, !.whole = v.whole /\ answered]
      BY <1>8
    <2>2. (v.whole /\ answered) \in BOOLEAN
      OBVIOUS
    <2> QED BY <1>1, <1>2, <1>3, <1>7, <1>9, <1>10, <2>1, <2>2 DEF Walk
  <1>12. PageShown(l, t, w)
    BY <1>2, <1>4, <1>6, <1>11 DEF PageShown
  <1>13. ASSUME w.whole
         PROVE  SeenFirst(Both(l, w.nOps, t, w.nTenant), w.page * PageSize, w.start, w.seen)
    <2>1. v.whole /\ answered /\ n = Len(t)
      BY <1>11, <1>13
    <2>2. SeenFirst(Both(l, v.nOps, t, Len(t)), (v.page - 1) * PageSize, v.start, v.seen)
      BY <2>1 DEF Walking
    <2>3. SeenFirst(U, (page - 1) * PageSize, v.start, v.seen)
      BY <1>3, <1>4, <2>1, <2>2
    <2>4. PICK start, seen0 : start = v.start /\ seen0 = v.seen
      OBVIOUS
    <2>5. SeenFirst(U, (page - 1) * PageSize, start, seen0) /\ seen = seen0 \cup ToSet(p)
      BY <1>8, <2>3, <2>4
    <2>6. SeenFirst(U, page * PageSize, start, seen)
      BY <1>5, <1>6, <2>5, ShowFinds
    <2> QED BY <1>4, <1>11, <2>4, <2>6
  <1> QED BY <1>11, <1>12, <1>13 DEF Walking

LEMMA TurnWalking ==
  ASSUME NEW l, NEW t, Logs(l, t), NEW v, Walking(l, t, v), v.at = "shown",
         NEW w, w = [v EXCEPT !.at = "ops", !.page = @ + 1, !.shown = <<>>]
  PROVE  Walking(l, t, w)
  <1>1. v \in Walk /\ v.page # 0 /\ v.page \in Nat /\ PageShown(l, t, v)
    BY DEF Walking, Walk
  <1>2. PICK page \in Nat \ {0}, k \in 0..Len(l), n \in 0..Len(t) : page = v.page /\ k = v.nOps /\ n = v.nTenant
    BY <1>1 DEF PageShown
  <1>3. /\ w \in Walk /\ w.at = "ops" /\ w.page = page + 1
        /\ w.start = v.start /\ w.seen = v.seen /\ w.whole = v.whole
    <2>1. <<>> \in Seq(Item) /\ page + 1 \in Nat
      OBVIOUS
    <2>2. w = [v EXCEPT !.at = "ops", !.page = page + 1, !.shown = <<>>]
      BY <1>2
    <2> QED BY <1>1, <2>1, <2>2 DEF Walk
  <1>4. ASSUME w.whole
        PROVE  SeenFirst(Both(l, Len(l), t, Len(t)), (w.page - 1) * PageSize, w.start, w.seen)
    <2>1. PICK U, V : U = Both(l, k, t, n) /\ V = Both(l, Len(l), t, Len(t))
      OBVIOUS
    <2>2. Len(l) \in 0..Len(l) /\ Len(t) \in 0..Len(t) /\ Len(l) \in k..Len(l) /\ Len(t) \in n..Len(t)
      BY DEF Logs
    <2>3. U \in SUBSET Item /\ IsFiniteSet(U)
      BY <2>1, BothFacts
    <2>4. V \in SUBSET Item /\ IsFiniteSet(V)
      BY <2>1, <2>2, BothFacts
    <2>5. U \in SUBSET V
      <3>1. Grown(l, l) /\ Grown(t, t)
        BY DEF Grown, Logs
      <3>2. \A x \in 0..Len(l), y \in 0..Len(t) : \A i \in x..Len(l), j \in y..Len(t) :
                Both(l, x, t, y) \in SUBSET Both(l, i, t, j)
        BY <3>1, GrownFacts
      <3> QED BY <2>1, <2>2, <3>2
    <2>6. PICK m \in Nat : m = page * PageSize /\ m = (page + 1 - 1) * PageSize
      BY PageBounds
    <2>7. SeenFirst(U, m, v.start, v.seen)
      BY <1>2, <1>3, <1>4, <2>1, <2>6 DEF Walking
    <2>8. SeenFirst(V, m, v.start, v.seen)
      BY <2>3, <2>4, <2>5, <2>7, FoundGrows
    <2> QED BY <1>3, <2>1, <2>6, <2>8
  <1> QED BY <1>3, <1>4 DEF Walking

\* What the invariant says of a page shown.
LEMMA WalkingIsRight ==
  ASSUME NEW l, NEW t, Logs(l, t), NEW w, Walking(l, t, w), w.at = "shown"
  PROVE  /\ w.shown = Slice(InOrder(Both(l, w.nOps, t, w.nTenant)), w.page)
         /\ Len(w.shown) < PageSize /\ w.whole => w.start \in SUBSET w.seen
  <1>1. PageShown(l, t, w) /\ w.page # 0 /\ w.page \in Nat
    BY DEF Walking, Walk
  <1>0. PICK page \in Nat \ {0} : page = w.page
    BY <1>1
  <1>2. PICK U, u : page = w.page /\ U = Both(l, w.nOps, t, w.nTenant) /\ u = InOrder(U)
    BY <1>0
  <1>3. w.shown = Slice(u, page)
    BY <1>1, <1>2 DEF PageShown
  <1>4. U \in SUBSET Item /\ IsFiniteSet(U)
    BY <1>1, <1>2, BothFacts DEF PageShown
  <1>5. u \in Seq(Item) /\ IsListOf(u, U)
    BY <1>2, <1>4, InOrderIsSeq, InOrderLists
  <1>6. ASSUME Len(w.shown) < PageSize, w.whole, NEW x \in w.start
        PROVE  x \in w.seen
    <2>1. Len(u) <= page * PageSize
      BY <1>3, <1>5, <1>6, SliceIs
    <2>2. SeenFirst(U, page * PageSize, w.start, w.seen)
      BY <1>2, <1>6 DEF Walking
    <2>3. PICK m \in Nat : m = page * PageSize
      BY PageBounds
    <2>4. /\ w.start \in SUBSET U
          /\ \A q \in 1..Len(u) : q <= m /\ u[q] \in w.start => u[q] \in w.seen
      BY <1>2, <2>2, <2>3 DEF SeenFirst
    <2>5. PICK q \in 1..Len(u) : u[q] = x
      BY <1>5, <1>6, <2>4 DEF IsListOf
    <2>6. q <= m
      <3>1. Len(u) \in Nat
        BY <1>5
      <3> QED BY <2>1, <2>3, <3>1
    <2> QED BY <1>6, <2>4, <2>5, <2>6
  <1> QED BY <1>2, <1>3, <1>6

-----------------------------------------------------------------------------
(***************************************************************************)
(* The walk of the audit log, beside all that writes to it.                *)
(***************************************************************************)
WInv == Len(log) <= MaxLog /\ Len(tenantLog) <= MaxLog /\ Walking(log, tenantLog, walk)

LEMMA LogsAre ==
  ASSUME NEW l \in Seq(Entry), NEW t \in Seq(Time), Len(l) <= MaxLog, Len(t) <= MaxLog
  PROVE  Logs(l, t)
  <1>1. MaxLog \in Nat /\ MaxTime \in Nat /\ Len(l) \in Nat /\ Len(t) \in Nat
    BY AuditAssumption
  <1>2. \A i \in 1..Len(l) : l[i].at \in Nat
    <2>1. \A i \in 1..Len(l) : l[i] \in Entry
      OBVIOUS
    <2>2. \A x \in Entry : x.at \in Time
      BY DEF Entry
    <2>3. \A x \in Time : x \in Nat
      BY <1>1 DEF Time
    <2> QED BY <2>1, <2>2, <2>3
  <1>3. \A i \in 1..Len(t) : t[i] \in Nat
    BY <1>1 DEF Time
  <1> QED BY <1>1, <1>2, <1>3 DEF Logs

LEMMA AppendGrows ==
  ASSUME NEW S, NEW s \in Seq(S), NEW x, NEW t, t = Append(s, x)
  PROVE  Grown(s, t) /\ Grown(s, s) /\ Len(t) = Len(s) + 1 /\ Len(s) \in Nat
  <1>1. s \in Seq(S \cup {x})
    OBVIOUS
  <1>2. Len(t) = Len(s) + 1 /\ Len(s) \in Nat /\ \A i \in 1..Len(s) : t[i] = s[i]
    BY <1>1
  <1> QED BY <1>2 DEF Grown

\* What a step of the system is to the log and the walk.
AuditMoves ==
  \/ UNCHANGED auditVars
  \/ \E act, about, status : Written(act, about, status)
  \/ AuditNext

LEMMA StepMoves == [GatewayNext]_gatewayVars => AuditMoves
  <1> SUFFICES ASSUME [GatewayNext]_gatewayVars PROVE AuditMoves
    OBVIOUS
  <1>1. CASE BucketsNext
    <2>1. ASSUME NEW w \in Worker, Registering(w) \/ Policies(w) PROVE AuditMoves
      <3>1. CASE AuditRegister(w) \/ AuditPolicy(w)
        <4>1. UNCHANGED auditVars \/ Written(run[w].act, name(w), run[w].status)
          BY <3>1 DEF AuditRegister, AuditPolicy
        <4> QED BY <4>1 DEF AuditMoves
      <3>2. CASE Import(w) \/ CheckName(w) \/ HeadBucket(w) \/ Answer(w) \/ LoadBucket(w)
        <4>1. UNCHANGED auditVars
          BY <3>2 DEF Import, CheckName, HeadBucket, Answer, LoadBucket, allButLog
        <4> QED BY <4>1 DEF AuditMoves
      <3>3. CASE InsertBucket(w) \/ Enqueue(w) \/ Leave(w) \/ Inventory(w) \/ PutPolicy(w) \/ DeletePolicy(w)
        <4>1. UNCHANGED auditVars
          BY <3>3 DEF InsertBucket, Enqueue, Leave, Inventory, PutPolicy, DeletePolicy, ChangePolicy
        <4> QED BY <4>1 DEF AuditMoves
      <3> QED BY <2>1, <3>1, <3>2, <3>3 DEF Registering, Policies
    <2>2. CASE GatewayChanges
      BY <2>2 DEF GatewayChanges, AuditMoves
    <2> QED BY <1>1, <2>1, <2>2 DEF BucketsNext
  <1>2. CASE RollingNext
    <2>1. UNCHANGED auditVars \/ \E o \in Operator : Written(op[o].act, Nil, op[o].status)
      BY <1>2 DEF RollingNext, StartRestart, StartRoll, Ask, Abandon, Notice, OpsSide, MgmtSide,
                  MgmtRestarts, Receive, GiveUp, AuditOp, Forget, ListInstances, Restart, Pause, allButOp
    <2> QED BY <2>1 DEF AuditMoves
  <1>3. CASE AuditNext
    BY <1>3 DEF AuditMoves
  <1>4. CASE UNCHANGED gatewayVars
    BY <1>4 DEF gatewayVars, AuditMoves
  <1> QED BY <1>1, <1>2, <1>3, <1>4 DEF GatewayNext

LEMMA InitWInv == AuditInit => WInv
  BY AsleepWalks, AuditAssumption DEF AuditInit, WInv

LEMMA StepWInv ==
  ASSUME WInv, AuditMoves, log \in Seq(Entry), tenantLog \in Seq(Time), log' \in Seq(Entry), tenantLog' \in Seq(Time)
  PROVE  WInv'
  <1>1. PICK l, t, k, s, v, w : /\ l = log /\ t = tenantLog /\ k = log' /\ s = tenantLog'
                                /\ v = walk /\ w = walk'
    OBVIOUS
  <1>2. /\ l \in Seq(Entry) /\ t \in Seq(Time) /\ k \in Seq(Entry) /\ s \in Seq(Time)
        /\ Len(l) <= MaxLog /\ Len(t) <= MaxLog /\ Walking(l, t, v)
    BY <1>1 DEF WInv
  <1>3. Logs(l, t) /\ Grown(l, l) /\ Grown(t, t) /\ Len(l) \in Nat /\ Len(t) \in Nat /\ MaxLog \in Nat
    BY <1>2, LogsAre, AppendGrows, AuditAssumption
  <1>4. SUFFICES Len(k) <= MaxLog /\ Len(s) <= MaxLog /\ Walking(k, s, w)
    BY <1>1 DEF WInv
  <1>5. ASSUME Len(k) <= MaxLog, Len(s) <= MaxLog, Grown(l, k), Grown(t, s), w = v
        PROVE  Walking(k, s, w)
    <2>1. Logs(k, s)
      BY <1>2, <1>5, LogsAre
    <2> QED BY <1>2, <1>3, <1>5, <2>1, WrittenKeepsWalking
  <1>6. CASE UNCHANGED <<log, tenantLog, walk>>
    BY <1>1, <1>2, <1>6
  <1>7. ASSUME NEW act, NEW about, NEW status, Written(act, about, status)
        PROVE  Len(k) <= MaxLog /\ Len(s) <= MaxLog /\ Walking(k, s, w)
    <2>1. PICK x : k = Append(l, x) /\ Len(l) < MaxLog /\ s = t /\ w = v
      BY <1>1, <1>7 DEF Written, notLog
    <2>2. Grown(l, k) /\ Len(k) = Len(l) + 1
      BY <1>2, <2>1, AppendGrows
    <2>3. Len(k) <= MaxLog
      BY <1>3, <2>1, <2>2
    <2> QED BY <1>2, <1>3, <1>5, <2>1, <2>2, <2>3
  <1>8. CASE TenantWrite
    <2>1. PICK x : s = Append(t, x) /\ Len(t) < MaxLog /\ k = l /\ w = v
      BY <1>1, <1>8 DEF TenantWrite
    <2>2. Grown(t, s) /\ Len(s) = Len(t) + 1
      BY <1>2, <2>1, AppendGrows
    <2>3. Len(s) <= MaxLog
      BY <1>3, <2>1, <2>2
    <2> QED BY <1>2, <1>3, <1>5, <2>1, <2>2, <2>3
  <1>9. \A n : OpsItems(n) = OpsOf(l, n) /\ TenantItems(n) = TenantOf(t, n)
    BY <1>1 DEF OpsItems, TenantItems, OpsOf, TenantOf
  <1>10. ASSUME k = l, s = t, Walking(l, t, w)
         PROVE  Len(k) <= MaxLog /\ Len(s) <= MaxLog /\ Walking(k, s, w)
    BY <1>2, <1>10
  <1>11. CASE BeginWalk
    <2>1. Items = Both(l, Len(l), t, Len(t))
      BY <1>1, <1>9 DEF Items, Both
    <2>2. w = [Asleep EXCEPT !.at = "ops", !.page = 1, !.start = Both(l, Len(l), t, Len(t))] /\ k = l /\ s = t
      BY <1>1, <1>11, <2>1 DEF BeginWalk
    <2>3. Walking(l, t, w)
      BY <1>3, <2>2, BeginWalking
    <2> QED BY <1>10, <2>2, <2>3
  <1>12. CASE ListOps
    <2>1. /\ v.at = "ops" /\ k = l /\ s = t
          /\ \/ w = [v EXCEPT !.at = "tenant", !.nOps = Len(l),
                              !.ops = Newest(OpsOf(l, Len(l)), Need(v.page))]
             \/ w = Asleep
      BY <1>1, <1>9, <1>12 DEF ListOps
    <2>2. Walking(l, t, w)
      BY <1>2, <1>3, <2>1, ListWalking, AsleepWalks
    <2> QED BY <1>10, <2>1, <2>2
  <1>13. CASE Show
    <2>1. v.at = "tenant" /\ k = l /\ s = t
      BY <1>1, <1>13 DEF Show
    <2>2. ASSUME NEW answered \in BOOLEAN, NEW n, NEW p,
                 n = IF answered THEN Len(t) ELSE 0,
                 p = Slice(Merged(v.ops, Newest(TenantOf(t, n), Need(v.page))), v.page),
                 w = [v EXCEPT !.at = "shown", !.ops = <<>>, !.shown = p, !.nTenant = n,
                               !.seen = @ \cup ToSet(p), !.whole = @ /\ answered]
          PROVE  Walking(l, t, w)
      BY <1>2, <1>3, <2>1, <2>2, ShowWalking
    <2>3. PICK answered \in BOOLEAN :
            LET n == IF answered THEN Len(t) ELSE 0
                p == Slice(Merged(v.ops, Newest(TenantOf(t, n), Need(v.page))), v.page)
            IN  w = [v EXCEPT !.at = "shown", !.ops = <<>>, !.shown = p, !.nTenant = n,
                              !.seen = @ \cup ToSet(p), !.whole = @ /\ answered]
      BY <1>1, <1>9, <1>13, Zenon DEF Show
    <2>4. Walking(l, t, w)
      BY <2>2, <2>3
    <2> QED BY <1>10, <2>1, <2>4
  <1>14. CASE Turn
    <2>1. v.at = "shown" /\ w = [v EXCEPT !.at = "ops", !.page = @ + 1, !.shown = <<>>] /\ k = l /\ s = t
      BY <1>1, <1>14 DEF Turn
    <2>2. Walking(l, t, w)
      BY <1>2, <1>3, <2>1, TurnWalking
    <2> QED BY <1>10, <2>1, <2>2
  <1>15. CASE Close
    <2>1. w = Asleep /\ k = l /\ s = t
      BY <1>1, <1>15 DEF Close
    <2> QED BY <1>10, <2>1, AsleepWalks
  <1>16. CASE UNCHANGED auditVars
    BY <1>6, <1>16 DEF auditVars
  <1>17. CASE Tick
    BY <1>6, <1>17 DEF Tick
  <1>18. CASE OtherWrite
    BY <1>7, <1>18 DEF OtherWrite
  <1> QED BY <1>7, <1>8, <1>11, <1>12, <1>13, <1>14, <1>15, <1>16, <1>17, <1>18 DEF AuditMoves, AuditNext

-----------------------------------------------------------------------------
(***************************************************************************)
(* Theorems                                                                *)
(***************************************************************************)
\* The five invariants hold, whatever requests, restarts and walks overlap.
THEOREM GatewayInvariance == GatewaySpec => [](BInv /\ CInv /\ RInv /\ TInv /\ WInv)
  <1>1. GatewayInit => BInv /\ CInv /\ RInv /\ TInv /\ WInv
    BY InitBInv, InitCInv, InitRInv, InitTInv, InitWInv DEF GatewayInit
  <1>2. BInv /\ CInv /\ RInv /\ TInv /\ WInv /\ [GatewayNext]_gatewayVars
          => (BInv /\ CInv /\ RInv /\ TInv /\ WInv)'
    <2> SUFFICES ASSUME BInv, CInv, RInv, TInv, WInv, [GatewayNext]_gatewayVars
                 PROVE  (BInv /\ CInv /\ RInv /\ TInv /\ WInv)'
      OBVIOUS
    <2>1. BInv' /\ CInv' /\ RInv' /\ TInv'
      BY StepGateway, StepAudited
    <2>2. log \in Seq(Entry) /\ tenantLog \in Seq(Time)
      BY DEF BInv, BucketsShapes, CInv, Kinds
    <2>3. log' \in Seq(Entry) /\ tenantLog' \in Seq(Time)
      BY <2>1 DEF BInv, BucketsShapes, CInv, Kinds
    <2>4. WInv'
      BY <2>2, <2>3, StepMoves, StepWInv
    <2> QED BY <2>1, <2>4
  <1> QED BY <1>1, <1>2, PTL DEF GatewaySpec

\* The values the variables take: a request has something to write exactly when
\* it is about to, an operation something to restart exactly while the management
\* API is at it, and an answer exactly when that is over.
THEOREM GatewayTypeCorrect == GatewaySpec => []GatewayTypeOK
  <1>1. ASSUME BInv, CInv, RInv, TInv PROVE GatewayTypeOK
    <2>1. /\ registry \subseteq Name \ BadName
          /\ gateway \subseteq Name \ BadName
          /\ jobs \subseteq registry
          /\ lost \subseteq Name
          /\ policy \in [Name -> Policy \cup {Nil}]
          /\ tenantLog \in Seq(Time)
      BY <1>1 DEF BInv, BucketsShapes, CInv, Kinds
    <2>2. log \in Seq([act : Actions, about : Name \cup {Nil}, status : Statuses, at : Time])
      BY <1>1 DEF BInv, BucketsShapes, Entry
    <2>3. ASSUME NEW w \in Worker
          PROVE  /\ pc[w] \in {"idle", "name", "head", "insert", "audit", "enqueue", "policy", "done"}
                 /\ pc[w] = "audit" <=> run[w].act \in Actions
                 /\ pc[w] \in {"head", "insert", "audit", "enqueue", "policy"} => run[w].todo # <<>>
      <3>1. pc[w] \in Places /\ About(pc[w], run[w]) /\ Fitting(pc[w], run[w])
        BY <1>1 DEF BInv, BucketsShapes, CInv, Kinds
      <3>2. Nil \notin Actions
        BY BucketsAssumption, RollingAssumption DEF Actions
      <3> QED BY <3>1, <3>2 DEF Places, About, Fitting
    <2>4. ASSUME NEW o \in Operator
          PROVE  /\ op[o].at \in {"idle", "sent", "audit", "answered"}
                 /\ op[o].srv \in {"none", "list", "command", "wait", "over"}
                 /\ op[o].srv \in {"command", "wait"} <=> op[o].todo # <<>>
                 /\ op[o].srv = "over" <=> op[o].reply # Nil
      BY <1>1 DEF RInv, TInv, Good, Coherent, Honest, Timed, Operation
    <2> QED BY <2>1, <2>2, <2>3, <2>4 DEF GatewayTypeOK
  <1> QED BY <1>1, GatewayInvariance, PTL

\* With any number of requests, names and operations, a bucket is registered,
\* reported and audited once (internal/buckets/handler.go:225).
THEOREM BucketsAreRegisteredOnce == GatewaySpec => []RegisteredOnce
  <1>1. BInv => RegisteredOnce
    <2> SUFFICES ASSUME BInv, NEW n \in Name
                 PROVE  /\ credit[n] <= 1
                        /\ Rows("bucket_register", n, "success") <= 1
                        /\ (\/ credit[n] = 1 \/ Rows("bucket_register", n, "success") = 1
                            \/ n \in jobs) => n \in registry
      BY DEF RegisteredOnce
    <2>1. Once(n) /\ jobs \subseteq registry
      BY DEF BInv, BucketsShapes
    <2> QED BY <2>1 DEF Once, Entries
  <1> QED BY <1>1, GatewayInvariance, PTL

\* With any number of requests and names, and however clients leave and calls
\* fail, a registered bucket and each change of a policy have an entry of their
\* own, or a request about to write it, unless one was lost
\* (internal/buckets/handler.go:225).
THEOREM EveryChangeIsAudited == GatewaySpec => []ChangesAreAudited
  <1>1. ASSUME BInv, CInv PROVE ChangesAreAudited
    <2> DEFINE under(n, act, status) == {w \in Worker : /\ pc[w] = "audit"
                                                       /\ name(w) = n
                                                       /\ run[w].act = act
                                                       /\ run[w].status \in status}
    <2>1. ASSUME NEW n \in Name \ lost
          PROVE  /\ n \in registry => \/ Rows("bucket_register", n, "success") = 1
                                      \/ under(n, "bucket_register", {"success"}) # {}
                 /\ changes[n] <= Rows("modify_bucket_policy", n, "success")
                                  + Rows("modify_bucket_policy", n, "failure")
                                  + Cardinality(under(n, "modify_bucket_policy", {"success", "failure"}))
      <3>1. Audited(n)
        BY <1>1 DEF CInv
      <3>2. \A w \in Worker : Entering(w, n) => w \in under(n, "bucket_register", {"success"})
        BY DEF Entering
      <3>3. Changing(n) = under(n, "modify_bucket_policy", {"success", "failure"})
        BY DEF Changing, Statuses
      <3> HIDE DEF under
      <3> QED BY <3>1, <3>2, <3>3 DEF Audited, Entries, PolicyEntries
    <2> QED BY <2>1 DEF ChangesAreAudited
  <1> QED BY <1>1, GatewayInvariance, PTL

\* With any number of gateways and operators, what a restart reports and audits
\* is what it did, whatever fails, times out or is cancelled
\* (cmd/ceph-mgmt/cli.go:135).
THEOREM RollsAreHonest == GatewaySpec => []RollIsHonest
  BY GatewayInvariance, RInvIsHonest, PTL

\* For any list of gateways, pause and limit, a roll that is reported as done made
\* all its pauses in the time the ops API waits (internal/ceph/handler.go:185).
THEOREM ReportedRollsAreShort == GatewaySpec => []OkRollsAreShort
  <1>1. TInv => OkRollsAreShort
    BY DEF TInv, Timed, Fit, OkRollsAreShort
  <1> QED BY <1>1, GatewayInvariance, PTL

\* With pages of any size and logs of any length, a page merged from the first
\* rows of each log is that page of both (internal/audit/merge.go:33).
THEOREM PagesAreRight == GatewaySpec => []PageIsRight
  <1>1. ASSUME BInv, CInv, WInv PROVE PageIsRight
    <2>1. log \in Seq(Entry) /\ tenantLog \in Seq(Time)
      BY <1>1 DEF BInv, BucketsShapes, CInv, Kinds
    <2>2. Logs(log, tenantLog)
      BY <1>1, <2>1, LogsAre DEF WInv
    <2>3. walk.at = "shown" =>
            walk.shown = Slice(InOrder(Both(log, walk.nOps, tenantLog, walk.nTenant)), walk.page)
      BY <1>1, <2>2, WalkingIsRight DEF WInv
    <2>4. Both(log, walk.nOps, tenantLog, walk.nTenant) = OpsItems(walk.nOps) \cup TenantItems(walk.nTenant)
      BY DEF Both, OpsOf, TenantOf, OpsItems, TenantItems
    <2> QED BY <2>3, <2>4 DEF PageIsRight
  <1> QED BY <1>1, GatewayInvariance, PTL

\* However long the walk and whatever is written meanwhile, a walk to the last
\* page, on which the tenant API always answered, has shown every entry that was
\* there when it began (internal/audit/handler.go:49).
THEOREM WalksFindAll == GatewaySpec => []WalkFindsAll
  <1>1. ASSUME BInv, CInv, WInv PROVE WalkFindsAll
    <2>1. log \in Seq(Entry) /\ tenantLog \in Seq(Time)
      BY <1>1 DEF BInv, BucketsShapes, CInv, Kinds
    <2>2. Logs(log, tenantLog)
      BY <1>1, <2>1, LogsAre DEF WInv
    <2> QED BY <1>1, <2>2, WalkingIsRight DEF WInv, WalkFindsAll
  <1> QED BY <1>1, GatewayInvariance, PTL
=============================================================================
