-------------------------- MODULE ApiMailboxProofs ---------------------------
(***************************************************************************)
(* What holds of the token providers, the calls and the watchers of the    *)
(* HTTP mailboxes, for every set of calls, every size of a page and any    *)
(* number of messages, faults and tokens.                                  *)
(***************************************************************************)
EXTENDS ApiMailbox, Integers, FiniteSetTheorems, TLAPS

-----------------------------------------------------------------------------
(* The inductive invariant.                                                *)

TokType == [access : Nat, fresh : BOOLEAN, grant : Nat, presented : Nat,
            inflight : {"none", "asking", "telling"}]
SrvType == [live : SUBSET Nat, issued : Nat, grant : Nat, lost : BOOLEAN, forgotten : 0..MaxMail]
ReqType == [at : {"none", "token", "sent"}, retry : BOOLEAN, token : Nat, rejected : Nat]
CallType == [at : {"new", "busy", "ok", "failed"}, step : 1..2, performed : [1..2 -> 0..2]]
WatchType == [at : {"idle", "busy"}, stopped : BOOLEAN, known : BOOLEAN, base : Nat, from : Nat,
              cursor : Nat, ids : SUBSET Mails, seen : SUBSET Mails, forgot : SUBSET Mails,
              count : [Mails -> Nat]]

Types ==
  /\ setup \in Setups
  /\ tok \in TokType /\ srv \in SrvType
  /\ req \in [Actors -> ReqType] /\ call \in [Users -> CallType]
  /\ watch \in WatchType
  /\ mail \in Seq(0..MaxTicks) /\ Len(mail) <= MaxMail
  /\ clock \in 0..MaxTicks

\* Tokens are known by the numbers under which they were issued.
Numbered ==
  /\ srv.live \subseteq 1..srv.issued /\ tok.access <= srv.issued
  /\ \A a \in Actors : req[a].token <= srv.issued /\ req[a].rejected <= srv.issued

\* A request r that was rejected waits for, and is sent with, another token; the
\* provider has the access token t.
Retried(r, t) ==
  r.retry =>
    /\ r.at = "sent" => r.token = 0 \/ r.token # r.rejected
    /\ r.at = "token" /\ Renews => t = 0 \/ t # r.rejected

\* The refresh token that is kept is the last one, and only createTokenProvider
\* makes those wait whose token is there.
Granted ==
  /\ tok.grant = srv.grant \/ srv.lost
  /\ tok.inflight = "telling" => Renews

Tokens == Numbered /\ Granted /\ \A a \in Actors : Retried(req[a], tok.access)

\* A call c has performed the steps before the one it is at, and asks for nothing
\* once it has ended.
CallSound(c, asks) ==
  /\ asks => c.at = "busy"
  /\ c.at = "new" => c.step = 1
  /\ c.at \in {"new", "busy"} => c.performed[c.step] = 0
  /\ c.step = 1 => c.performed[2] = 0
  /\ c.performed[1] <= 1 /\ c.performed[2] <= 1
  /\ c.step = 2 /\ setup.call = "change" => c.performed[1] = 1
  /\ c.at = "ok" => c.step = 2 /\ c.performed[2] = 1

Calls == \A u \in Users : CallSound(call[u], req[u].at # "none")

\* A watcher v of GmailMailbox, of n messages so far, has counted those up to its
\* base, and a check those from there to its cursor.
GmailWatch(v, n) ==
  /\ v.base <= n
  /\ v.known => v.from <= v.base
  /\ v.at = "busy" => /\ v.base <= v.cursor /\ v.cursor <= n
                      /\ v.ids = (v.base + 1)..v.cursor
  /\ \A m \in Mails : v.count[m] <= 1 /\ (v.count[m] > 0 => m <= v.base)
  /\ v.known /\ ~v.stopped =>
       \A m \in Mails : v.from < m /\ m <= v.base => v.count[m] > 0

\* Mail s comes in the order of its times, up to t.
InOrder(s, t) ==
  /\ \A m, n \in 1..Len(s) : m <= n => s[m] <= s[n]
  /\ \A m \in 1..Len(s) : s[m] <= t

\* A watcher v of GraphMailbox has counted the ids it remembers, and all before its base.
GraphWatch(v, s, t) ==
  /\ v.base <= t
  /\ \A m \in Mails : /\ v.count[m] > 0 => m \in v.seen \cup v.forgot
                      /\ v.count[m] > 1 => m \in v.forgot
                      /\ m \in v.seen /\ ~v.stopped => v.count[m] > 0
  /\ v.known /\ ~v.stopped =>
       \A m \in 1..Len(s) : v.from <= s[m] /\ s[m] < v.base => v.count[m] > 0

Watched ==
  /\ watch.at = "idle" => watch.ids = {} /\ req[Watcher].at = "none"
  /\ Gmail => GmailWatch(watch, Len(mail))
  /\ ~Gmail => InOrder(mail, clock) /\ GraphWatch(watch, mail, clock)

Inv == Types /\ Tokens /\ Calls /\ Watched

-----------------------------------------------------------------------------
(* Requests and tokens.                                                    *)

LEMMA NoRequestType ==
  NoRequest \in ReqType /\ NoRequest.at = "none" /\ ~NoRequest.retry
  /\ NoRequest.token = 0 /\ NoRequest.rejected = 0
BY DEF NoRequest, ReqType

\* What the steps of requests and tokens need of the state, and keep.
Asking == /\ setup \in Setups /\ tok \in TokType /\ srv \in SrvType
          /\ req \in [Actors -> ReqType] /\ Tokens

\* The provider is asked for a token for the request r of a.
LEMMA GetTokenKept ==
  ASSUME Asking, NEW a \in Actors, NEW r \in ReqType, NEW invalid \in BOOLEAN,
         r.retry => invalid, r.token <= srv.issued, r.rejected <= srv.issued,
         GetToken(a, r, invalid), UNCHANGED <<setup, srv>>
  PROVE  /\ Asking' /\ req'[a].at # "none"
         /\ \A b \in Actors \ {a} : req'[b] = req[b]
<1>1. /\ tok \in TokType /\ srv \in SrvType /\ req \in [Actors -> ReqType]
      /\ Numbered /\ Granted /\ \A b \in Actors : Retried(req[b], tok.access)
  BY DEF Asking, Tokens
<1>2. tok.access \in Nat /\ srv.issued \in Nat
  BY <1>1 DEF TokType, SrvType
<1>3. CASE ~invalid /\ tok.access # 0 /\ tok.fresh
  <2> DEFINE s == [r EXCEPT !.at = "sent", !.token = tok.access]
  <2>1. req' = [req EXCEPT ![a] = s] /\ tok' = tok
    BY <1>3 DEF GetToken
  <2>2. /\ s \in ReqType /\ s.at = "sent" /\ s.token = tok.access
        /\ s.rejected = r.rejected /\ s.retry = r.retry
    BY <1>2 DEF ReqType
  <2> HIDE DEF s
  <2>3. /\ req' \in [Actors -> ReqType] /\ req'[a] = s
        /\ \A b \in Actors \ {a} : req'[b] = req[b]
    BY <2>1, <2>2, <1>1
  <2>4. Retried(s, tok.access)
    BY <2>2, <1>3 DEF Retried
  <2>5. Numbered'
    BY <2>1, <2>2, <2>3, <1>1 DEF Numbered
  <2>6. (\A b \in Actors : Retried(req[b], tok.access))'
    BY <2>1, <2>3, <2>4, <1>1 DEF Retried, Renews
  <2> QED BY <2>1, <2>2, <2>3, <2>5, <2>6, <1>1 DEF Asking, Tokens, Granted, Renews
<1>4. CASE ~(~invalid /\ tok.access # 0 /\ tok.fresh)
  <2> DEFINE s == [r EXCEPT !.at = "token"]
             t == [tok EXCEPT !.access = IF invalid /\ Renews THEN 0 ELSE tok.access,
                              !.inflight = IF tok.inflight = "none" THEN "asking" ELSE tok.inflight,
                              !.presented = IF tok.inflight = "none" THEN tok.grant ELSE tok.presented]
  <2>1. req' = [req EXCEPT ![a] = s] /\ tok' = t
    BY <1>4, <1>1 DEF GetToken, TokType
  <2>2. /\ s \in ReqType /\ s.at = "token" /\ s.token = r.token
        /\ s.rejected = r.rejected /\ s.retry = r.retry
    BY DEF ReqType
  <2>3. /\ t \in TokType /\ t.access = IF invalid /\ Renews THEN 0 ELSE tok.access
        /\ t.grant = tok.grant
        /\ t.inflight = "telling" => tok.inflight = "telling"
    BY <1>1 DEF TokType
  <2> HIDE DEF s, t
  <2>4. /\ req' \in [Actors -> ReqType] /\ req'[a] = s
        /\ \A b \in Actors \ {a} : req'[b] = req[b]
    BY <2>1, <2>2, <1>1
  <2>5. Retried(s, t.access)
    BY <2>2, <2>3 DEF Retried
  <2>6. Numbered'
    BY <2>1, <2>2, <2>3, <2>4, <1>1, <1>2 DEF Numbered
  <2>7. (\A b \in Actors : Retried(req[b], tok.access))'
    BY <2>1, <2>3, <2>4, <2>5, <1>1 DEF Retried, Renews
  <2>8. Granted'
    BY <2>1, <2>3, <1>1 DEF Granted, Renews
  <2> QED BY <2>1, <2>2, <2>3, <2>4, <2>6, <2>7, <2>8 DEF Asking, Tokens
<1> QED BY <1>3, <1>4
\* Requests end, and what the provider and the server know goes on.
LEMMA AskingEnds ==
  ASSUME Asking, UNCHANGED setup, tok' \in TokType, srv' \in SrvType,
         tok'.access = tok.access, tok'.inflight \in {tok.inflight, "none"},
         srv.issued <= srv'.issued, srv'.live \subseteq 1..srv'.issued,
         tok'.grant = srv'.grant \/ srv'.lost,
         req' \in [Actors -> ReqType],
         \A a \in Actors : req'[a] \in {req[a], NoRequest}
  PROVE  Asking'
<1>1. /\ Numbered /\ Granted /\ \A a \in Actors : Retried(req[a], tok.access)
      /\ tok \in TokType /\ srv \in SrvType /\ req \in [Actors -> ReqType] /\ setup \in Setups
  BY DEF Asking, Tokens
<1>2. tok.access \in Nat /\ srv.issued \in Nat /\ srv'.issued \in Nat
  BY <1>1 DEF TokType, SrvType
<1>3. Numbered'
  <2>1. tok'.access <= srv'.issued
    BY <1>1, <1>2 DEF Numbered
  <2>2. ASSUME NEW a \in Actors
        PROVE  req'[a].token <= srv'.issued /\ req'[a].rejected <= srv'.issued
    <3>1. req[a].token \in Nat /\ req[a].rejected \in Nat
      BY <1>1 DEF ReqType
    <3>2. req[a].token <= srv.issued /\ req[a].rejected <= srv.issued
      BY <1>1 DEF Numbered
    <3> QED BY <3>1, <3>2, <1>2, NoRequestType
  <2> QED BY <2>1, <2>2 DEF Numbered
<1>4. Granted'
  BY <1>1 DEF Granted, Renews
<1>5. (\A a \in Actors : Retried(req[a], tok.access))'
  BY <1>1, NoRequestType DEF Retried, Renews
<1> QED BY <1>1, <1>3, <1>4, <1>5 DEF Asking, Tokens

\* A token is there for everyone who waits: it is new, or it is the one the provider has.
LEMMA ResolveKept ==
  ASSUME Asking, UNCHANGED setup, tok' \in TokType, srv' \in SrvType, NEW token \in Nat,
         Resolve(token), token <= srv'.issued, tok'.access <= srv'.issued,
         \/ token > srv.issued
         \/ Renews /\ token = tok.access,
         srv.issued <= srv'.issued, srv'.live \subseteq 1..srv'.issued,
         tok'.grant = srv'.grant \/ srv'.lost, tok'.inflight = "none"
  PROVE  /\ Asking'
         /\ \A a \in Actors : req'[a].at # "none" => req[a].at # "none"
<1>1. /\ Numbered /\ Granted /\ \A a \in Actors : Retried(req[a], tok.access)
      /\ tok \in TokType /\ srv \in SrvType /\ req \in [Actors -> ReqType] /\ setup \in Setups
  BY DEF Asking, Tokens
<1>2. srv.issued \in Nat /\ srv'.issued \in Nat
  BY <1>1 DEF SrvType
<1> DEFINE s(a) == [req[a] EXCEPT !.at = "sent", !.token = token]
<1>3. req' = [a \in Actors |-> IF a \in Waiting THEN s(a) ELSE req[a]]
  BY DEF Resolve
<1>4. \A a \in Actors : /\ s(a) \in ReqType /\ s(a).at = "sent" /\ s(a).token = token
                        /\ s(a).rejected = req[a].rejected /\ s(a).retry = req[a].retry
  BY <1>1 DEF ReqType
<1> HIDE DEF s
<1>5. req' \in [Actors -> ReqType]
  BY <1>1, <1>3, <1>4
<1>6. \A a \in Actors : req[a].rejected <= srv.issued /\ req[a].token <= srv.issued
                        /\ req[a].rejected \in Nat /\ req[a].token \in Nat
  BY <1>1 DEF Numbered, ReqType
<1>7. ASSUME NEW a \in Actors
      PROVE  /\ req'[a].token <= srv'.issued /\ req'[a].rejected <= srv'.issued
             /\ Retried(req'[a], tok'.access)
             /\ req'[a].at # "none" => req[a].at # "none"
  <2>1. CASE a \in Waiting
    <3>1. req'[a] = s(a) /\ req[a].at = "token"
      BY <2>1, <1>3 DEF Waiting
    <3>2. req[a].retry => token = 0 \/ token # req[a].rejected
      BY <3>1, <1>1, <1>2, <1>6 DEF Retried
    <3>3. req[a].rejected <= srv'.issued
      BY <1>2, <1>6
    <3> QED BY <3>1, <3>2, <3>3, <1>4 DEF Retried
  <2>2. CASE a \notin Waiting
    <3>1. req'[a] = req[a] /\ req[a].at # "token"
      BY <2>2, <1>3 DEF Waiting
    <3>2. Retried(req[a], tok.access)
      BY <1>1
    <3> QED BY <3>1, <3>2, <1>2, <1>6 DEF Retried
  <2> QED BY <2>1, <2>2
<1>8. Numbered'
  BY <1>7 DEF Numbered
<1>9. Granted'
  BY DEF Granted
<1>10. (\A a \in Actors : Retried(req[a], tok.access))'
  BY <1>7 DEF Retried, Renews
<1> QED BY <1>1, <1>5, <1>7, <1>8, <1>9, <1>10 DEF Asking, Tokens

-----------------------------------------------------------------------------
(* Calls and the watcher.                                                  *)

\* A call goes on as it was, or fails.
LEMMA CallsKept ==
  ASSUME call \in [Users -> CallType], Calls, UNCHANGED setup,
         call' = call \/ \E who : CallsFailed(who),
         \A u \in Users :
           \/ call'[u] = call[u] /\ (req'[u].at # "none" => req[u].at # "none")
           \/ call'[u] = [call[u] EXCEPT !.at = "failed"] /\ req'[u].at = "none"
  PROVE  call' \in [Users -> CallType] /\ Calls'
<1>1. ASSUME NEW u \in Users
      PROVE  call'[u] \in CallType /\ CallSound(call'[u], req'[u].at # "none")
  <2>1. call[u] \in CallType /\ CallSound(call[u], req[u].at # "none")
    BY DEF Calls
  <2>2. CASE call'[u] = call[u] /\ (req'[u].at # "none" => req[u].at # "none")
    BY <2>1, <2>2 DEF CallSound
  <2>3. CASE call'[u] = [call[u] EXCEPT !.at = "failed"] /\ req'[u].at = "none"
    <3> DEFINE c == [call[u] EXCEPT !.at = "failed"]
    <3>1. c \in CallType /\ c.at = "failed" /\ c.step = call[u].step /\ c.performed = call[u].performed
      BY <2>1 DEF CallType
    <3> HIDE DEF c
    <3>2. CallSound(c, FALSE)
      BY <3>1, <2>1 DEF CallSound
    <3>3. call'[u] = c
      BY <2>3 DEF c
    <3> QED BY <3>1, <3>2, <3>3, <2>3 DEF CallSound
  <2> QED BY <2>2, <2>3
<1>2. call' = [u \in Users |-> call'[u]]
  BY DEF CallsFailed
<1>3. call' \in [Users -> CallType]
  BY <1>1, <1>2
<1>4. Calls'
  BY <1>1 DEF Calls, CallSound
<1> QED BY <1>3, <1>4

\* The watcher goes on as it was, or its check has failed.
LEMMA WatchedKept ==
  ASSUME watch \in WatchType, Watched, UNCHANGED <<setup, mail, clock>>,
         \/ watch' = watch /\ (req'[Watcher].at # "none" => req[Watcher].at # "none")
         \/ watch' = CheckEnds /\ req'[Watcher].at = "none"
  PROVE  watch' \in WatchType /\ Watched'
<1>1. CASE watch' = watch /\ (req'[Watcher].at # "none" => req[Watcher].at # "none")
  BY <1>1 DEF Watched, GmailWatch, GraphWatch, InOrder, Gmail
<1>2. CASE watch' = CheckEnds /\ req'[Watcher].at = "none"
  <2> DEFINE v == CheckEnds
  <2>1. /\ v \in WatchType /\ v.at = "idle" /\ v.ids = {}
        /\ v.stopped = watch.stopped /\ v.known = watch.known /\ v.base = watch.base
        /\ v.from = watch.from /\ v.seen = watch.seen /\ v.forgot = watch.forgot
        /\ v.count = watch.count
    BY DEF CheckEnds, WatchType
  <2> HIDE DEF v
  <2>2. Gmail => GmailWatch(v, Len(mail))
    BY <2>1 DEF Watched, GmailWatch
  <2>3. ~Gmail => InOrder(mail, clock) /\ GraphWatch(v, mail, clock)
    BY <2>1 DEF Watched, GraphWatch
  <2>4. watch' = v
    BY <1>2 DEF v
  <2> QED BY <2>1, <2>2, <2>3, <2>4, <1>2 DEF Watched, GmailWatch, GraphWatch, InOrder, Gmail
<1> QED BY <1>1, <1>2

\* The requests of some actors end without success.
LEMMA EndedKept ==
  ASSUME Inv, NEW who \in SUBSET Actors, UNCHANGED <<setup, mail, clock>>,
         tok' \in TokType, srv' \in SrvType,
         tok'.access = tok.access, tok'.inflight \in {tok.inflight, "none"},
         srv.issued <= srv'.issued, srv'.live \subseteq 1..srv'.issued,
         tok'.grant = srv'.grant \/ srv'.lost,
         req' = [a \in Actors |-> IF a \in who THEN NoRequest ELSE req[a]],
         CallsFailed(who) \/ (call' = call /\ Users \cap who = {}),
         watch' = IF Watcher \in who THEN CheckEnds ELSE watch
  PROVE  Inv'
<1>1. Asking /\ call \in [Users -> CallType] /\ watch \in WatchType
  BY DEF Inv, Types, Asking
<1>2. /\ req' \in [Actors -> ReqType]
      /\ \A a \in Actors : req'[a] = IF a \in who THEN NoRequest ELSE req[a]
  BY <1>1, NoRequestType DEF Asking
<1>3. Asking'
  BY <1>1, <1>2, AskingEnds
<1>4. Users \subseteq Actors /\ Watcher \in Actors
  BY DEF Actors
<1>5. call' \in [Users -> CallType] /\ Calls'
  <2>1. \A u \in Users :
          \/ call'[u] = call[u] /\ (req'[u].at # "none" => req[u].at # "none")
          \/ call'[u] = [call[u] EXCEPT !.at = "failed"] /\ req'[u].at = "none"
    BY <1>2, <1>4, NoRequestType DEF CallsFailed
  <2>2. call' = call \/ \E w : CallsFailed(w)
    OBVIOUS
  <2> QED BY <1>1, <2>1, <2>2, CallsKept DEF Inv
<1>6. watch' \in WatchType /\ Watched'
  <2>1. \/ watch' = watch /\ (req'[Watcher].at # "none" => req[Watcher].at # "none")
        \/ watch' = CheckEnds /\ req'[Watcher].at = "none"
    BY <1>2, <1>4, NoRequestType
  <2> QED BY <1>1, <2>1, WatchedKept DEF Inv
<1> QED BY <1>3, <1>5, <1>6 DEF Inv, Types, Asking

\* The call of u goes on as c.
LEMMA CallStep ==
  ASSUME call \in [Users -> CallType], Calls, UNCHANGED setup,
         NEW u \in Users, NEW c \in CallType,
         call' = [call EXCEPT ![u] = c], CallSound(c, req'[u].at # "none"),
         \A v \in Users \ {u} : req'[v] = req[v]
  PROVE  call' \in [Users -> CallType] /\ Calls'
<1>1. call' \in [Users -> CallType] /\ call'[u] = c /\ \A v \in Users \ {u} : call'[v] = call[v]
  OBVIOUS
<1>2. \A v \in Users : CallSound(call'[v], req'[v].at # "none")
  BY <1>1 DEF Calls
<1> QED BY <1>1, <1>2 DEF Calls, CallSound

\* The step a call is at is performed.
LEMMA PerformedStep ==
  ASSUME NEW c \in CallType, CallSound(c, TRUE),
         NEW p, p = [c.performed EXCEPT ![c.step] = c.performed[c.step] + 1]
  PROVE  /\ p \in [1..2 -> 0..2]
         /\ c.step = 1 => p[1] = 1 /\ p[2] = 0
         /\ c.step = 2 => p[2] = 1 /\ p[1] = c.performed[1]
<1>1. c.performed \in [1..2 -> 0..2] /\ c.step \in 1..2 /\ c.at = "busy"
  BY DEF CallType, CallSound
<1>2. c.performed[c.step] = 0 /\ (c.step = 1 => c.performed[2] = 0)
  BY <1>1 DEF CallSound
<1> QED BY <1>1, <1>2

-----------------------------------------------------------------------------
(* Actions of the provider and the servers.                                *)

\* A token is issued.
LEMMA IssuedType ==
  ASSUME srv \in SrvType, srv.live \subseteq 1..srv.issued
  PROVE  /\ Issued \in SrvType /\ Issued.issued = srv.issued + 1
         /\ Issued.live \subseteq 1..(srv.issued + 1) /\ Issued.lost = srv.lost
         /\ Issued.grant = IF Rotates THEN srv.grant + 1 ELSE srv.grant
<1>1. srv.issued \in Nat /\ srv.grant \in Nat /\ srv.issued + 1 \in Nat /\ srv.grant + 1 \in Nat
  BY DEF SrvType
<1>2. srv.live \cup {srv.issued + 1} \subseteq 1..(srv.issued + 1)
  BY <1>1
<1>3. srv.live \cup {srv.issued + 1} \in SUBSET Nat
  BY <1>1, <1>2
<1> QED BY <1>1, <1>2, <1>3 DEF Issued, SrvType

LEMMA RefreshSucceedsKept ==
  ASSUME Inv, RefreshSucceeds
  PROVE  Inv'
<1>1. /\ Asking /\ Numbered /\ call \in [Users -> CallType] /\ watch \in WatchType
      /\ tok \in TokType /\ srv \in SrvType
  BY DEF Inv, Types, Asking, Tokens
<1>2. srv' = Issued /\ UNCHANGED <<setup, mail, clock>>
  BY DEF RefreshSucceeds
<1>3. /\ srv' \in SrvType /\ srv'.issued = srv.issued + 1 /\ srv.issued \in Nat
      /\ srv'.live \subseteq 1..srv'.issued /\ srv'.lost = srv.lost
      /\ srv'.grant = IF Rotates THEN srv.grant + 1 ELSE srv.grant
  BY <1>1, <1>2, IssuedType DEF Numbered, SrvType
<1>4. CASE Renews
  <2> DEFINE t == [tok EXCEPT !.access = srv'.issued, !.fresh = TRUE, !.grant = srv'.grant,
                              !.inflight = "telling"]
  <2>1. tok' = t /\ UNCHANGED <<req, call, watch>>
    BY <1>4 DEF RefreshSucceeds
  <2>2. t \in TokType /\ t.access = srv'.issued /\ t.grant = srv'.grant
    BY <1>1, <1>3 DEF TokType, SrvType
  <2> HIDE DEF t
  <2>3. \A a \in Actors : /\ req[a] \in ReqType /\ Retried(req[a], tok.access)
                          /\ req[a].token <= srv.issued /\ req[a].rejected <= srv.issued
    BY <1>1 DEF Asking, Tokens, Numbered
  <2>4. \A a \in Actors : /\ req[a].token <= srv'.issued /\ req[a].rejected <= srv'.issued
                          /\ srv'.issued # req[a].rejected
    BY <2>3, <1>3 DEF ReqType
  <2>5. Numbered'
    BY <2>1, <2>2, <2>4, <1>3 DEF Numbered, SrvType
  <2>6. (\A a \in Actors : Retried(req[a], tok.access))'
    BY <2>1, <2>2, <2>3, <2>4, <1>2 DEF Retried, Renews
  <2>7. Granted'
    BY <2>1, <2>2, <1>2, <1>4 DEF Granted, Renews
  <2>8. Calls' /\ Watched'
    BY <2>1, <1>2 DEF Inv, Calls, CallSound, Watched, GmailWatch, GraphWatch, InOrder, Gmail
  <2> QED BY <2>1, <2>2, <2>5, <2>6, <2>7, <2>8, <1>2, <1>3 DEF Inv, Types, Tokens
<1>5. CASE ~Renews
  <2> DEFINE t == [tok EXCEPT !.access = srv'.issued, !.fresh = TRUE, !.inflight = "none"]
  <2>1. tok' = t /\ Resolve(srv'.issued)
    BY <1>5 DEF RefreshSucceeds
  <2>2. /\ t \in TokType /\ t.access = srv'.issued /\ t.grant = tok.grant
        /\ t.inflight = "none"
    BY <1>1, <1>3 DEF TokType, SrvType
  <2> HIDE DEF t
  <2>3. srv'.grant = srv.grant
    BY <1>3, <1>5 DEF Rotates, Renews
  <2>4. tok'.grant = srv'.grant \/ srv'.lost
    BY <2>1, <2>2, <2>3, <1>1, <1>3 DEF Asking, Tokens, Granted
  <2>5. /\ srv'.issued \in Nat /\ srv'.issued > srv.issued /\ srv.issued <= srv'.issued
        /\ srv'.issued <= srv'.issued /\ tok'.access <= srv'.issued
    BY <2>1, <2>2, <1>3
  <2>6. Asking' /\ \A a \in Actors : req'[a].at # "none" => req[a].at # "none"
    BY <2>1, <2>2, <2>4, <2>5, <1>1, <1>2, <1>3, ResolveKept
  <2>7. call' = call /\ watch' = watch /\ Users \subseteq Actors /\ Watcher \in Actors
    BY <2>1 DEF Resolve, Actors
  <2>8. call' \in [Users -> CallType] /\ Calls'
    BY <2>6, <2>7, <1>1, <1>2, CallsKept DEF Inv
  <2>9. watch' \in WatchType /\ Watched'
    BY <2>6, <2>7, <1>1, <1>2, WatchedKept DEF Inv
  <2> QED BY <2>6, <2>8, <2>9, <1>2 DEF Inv, Types, Asking
<1> QED BY <1>4, <1>5

LEMMA ToldKept ==
  ASSUME Inv, Told
  PROVE  Inv'
<1>1. /\ Asking /\ Numbered /\ Granted /\ call \in [Users -> CallType] /\ watch \in WatchType
      /\ tok \in TokType /\ srv \in SrvType
  BY DEF Inv, Types, Asking, Tokens
<1> DEFINE t == [tok EXCEPT !.inflight = "none"]
<1>2. /\ tok.inflight = "telling" /\ tok' = t /\ Resolve(tok.access)
      /\ UNCHANGED <<setup, srv, mail, clock>>
  BY DEF Told
<1>3. t \in TokType /\ t.access = tok.access /\ t.grant = tok.grant /\ t.inflight = "none"
  BY <1>1 DEF TokType
<1> HIDE DEF t
<1>4. Renews /\ (tok.grant = srv.grant \/ srv.lost)
  BY <1>1, <1>2 DEF Granted
<1>5. /\ tok.access \in Nat /\ tok.access <= srv.issued /\ srv.issued <= srv.issued
      /\ srv.live \subseteq 1..srv.issued
  BY <1>1 DEF Numbered, TokType, SrvType
<1>6. Asking' /\ \A a \in Actors : req'[a].at # "none" => req[a].at # "none"
  BY <1>1, <1>2, <1>3, <1>4, <1>5, ResolveKept
<1>7. call' = call /\ watch' = watch /\ Users \subseteq Actors /\ Watcher \in Actors
  BY <1>2 DEF Resolve, Actors
<1>8. call' \in [Users -> CallType] /\ Calls'
  BY <1>1, <1>2, <1>6, <1>7, CallsKept DEF Inv
<1>9. watch' \in WatchType /\ Watched'
  BY <1>1, <1>2, <1>6, <1>7, WatchedKept DEF Inv
<1> QED BY <1>2, <1>6, <1>8, <1>9 DEF Inv, Types, Asking

\* The refresh ends and nobody has a token of it.
LEMMA RejectedKept ==
  ASSUME Inv, TellingFails \/ RefreshRefused \/ RefreshFails
  PROVE  Inv'
<1>1. /\ Numbered /\ Granted /\ tok \in TokType /\ srv \in SrvType
  BY DEF Inv, Types, Tokens
<1>2. /\ tok' = [tok EXCEPT !.inflight = "none"] /\ Reject
      /\ UNCHANGED <<setup, mail, clock>>
      /\ srv' = srv \/ srv' = [Issued EXCEPT !.lost = Issued.lost \/ Rotates]
  BY DEF TellingFails, RefreshRefused, RefreshFails, Issued
<1>3. /\ tok' \in TokType /\ tok'.access = tok.access /\ tok'.grant = tok.grant
      /\ tok'.inflight \in {tok.inflight, "none"}
  BY <1>1, <1>2 DEF TokType
<1>4. srv.issued \in Nat /\ srv.live \subseteq 1..srv.issued
  BY <1>1 DEF SrvType, Numbered
<1>5. /\ srv' \in SrvType /\ srv.issued <= srv'.issued /\ srv'.live \subseteq 1..srv'.issued
      /\ tok'.grant = srv'.grant \/ srv'.lost
  <2>1. CASE srv' = srv
    BY <2>1, <1>1, <1>3, <1>4 DEF Granted
  <2>2. CASE srv' = [Issued EXCEPT !.lost = Issued.lost \/ Rotates]
    <3>1. /\ Issued \in SrvType /\ Issued.issued = srv.issued + 1
          /\ Issued.live \subseteq 1..(srv.issued + 1) /\ Issued.lost = srv.lost
          /\ Issued.grant = IF Rotates THEN srv.grant + 1 ELSE srv.grant
      BY <1>1, <1>4, IssuedType
    <3>2. (Issued.lost \/ Rotates) \in BOOLEAN
      OBVIOUS
    <3>3. /\ srv' \in SrvType /\ srv'.issued = Issued.issued /\ srv'.live = Issued.live
          /\ srv'.grant = Issued.grant /\ srv'.lost = (Issued.lost \/ Rotates)
      BY <3>1, <3>2, <2>2 DEF SrvType
    <3>4. tok'.grant = srv'.grant \/ srv'.lost
      BY <3>1, <3>3, <1>1, <1>3 DEF Granted
    <3> QED BY <3>1, <3>3, <3>4, <1>4
  <2> QED BY <2>1, <2>2, <1>2
<1>6. /\ Waiting \in SUBSET Actors /\ CallsFailed(Waiting)
      /\ req' = [a \in Actors |-> IF a \in Waiting THEN NoRequest ELSE req[a]]
      /\ watch' = IF Watcher \in Waiting THEN CheckEnds ELSE watch
  BY <1>2 DEF Reject, Waiting
<1> HIDE DEF Inv
<1> QED BY <1>2, <1>3, <1>5, <1>6, EndedKept

\* Tokens grow old, are revoked, and history is forgotten.
LEMMA ServersKept ==
  ASSUME Inv, Age \/ Revoke \/ ForgetHistory
  PROVE  Inv'
<1>1. /\ Numbered /\ Granted /\ tok \in TokType /\ srv \in SrvType
      /\ req \in [Actors -> ReqType] /\ Len(mail) \in 0..MaxMail
  BY DEF Inv, Types, Tokens
<1>2. /\ UNCHANGED <<setup, req, call, watch, mail, clock>>
      /\ tok' = tok \/ tok' = [tok EXCEPT !.fresh = FALSE]
      /\ srv' \in {srv, [srv EXCEPT !.live = {}], [srv EXCEPT !.forgotten = Len(mail)]}
  BY DEF Age, Revoke, ForgetHistory
<1>3. /\ tok' \in TokType /\ tok'.access = tok.access /\ tok'.grant = tok.grant
      /\ tok'.inflight \in {tok.inflight, "none"}
  BY <1>1, <1>2 DEF TokType
<1>4. /\ srv' \in SrvType /\ srv'.issued = srv.issued /\ srv'.live \subseteq srv.live
      /\ srv'.grant = srv.grant /\ srv'.lost = srv.lost
  BY <1>1, <1>2 DEF SrvType
<1>5. /\ srv.issued <= srv'.issued /\ srv'.live \subseteq 1..srv'.issued
      /\ tok'.grant = srv'.grant \/ srv'.lost
  BY <1>1, <1>3, <1>4 DEF Numbered, Granted, SrvType
<1>6. req' = [a \in Actors |-> IF a \in {} THEN NoRequest ELSE req[a]]
  BY <1>1, <1>2
<1>7. /\ {} \in SUBSET Actors /\ call' = call /\ Users \cap {} = {}
      /\ watch' = IF Watcher \in {} THEN CheckEnds ELSE watch
  BY <1>2
<1> HIDE DEF Inv
<1> QED BY <1>2, <1>3, <1>4, <1>5, <1>6, <1>7, EndedKept
-----------------------------------------------------------------------------
(* Actions of the calls.                                                   *)

\* A request is sent for the call of u, or the last one has ended, and the call goes on as c.
LEMMA UserStep ==
  ASSUME Inv, NEW u \in Users, NEW c \in CallType, UNCHANGED <<setup, srv, watch, mail, clock>>,
         call' = [call EXCEPT ![u] = c], CallSound(c, req'[u].at # "none"),
         Asking', \A b \in Actors \ {u} : req'[b] = req[b]
  PROVE  Inv'
<1>1. call \in [Users -> CallType] /\ Calls /\ watch \in WatchType /\ Watched
  BY DEF Inv, Types
<1>2. Users \subseteq Actors /\ Watcher \in Actors \ {u}
  BY ApiMailboxConstants DEF Actors
<1>3. call' \in [Users -> CallType] /\ Calls'
  BY <1>1, <1>2, CallStep
<1>4. watch' \in WatchType /\ Watched'
  BY <1>1, <1>2, WatchedKept
<1> QED BY <1>3, <1>4 DEF Inv, Types, Asking

\* The request of a ends, and what is known goes on.
LEMMA RequestEnds ==
  ASSUME Inv, NEW a \in Actors, req' = [req EXCEPT ![a] = NoRequest], UNCHANGED <<setup, tok, srv>>
  PROVE  /\ Asking' /\ req'[a] = NoRequest /\ req'[a].at = "none"
         /\ \A b \in Actors \ {a} : req'[b] = req[b]
         /\ req' = [b \in Actors |-> IF b \in {a} THEN NoRequest ELSE req[b]]
<1>1. /\ Asking /\ Numbered /\ Granted /\ tok \in TokType /\ srv \in SrvType
      /\ req \in [Actors -> ReqType] /\ srv.issued \in Nat
  BY DEF Inv, Types, Asking, Tokens, SrvType
<1>2. /\ req' \in [Actors -> ReqType] /\ req'[a] = NoRequest
      /\ \A b \in Actors \ {a} : req'[b] = req[b]
  BY <1>1, NoRequestType
<1>3. \A b \in Actors : req'[b] \in {req[b], NoRequest}
  BY <1>2
<1>4. /\ tok' \in TokType /\ srv' \in SrvType
      /\ tok'.access = tok.access /\ tok'.inflight \in {tok.inflight, "none"}
      /\ srv.issued <= srv'.issued /\ srv'.live \subseteq 1..srv'.issued
      /\ tok'.grant = srv'.grant \/ srv'.lost
  BY <1>1 DEF Numbered, Granted
<1>5. Asking'
  BY <1>1, <1>2, <1>3, <1>4, AskingEnds
<1>6. req' = [b \in Actors |-> IF b \in {a} THEN NoRequest ELSE req[b]]
  BY <1>1
<1> QED BY <1>2, <1>5, <1>6, NoRequestType

LEMMA UnauthorizedKept ==
  ASSUME Inv, NEW a \in Actors, Unauthorized(a)
  PROVE  Inv'
<1>1. /\ Asking /\ Numbered /\ req \in [Actors -> ReqType] /\ req[a].at = "sent"
      /\ call \in [Users -> CallType] /\ Calls /\ watch \in WatchType /\ Watched
      /\ UNCHANGED <<setup, srv, call, watch, mail, clock>>
  BY DEF Inv, Types, Asking, Tokens, Unauthorized
<1> DEFINE r == [req[a] EXCEPT !.retry = TRUE, !.rejected = req[a].token]
<1>2. GetToken(a, r, TRUE)
  BY DEF Unauthorized
<1>3. r \in ReqType /\ r.token = req[a].token /\ r.rejected = req[a].token
  BY <1>1 DEF ReqType
<1> HIDE DEF r
<1>4. r.token <= srv.issued /\ r.rejected <= srv.issued /\ (r.retry => TRUE) /\ TRUE \in BOOLEAN
  BY <1>1, <1>3 DEF Numbered
<1>5. /\ Asking' /\ \A b \in Actors \ {a} : req'[b] = req[b]
  BY <1>1, <1>2, <1>3, <1>4, GetTokenKept
<1>6. \A b \in Actors : req'[b].at # "none" => req[b].at # "none"
  BY <1>1, <1>5
<1>7. Users \subseteq Actors /\ Watcher \in Actors
  BY DEF Actors
<1>8. call' \in [Users -> CallType] /\ Calls'
  BY <1>1, <1>6, <1>7, CallsKept
<1>9. watch' \in WatchType /\ Watched'
  BY <1>1, <1>6, <1>7, WatchedKept
<1> QED BY <1>1, <1>5, <1>8, <1>9 DEF Inv, Types, Asking

\* A request of its own is sent.
LEMMA Requested ==
  ASSUME Inv, NEW a \in Actors, GetToken(a, NoRequest, FALSE), UNCHANGED <<setup, srv>>
  PROVE  /\ Asking' /\ req'[a].at # "none"
         /\ \A b \in Actors \ {a} : req'[b] = req[b]
<1>1. Asking /\ srv.issued \in Nat
  BY DEF Inv, Types, Asking, SrvType
<1>2. /\ NoRequest.token <= srv.issued /\ NoRequest.rejected <= srv.issued
      /\ (NoRequest.retry => FALSE) /\ FALSE \in BOOLEAN
  BY <1>1, NoRequestType
<1> QED BY <1>1, <1>2, NoRequestType, GetTokenKept
\* An error answer: the look-up of a reply is skipped, any other request ends what it was for.
LEMMA RefusedKept ==
  ASSUME Inv, NEW a \in Actors, Refused(a)
  PROVE  Inv'
<1>1. /\ call \in [Users -> CallType] /\ Calls /\ req[a].at = "sent"
      /\ tok \in TokType /\ srv \in SrvType /\ Numbered /\ Granted
      /\ UNCHANGED <<setup, srv, mail, clock>>
  BY DEF Inv, Types, Tokens, Refused
<1>2. CASE a \in Users /\ LookUp(a)
  <2>1. NextRequest(a) /\ UNCHANGED watch /\ setup.call = "reply" /\ call[a].step = 1
    BY <1>2 DEF Refused, LookUp
  <2> DEFINE c == [call[a] EXCEPT !.step = 2]
  <2>2. GetToken(a, NoRequest, FALSE) /\ call' = [call EXCEPT ![a] = c]
    BY <2>1, <1>1, <1>2 DEF NextRequest
  <2>3. call[a] \in CallType /\ CallSound(call[a], TRUE)
    BY <1>1, <1>2 DEF Calls
  <2>4. /\ c \in CallType /\ c.at = call[a].at /\ c.step = 2
        /\ c.performed = call[a].performed
    BY <2>3 DEF CallType
  <2> HIDE DEF c
  <2>5. CallSound(c, TRUE)
    <3>1. /\ call[a].at = "busy" /\ call[a].performed[2] = 0 /\ call[a].performed[1] <= 1
      BY <2>1, <2>3 DEF CallSound
    <3> QED BY <3>1, <2>1, <2>4 DEF CallSound
  <2>6. /\ Asking' /\ req'[a].at # "none" /\ \A b \in Actors \ {a} : req'[b] = req[b]
    BY <2>2, <1>1, Requested
  <2>7. CallSound(c, req'[a].at # "none")
    BY <2>5, <2>6 DEF CallSound
  <2> HIDE DEF Inv
  <2> QED BY <2>1, <2>2, <2>4, <2>6, <2>7, <1>1, <1>2, UserStep
<1>3. CASE ~(a \in Users /\ LookUp(a))
  <2>1. /\ req' = [req EXCEPT ![a] = NoRequest] /\ CallsFailed({a})
        /\ watch' = (IF a = Watcher THEN CheckEnds ELSE watch) /\ tok' = tok
    BY <1>3 DEF Refused, GivesUp
  <2>2. req' = [b \in Actors |-> IF b \in {a} THEN NoRequest ELSE req[b]]
    BY <2>1, <1>1, RequestEnds
  <2>3. /\ tok' \in TokType /\ srv' \in SrvType
        /\ tok'.access = tok.access /\ tok'.inflight \in {tok.inflight, "none"}
        /\ srv.issued <= srv'.issued /\ srv'.live \subseteq 1..srv'.issued
        /\ tok'.grant = srv'.grant \/ srv'.lost
    BY <2>1, <1>1 DEF Numbered, Granted, SrvType
  <2>4. {a} \in SUBSET Actors /\ watch' = IF Watcher \in {a} THEN CheckEnds ELSE watch
    BY <2>1
  <2> HIDE DEF Inv
  <2> QED BY <2>1, <2>2, <2>3, <2>4, <1>1, EndedKept
<1> QED BY <1>2, <1>3

\* The step of a call is performed, and the call is then at x.
LEMMA PerformsAt ==
  ASSUME call \in [Users -> CallType], NEW u \in Users, CallSound(call[u], TRUE),
         NEW x \in {"ok", "failed"}, x = "ok" => call[u].step = 2,
         call' = [Performs(u) EXCEPT ![u].at = x]
  PROVE  \E c \in CallType : call' = [call EXCEPT ![u] = c] /\ CallSound(c, FALSE)
<1> DEFINE p == [call[u].performed EXCEPT ![call[u].step] = call[u].performed[call[u].step] + 1]
           c == [call[u] EXCEPT !.performed = p, !.at = x]
<1>1. call[u] \in CallType /\ call[u].performed \in [1..2 -> 0..2] /\ call[u].step \in 1..2
  BY DEF CallType
<1>2. call' = [call EXCEPT ![u] = c]
  BY <1>1 DEF Performs, CallType
<1>3. /\ p \in [1..2 -> 0..2]
      /\ call[u].step = 1 => p[1] = 1 /\ p[2] = 0
      /\ call[u].step = 2 => p[2] = 1 /\ p[1] = call[u].performed[1]
  BY <1>1, PerformedStep
<1> HIDE DEF p
<1>4. c \in CallType /\ c.at = x /\ c.step = call[u].step /\ c.performed = p
  BY <1>1, <1>3 DEF CallType
<1> HIDE DEF c
<1>5. CallSound(c, FALSE)
  BY <1>1, <1>3, <1>4 DEF CallSound
<1> QED BY <1>2, <1>4, <1>5

LEMMA ConnectionFailsKept ==
  ASSUME Inv, NEW a \in Actors, ConnectionFails(a)
  PROVE  Inv'
<1>1. /\ call \in [Users -> CallType] /\ Calls /\ req[a].at = "sent"
      /\ tok \in TokType /\ srv \in SrvType /\ Numbered /\ Granted
      /\ req' = [req EXCEPT ![a] = NoRequest]
      /\ watch' = (IF a = Watcher THEN CheckEnds ELSE watch)
      /\ UNCHANGED <<setup, tok, srv, mail, clock>>
  BY DEF Inv, Types, Tokens, ConnectionFails
<1>2. /\ Asking' /\ req'[a].at = "none" /\ \A b \in Actors \ {a} : req'[b] = req[b]
      /\ req' = [b \in Actors |-> IF b \in {a} THEN NoRequest ELSE req[b]]
  BY <1>1, RequestEnds
<1>3. CASE CallsFailed({a})
  <2>1. /\ tok' \in TokType /\ srv' \in SrvType
        /\ tok'.access = tok.access /\ tok'.inflight \in {tok.inflight, "none"}
        /\ srv.issued <= srv'.issued /\ srv'.live \subseteq 1..srv'.issued
        /\ tok'.grant = srv'.grant \/ srv'.lost
    BY <1>1 DEF Numbered, Granted, SrvType
  <2>2. {a} \in SUBSET Actors /\ watch' = IF Watcher \in {a} THEN CheckEnds ELSE watch
    BY <1>1
  <2> HIDE DEF Inv
  <2> QED BY <2>1, <2>2, <1>1, <1>2, <1>3, EndedKept
<1>4. CASE a \in Users /\ call' = [Performs(a) EXCEPT ![a].at = "failed"]
  <2>1. CallSound(call[a], TRUE)
    BY <1>1, <1>4 DEF Calls
  <2>2. PICK c \in CallType : call' = [call EXCEPT ![a] = c] /\ CallSound(c, FALSE)
    BY <2>1, <1>1, <1>4, PerformsAt
  <2>3. CallSound(c, req'[a].at # "none")
    BY <2>2, <1>2
  <2>4. watch' = watch
    BY <1>1, <1>4, ApiMailboxConstants
  <2> HIDE DEF Inv
  <2> QED BY <2>2, <2>3, <2>4, <1>1, <1>2, <1>4, UserStep
<1> QED BY <1>3, <1>4 DEF ConnectionFails

LEMMA StartKept ==
  ASSUME Inv, NEW u \in Users, Start(u)
  PROVE  Inv'
<1>1. /\ call \in [Users -> CallType] /\ Calls /\ call[u].at = "new" /\ u \in Actors
      /\ GetToken(u, NoRequest, FALSE)
      /\ UNCHANGED <<setup, srv, watch, mail, clock>>
  BY DEF Inv, Types, Start, Actors
<1> DEFINE c == [call[u] EXCEPT !.at = "busy"]
<1>2. call' = [call EXCEPT ![u] = c]
  BY DEF Start
<1>3. call[u] \in CallType /\ CallSound(call[u], req[u].at # "none")
  BY <1>1 DEF Calls
<1>4. /\ c \in CallType /\ c.at = "busy" /\ c.step = call[u].step
      /\ c.performed = call[u].performed
  BY <1>3 DEF CallType
<1> HIDE DEF c
<1>5. /\ Asking' /\ req'[u].at # "none" /\ \A b \in Actors \ {u} : req'[b] = req[b]
  BY <1>1, Requested
<1>6. CallSound(c, req'[u].at # "none")
  BY <1>1, <1>3, <1>4 DEF CallSound
<1> HIDE DEF Inv
<1> QED BY <1>1, <1>2, <1>4, <1>5, <1>6, UserStep

\* The first step of a call is performed, and the call goes on with the second.
LEMMA PerformsFirst ==
  ASSUME call \in [Users -> CallType], NEW u \in Users, CallSound(call[u], TRUE),
         call[u].step = 1, NEW s \in 1..2, s = 2,
         call' = [Performs(u) EXCEPT ![u].step = s]
  PROVE  \E c \in CallType : call' = [call EXCEPT ![u] = c] /\ CallSound(c, TRUE)
<1> DEFINE p == [call[u].performed EXCEPT ![call[u].step] = call[u].performed[call[u].step] + 1]
           c == [call[u] EXCEPT !.performed = p, !.step = s]
<1>1. call[u] \in CallType /\ call[u].performed \in [1..2 -> 0..2] /\ call[u].at = "busy"
  BY DEF CallType, CallSound
<1>2. call' = [call EXCEPT ![u] = c]
  BY <1>1 DEF Performs, CallType
<1>3. p \in [1..2 -> 0..2] /\ p[1] = 1 /\ p[2] = 0
  <2>1. call[u].performed[1] = 0 /\ call[u].performed[2] = 0
    BY <1>1 DEF CallSound
  <2>2. p = [call[u].performed EXCEPT ![1] = 1]
    BY <2>1
  <2> HIDE DEF p
  <2> QED BY <2>1, <2>2, <1>1
<1> HIDE DEF p
<1>4. c \in CallType /\ c.at = "busy" /\ c.step = s /\ c.performed = p
  BY <1>1, <1>3 DEF CallType
<1> HIDE DEF c
<1>5. CallSound(c, TRUE)
  BY <1>3, <1>4 DEF CallSound
<1> QED BY <1>2, <1>4, <1>5

LEMMA DoneKept ==
  ASSUME Inv, NEW u \in Users, Done(u)
  PROVE  Inv'
<1>1. /\ call \in [Users -> CallType] /\ Calls /\ req[u].at = "sent" /\ u \in Actors
      /\ UNCHANGED <<setup, srv, watch, mail, clock>>
  BY DEF Inv, Types, Done, Actors
<1>2. call[u] \in CallType /\ CallSound(call[u], TRUE)
  BY <1>1 DEF Calls
<1>3. call[u].step \in 1..2 /\ call[u].performed \in [1..2 -> 0..2] /\ call[u].at = "busy"
  BY <1>2 DEF CallType, CallSound
<1>4. CASE call[u].step = 1
  <2>1. /\ GetToken(u, NoRequest, FALSE) /\ call' = [Performs(u) EXCEPT ![u].step = 2]
    BY <1>4 DEF Done
  <2>2. PICK c \in CallType : call' = [call EXCEPT ![u] = c] /\ CallSound(c, TRUE)
    <3>1. 2 \in 1..2
      OBVIOUS
    <3> QED BY <2>1, <3>1, <1>1, <1>2, <1>4, PerformsFirst
  <2>3. /\ Asking' /\ req'[u].at # "none" /\ \A b \in Actors \ {u} : req'[b] = req[b]
    BY <2>1, <1>1, Requested
  <2>4. CallSound(c, req'[u].at # "none")
    BY <2>2, <2>3 DEF CallSound
  <2> HIDE DEF Inv
  <2> QED BY <2>2, <2>3, <2>4, <1>1, UserStep
<1>5. CASE call[u].step = 2
  <2>1. /\ req' = [req EXCEPT ![u] = NoRequest] /\ UNCHANGED tok
        /\ call' = [Performs(u) EXCEPT ![u].at = "ok"]
    BY <1>5 DEF Done
  <2>2. PICK c \in CallType : call' = [call EXCEPT ![u] = c] /\ CallSound(c, FALSE)
    BY <2>1, <1>1, <1>2, <1>5, PerformsAt
  <2>3. /\ Asking' /\ req'[u].at = "none" /\ \A b \in Actors \ {u} : req'[b] = req[b]
    BY <2>1, <1>1, RequestEnds
  <2>4. CallSound(c, req'[u].at # "none")
    BY <2>2, <2>3
  <2> HIDE DEF Inv
  <2> QED BY <2>1, <2>2, <2>3, <2>4, <1>1, UserStep
<1> QED BY <1>3, <1>4, <1>5

-----------------------------------------------------------------------------
(* Actions of the watcher.                                                 *)

\* A watcher v of either API is sound, with mail s at time t.
WatchSound(v, s, t) ==
  /\ Gmail => GmailWatch(v, Len(s))
  /\ ~Gmail => InOrder(s, t) /\ GraphWatch(v, s, t)

\* The watcher goes on as v, and of the requests only its own changes.
LEMMA WatcherStep ==
  ASSUME Inv, NEW v \in WatchType, watch' = v, WatchSound(v, mail, clock),
         UNCHANGED <<setup, srv, call, mail, clock>>,
         v.at = "idle" => v.ids = {} /\ req'[Watcher].at = "none",
         Asking', \A b \in Actors \ {Watcher} : req'[b] = req[b]
  PROVE  Inv'
<1>1. call \in [Users -> CallType] /\ Calls
  BY DEF Inv, Types
<1>2. Users \subseteq Actors \ {Watcher}
  BY ApiMailboxConstants DEF Actors
<1>3. call' \in [Users -> CallType] /\ Calls'
  BY <1>1, <1>2 DEF Calls, CallSound
<1>4. Watched'
  BY DEF Watched, WatchSound, GmailWatch, GraphWatch, InOrder, Gmail
<1> QED BY <1>3, <1>4 DEF Inv, Types, Asking

\* A check that is answered was under way.
LEMMA Answer ==
  ASSUME Inv, CheckAnswered
  PROVE  /\ watch.at = "busy" /\ watch \in WatchType /\ WatchSound(watch, mail, clock)
         /\ Watcher \in Actors /\ Len(mail) \in 0..MaxMail /\ MaxMail \in Nat
         /\ mail \in Seq(0..MaxTicks) /\ clock \in Nat
BY ApiMailboxConstants DEF Inv, Types, Watched, WatchSound, CheckAnswered, WatchType, Actors

\* The check ends and the watcher goes on as w.
LEMMA CheckDoneKept ==
  ASSUME Inv, NEW w \in WatchType, CheckDone(w),
         WatchSound([w EXCEPT !.at = "idle", !.ids = {}], mail, clock),
         UNCHANGED <<setup, srv, call, mail, clock>>
  PROVE  Inv'
<1> DEFINE v == [w EXCEPT !.at = "idle", !.ids = {}]
<1>1. v \in WatchType /\ v.at = "idle" /\ v.ids = {}
  BY DEF WatchType
<1>2. /\ watch' = v /\ req' = [req EXCEPT ![Watcher] = NoRequest] /\ tok' = tok
      /\ Watcher \in Actors /\ WatchSound(v, mail, clock)
  BY DEF CheckDone, Actors
<1>3. /\ Asking' /\ req'[Watcher].at = "none"
      /\ \A b \in Actors \ {Watcher} : req'[b] = req[b]
  BY <1>2, RequestEnds
<1> HIDE DEF v, Inv
<1> QED BY <1>1, <1>2, <1>3, WatcherStep

\* The fields of a watcher whose check has ended.
LEMMA Idle ==
  ASSUME NEW w \in WatchType, NEW v, v = [w EXCEPT !.at = "idle", !.ids = {}]
  PROVE  /\ v \in WatchType /\ v.at = "idle" /\ v.ids = {}
         /\ v.stopped = w.stopped /\ v.known = w.known /\ v.base = w.base /\ v.from = w.from
         /\ v.seen = w.seen /\ v.forgot = w.forgot /\ v.count = w.count
BY DEF WatchType

LEMMA PollKept ==
  ASSUME Inv, Poll
  PROVE  Inv'
<1>1. /\ watch \in WatchType /\ watch.at = "idle" /\ watch.ids = {} /\ Asking /\ Watcher \in Actors
      /\ WatchSound(watch, mail, clock) /\ req[Watcher].at = "none" /\ clock \in Nat
      /\ UNCHANGED <<setup, srv, call, mail, clock>>
  BY ApiMailboxConstants DEF Inv, Types, Asking, Poll, Watched, WatchSound, Actors
<1>2. CASE ~Gmail /\ ~watch.known
  <2> DEFINE v == [watch EXCEPT !.known = TRUE, !.base = clock, !.from = clock]
  <2>1. watch' = v /\ UNCHANGED <<tok, req>>
    BY <1>2 DEF Poll
  <2>2. /\ v \in WatchType /\ v.at = "idle" /\ v.ids = {} /\ v.stopped = watch.stopped
        /\ v.base = clock /\ v.from = clock
        /\ v.seen = watch.seen /\ v.forgot = watch.forgot /\ v.count = watch.count
    BY <1>1 DEF WatchType
  <2> HIDE DEF v
  <2>3. mail \in Seq(0..MaxTicks) /\ \A m \in 1..Len(mail) : mail[m] \in Nat
    BY ApiMailboxConstants DEF Inv, Types
  <2>4. GraphWatch(v, mail, clock)
    BY <2>2, <2>3, <1>1, <1>2 DEF GraphWatch, WatchSound
  <2>5. WatchSound(v, mail, clock)
    BY <2>4, <1>1, <1>2 DEF WatchSound
  <2>6. Asking'
    BY <2>1, <1>1 DEF Asking, Tokens, Numbered, Granted, Retried, Renews
  <2> HIDE DEF Inv
  <2> QED BY <2>1, <2>2, <2>5, <2>6, <1>1, WatcherStep
<1>3. CASE ~(~Gmail /\ ~watch.known)
  <2> DEFINE v == [watch EXCEPT !.at = "busy", !.cursor = watch.base]
  <2>1. watch' = v /\ GetToken(Watcher, NoRequest, FALSE)
    BY <1>3 DEF Poll
  <2>2. /\ v \in WatchType /\ v.at = "busy" /\ v.ids = {} /\ v.stopped = watch.stopped
        /\ v.known = watch.known /\ v.base = watch.base /\ v.from = watch.from
        /\ v.cursor = watch.base /\ watch.base \in Nat
        /\ v.seen = watch.seen /\ v.forgot = watch.forgot /\ v.count = watch.count
    BY <1>1 DEF WatchType
  <2> HIDE DEF v
  <2>3. Gmail => GmailWatch(v, Len(mail))
    BY <2>2, <1>1 DEF GmailWatch, WatchSound
  <2>4. ~Gmail => GraphWatch(v, mail, clock)
    BY <2>2, <1>1 DEF GraphWatch, WatchSound
  <2>5. WatchSound(v, mail, clock)
    BY <2>3, <2>4, <1>1 DEF WatchSound
  <2>6. Asking' /\ \A b \in Actors \ {Watcher} : req'[b] = req[b]
    BY <2>1, <1>1, Requested
  <2> HIDE DEF Inv
  <2> QED BY <2>1, <2>2, <2>5, <2>6, <1>1, WatcherStep
<1> QED BY <1>2, <1>3

LEMMA GmailProfileKept ==
  ASSUME Inv, GmailProfile
  PROVE  Inv'
<1>1. /\ CheckAnswered /\ Gmail /\ watch \in WatchType /\ WatchSound(watch, mail, clock)
      /\ Len(mail) \in Nat /\ UNCHANGED <<setup, srv, call, mail, clock>>
  BY Answer DEF GmailProfile
<1> DEFINE w == [watch EXCEPT !.known = TRUE, !.base = Len(mail), !.from = Len(mail)]
           v == [w EXCEPT !.at = "idle", !.ids = {}]
<1>2. CheckDone(w)
  BY DEF GmailProfile
<1>3. /\ w \in WatchType /\ w.stopped = watch.stopped /\ w.known = TRUE
      /\ w.base = Len(mail) /\ w.from = Len(mail) /\ w.count = watch.count
      /\ watch.base \in Nat /\ watch.count \in [Mails -> Nat]
  BY <1>1 DEF WatchType
<1> HIDE DEF w
<1>4. /\ v.at = "idle" /\ v.base = Len(mail) /\ v.from = Len(mail) /\ v.count = watch.count
  BY <1>3, Idle
<1> HIDE DEF v
<1>5. GmailWatch(v, Len(mail))
  BY <1>1, <1>3, <1>4 DEF GmailWatch, WatchSound, Mails
<1>6. WatchSound(v, mail, clock)
  BY <1>1, <1>5 DEF WatchSound
<1> HIDE DEF Inv
<1> QED BY <1>1, <1>2, <1>3, <1>6, CheckDoneKept DEF v

LEMMA GmailHistoryGoneKept ==
  ASSUME Inv, GmailHistoryGone
  PROVE  Inv'
<1>1. /\ CheckAnswered /\ Gmail /\ watch \in WatchType /\ WatchSound(watch, mail, clock)
      /\ UNCHANGED <<setup, srv, call, mail, clock>>
  BY Answer DEF GmailHistoryGone
<1> DEFINE w == [watch EXCEPT !.known = FALSE]
           v == [w EXCEPT !.at = "idle", !.ids = {}]
<1>2. CheckDone(w)
  BY DEF GmailHistoryGone
<1>3. w \in WatchType /\ w.known = FALSE /\ w.base = watch.base /\ w.count = watch.count
  BY <1>1 DEF WatchType
<1> HIDE DEF w
<1>4. v.at = "idle" /\ v.known = FALSE /\ v.base = watch.base /\ v.count = watch.count
  BY <1>3, Idle
<1> HIDE DEF v
<1>5. GmailWatch(v, Len(mail))
  BY <1>1, <1>4 DEF GmailWatch, WatchSound
<1>6. WatchSound(v, mail, clock)
  BY <1>1, <1>5 DEF WatchSound
<1> HIDE DEF Inv
<1> QED BY <1>1, <1>2, <1>3, <1>6, CheckDoneKept DEF v

\* Ids are reported by w, which goes on as e.
LEMMA EmitCounts ==
  ASSUME NEW w \in WatchType, NEW ids, NEW e, e = Emit(w, ids)
  PROVE  /\ e \in WatchType
         /\ e.stopped = w.stopped /\ e.known = w.known /\ e.base = w.base /\ e.from = w.from
         /\ e.seen = w.seen /\ e.forgot = w.forgot
         /\ w.stopped => e.count = w.count
         /\ ~w.stopped => \A m \in Mails :
              e.count[m] = IF m \in ids THEN w.count[m] + 1 ELSE w.count[m]
<1> DEFINE c == [m \in Mails |-> IF m \in ids THEN w.count[m] + 1 ELSE w.count[m]]
<1>1. c \in [Mails -> Nat]
  BY DEF WatchType
<1>2. \A m \in Mails : c[m] = IF m \in ids THEN w.count[m] + 1 ELSE w.count[m]
  OBVIOUS
<1>3. CASE w.stopped
  BY <1>3 DEF Emit
<1>4. CASE ~w.stopped
  <2>1. e = [w EXCEPT !.count = c]
    BY <1>4 DEF Emit
  <2> HIDE DEF c
  <2>2. /\ e \in WatchType /\ e.count = c
        /\ e.stopped = w.stopped /\ e.known = w.known /\ e.base = w.base /\ e.from = w.from
        /\ e.seen = w.seen /\ e.forgot = w.forgot
    BY <2>1, <1>1 DEF WatchType
  <2> QED BY <2>2, <1>2, <1>4
<1> QED BY <1>3, <1>4 DEF WatchType

\* A page of history reaches up to last.
LEMMA PageRead ==
  ASSUME NEW w \in WatchType, NEW last \in 0..MaxMail, MaxMail \in Nat,
         w.ids = (w.base + 1)..w.cursor, w.base <= w.cursor, w.cursor <= last,
         NEW p, p = HistoryPage(w, last)
  PROVE  /\ p \in WatchType /\ p.at = w.at /\ p.ids = (w.base + 1)..last /\ p.cursor = last
         /\ p.stopped = w.stopped /\ p.known = w.known /\ p.base = w.base /\ p.from = w.from
         /\ p.seen = w.seen /\ p.forgot = w.forgot /\ p.count = w.count
<1>1. w.base \in Nat /\ w.cursor \in Nat /\ last \in Nat
  BY DEF WatchType
<1> DEFINE ids == w.ids \cup (w.cursor + 1)..last
<1>2. p = [w EXCEPT !.ids = ids, !.cursor = last]
  BY DEF HistoryPage
<1>3. ids = (w.base + 1)..last
  BY <1>1
<1>4. ids \in SUBSET Mails
  BY <1>1, <1>3 DEF Mails
<1> HIDE DEF ids
<1>5. /\ p \in WatchType /\ p.at = w.at /\ p.ids = ids /\ p.cursor = last
      /\ p.stopped = w.stopped /\ p.known = w.known /\ p.base = w.base /\ p.from = w.from
      /\ p.seen = w.seen /\ p.forgot = w.forgot /\ p.count = w.count
  BY <1>1, <1>2, <1>4 DEF WatchType
<1> QED BY <1>3, <1>5

\* The next check begins at n.
LEMMA Rebased ==
  ASSUME NEW p \in WatchType, NEW n \in Nat, NEW w, w = [p EXCEPT !.base = n]
  PROVE  /\ w \in WatchType /\ w.stopped = p.stopped /\ w.known = p.known
         /\ w.base = n /\ w.from = p.from /\ w.count = p.count
BY DEF WatchType

LEMMA GmailHistoryKept ==
  ASSUME Inv, GmailHistory
  PROVE  Inv'
<1> DEFINE n == Len(mail)
           more == watch.cursor + HistorySize < n
           last == IF more THEN watch.cursor + HistorySize ELSE n
           p == HistoryPage(watch, last)
<1>1. /\ CheckAnswered /\ Gmail /\ watch \in WatchType /\ GmailWatch(watch, n)
      /\ n \in 0..MaxMail /\ MaxMail \in Nat /\ watch.at = "busy" /\ Watcher \in Actors
      /\ UNCHANGED <<setup, srv, call, mail, clock>>
  BY Answer DEF GmailHistory, WatchSound
<1>2. /\ watch.ids = (watch.base + 1)..watch.cursor /\ watch.base <= watch.cursor
      /\ watch.cursor <= n /\ watch.base \in Nat /\ watch.cursor \in Nat /\ watch.base <= n
  BY <1>1 DEF GmailWatch, WatchType
<1>3. last \in 0..MaxMail /\ watch.cursor <= last /\ last <= n
  BY <1>1, <1>2, ApiMailboxConstants
<1>4. IF more
      THEN watch' = p /\ GetToken(Watcher, NoRequest, FALSE)
      ELSE CheckDone(Emit([p EXCEPT !.base = n], p.ids))
  BY DEF GmailHistory
<1>5. ~more => last = n
  OBVIOUS
<1> HIDE DEF last, more
<1>6. /\ p \in WatchType /\ p.at = "busy" /\ p.ids = (watch.base + 1)..last /\ p.cursor = last
      /\ p.stopped = watch.stopped /\ p.known = watch.known /\ p.base = watch.base
      /\ p.from = watch.from /\ p.count = watch.count
  BY <1>1, <1>2, <1>3, PageRead
<1> HIDE DEF p
<1>7. CASE more
  <2>1. GmailWatch(p, n)
    BY <1>1, <1>2, <1>3, <1>6 DEF GmailWatch
  <2>2. WatchSound(p, mail, clock)
    BY <2>1, <1>1 DEF WatchSound
  <2>3. Asking' /\ \A b \in Actors \ {Watcher} : req'[b] = req[b]
    BY <1>1, <1>4, <1>7, Requested
  <2> HIDE DEF Inv
  <2> QED BY <2>2, <2>3, <1>1, <1>4, <1>6, <1>7, WatcherStep
<1>8. CASE ~more
  <2> DEFINE w == [p EXCEPT !.base = n]
             e == Emit(w, p.ids)
             v == [e EXCEPT !.at = "idle", !.ids = {}]
  <2>1. CheckDone(e)
    BY <1>4, <1>8
  <2>2. /\ w \in WatchType /\ w.stopped = watch.stopped /\ w.known = watch.known
        /\ w.base = n /\ w.from = watch.from /\ w.count = watch.count
    <3>1. n \in Nat
      BY <1>1
    <3> HIDE DEF n
    <3>2. /\ w \in WatchType /\ w.stopped = p.stopped /\ w.known = p.known
          /\ w.base = n /\ w.from = p.from /\ w.count = p.count
      BY <3>1, <1>6, Rebased
    <3> QED BY <3>2, <1>6
  <2> HIDE DEF w
  <2>3. /\ e \in WatchType /\ e.stopped = watch.stopped /\ e.known = watch.known
        /\ e.base = n /\ e.from = watch.from
        /\ watch.stopped => e.count = watch.count
        /\ ~watch.stopped => \A m \in Mails :
             e.count[m] = IF m \in p.ids THEN watch.count[m] + 1 ELSE watch.count[m]
    BY <2>2, EmitCounts
  <2> HIDE DEF e
  <2>4. /\ v.at = "idle" /\ v.stopped = watch.stopped /\ v.known = watch.known
        /\ v.base = n /\ v.from = watch.from /\ v.count = e.count
    BY <2>3, Idle
  <2> HIDE DEF v
  <2>5. /\ \A m \in Mails : /\ m \in Nat /\ watch.count[m] \in Nat
                            /\ watch.count[m] <= 1 /\ (watch.count[m] > 0 => m <= watch.base)
        /\ watch.known => watch.from <= watch.base
        /\ watch.known /\ ~watch.stopped =>
             \A m \in Mails : watch.from < m /\ m <= watch.base => watch.count[m] > 0
        /\ watch.from \in Nat /\ n \in Nat
    BY <1>1 DEF GmailWatch, WatchType, Mails
  <2>6. p.ids = (watch.base + 1)..n
    BY <1>5, <1>6, <1>8
  <2>7. \A m \in Mails : m \in p.ids <=> watch.base < m /\ m <= n
    BY <2>5, <2>6, <1>2
  <2>8. \A m \in Mails : v.count[m] <= 1 /\ (v.count[m] > 0 => m <= n)
    <3> SUFFICES ASSUME NEW m \in Mails
                 PROVE  v.count[m] <= 1 /\ (v.count[m] > 0 => m <= n)
      OBVIOUS
    <3>1. v.count[m] \in {watch.count[m], watch.count[m] + 1}
          /\ (v.count[m] # watch.count[m] => watch.base < m /\ m <= n)
      BY <2>3, <2>4, <2>5, <2>7
    <3> QED BY <3>1, <2>5, <1>2
  <2>9. v.known /\ ~v.stopped =>
          \A m \in Mails : v.from < m /\ m <= n => v.count[m] > 0
    <3> SUFFICES ASSUME v.known, ~v.stopped, NEW m \in Mails, v.from < m, m <= n
                 PROVE  v.count[m] > 0
      OBVIOUS
    <3>1. v.count[m] = IF m \in p.ids THEN watch.count[m] + 1 ELSE watch.count[m]
      BY <2>3, <2>4
    <3>2. CASE m \in p.ids
      BY <3>1, <3>2, <2>5
    <3>3. CASE m \notin p.ids
      <4>1. m <= watch.base
        BY <3>3, <2>5, <2>7, <1>2
      <4> QED BY <4>1, <3>1, <3>3, <2>4, <2>5
    <3> QED BY <3>2, <3>3
  <2>10. GmailWatch(v, n)
    BY <2>4, <2>5, <2>8, <2>9, <1>2 DEF GmailWatch
  <2>11. WatchSound(v, mail, clock)
    BY <2>10, <1>1 DEF WatchSound
  <2> HIDE DEF Inv, n
  <2> QED BY <2>1, <2>3, <2>11, <1>1, CheckDoneKept DEF v
<1> QED BY <1>7, <1>8

\* A page lists messages that there are, and with a message every earlier one that is
\* not older than t.
LEMMA ListedFromTheStart ==
  ASSUME NEW t \in Nat, Len(mail) \in Nat
  PROVE  /\ Listed(t) \subseteq 1..Len(mail)
         /\ \A n \in Listed(t) : \A m \in 1..n : mail[m] >= t => m \in Listed(t)
<1>1. Listed(t) \subseteq 1..Len(mail)
  BY DEF Listed
<1>2. SUFFICES ASSUME NEW n \in Listed(t), NEW m \in 1..n, mail[m] >= t
               PROVE  m \in Listed(t)
  BY <1>1
<1> DEFINE Up(i) == {k \in 1..i : mail[k] >= t}
<1>3. n \in 1..Len(mail) /\ Cardinality(Up(n)) <= PageSize
  BY DEF Listed
<1>4. m \in 1..Len(mail) /\ Up(m) \subseteq Up(n)
  BY <1>3
<1>5. IsFiniteSet(Up(n))
  <2>1. IsFiniteSet(1..n)
    BY <1>3, FS_Interval
  <2>2. Up(n) \subseteq 1..n
    OBVIOUS
  <2> QED BY <2>1, <2>2, FS_Subset
<1>6. /\ Cardinality(Up(m)) <= Cardinality(Up(n)) /\ IsFiniteSet(Up(m))
  BY <1>4, <1>5, FS_Subset
<1>7. Cardinality(Up(m)) \in Nat /\ Cardinality(Up(n)) \in Nat /\ PageSize \in Nat
  BY <1>5, <1>6, FS_CardinalityType, ApiMailboxConstants
<1>8. Cardinality(Up(m)) <= PageSize
  BY <1>3, <1>6, <1>7
<1> QED BY <1>4, <1>8, <1>2 DEF Listed

LEMMA GraphListingKept ==
  ASSUME Inv, GraphListing
  PROVE  Inv'
<1> DEFINE fresh == Listed(watch.base) \ watch.seen
           seen == watch.seen \cup fresh
           last == {m \in fresh : \A k \in fresh : k <= m}
           full == Cardinality(seen) > SeenLimit
<1>1. /\ CheckAnswered /\ ~Gmail /\ watch \in WatchType
      /\ InOrder(mail, clock) /\ GraphWatch(watch, mail, clock)
      /\ Len(mail) \in 0..MaxMail /\ MaxMail \in Nat /\ Watcher \in Actors
      /\ mail \in Seq(0..MaxTicks) /\ clock \in Nat
      /\ UNCHANGED <<setup, srv, call, mail, clock>>
  BY Answer DEF GraphListing, WatchSound
<1>2. PICK base \in (IF fresh = {} THEN {watch.base} ELSE {mail[m] : m \in last}) :
        CheckDone(Emit([watch EXCEPT !.base = base, !.seen = IF full THEN {} ELSE seen,
                          !.forgot = IF full THEN watch.forgot \cup seen ELSE watch.forgot], fresh))
  BY DEF GraphListing
<1>3. /\ watch.base \in Nat /\ Listed(watch.base) \subseteq 1..Len(mail)
      /\ \A i \in Listed(watch.base) : \A m \in 1..i :
           mail[m] >= watch.base => m \in Listed(watch.base)
      /\ \A m \in 1..Len(mail) : mail[m] \in Nat /\ mail[m] <= clock
  <2>1. watch.base \in Nat /\ Len(mail) \in Nat
    BY <1>1 DEF WatchType
  <2>2. \A m \in 1..Len(mail) : mail[m] \in Nat
    BY <1>1, ApiMailboxConstants
  <2> QED BY <2>1, <2>2, <1>1, ListedFromTheStart DEF InOrder
<1>4. fresh \subseteq 1..Len(mail) /\ fresh \subseteq Mails /\ seen \subseteq Mails
      /\ fresh \cap watch.seen = {}
  BY <1>1, <1>3 DEF Mails, WatchType
<1>5. /\ base \in Nat /\ base <= clock
      /\ \A m \in 1..Len(mail) : watch.base <= mail[m] /\ mail[m] < base => m \in seen
  <2>1. CASE fresh = {}
    <3>1. base = watch.base
      BY <1>2, <2>1
    <3> QED BY <3>1, <1>1, <1>3 DEF GraphWatch
  <2>2. CASE fresh # {}
    <3>1. PICK l \in fresh : base = mail[l]
      BY <1>2, <2>2
    <3>2. l \in 1..Len(mail) /\ base \in Nat /\ base <= clock /\ l \in Listed(watch.base)
      BY <3>1, <1>3, <1>4
    <3>3. ASSUME NEW m \in 1..Len(mail), watch.base <= mail[m], mail[m] < base
          PROVE  m \in seen
      <4>1. ~(l <= m)
        BY <3>1, <3>2, <3>3, <1>1, <1>3 DEF InOrder
      <4>2. m \in 1..l /\ mail[m] >= watch.base
        BY <4>1, <3>2, <3>3, <1>1, <1>3
      <4>3. m \in Listed(watch.base)
        BY <4>2, <3>2, <1>3
      <4> QED BY <4>3
    <3> QED BY <3>2, <3>3
  <2> QED BY <2>1, <2>2
<1> DEFINE kept == IF full THEN {} ELSE seen
           forgot == IF full THEN watch.forgot \cup seen ELSE watch.forgot
           w == [watch EXCEPT !.base = base, !.seen = kept, !.forgot = forgot]
           e == Emit(w, fresh)
           v == [e EXCEPT !.at = "idle", !.ids = {}]
<1>6. CheckDone(e)
  BY <1>2
<1>7. /\ kept \in SUBSET Mails /\ forgot \in SUBSET Mails
      /\ kept \cup forgot = watch.seen \cup fresh \cup watch.forgot
      /\ kept \subseteq watch.seen \cup fresh /\ watch.forgot \subseteq forgot
  BY <1>1, <1>4 DEF WatchType
<1>8. \A m \in seen : m \in watch.seen \/ m \in fresh
  OBVIOUS
<1> HIDE DEF fresh, seen, last, full, kept, forgot
<1>9. /\ w \in WatchType /\ w.stopped = watch.stopped /\ w.known = watch.known
      /\ w.base = base /\ w.from = watch.from /\ w.seen = kept /\ w.forgot = forgot
      /\ w.count = watch.count
  BY <1>1, <1>5, <1>7 DEF WatchType
<1> HIDE DEF w
<1>10. /\ e \in WatchType /\ e.stopped = watch.stopped /\ e.known = watch.known
       /\ e.base = base /\ e.from = watch.from /\ e.seen = kept /\ e.forgot = forgot
       /\ watch.stopped => e.count = watch.count
       /\ ~watch.stopped => \A m \in Mails :
            e.count[m] = IF m \in fresh THEN watch.count[m] + 1 ELSE watch.count[m]
  BY <1>9, EmitCounts
<1> HIDE DEF e
<1>11. /\ v.at = "idle" /\ v.stopped = watch.stopped /\ v.known = watch.known
       /\ v.base = base /\ v.from = watch.from /\ v.seen = kept /\ v.forgot = forgot
       /\ v.count = e.count
  BY <1>10, Idle
<1> HIDE DEF v
<1>12. \A m \in Mails : /\ watch.count[m] \in Nat
                        /\ watch.count[m] > 0 => m \in watch.seen \cup watch.forgot
                        /\ watch.count[m] > 1 => m \in watch.forgot
                        /\ m \in watch.seen /\ ~watch.stopped => watch.count[m] > 0
  BY <1>1 DEF GraphWatch, WatchType
<1>13. \A m \in Mails : \/ v.count[m] = watch.count[m] /\ (m \in fresh => watch.stopped)
                        \/ v.count[m] = watch.count[m] + 1 /\ m \in fresh
  BY <1>10, <1>11
<1>14. \A m \in Mails : /\ v.count[m] > 0 => m \in v.seen \cup v.forgot
                        /\ v.count[m] > 1 => m \in v.forgot
                        /\ ~v.stopped /\ m \in seen => v.count[m] > 0
  <2> SUFFICES ASSUME NEW m \in Mails
               PROVE  /\ v.count[m] > 0 => m \in v.seen \cup v.forgot
                      /\ v.count[m] > 1 => m \in v.forgot
                      /\ ~v.stopped /\ m \in seen => v.count[m] > 0
    OBVIOUS
  <2>1. CASE v.count[m] = watch.count[m] /\ (m \in fresh => watch.stopped)
    BY <2>1, <1>7, <1>8, <1>11, <1>12
  <2>2. CASE v.count[m] = watch.count[m] + 1 /\ m \in fresh
    <3>1. m \notin watch.seen
      BY <2>2, <1>4
    <3>2. v.count[m] > 1 => watch.count[m] > 0
      BY <2>2, <1>12
    <3>3. v.count[m] > 0
      BY <2>2, <1>12
    <3> QED BY <2>2, <3>1, <3>2, <3>3, <1>7, <1>11, <1>12
  <2> QED BY <2>1, <2>2, <1>13
<1>15. v.known /\ ~v.stopped =>
         \A m \in 1..Len(mail) : v.from <= mail[m] /\ mail[m] < v.base => v.count[m] > 0
  <2> SUFFICES ASSUME v.known, ~v.stopped, NEW m \in 1..Len(mail),
                      v.from <= mail[m], mail[m] < v.base
               PROVE  v.count[m] > 0
    OBVIOUS
  <2>1. m \in Mails /\ mail[m] \in Nat
    BY <1>1, <1>3 DEF Mails
  <2>2. CASE mail[m] < watch.base
    <3>1. watch.count[m] > 0
      BY <2>2, <1>1, <1>11 DEF GraphWatch
    <3> QED BY <3>1, <2>1, <1>12, <1>13
  <2>3. CASE watch.base <= mail[m]
    <3>1. m \in seen
      BY <2>3, <1>5, <1>11
    <3> QED BY <3>1, <2>1, <1>8, <1>7, <1>11, <1>14
  <2> QED BY <2>1, <2>2, <2>3, <1>3
<1>16. GraphWatch(v, mail, clock)
  <2>1. \A m \in Mails : m \in v.seen => m \in seen
    BY <1>11 DEF kept, seen
  <2> QED BY <2>1, <1>5, <1>11, <1>14, <1>15 DEF GraphWatch
<1>17. WatchSound(v, mail, clock)
  BY <1>1, <1>16 DEF WatchSound
<1> HIDE DEF Inv
<1> QED BY <1>1, <1>6, <1>10, <1>17, CheckDoneKept DEF v

LEMMA StopKept ==
  ASSUME Inv, Stop
  PROVE  Inv'
<1> DEFINE v == [watch EXCEPT !.stopped = TRUE]
<1>1. /\ watch \in WatchType /\ WatchSound(watch, mail, clock)
      /\ watch.at = "idle" => watch.ids = {} /\ req[Watcher].at = "none"
      /\ watch' = v /\ UNCHANGED <<setup, tok, srv, req, call, mail, clock>>
  BY DEF Inv, Types, Watched, WatchSound, Stop
<1>2. /\ v \in WatchType /\ v.at = watch.at /\ v.ids = watch.ids /\ v.stopped
      /\ v.known = watch.known /\ v.base = watch.base /\ v.from = watch.from
      /\ v.cursor = watch.cursor /\ v.seen = watch.seen /\ v.forgot = watch.forgot
      /\ v.count = watch.count
  BY <1>1 DEF WatchType
<1> HIDE DEF v
<1>3. Gmail => GmailWatch(v, Len(mail))
  BY <1>1, <1>2 DEF WatchSound, GmailWatch
<1>4. ~Gmail => InOrder(mail, clock) /\ GraphWatch(v, mail, clock)
  BY <1>1, <1>2 DEF WatchSound, GraphWatch
<1>5. WatchSound(v, mail, clock)
  BY <1>3, <1>4 DEF WatchSound
<1>6. Asking'
  BY <1>1 DEF Inv, Types, Asking, Tokens, Numbered, Granted, Retried, Renews
<1> HIDE DEF Inv
<1> QED BY <1>1, <1>2, <1>5, <1>6, WatcherStep

-----------------------------------------------------------------------------
(* Mail and time.                                                          *)

LEMMA ArriveKept ==
  ASSUME Inv, Arrive
  PROVE  Inv'
<1>1. /\ mail \in Seq(0..MaxTicks) /\ Len(mail) < MaxMail /\ clock \in 0..MaxTicks
      /\ watch \in WatchType /\ WatchSound(watch, mail, clock) /\ MaxMail \in Nat /\ MaxTicks \in Nat
      /\ mail' = Append(mail, clock)
      /\ UNCHANGED <<setup, tok, srv, req, call, watch, clock>>
  BY ApiMailboxConstants DEF Inv, Types, Watched, WatchSound, Arrive
<1>2. /\ mail' \in Seq(0..MaxTicks) /\ Len(mail) \in Nat
      /\ Len(mail') = Len(mail) + 1 /\ Len(mail') <= MaxMail
      /\ \A m \in 1..Len(mail) : mail'[m] = mail[m]
      /\ mail'[Len(mail) + 1] = clock
  BY <1>1
<1>3. Gmail => GmailWatch(watch, Len(mail'))
  <2>1. watch.base \in Nat /\ watch.cursor \in Nat
    BY <1>1 DEF WatchType
  <2> QED BY <2>1, <1>1, <1>2 DEF WatchSound, GmailWatch
<1>4. ASSUME ~Gmail
      PROVE  InOrder(mail', clock) /\ GraphWatch(watch, mail', clock)
  <2>1. InOrder(mail, clock) /\ GraphWatch(watch, mail, clock) /\ watch.base \in Nat /\ clock \in Nat
    BY <1>1, <1>4 DEF WatchSound, WatchType
  <2>2. \A m \in 1..Len(mail') : m \in 1..Len(mail) \/ m = Len(mail) + 1
    BY <1>2
  <2>3. InOrder(mail', clock)
    <3>1. \A m \in 1..Len(mail') : mail'[m] <= clock
      BY <2>1, <2>2, <1>2 DEF InOrder
    <3>2. ASSUME NEW m \in 1..Len(mail'), NEW n \in 1..Len(mail'), m <= n
          PROVE  mail'[m] <= mail'[n]
      <4>1. CASE n = Len(mail) + 1
        BY <4>1, <3>1, <1>2
      <4>2. CASE n \in 1..Len(mail)
        <5>1. m \in 1..Len(mail)
          BY <4>2, <3>2, <1>2
        <5> QED BY <5>1, <4>2, <3>2, <2>1, <1>2 DEF InOrder
      <4> QED BY <4>1, <4>2, <2>2
    <3> QED BY <3>1, <3>2 DEF InOrder
  <2>4. watch.known /\ ~watch.stopped =>
          \A m \in 1..Len(mail') : watch.from <= mail'[m] /\ mail'[m] < watch.base
                                     => watch.count[m] > 0
    <3> SUFFICES ASSUME watch.known, ~watch.stopped, NEW m \in 1..Len(mail'),
                        watch.from <= mail'[m], mail'[m] < watch.base
                 PROVE  watch.count[m] > 0
      OBVIOUS
    <3>1. m # Len(mail) + 1
      BY <2>1, <1>2 DEF GraphWatch
    <3>2. m \in 1..Len(mail) /\ mail'[m] = mail[m]
      BY <3>1, <2>2, <1>2
    <3> QED BY <3>2, <2>1 DEF GraphWatch
  <2>5. GraphWatch(watch, mail', clock)
    BY <2>1, <2>4 DEF GraphWatch
  <2> QED BY <2>3, <2>5
<1>5. Watched'
  BY <1>1, <1>3, <1>4 DEF Inv, Watched, GmailWatch, GraphWatch, InOrder, Gmail
<1>6. Asking' /\ Calls'
  BY <1>1 DEF Inv, Types, Asking, Tokens, Numbered, Granted, Retried, Renews, Calls, CallSound
<1>7. call' \in [Users -> CallType] /\ watch' \in WatchType /\ clock' \in 0..MaxTicks
  BY <1>1 DEF Inv, Types
<1> QED BY <1>2, <1>5, <1>6, <1>7 DEF Inv, Types, Asking

LEMMA TickKept ==
  ASSUME Inv, Tick
  PROVE  Inv'
<1>1. /\ mail \in Seq(0..MaxTicks) /\ MaxTicks \in Nat /\ clock \in 0..MaxTicks /\ ~Gmail
      /\ watch \in WatchType /\ InOrder(mail, clock) /\ GraphWatch(watch, mail, clock)
      /\ clock < MaxTicks /\ clock' = clock + 1
      /\ UNCHANGED <<setup, tok, srv, req, call, watch, mail>>
  BY ApiMailboxConstants DEF Inv, Types, Watched, Tick
<1>2. clock' \in 0..MaxTicks
  BY <1>1
<1>3. InOrder(mail, clock')
  <2>1. \A m \in 1..Len(mail) : mail[m] \in 0..MaxTicks
    BY <1>1
  <2> QED BY <2>1, <1>1 DEF InOrder
<1>4. GraphWatch(watch, mail, clock')
  <2>1. watch.base \in Nat /\ clock \in Nat
    BY <1>1 DEF WatchType
  <2>2. watch.base <= clock
    BY <1>1 DEF GraphWatch
  <2>3. watch.base <= clock'
    BY <2>1, <2>2, <1>1
  <2> QED BY <2>3, <1>1, Zenon DEF GraphWatch
<1>5. Watched'
  BY <1>1, <1>3, <1>4 DEF Inv, Watched, GraphWatch, InOrder, Gmail
<1>6. Asking' /\ Calls'
  BY <1>1 DEF Inv, Types, Asking, Tokens, Numbered, Granted, Retried, Renews, Calls, CallSound
<1>7. call' \in [Users -> CallType] /\ watch' \in WatchType /\ mail' \in Seq(0..MaxTicks)
      /\ (Len(mail) <= MaxMail)'
  BY <1>1 DEF Inv, Types
<1> QED BY <1>2, <1>5, <1>6, <1>7 DEF Inv, Types, Asking

LEMMA SameKept ==
  ASSUME Inv, UNCHANGED vars
  PROVE  Inv'
<1>1. UNCHANGED <<setup, tok, srv, req, call, watch, mail, clock>>
  BY DEF vars
<1>2. Types'
  BY <1>1 DEF Inv, Types
<1>3. Tokens' /\ Calls'
  BY <1>1 DEF Inv, Tokens, Numbered, Granted, Retried, Renews, Calls, CallSound
<1>4. Watched'
  BY <1>1 DEF Inv, Watched, GmailWatch, GraphWatch, InOrder, Gmail
<1> QED BY <1>2, <1>3, <1>4 DEF Inv

-----------------------------------------------------------------------------
(* The theorems.                                                           *)

LEMMA InitInv ==
  ASSUME Init
  PROVE  Inv
<1>1. /\ setup \in Setups
      /\ tok = [access |-> 0, fresh |-> FALSE, grant |-> 1, presented |-> 1, inflight |-> "none"]
      /\ srv = [live |-> {}, issued |-> 0, grant |-> 1, lost |-> FALSE, forgotten |-> 0]
      /\ req = [a \in Actors |-> NoRequest]
      /\ call = [u \in Users |-> [at |-> "new", step |-> 1, performed |-> [s \in 1..2 |-> 0]]]
      /\ watch = [at |-> "idle", stopped |-> FALSE, known |-> FALSE, base |-> 0, from |-> 0,
                  cursor |-> 0, ids |-> {}, seen |-> {}, forgot |-> {},
                  count |-> [m \in Mails |-> 0]]
      /\ mail = <<>> /\ clock = 0
  BY DEF Init
<1>2. MaxMail \in Nat /\ MaxTicks \in Nat
  BY ApiMailboxConstants
<1>3. tok \in TokType /\ srv \in SrvType /\ clock \in 0..MaxTicks
  BY <1>1, <1>2 DEF TokType, SrvType
<1>4. req \in [Actors -> ReqType] /\ \A a \in Actors : req[a] = NoRequest
  BY <1>1, NoRequestType
<1>5. call \in [Users -> CallType]
  BY <1>1 DEF CallType
<1>6. watch \in WatchType
  BY <1>1 DEF WatchType
<1>7. mail \in Seq(0..MaxTicks) /\ Len(mail) = 0
  BY <1>1
<1>8. Types
  BY <1>1, <1>2, <1>3, <1>4, <1>5, <1>6, <1>7 DEF Types
<1>9. Tokens
  <2>1. Numbered
    BY <1>1, <1>4, NoRequestType DEF Numbered
  <2>2. Granted
    BY <1>1 DEF Granted
  <2> QED BY <2>1, <2>2, <1>4, NoRequestType DEF Tokens, Retried
<1>10. Calls
  <2> SUFFICES ASSUME NEW u \in Users
               PROVE  CallSound(call[u], req[u].at # "none")
    BY DEF Calls
  <2>1. req[u].at = "none"
    BY <1>4, NoRequestType DEF Actors
  <2>2. /\ call[u].at = "new" /\ call[u].step = 1
        /\ call[u].performed[1] = 0 /\ call[u].performed[2] = 0
    BY <1>1
  <2> QED BY <2>1, <2>2 DEF CallSound
<1>11. Watched
  <2>1. watch.ids = {} /\ req[Watcher].at = "none"
    BY <1>1, <1>4, NoRequestType DEF Actors
  <2>2. /\ watch.at = "idle" /\ ~watch.known /\ watch.base = 0 /\ watch.seen = {}
        /\ \A m \in Mails : watch.count[m] = 0
    BY <1>1
  <2>3. GmailWatch(watch, Len(mail))
    BY <2>2, <1>7 DEF GmailWatch
  <2>4. InOrder(mail, clock) /\ GraphWatch(watch, mail, clock)
    BY <2>2, <1>1, <1>7 DEF InOrder, GraphWatch
  <2> QED BY <2>1, <2>3, <2>4 DEF Watched
<1> QED BY <1>8, <1>9, <1>10, <1>11 DEF Inv

LEMMA InvStep ==
  ASSUME Inv, [Next]_vars
  PROVE  Inv'
<1> HIDE DEF Inv
<1>1. CASE UNCHANGED vars
  BY <1>1, SameKept
<1>2. CASE RefreshEnds \/ Told \/ TellingFails \/ RefreshFails
  BY <1>2, RefreshSucceedsKept, ToldKept, RejectedKept DEF RefreshEnds
<1>3. ASSUME NEW u \in Users, Start(u)
      PROVE  Inv'
  BY <1>3, StartKept
<1>4. ASSUME NEW a \in Actors, Answered(a)
      PROVE  Inv'
  <2>1. CASE a = Watcher /\ CheckGoesOn
    BY <2>1, GmailProfileKept, GmailHistoryGoneKept, GmailHistoryKept, GraphListingKept
       DEF CheckGoesOn
  <2>2. CASE Unauthorized(a) \/ Refused(a) \/ (a \in Users /\ Done(a))
    BY <2>2, UnauthorizedKept, RefusedKept, DoneKept
  <2> QED BY <2>1, <2>2, <1>4 DEF Answered
<1>5. ASSUME NEW a \in Actors, ConnectionFails(a)
      PROVE  Inv'
  BY <1>5, ConnectionFailsKept
<1>6. CASE Poll \/ Stop \/ Arrive \/ Tick \/ Age \/ Revoke \/ ForgetHistory
  BY <1>6, PollKept, StopKept, ArriveKept, TickKept, ServersKept
<1> QED BY <1>1, <1>2, <1>3, <1>4, <1>5, <1>6 DEF Next

LEMMA InvAlways == Spec => []Inv
<1>1. Init => Inv
  BY InitInv
<1>2. Inv /\ [Next]_vars => Inv'
  BY InvStep
<1> QED BY <1>1, <1>2, PTL DEF Spec

LEMMA InvTypes ==
  ASSUME Inv
  PROVE  TypeOK
<1>1. /\ Types /\ Numbered
  BY DEF Inv, Tokens
<1>2. /\ tok.access \in Nat /\ tok.fresh \in BOOLEAN /\ tok.grant \in Nat /\ tok.presented \in Nat
      /\ tok.inflight \in {"none", "asking", "telling"}
  BY <1>1 DEF Types, TokType
<1>3. /\ srv.live \subseteq 1..srv.issued /\ srv.grant \in Nat /\ srv.lost \in BOOLEAN
      /\ srv.forgotten \in 0..MaxMail /\ srv.issued \in Nat
  BY <1>1 DEF Types, Numbered, SrvType
<1>4. ASSUME NEW a \in Actors
      PROVE  /\ req[a].at \in {"none", "token", "sent"} /\ req[a].retry \in BOOLEAN
             /\ req[a].token \in 0..srv.issued /\ req[a].rejected \in 0..srv.issued
  <2>1. req[a] \in ReqType
    BY <1>1 DEF Types
  <2>2. req[a].token <= srv.issued /\ req[a].rejected <= srv.issued
    BY <1>1 DEF Numbered
  <2> QED BY <2>1, <2>2, <1>3 DEF ReqType
<1>5. /\ watch.at \in {"idle", "busy"} /\ watch.stopped \in BOOLEAN /\ watch.known \in BOOLEAN
      /\ watch.ids \subseteq Mails /\ watch.seen \subseteq Mails /\ watch.forgot \subseteq Mails
  BY <1>1 DEF Types, WatchType
<1>6. /\ setup \in Setups /\ DOMAIN req = Actors
      /\ call \in [Users -> [at : {"new", "busy", "ok", "failed"}, step : 1..2,
                             performed : [1..2 -> 0..2]]]
      /\ mail \in Seq(0..MaxTicks) /\ Len(mail) <= MaxMail
  BY <1>1 DEF Types, CallType
<1> QED BY <1>2, <1>3, <1>4, <1>5, <1>6 DEF TypeOK

\* The token providers, and requests sent twice: whoever asks for a token while another
\* refresh is under way, and however a rejected token, a failing callback and a lost
\* answer fall between them, a request is not repeated with the token just rejected, the
\* refresh token that is kept is the last one issued unless an answer was lost, and no
\* step of a call is performed twice or left out of a call that succeeds.
THEOREM TokensAlwaysInStep == Spec => []TokensInStep
<1>1. Inv => TokensInStep
  <2> SUFFICES ASSUME Inv PROVE TokensInStep
    OBVIOUS
  <2>1. \A a \in Actors : req[a].at = "sent" /\ req[a].retry
                            => req[a].token = 0 \/ req[a].token # req[a].rejected
    BY DEF Inv, Tokens, Retried
  <2>2. tok.grant = srv.grant \/ srv.lost
    BY DEF Inv, Tokens, Granted
  <2>3. ASSUME NEW u \in Users
        PROVE  /\ \A s \in 1..2 : call[u].performed[s] <= 1
               /\ call[u].at = "ok" =>
                    /\ call[u].performed[2] = 1
                    /\ setup.call = "change" => call[u].performed[1] = 1
    <3>1. CallSound(call[u], req[u].at # "none")
      BY DEF Inv, Calls
    <3>2. \A s \in 1..2 : s = 1 \/ s = 2
      OBVIOUS
    <3> QED BY <3>1, <3>2 DEF CallSound
  <2> QED BY <2>1, <2>2, <2>3 DEF TokensInStep
<1> QED BY <1>1, InvAlways, PTL

\* The polling watchers: GmailMailbox never reports a message twice, GraphMailbox only
\* one it has forgotten since, and neither reads past a message it has not reported,
\* whatever fails, arrives or is forgotten between the pages of a check.
THEOREM EachReportedOnce == Spec => []ReportedOnce
<1>1. Inv => ReportedOnce
  <2> SUFFICES ASSUME Inv PROVE ReportedOnce
    OBVIOUS
  <2>1. /\ Types /\ Watched /\ watch \in WatchType /\ Len(mail) \in 0..MaxMail /\ MaxMail \in Nat
        /\ \A m \in Mails : watch.count[m] \in Nat
    BY ApiMailboxConstants DEF Inv, Types, WatchType
  <2>2. \A m \in Mails : watch.count[m] > 1 => m \in watch.forgot
    BY <2>1 DEF Watched, GmailWatch, GraphWatch
  <2>3. ASSUME NEW m \in Mails, Due(m), Passed(m)
        PROVE  watch.count[m] > 0
    <3>1. watch.known /\ ~watch.stopped /\ m \in 1..Len(mail)
      BY <2>1, <2>3 DEF Due, Mails
    <3>2. CASE Gmail
      <4>1. watch.from \in Nat /\ m \in Nat /\ m > watch.from /\ m <= watch.base
        BY <3>2, <2>1, <2>3, <3>1 DEF Due, Passed, WatchType
      <4> QED BY <4>1, <3>1, <3>2, <2>1 DEF Watched, GmailWatch
    <3>3. CASE ~Gmail
      <4>1. mail[m] \in Nat /\ watch.from \in Nat
        BY <3>1, <2>1, ApiMailboxConstants DEF Types, WatchType
      <4>2. watch.from <= mail[m] /\ mail[m] < watch.base
        BY <4>1, <3>3, <2>3 DEF Due, Passed
      <4> QED BY <4>2, <3>1, <3>3, <2>1 DEF Watched, GraphWatch
    <3> QED BY <3>2, <3>3
  <2> QED BY <2>2, <2>3, InvTypes DEF ReportedOnce
<1> QED BY <1>1, InvAlways, PTL

=============================================================================
