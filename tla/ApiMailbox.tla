----------------------------- MODULE ApiMailbox -----------------------------
(***************************************************************************)
(* Mail over an HTTP API: GmailMailbox and GraphMailbox and their polling  *)
(* watchers (src/src/mailbox), GmailTransport and GraphTransport,          *)
(* authorizedRequest and the token providers of src/src/oauth they share.  *)
(*                                                                         *)
(* The calls of an application and one watcher make requests; each asks    *)
(* the provider for a token, and once more when the server answers 401.    *)
(* A step is what runs up to the next await, or one answer of the server.  *)
(* The API server and the token endpoint are modelled from how the code    *)
(* uses them.                                                              *)
(***************************************************************************)
EXTENDS Naturals, Sequences, FiniteSets

CONSTANTS
  Users,       \* calls of the application
  Watcher,     \* the watcher, an actor like a user
  Setups,      \* the API, the token provider and what the calls do (see Setup)
  PageSize,    \* messages in a page of GraphMailbox
  HistorySize, \* messages in a page of Gmail's history
  SeenLimit,   \* ids GraphMailbox remembers
  MaxMail,     \* bound: messages that arrive
  MaxTicks,    \* bound: distinct times of arrival
  MaxFaults,   \* bound: failed requests and refreshes, revocations, forgotten history
  MaxAges      \* bound: times the access token grows old

Setup == [api : {"gmail", "graph"},
          provider : {"google", "microsoft", "serviceAccount", "appOnly"},
          call : {"reply", "change"}]

\* One message fewer than a page arrives at one time, and no more than the watcher
\* remembers; see the README.
ASSUME ApiMailboxConstants ==
  /\ Watcher \notin Users /\ Setups \subseteq Setup
  /\ PageSize \in Nat \ {0} /\ HistorySize \in Nat \ {0} /\ SeenLimit \in Nat \ {0}
  /\ {MaxMail, MaxTicks, MaxFaults, MaxAges} \subseteq Nat

\* Definitions that are used nowhere below are variants of the definition that
\* follows them, each with a mistake that a property is meant to catch.

VARIABLES
  setup,
  tok,     \* the provider: what its closure holds
  srv,     \* the token endpoint and what the API server still knows
  req,     \* the request of each actor
  call,    \* the application's calls
  watch,   \* the watcher: PollingWatcher and the closure of check()
  mail,    \* when each message of the folder arrived
  clock,
  faults,
  ages

vars == <<setup, tok, srv, req, call, watch, mail, clock, faults, ages>>

Actors == Users \cup {Watcher}
Mails == 1..MaxMail
Gmail == setup.api = "gmail"

-----------------------------------------------------------------------------
(* Types.                                                                  *)

\* Tokens are numbered as they are issued; 0 is undefined.
TypeOK ==
  /\ setup \in Setups
  /\ tok.access \in Nat /\ tok.fresh \in BOOLEAN /\ tok.grant \in Nat /\ tok.presented \in Nat
  /\ tok.inflight \in {"none", "asking", "telling"}
  /\ srv.live \subseteq 1..srv.issued /\ srv.grant \in Nat /\ srv.lost \in BOOLEAN
  /\ srv.forgotten \in 0..MaxMail
  /\ DOMAIN req = Actors
  /\ \A a \in Actors : /\ req[a].at \in {"none", "token", "sent"} /\ req[a].retry \in BOOLEAN
                       /\ req[a].token \in 0..srv.issued /\ req[a].rejected \in 0..srv.issued
  /\ call \in [Users -> [at : {"new", "busy", "ok", "failed"}, step : 1..2,
                         performed : [1..2 -> 0..2]]]
  /\ watch.at \in {"idle", "busy"} /\ watch.stopped \in BOOLEAN /\ watch.known \in BOOLEAN
  /\ watch.ids \subseteq Mails /\ watch.seen \subseteq Mails /\ watch.forgot \subseteq Mails
  /\ mail \in Seq(0..MaxTicks) /\ Len(mail) <= MaxMail

NoRequest == [at |-> "none", retry |-> FALSE, token |-> 0, rejected |-> 0]

-----------------------------------------------------------------------------
(* The token providers.                                                    *)

\* createTokenProvider renews with a refresh token, and Microsoft replaces that
\* token; the app-only providers ask with an assertion or a secret.
Renews == setup.provider \in {"google", "microsoft"}
Rotates == setup.provider = "microsoft"

GetTokenTrusting(a, r, invalid) ==
  IF tok.access # 0 /\ tok.fresh
  THEN /\ req' = [req EXCEPT ![a] = [r EXCEPT !.at = "sent", !.token = tok.access]]
       /\ UNCHANGED tok
  ELSE /\ req' = [req EXCEPT ![a] = [r EXCEPT !.at = "token"]]
       /\ tok' = [tok EXCEPT !.inflight = IF @ = "none" THEN "asking" ELSE @,
                             !.presented = IF tok.inflight = "none" THEN tok.grant ELSE @]

\* getToken({ invalid }): a cached token that is not about to expire, else the one
\* refresh under way, or a new one.  Only createTokenProvider forgets the token the
\* server rejected.
GetToken(a, r, invalid) ==
  IF ~invalid /\ tok.access # 0 /\ tok.fresh
  THEN /\ req' = [req EXCEPT ![a] = [r EXCEPT !.at = "sent", !.token = tok.access]]
       /\ UNCHANGED tok
  ELSE /\ req' = [req EXCEPT ![a] = [r EXCEPT !.at = "token"]]
       /\ tok' = [tok EXCEPT !.access = IF invalid /\ Renews THEN 0 ELSE @,
                             !.inflight = IF @ = "none" THEN "asking" ELSE @,
                             !.presented = IF tok.inflight = "none" THEN tok.grant ELSE @]

Waiting == {a \in Actors : req[a].at = "token"}

\* The shared promise is settled: everyone who waits sends the request, or fails.
Resolve(token) ==
  /\ req' = [a \in Actors |->
               IF a \in Waiting THEN [req[a] EXCEPT !.at = "sent", !.token = token] ELSE req[a]]
  /\ UNCHANGED <<call, watch>>
CallsFailed(who) ==
  call' = [u \in Users |-> IF u \in who THEN [call[u] EXCEPT !.at = "failed"] ELSE call[u]]
CheckEndsForGood == [watch EXCEPT !.ids = {}]

\* A check that failed: its ids are dropped and the timer is set again.
CheckEnds == [watch EXCEPT !.at = "idle", !.ids = {}]
Reject ==
  /\ req' = [a \in Actors |-> IF a \in Waiting THEN NoRequest ELSE req[a]]
  /\ CallsFailed(Waiting)
  /\ watch' = IF Watcher \in Waiting THEN CheckEnds ELSE watch

\* tokenRequest(): the endpoint accepts the refresh token it issued last and issues
\* an access token, and with Microsoft the next refresh token.
Accepts == Renews => tok.presented = srv.grant
Issued == [srv EXCEPT !.issued = @ + 1, !.live = @ \cup {srv.issued + 1},
                      !.grant = IF Rotates THEN @ + 1 ELSE @]

\* refresh() in createTokenProvider: the tokens are stored, then the callbacks are
\* awaited.  cached(): the token is stored and the promise settled at once.
RefreshSucceeds ==
  /\ tok.inflight = "asking" /\ Accepts
  /\ srv' = Issued
  /\ IF Renews
     THEN /\ tok' = [tok EXCEPT !.access = srv'.issued, !.fresh = TRUE, !.grant = srv'.grant,
                                !.inflight = "telling"]
          /\ UNCHANGED <<req, call, watch>>
     ELSE /\ tok' = [tok EXCEPT !.access = srv'.issued, !.fresh = TRUE, !.inflight = "none"]
          /\ Resolve(srv'.issued)
  /\ UNCHANGED <<setup, mail, clock, faults, ages>>

\* onRefreshToken and onTokens are done: the promise gives the access token there is
\* now, which a caller whose token was rejected meanwhile has cleared.
Told ==
  /\ tok.inflight = "telling"
  /\ tok' = [tok EXCEPT !.inflight = "none"]
  /\ Resolve(tok.access)
  /\ UNCHANGED <<setup, srv, mail, clock, faults, ages>>

\* A callback throws, or rejects.
TellingFails ==
  /\ tok.inflight = "telling" /\ faults < MaxFaults
  /\ tok' = [tok EXCEPT !.inflight = "none"]
  /\ Reject
  /\ faults' = faults + 1
  /\ UNCHANGED <<setup, srv, mail, clock, ages>>

\* invalid_grant: the refresh token is not the one issued last.
RefreshRefused ==
  /\ tok.inflight = "asking" /\ ~Accepts
  /\ tok' = [tok EXCEPT !.inflight = "none"]
  /\ Reject
  /\ UNCHANGED <<setup, srv, mail, clock, faults, ages>>

\* The token request fails: nothing was issued, or the answer is lost.
RefreshFails ==
  /\ tok.inflight = "asking" /\ faults < MaxFaults
  /\ tok' = [tok EXCEPT !.inflight = "none"]
  /\ \/ UNCHANGED srv
     \/ Accepts /\ srv' = [Issued EXCEPT !.lost = @ \/ Rotates]
  /\ Reject
  /\ faults' = faults + 1
  /\ UNCHANGED <<setup, mail, clock, ages>>

-----------------------------------------------------------------------------
(* Requests.                                                               *)

\* authorizedRequest(): a first 401 asks the provider for another token.
Unauthorized(a) ==
  /\ req[a].at = "sent" /\ req[a].token \notin srv.live /\ ~req[a].retry
  /\ GetToken(a, [req[a] EXCEPT !.retry = TRUE, !.rejected = req[a].token], TRUE)
  /\ UNCHANGED <<setup, srv, call, watch, mail, clock, faults, ages>>

\* The next request of a call, or its end.
NextRequest(u) ==
  IF call[u].step = 1
  THEN /\ GetToken(u, NoRequest, FALSE)
       /\ call' = [call EXCEPT ![u].step = 2]
  ELSE /\ req' = [req EXCEPT ![u] = NoRequest]
       /\ call' = [call EXCEPT ![u].at = "ok"]
       /\ UNCHANGED tok

\* GmailTransport.send() with threadLookup: a look-up that is refused is skipped.
LookUp(u) == setup.call = "reply" /\ call[u].step = 1

\* assertOk() and request(): an answer that is no success fails the call or the poll.
GivesUp(a) ==
  /\ req' = [req EXCEPT ![a] = NoRequest]
  /\ CallsFailed({a})
  /\ watch' = IF a = Watcher THEN CheckEnds ELSE watch
  /\ UNCHANGED tok

\* The server answers an error: a second 401, or a fault of its own.
Refused(a) ==
  /\ req[a].at = "sent"
  /\ \/ req[a].token \notin srv.live /\ req[a].retry /\ UNCHANGED faults
     \/ req[a].token \in srv.live /\ faults < MaxFaults /\ faults' = faults + 1
  /\ IF a \in Users /\ (a \in Users => LookUp(a))
     THEN NextRequest(a) /\ UNCHANGED watch
     ELSE GivesUp(a)
  /\ UNCHANGED <<setup, srv, mail, clock, ages>>

Performs(u) == [call EXCEPT ![u].performed[call[u].step] = @ + 1]

\* The connection fails, before the server has handled the request or after.
ConnectionFails(a) ==
  /\ req[a].at = "sent" /\ faults < MaxFaults
  /\ faults' = faults + 1
  /\ req' = [req EXCEPT ![a] = NoRequest]
  /\ \/ CallsFailed({a})
     \/ a \in Users /\ req[a].token \in srv.live
          /\ call' = [Performs(a) EXCEPT ![a].at = "failed"]
  /\ watch' = IF a = Watcher THEN CheckEnds ELSE watch
  /\ UNCHANGED <<setup, tok, srv, mail, clock, ages>>

-----------------------------------------------------------------------------
(* The application's calls: a reply sent with GmailTransport and a thread  *)
(* look-up; setSeen(), move() or delete() of two messages, one after the   *)
(* other.                                                                  *)

Start(u) ==
  /\ call[u].at = "new"
  /\ call' = [call EXCEPT ![u].at = "busy"]
  /\ GetToken(u, NoRequest, FALSE)
  /\ UNCHANGED <<setup, srv, watch, mail, clock, faults, ages>>

Done(u) ==
  /\ req[u].at = "sent" /\ req[u].token \in srv.live
  /\ IF call[u].step = 1
     THEN /\ GetToken(u, NoRequest, FALSE)
          /\ call' = [Performs(u) EXCEPT ![u].step = 2]
     ELSE /\ req' = [req EXCEPT ![u] = NoRequest]
          /\ call' = [Performs(u) EXCEPT ![u].at = "ok"]
          /\ UNCHANGED tok
  /\ UNCHANGED <<setup, srv, watch, mail, clock, faults, ages>>

-----------------------------------------------------------------------------
(* The watcher.                                                            *)

\* PollingWatcher: ids are emitted unless stop() was called meanwhile.
Emit(w, ids) ==
  IF w.stopped THEN w ELSE [w EXCEPT !.count = [m \in Mails |-> IF m \in ids THEN @[m] + 1 ELSE @[m]]]

\* The timer fires.  The first check of GraphMailbox only looks at the clock.
Poll ==
  /\ watch.at = "idle" /\ ~watch.stopped
  /\ IF ~Gmail /\ ~watch.known
     THEN /\ watch' = [watch EXCEPT !.known = TRUE, !.base = clock, !.from = clock]
          /\ UNCHANGED <<tok, req>>
     ELSE /\ watch' = [watch EXCEPT !.at = "busy", !.cursor = watch.base]
          /\ GetToken(Watcher, NoRequest, FALSE)
  /\ UNCHANGED <<setup, srv, call, mail, clock, faults, ages>>

CheckAnswered == req[Watcher].at = "sent" /\ req[Watcher].token \in srv.live

CheckDone(w) ==
  /\ watch' = [w EXCEPT !.at = "idle", !.ids = {}]
  /\ req' = [req EXCEPT ![Watcher] = NoRequest]
  /\ UNCHANGED tok

\* The profile: the id of the history so far.
GmailProfile ==
  /\ Gmail /\ CheckAnswered /\ ~watch.known
  /\ CheckDone([watch EXCEPT !.known = TRUE, !.base = Len(mail), !.from = Len(mail)])
  /\ UNCHANGED <<setup, srv, call, mail, clock, faults, ages>>

\* 404: the history no longer goes back so far; `reset' is emitted.
GmailHistoryGone ==
  /\ Gmail /\ CheckAnswered /\ watch.known /\ watch.base < srv.forgotten
  /\ CheckDone([watch EXCEPT !.known = FALSE])
  /\ UNCHANGED <<setup, srv, call, mail, clock, faults, ages>>

HistoryPageSaved(w, last) == [w EXCEPT !.ids = @ \cup (w.cursor + 1)..last, !.cursor = last, !.base = last]

\* A page of history, from where the page before it ended.
HistoryPage(w, last) == [w EXCEPT !.ids = @ \cup (w.cursor + 1)..last, !.cursor = last]

GmailHistory ==
  /\ Gmail /\ CheckAnswered /\ watch.known /\ watch.base >= srv.forgotten
  /\ LET n == Len(mail)
         more == watch.cursor + HistorySize < n
         w == HistoryPage(watch, IF more THEN watch.cursor + HistorySize ELSE n)
     IN IF more
        THEN watch' = w /\ GetToken(Watcher, NoRequest, FALSE)
        ELSE CheckDone(Emit([w EXCEPT !.base = n], w.ids))
  /\ UNCHANGED <<setup, srv, call, mail, clock, faults, ages>>

\* Graph lists a page of the messages not older than t, the oldest first.
Listed(t) ==
  {m \in 1..Len(mail) : /\ mail[m] >= t
                        /\ Cardinality({k \in 1..m : mail[k] >= t}) <= PageSize}

\* Those reported already are left out; the next listing begins where this one ended.
GraphListing ==
  /\ ~Gmail /\ CheckAnswered
  /\ LET fresh == Listed(watch.base) \ watch.seen
         seen == watch.seen \cup fresh
         last == {m \in fresh : \A k \in fresh : k <= m}
         full == Cardinality(seen) > SeenLimit
     IN \E base \in IF fresh = {} THEN {watch.base} ELSE {mail[m] : m \in last} :
          CheckDone(Emit([watch EXCEPT !.base = base, !.seen = IF full THEN {} ELSE seen,
                                       !.forgot = IF full THEN @ \cup seen ELSE @], fresh))
  /\ UNCHANGED <<setup, srv, call, mail, clock, faults, ages>>

\* stop(): a check under way runs to its end.
Stop ==
  /\ ~watch.stopped
  /\ watch' = [watch EXCEPT !.stopped = TRUE]
  /\ UNCHANGED <<setup, tok, srv, req, call, mail, clock, faults, ages>>

-----------------------------------------------------------------------------
(* Mail, time and the servers.                                             *)

PerTick == CHOOSE n \in {PageSize - 1, SeenLimit} : n <= PageSize - 1 /\ n <= SeenLimit

Arrive ==
  /\ Len(mail) < MaxMail
  /\ ~Gmail => Cardinality({m \in 1..Len(mail) : mail[m] = clock}) < PerTick
  /\ mail' = Append(mail, clock)
  /\ UNCHANGED <<setup, tok, srv, req, call, watch, clock, faults, ages>>

Tick ==
  /\ ~Gmail /\ clock < MaxTicks
  /\ clock' = clock + 1
  /\ UNCHANGED <<setup, tok, srv, req, call, watch, mail, faults, ages>>

\* The access token comes within skewMs of its expiry.
Age ==
  /\ tok.fresh /\ ages < MaxAges
  /\ tok' = [tok EXCEPT !.fresh = FALSE]
  /\ ages' = ages + 1
  /\ UNCHANGED <<setup, srv, req, call, watch, mail, clock, faults>>

\* The access tokens issued so far are revoked or have expired.
Revoke ==
  /\ srv.live # {} /\ faults < MaxFaults
  /\ srv' = [srv EXCEPT !.live = {}]
  /\ faults' = faults + 1
  /\ UNCHANGED <<setup, tok, req, call, watch, mail, clock, ages>>

ForgetHistory ==
  /\ Gmail /\ srv.forgotten < Len(mail) /\ faults < MaxFaults
  /\ srv' = [srv EXCEPT !.forgotten = Len(mail)]
  /\ faults' = faults + 1
  /\ UNCHANGED <<setup, tok, req, call, watch, mail, clock, ages>>

-----------------------------------------------------------------------------
Init ==
  /\ setup \in Setups
  /\ tok = [access |-> 0, fresh |-> FALSE, grant |-> 1, presented |-> 1, inflight |-> "none"]
  /\ srv = [live |-> {}, issued |-> 0, grant |-> 1, lost |-> FALSE, forgotten |-> 0]
  /\ req = [a \in Actors |-> NoRequest]
  /\ call = [u \in Users |-> [at |-> "new", step |-> 1, performed |-> [s \in 1..2 |-> 0]]]
  /\ watch = [at |-> "idle", stopped |-> FALSE, known |-> FALSE, base |-> 0, from |-> 0,
              cursor |-> 0, ids |-> {}, seen |-> {}, forgot |-> {},
              count |-> [m \in Mails |-> 0]]
  /\ mail = <<>> /\ clock = 0 /\ faults = 0 /\ ages = 0

RefreshEnds == RefreshSucceeds \/ RefreshRefused
CheckGoesOn == GmailProfile \/ GmailHistoryGone \/ GmailHistory \/ GraphListing
Answered(a) ==
  \/ Unauthorized(a)
  \/ Refused(a)
  \/ a \in Users /\ Done(a)
  \/ a = Watcher /\ CheckGoesOn

Next ==
  \/ RefreshEnds \/ Told \/ TellingFails \/ RefreshFails
  \/ \E u \in Users : Start(u)
  \/ \E a \in Actors : Answered(a) \/ ConnectionFails(a)
  \/ Poll \/ Stop
  \/ Arrive \/ Tick \/ Age \/ Revoke \/ ForgetHistory

Spec == Init /\ [][Next]_vars

\* A refresh is answered or its timer ends it, the application's callbacks end, and the
\* timer of the watcher fires.  That the mailbox answers is not assumed: its requests
\* have no timer.
FairSpec ==
  /\ Spec
  /\ WF_vars(RefreshEnds \/ RefreshFails) /\ WF_vars(Told) /\ WF_vars(Poll)

-----------------------------------------------------------------------------
(* Properties.                                                             *)

Due(m) ==
  /\ watch.known /\ ~watch.stopped /\ m <= Len(mail)
  /\ IF Gmail THEN m > watch.from ELSE mail[m] >= watch.from
Passed(m) == IF Gmail THEN m <= watch.base ELSE mail[m] < watch.base

\* A watcher reports a message once, however its pages, its failed checks and new
\* mail fall between each other: GmailMailbox never twice, GraphMailbox twice only
\* when it has emptied its list of ids since.  And the place it has read up to never
\* passes a message it has not reported.
ReportedOnce ==
  /\ TypeOK
  /\ \A m \in Mails : watch.count[m] > 1 => m \in watch.forgot
  /\ \A m \in Mails : Due(m) /\ Passed(m) => watch.count[m] > 0

\* What several callers and a rejected token do to each other: the token a request
\* is repeated with is never the one just rejected, the refresh token that is kept
\* is the one the endpoint issued last unless an answer of it was lost, no request
\* is performed twice though it may be sent twice, and a call that succeeds has been
\* performed to its end.
TokensInStep ==
  /\ \A a \in Actors : req[a].at = "sent" /\ req[a].retry => req[a].token = 0 \/ req[a].token # req[a].rejected
  /\ tok.grant = srv.grant \/ srv.lost
  /\ \A u \in Users : \A s \in 1..2 : call[u].performed[s] <= 1
  /\ \A u \in Users : call[u].at = "ok" =>
       /\ call[u].performed[2] = 1
       /\ setup.call = "change" => call[u].performed[1] = 1

SignedOut == Renews /\ tok.grant # srv.grant

\* No request of a is on its way for ever.
Answers(a) == []<>(req[a].at # "sent")

\* Mail that arrives while it is watched is reported in the end, unless the watcher is
\* stopped, resets, the refresh token is lost, or a request of the watcher's own is never
\* answered, which stops its polling for good; and every call is answered whose own
\* requests are, whoever else's refresh it waits for.
EveryMailReported ==
  /\ Answers(Watcher) =>
       \A m \in Mails : Due(m) ~> (watch.count[m] > 0 \/ ~Due(m) \/ SignedOut)
  /\ \A u \in Users :
       Answers(u) => (call[u].at = "busy" ~> call[u].at \in {"ok", "failed"})
=============================================================================
