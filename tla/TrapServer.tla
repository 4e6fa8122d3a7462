----------------------------- MODULE TrapServer -----------------------------
(***************************************************************************)
(* The trap server behind its SMTP port: packages/trap/src (the stores,    *)
(* server/HttpServer.ts, CatchServer.ts and the page that ui.ts serves)    *)
(* and waitForMessage() of packages/testing/src/index.ts.                  *)
(*                                                                         *)
(* A request of the page is handled, and its answer reaches the page, in   *)
(* the order the page made it.                                             *)
(***************************************************************************)
EXTENDS Naturals, Sequences, SequencesExt

CONSTANTS MaxMessages  \* maxMessages

ASSUME TrapConstants == MaxMessages \in Nat \ {0}

VARIABLES
  trap,    \* the process: the messages in memory and in the file, the event stream's client, stop()
  page,    \* the page: its list, the message it is on and the state of its event stream
  calls,   \* the page's requests, oldest first
  events,  \* events on their way to the page
  waiter,  \* waitForMessage()
  budget   \* what the user may still do, and how often the process may be killed

trapVars == <<trap, page, calls, events, waiter, budget>>

\* Definitions that are used nowhere below are variants of the definition that
\* follows them, each with a mistake that a property is meant to catch.

-----------------------------------------------------------------------------
(* The stores.                                                             *)

\* add(): the oldest message makes room.
Add(mem, m) == LET all == Append(mem, m) IN IF Len(all) > MaxMessages THEN Tail(all) ELSE all
WithId(mem, id) == {i \in DOMAIN mem : mem[i].id = id}
\* Ids are unique: it is what the page's filter leaves, too.
Without(mem, id) ==
  LET at == WithId(mem, id)
  IN IF at = {} THEN mem ELSE RemoveAt(mem, CHOOSE i \in at : \A k \in at : i <= k)
MarkRead(mem, id) == [i \in DOMAIN mem |-> IF mem[i].id = id THEN [mem[i] EXCEPT !.read = TRUE] ELSE mem[i]]

\* A line of the file is whole, torn (the process died while it was written, and
\* nothing ends it) or corrupt (a line was appended to a torn one).
Whole(m) == [msg |-> m, state |-> "whole"]
NoFile == [exists |-> FALSE, lines |-> <<>>]
Torn(file) == file.lines # <<>> /\ Last(file.lines).state = "torn"
AppendTo(file, m) ==
  [exists |-> TRUE,
   lines |-> IF Torn(file) THEN Append(Front(file.lines), [msg |-> m, state |-> "corrupt"])
             ELSE Append(file.lines, Whole(m))]
Rewrite(mem) == [exists |-> TRUE, lines |-> [i \in DOMAIN mem |-> Whole(mem[i])]]

\* load(): one line after the other; a line that is no JSON is skipped.
LoadLine(mem, l) == IF l.state = "whole" THEN Add(mem, l.msg) ELSE mem
Load(file) ==
  LET n == Len(file.lines)
      from[k \in 0..n] == IF k = 0 THEN <<>> ELSE LoadLine(from[k - 1], file.lines[k])
  IN from[n]

\* What a process that is killed while it writes leaves: an append its last line torn, a
\* rewrite the lines it came to, the last of them torn or whole.
Upto(file, k) == [exists |-> TRUE, lines |-> SubSeq(file.lines, 1, k)]
TornAt(file, k) ==
  [exists |-> TRUE,
   lines |-> Append(SubSeq(file.lines, 1, k - 1), [msg |-> file.lines[k].msg, state |-> "torn"])]
Appends(file) == file.lines # <<>> /\ file = AppendTo(trap.file, Last(file.lines).msg)
Partly(file) ==
  LET n == Len(file.lines)
  IN IF Appends(file)
     THEN {IF Torn(trap.file) THEN trap.file ELSE TornAt(file, n)}
     ELSE {Upto(file, k) : k \in 0..n} \cup {TornAt(file, k) : k \in 1..n}

\* Nothing of the process is left; what waits for it hears of it.
Died(file) ==
  /\ trap' = [trap EXCEPT !.up = "down", !.mem = <<>>, !.file = file, !.sse = FALSE]
  /\ calls' = <<>>
  /\ events' = IF trap.sse THEN Append(events, "error") ELSE events
  /\ waiter' = IF waiter.state = "waiting" THEN [waiter EXCEPT !.state = "gone"] ELSE waiter
  /\ page' = IF page.stream = "connecting" THEN [page EXCEPT !.stream = "disconnected"] ELSE page
Killed(file) ==
  /\ budget.kills > 0
  /\ budget' = [budget EXCEPT !.kills = @ - 1]
  /\ \E f \in Partly(file) : Died(f)

\* broadcast().
Broadcast(event) == events' = IF trap.sse THEN Append(events, event) ELSE events

\* store.add() and onMessage().
NewMessage(content) == [id |-> trap.count + 1, read |-> FALSE, msg |-> content]
Stored(m) == trap' = [trap EXCEPT !.mem = Add(@, m), !.file = AppendTo(@, m), !.count = @ + 1]
Capture(m) == Stored(m) /\ Broadcast("message") /\ UNCHANGED <<page, calls, waiter, budget>>

-----------------------------------------------------------------------------
(* Requests.                                                               *)

Running == trap.up # "down"
Accepting == trap.up \in {"running", "closing"}

\* The page's oldest request that is not answered.
Asked(what) ==
  /\ Running
  /\ \E i \in DOMAIN calls : /\ calls[i].state = "asked" /\ calls[i].what = what
                             /\ \A k \in 1..(i - 1) : calls[k].state # "asked"
Request == CHOOSE i \in DOMAIN calls : calls[i].state = "asked" /\ \A k \in 1..(i - 1) : calls[k].state # "asked"
Answer(state, list) == calls' = [calls EXCEPT ![Request].state = state, ![Request].list = list]

\* Newest first.
Listing(mem) == Reverse([i \in DOMAIN mem |-> [id |-> mem[i].id, read |-> mem[i].read]])

ServeList == Asked("list") /\ Answer("answered", Listing(trap.mem)) /\ UNCHANGED <<trap, page, events, waiter, budget>>

Unknown(what) ==
  /\ Asked(what) /\ WithId(trap.mem, calls[Request].id) = {}
  /\ Answer("not found", <<>>) /\ UNCHANGED <<trap, page, events, waiter, budget>>

\* Opening a message marks it as read.
OpenedInMemory(mem, id) == trap.file
Opened(mem, id) == IF \E i \in WithId(mem, id) : ~mem[i].read THEN Rewrite(MarkRead(mem, id)) ELSE trap.file
ServeMessage ==
  LET id == calls[Request].id  file == Opened(trap.mem, id) IN
  \/ Unknown("message")
  \/ /\ Asked("message") /\ WithId(trap.mem, id) # {}
     /\ \/ /\ trap' = [trap EXCEPT !.mem = MarkRead(@, id), !.file = file]
           /\ Answer("answered", <<>>) /\ UNCHANGED <<page, events, waiter, budget>>
        \/ file # trap.file /\ Killed(file)

ServeDelete ==
  LET id == calls[Request].id  file == Rewrite(Without(trap.mem, id)) IN
  \/ Unknown("delete")
  \/ /\ Asked("delete") /\ WithId(trap.mem, id) # {}
     /\ \/ /\ trap' = [trap EXCEPT !.mem = Without(@, id), !.file = file]
           /\ Broadcast("deleted") /\ Answer("answered", <<>>) /\ UNCHANGED <<page, waiter, budget>>
        \/ Killed(file)

\* clear() does not make the directory: before the first message it throws, and
\* nothing catches that.
ServeClear ==
  /\ Asked("clear")
  /\ IF trap.file.exists
     THEN \/ /\ trap' = [trap EXCEPT !.mem = <<>>, !.file = Rewrite(<<>>)]
             /\ Broadcast("cleared") /\ Answer("answered", <<>>) /\ UNCHANGED <<page, waiter, budget>>
          \/ Killed(Rewrite(<<>>))
     ELSE Died(NoFile) /\ UNCHANGED budget

\* GET /api/events.
ServeEvents ==
  /\ Accepting /\ page.stream = "connecting" /\ ~trap.sse
  /\ trap' = [trap EXCEPT !.sse = TRUE] /\ events' = <<"open">>
  /\ UNCHANGED <<page, calls, waiter, budget>>

-----------------------------------------------------------------------------
(* The page.                                                               *)

AskFor(asked, what, id) == Append(asked, [what |-> what, id |-> id, state |-> "asked", list |-> <<>>])

\* renderList(): a message that is gone is left.
Render(p) == IF \E i \in DOMAIN p.list : p.list[i].id = p.current THEN p ELSE [p EXCEPT !.current = 0]

\* loadMessages(); a server that is down answers nothing.
Reloaded(asked) == IF Accepting THEN AskFor(asked, "list", 0) ELSE asked
ConnectSSE(p) == [p EXCEPT !.stream = IF Accepting THEN "connecting" ELSE "disconnected"]

Acts == budget.clicks > 0 /\ budget' = [budget EXCEPT !.clicks = @ - 1]

OpenPage ==
  /\ page.stream = "none" /\ Acts
  /\ page' = ConnectSSE(page) /\ calls' = Reloaded(calls)
  /\ UNCHANGED <<trap, events, waiter>>

Click(what, id) ==
  /\ page.stream # "none" /\ Accepting /\ Acts
  /\ calls' = AskFor(calls, what, id)
  /\ page' = IF what = "message" THEN [page EXCEPT !.current = id] ELSE page
  /\ UNCHANGED <<trap, events, waiter>>
OpenMsg == \E i \in DOMAIN page.list : Click("message", page.list[i].id)
DeleteMsg == page.current # 0 /\ Click("delete", page.current)
ClearAll == Click("clear", 0)

\* The button reads "Refresh" while the stream is live, else "Reconnect".
Refresh ==
  /\ page.stream = "live" /\ Acts /\ calls' = Reloaded(calls)
  /\ UNCHANGED <<trap, page, events, waiter>>
Reconnect ==
  /\ page.stream \in {"off", "disconnected"} /\ Acts /\ page' = ConnectSSE(page)
  /\ UNCHANGED <<trap, calls, events, waiter>>

\* Deleting a message or all of them ends as it does when there is none.
AfterAnswer(p, call) ==
  CASE call.what = "list" -> Render([p EXCEPT !.list = call.list])
    [] call.what = "message" -> Render([p EXCEPT !.list = MarkRead(@, call.id)])
    [] call.what = "delete" -> [p EXCEPT !.list = Without(@, p.current), !.current = 0]
    [] call.what = "clear" -> [p EXCEPT !.list = <<>>, !.current = 0]
PageAnswered ==
  /\ calls # <<>> /\ Head(calls).state # "asked"
  /\ page' = AfterAnswer(page, Head(calls))
  /\ calls' = IF \/ Head(calls).what = "list"
                 \/ Head(calls).what = "message" /\ Head(calls).state = "not found"
              THEN Tail(calls) ELSE Reloaded(Tail(calls))
  /\ UNCHANGED <<trap, events, waiter, budget>>

\* The list is asked for on every event, and again when the stream opens: what
\* happened before it did sent none.
ReloadsButOnOpen == {"message", "deleted", "cleared"}
Reloads == {"open", "message", "deleted", "cleared"}
StreamAfter(event) ==
  CASE event = "open" -> "live" [] event = "shutdown" -> "off"
    [] event = "error" /\ page.stream # "off" -> "disconnected" [] OTHER -> page.stream
PageEvent ==
  /\ events # <<>>
  /\ LET event == Head(events)  over == event \in {"shutdown", "error"} IN
     /\ page' = [page EXCEPT !.stream = StreamAfter(event)]
     /\ calls' = IF event \in Reloads THEN Reloaded(calls) ELSE calls
     /\ events' = IF over THEN <<>> ELSE Tail(events)
     /\ trap' = IF over THEN [trap EXCEPT !.sse = FALSE] ELSE trap
  /\ UNCHANGED <<waiter, budget>>

-----------------------------------------------------------------------------
(* waitForMessage(): looks at the store every interval until its deadline. *)

Wait(to) ==
  /\ waiter.state = "none" /\ Running
  /\ waiter' = [state |-> "waiting", to |-> to, late |-> FALSE, found |-> 0]
  /\ UNCHANGED <<trap, page, calls, events, budget>>
DeadlinePasses ==
  /\ waiter.state = "waiting" /\ ~waiter.late
  /\ waiter' = [waiter EXCEPT !.late = TRUE]
  /\ UNCHANGED <<trap, page, calls, events, budget>>

\* Of the newest message that fits.
MatchesCriteria(m) == \E i \in DOMAIN m.msg.head : waiter.to \in ToSet(m.msg.head[i].to)
Match(mem) ==
  {i \in DOMAIN mem : MatchesCriteria(mem[i]) /\ \A k \in DOMAIN mem : k > i => ~MatchesCriteria(mem[k])}
Check ==
  /\ waiter.state = "waiting" /\ Running
  /\ \/ \E i \in Match(trap.mem) : waiter' = [waiter EXCEPT !.state = "resolved", !.found = trap.mem[i].id]
     \/ Match(trap.mem) = {} /\ waiter.late /\ waiter' = [waiter EXCEPT !.state = "rejected"]
  /\ UNCHANGED <<trap, page, calls, events, budget>>

-----------------------------------------------------------------------------
(* stop() and the next start; the helper stops the server after its tests. *)

Stop ==
  /\ trap.up = "running" /\ waiter.state # "waiting" /\ Acts
  /\ trap' = [trap EXCEPT !.up = "closing"] /\ Broadcast("shutdown")
  /\ UNCHANGED <<page, calls, waiter>>

\* After a delay the streams end, and no connection is accepted.
EndStreams ==
  /\ trap.up = "closing"
  /\ trap' = [trap EXCEPT !.up = "closed", !.sse = FALSE] /\ Broadcast("error")
  /\ page' = IF page.stream = "connecting" /\ ~trap.sse THEN [page EXCEPT !.stream = "disconnected"] ELSE page
  /\ UNCHANGED <<calls, waiter, budget>>

\* close() of a server ends with its last connection.
Stopped(connected) ==
  /\ trap.up = "closed" /\ ~connected /\ \A i \in DOMAIN calls : calls[i].state # "asked"
  /\ trap' = [trap EXCEPT !.up = "down", !.mem = <<>>]
  /\ UNCHANGED <<page, calls, events, waiter, budget>>

Kill == budget.kills > 0 /\ Running /\ Died(trap.file) /\ budget' = [budget EXCEPT !.kills = @ - 1]

Started ==
  /\ trap.up = "down"
  /\ trap' = [trap EXCEPT !.up = "running", !.mem = Load(trap.file)]
  /\ UNCHANGED <<page, calls, events, waiter, budget>>

TrapInit(file, clicks, kills) ==
  /\ trap = [up |-> "running", mem |-> Load(file), file |-> file, sse |-> FALSE, count |-> 0]
  /\ page = [list |-> <<>>, current |-> 0, stream |-> "none"]
  /\ calls = <<>> /\ events = <<>>
  /\ waiter = [state |-> "none", to |-> "", late |-> FALSE, found |-> 0]
  /\ budget = [clicks |-> clicks, kills |-> kills]

Serve == ServeList \/ ServeMessage \/ ServeDelete \/ ServeClear \/ ServeEvents
User == OpenPage \/ OpenMsg \/ DeleteMsg \/ ClearAll \/ Refresh \/ Reconnect \/ Stop
Page == PageAnswered \/ PageEvent
Acting == Serve \/ User \/ Page \/ EndStreams \/ Kill

-----------------------------------------------------------------------------
(* Properties of a trap whose messages come from Capture().                *)

\* The file holds what the process has in memory: a restart brings back every
\* message with its mark and none that was deleted or made room.  A line that is torn
\* at the end takes nothing with it until a message is appended to it.
StoreSurvivesRestart ==
  (trap.up # "down" /\ \A i \in DOMAIN trap.file.lines : trap.file.lines[i].state # "corrupt")
  => Load(trap.file) = trap.mem

\* A page with a live stream shows the messages there are, with their marks, once
\* nothing is under way (ui.ts, HttpServer.ts).
InStep == page.list = Listing(trap.mem)
PageInStep == (page.stream = "live" /\ Accepting /\ calls = <<>> /\ events = <<>>) => InStep
=============================================================================
