--------------------------- MODULE RunEventStream ---------------------------
(***************************************************************************)
(* A browser following one run: the server-sent event stream of            *)
(* srcdiffvisual/runs/events.py, the browser's EventSource, which          *)
(* reconnects with Last-Event-ID, and the polling loop that runs beside it *)
(* (visualizeHistoryPair in frontend/src/api.ts).  The run itself changes  *)
(* as RunStore allows, between any two reads of the stream or the poller.  *)
(*                                                                         *)
(* An event is represented by its sequence number, its index in            *)
(* events[Watched].  Heartbeats and the events' texts are left out.  That  *)
(* a response ends without the listener having closed its EventSource,     *)
(* which would make the browser reconnect to a finished run for ever, is   *)
(* no action: EndsComplete states that it cannot happen.                   *)
(***************************************************************************)
EXTENDS RunStore

CONSTANTS
    Watched,     \* the run being followed
    BatchLimit,  \* read_events' limit
    MaxDrops     \* bound on the connections lost

ASSUME WatchedIsRun == Watched \in Runs
ASSUME LimitsArePositive == BatchLimit \in Nat \ {0} /\ MaxDrops \in Nat

VARIABLES
    stream,    \* the server's generator: where it is, its cursor, the batch it yields
    wire,      \* sequence numbers sent and not yet received
    source,    \* the EventSource: "none", "connecting", "open" or "closed"
    received,  \* the sequence numbers handed to onEvent, in order
    polled,    \* the status the polling loop saw last, "failed-request" when it gave up
    drops      \* connections lost so far

followVars == <<rows, events, now, stream, wire, source, received, polled, drops>>

Log == events[Watched]
Status == rows[Watched].status
Idle == [at |-> "none", cursor |-> 0, batch |-> <<>>]

FollowInit ==
    /\ StoreInit
    /\ stream = Idle /\ wire = <<>> /\ source = "none" /\ received = <<>>
    /\ polled = "absent" /\ drops = 0

\* The browser's last event ID: the id of the last event it dispatched.
LastEventId == IF received = <<>> THEN 0 ELSE received[Len(received)]

-----------------------------------------------------------------------------
(* The browser.                                                            *)

\* The POST answered with a run: open the stream and start polling it, or
\* close it at once when the run was finished already (a reused artifact).
Follows ==
    /\ source = "none" /\ Status # "absent"
    /\ source' = IF Status \in Active THEN "connecting" ELSE "closed"
    /\ polled' = Status
    /\ UNCHANGED <<storeVars, stream, wire, received, drops>>

\* Mutant: the header is ignored and every connection replays the log.
ConnectsFromStart ==
    /\ source = "connecting"
    /\ source' = "open"
    /\ stream' = [at |-> "reading", cursor |-> 0, batch |-> <<>>]
    /\ wire' = <<>>
    /\ UNCHANGED <<storeVars, received, polled, drops>>

\* GET /api/runs/{run_id}/events with the Last-Event-ID header.
Connects ==
    /\ source = "connecting"
    /\ source' = "open"
    /\ stream' = [at |-> "reading", cursor |-> LastEventId, batch |-> <<>>]
    /\ wire' = <<>>
    /\ UNCHANGED <<storeVars, received, polled, drops>>

\* The event carries a terminal status.
ReceivesTerminal == Log[Head(wire)].status \in Terminal

\* The listener hands the event on and closes the stream on a terminal one.
Receives ==
    /\ source = "open" /\ wire # <<>>
    /\ received' = Append(received, Head(wire))
    /\ IF ReceivesTerminal
       THEN source' = "closed" /\ wire' = <<>> /\ stream' = Idle
       ELSE wire' = Tail(wire) /\ UNCHANGED <<source, stream>>
    /\ UNCHANGED <<storeVars, polled, drops>>

\* Mutant: the source gives up when the connection breaks.
DropsForGood ==
    /\ source = "open" /\ drops < MaxDrops
    /\ drops' = drops + 1
    /\ source' = "closed" /\ wire' = <<>> /\ stream' = Idle
    /\ UNCHANGED <<storeVars, received, polled>>

\* The connection breaks; what was on the wire is lost and EventSource retries.
Drops ==
    /\ source = "open" /\ drops < MaxDrops
    /\ drops' = drops + 1
    /\ source' = "connecting" /\ wire' = <<>> /\ stream' = Idle
    /\ UNCHANGED <<storeVars, received, polled>>

\* awaitCompletedHistoryRun: each poll reads the run; a terminal status or a
\* failed request ends the loop, and the finally clause closes the stream.  A
\* terminal status never changes, so reading it is one step with acting on it.
Polls ==
    /\ polled \in Active
    /\ polled' \in {Status, "failed-request"}
    /\ IF polled' \in Active THEN UNCHANGED <<stream, wire, source>>
       ELSE source' = "closed" /\ wire' = <<>> /\ stream' = Idle
    /\ UNCHANGED <<storeVars, received, drops>>

-----------------------------------------------------------------------------
(* The server's generator.                                                 *)

\* read_events: the events after the cursor, at most BatchLimit of them.
ReadsEvents ==
    /\ stream.at = "reading"
    /\ LET unread == Len(Log) - stream.cursor
           size == IF unread < BatchLimit THEN unread ELSE BatchLimit
       IN  stream' = [stream EXCEPT !.at = "yielding",
                      !.batch = [i \in 1 .. size |-> stream.cursor + i]]
    /\ UNCHANGED <<storeVars, wire, source, received, polled, drops>>

\* One yield, which moves the cursor.
YieldsEvent ==
    /\ stream.at = "yielding" /\ stream.batch # <<>>
    /\ stream' = [stream EXCEPT !.cursor = Head(stream.batch), !.batch = Tail(@)]
    /\ wire' = Append(wire, Head(stream.batch))
    /\ UNCHANGED <<storeVars, source, received, polled, drops>>

\* Mutant: the cursor is not compared with the latest sequence.
ReadsRunStatusOnly ==
    /\ stream.at = "yielding" /\ stream.batch = <<>>
    /\ stream' = [stream EXCEPT !.at = IF Status \in Terminal THEN "ended" ELSE "reading"]
    /\ UNCHANGED <<storeVars, wire, source, received, polled, drops>>

\* read_run after the batch: status and latest sequence in one query.
ReadsRun ==
    /\ stream.at = "yielding" /\ stream.batch = <<>>
    /\ stream' = [stream EXCEPT !.at =
          IF Status \in Terminal /\ stream.cursor >= LatestSequence(Watched)
          THEN "ended" ELSE "reading"]
    /\ UNCHANGED <<storeVars, wire, source, received, polled, drops>>

ServerStep == ReadsEvents \/ YieldsEvent \/ ReadsRun
BrowserStep == Connects \/ Receives

StoreMoves == StoreNext /\ UNCHANGED <<stream, wire, source, received, polled, drops>>

FollowNext ==
    \/ Follows \/ BrowserStep \/ Drops \/ Polls
    \/ ServerStep
    \/ StoreMoves

\* The generator sleeps between polls but is not blocked; the browser retries.
FairStream == WF_followVars(ServerStep) /\ WF_followVars(BrowserStep)

FollowSpec == FollowInit /\ [][FollowNext]_followVars /\ FairStream

-----------------------------------------------------------------------------
(* Properties.                                                             *)

\* Reconnection neither loses nor duplicates events: whatever was dropped, the
\* i-th event the browser is handed is event i of the run's log.
ReceivedInOrder == \A i \in 1 .. Len(received) : received[i] = i

\* The server ends the response only when the run is over and every event was
\* sent, although it reads the events and the run in two transactions; the
\* terminal event is then still on its way, so the listener will close the
\* source before the browser could take the end for a lost connection.  And a
\* source the listener closed (not the poller) has shown the whole log of a
\* finished run: no event that matters follows the one it stops at.
EndsComplete ==
    /\ stream.at = "ended" =>
          /\ Status \in Terminal /\ stream.cursor = Len(Log)
          /\ wire # <<>> /\ wire[Len(wire)] = Len(Log)
    /\ source = "closed" /\ polled \in Active =>
          Status \in Terminal /\ Len(received) = Len(Log)

\* A follower of a finished run gets its whole log, over however many
\* connections, unless the poller learns the end first and closes the stream.
StreamDelivers ==
    (source # "none" /\ Status \in Terminal)
        ~> (Len(received) = Len(Log) \/ polled \notin Active)

=============================================================================
