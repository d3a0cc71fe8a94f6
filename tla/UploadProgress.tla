--------------------------- MODULE UploadProgress ---------------------------
(***************************************************************************)
(* One upload: the browser posts it and opens a progress stream under a    *)
(* random token (useSrcDiffData.ts, api.ts); the handler of the post       *)
(* publishes messages into the ProgressBroker of web/_progress.py, and the *)
(* handler of the stream takes them out of the token's channel.  Post and  *)
(* stream are served by two threads of one server process.  (Served by two *)
(* processes they do not meet at all: a documented limitation.)            *)
(*                                                                         *)
(* Messages are numbered; the last one, Steps + 1, is the "complete" or    *)
(* "error" event.  Times, the "connected" greeting and the messages' texts *)
(* are left out.  The broker's lock makes each look-up one action; taking  *)
(* a channel and putting a message into its queue are two.                 *)
(***************************************************************************)
EXTENDS Naturals, Sequences

CONSTANTS
    Steps,        \* progress messages of a build
    MaxStreams,   \* bound on the connections the EventSource opens
    MaxChannels   \* bound on the channels made for the token

ASSUME BoundsArePositive ==
    Steps \in Nat /\ MaxStreams \in Nat \ {0} /\ MaxChannels \in Nat \ {0}

VARIABLES
    registered,  \* the channel the broker has for the token, or NoChannel
    queues,      \* per channel, the messages put and not yet taken
    made,        \* channels made so far
    handler,     \* the handler of the post
    streams,     \* per connection, its generator
    listener,    \* the EventSource: "none", "connecting", "open", "closed"
    connection,  \* the connection the EventSource has
    sent,        \* messages yielded on it and not yet received
    messages     \* messages shown to the user

uploadVars ==
    <<registered, queues, made, handler, streams, listener, connection, sent, messages>>
brokerVars == <<registered, queues, made>>
browserVars == <<listener, connection, sent, messages>>

NoChannel == 0
Connections == 1 .. MaxStreams
Channels == 1 .. MaxChannels
IsTerminal(message) == message = Steps + 1

UploadInit ==
    /\ registered = NoChannel /\ made = 0
    /\ queues = [ch \in Channels |-> <<>>]
    /\ handler = [at |-> "none", message |-> 1, channel |-> NoChannel]
    /\ streams = [s \in Connections |-> [at |-> "none", channel |-> NoChannel]]
    /\ listener = "none" /\ connection = 0 /\ sent = <<>> /\ messages = <<>>

-----------------------------------------------------------------------------
(* The broker.                                                             *)

\* _get_or_create_channel returns ch.
GetOrCreate(ch) ==
    \/ ch = registered /\ ch # NoChannel /\ UNCHANGED <<registered, made>>
    \/ /\ registered = NoChannel /\ made < MaxChannels
       /\ ch = made + 1
       /\ registered' = ch /\ made' = ch

\* The channel's ten minutes without a message are over and the next look-up of
\* any token prunes it.
Expires ==
    /\ registered # NoChannel
    /\ registered' = NoChannel
    /\ UNCHANGED <<queues, made, handler, streams, browserVars>>

-----------------------------------------------------------------------------
(* The post.                                                               *)

\* handleSubmit opens the stream and posts the form.
Submits ==
    /\ listener = "none"
    /\ listener' = "connecting"
    /\ handler' = [handler EXCEPT !.at = "parsing"]
    /\ UNCHANGED <<brokerVars, streams, connection, sent, messages>>

\* An unacceptable form is answered with 400 before the token is known.
Rejects ==
    /\ handler.at = "parsing"
    /\ handler' = [handler EXCEPT !.at = "answering"]
    /\ UNCHANGED <<brokerVars, streams, browserVars>>

Accepts ==
    /\ handler.at = "parsing"
    /\ handler' = [handler EXCEPT !.at = "building"]
    /\ UNCHANGED <<brokerVars, streams, browserVars>>

\* _build_event looks the channel up for the times, before _publish does again.
BuildsEvent ==
    /\ handler.at = "building"
    /\ \E ch \in Channels : GetOrCreate(ch)
    /\ handler' = [handler EXCEPT !.at = "publishing"]
    /\ UNCHANGED <<queues, streams, browserVars>>

TakesChannel ==
    /\ handler.at = "publishing"
    /\ \E ch \in Channels :
          /\ GetOrCreate(ch)
          /\ handler' = [handler EXCEPT !.at = "putting", !.channel = ch]
    /\ UNCHANGED <<queues, streams, browserVars>>

\* The build goes on to its next message, or fails: then the message is the last.
PutsEvent ==
    /\ handler.at = "putting"
    /\ queues' = [queues EXCEPT ![handler.channel] = Append(@, handler.message)]
    /\ handler' = IF IsTerminal(handler.message) THEN [handler EXCEPT !.at = "answering"]
                  ELSE [handler EXCEPT !.at = "building", !.message = @ + 1]
    /\ UNCHANGED <<registered, made, streams, browserVars>>

\* The finally clause of handleSubmit closes the stream.
ReceivesAnswer ==
    /\ handler.at = "answering"
    /\ handler' = [handler EXCEPT !.at = "answered"]
    /\ listener' = "closed" /\ sent' = <<>>
    /\ UNCHANGED <<brokerVars, streams, connection, messages>>

-----------------------------------------------------------------------------
(* The stream.                                                             *)

\* A request for the stream reaches its handler, even if the browser has closed
\* the source in the meantime.
OpensStream ==
    /\ listener = "connecting" \/ (listener = "closed" /\ connection = 0)
    /\ connection < MaxStreams
    /\ \E ch \in Channels :
          /\ GetOrCreate(ch)
          /\ streams' = [streams EXCEPT ![connection + 1] = [at |-> "waiting", channel |-> ch]]
    /\ connection' = connection + 1
    /\ listener' = IF listener = "closed" THEN listener ELSE "open"
    /\ UNCHANGED <<queues, handler, sent, messages>>

Connected(s) == listener = "open" /\ connection = s

\* Mutant: the message stays in the queue.
PeeksAtEvent(s) ==
    /\ streams[s].at = "waiting" /\ queues[streams[s].channel] # <<>>
    /\ LET message == Head(queues[streams[s].channel])
       IN  /\ streams' = [streams EXCEPT ![s].at =
                 IF IsTerminal(message) \/ ~Connected(s) THEN "removing" ELSE "waiting"]
           /\ sent' = IF Connected(s) /\ Len(sent) < 3 THEN Append(sent, message) ELSE sent
    /\ UNCHANGED <<registered, made, queues, handler, listener, connection, messages>>

\* Mutant: the terminal message does not end the loop.
TakesForEver(s) ==
    /\ streams[s].at = "waiting" /\ queues[streams[s].channel] # <<>>
    /\ queues' = [queues EXCEPT ![streams[s].channel] = Tail(@)]
    /\ sent' = IF Connected(s) THEN Append(sent, Head(queues[streams[s].channel])) ELSE sent
    /\ UNCHANGED <<registered, made, handler, streams, listener, connection, messages>>

\* One turn of the generator: a message is taken and yielded.  Yielding to a
\* connection that is gone ends the generator; a generator that has nothing to
\* yield does not notice that its connection is gone.
TakesEvent(s) ==
    /\ streams[s].at = "waiting" /\ queues[streams[s].channel] # <<>>
    /\ LET message == Head(queues[streams[s].channel])
       IN  /\ queues' = [queues EXCEPT ![streams[s].channel] = Tail(@)]
           /\ streams' = [streams EXCEPT ![s].at =
                 IF IsTerminal(message) \/ ~Connected(s) THEN "removing" ELSE "waiting"]
           /\ sent' = IF Connected(s) THEN Append(sent, message) ELSE sent
    /\ UNCHANGED <<registered, made, handler, listener, connection, messages>>

\* The finally clause removes the channel if it is still the token's.
RemovesChannel(s) ==
    /\ streams[s].at = "removing"
    /\ registered' = IF registered = streams[s].channel THEN NoChannel ELSE registered
    /\ streams' = [streams EXCEPT ![s].at = "ended"]
    /\ UNCHANGED <<queues, made, handler, browserVars>>

ReceivesMessage ==
    /\ listener = "open" /\ sent # <<>>
    /\ messages' = Append(messages, Head(sent))
    /\ sent' = Tail(sent)
    /\ UNCHANGED <<brokerVars, handler, streams, listener, connection>>

\* The connection breaks, or the response ended: the EventSource connects again,
\* for the listener does not close it on the last message.
Reconnects ==
    /\ listener = "open" /\ connection < MaxStreams
    /\ listener' = "connecting" /\ sent' = <<>>
    /\ UNCHANGED <<brokerVars, handler, streams, connection, messages>>

-----------------------------------------------------------------------------

HandlerStep == BuildsEvent \/ TakesChannel \/ PutsEvent
StreamStep(s) == TakesEvent(s) \/ RemovesChannel(s)

\* No connection breaks, the answer arrives before the EventSource connects again
\* (three seconds), and no step takes ten minutes.
CalmNext ==
    \/ Submits \/ Rejects \/ Accepts \/ HandlerStep \/ ReceivesAnswer
    \/ OpensStream \/ ReceivesMessage
    \/ \E s \in Connections : StreamStep(s)

UploadNext == CalmNext \/ Reconnects \/ Expires

\* Threads are scheduled and requests arrive.
UploadFairness ==
    /\ WF_uploadVars(Accepts) /\ WF_uploadVars(HandlerStep) /\ WF_uploadVars(ReceivesAnswer)
    /\ WF_uploadVars(OpensStream) /\ WF_uploadVars(ReceivesMessage)
    /\ \A s \in Connections : WF_uploadVars(StreamStep(s))

UploadSpec == UploadInit /\ [][UploadNext]_uploadVars /\ UploadFairness
CalmSpec == UploadInit /\ [][CalmNext]_uploadVars /\ UploadFairness

-----------------------------------------------------------------------------
(* Properties.                                                             *)

\* Whatever reconnects and expires, a message is shown at most once and never
\* after a later one; and as long as one channel and one connection were enough,
\* the messages shown are the first ones without a gap, whichever of post and
\* stream reaches the broker first.
ShownInOrder ==
    /\ \A i, j \in 1 .. Len(messages) : i < j => messages[i] < messages[j]
    /\ made <= 1 /\ connection <= 1 => \A i \in 1 .. Len(messages) : messages[i] = i

\* A stream that waits while the upload is built ends, and with it the thread that
\* serves it, unless the channel or the connection was replaced in the meantime.
AcceptedStreamEnds ==
    (handler.at = "building" /\ streams[1].at = "waiting")
        ~> (streams[1].at = "ended" \/ made > 1 \/ connection > 1)

\* The broker's test: a progress stream yields a terminal event, and ends.
StreamsEnd ==
    \A s \in Connections : (streams[s].at = "waiting") ~> (streams[s].at = "ended")

=============================================================================
