--------------------------- MODULE Streams_proofs ---------------------------
(***************************************************************************)
(* Proofs about the two streams of server-sent events.                     *)
(*                                                                         *)
(* RunEventStream, for any run, batch limit and number of lost             *)
(* connections: the events arrive complete and in order, and a response    *)
(* ends only when the whole log of a finished run was sent.  The proofs    *)
(* rest on the store's invariant: a log is never rewritten, grows at its   *)
(* end, and stops at its terminal event.                                   *)
(*                                                                         *)
(* UploadProgress, for any number of messages, connections and channels:   *)
(* what the user is shown of an upload is in order and without repetition, *)
(* however connections break and channels expire, and without a gap while  *)
(* neither happens.                                                        *)
(***************************************************************************)
EXTENDS RunEventStream, UploadProgress, RunStore_proofs

(* What appending to a queue and taking from it does to the order of the   *)
(* numbers it holds.                                                       *)

\* The sequence holds the numbers that follow n.
Follow(s, n) == \A i \in 1 .. Len(s) : s[i] = n + i

Increasing(s) == \A i, j \in 1 .. Len(s) : i < j => s[i] < s[j]
Precedes(s, t) == \A i \in 1 .. Len(s), j \in 1 .. Len(t) : s[i] < t[j]
UpTo(s, n) == \A i \in 1 .. Len(s) : s[i] <= n

-----------------------------------------------------------------------------

\* The elements of a queue with one more at its end.
LEMMA PartsOfAppend ==
    ASSUME NEW s \in Seq(Nat), NEW m \in Nat
    PROVE  /\ Append(s, m) \in Seq(Nat) /\ Len(s) \in Nat
           /\ Len(Append(s, m)) = Len(s) + 1
           /\ Append(s, m)[Len(s) + 1] = m
           /\ \A i \in 1 .. Len(s) : Append(s, m)[i] = s[i] /\ s[i] \in Nat
           /\ \A i \in 1 .. Len(Append(s, m)) : i \in 1 .. Len(s) \/ i = Len(s) + 1
  OBVIOUS

\* The elements of a queue whose first one is taken.
LEMMA PartsOfTail ==
    ASSUME NEW t \in Seq(Nat), t # <<>>
    PROVE  /\ Tail(t) \in Seq(Nat) /\ Len(t) \in Nat \ {0}
           /\ Len(Tail(t)) = Len(t) - 1
           /\ Head(t) = t[1] /\ Head(t) \in Nat
           /\ \A i \in 1 .. Len(t) : t[i] \in Nat
           /\ \A i \in 1 .. Len(Tail(t)) : Tail(t)[i] = t[i + 1] /\ i + 1 \in 1 .. Len(t)
<1>1. Len(t) \in Nat \ {0} /\ Head(t) = t[1] /\ \A i \in 1 .. Len(t) : t[i] \in Nat
  OBVIOUS
<1>2. Tail(t) \in Seq(Nat) /\ Len(Tail(t)) = Len(t) - 1
  OBVIOUS
<1>3. \A i \in 1 .. Len(Tail(t)) : Tail(t)[i] = t[i + 1]
  OBVIOUS
<1>4. \A i \in 1 .. (Len(t) - 1) : i + 1 \in 1 .. Len(t)
  BY <1>1
<1>. QED BY <1>1, <1>2, <1>3, <1>4

\* What follows n goes on after n + 1 once its head is taken.
LEMMA FollowTail ==
    ASSUME NEW s \in Seq(Nat), NEW n \in Nat, s # <<>>, Follow(s, n)
    PROVE  Head(s) = n + 1 /\ Follow(Tail(s), n + 1)
<1>1. \A i \in 1 .. Len(Tail(s)) : Tail(s)[i] = (n + 1) + i
  BY PartsOfTail DEF Follow
<1>2. s[1] = n + 1
  BY PartsOfTail DEF Follow
<1>. QED BY <1>1, <1>2, PartsOfTail DEF Follow

\* Appending the next number keeps what follows n consecutive.
LEMMA FollowAppend ==
    ASSUME NEW s \in Seq(Nat), NEW n \in Nat, Follow(s, n)
    PROVE  Follow(Append(s, n + Len(s) + 1), n)
<1>. DEFINE longer == Append(s, n + Len(s) + 1)
<1>1. Len(s) \in Nat /\ n + Len(s) + 1 \in Nat
  OBVIOUS
<1>2. \A i \in 1 .. Len(longer) : longer[i] = n + i
  <2>. TAKE i \in 1 .. Len(longer)
  <2>1. CASE i \in 1 .. Len(s)
    BY <2>1, <1>1, PartsOfAppend DEF Follow
  <2>2. CASE i = Len(s) + 1
    BY <2>2, <1>1, PartsOfAppend
  <2>. QED BY <1>1, <2>1, <2>2, PartsOfAppend
<1>. HIDE DEF longer
<1>3. Follow(longer, n)
  BY <1>2 DEF Follow
<1>. QED BY <1>3 DEF longer

\* A number above all of a queue keeps it increasing, and after what it was after.
LEMMA LaterAppend ==
    ASSUME NEW s \in Seq(Nat), NEW t \in Seq(Nat), NEW n \in Nat, NEW m \in Nat, n < m,
           UpTo(s, n), UpTo(t, n)
    PROVE  /\ UpTo(Append(s, m), m) /\ UpTo(s, m)
           /\ Increasing(s) => Increasing(Append(s, m))
           /\ Precedes(t, s) => Precedes(t, Append(s, m))
<1>. DEFINE longer == Append(s, m)
<1>1. /\ Len(s) \in Nat /\ Len(longer) = Len(s) + 1 /\ longer[Len(s) + 1] = m
      /\ \A i \in 1 .. Len(s) : longer[i] = s[i] /\ s[i] \in Nat
      /\ \A i \in 1 .. Len(longer) : i \in 1 .. Len(s) \/ i = Len(s) + 1
  BY PartsOfAppend
<1>. HIDE DEF longer
<1>2. \A i \in 1 .. Len(s) : s[i] < m /\ longer[i] = s[i]
  BY <1>1 DEF UpTo
<1>3. UpTo(longer, m) /\ UpTo(s, m)
  <2>1. \A i \in 1 .. Len(s) : s[i] <= m
    BY <1>1, <1>2
  <2>2. \A i \in 1 .. Len(longer) : longer[i] <= m
    <3>. TAKE i \in 1 .. Len(longer)
    <3>1. CASE i \in 1 .. Len(s)
      BY <1>2, <2>1, <3>1
    <3>2. CASE i = Len(s) + 1
      BY <1>1, <3>2
    <3>. QED BY <1>1, <3>1, <3>2
  <2>. QED BY <2>1, <2>2 DEF UpTo
<1>4. ASSUME Increasing(s) PROVE Increasing(longer)
  <2>. SUFFICES ASSUME NEW i \in 1 .. Len(longer), NEW j \in 1 .. Len(longer), i < j
                PROVE  longer[i] < longer[j]
    BY DEF Increasing
  <2>1. i \in 1 .. Len(s)
    BY <1>1
  <2>2. CASE j \in 1 .. Len(s)
    BY <1>1, <1>4, <2>1, <2>2 DEF Increasing
  <2>3. CASE j = Len(s) + 1
    BY <1>1, <1>2, <2>1, <2>3
  <2>. QED BY <1>1, <2>2, <2>3
<1>5. ASSUME Precedes(t, s) PROVE Precedes(t, longer)
  <2>1. \A i \in 1 .. Len(t) : t[i] < m
    BY DEF UpTo
  <2>. QED BY <1>1, <1>5, <2>1 DEF Precedes
<1>. QED BY <1>3, <1>4, <1>5 DEF longer

\* Taking the head keeps whatever order a queue is in.
LEMMA TailKeepsOrder ==
    ASSUME NEW t \in Seq(Nat), NEW u \in Seq(Nat), NEW n \in Nat, t # <<>>
    PROVE  /\ Increasing(t) => Increasing(Tail(t))
           /\ UpTo(t, n) => UpTo(Tail(t), n)
           /\ Precedes(t, u) => Precedes(Tail(t), u)
           /\ Precedes(u, t) => Precedes(u, Tail(t))
<1>1. /\ Len(t) \in Nat \ {0} /\ Len(Tail(t)) = Len(t) - 1
      /\ \A i \in 1 .. Len(Tail(t)) : Tail(t)[i] = t[i + 1] /\ i + 1 \in 1 .. Len(t)
  BY PartsOfTail
<1>2. Increasing(t) => Increasing(Tail(t))
  <2>. SUFFICES ASSUME Increasing(t), NEW i \in 1 .. Len(Tail(t)),
                       NEW j \in 1 .. Len(Tail(t)), i < j
                PROVE  Tail(t)[i] < Tail(t)[j]
    BY DEF Increasing
  <2>1. i + 1 < j + 1
    OBVIOUS
  <2>. QED BY <1>1, <2>1 DEF Increasing
<1>3. UpTo(t, n) => UpTo(Tail(t), n)
  BY <1>1 DEF UpTo
<1>4. Precedes(t, u) => Precedes(Tail(t), u)
  BY <1>1 DEF Precedes
<1>5. Precedes(u, t) => Precedes(u, Tail(t))
  BY <1>1 DEF Precedes
<1>. QED BY <1>2, <1>3, <1>4, <1>5

\* The head of a queue may move to the end of one before it.
LEMMA HeadMoves ==
    ASSUME NEW s \in Seq(Nat), NEW t \in Seq(Nat), NEW u \in Seq(Nat), NEW n \in Nat, t # <<>>,
           Increasing(s), Increasing(t), Precedes(s, t), UpTo(s, n), UpTo(t, n)
    PROVE  /\ Increasing(Append(s, Head(t))) /\ UpTo(Append(s, Head(t)), n)
           /\ Precedes(Append(s, Head(t)), Tail(t))
           /\ Precedes(s, u) /\ Precedes(t, u) => Precedes(Append(s, Head(t)), u)
           /\ Precedes(u, s) /\ Precedes(u, t) => Precedes(u, Append(s, Head(t)))
<1>. DEFINE longer == Append(s, Head(t))
           shorter == Tail(t)
<1>1. /\ Len(t) \in Nat \ {0} /\ 1 \in 1 .. Len(t) /\ Len(shorter) = Len(t) - 1
      /\ Head(t) = t[1] /\ Head(t) \in Nat
      /\ \A i \in 1 .. Len(shorter) : shorter[i] = t[i + 1] /\ i + 1 \in 1 .. Len(t)
  BY PartsOfTail
<1>2. /\ Len(s) \in Nat /\ Len(longer) = Len(s) + 1 /\ longer[Len(s) + 1] = Head(t)
      /\ \A i \in 1 .. Len(s) : longer[i] = s[i]
      /\ \A i \in 1 .. Len(longer) : i \in 1 .. Len(s) \/ i = Len(s) + 1
  BY <1>1, PartsOfAppend
<1>. HIDE DEF longer, shorter
<1>3. UpTo(longer, n)
  BY <1>1, <1>2 DEF UpTo
<1>4. Increasing(longer)
  <2>. SUFFICES ASSUME NEW i \in 1 .. Len(longer), NEW j \in 1 .. Len(longer), i < j
                PROVE  longer[i] < longer[j]
    BY DEF Increasing
  <2>1. i \in 1 .. Len(s)
    BY <1>2
  <2>2. CASE j \in 1 .. Len(s)
    BY <1>2, <2>1, <2>2 DEF Increasing
  <2>3. CASE j = Len(s) + 1
    BY <1>1, <1>2, <2>1, <2>3 DEF Precedes
  <2>. QED BY <1>2, <2>2, <2>3
<1>5. Precedes(longer, shorter)
  <2>. SUFFICES ASSUME NEW i \in 1 .. Len(longer), NEW j \in 1 .. Len(shorter)
                PROVE  longer[i] < shorter[j]
    BY DEF Precedes
  <2>1. j + 1 \in 1 .. Len(t) /\ shorter[j] = t[j + 1]
    BY <1>1
  <2>2. CASE i \in 1 .. Len(s)
    BY <1>2, <2>1, <2>2 DEF Precedes
  <2>3. CASE i = Len(s) + 1
    <3>1. 1 < j + 1
      OBVIOUS
    <3>. QED BY <1>1, <1>2, <2>1, <2>3, <3>1 DEF Increasing
  <2>. QED BY <1>2, <2>2, <2>3
<1>6. Precedes(s, u) /\ Precedes(t, u) => Precedes(longer, u)
  BY <1>1, <1>2 DEF Precedes
<1>7. Precedes(u, s) /\ Precedes(u, t) => Precedes(u, longer)
  BY <1>1, <1>2 DEF Precedes
<1>. QED BY <1>3, <1>4, <1>5, <1>6, <1>7 DEF longer, shorter

-----------------------------------------------------------------------------
(* The stream of a run's events.                                           *)

FollowTypeOK ==
    /\ stream \in [at : {"none", "reading", "yielding", "ended"}, cursor : Nat,
                   batch : Seq(Nat)]
    /\ wire \in Seq(Nat)
    /\ source \in {"none", "connecting", "open", "closed"}
    /\ received \in Seq(Nat)
    /\ polled \in Statuses \cup {"failed-request"}
    /\ drops \in Nat

\* While the source is open, the browser, the wire and the generator's batch hold
\* consecutive parts of the log; a source that is not open leaves nothing behind.
PartsOfLog ==
    /\ stream.at # "none" <=> source = "open"
    /\ source = "open" =>
          /\ Follow(wire, Len(received))
          /\ stream.cursor = Len(received) + Len(wire)
          /\ Follow(stream.batch, stream.cursor)
          /\ stream.cursor + Len(stream.batch) <= Len(Log)
          /\ stream.at # "yielding" => stream.batch = <<>>
    /\ source # "open" => wire = <<>> /\ stream = Idle

\* What was received is a prefix of the log of a run that exists; the source is
\* open, or opened again, only before the terminal event.
ReceivedIsPrefix ==
    /\ Len(received) <= Len(Log)
    /\ source = "none" => received = <<>> /\ polled = "absent"
    /\ source # "none" => Status # "absent"
    /\ source \in {"connecting", "open"} =>
          \A i \in 1 .. Len(received) : Log[i].status \notin Terminal

\* The generator ends, and the listener closes, at the end of a finished log.
StopsAtTheEnd ==
    /\ stream.at = "ended" => Status \in Terminal /\ stream.cursor = Len(Log)
    /\ source = "closed" /\ polled \in Active =>
          Status \in Terminal /\ Len(received) = Len(Log)

FollowInv ==
    /\ FollowTypeOK
    /\ StoreInv
    /\ ReceivedInOrder
    /\ PartsOfLog
    /\ ReceivedIsPrefix
    /\ StopsAtTheEnd

-----------------------------------------------------------------------------
(* The log of the run.                                                     *)

\* The log is a sequence of events that tells the status.
LEMMA LogOfWatched ==
    ASSUME StoreInv
    PROVE  /\ Log \in Seq(Event) /\ Len(Log) \in Nat
           /\ Status \in Statuses
           /\ LogTells(Log, Status)
  BY WatchedIsRun DEF StoreInv, StoreTypeOK, LogTellsStatus, Log, Status, Row

\* The terminal event is the last one, and the run is finished.
LEMMA TerminalIsLast ==
    ASSUME StoreInv, NEW i \in 1 .. Len(Log), Log[i].status \in Terminal
    PROVE  i = Len(Log) /\ Status \in Terminal
<1>1. i = Len(Log)
  BY LogOfWatched DEF LogTells
<1>2. Log # <<>>
  BY LogOfWatched
<1>. QED BY <1>1, <1>2, LogOfWatched DEF LogTells

\* The last event of a finished run is terminal.
LEMMA FinishedLogEnds ==
    ASSUME StoreInv, Status \in Terminal
    PROVE  Len(Log) > 0 /\ Log[Len(Log)].status \in Terminal
<1>1. Status # "absent"
  BY DEF Terminal
<1>2. Log # <<>> /\ Log[Len(Log)].status = Status
  BY <1>1, LogOfWatched DEF LogTells
<1>. QED BY <1>2, LogOfWatched

\* A transaction keeps what the log already tells.
LEMMA LogIsKept ==
    ASSUME StoreInv, [StoreNext]_storeVars
    PROVE  /\ StoreInv'
           /\ Len(Log') \in {Len(Log), Len(Log) + 1}
           /\ \A i \in 1 .. Len(Log) : Log'[i] = Log[i]
           /\ Status \in Terminal => Status' = Status /\ Log' = Log
           /\ Status # "absent" => Status' # "absent"
<1>1. StoreInv'
  BY StoreStepKeepsInv
<1>2. /\ Len(Log') \in {Len(Log), Len(Log) + 1}
      /\ \A i \in 1 .. Len(Log) : Log'[i] = Log[i]
  BY LogGrows, WatchedIsRun DEF Log
<1>3. Status \in Terminal => Status' = Status /\ Log' = Log
  BY FinishedIsKept, WatchedIsRun DEF Kept, Log, Status
<1>4. Status # "absent" => Status' # "absent"
  <2>1. LogTells(Log', Status')
    BY <1>1, WatchedIsRun DEF StoreInv, LogTellsStatus, Log, Status
  <2>2. Log' \in Seq(Event)
    BY <1>1, WatchedIsRun DEF StoreInv, StoreTypeOK, Log
  <2>. QED BY <1>2, <2>1, <2>2, LogOfWatched DEF LogTells
<1>. QED BY <1>1, <1>2, <1>3, <1>4

-----------------------------------------------------------------------------
(* Every step keeps the invariant.                                         *)

\* Nothing is followed at first.
LEMMA FollowInitEstablishesInv == FollowInit => FollowInv
<1>. SUFFICES ASSUME FollowInit PROVE FollowInv
  OBVIOUS
<1>1. StoreInv
  BY StoreInitEstablishesInv DEF FollowInit
<1>2. FollowTypeOK
  BY DEF FollowInit, FollowTypeOK, Idle, Statuses
<1>3. ReceivedInOrder /\ StopsAtTheEnd /\ PartsOfLog
  BY DEF FollowInit, ReceivedInOrder, StopsAtTheEnd, PartsOfLog, Idle
<1>4. ReceivedIsPrefix
  BY <1>1, LogOfWatched DEF FollowInit, ReceivedIsPrefix
<1>. QED BY <1>1, <1>2, <1>3, <1>4 DEF FollowInv

\* What the browser has received so far, in numbers.
LEMMA ReceivedSoFar ==
    ASSUME FollowInv
    PROVE  /\ Len(received) \in Nat /\ Len(Log) \in Nat
           /\ source # "none" => LastEventId = Len(received)
<1>1. Len(received) \in Nat /\ Len(Log) \in Nat
  BY LogOfWatched DEF FollowInv, FollowTypeOK
<1>2. LastEventId = Len(received)
  <2>1. CASE received = <<>>
    BY <2>1 DEF LastEventId
  <2>2. CASE received # <<>>
    BY <1>1, <2>2 DEF FollowInv, FollowTypeOK, ReceivedInOrder, LastEventId
  <2>. QED BY <2>1, <2>2
<1>. QED BY <1>1, <1>2

\* The invariant's parts that speak of the store stay while the store does.
LEMMA StoreIsUntouched ==
    ASSUME FollowInv, UNCHANGED storeVars
    PROVE  StoreInv' /\ UNCHANGED <<Log, Status>>
<1>1. StoreInv'
  BY StoreStepKeepsInv DEF FollowInv
<1>. QED BY <1>1 DEF storeVars, Log, Status

\* The browser's own steps.
LEMMA BrowserKeeps ==
    FollowInv /\ (Follows \/ Connects \/ Receives \/ Drops \/ Polls) => FollowInv'
<1>. SUFFICES ASSUME FollowInv, Follows \/ Connects \/ Receives \/ Drops \/ Polls
              PROVE  FollowInv'
  OBVIOUS
<1>. USE DEF FollowInv
<1>0. StoreInv' /\ UNCHANGED <<Log, Status>> /\ Status \in Statuses
  BY StoreIsUntouched, LogOfWatched DEF Follows, Connects, Receives, Drops, Polls
<1>1. CASE Follows
  <2>1. /\ source = "none" /\ Status # "absent" /\ received = <<>>
        /\ source' = IF Status \in Active THEN "connecting" ELSE "closed"
        /\ polled' = Status /\ stream = Idle /\ wire = <<>>
        /\ UNCHANGED <<stream, wire, received, drops>>
    BY <1>1 DEF Follows, ReceivedIsPrefix, PartsOfLog
  <2>2. FollowTypeOK' /\ ReceivedInOrder'
    BY <1>0, <2>1 DEF FollowTypeOK, ReceivedInOrder
  <2>3. PartsOfLog'
    BY <2>1 DEF PartsOfLog, Idle
  <2>4. ReceivedIsPrefix'
    BY <1>0, <2>1, LogOfWatched DEF ReceivedIsPrefix
  <2>5. StopsAtTheEnd'
    BY <2>1 DEF StopsAtTheEnd, Idle
  <2>. QED BY <1>0, <2>2, <2>3, <2>4, <2>5
<1>2. CASE Connects
  <2>1. /\ source = "connecting" /\ source' = "open" /\ wire' = <<>>
        /\ stream' = [at |-> "reading", cursor |-> Len(received), batch |-> <<>>]
        /\ UNCHANGED <<received, polled, drops>>
        /\ Len(received) \in Nat /\ Len(Log) \in Nat
    BY <1>2, ReceivedSoFar DEF Connects
  <2>2. FollowTypeOK' /\ ReceivedInOrder'
    BY <2>1 DEF FollowTypeOK, ReceivedInOrder
  <2>3. PartsOfLog'
    BY <1>0, <2>1 DEF PartsOfLog, ReceivedIsPrefix, Follow
  <2>4. (ReceivedIsPrefix /\ StopsAtTheEnd)'
    BY <1>0, <2>1 DEF ReceivedIsPrefix, StopsAtTheEnd
  <2>. QED BY <1>0, <2>2, <2>3, <2>4
<1>3. CASE Receives
  <2>. DEFINE n == Len(received)
  <2>1. /\ source = "open" /\ wire # <<>> /\ n \in Nat /\ Len(Log) \in Nat
        /\ wire \in Seq(Nat) /\ received \in Seq(Nat) /\ Follow(wire, n)
        /\ stream.cursor = n + Len(wire) /\ stream.cursor + Len(stream.batch) <= Len(Log)
        /\ stream.batch \in Seq(Nat)
    BY <1>3, ReceivedSoFar DEF Receives, FollowTypeOK, PartsOfLog
  <2>2. /\ Head(wire) = n + 1 /\ Tail(wire) \in Seq(Nat)
        /\ Len(Tail(wire)) = Len(wire) - 1 /\ Follow(Tail(wire), n + 1)
    BY <2>1, FollowTail, PartsOfTail
  <2>3. /\ received' = Append(received, n + 1) /\ UNCHANGED <<polled, drops>>
        /\ received' \in Seq(Nat) /\ Len(received') = n + 1
        /\ \A i \in 1 .. n : received'[i] = received[i]
        /\ received'[n + 1] = n + 1
    BY <1>3, <2>1, <2>2 DEF Receives
  <2>4. ReceivedInOrder'
    BY <2>1, <2>3 DEF ReceivedInOrder
  <2>5. n + 1 <= Len(Log)
    <3>1. Len(wire) \in Nat \ {0} /\ Len(stream.batch) \in Nat
      BY <2>1
    <3>2. /\ n \in Nat /\ Len(Log) \in Nat
          /\ n + Len(wire) + Len(stream.batch) <= Len(Log)
      BY <2>1
    <3>3. \A a, c, d \in Nat : \A b \in Nat \ {0} : a + b + c <= d => a + 1 <= d
      OBVIOUS
    <3>. HIDE DEF n
    <3>. QED BY <3>1, <3>2, <3>3, Zenon
  <2>6. CASE ReceivesTerminal
    <3>1. source' = "closed" /\ wire' = <<>> /\ stream' = Idle
      BY <1>3, <2>6 DEF Receives
    <3>2. n + 1 = Len(Log) /\ Status \in Terminal
      BY <2>1, <2>2, <2>5, <2>6, TerminalIsLast DEF ReceivesTerminal
    <3>3. FollowTypeOK' /\ PartsOfLog'
      BY <2>3, <3>1 DEF FollowTypeOK, PartsOfLog, Idle
    <3>4. (ReceivedIsPrefix /\ StopsAtTheEnd)'
      BY <1>0, <2>1, <2>3, <3>1, <3>2 DEF ReceivedIsPrefix, StopsAtTheEnd, Idle
    <3>. QED BY <1>0, <2>4, <3>3, <3>4
  <2>7. CASE ~ReceivesTerminal
    <3>1. wire' = Tail(wire) /\ UNCHANGED <<source, stream>>
      BY <1>3, <2>7 DEF Receives
    <3>2. FollowTypeOK'
      BY <2>2, <2>3, <3>1 DEF FollowTypeOK
    <3>3. PartsOfLog'
      <4>1. stream.cursor = (n + 1) + Len(Tail(wire))
        BY <2>1, <2>2
      <4>. QED BY <1>0, <2>1, <2>2, <2>3, <3>1, <4>1 DEF PartsOfLog
    <3>4. Log[n + 1].status \notin Terminal
      BY <2>2, <2>7 DEF ReceivesTerminal
    <3>5. (ReceivedIsPrefix /\ StopsAtTheEnd)'
      BY <1>0, <2>1, <2>3, <2>5, <3>1, <3>4 DEF ReceivedIsPrefix, StopsAtTheEnd
    <3>. QED BY <1>0, <2>4, <3>2, <3>3, <3>5
  <2>. QED BY <2>6, <2>7
<1>4. CASE Drops
  <2>1. /\ source = "open" /\ source' = "connecting" /\ wire' = <<>> /\ stream' = Idle
        /\ drops' = drops + 1 /\ UNCHANGED <<received, polled>>
    BY <1>4 DEF Drops
  <2>2. (FollowTypeOK /\ ReceivedInOrder /\ PartsOfLog)'
    BY <2>1 DEF FollowTypeOK, ReceivedInOrder, PartsOfLog, Idle
  <2>3. (ReceivedIsPrefix /\ StopsAtTheEnd)'
    BY <1>0, <2>1 DEF ReceivedIsPrefix, StopsAtTheEnd, Idle
  <2>. QED BY <1>0, <2>2, <2>3
<1>5. CASE Polls
  <2>1. /\ polled \in Active /\ polled' \in {Status, "failed-request"}
        /\ UNCHANGED <<received, drops>> /\ source # "none"
    BY <1>5 DEF Polls, ReceivedIsPrefix, Active
  <2>2. CASE polled' \in Active
    <3>1. UNCHANGED <<stream, wire, source>>
      BY <1>5, <2>2 DEF Polls
    <3>. QED BY <1>0, <2>1, <2>2, <3>1
             DEF FollowTypeOK, ReceivedInOrder, PartsOfLog, ReceivedIsPrefix, StopsAtTheEnd
  <2>3. CASE polled' \notin Active
    <3>1. source' = "closed" /\ wire' = <<>> /\ stream' = Idle
      BY <1>5, <2>3 DEF Polls
    <3>2. (FollowTypeOK /\ ReceivedInOrder /\ PartsOfLog)'
      BY <1>0, <2>1, <3>1 DEF FollowTypeOK, ReceivedInOrder, PartsOfLog, Idle
    <3>3. (ReceivedIsPrefix /\ StopsAtTheEnd)'
      BY <1>0, <2>1, <2>3, <3>1 DEF ReceivedIsPrefix, StopsAtTheEnd, Idle
    <3>. QED BY <1>0, <3>2, <3>3
  <2>. QED BY <2>2, <2>3
<1>. QED BY <1>1, <1>2, <1>3, <1>4, <1>5

\* The generator's steps.
LEMMA ServerKeeps == FollowInv /\ ServerStep => FollowInv'
<1>. SUFFICES ASSUME FollowInv, ServerStep PROVE FollowInv'
  OBVIOUS
<1>. USE DEF FollowInv
<1>0. /\ StoreInv' /\ UNCHANGED <<Log, Status>>
      /\ UNCHANGED <<source, received, polled, drops>>
  BY StoreIsUntouched DEF ServerStep, ReadsEvents, YieldsEvent, ReadsRun
<1>1. /\ source = "open" /\ stream.at \in {"reading", "yielding"}
      /\ Follow(wire, Len(received)) /\ stream.cursor = Len(received) + Len(wire)
      /\ Follow(stream.batch, stream.cursor)
      /\ stream.cursor + Len(stream.batch) <= Len(Log)
      /\ wire \in Seq(Nat) /\ stream.batch \in Seq(Nat) /\ stream.cursor \in Nat
      /\ Len(received) \in Nat /\ Len(Log) \in Nat
  BY ReceivedSoFar DEF ServerStep, ReadsEvents, YieldsEvent, ReadsRun, PartsOfLog, FollowTypeOK
<1>2. (ReceivedInOrder /\ ReceivedIsPrefix)'
  BY <1>0 DEF ReceivedInOrder, ReceivedIsPrefix
<1>6. /\ Len(received) \in Nat /\ Len(Log) \in Nat /\ stream.cursor \in Nat
      /\ Len(wire) \in Nat /\ Len(stream.batch) \in Nat
      /\ stream.cursor = Len(received) + Len(wire)
      /\ stream.cursor + Len(stream.batch) <= Len(Log)
  <2>1. Len(wire) \in Nat
    BY <1>1
  <2>2. Len(stream.batch) \in Nat
    BY <1>1
  <2>. QED BY <1>1, <2>1, <2>2
<1>3. CASE ReadsEvents
  <2>. DEFINE unread == Len(Log) - stream.cursor
             size == IF unread < BatchLimit THEN unread ELSE BatchLimit
             read == [i \in 1 .. size |-> stream.cursor + i]
  <2>1. size \in Nat /\ size <= unread
    <3>1. /\ Len(Log) \in Nat /\ stream.cursor \in Nat /\ Len(stream.batch) \in Nat
          /\ stream.cursor + Len(stream.batch) <= Len(Log)
      BY <1>6
    <3>2. unread \in Nat
      BY <3>1
    <3>. HIDE DEF unread
    <3>. QED BY <3>2, LimitsArePositive
  <2>. HIDE DEF size
  <2>2. read \in Seq(Nat) /\ Len(read) = size /\ Follow(read, stream.cursor)
    <3>1. \A i \in 1 .. size : stream.cursor + i \in Nat
      BY <1>6, <2>1
    <3>2. read \in [1 .. size -> Nat]
      BY <3>1
    <3>3. read \in Seq(Nat) /\ Len(read) = size
      BY <2>1, <3>2
    <3>4. \A i \in 1 .. size : read[i] = stream.cursor + i
      OBVIOUS
    <3>. QED BY <3>3, <3>4 DEF Follow
  <2>3. UNCHANGED wire /\ stream' = [stream EXCEPT !.at = "yielding", !.batch = read]
    BY <1>3 DEF ReadsEvents, size
  <2>. HIDE DEF read
  <2>4. /\ stream'.at = "yielding" /\ stream'.cursor = stream.cursor
        /\ stream'.batch = read
    BY <2>3 DEF FollowTypeOK
  <2>5. FollowTypeOK'
    BY <1>0, <2>2, <2>3 DEF FollowTypeOK
  <2>6. PartsOfLog'
    BY <1>0, <1>1, <2>1, <2>2, <2>3, <2>4 DEF PartsOfLog
  <2>7. StopsAtTheEnd'
    BY <1>0, <1>1, <2>4 DEF StopsAtTheEnd
  <2>. QED BY <1>0, <1>2, <2>5, <2>6, <2>7
<1>4. CASE YieldsEvent
  <2>1. /\ stream.at = "yielding" /\ stream.batch # <<>>
        /\ wire' = Append(wire, Head(stream.batch))
        /\ stream' = [stream EXCEPT !.cursor = Head(stream.batch), !.batch = Tail(@)]
    BY <1>4 DEF YieldsEvent
  <2>2. /\ Head(stream.batch) = stream.cursor + 1 /\ Tail(stream.batch) \in Seq(Nat)
        /\ Len(Tail(stream.batch)) = Len(stream.batch) - 1
        /\ Follow(Tail(stream.batch), stream.cursor + 1)
    BY <1>1, <2>1, FollowTail, PartsOfTail
  <2>3. /\ wire' \in Seq(Nat) /\ Len(wire') = Len(wire) + 1
        /\ Follow(wire', Len(received))
    <3>1. Head(stream.batch) = Len(received) + Len(wire) + 1
      BY <1>1, <2>2
    <3>2. Head(stream.batch) \in Nat
      BY <1>6, <3>1
    <3>3. wire' \in Seq(Nat) /\ Len(wire') = Len(wire) + 1
      BY <1>1, <2>1, <3>2, PartsOfAppend
    <3>. QED BY <1>1, <2>1, <3>1, <3>3, FollowAppend
  <2>4. /\ stream'.at = "yielding" /\ stream'.cursor = stream.cursor + 1
        /\ stream'.batch = Tail(stream.batch)
    BY <2>1, <2>2 DEF FollowTypeOK
  <2>5. FollowTypeOK'
    <3>. DEFINE moved == [stream EXCEPT !.cursor = Head(stream.batch)]
    <3>0. Head(stream.batch) \in Nat
      BY <1>6, <2>2
    <3>1. moved \in [at : {"none", "reading", "yielding", "ended"}, cursor : Nat,
                     batch : Seq(Nat)]
      BY <3>0 DEF FollowTypeOK
    <3>2. stream' = [moved EXCEPT !.batch = Tail(stream.batch)]
      BY <2>1 DEF FollowTypeOK
    <3>. HIDE DEF moved
    <3>3. stream' \in [at : {"none", "reading", "yielding", "ended"}, cursor : Nat,
                       batch : Seq(Nat)]
      BY <2>2, <3>1, <3>2
    <3>. QED BY <1>0, <2>3, <3>3 DEF FollowTypeOK
  <2>6. PartsOfLog'
    <3>1. Len(stream'.batch) = Len(stream.batch) - 1 /\ Len(wire') = Len(wire) + 1
      BY <2>2, <2>3, <2>4
    <3>2. /\ stream'.cursor = Len(received) + Len(wire')
          /\ stream'.cursor + Len(stream'.batch) <= Len(Log)
      <4>1. stream'.cursor = stream.cursor + 1
        BY <2>4
      <4>2. /\ Len(received) \in Nat /\ Len(wire) \in Nat
            /\ stream.cursor = Len(received) + Len(wire) /\ Len(wire') = Len(wire) + 1
        BY <1>6, <3>1
      <4>3. /\ Len(Log) \in Nat /\ stream.cursor \in Nat /\ Len(stream.batch) \in Nat
            /\ stream.cursor + Len(stream.batch) <= Len(Log)
            /\ Len(stream'.batch) = Len(stream.batch) - 1
        BY <1>6, <3>1
      <4>4. stream'.cursor = Len(received) + Len(wire')
        BY <4>1, <4>2
      <4>5. stream'.cursor + Len(stream'.batch) <= Len(Log)
        BY <4>1, <4>3
      <4>. QED BY <4>4, <4>5
    <3>3. Follow(wire', Len(received'))
      BY <1>0, <2>3, Zenon
    <3>5. Follow(stream'.batch, stream'.cursor)
      BY <2>2, <2>4, Zenon
    <3>4. source' = "open" /\ stream'.at = "yielding"
      BY <1>0, <1>1, <2>4
    <3>. QED BY <1>0, <3>2, <3>3, <3>4, <3>5 DEF PartsOfLog
  <2>7. StopsAtTheEnd'
    BY <1>0, <1>1, <2>4 DEF StopsAtTheEnd
  <2>. QED BY <1>0, <1>2, <2>5, <2>6, <2>7
<1>5. CASE ReadsRun
  <2>1. /\ stream.at = "yielding" /\ stream.batch = <<>> /\ UNCHANGED wire
        /\ stream'.cursor = stream.cursor /\ stream'.batch = stream.batch
        /\ stream'.at \in {"ended", "reading"}
        /\ stream'.at = "ended" => Status \in Terminal /\ stream.cursor >= Len(Log)
    BY <1>5 DEF ReadsRun, FollowTypeOK, LatestSequence, Log
  <2>2. FollowTypeOK'
    BY <1>0, <1>5, <2>1 DEF FollowTypeOK, ReadsRun
  <2>3. PartsOfLog'
    BY <1>0, <1>1, <2>1 DEF PartsOfLog
  <2>4. StopsAtTheEnd'
    BY <1>0, <1>1, <2>1 DEF StopsAtTheEnd
  <2>. QED BY <1>0, <1>2, <2>2, <2>3, <2>4
<1>. QED BY <1>3, <1>4, <1>5 DEF ServerStep

\* The store's steps: the log grows behind whatever was read of it.
LEMMA StoreKeeps ==
    ASSUME FollowInv, [StoreNext]_storeVars,
           UNCHANGED <<stream, wire, source, received, polled, drops>>
    PROVE  FollowInv'
<1>. USE DEF FollowInv
<1>1. /\ StoreInv' /\ Len(Log') \in {Len(Log), Len(Log) + 1}
      /\ \A i \in 1 .. Len(Log) : Log'[i] = Log[i]
      /\ Status \in Terminal => Status' = Status /\ Log' = Log
      /\ Status # "absent" => Status' # "absent"
  BY LogIsKept
<1>2. Len(received) \in Nat /\ Len(Log) \in Nat
  BY ReceivedSoFar
<1>3. (FollowTypeOK /\ ReceivedInOrder)'
  BY DEF FollowTypeOK, ReceivedInOrder
<1>4. PartsOfLog'
  <2>1. source = "open" => stream.cursor \in Nat /\ Len(stream.batch) \in Nat
    BY DEF FollowTypeOK
  <2>. QED BY <1>1, <1>2, <2>1 DEF PartsOfLog
<1>5. (ReceivedIsPrefix /\ StopsAtTheEnd)'
  BY <1>1, <1>2 DEF ReceivedIsPrefix, StopsAtTheEnd
<1>. QED BY <1>1, <1>3, <1>4, <1>5

\* The invariant is inductive.
LEMMA FollowStepKeepsInv == FollowInv /\ [FollowNext]_followVars => FollowInv'
<1>. SUFFICES ASSUME FollowInv, [FollowNext]_followVars PROVE FollowInv'
  OBVIOUS
<1>1. CASE StoreMoves
  BY <1>1, StoreKeeps DEF StoreMoves
<1>2. CASE UNCHANGED followVars
  BY <1>2, StoreKeeps DEF followVars, storeVars
<1>. QED BY <1>1, <1>2, BrowserKeeps, ServerKeeps DEF FollowNext, BrowserStep

\* The generator that ended has its last event, the terminal one, still on the wire.
LEMMA EndIsComplete == FollowInv => EndsComplete
<1>. SUFFICES ASSUME FollowInv, stream.at = "ended"
              PROVE  wire # <<>> /\ wire[Len(wire)] = Len(Log)
  BY DEF FollowInv, StopsAtTheEnd, EndsComplete
<1>. USE DEF FollowInv
<1>1. /\ source = "open" /\ Follow(wire, Len(received))
      /\ stream.cursor = Len(received) + Len(wire)
      /\ Status \in Terminal /\ stream.cursor = Len(Log)
      /\ wire \in Seq(Nat) /\ Len(wire) \in Nat /\ Len(received) \in Nat
  BY ReceivedSoFar DEF PartsOfLog, StopsAtTheEnd, FollowTypeOK
<1>2. Len(Log) > 0 /\ Log[Len(Log)].status \in Terminal
  BY <1>1, FinishedLogEnds
<1>3. Len(received) # Len(Log)
  BY <1>1, <1>2 DEF ReceivedIsPrefix
<1>4. Len(wire) > 0
  BY <1>1, <1>3
<1>. QED BY <1>1, <1>4 DEF Follow

-----------------------------------------------------------------------------
(* The theorems.                                                           *)

\* The invariant holds however connections break, however the generator and the
\* run interleave, and wherever the poller ends the stream.
THEOREM FollowInvariant == FollowSpec => []FollowInv
  BY FollowInitEstablishesInv, FollowStepKeepsInv, PTL DEF FollowSpec

\* The stream, the wire and the browser keep to their types.
THEOREM FollowTypeCorrect == FollowSpec => []FollowTypeOK
<1>1. FollowInv => FollowTypeOK
  BY DEF FollowInv
<1>. QED BY <1>1, FollowInvariant, PTL

\* Reconnection with Last-Event-ID neither loses nor repeats an event of the run.
THEOREM FollowReceivesInOrder == FollowSpec => []ReceivedInOrder
<1>1. FollowInv => ReceivedInOrder
  BY DEF FollowInv
<1>. QED BY <1>1, FollowInvariant, PTL

\* The response ends only after the whole log of a finished run was sent, with the
\* terminal event on its way, and the listener closes only at the end of the log.
THEOREM FollowEndsComplete == FollowSpec => []EndsComplete
  BY EndIsComplete, FollowInvariant, PTL

\* Following a run is, for the run itself, nothing but what the store allows: every
\* theorem about the store holds of a followed run.
THEOREM FollowImplementsStore == FollowSpec => StoreSpec
<1>1. FollowInit => StoreInit
  BY DEF FollowInit
<1>2. [FollowNext]_followVars => [StoreNext]_storeVars
  <2>1. FollowNext => StoreNext \/ UNCHANGED storeVars
    BY DEF FollowNext, Follows, BrowserStep, Connects, Receives, Drops, Polls, ServerStep,
           ReadsEvents, YieldsEvent, ReadsRun, StoreMoves
  <2>. QED BY <2>1 DEF followVars, storeVars
<1>. QED BY <1>1, <1>2, PTL DEF FollowSpec, StoreSpec

-----------------------------------------------------------------------------
(* The stream of an upload's progress.                                     *)

UploadTypeOK ==
    /\ registered \in {NoChannel} \cup Channels /\ made \in 0 .. MaxChannels
    /\ queues \in [Channels -> Seq(Nat)]
    /\ handler \in [at : {"none", "parsing", "building", "publishing", "putting",
                          "answering", "answered"},
                    message : Nat \ {0}, channel : {NoChannel} \cup Channels]
    /\ streams \in [Connections -> [at : {"none", "waiting", "removing", "ended"},
                                    channel : {NoChannel} \cup Channels]]
    /\ listener \in {"none", "connecting", "open", "closed"}
    /\ connection \in 0 .. MaxStreams
    /\ sent \in Seq(Nat) /\ messages \in Seq(Nat)

\* The token's channel is the one made last; nobody holds a channel that is yet to
\* be made, a connection is numbered once it has a generator, and there is no
\* stream before there is a post.
ChannelsAreMade ==
    /\ registered \in {NoChannel, made}
    /\ handler.channel <= made
    /\ handler.at = "putting" => handler.channel # NoChannel
    /\ \A s \in Connections :
          /\ streams[s].channel <= made
          /\ streams[s].at # "none" <=> s <= connection
          /\ streams[s].at # "none" => streams[s].channel # NoChannel
    /\ listener = "open" => connection # 0
    /\ listener = "none" => handler.at = "none"

\* The last message that may have been put.
LastPut ==
    IF handler.at \in {"answering", "answered"} THEN handler.message
    ELSE handler.message - 1

\* The channels' queues hold increasing messages, those of a later channel later ones.
QueuesAreInOrder ==
    /\ \A ch \in Channels : /\ Increasing(queues[ch]) /\ UpTo(queues[ch], LastPut)
                            /\ ch > handler.channel => queues[ch] = <<>>
    /\ \A a, b \in Channels : a < b => Precedes(queues[a], queues[b])

\* What was shown and what is on its way come before all that the connection, or
\* one after it, may still take.
ShownPrecedesQueued ==
    /\ Increasing(messages) /\ Increasing(sent) /\ Precedes(messages, sent)
    /\ UpTo(messages, LastPut) /\ UpTo(sent, LastPut)
    /\ connection = 0 => messages = <<>> /\ sent = <<>>
    /\ connection # 0 => \A ch \in Channels :
          ch >= streams[connection].channel =>
             Precedes(messages, queues[ch]) /\ Precedes(sent, queues[ch])

\* While one channel and one connection are enough, the messages shown, those sent
\* and those queued are consecutive, and the handler goes on from there.
NothingIsMissing ==
    made <= 1 /\ connection <= 1 =>
        /\ Follow(messages, 0)
        /\ connection = 0 \/ listener = "open" =>
              /\ Follow(sent, Len(messages))
              /\ Follow(queues[1], Len(messages) + Len(sent))
              /\ handler.at \notin {"answering", "answered"} =>
                    handler.message = Len(messages) + Len(sent) + Len(queues[1]) + 1

UploadInv ==
    /\ UploadTypeOK
    /\ ChannelsAreMade
    /\ QueuesAreInOrder
    /\ ShownPrecedesQueued
    /\ NothingIsMissing

-----------------------------------------------------------------------------
(* What the parts of the invariant depend on.                              *)

\* The numbers the invariant compares.
LEMMA NumbersOfUpload ==
    ASSUME UploadTypeOK
    PROVE  /\ made \in Nat /\ connection \in Nat /\ LastPut \in Nat
           /\ 1 \in Channels /\ Channels \subseteq Nat \ {0} /\ Connections \subseteq Nat \ {0}
           /\ NoChannel = 0
<1>1. handler.message \in Nat \ {0}
  BY DEF UploadTypeOK
<1>2. LastPut \in Nat
  BY <1>1 DEF LastPut
<1>3. /\ 1 \in Channels /\ Channels \subseteq Nat \ {0} /\ Connections \subseteq Nat \ {0}
      /\ MaxChannels \in Nat /\ MaxStreams \in Nat
  BY BoundsArePositive DEF Channels, Connections
<1>. QED BY <1>2, <1>3 DEF UploadTypeOK, NoChannel

\* A bound may be raised.
LEMMA UpToMore ==
    ASSUME NEW s \in Seq(Nat), NEW n \in Nat, NEW m \in Nat, n <= m, UpTo(s, n)
    PROVE  UpTo(s, m)
<1>1. \A i \in 1 .. Len(s) : s[i] \in Nat
  OBVIOUS
<1>. QED BY <1>1 DEF UpTo

\* An empty sequence is in any order.
LEMMA EmptyIsInOrder ==
    ASSUME NEW s \in Seq(Nat), NEW n
    PROVE  /\ Increasing(<<>>) /\ UpTo(<<>>, n) /\ Follow(<<>>, n)
           /\ Precedes(<<>>, s) /\ Precedes(s, <<>>)
  BY DEF Increasing, UpTo, Follow, Precedes

\* Of the handler, the order of the queues depends on its channel and its last
\* message, and both only grow.
LEMMA QueuesStayInOrder ==
    ASSUME UploadTypeOK, QueuesAreInOrder, UNCHANGED queues,
           LastPut' \in Nat, LastPut <= LastPut',
           handler'.channel \in Nat, handler.channel <= handler'.channel
    PROVE  QueuesAreInOrder'
<1>. SUFFICES ASSUME NEW ch \in Channels
              PROVE  /\ UpTo(queues[ch], LastPut')
                     /\ ch > handler'.channel => queues[ch] = <<>>
  BY DEF QueuesAreInOrder
<1>1. queues[ch] \in Seq(Nat) /\ UpTo(queues[ch], LastPut)
  BY DEF UploadTypeOK, QueuesAreInOrder
<1>2. UpTo(queues[ch], LastPut')
  BY <1>1, NumbersOfUpload, UpToMore
<1>3. handler.channel \in Nat /\ ch \in Nat
  BY NumbersOfUpload DEF UploadTypeOK
<1>. QED BY <1>2, <1>3 DEF QueuesAreInOrder

\* The order of what was shown depends on nothing else of the handler and the broker.
LEMMA ShownStaysInOrder ==
    ASSUME UploadTypeOK, ShownPrecedesQueued,
           UNCHANGED <<queues, messages, sent, connection>>,
           connection # 0 => streams'[connection].channel = streams[connection].channel,
           LastPut' \in Nat, LastPut <= LastPut'
    PROVE  ShownPrecedesQueued'
<1>1. UpTo(messages, LastPut') /\ UpTo(sent, LastPut')
  BY NumbersOfUpload, UpToMore DEF UploadTypeOK, ShownPrecedesQueued
<1>. QED BY <1>1 DEF ShownPrecedesQueued

\* The first state satisfies the invariant.
LEMMA UploadInitEstablishesInv == UploadInit => UploadInv
<1>. SUFFICES ASSUME UploadInit PROVE UploadInv
  OBVIOUS
<1>0. <<>> \in Seq(Nat) /\ \A ch \in Channels : queues[ch] = <<>>
  BY DEF UploadInit
<1>1. UploadTypeOK
  BY BoundsArePositive DEF UploadInit, UploadTypeOK
<1>2. ChannelsAreMade
  BY <1>1, NumbersOfUpload DEF UploadInit, ChannelsAreMade
<1>3. QueuesAreInOrder
  BY <1>0, EmptyIsInOrder DEF QueuesAreInOrder
<1>4. ShownPrecedesQueued
  BY <1>0, EmptyIsInOrder DEF UploadInit, ShownPrecedesQueued
<1>5. NothingIsMissing
  <2>1. Len(<<>>) = 0 /\ queues[1] = <<>>
    BY <1>0, <1>1, NumbersOfUpload
  <2>2. Follow(sent, Len(messages)) /\ Follow(queues[1], Len(messages) + Len(sent))
        /\ Follow(messages, 0)
    BY <1>0, <2>1, EmptyIsInOrder DEF UploadInit
  <2>3. handler.message = Len(messages) + Len(sent) + Len(queues[1]) + 1
    BY <2>1 DEF UploadInit
  <2>. QED BY <2>2, <2>3 DEF NothingIsMissing
<1>. QED BY <1>1, <1>2, <1>3, <1>4, <1>5 DEF UploadInv

-----------------------------------------------------------------------------
(* Every step keeps the invariant.                                         *)

\* A look-up gives the channel made last, which no other holder is ahead of.
LEMMA LookUpGivesTheLast ==
    ASSUME UploadInv, NEW ch \in Channels, GetOrCreate(ch)
    PROVE  /\ registered' = ch /\ made' = ch /\ made <= made' /\ ch # NoChannel
           /\ made' \in 0 .. MaxChannels /\ registered' \in {NoChannel} \cup Channels
<1>1. ch \in Nat \ {0} /\ made \in Nat /\ ch \in 1 .. MaxChannels /\ MaxChannels \in Nat
  BY NumbersOfUpload, BoundsArePositive DEF UploadInv, Channels
<1>2. CASE ch = registered /\ ch # NoChannel /\ UNCHANGED <<registered, made>>
  BY <1>1, <1>2 DEF UploadInv, ChannelsAreMade, NoChannel
<1>3. CASE registered = NoChannel /\ ch = made + 1 /\ registered' = ch /\ made' = ch
  BY <1>1, <1>3 DEF NoChannel
<1>. QED BY <1>2, <1>3 DEF GetOrCreate

\* The post is accepted or rejected, and a channel expires: no message moves.
LEMMA PostKeeps ==
    UploadInv /\ (Submits \/ Rejects \/ Accepts \/ Expires) => UploadInv'
<1>. SUFFICES ASSUME UploadInv, Submits \/ Rejects \/ Accepts \/ Expires PROVE UploadInv'
  OBVIOUS
<1>. USE DEF UploadInv
<1>1. /\ UNCHANGED <<queues, made, streams, connection, sent, messages>>
      /\ handler'.channel = handler.channel /\ handler'.message = handler.message
      /\ registered' \in {NoChannel, registered}
      /\ handler'.at = handler.at \/ handler'.at \in {"parsing", "building", "answering"}
      /\ handler' \in [at : {"none", "parsing", "building", "publishing", "putting",
                             "answering", "answered"},
                       message : Nat \ {0}, channel : {NoChannel} \cup Channels]
      /\ handler.at \in {"answering", "answered"} => handler'.at = handler.at
      /\ listener' = listener \/ (listener = "none" /\ listener' = "connecting")
      /\ listener' = "none" => handler'.at = "none"
  BY DEF Submits, Rejects, Accepts, Expires, brokerVars, browserVars, UploadTypeOK,
         ChannelsAreMade
<1>2. LastPut \in Nat /\ LastPut' \in Nat /\ LastPut <= LastPut'
  <2>1. handler.message \in Nat \ {0}
    BY DEF UploadTypeOK
  <2>. QED BY <1>1, <2>1 DEF LastPut
<1>3. UploadTypeOK'
  BY <1>1 DEF UploadTypeOK
<1>4. ChannelsAreMade'
  BY <1>1 DEF ChannelsAreMade
<1>5. QueuesAreInOrder'
  <2>1. handler.channel \in Nat
    BY NumbersOfUpload DEF UploadTypeOK
  <2>. QED BY <1>1, <1>2, <2>1, QueuesStayInOrder
<1>6. ShownPrecedesQueued'
  BY <1>1, <1>2, ShownStaysInOrder
<1>7. NothingIsMissing'
  BY <1>1 DEF NothingIsMissing
<1>. QED BY <1>3, <1>4, <1>5, <1>6, <1>7

\* The handler looks its channel up.
LEMMA LookUpKeeps == UploadInv /\ (BuildsEvent \/ TakesChannel) => UploadInv'
<1>. SUFFICES ASSUME UploadInv, BuildsEvent \/ TakesChannel PROVE UploadInv'
  OBVIOUS
<1>. USE DEF UploadInv
<1>1. PICK ch \in Channels :
         /\ GetOrCreate(ch)
         /\ handler' = [handler EXCEPT !.at = "publishing"]
               \/ handler' = [handler EXCEPT !.at = "putting", !.channel = ch]
  BY DEF BuildsEvent, TakesChannel
<1>2. /\ registered' = ch /\ made' = ch /\ made <= made' /\ ch # NoChannel
      /\ made' \in 0 .. MaxChannels /\ registered' \in {NoChannel} \cup Channels
  BY <1>1, LookUpGivesTheLast
<1>3. /\ UNCHANGED <<queues, streams, listener, connection, sent, messages>>
      /\ handler.at \in {"building", "publishing"}
  BY DEF BuildsEvent, TakesChannel, browserVars
<1>4. /\ handler' \in [at : {"none", "parsing", "building", "publishing", "putting",
                             "answering", "answered"},
                       message : Nat \ {0}, channel : {NoChannel} \cup Channels]
      /\ handler'.message = handler.message /\ handler'.at \in {"publishing", "putting"}
      /\ handler'.channel \in {handler.channel, ch}
      /\ handler'.at = "putting" => handler'.channel = ch
  BY <1>1 DEF UploadTypeOK
<1>5. /\ made \in Nat /\ ch \in Nat /\ handler.channel \in Nat /\ handler'.channel \in Nat
      /\ \A s \in Connections : streams[s].channel \in Nat
  BY <1>4, NumbersOfUpload DEF UploadTypeOK
<1>6. handler.channel <= handler'.channel
  BY <1>2, <1>4, <1>5 DEF ChannelsAreMade
<1>7. LastPut \in Nat /\ LastPut' = LastPut
  BY <1>3, <1>4, NumbersOfUpload DEF LastPut
<1>8. UploadTypeOK'
  BY <1>2, <1>3, <1>4 DEF UploadTypeOK
<1>9. ChannelsAreMade'
  BY <1>2, <1>3, <1>4, <1>5 DEF ChannelsAreMade
<1>10. QueuesAreInOrder' /\ ShownPrecedesQueued'
  BY <1>3, <1>5, <1>6, <1>7, QueuesStayInOrder, ShownStaysInOrder
<1>11. NothingIsMissing'
  <2>. SUFFICES ASSUME made' <= 1, connection <= 1
                PROVE  NothingIsMissing'
    BY <1>3 DEF NothingIsMissing
  <2>1. made <= 1
    BY <1>2, <1>5
  <2>. QED BY <1>3, <1>4, <2>1, Zenon DEF NothingIsMissing
<1>. QED BY <1>8, <1>9, <1>10, <1>11

\* A message is put behind all that were put before.
LEMMA PutKeeps == UploadInv /\ PutsEvent => UploadInv'
<1>. SUFFICES ASSUME UploadInv, PutsEvent PROVE UploadInv'
  OBVIOUS
<1>. USE DEF UploadInv
<1>. DEFINE hc == handler.channel
           m == handler.message
<1>1. /\ handler.at = "putting" /\ m \in Nat \ {0} /\ LastPut = m - 1
      /\ UNCHANGED <<registered, made, streams, listener, connection, sent, messages>>
  BY DEF PutsEvent, browserVars, UploadTypeOK, LastPut
<1>2. hc \in Channels
  BY <1>1 DEF UploadTypeOK, ChannelsAreMade
<1>3. /\ handler' = [handler EXCEPT !.at = "answering"]
            \/ handler' = [handler EXCEPT !.at = "building", !.message = m + 1]
  BY DEF PutsEvent
<1>4. /\ handler' \in [at : {"none", "parsing", "building", "publishing", "putting",
                             "answering", "answered"},
                       message : Nat \ {0}, channel : {NoChannel} \cup Channels]
      /\ handler'.channel = hc
      /\ \/ handler'.at = "answering" /\ handler'.message = m
         \/ handler'.at = "building" /\ handler'.message = m + 1
  <2>1. m + 1 \in Nat \ {0}
    BY <1>1
  <2>. DEFINE next == m + 1
  <2>2. /\ handler' = [handler EXCEPT !.at = "answering"]
              \/ handler' = [handler EXCEPT !.at = "building", !.message = next]
        /\ next \in Nat \ {0}
    BY <1>3, <2>1
  <2>. HIDE DEF next
  <2>3. CASE handler' = [handler EXCEPT !.at = "answering"]
    BY <2>3 DEF UploadTypeOK
  <2>4. CASE handler' = [handler EXCEPT !.at = "building", !.message = next]
    <3>1. handler'.at = "building" /\ handler'.message = next /\ handler'.channel = hc
      BY <2>4 DEF UploadTypeOK
    <3>2. handler' \in [at : {"none", "parsing", "building", "publishing", "putting",
                             "answering", "answered"},
                       message : Nat \ {0}, channel : {NoChannel} \cup Channels]
      BY <2>2, <2>4 DEF UploadTypeOK
    <3>. QED BY <3>1, <3>2 DEF next
  <2>. QED BY <2>2, <2>3, <2>4
<1>5. LastPut' = m
  BY <1>1, <1>4 DEF LastPut
<1>6. queues[hc] \in Seq(Nat) /\ queues' = [queues EXCEPT ![hc] = Append(queues[hc], m)]
  BY <1>2 DEF UploadTypeOK, PutsEvent
<1>7. /\ Append(queues[hc], m) \in Seq(Nat) /\ Len(queues[hc]) \in Nat
      /\ Len(Append(queues[hc], m)) = Len(queues[hc]) + 1
  BY <1>1, <1>6, PartsOfAppend
<1>8. /\ queues' \in [Channels -> Seq(Nat)]
      /\ queues'[hc] = Append(queues[hc], m)
      /\ \A ch \in Channels : ch # hc => queues'[ch] = queues[ch]
  <2>. HIDE DEF hc
  <2>. DEFINE longer == Append(queues[hc], m)
  <2>1. queues' = [queues EXCEPT ![hc] = longer] /\ longer \in Seq(Nat)
    BY <1>6, <1>7
  <2>. HIDE DEF longer
  <2>2. queues' \in [Channels -> Seq(Nat)] /\ queues'[hc] = longer
        /\ \A ch \in Channels : ch # hc => queues'[ch] = queues[ch]
    BY <1>2, <2>1 DEF UploadTypeOK
  <2>. QED BY <2>2 DEF longer
<1>. HIDE DEF hc, m
<1>9. LastPut \in Nat /\ m \in Nat /\ LastPut < m
  BY <1>1
<1>10. ASSUME NEW s \in Seq(Nat), UpTo(s, LastPut)
       PROVE  UpTo(s, m) /\ (Precedes(s, queues[hc]) => Precedes(s, queues'[hc]))
  BY <1>2, <1>6, <1>8, <1>9, <1>10, LaterAppend DEF QueuesAreInOrder
<1>11. Increasing(queues'[hc]) /\ UpTo(queues'[hc], m)
  BY <1>2, <1>6, <1>8, <1>9, LaterAppend DEF QueuesAreInOrder
<1>12. \A ch \in Channels : queues[ch] \in Seq(Nat) /\ UpTo(queues[ch], LastPut)
  BY DEF UploadTypeOK, QueuesAreInOrder
<1>13. UploadTypeOK'
  BY <1>1, <1>4, <1>8 DEF UploadTypeOK
<1>14. ChannelsAreMade'
  BY <1>1, <1>4 DEF ChannelsAreMade, hc
<1>15. QueuesAreInOrder'
  <2>1. ASSUME NEW ch \in Channels
        PROVE  /\ Increasing(queues'[ch]) /\ UpTo(queues'[ch], m)
               /\ ch > hc => queues'[ch] = <<>>
    <3>1. ch > hc => ch # hc
      BY NumbersOfUpload
    <3>2. CASE ch = hc
      BY <3>1, <3>2, <1>11
    <3>3. CASE ch # hc
      BY <3>3, <1>8, <1>10, <1>12 DEF QueuesAreInOrder, hc
    <3>. QED BY <3>2, <3>3
  <2>2. ASSUME NEW a \in Channels, NEW b \in Channels, a < b
        PROVE  Precedes(queues'[a], queues'[b])
    <3>0. a # b /\ a \in Nat /\ b \in Nat /\ hc \in Nat
      BY <2>2, <1>2, NumbersOfUpload
    <3>1. CASE b = hc
      <4>1. Precedes(queues[a], queues[hc]) /\ queues'[a] = queues[a]
        BY <2>2, <3>0, <3>1, <1>8 DEF QueuesAreInOrder
      <4>. QED BY <3>1, <4>1, <1>10, <1>12
    <3>2. CASE a = hc
      <4>1. queues'[b] = <<>>
        BY <2>2, <3>0, <3>2, <1>8 DEF QueuesAreInOrder, hc
      <4>. QED BY <4>1, <1>8, EmptyIsInOrder
    <3>3. CASE a # hc /\ b # hc
      BY <2>2, <3>3, <1>8 DEF QueuesAreInOrder
    <3>. QED BY <3>1, <3>2, <3>3
  <2>. QED BY <2>1, <2>2, <1>4, <1>5 DEF QueuesAreInOrder
<1>16. ShownPrecedesQueued'
  <2>1. UpTo(messages, m) /\ UpTo(sent, m)
    BY <1>10 DEF ShownPrecedesQueued, UploadTypeOK
  <2>2. ASSUME connection # 0, NEW ch \in Channels, ch >= streams[connection].channel
        PROVE  Precedes(messages, queues'[ch]) /\ Precedes(sent, queues'[ch])
    <3>1. Precedes(messages, queues[ch]) /\ Precedes(sent, queues[ch])
      BY <2>2 DEF ShownPrecedesQueued
    <3>2. CASE ch = hc
      BY <3>1, <3>2, <1>10 DEF ShownPrecedesQueued, UploadTypeOK
    <3>3. CASE ch # hc
      BY <3>1, <3>3, <1>8
    <3>. QED BY <3>2, <3>3
  <2>. QED BY <2>1, <2>2, <1>1, <1>5 DEF ShownPrecedesQueued
<1>17. NothingIsMissing'
  <2>. SUFFICES ASSUME made <= 1, connection <= 1, connection = 0 \/ listener = "open"
                PROVE  /\ Follow(queues'[1], Len(messages) + Len(sent))
                       /\ handler'.at \notin {"answering", "answered"} =>
                             handler'.message
                                = Len(messages) + Len(sent) + Len(queues'[1]) + 1
    BY <1>1 DEF NothingIsMissing
  <2>1. hc = 1
    <3>1. hc <= made /\ hc \in Nat \ {0} /\ made \in Nat
      BY <1>2, NumbersOfUpload DEF ChannelsAreMade, hc
    <3>. QED BY <3>1
  <2>. DEFINE n == Len(messages) + Len(sent)
  <2>2. n \in Nat
    BY DEF UploadTypeOK
  <2>3. Follow(queues[1], n) /\ m = n + Len(queues[1]) + 1
    BY <1>1 DEF NothingIsMissing, m
  <2>. HIDE DEF n
  <2>4. Follow(queues'[1], n)
    BY <1>6, <1>8, <2>1, <2>2, <2>3, FollowAppend
  <2>5. Len(queues'[1]) = Len(queues[1]) + 1 /\ Len(queues[1]) \in Nat
    BY <1>7, <1>8, <2>1
  <2>6. m + 1 = n + Len(queues'[1]) + 1
    BY <2>2, <2>3, <2>5
  <2>. QED BY <1>4, <2>4, <2>6 DEF n
<1>. QED BY <1>13, <1>14, <1>15, <1>16, <1>17

\* The answer ends the stream in the browser; a broken connection is opened again.
\* What was on its way is lost.
LEMMA CutKeeps == UploadInv /\ (ReceivesAnswer \/ Reconnects) => UploadInv'
<1>. SUFFICES ASSUME UploadInv, ReceivesAnswer \/ Reconnects PROVE UploadInv'
  OBVIOUS
<1>. USE DEF UploadInv
<1>1. /\ UNCHANGED <<registered, queues, made, streams, connection, messages>>
      /\ sent' = <<>> /\ listener' \in {"closed", "connecting"}
      /\ handler' = handler \/ handler' = [handler EXCEPT !.at = "answered"]
      /\ handler.at = "answering" \/ (listener = "open" /\ UNCHANGED handler)
  BY DEF ReceivesAnswer, Reconnects, brokerVars
<1>2. /\ handler' \in [at : {"none", "parsing", "building", "publishing", "putting",
                             "answering", "answered"},
                       message : Nat \ {0}, channel : {NoChannel} \cup Channels]
      /\ handler'.channel = handler.channel /\ handler'.message = handler.message
      /\ handler'.at = handler.at \/ (handler.at = "answering" /\ handler'.at = "answered")
  BY <1>1 DEF UploadTypeOK, ReceivesAnswer
<1>3. LastPut' = LastPut /\ LastPut \in Nat
  BY <1>2, NumbersOfUpload DEF LastPut
<1>4. UploadTypeOK'
  BY <1>1, <1>2 DEF UploadTypeOK
<1>5. ChannelsAreMade'
  BY <1>1, <1>2 DEF ChannelsAreMade
<1>6. QueuesAreInOrder'
  BY <1>1, <1>2, <1>3 DEF QueuesAreInOrder
<1>7. ShownPrecedesQueued'
  <2>1. /\ Increasing(<<>>) /\ UpTo(<<>>, LastPut) /\ Precedes(messages, <<>>)
        /\ \A ch \in Channels : Precedes(<<>>, queues[ch])
    BY EmptyIsInOrder DEF UploadTypeOK
  <2>. QED BY <1>1, <1>3, <2>1 DEF ShownPrecedesQueued
<1>8. NothingIsMissing'
  <2>. SUFFICES ASSUME made <= 1, connection <= 1
                PROVE  NothingIsMissing'
    BY <1>1 DEF NothingIsMissing
  <2>1. CASE connection = 0
    <3>1. sent = <<>> /\ listener # "open"
      BY <2>1 DEF ShownPrecedesQueued, ChannelsAreMade
    <3>2. handler'.at \in {"answering", "answered"}
      BY <1>1, <1>2, <3>1
    <3>. QED BY <1>1, <2>1, <3>1, <3>2, Zenon DEF NothingIsMissing
  <2>2. CASE connection # 0
    BY <1>1, <2>2 DEF NothingIsMissing
  <2>. QED BY <2>1, <2>2
<1>. QED BY <1>4, <1>5, <1>6, <1>7, <1>8

\* A new connection takes the channel made last.
LEMMA OpenKeeps == UploadInv /\ OpensStream => UploadInv'
<1>. SUFFICES ASSUME UploadInv, OpensStream PROVE UploadInv'
  OBVIOUS
<1>. USE DEF UploadInv
<1>. DEFINE c == connection + 1
<1>1. /\ listener = "connecting" \/ (listener = "closed" /\ connection = 0)
      /\ connection < MaxStreams /\ connection' = c
      /\ listener' = IF listener = "closed" THEN listener ELSE "open"
      /\ UNCHANGED <<queues, handler, sent, messages>>
  BY DEF OpensStream
<1>2. PICK ch \in Channels :
         GetOrCreate(ch) /\ streams' = [streams EXCEPT ![c] = [at |-> "waiting", channel |-> ch]]
  BY DEF OpensStream
<1>3. /\ registered' = ch /\ made' = ch /\ made <= made' /\ ch # NoChannel
      /\ made' \in 0 .. MaxChannels /\ registered' \in {NoChannel} \cup Channels
  BY <1>2, LookUpGivesTheLast
<1>4. connection \in Nat /\ c \in Connections /\ c \in 0 .. MaxStreams /\ ch \in Nat
  BY <1>1, NumbersOfUpload, BoundsArePositive DEF UploadTypeOK, Connections
<1>5. /\ streams' \in [Connections -> [at : {"none", "waiting", "removing", "ended"},
                                       channel : {NoChannel} \cup Channels]]
      /\ streams'[c].at = "waiting" /\ streams'[c].channel = ch
      /\ \A s \in Connections : s # c => streams'[s] = streams[s]
  BY <1>2, <1>4 DEF UploadTypeOK
<1>6. UploadTypeOK'
  BY <1>1, <1>3, <1>4, <1>5 DEF UploadTypeOK
<1>7. ChannelsAreMade'
  <2>1. /\ made \in Nat /\ handler.channel \in Nat
        /\ \A s \in Connections : s \in Nat /\ streams[s].channel \in Nat
    BY NumbersOfUpload DEF UploadTypeOK
  <2>2. handler'.channel <= made'
    BY <1>1, <1>3, <1>4, <2>1 DEF ChannelsAreMade
  <2>3. ASSUME NEW s \in Connections
        PROVE  /\ streams'[s].channel <= made'
               /\ streams'[s].at # "none" <=> s <= c
               /\ streams'[s].at # "none" => streams'[s].channel # NoChannel
    <3>1. CASE s = c
      BY <1>3, <1>4, <1>5, <3>1
    <3>2. CASE s # c
      <4>1. s <= c <=> s <= connection
        BY <1>4, <2>1, <3>2
      <4>. QED BY <1>3, <1>4, <1>5, <2>1, <3>2, <4>1 DEF ChannelsAreMade
    <3>. QED BY <3>1, <3>2
  <2>4. connection' # 0
    BY <1>1, <1>4
  <2>. QED BY <1>1, <1>3, <2>2, <2>3, <2>4 DEF ChannelsAreMade
<1>8. LastPut' = LastPut /\ QueuesAreInOrder'
  BY <1>1 DEF LastPut, QueuesAreInOrder
<1>9. ShownPrecedesQueued'
  <2>1. c # 0 /\ streams'[c].channel = ch
    BY <1>4, <1>5
  <2>2. ASSUME NEW d \in Channels, d >= ch
        PROVE  Precedes(messages, queues[d]) /\ Precedes(sent, queues[d])
    <3>1. CASE connection = 0
      <4>1. messages = <<>> /\ sent = <<>> /\ queues[d] \in Seq(Nat)
        BY <3>1 DEF ShownPrecedesQueued, UploadTypeOK
      <4>. QED BY <4>1, EmptyIsInOrder
    <3>2. CASE connection # 0
      <4>1. connection \in Connections
        BY <1>1, <1>4, <3>2, BoundsArePositive DEF Connections
      <4>2. streams[connection].channel \in Nat /\ streams[connection].channel <= made
        BY <4>1, NumbersOfUpload DEF ChannelsAreMade, UploadTypeOK
      <4>3. d \in Nat /\ made \in Nat
        BY NumbersOfUpload
      <4>4. d >= streams[connection].channel
        BY <1>3, <1>4, <2>2, <4>2, <4>3
      <4>. QED BY <3>2, <4>4 DEF ShownPrecedesQueued
    <3>. QED BY <3>1, <3>2
  <2>. HIDE DEF c
  <2>. QED BY <1>1, <1>8, <2>1, <2>2 DEF ShownPrecedesQueued
<1>10. NothingIsMissing'
  <2>. SUFFICES ASSUME made' <= 1, c <= 1 PROVE NothingIsMissing'
    BY <1>1 DEF NothingIsMissing
  <2>1. connection = 0 /\ made <= 1 /\ connection <= 1 /\ c = 1
    BY <1>3, <1>4, NumbersOfUpload
  <2>. HIDE DEF c
  <2>. QED BY <1>1, <2>1 DEF NothingIsMissing
<1>. QED BY <1>6, <1>7, <1>8, <1>9, <1>10

\* The generator takes a message: it leaves the queue, and reaches the browser if
\* the generator's connection is the one the browser has.
LEMMA TakeKeeps ==
    ASSUME UploadInv, NEW s \in Connections, TakesEvent(s)
    PROVE  UploadInv'
<1>. USE DEF UploadInv
<1>. DEFINE ch == streams[s].channel
           q == queues[ch]
<1>1. /\ streams[s].at = "waiting" /\ q # <<>>
      /\ UNCHANGED <<registered, made, handler, listener, connection, messages>>
      /\ queues' = [queues EXCEPT ![ch] = Tail(@)]
      /\ sent' = IF Connected(s) THEN Append(sent, Head(q)) ELSE sent
      /\ \E at \in {"removing", "waiting"} : streams' = [streams EXCEPT ![s].at = at]
  BY DEF TakesEvent
<1>2. /\ ch \in Channels /\ s <= connection /\ s \in Nat \ {0} /\ ch <= made
      /\ ch \in Nat \ {0} /\ made \in Nat /\ connection \in Nat
  BY <1>1, NumbersOfUpload DEF UploadTypeOK, ChannelsAreMade
<1>3. q \in Seq(Nat) /\ sent \in Seq(Nat) /\ messages \in Seq(Nat)
  BY <1>2 DEF UploadTypeOK
<1>4. /\ streams' \in [Connections -> [at : {"none", "waiting", "removing", "ended"},
                                       channel : {NoChannel} \cup Channels]]
      /\ \A x \in Connections : /\ streams'[x].channel = streams[x].channel
                               /\ streams'[x].at # "none" <=> streams[x].at # "none"
  <2>1. PICK at \in {"removing", "waiting"} : streams' = [streams EXCEPT ![s].at = at]
    BY <1>1
  <2>. QED BY <1>1, <2>1 DEF UploadTypeOK
<1>. HIDE DEF ch
<1>5. /\ queues' \in [Channels -> Seq(Nat)] /\ queues'[ch] = Tail(q)
      /\ \A d \in Channels : d # ch => queues'[d] = queues[d]
  <2>. DEFINE rest == Tail(q)
  <2>1. rest \in Seq(Nat)
    BY <1>1, <1>3, PartsOfTail
  <2>2. queues' = [queues EXCEPT ![ch] = rest]
    BY <1>1
  <2>. HIDE DEF rest
  <2>3. queues' \in [Channels -> Seq(Nat)] /\ queues'[ch] = rest
        /\ \A d \in Channels : d # ch => queues'[d] = queues[d]
    BY <1>2, <2>1, <2>2 DEF UploadTypeOK
  <2>. QED BY <2>3 DEF rest
<1>. HIDE DEF q
<1>6. LastPut' = LastPut /\ LastPut \in Nat
  BY <1>1, NumbersOfUpload DEF LastPut
<1>7. /\ Increasing(q) /\ UpTo(q, LastPut) /\ \A d \in Channels : queues[d] \in Seq(Nat)
      /\ \A d \in Channels : ch < d => Precedes(q, queues[d])
      /\ \A d \in Channels : d < ch => Precedes(queues[d], q)
  BY <1>2 DEF QueuesAreInOrder, UploadTypeOK, q
<1>8. /\ Increasing(Tail(q)) /\ UpTo(Tail(q), LastPut)
      /\ \A d \in Channels : ch < d => Precedes(Tail(q), queues[d])
      /\ \A d \in Channels : d < ch => Precedes(queues[d], Tail(q))
  <2>1. ASSUME NEW d \in Channels
        PROVE  /\ Increasing(Tail(q)) /\ UpTo(Tail(q), LastPut)
               /\ ch < d => Precedes(Tail(q), queues[d])
               /\ d < ch => Precedes(queues[d], Tail(q))
    BY <1>1, <1>3, <1>6, <1>7, TailKeepsOrder DEF q
  <2>. QED BY <1>2, <2>1
<1>9. ChannelsAreMade'
  BY <1>1, <1>4 DEF ChannelsAreMade
<1>10. QueuesAreInOrder'
  <2>1. ASSUME NEW d \in Channels
        PROVE  /\ Increasing(queues'[d]) /\ UpTo(queues'[d], LastPut)
               /\ d > handler.channel => queues'[d] = <<>>
    <3>1. CASE d = ch
      <4>1. ~(d > handler.channel)
        BY <1>1, <3>1 DEF QueuesAreInOrder, q
      <4>. QED BY <1>5, <1>8, <3>1, <4>1
    <3>2. CASE d # ch
      BY <1>5, <3>2 DEF QueuesAreInOrder
    <3>. QED BY <3>1, <3>2
  <2>2. ASSUME NEW a \in Channels, NEW b \in Channels, a < b
        PROVE  Precedes(queues'[a], queues'[b])
    <3>1. a # b
      BY <2>2, NumbersOfUpload
    <3>. QED BY <1>5, <1>8, <2>2, <3>1 DEF QueuesAreInOrder
  <2>. QED BY <1>1, <1>6, <2>1, <2>2 DEF QueuesAreInOrder
<1>11. CASE ~Connected(s)
  <2>1. sent' = sent
    BY <1>1, <1>11
  <2>2. UploadTypeOK'
    BY <1>1, <1>4, <1>5, <2>1 DEF UploadTypeOK
  <2>3. ShownPrecedesQueued'
    <3>1. connection \in Connections
      BY <1>2, BoundsArePositive DEF UploadTypeOK, Connections
    <3>2. ASSUME NEW d \in Channels, d >= streams[connection].channel
          PROVE  Precedes(messages, queues'[d]) /\ Precedes(sent, queues'[d])
      <4>1. Precedes(messages, queues[d]) /\ Precedes(sent, queues[d])
        BY <1>2, <3>2 DEF ShownPrecedesQueued
      <4>2. CASE d = ch
        BY <1>1, <1>3, <1>5, <1>6, <4>1, <4>2, TailKeepsOrder DEF q
      <4>3. CASE d # ch
        BY <1>5, <4>1, <4>3
      <4>. QED BY <4>2, <4>3
    <3>. QED BY <1>1, <1>4, <1>6, <2>1, <3>1, <3>2 DEF ShownPrecedesQueued
  <2>4. NothingIsMissing'
    <3>. SUFFICES ASSUME made <= 1, connection <= 1 PROVE NothingIsMissing'
      BY <1>1 DEF NothingIsMissing
    <3>1. connection = s /\ connection # 0
      BY <1>2
    <3>2. listener # "open"
      BY <1>11, <3>1 DEF Connected
    <3>. QED BY <1>1, <3>1, <3>2 DEF NothingIsMissing
  <2>. QED BY <1>9, <1>10, <2>2, <2>3, <2>4
<1>12. CASE Connected(s)
  <2>1. sent' = Append(sent, Head(q)) /\ s = connection /\ listener = "open"
    BY <1>1, <1>12 DEF Connected
  <2>2. Head(q) \in Nat /\ sent' \in Seq(Nat) /\ Len(sent') = Len(sent) + 1
    BY <1>1, <1>3, <2>1, PartsOfTail, PartsOfAppend
  <2>3. UploadTypeOK'
    BY <1>1, <1>4, <1>5, <2>2 DEF UploadTypeOK
  <2>4. /\ Precedes(messages, q) /\ Precedes(sent, q) /\ Increasing(sent)
        /\ Precedes(messages, sent) /\ UpTo(sent, LastPut)
        /\ \A d \in Channels : ch < d =>
              Precedes(messages, queues[d]) /\ Precedes(sent, queues[d])
    <3>1. \A d \in Channels : d = ch \/ ch < d => d >= ch
      BY <1>2, NumbersOfUpload
    <3>2. \A d \in Channels :
             d >= ch => Precedes(messages, queues[d]) /\ Precedes(sent, queues[d])
      BY <1>2, <2>1 DEF ShownPrecedesQueued, ch
    <3>. QED BY <1>2, <3>1, <3>2 DEF ShownPrecedesQueued, q
  <2>5. /\ Increasing(sent') /\ UpTo(sent', LastPut) /\ Precedes(sent', Tail(q))
        /\ Precedes(messages, sent') /\ Precedes(messages, Tail(q))
    BY <1>1, <1>3, <1>6, <1>7, <2>1, <2>4, HeadMoves, TailKeepsOrder
  <2>6. ASSUME NEW d \in Channels, ch < d
        PROVE  Precedes(sent', queues[d])
    BY <1>1, <1>3, <1>6, <1>7, <2>1, <2>4, <2>6, HeadMoves
  <2>7. ShownPrecedesQueued'
    <3>1. ASSUME NEW d \in Channels, d >= ch
          PROVE  Precedes(messages, queues'[d]) /\ Precedes(sent', queues'[d])
      <4>1. d = ch \/ (d # ch /\ ch < d)
        BY <1>2, <3>1, NumbersOfUpload
      <4>. QED BY <1>5, <2>4, <2>5, <2>6, <4>1
    <3>. QED BY <1>1, <1>2, <1>4, <1>6, <2>1, <2>5, <3>1 DEF ShownPrecedesQueued, ch
  <2>8. NothingIsMissing'
    <3>. SUFFICES ASSUME made <= 1, connection <= 1
                  PROVE  /\ Follow(messages, 0)
                         /\ Follow(sent', Len(messages))
                         /\ Follow(queues'[1], Len(messages) + Len(sent'))
                         /\ handler.at \notin {"answering", "answered"} =>
                               handler.message
                                  = Len(messages) + Len(sent') + Len(queues'[1]) + 1
      BY <1>1 DEF NothingIsMissing
    <3>. DEFINE l == Len(messages)
               n == Len(messages) + Len(sent)
    <3>1. ch = 1
      BY <1>2
    <3>2. l \in Nat /\ Len(sent) \in Nat /\ n \in Nat /\ n = l + Len(sent)
      BY <1>3
    <3>3. /\ Follow(messages, 0) /\ Follow(sent, l) /\ Follow(q, n)
          /\ handler.at \notin {"answering", "answered"} => handler.message = n + Len(q) + 1
      BY <2>1, <3>1 DEF NothingIsMissing, q
    <3>. HIDE DEF l, n
    <3>4. Head(q) = n + 1 /\ Follow(Tail(q), n + 1)
      BY <1>1, <1>3, <3>2, <3>3, FollowTail
    <3>5. Follow(sent', l)
      <4>1. Head(q) = l + Len(sent) + 1
        BY <3>2, <3>4
      <4>. QED BY <1>3, <2>1, <3>2, <3>3, <4>1, FollowAppend
    <3>6. l + Len(sent') = n + 1
      BY <2>2, <3>2
    <3>7. Len(Tail(q)) = Len(q) - 1 /\ Len(q) \in Nat
      BY <1>1, <1>3, PartsOfTail
    <3>8. (l + Len(sent')) + Len(Tail(q)) + 1 = n + Len(q) + 1
      <4>1. \A x \in Nat : n + 1 + (x - 1) + 1 = n + x + 1
        BY <3>2
      <4>. QED BY <3>6, <3>7, <4>1, Zenon
    <3>. QED BY <1>5, <3>1, <3>3, <3>4, <3>5, <3>6, <3>8 DEF l
  <2>. QED BY <1>9, <1>10, <2>3, <2>7, <2>8
<1>. QED BY <1>11, <1>12

\* The generator removes its channel: no message moves.
LEMMA RemoveKeeps ==
    ASSUME UploadInv, NEW s \in Connections, RemovesChannel(s)
    PROVE  UploadInv'
<1>. USE DEF UploadInv
<1>1. /\ streams[s].at = "removing" /\ registered' \in {NoChannel, registered}
      /\ UNCHANGED <<queues, made, handler, listener, connection, sent, messages>>
      /\ streams' = [streams EXCEPT ![s].at = "ended"]
  BY DEF RemovesChannel, browserVars
<1>2. /\ streams' \in [Connections -> [at : {"none", "waiting", "removing", "ended"},
                                       channel : {NoChannel} \cup Channels]]
      /\ \A x \in Connections : /\ streams'[x].channel = streams[x].channel
                               /\ streams'[x].at # "none" <=> streams[x].at # "none"
  BY <1>1 DEF UploadTypeOK
<1>3. LastPut' = LastPut
  BY <1>1 DEF LastPut
<1>4. UploadTypeOK'
  BY <1>1, <1>2 DEF UploadTypeOK
<1>5. ChannelsAreMade'
  BY <1>1, <1>2 DEF ChannelsAreMade
<1>6. (QueuesAreInOrder /\ NothingIsMissing)'
  BY <1>1, <1>3 DEF QueuesAreInOrder, NothingIsMissing
<1>7. ShownPrecedesQueued'
  <2>1. connection # 0 => connection \in Connections
    BY BoundsArePositive DEF UploadTypeOK, Connections
  <2>. QED BY <1>1, <1>2, <1>3, <2>1 DEF ShownPrecedesQueued
<1>. QED BY <1>4, <1>5, <1>6, <1>7

\* The user is shown the first message that is on its way.
LEMMA ReceiveKeeps == UploadInv /\ ReceivesMessage => UploadInv'
<1>. SUFFICES ASSUME UploadInv, ReceivesMessage PROVE UploadInv'
  OBVIOUS
<1>. USE DEF UploadInv
<1>1. /\ listener = "open" /\ sent # <<>>
      /\ messages' = Append(messages, Head(sent)) /\ sent' = Tail(sent)
      /\ UNCHANGED <<registered, queues, made, handler, streams, listener, connection>>
  BY DEF ReceivesMessage, brokerVars
<1>2. /\ sent \in Seq(Nat) /\ messages \in Seq(Nat) /\ LastPut \in Nat /\ LastPut' = LastPut
      /\ connection # 0 /\ \A d \in Channels : queues[d] \in Seq(Nat)
  BY <1>1, NumbersOfUpload DEF UploadTypeOK, ChannelsAreMade, LastPut
<1>3. /\ Head(sent) \in Nat /\ messages' \in Seq(Nat) /\ sent' \in Seq(Nat)
      /\ Len(messages') = Len(messages) + 1 /\ Len(sent') = Len(sent) - 1
      /\ Len(messages) \in Nat /\ Len(sent) \in Nat
  BY <1>1, <1>2, PartsOfTail, PartsOfAppend
<1>4. UploadTypeOK'
  BY <1>1, <1>3 DEF UploadTypeOK
<1>5. (ChannelsAreMade /\ QueuesAreInOrder)'
  BY <1>1, <1>2 DEF ChannelsAreMade, QueuesAreInOrder
<1>6. ShownPrecedesQueued'
  <2>1. /\ Increasing(messages) /\ Increasing(sent) /\ Precedes(messages, sent)
        /\ UpTo(messages, LastPut) /\ UpTo(sent, LastPut)
    BY DEF ShownPrecedesQueued
  <2>2. /\ Increasing(messages') /\ UpTo(messages', LastPut) /\ Precedes(messages', sent')
        /\ Increasing(sent') /\ UpTo(sent', LastPut)
    BY <1>1, <1>2, <2>1, HeadMoves, TailKeepsOrder
  <2>3. ASSUME NEW d \in Channels, d >= streams[connection].channel
        PROVE  Precedes(messages', queues[d]) /\ Precedes(sent', queues[d])
    <3>1. Precedes(messages, queues[d]) /\ Precedes(sent, queues[d])
      BY <1>2, <2>3 DEF ShownPrecedesQueued
    <3>. QED BY <1>1, <1>2, <2>1, <3>1, HeadMoves, TailKeepsOrder
  <2>. QED BY <1>1, <1>2, <2>2, <2>3 DEF ShownPrecedesQueued
<1>7. NothingIsMissing'
  <2>. SUFFICES ASSUME made <= 1, connection <= 1
                PROVE  /\ Follow(messages', 0)
                       /\ Follow(sent', Len(messages'))
                       /\ Follow(queues[1], Len(messages') + Len(sent'))
                       /\ handler.at \notin {"answering", "answered"} =>
                             handler.message
                                = Len(messages') + Len(sent') + Len(queues[1]) + 1
    BY <1>1 DEF NothingIsMissing
  <2>1. /\ Follow(messages, 0) /\ Follow(sent, Len(messages))
        /\ Follow(queues[1], Len(messages) + Len(sent))
        /\ handler.at \notin {"answering", "answered"} =>
              handler.message = Len(messages) + Len(sent) + Len(queues[1]) + 1
    BY <1>1 DEF NothingIsMissing
  <2>2. Head(sent) = Len(messages) + 1 /\ Follow(Tail(sent), Len(messages) + 1)
    BY <1>1, <1>2, <1>3, <2>1, FollowTail
  <2>3. Follow(messages', 0)
    <3>1. Head(sent) = 0 + Len(messages) + 1
      BY <1>3, <2>2
    <3>. QED BY <1>1, <1>2, <2>1, <3>1, FollowAppend
  <2>4. Len(messages') + Len(sent') = Len(messages) + Len(sent)
    BY <1>3
  <2>. QED BY <1>1, <1>3, <2>1, <2>2, <2>3, <2>4, Zenon
<1>. QED BY <1>4, <1>5, <1>6, <1>7

\* The invariant is inductive.
LEMMA UploadStepKeepsInv == UploadInv /\ [UploadNext]_uploadVars => UploadInv'
<1>. SUFFICES ASSUME UploadInv, [UploadNext]_uploadVars PROVE UploadInv'
  OBVIOUS
<1>1. CASE \E s \in Connections : StreamStep(s)
  BY <1>1, TakeKeeps, RemoveKeeps DEF StreamStep
<1>2. CASE UNCHANGED uploadVars
  <2>0. /\ UNCHANGED <<registered, queues, made, handler, streams>>
        /\ UNCHANGED <<listener, connection, sent, messages>>
    BY <1>2 DEF uploadVars
  <2>1. UploadTypeOK' /\ ChannelsAreMade'
    BY <2>0 DEF UploadInv, UploadTypeOK, ChannelsAreMade
  <2>2. LastPut' = LastPut
    BY <2>0 DEF LastPut
  <2>3. QueuesAreInOrder'
    BY <2>0, <2>2 DEF UploadInv, QueuesAreInOrder
  <2>4. ShownPrecedesQueued'
    BY <2>0, <2>2 DEF UploadInv, ShownPrecedesQueued
  <2>5. NothingIsMissing'
    BY <2>0 DEF UploadInv, NothingIsMissing
  <2>. QED BY <2>1, <2>3, <2>4, <2>5 DEF UploadInv
<1>. QED BY <1>1, <1>2, PostKeeps, LookUpKeeps, PutKeeps, CutKeeps, OpenKeeps, ReceiveKeeps
         DEF UploadNext, CalmNext, HandlerStep

\* The order of what was shown is part of the invariant.
LEMMA ShownIsInOrder == UploadInv => ShownInOrder
<1>. SUFFICES ASSUME UploadInv PROVE ShownInOrder
  OBVIOUS
<1>1. Increasing(messages)
  BY DEF UploadInv, ShownPrecedesQueued
<1>2. made <= 1 /\ connection <= 1 => Follow(messages, 0)
  BY DEF UploadInv, NothingIsMissing
<1>3. Len(messages) \in Nat
  BY DEF UploadInv, UploadTypeOK
<1>. QED BY <1>1, <1>2, <1>3 DEF ShownInOrder, Increasing, Follow

-----------------------------------------------------------------------------
(* The theorems.                                                           *)

\* The invariant holds however connections break and channels expire.
THEOREM UploadInvariant == UploadSpec => []UploadInv
  BY UploadInitEstablishesInv, UploadStepKeepsInv, PTL DEF UploadSpec

\* The broker, the handlers and the browser keep to their types.
THEOREM UploadTypeCorrect == UploadSpec => []UploadTypeOK
<1>1. UploadInv => UploadTypeOK
  BY DEF UploadInv
<1>. QED BY <1>1, UploadInvariant, PTL

\* A message is shown at most once and never after a later one; with one channel
\* and one connection the messages shown are the first ones without a gap.
THEOREM UploadShowsInOrder == UploadSpec => []ShownInOrder
<1>. QED BY ShownIsInOrder, UploadInvariant, PTL

=============================================================================
