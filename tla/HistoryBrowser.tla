--------------------------- MODULE HistoryBrowser ----------------------------
(* The history tab (useHistoryData.ts, useHistorySeries.ts): the summary of a *)
(* repository, its list of pairs page by page, the chart of all pairs, the    *)
(* poll of a running extension, and the visualization of a pair.  Every       *)
(* answer is of the moment the server read its data and arrives later.        *)
(*                                                                           *)
(* srcmove-history is outside the repository: its counter, the extension of   *)
(* an analysis and its pages are modelled from how the code uses them.  The   *)
(* list of repositories is the deployment's and fixed; the two reads of a     *)
(* load are one.                                                             *)
EXTENDS ComparisonInput, Integers, SequencesExt

CONSTANTS
  Repositories,
  DefaultRepository,  \* default_id, chosen at first
  HistoryLength,  \* per repository, the pairs there are
  SavedPairs,     \* per repository, the pairs analysed at first
  WithMoves,      \* the pairs in which moves were detected
  PAGE,           \* pairs in a page, 50 in the code
  MaxPolls,       \* bound: polls of one timer that are under way at once
  MaxFailures,    \* bound: requests that fail
  MaxPending      \* bound: requests under way when the user or the timer asks more

ASSUME BrowserAssumption ==
  /\ DefaultRepository \in Repositories
  /\ HistoryLength \in [Repositories -> Nat \ {0}]
  /\ SavedPairs \in [Repositories -> Nat \ {0}]
  /\ \A p \in Repositories : SavedPairs[p] <= HistoryLength[p]
  /\ PAGE \in Nat \ {0, 1} /\ {MaxPolls, MaxFailures, MaxPending} \subseteq Nat

VARIABLES
  overtaking,    \* whether answers may overtake each other, which never changes
  saved,         \* per repository, the pairs that are analysed
  job,           \* per repository, its extension
  repository,    \* selectedRepositoryId
  selection,     \* the filter of the list
  status,        \* the summary
  extension,     \* the extension shown
  completed,     \* completedId of the poll: a completed extension was refreshed
  list,          \* [items, next]: the pairs listed and the cursor of the next page
  chart,         \* [key, covered, items, failed]: the series and its request
  selectedPair,
  busy,          \* flags: "load", "more", "pair", "open", "extend"
  requests,      \* what is not answered, in the order it was asked
  failures

historyVars == <<overtaking, saved, job, repository, selection, status, extension, completed,
                 list, chart, selectedPair, busy, requests, failures>>
summaryVars == <<status, extension, chart>>
viewVars == <<repository, selection>>
serverVars == <<overtaking, saved, job>>

NoStatus == Nothing
NoList == [items |-> <<>>, next |-> Nothing]
NoChart == [key |-> Nothing, covered |-> 0, items |-> <<>>, failed |-> FALSE]
Selections == {"moves", "all"}
Enabled == inputMode = "history"

Question(kind, r) ==
  [kind |-> kind, repository |-> r.repository, selection |-> r.selection,
   after |-> 0, pair |-> 0, active |-> TRUE, covered |-> 0, items |-> <<>>,
   context |-> Nothing, answer |-> Nothing]

Here == [repository |-> repository, selection |-> selection]

-----------------------------------------------------------------------------
(* The server.  The cursor of a page is its last pair's distance from the     *)
(* newest commit, one less than its number.                                   *)
Chosen(kind, pairs) ==
  IF kind = "all" THEN pairs ELSE SelectSeq(pairs, LAMBDA n : n \in WithMoves)

Page(kind, upTo, after) ==
  LET first == IF after = 0 THEN 1 ELSE after + 2
      rest == Chosen(kind, [k \in 1..(upTo - first + 1) |-> first + k - 1])
      page == SubSeq(rest, 1, IF Len(rest) < PAGE THEN Len(rest) ELSE PAGE)
  IN  [numbers |-> page,
       next |-> IF Len(rest) > PAGE THEN <<Last(page) - 1>> ELSE Nothing]

StatusIn(r) == [repository |-> r.repository, covered |-> r.answer.saved,
                writing |-> r.answer.job = "writing"]

ExtensionIn(r) ==
  CASE r.answer.job = "none" -> "none"
    [] r.answer.job \in {"writing", "saving"} -> "running"
    [] OTHER -> r.answer.job

FirstPage(r) ==
  LET page == Page(r.selection, r.answer.saved, 0)
  IN  [items |-> [k \in DOMAIN page.numbers |->
                    <<r.repository, r.selection, page.numbers[k]>>],
       next |-> page.next]

ExtensionMoves(p) ==
  /\ \/ /\ job[p] = "writing" /\ saved[p] < HistoryLength[p]
        /\ saved' = [saved EXCEPT ![p] = @ + 1] /\ job' = job
     \/ /\ job[p] = "writing"
        /\ job' = [job EXCEPT ![p] = "saving"] /\ saved' = saved
     \/ /\ job[p] = "saving"
        /\ \E end \in {"completed", "failed"} : job' = [job EXCEPT ![p] = end]
        /\ saved' = saved
  /\ UNCHANGED <<overtaking, viewVars, summaryVars, completed, list, selectedPair,
                 busy, requests, failures, inputVars>>

Before(k) == \E j \in 1..(k - 1) : requests[j].kind # "open"
InTurn(k) == overtaking \/ requests[k].kind = "open" \/ ~Before(k)

(* The server reads; a request to extend queues an extension first.           *)
Serves(k) ==
  LET r == requests[k]
      queued == IF r.kind = "extend" /\ job[r.repository] = "none"
                THEN "writing" ELSE job[r.repository]
  IN  /\ r.answer = Nothing /\ InTurn(k)
      /\ job' = [job EXCEPT ![r.repository] = queued]
      /\ requests' = [requests EXCEPT ![k].answer =
                        [saved |-> saved[r.repository], job |-> queued]]
      /\ UNCHANGED <<overtaking, saved, viewVars, summaryVars, completed, list,
                     selectedPair, busy, failures, inputVars>>

-----------------------------------------------------------------------------
(* Effects.  An effect that is cleaned up does not stop its requests; their   *)
(* answers find it inactive.                                                  *)
CleanUp(pending, kinds) ==
  [k \in DOMAIN pending |->
     IF pending[k].kind \in kinds THEN [pending[k] EXCEPT !.active = FALSE] ELSE pending[k]]

\* Mutant: an answer is used although its effect was cleaned up.
WantedAlways(r) == TRUE

StillWanted(r) == r.active

(* seriesIdentity and seriesCoverage: while an extension runs the chart keeps *)
(* the range it started with.                                                 *)
SeriesKey(view, st, ext) ==
  IF st = NoStatus \/ view = Nothing THEN Nothing
  ELSE <<view, st.repository, IF st.writing \/ ext = "running" THEN -1 ELSE st.covered>>

(* The summary is set, and with it the chart's request if its key changed.    *)
SetSummary(view, st, ext, pending) ==
  LET key == SeriesKey(view.repository, st, ext)
      again == [Question("series", view) EXCEPT !.selection = "all", !.covered = st.covered]
  IN  /\ status' = st /\ extension' = ext
      /\ chart' = IF key = chart.key THEN chart
                  ELSE [NoChart EXCEPT !.key = key,
                                       !.covered = IF key = Nothing THEN 0 ELSE st.covered]
      /\ requests' = IF key = chart.key THEN pending
                     ELSE CleanUp(pending, {"series"})
                          \o (IF key = Nothing THEN <<>> ELSE <<again>>)

(* What was loaded is dropped and loaded anew; the poll is started over       *)
(* unless the user merely asked for a refresh.                                *)
Reload(view, polls) ==
  LET kinds == IF polls THEN {"load", "poll", "fresh"} ELSE {"load"}
      again == IF polls THEN <<Question("poll", view)>> ELSE <<>>
  IN  /\ SetSummary(view, NoStatus, IF polls THEN "none" ELSE extension,
                    CleanUp(requests, kinds) \o again \o <<Question("load", view)>>)
      /\ completed' = (completed /\ ~polls)
      /\ list' = NoList /\ selectedPair' = Nothing
      /\ busy' = busy \cup {"load"}

ChooseRepository(p) ==
  /\ Enabled /\ "load" \notin busy /\ p # repository /\ Acts
  /\ repository' = p /\ selection' = selection
  /\ Reload([Here EXCEPT !.repository = p], TRUE)
  /\ UNCHANGED <<serverVars, failures, inputMode, form, waiting, review, asked, shown>>

ChooseSelection(kind) ==
  /\ Enabled /\ kind # selection /\ Acts
  /\ selection' = kind /\ repository' = repository
  /\ Reload([Here EXCEPT !.selection = kind], TRUE)
  /\ UNCHANGED <<serverVars, failures, inputMode, form, waiting, review, asked, shown>>

Refresh ==
  /\ Enabled /\ "load" \notin busy /\ Acts
  /\ Reload(Here, FALSE)
  /\ UNCHANGED <<serverVars, viewVars, failures, inputMode, form, waiting, review,
                 asked, shown>>

(* A step of another input may open or leave the history tab.  Leaving it     *)
(* keeps what was loaded, but not the chart.                                  *)
OtherInput ==
  /\ InputNext
  /\ IF Enabled' = Enabled THEN UNCHANGED historyVars
     ELSE /\ UNCHANGED <<serverVars, viewVars, failures>>
          /\ IF Enabled' THEN Reload(Here, TRUE)
             ELSE /\ requests' = CleanUp(requests, {"load", "poll", "fresh", "series"})
                  /\ chart' = NoChart
                  /\ UNCHANGED <<status, extension, completed, list, selectedPair, busy>>

-----------------------------------------------------------------------------
(* Clicks and the timer.                                                      *)
Asked(question, flag) ==
  /\ requests' = Append(requests, question)
  /\ busy' = busy \cup {flag}
  /\ UNCHANGED <<serverVars, viewVars, summaryVars, completed, list, selectedPair, failures>>

Polls ==
  /\ Enabled /\ Len(requests) < MaxPending
  /\ Cardinality({k \in DOMAIN requests : requests[k].kind = "poll"}) < MaxPolls
  /\ requests' = Append(requests, Question("poll", Here))
  /\ UNCHANGED <<serverVars, viewVars, summaryVars, completed, list, selectedPair,
                 busy, failures, inputVars>>

SelectPair(number) ==
  /\ Enabled /\ Acts
  /\ Asked([Question("pair", Here) EXCEPT !.pair = number], "pair")
  /\ UNCHANGED <<inputMode, form, waiting, review, asked, shown>>

LoadMore ==
  /\ Enabled /\ list.next # Nothing /\ "more" \notin busy /\ Acts
  /\ Asked([Question("more", Here) EXCEPT !.after = list.next[1]], "more")
  /\ UNCHANGED <<inputMode, form, waiting, review, asked, shown>>

(* One extension of each repository is enough (the guard on job).             *)
ExtendHistory ==
  /\ Enabled /\ status # NoStatus /\ "extend" \notin busy
  /\ ~status.writing /\ extension # "running" /\ status.covered < HistoryLength[repository]
  /\ job[repository] = "none" /\ Acts
  /\ Asked(Question("extend", Here), "extend")
  /\ UNCHANGED <<inputMode, form, waiting, review, asked, shown>>

(* The pair of this number in the repository that is chosen now.              *)
OpenVisualization(number) ==
  /\ "open" \notin busy /\ Acts
  /\ LET context == [mode |-> "history", label |-> <<"pair", repository, number>>]
     IN  Asked([Question("open", Here) EXCEPT !.pair = number, !.context = context], "open")
  /\ UNCHANGED <<inputMode, form, waiting, review, asked, shown>>

-----------------------------------------------------------------------------
(* Answers.                                                                   *)
Arrives(k, kind) ==
  /\ requests[k].kind = kind /\ requests[k].answer # Nothing /\ InTurn(k)

LoadArrives(k) ==
  LET r == requests[k] rest == RemoveAt(requests, k)
  IN  /\ Arrives(k, "load")
      /\ IF StillWanted(r)
         THEN /\ SetSummary(Here, StatusIn(r), extension, rest)
              /\ list' = FirstPage(r) /\ busy' = busy \ {"load"}
         ELSE requests' = rest /\ UNCHANGED <<summaryVars, list, busy>>
      /\ UNCHANGED <<serverVars, viewVars, completed, selectedPair, failures, inputVars>>

\* Mutant: a completed extension is not followed by a refresh.
AfterPollRunning(r) ==
  IF ExtensionIn(r) = "running" THEN <<Question("fresh", r)>> ELSE <<>>

AfterPoll(r) ==
  IF ExtensionIn(r) = "running" \/ (ExtensionIn(r) = "completed" /\ ~completed)
  THEN <<Question("fresh", r)>> ELSE <<>>

PollArrives(k) ==
  LET r == requests[k] rest == RemoveAt(requests, k)
      next == [j \in DOMAIN AfterPoll(r) |->
                 [AfterPoll(r)[j] EXCEPT !.context = ExtensionIn(r)]]
  IN  /\ Arrives(k, "poll")
      /\ IF StillWanted(r) THEN SetSummary(Here, status, ExtensionIn(r), rest \o next)
         ELSE requests' = rest /\ UNCHANGED summaryVars
      /\ UNCHANGED <<serverVars, viewVars, completed, list, selectedPair, busy, failures,
                     inputVars>>

(* The second half of a poll: a status, and after completion the first page.  *)
FreshArrives(k) ==
  LET r == requests[k] rest == RemoveAt(requests, k) ended == r.context = "completed"
  IN  /\ Arrives(k, "fresh")
      /\ IF StillWanted(r)
         THEN /\ SetSummary(Here, StatusIn(r), extension, rest)
              /\ list' = IF ended THEN FirstPage(r) ELSE list
              /\ completed' = (completed \/ ended)
         ELSE requests' = rest /\ UNCHANGED <<summaryVars, list, completed>>
      /\ UNCHANGED <<serverVars, viewVars, selectedPair, busy, failures, inputVars>>

(* One page of the chart; the series is shown when the last one is there.     *)
LastOfSeries(next, covered) == next = Nothing \/ next[1] >= covered - 1

\* The filter keeps the beginning of a page, since the numbers ascend.
CoveredPairs(numbers, covered) ==
  SubSeq(numbers, 1, Cardinality({k \in DOMAIN numbers : numbers[k] <= covered}))

SeriesArrives(k) ==
  LET r == requests[k] rest == RemoveAt(requests, k)
      page == Page(r.selection, r.answer.saved, r.after)
      items == r.items \o CoveredPairs(page.numbers, r.covered)
      next == [Question("series", r) EXCEPT !.after = page.next[1], !.covered = r.covered,
                                            !.items = items]
  IN  /\ Arrives(k, "series")
      /\ IF ~StillWanted(r) THEN requests' = rest /\ chart' = chart
         ELSE IF LastOfSeries(page.next, r.covered)
         THEN /\ requests' = rest
              /\ chart' = [chart EXCEPT !.items =
                             [j \in DOMAIN items |-> <<r.repository, items[j]>>]]
         ELSE requests' = Append(rest, next) /\ chart' = chart
      /\ UNCHANGED <<serverVars, viewVars, status, extension, completed, list,
                     selectedPair, busy, failures, inputVars>>

(* These have no effect that could be cleaned up: their answers are used      *)
(* whatever was chosen meanwhile.                                             *)
MoreArrives(k) ==
  LET r == requests[k]
      page == Page(r.selection, r.answer.saved, r.after)
      items == [j \in DOMAIN page.numbers |-> <<r.repository, r.selection, page.numbers[j]>>]
  IN  /\ Arrives(k, "more")
      /\ list' = [items |-> list.items \o items, next |-> page.next]
      /\ busy' = busy \ {"more"} /\ requests' = RemoveAt(requests, k)
      /\ UNCHANGED <<serverVars, viewVars, summaryVars, completed, selectedPair, failures,
                     inputVars>>

PairArrives(k) ==
  /\ Arrives(k, "pair")
  /\ selectedPair' = <<requests[k].repository, requests[k].pair>>
  /\ busy' = busy \ {"pair"} /\ requests' = RemoveAt(requests, k)
  /\ UNCHANGED <<serverVars, viewVars, summaryVars, completed, list, failures, inputVars>>

ExtendArrives(k) ==
  /\ Arrives(k, "extend")
  /\ SetSummary([Here EXCEPT !.repository = IF Enabled THEN @ ELSE Nothing], status,
                ExtensionIn(requests[k]), RemoveAt(requests, k))
  /\ busy' = busy \ {"extend"}
  /\ UNCHANGED <<serverVars, viewVars, completed, list, selectedPair, failures, inputVars>>

(* The run was followed to its end and its artifact fetched; the pair is      *)
(* fetched next, and then both are shown.                                     *)
OpenArrives(k) ==
  LET r == requests[k]
      next == [r EXCEPT !.kind = "openedPair", !.answer = Nothing]
  IN  /\ Arrives(k, "open")
      /\ requests' = Append(RemoveAt(requests, k), next)
      /\ UNCHANGED <<serverVars, viewVars, summaryVars, completed, list, selectedPair, busy,
                     failures, inputVars>>

OpenedPairArrives(k) ==
  LET r == requests[k]
  IN  /\ Arrives(k, "openedPair")
      /\ selectedPair' = <<r.repository, r.pair>>
      /\ AcceptVisualization(<<"pair", r.repository, r.pair>>, CapturedContext(r))
      /\ busy' = busy \ {"open"} /\ requests' = RemoveAt(requests, k)
      /\ UNCHANGED <<serverVars, viewVars, summaryVars, completed, list, failures,
                     inputMode, form, waiting, review, asked, inputs>>

Fails(k) ==
  LET r == requests[k]
      flag == CASE r.kind = "openedPair" -> {"open"}
                [] r.kind = "load" -> IF StillWanted(r) THEN {"load"} ELSE {}
                [] OTHER -> {r.kind}
  IN  /\ failures < MaxFailures /\ failures' = failures + 1
      /\ InTurn(k) /\ requests' = RemoveAt(requests, k)
      /\ busy' = busy \ flag
      /\ chart' = [chart EXCEPT !.failed = @ \/ (r.kind = "series" /\ StillWanted(r))]
      /\ UNCHANGED <<serverVars, viewVars, status, extension, completed, list, selectedPair,
                     inputVars>>

-----------------------------------------------------------------------------
BrowserInit ==
  /\ InputInit
  /\ overtaking \in BOOLEAN
  /\ saved = SavedPairs
  /\ job = [p \in Repositories |-> "none"]
  /\ repository = DefaultRepository
  /\ selection = "moves" /\ status = NoStatus /\ extension = "none" /\ completed = FALSE
  /\ list = NoList /\ chart = NoChart /\ selectedPair = Nothing /\ busy = {}
  /\ requests = <<>> /\ failures = 0

(* The numbers on which the list, the chart and the details have a button.    *)
Listed == {item[3] : item \in ToSet(list.items)}
Charted == {item[2] : item \in ToSet(chart.items)}

(* "Previous result" and "Next result" in the header of a pair that is open.   *)
Adjacent ==
  LET at == {j \in DOMAIN list.items : list.items[j][3] = selectedPair[2]}
  IN  IF shown.context = Nothing \/ selectedPair = Nothing THEN {}
      ELSE IF shown.context.mode # "history" \/ at = {} THEN {}
      ELSE {list.items[j][3] : j \in {Min(at) - 1, Min(at) + 1} \cap DOMAIN list.items}

Clicks == Len(requests) < MaxPending /\ (
  \/ \E p \in Repositories : ChooseRepository(p)
  \/ \E kind \in Selections : ChooseSelection(kind)
  \/ Refresh \/ LoadMore \/ ExtendHistory
  \/ \E number \in Listed \cup Charted : SelectPair(number)
  \/ /\ Enabled /\ selectedPair # Nothing /\ "pair" \notin busy
     /\ OpenVisualization(selectedPair[2])
  \/ \E number \in Adjacent : OpenVisualization(number))

Answers(k) ==
  \/ LoadArrives(k) \/ PollArrives(k) \/ FreshArrives(k) \/ SeriesArrives(k)
  \/ MoreArrives(k) \/ PairArrives(k) \/ ExtendArrives(k)
  \/ OpenArrives(k) \/ OpenedPairArrives(k)

Kinds == {"load", "poll", "fresh", "series", "more", "pair", "extend", "open", "openedPair"}

(* The oldest question of a kind is read, or its answer arrives.              *)
RespondsTo(kind) == \E k \in DOMAIN requests :
  /\ requests[k].kind = kind /\ \A j \in 1..(k - 1) : requests[j].kind # kind
  /\ Serves(k) \/ Answers(k)

BrowserNext ==
  \/ OtherInput \/ Clicks \/ Polls
  \/ \E k \in DOMAIN requests : Serves(k) \/ Answers(k) \/ Fails(k)
  \/ \E p \in Repositories : ExtensionMoves(p)

(* The timer ticks, and every question is answered at some time.              *)
BrowserSpec ==
  /\ BrowserInit /\ [][BrowserNext]_<<historyVars, inputVars>>
  /\ WF_<<historyVars, inputVars>>(Polls)
  /\ \A kind \in Kinds : WF_<<historyVars, inputVars>>(RespondsTo(kind))

-----------------------------------------------------------------------------
(* The summary and the chart are those of the repository that is chosen, and  *)
(* a chart that is shown holds every pair up to the coverage it was asked     *)
(* for, each once and in order, however far an extension got between its      *)
(* pages and whatever was chosen between a request and its answer.            *)
ChartShowsTheRepository ==
  /\ status # NoStatus => status.repository = repository
  /\ chart.items # <<>> =>
       chart.items = [n \in 1..chart.covered |-> <<repository, n>>]

(* The chart "refreshes after an extension completes": if the tab stays open  *)
(* the chart comes to show all pairs, or that it could not be loaded.         *)
ChartFollowsExtensions ==
  \A p \in Repositories :
    (~overtaking /\ <>[](Enabled /\ repository = p /\ job[p] = "completed")) =>
      <>[](\/ chart.failed \/ status = NoStatus
           \/ chart.items = [n \in 1..saved[p] |-> <<p, n>>])
=============================================================================
