------------------------ MODULE HistoryBrowser_proofs ------------------------
(* What the page shows belongs to what is chosen, for any inputs,             *)
(* repositories and pages, and however often the user acts: the header names  *)
(* the comparison, first of the inputs alone and then beside the history tab, *)
(* and the summary and the chart are those of the chosen repository.          *)
EXTENDS HistoryBrowser, FiniteSetTheorems, SequenceTheorems, TLAPS

-----------------------------------------------------------------------------
(* The inputs.                                                                *)

(* What the form may hold, tagged by where it is from.                        *)
Contents == {<<"example", e>> : e \in Examples} \cup {<<"text", t>> : t \in Texts}
Files == {<<"upload", file>> : file \in Uploads}

(* A context that names a content.                                            *)
Names(context, content) ==
  /\ context # Nothing /\ content # Nothing
  /\ IF context.mode = "paste" THEN content[1] \in {"text", "example"}
     ELSE context.label = content

(* An example that is named is what the text field holds.                     *)
FormInv ==
  /\ inputMode \in Modes
  /\ form \in [xml : Contents \cup {Nothing}, example : Contents \cup {Nothing},
               upload : Files \cup {Nothing}]
  /\ form.example # Nothing => form.example = form.xml

(* Every request carries the context of its own content, whatever the form    *)
(* holds by now.                                                              *)
AskedInv == \A r \in asked :
  /\ r.kind = "example" => r.content \in Contents
  /\ r.kind \in {"form", "case"} => Names(r.context, r.content)

ShownInv == shown = NoComparison \/ Names(shown.context, shown.data)

InputInv == FormInv /\ AskedInv /\ ShownInv

(* The empty sequence is no tagged content and no context.                    *)
LEMMA ContentsAreThere ==
  ASSUME NEW content \in Contents \cup Files
  PROVE  content # Nothing
BY DEF Contents, Files, Nothing

LEMMA ContentsAreTexts ==
  ASSUME NEW content \in Contents
  PROVE  content[1] \in {"text", "example"}
BY DEF Contents

LEMMA ContextIsThere ==
  ASSUME NEW mode, NEW label
  PROVE  [mode |-> mode, label |-> label] # Nothing
BY DEF Nothing

LEMMA CaseIsThere ==
  ASSUME NEW archive, NEW ordinal
  PROVE  <<"case", archive, ordinal>> # Nothing
BY DEF Nothing

(* What a submission captures names what it submits.                          *)
LEMMA FormIsNamed ==
  ASSUME FormInv, inputMode \in FormModes, FormContent # Nothing
  PROVE  Names(FormContext, FormContent)
<1>1. FormContext # Nothing
  BY ContextIsThere DEF FormContext
<1>2. FormContext.mode = inputMode
  BY DEF FormContext
<1>3. CASE inputMode = "paste"
  <2>1. FormContent = form.xml /\ form.xml \in Contents
    BY <1>3 DEF FormContent, FormInv
  <2> QED
    BY <1>1, <1>2, <1>3, <2>1, ContentsAreTexts DEF Names
<1>4. CASE inputMode # "paste"
  <2>1. FormContext.label = FormContent
    BY <1>4 DEF FormContext, FormContent, FormInv
  <2> QED
    BY <1>1, <1>2, <1>4, <2>1 DEF Names
<1> QED
  BY <1>3, <1>4

(* A request that is added keeps the others as they are.                      *)
LEMMA AskingKeepsNames ==
  ASSUME AskedInv, NEW kind, NEW content, NEW context, Asks(kind, content, context),
         kind = "example" => content \in Contents,
         kind \in {"form", "case"} => Names(context, content)
  PROVE  AskedInv'
BY DEF AskedInv, Asks, Names

LEMMA SettlingKeepsNames ==
  ASSUME AskedInv, NEW r, NEW flag, Settles(r, flag)
  PROVE  AskedInv'
BY DEF AskedInv, Settles, Names

(* An answer that is accepted is shown under its own name.                    *)
LEMMA AcceptedIsNamed ==
  ASSUME NEW r, Names(r.context, r.content),
         AcceptVisualization(r.content, CapturedContext(r))
  PROVE  ShownInv'
BY DEF AcceptVisualization, CapturedContext, ShownInv, Names

LEMMA InputInvInitially == InputInit => InputInv
BY DEF InputInit, InputInv, FormInv, AskedInv, ShownInv, Modes, FormModes

LEMMA InputInvStep == InputInv /\ [InputNext]_inputVars => InputInv'
<1> SUFFICES ASSUME InputInv, [InputNext]_inputVars PROVE InputInv'
  OBVIOUS
<1> USE DEF InputInv
<1>1. ASSUME NEW mode \in Modes, ChooseMode(mode) PROVE InputInv'
  BY <1>1 DEF ChooseMode, FormInv, AskedInv, ShownInv, Names
<1>2. ASSUME NEW text \in Texts, EditXml(text) PROVE InputInv'
  <2>1. <<"text", text>> \in Contents
    BY DEF Contents
  <2>2. FormInv'
    BY <1>2, <2>1 DEF EditXml, FormInv
  <2> QED
    BY <1>2, <2>2 DEF EditXml, AskedInv, ShownInv, Names
<1>3. ASSUME NEW file \in Files \cup {Nothing}, ChooseUpload(file) PROVE InputInv'
  <2>1. FormInv'
    BY <1>3 DEF ChooseUpload, FormInv
  <2> QED
    BY <1>3, <2>1 DEF ChooseUpload, AskedInv, ShownInv, Names
<1>4. ASSUME NEW filename \in Examples, LoadExample(filename) PROVE InputInv'
  <2>1. <<"example", filename>> \in Contents
    BY DEF Contents
  <2>2. AskedInv'
    BY <1>4, <2>1, AskingKeepsNames DEF LoadExample
  <2> QED
    BY <1>4, <2>2 DEF LoadExample, FormInv, ShownInv, Names
<1>5. ASSUME Submit PROVE InputInv'
  <2>1. AskedInv'
    BY <1>5, FormIsNamed, AskingKeepsNames DEF Submit
  <2> QED
    BY <1>5, <2>1 DEF Submit, FormInv, ShownInv, Names
<1>6. ASSUME NEW archive \in Reviews, ImportBundle(archive) PROVE InputInv'
  <2>1. AskedInv'
    BY <1>6, AskingKeepsNames DEF ImportBundle
  <2> QED
    BY <1>6, <2>1 DEF ImportBundle, FormInv, ShownInv, Names
<1>7. ASSUME NEW ordinal \in Cases, VisualizeCase(ordinal) PROVE InputInv'
  <2> DEFINE case == <<"case", review, ordinal>>
             context == [mode |-> "benchmark", label |-> case]
  <2>1. Names(context, case)
    BY ContextIsThere, CaseIsThere DEF Names
  <2>2. Asks("case", case, context)
    BY <1>7 DEF VisualizeCase
  <2>3. AskedInv'
    BY <2>1, <2>2, AskingKeepsNames
  <2> QED
    BY <1>7, <2>3 DEF VisualizeCase, FormInv, ShownInv, Names
<1>8. ASSUME NEW r \in asked, ExampleArrives(r) PROVE InputInv'
  <2>1. AskedInv'
    BY <1>8, SettlingKeepsNames DEF ExampleArrives
  <2>2. r.content \in Contents
    BY <1>8 DEF ExampleArrives, AskedInv
  <2>3. FormInv'
    BY <1>8, <2>2 DEF ExampleArrives, FormInv, Modes, FormModes
  <2> QED
    BY <1>8, <2>1, <2>3 DEF ExampleArrives, ShownInv, Names
<1>9. ASSUME NEW r \in asked, FormArrives(r) PROVE InputInv'
  <2>1. AskedInv'
    BY <1>9, SettlingKeepsNames DEF FormArrives
  <2>2. ShownInv'
    BY <1>9, AcceptedIsNamed DEF FormArrives, AskedInv
  <2> QED
    BY <1>9, <2>1, <2>2 DEF FormArrives, FormInv
<1>10. ASSUME NEW r \in asked, FormFails(r) PROVE InputInv'
  <2>1. AskedInv'
    BY <1>10, SettlingKeepsNames DEF FormFails
  <2> QED
    BY <1>10, <2>1 DEF FormFails, FormInv, ShownInv, Names
<1>11. ASSUME NEW r \in asked, ReviewArrives(r) PROVE InputInv'
  <2>1. AskedInv'
    BY <1>11, SettlingKeepsNames DEF ReviewArrives
  <2> QED
    BY <1>11, <2>1 DEF ReviewArrives, FormInv, ShownInv, Names
<1>12. ASSUME NEW r \in asked, CaseArrives(r) PROVE InputInv'
  <2>1. AskedInv'
    BY <1>12, SettlingKeepsNames DEF CaseArrives
  <2>2. ShownInv'
    BY <1>12, AcceptedIsNamed DEF CaseArrives, AskedInv
  <2> QED
    BY <1>12, <2>1, <2>2 DEF CaseArrives, FormInv
<1>13. ASSUME NEW r \in asked, RequestFails(r) PROVE InputInv'
  <2>1. AskedInv'
    BY <1>13, SettlingKeepsNames DEF RequestFails
  <2> QED
    BY <1>13, <2>1 DEF RequestFails, FormInv, ShownInv, Names
<1>14. CASE UNCHANGED inputVars
  BY <1>14 DEF inputVars, FormInv, AskedInv, ShownInv, Names
<1>15. \A file \in Uploads : <<"upload", file>> \in Files
  BY DEF Files
<1> QED
  BY <1>1, <1>2, <1>3, <1>4, <1>5, <1>6, <1>7, <1>8, <1>9, <1>10, <1>11, <1>12,
     <1>13, <1>14, <1>15 DEF InputNext

LEMMA InputInvNames == InputInv => ContextNamesTheShown
BY DEF InputInv, ShownInv, Names, NoComparison, ContextNamesTheShown

(* Whatever is edited, chosen, loaded or accepted between a request and its   *)
(* answer, the header names the comparison that is shown: for any inputs and  *)
(* any number of acts, without a bound on them.                               *)
THEOREM HeaderIsRight == InputSpec => []ContextNamesTheShown
<1>1. InputInit => InputInv
  BY InputInvInitially
<1>2. InputInv /\ [InputNext]_inputVars => InputInv'
  BY InputInvStep
<1>3. InputInv => ContextNamesTheShown
  BY InputInvNames
<1> QED
  BY <1>1, <1>2, <1>3, PTL DEF InputSpec

-----------------------------------------------------------------------------
(* Requests under way are a sequence; most of what is known of them does not  *)
(* depend on their order.                                                     *)

(* A sequence over any set is one over its own elements.                      *)
LEMMA OwnElements ==
  ASSUME NEW S, NEW s \in Seq(S)
  PROVE  s \in Seq(ToSet(s))
BY DEF ToSet

LEMMA AppendedElements ==
  ASSUME NEW s, s \in Seq(ToSet(s)), NEW e
  PROVE  /\ Append(s, e) \in Seq(ToSet(Append(s, e)))
         /\ ToSet(Append(s, e)) \subseteq ToSet(s) \cup {e}
<1>1. Append(s, e) \in Seq(ToSet(s) \cup {e})
  OBVIOUS
<1>2. Append(s, e) \in Seq(ToSet(Append(s, e)))
  BY <1>1, OwnElements
<1>3. ToSet(Append(s, e)) \subseteq ToSet(s) \cup {e}
  BY <1>1 DEF ToSet
<1> QED  BY <1>2, <1>3

LEMMA JoinedElements ==
  ASSUME NEW s, s \in Seq(ToSet(s)), NEW t, t \in Seq(ToSet(t))
  PROVE  /\ s \o t \in Seq(ToSet(s \o t))
         /\ ToSet(s \o t) \subseteq ToSet(s) \cup ToSet(t)
<1>1. s \o t \in Seq(ToSet(s) \cup ToSet(t))
  OBVIOUS
<1>2. s \o t \in Seq(ToSet(s \o t))
  BY <1>1, OwnElements
<1>3. ToSet(s \o t) \subseteq ToSet(s) \cup ToSet(t)
  BY <1>1 DEF ToSet
<1> QED  BY <1>2, <1>3

LEMMA LeftElements ==
  ASSUME NEW s, s \in Seq(ToSet(s)), NEW k \in DOMAIN s
  PROVE  /\ RemoveAt(s, k) \in Seq(ToSet(RemoveAt(s, k)))
         /\ ToSet(RemoveAt(s, k)) \subseteq ToSet(s)
<1>1. k \in 1..Len(s) /\ Len(s) \in Nat
  OBVIOUS
<1>2. SubSeq(s, 1, k - 1) \in Seq(ToSet(s)) /\ SubSeq(s, k + 1, Len(s)) \in Seq(ToSet(s))
  BY <1>1
<1>3. RemoveAt(s, k) \in Seq(ToSet(s))
  BY <1>2 DEF RemoveAt
<1>4. RemoveAt(s, k) \in Seq(ToSet(RemoveAt(s, k)))
  BY <1>3, OwnElements
<1>5. ToSet(RemoveAt(s, k)) \subseteq ToSet(s)
  BY <1>3 DEF ToSet
<1> QED  BY <1>4, <1>5

-----------------------------------------------------------------------------
(* The history tab.                                                           *)
Pending == ToSet(requests)

(* The fields of a request; those of its content are only passed on.          *)
IsQuestion(r) ==
  r \in [kind : Kinds, repository : Repositories, selection : {r.selection},
         after : {r.after}, pair : {r.pair}, active : BOOLEAN, covered : Nat,
         items : {r.items}, context : {r.context}, answer : {r.answer}]

(* How many pairs of the chart are loaded when the cursor is there.           *)
Loaded(after) == IF after = 0 THEN 0 ELSE after + 1

(* A page of the series that will be used belongs to the chart that is there, *)
(* carries the pairs before it, and its answer covers the chart.              *)
SeriesFollows(r, ch, sv) ==
  /\ ch.key # Nothing /\ r.repository = ch.key[1] /\ r.covered = ch.covered
  /\ r.covered <= sv[r.repository]
  /\ r.answer # Nothing => r.covered <= r.answer.saved
  /\ r.selection = "all" /\ r.after \in Nat
  /\ r.items = [n \in 1..Loaded(r.after) |-> n]
  /\ r.after # 0 => r.after + 1 < r.covered

(* What is known of a request, beside the repository that is chosen.          *)
Follows(r, here, ch, sv) ==
  /\ IsQuestion(r)
  /\ r.answer # Nothing => r.answer.saved \in Nat /\ r.answer.saved <= sv[r.repository]
  /\ r.active /\ r.kind \in {"load", "poll", "fresh"} => r.repository = here
  /\ r.active /\ r.kind = "series" => SeriesFollows(r, ch, sv)
  /\ r.kind \in {"open", "openedPair"} =>
       r.context = [mode |-> "history", label |-> <<"pair", r.repository, r.pair>>]

(* A chart that is shown is complete.                                         *)
ChartFollows(ch, here) ==
  /\ ch \in [key : {ch.key}, covered : Nat, items : {ch.items}, failed : BOOLEAN]
  /\ ch.key = Nothing => ch.items = <<>>
  /\ ch.key # Nothing => ch.key[1] = here
  /\ ch.items # <<>> => ch.items = [n \in 1..ch.covered |-> <<here, n>>]

StatusFollows(st, here, sv) ==
  st # NoStatus => st.repository = here /\ st.covered \in Nat /\ st.covered <= sv[here]

AllFollow(pending, here, ch, sv) ==
  /\ pending \in Seq(ToSet(pending))
  /\ \A r \in ToSet(pending) : Follows(r, here, ch, sv)

BrowserInv ==
  /\ repository \in Repositories /\ saved \in [Repositories -> Nat]
  /\ StatusFollows(status, repository, saved)
  /\ ChartFollows(chart, repository)
  /\ AllFollow(requests, repository, chart, saved)

-----------------------------------------------------------------------------
(* What the steps do to the requests under way.                               *)

(* A new question follows, unless it is one of the series or opens a pair.    *)
LEMMA QuestionFollows ==
  ASSUME NEW kind \in Kinds \ {"series", "open", "openedPair"}, NEW r, NEW ch, NEW sv,
         r.repository \in Repositories
  PROVE  Follows(Question(kind, r), r.repository, ch, sv)
BY DEF Question, Follows, IsQuestion, Nothing, Kinds

LEMMA NoneFollows ==
  ASSUME NEW here, NEW ch, NEW sv
  PROVE  AllFollow(<<>>, here, ch, sv)
BY DEF AllFollow, ToSet

LEMMA OneFollows ==
  ASSUME NEW r, NEW here, NEW ch, NEW sv, Follows(r, here, ch, sv)
  PROVE  AllFollow(<<r>>, here, ch, sv)
<1>1. ToSet(<<r>>) = {r}
  BY DEF ToSet
<1>2. <<r>> \in Seq({r})
  OBVIOUS
<1> QED  BY <1>1, <1>2 DEF AllFollow

LEMMA JoinedFollow ==
  ASSUME NEW s, NEW t, NEW here, NEW ch, NEW sv,
         AllFollow(s, here, ch, sv), AllFollow(t, here, ch, sv)
  PROVE  AllFollow(s \o t, here, ch, sv)
BY JoinedElements DEF AllFollow

LEMMA AppendedFollow ==
  ASSUME NEW s, NEW r, NEW here, NEW ch, NEW sv,
         AllFollow(s, here, ch, sv), Follows(r, here, ch, sv)
  PROVE  AllFollow(Append(s, r), here, ch, sv)
BY AppendedElements DEF AllFollow

LEMMA OthersFollow ==
  ASSUME NEW s, NEW here, NEW ch, NEW sv, AllFollow(s, here, ch, sv), NEW k \in DOMAIN s
  PROVE  AllFollow(RemoveAt(s, k), here, ch, sv)
BY LeftElements DEF AllFollow

LEMMA ReplacedFollow ==
  ASSUME NEW s, NEW here, NEW ch, NEW sv, AllFollow(s, here, ch, sv), NEW k \in DOMAIN s,
         NEW r, Follows(r, here, ch, sv)
  PROVE  AllFollow([s EXCEPT ![k] = r], here, ch, sv)
<1> DEFINE t == [s EXCEPT ![k] = r]
<1>1. t \in Seq(ToSet(s) \cup {r}) /\ DOMAIN t = DOMAIN s
  BY DEF AllFollow, ToSet
<1>2. t \in Seq(ToSet(t))
  BY <1>1, OwnElements
<1>3. ToSet(t) \subseteq ToSet(s) \cup {r}
  BY <1>1 DEF ToSet
<1> QED  BY <1>2, <1>3 DEF AllFollow

LEMMA EachFollows ==
  ASSUME NEW s, NEW here, NEW ch, NEW sv, AllFollow(s, here, ch, sv), NEW k \in DOMAIN s
  PROVE  Follows(s[k], here, ch, sv)
BY DEF AllFollow, ToSet

(* Deactivating requests keeps what is known of them, and leaves none of the  *)
(* cleaned kinds to follow anything.                                          *)
LEMMA CleanedFollow ==
  ASSUME NEW s, NEW kinds, NEW here, NEW ch, NEW sv, AllFollow(s, here, ch, sv)
  PROVE  /\ AllFollow(CleanUp(s, kinds), here, ch, sv)
         /\ \A r \in ToSet(CleanUp(s, kinds)) : r.kind \in kinds => ~r.active
<1> DEFINE cleaned == CleanUp(s, kinds)
<1>1. Len(s) \in Nat /\ DOMAIN s = 1..Len(s)
  BY DEF AllFollow
<1>2. cleaned = [k \in 1..Len(s) |-> IF s[k].kind \in kinds
                                     THEN [s[k] EXCEPT !.active = FALSE] ELSE s[k]]
  BY <1>1 DEF CleanUp
<1> HIDE DEF cleaned
<1>3. DOMAIN cleaned = 1..Len(s) /\ cleaned \in [1..Len(s) -> ToSet(cleaned)]
  BY <1>2 DEF ToSet
<1>4. cleaned \in Seq(ToSet(cleaned))
  BY <1>1, <1>3
<1>5. ASSUME NEW k \in 1..Len(s)
      PROVE  Follows(cleaned[k], here, ch, sv) /\ (cleaned[k].kind \in kinds => ~cleaned[k].active)
  <2>1. Follows(s[k], here, ch, sv)
    BY <1>1, EachFollows
  <2>2. CASE s[k].kind \notin kinds
    BY <1>2, <2>1, <2>2
  <2>3. CASE s[k].kind \in kinds
    <3> DEFINE r == s[k]
    <3>1. cleaned[k] = [r EXCEPT !.active = FALSE]
      BY <1>2, <2>3
    <3>2. IsQuestion(r)
      BY <2>1 DEF Follows
    <3> HIDE DEF r
    <3>3. /\ IsQuestion(cleaned[k]) /\ ~cleaned[k].active
          /\ cleaned[k].kind = r.kind /\ cleaned[k].repository = r.repository
          /\ cleaned[k].answer = r.answer /\ cleaned[k].pair = r.pair
          /\ cleaned[k].context = r.context
      BY <3>1, <3>2 DEF IsQuestion
    <3> QED  BY <2>1, <3>3 DEF Follows, r
  <2> QED  BY <2>2, <2>3
<1>6. \A r \in ToSet(cleaned) : \E k \in 1..Len(s) : r = cleaned[k]
  BY <1>3 DEF ToSet
<1> QED  BY <1>4, <1>5, <1>6 DEF cleaned, AllFollow

(* Once the requests of the effects of a chart are deactivated, the others    *)
(* follow any chart; once those of a summary are, any repository.             *)
LEMMA FollowAnyChart ==
  ASSUME NEW r, NEW here, NEW ch, NEW sv, NEW other,
         Follows(r, here, ch, sv), r.kind = "series" => ~r.active
  PROVE  Follows(r, here, other, sv)
BY DEF Follows

LEMMA FollowAnywhere ==
  ASSUME NEW r, NEW here, NEW ch, NEW sv, NEW there,
         Follows(r, here, ch, sv), r.kind \in {"load", "poll", "fresh"} => ~r.active
  PROVE  Follows(r, there, ch, sv)
BY DEF Follows

(* The key of a chart begins with the repository.                             *)
LEMMA KeyIsHere ==
  ASSUME NEW here, NEW st, NEW ext, SeriesKey(here, st, ext) # Nothing
  PROVE  here # Nothing /\ st # NoStatus /\ SeriesKey(here, st, ext)[1] = here
BY DEF SeriesKey

(* The new chart and its request belong to the repository the summary is of.  *)
LEMMA SummaryKeeps ==
  ASSUME NEW view, NEW here \in Repositories, view.repository \in {here, Nothing},
         NEW there, NEW st, NEW ext, NEW pending, saved \in [Repositories -> Nat],
         StatusFollows(st, here, saved), ChartFollows(chart, there),
         there = here \/ st = NoStatus,
         AllFollow(pending, here, chart, saved), SetSummary(view, st, ext, pending)
  PROVE  /\ StatusFollows(status', here, saved) /\ ChartFollows(chart', here)
         /\ AllFollow(requests', here, chart', saved)
<1> DEFINE key == SeriesKey(view.repository, st, ext)
           again == [Question("series", view) EXCEPT !.selection = "all",
                                                     !.covered = st.covered]
<1>1. StatusFollows(status', here, saved)
  BY DEF SetSummary
<1>2. key # Nothing => view.repository = here /\ st # NoStatus /\ key[1] = here
  BY KeyIsHere
<1>3. CASE key = chart.key
  <2>1. chart' = chart /\ requests' = pending
    BY <1>3 DEF SetSummary
  <2>2. ChartFollows(chart, here)
    BY <1>2, <1>3 DEF ChartFollows
  <2> QED  BY <1>1, <2>1, <2>2
<1>4. CASE key # chart.key
  <2>1. /\ chart' = [NoChart EXCEPT !.key = key,
                                    !.covered = IF key = Nothing THEN 0 ELSE st.covered]
        /\ requests' = CleanUp(pending, {"series"})
                       \o (IF key = Nothing THEN <<>> ELSE <<again>>)
    BY <1>4 DEF SetSummary
  <2>2. AllFollow(CleanUp(pending, {"series"}), here, chart', saved)
    <3>1. /\ AllFollow(CleanUp(pending, {"series"}), here, chart, saved)
          /\ \A r \in ToSet(CleanUp(pending, {"series"})) : r.kind = "series" => ~r.active
      BY CleanedFollow
    <3> QED  BY <3>1, FollowAnyChart DEF AllFollow
  <2>3. CASE key = Nothing
    <3>1. ChartFollows(chart', here)
      BY <2>1, <2>3 DEF ChartFollows, NoChart, Nothing
    <3>2. AllFollow(requests', here, chart', saved)
      <4>1. requests' = CleanUp(pending, {"series"}) \o <<>>
        BY <2>1, <2>3
      <4> QED  BY <2>2, <4>1, NoneFollows, JoinedFollow
    <3> QED  BY <1>1, <3>1, <3>2
  <2>4. CASE key # Nothing
    <3>1. st.covered \in Nat /\ st.covered <= saved[here] /\ view.repository = here
      BY <1>2, <2>4 DEF StatusFollows
    <3>2. /\ chart' = [key |-> key, covered |-> st.covered, items |-> <<>>, failed |-> FALSE]
          /\ key # Nothing /\ key[1] = here
      BY <1>2, <2>1, <2>4 DEF NoChart
    <3>3. requests' = CleanUp(pending, {"series"}) \o <<again>>
      BY <2>1, <2>4
    <3>4. again = [kind |-> "series", repository |-> here, selection |-> "all",
                   after |-> 0, pair |-> 0, active |-> TRUE, covered |-> st.covered,
                   items |-> <<>>, context |-> Nothing, answer |-> Nothing]
      <4> DEFINE asking == Question("series", view)
      <4>1. asking = [kind |-> "series", repository |-> here, selection |-> view.selection,
                      after |-> 0, pair |-> 0, active |-> TRUE, covered |-> 0,
                      items |-> <<>>, context |-> Nothing, answer |-> Nothing]
        BY <3>1 DEF Question
      <4>2. again = [asking EXCEPT !.selection = "all", !.covered = st.covered]
        OBVIOUS
      <4> HIDE DEF asking, again
      <4> QED  BY <4>1, <4>2
    <3> HIDE DEF key, again
    <3>5. ChartFollows(chart', here)
      BY <3>1, <3>2 DEF ChartFollows
    <3>6. <<>> = [n \in 1..Loaded(0) |-> n]
      BY DEF Loaded
    <3>7. SeriesFollows(again, chart', saved)
      BY <3>1, <3>2, <3>4, <3>6 DEF SeriesFollows
    <3>8. Follows(again, here, chart', saved)
      BY <3>1, <3>4, <3>7 DEF Follows, IsQuestion, Kinds, Nothing
    <3> QED  BY <1>1, <2>2, <3>3, <3>5, <3>8, OneFollows, JoinedFollow
  <2> QED  BY <2>3, <2>4
<1> QED  BY <1>3, <1>4

(* What was loaded is dropped, whatever it was of.                            *)
LEMMA ReloadKeeps ==
  ASSUME NEW view, view.repository \in Repositories, NEW polls \in BOOLEAN,
         BrowserInv, polls \/ view.repository = repository, Reload(view, polls)
  PROVE  /\ StatusFollows(status', view.repository, saved)
         /\ ChartFollows(chart', view.repository)
         /\ AllFollow(requests', view.repository, chart', saved)
<1> DEFINE here == view.repository
           kinds == IF polls THEN {"load", "poll", "fresh"} ELSE {"load"}
           again == IF polls THEN <<Question("poll", view)>> ELSE <<>>
           ext == IF polls THEN "none" ELSE extension
           pending == CleanUp(requests, kinds) \o again \o <<Question("load", view)>>
<1>1. SetSummary(view, NoStatus, ext, pending)
  BY DEF Reload
<1>2. AllFollow(CleanUp(requests, kinds), here, chart, saved)
  <2>1. /\ AllFollow(CleanUp(requests, kinds), repository, chart, saved)
        /\ \A r \in ToSet(CleanUp(requests, kinds)) : r.kind \in kinds => ~r.active
    BY CleanedFollow DEF BrowserInv
  <2>2. CASE here = repository
    BY <2>1, <2>2
  <2>3. CASE polls
    BY <2>1, <2>3, FollowAnywhere DEF AllFollow
  <2> QED  BY <2>2, <2>3
<1>3. AllFollow(again, here, chart, saved)
  <2>1. Follows(Question("poll", view), here, chart, saved)
    BY QuestionFollows DEF Kinds
  <2> QED  BY <2>1, OneFollows, NoneFollows
<1>4. AllFollow(<<Question("load", view)>>, here, chart, saved)
  <2>1. Follows(Question("load", view), here, chart, saved)
    BY QuestionFollows DEF Kinds
  <2> QED  BY <2>1, OneFollows
<1>5. AllFollow(pending, here, chart, saved)
  <2> HIDE DEF again, kinds
  <2> QED  BY <1>2, <1>3, <1>4, JoinedFollow
<1>6. StatusFollows(NoStatus, here, saved)
  BY DEF StatusFollows
<1> HIDE DEF pending
<1> QED  BY <1>1, <1>5, <1>6, SummaryKeeps DEF BrowserInv

-----------------------------------------------------------------------------
(* Every step keeps the invariant.                                            *)
LEMMA BrowserInvInitially == BrowserInit => BrowserInv
<1> SUFFICES ASSUME BrowserInit PROVE BrowserInv
  OBVIOUS
<1>1. repository \in Repositories /\ saved \in [Repositories -> Nat]
  BY BrowserAssumption DEF BrowserInit
<1>2. StatusFollows(status, repository, saved) /\ ChartFollows(chart, repository)
  BY DEF BrowserInit, StatusFollows, ChartFollows, NoChart, Nothing
<1> QED  BY <1>1, <1>2, NoneFollows DEF BrowserInv, BrowserInit

LEMMA ChoicesKeep ==
  ASSUME BrowserInv
  PROVE  /\ \A p \in Repositories : ChooseRepository(p) => BrowserInv'
         /\ \A kind \in Selections : ChooseSelection(kind) => BrowserInv'
         /\ Refresh => BrowserInv'
<1>1. ASSUME NEW p \in Repositories, ChooseRepository(p) PROVE BrowserInv'
  <2> DEFINE view == [Here EXCEPT !.repository = p]
  <2>1. Reload(view, TRUE) /\ repository' = p /\ saved' = saved /\ view.repository = p
    BY <1>1 DEF ChooseRepository, Here, serverVars
  <2> HIDE DEF view
  <2> QED  BY <2>1, ReloadKeeps DEF BrowserInv
<1>2. ASSUME NEW kind \in Selections, ChooseSelection(kind) PROVE BrowserInv'
  <2> DEFINE view == [Here EXCEPT !.selection = kind]
  <2>1. /\ Reload(view, TRUE) /\ repository' = repository /\ saved' = saved
        /\ view.repository = repository
    BY <1>2 DEF ChooseSelection, Here, serverVars
  <2> HIDE DEF view
  <2> QED  BY <2>1, ReloadKeeps DEF BrowserInv
<1>3. ASSUME Refresh PROVE BrowserInv'
  <2>1. Reload(Here, FALSE) /\ UNCHANGED <<repository, saved>> /\ Here.repository = repository
    BY <1>3 DEF Refresh, Here, serverVars, viewVars
  <2> QED  BY <2>1, ReloadKeeps DEF BrowserInv
<1> QED  BY <1>1, <1>2, <1>3

LEMMA OtherInputKeeps == BrowserInv /\ OtherInput => BrowserInv'
<1> SUFFICES ASSUME BrowserInv, OtherInput PROVE BrowserInv'
  OBVIOUS
<1>1. CASE UNCHANGED historyVars
  BY <1>1 DEF historyVars, BrowserInv
<1>2. CASE Reload(Here, TRUE) /\ UNCHANGED <<serverVars, viewVars>>
  <2>1. UNCHANGED <<repository, saved>> /\ Here.repository = repository
    BY <1>2 DEF Here, serverVars, viewVars
  <2> QED  BY <1>2, <2>1, ReloadKeeps DEF BrowserInv
<1>3. CASE /\ requests' = CleanUp(requests, {"load", "poll", "fresh", "series"})
           /\ chart' = NoChart /\ UNCHANGED <<serverVars, viewVars, status>>
  <2> DEFINE cleaned == CleanUp(requests, {"load", "poll", "fresh", "series"})
  <2>1. /\ AllFollow(cleaned, repository, chart, saved)
        /\ \A r \in ToSet(cleaned) : r.kind \in {"load", "poll", "fresh", "series"} => ~r.active
    BY CleanedFollow DEF BrowserInv
  <2> HIDE DEF cleaned
  <2>2. AllFollow(cleaned, repository, NoChart, saved)
    BY <2>1, FollowAnyChart DEF AllFollow
  <2>3. ChartFollows(NoChart, repository)
    BY DEF ChartFollows, NoChart, Nothing
  <2>4. requests' = cleaned /\ chart' = NoChart /\ UNCHANGED <<repository, saved, status>>
    BY <1>3 DEF cleaned, serverVars, viewVars
  <2> QED  BY <2>2, <2>3, <2>4 DEF BrowserInv
<1> QED  BY <1>1, <1>2, <1>3 DEF OtherInput

(* A click that asks something adds a question that follows.                  *)
LEMMA AskedKeeps ==
  ASSUME BrowserInv, NEW question, NEW flag, Follows(question, repository, chart, saved),
         Asked(question, flag)
  PROVE  BrowserInv'
BY AppendedFollow DEF BrowserInv, Asked, serverVars, viewVars, summaryVars

LEMMA ClicksKeep == BrowserInv /\ Clicks => BrowserInv'
<1> SUFFICES ASSUME BrowserInv, Clicks PROVE BrowserInv'
  OBVIOUS
<1>1. Here.repository = repository /\ repository \in Repositories
  BY DEF Here, BrowserInv
<1>2. \A kind \in {"pair", "more", "extend"} :
         Follows(Question(kind, Here), repository, chart, saved)
  BY <1>1, QuestionFollows DEF Kinds
<1>3. ASSUME NEW number, SelectPair(number) PROVE BrowserInv'
  <2>1. Follows([Question("pair", Here) EXCEPT !.pair = number], repository, chart, saved)
    BY <1>1 DEF Question, Follows, IsQuestion, Nothing, Kinds
  <2> QED  BY <1>3, <2>1, AskedKeeps DEF SelectPair
<1>4. ASSUME LoadMore PROVE BrowserInv'
  <2>1. Follows([Question("more", Here) EXCEPT !.after = list.next[1]],
                repository, chart, saved)
    BY <1>1 DEF Question, Follows, IsQuestion, Nothing, Kinds
  <2> QED  BY <1>4, <2>1, AskedKeeps DEF LoadMore
<1>5. ASSUME ExtendHistory PROVE BrowserInv'
  BY <1>2, <1>5, AskedKeeps DEF ExtendHistory
<1>6. ASSUME NEW number, OpenVisualization(number) PROVE BrowserInv'
  <2> DEFINE context == [mode |-> "history", label |-> <<"pair", repository, number>>]
  <2>1. Follows([Question("open", Here) EXCEPT !.pair = number, !.context = context],
                repository, chart, saved)
    BY <1>1 DEF Question, Follows, IsQuestion, Nothing, Kinds
  <2> QED  BY <1>6, <2>1, AskedKeeps DEF OpenVisualization
<1> QED  BY <1>3, <1>4, <1>5, <1>6, ChoicesKeep DEF Clicks

LEMMA PollsKeep == BrowserInv /\ Polls => BrowserInv'
<1> SUFFICES ASSUME BrowserInv, Polls PROVE BrowserInv'
  OBVIOUS
<1>1. Here.repository = repository /\ repository \in Repositories
  BY DEF Here, BrowserInv
<1>2. Follows(Question("poll", Here), repository, chart, saved)
  BY <1>1, QuestionFollows DEF Kinds
<1>3. /\ requests' = Append(requests, Question("poll", Here))
      /\ UNCHANGED <<repository, saved, status, chart>>
  BY DEF Polls, serverVars, viewVars, summaryVars
<1> QED  BY <1>2, <1>3, AppendedFollow DEF BrowserInv

(* What is saved only grows.                                                  *)
LEMMA ExtensionMovesKeep ==
  ASSUME BrowserInv, NEW p \in Repositories, ExtensionMoves(p)
  PROVE  BrowserInv'
<1>1. /\ UNCHANGED <<repository, status, chart, requests>>
      /\ saved' \in [Repositories -> Nat]
      /\ \A q \in Repositories : saved[q] \in Nat /\ saved[q] <= saved'[q]
  BY DEF ExtensionMoves, BrowserInv, viewVars, summaryVars
<1>2. StatusFollows(status, repository, saved')
  BY <1>1 DEF BrowserInv, StatusFollows
<1>3. ASSUME NEW r, Follows(r, repository, chart, saved)
      PROVE  Follows(r, repository, chart, saved')
  <2>1. /\ r.repository \in Repositories /\ r.covered \in Nat
        /\ saved[r.repository] \in Nat /\ saved'[r.repository] \in Nat
        /\ saved[r.repository] <= saved'[r.repository]
    BY <1>1, <1>3 DEF Follows, IsQuestion
  <2>2. r.answer # Nothing => r.answer.saved \in Nat /\ r.answer.saved <= saved'[r.repository]
    BY <1>3, <2>1 DEF Follows
  <2>3. SeriesFollows(r, chart, saved) => SeriesFollows(r, chart, saved')
    BY <2>1 DEF SeriesFollows
  <2> QED  BY <1>3, <2>2, <2>3 DEF Follows
<1>4. AllFollow(requests, repository, chart, saved')
  BY <1>3 DEF BrowserInv, AllFollow
<1> QED  BY <1>1, <1>2, <1>4 DEF BrowserInv

(* An answer is given of what is saved, which covers what the chart asks for. *)
LEMMA ServesKeeps ==
  ASSUME BrowserInv, NEW k \in DOMAIN requests, Serves(k)
  PROVE  BrowserInv'
<1> DEFINE r == requests[k]
           queued == IF r.kind = "extend" /\ job[r.repository] = "none"
                     THEN "writing" ELSE job[r.repository]
           answer == [saved |-> saved[r.repository], job |-> queued]
           served == [r EXCEPT !.answer = answer]
<1>1. /\ requests' = [requests EXCEPT ![k] = served]
      /\ UNCHANGED <<repository, saved, status, chart>>
  BY DEF Serves, viewVars, summaryVars
<1>2. Follows(r, repository, chart, saved) /\ saved \in [Repositories -> Nat]
  BY EachFollows DEF BrowserInv
<1>3. answer.saved = saved[r.repository]
  OBVIOUS
<1> HIDE DEF r, answer
<1>4. /\ IsQuestion(served)
      /\ served.answer = answer /\ served.active = r.active /\ served.kind = r.kind
      /\ served.repository = r.repository /\ served.covered = r.covered
      /\ served.selection = r.selection /\ served.items = r.items
      /\ served.after = r.after /\ served.context = r.context /\ served.pair = r.pair
  BY <1>2 DEF IsQuestion, Follows
<1> HIDE DEF served
<1>5. r.repository \in Repositories /\ saved[r.repository] \in Nat
  BY <1>2 DEF Follows, IsQuestion
<1>6. SeriesFollows(r, chart, saved) => SeriesFollows(served, chart, saved)
  BY <1>3, <1>4 DEF SeriesFollows
<1>7. Follows(served, repository, chart, saved)
  BY <1>2, <1>3, <1>4, <1>5, <1>6 DEF Follows
<1>8. AllFollow(requests', repository, chart, saved)
  BY <1>1, <1>7, ReplacedFollow DEF BrowserInv
<1> QED  BY <1>1, <1>8 DEF BrowserInv

-----------------------------------------------------------------------------
(* The pages of the series.                                                   *)

(* A page of all pairs begins where the pages before it ended, and the cursor *)
(* says where it ends.                                                        *)
LEMMA PageOfAll ==
  ASSUME NEW upTo \in Nat, NEW after \in Nat, Loaded(after) <= upTo
  PROVE  LET page == Page("all", upTo, after)
             left == upTo - Loaded(after)
             size == IF left < PAGE THEN left ELSE PAGE
         IN  /\ page.numbers = [k \in 1..size |-> Loaded(after) + k]
             /\ page.next = IF left > PAGE THEN <<Loaded(after) + PAGE - 1>> ELSE Nothing
<1> DEFINE start == Loaded(after)
           left == upTo - start
           rest == [k \in 1..left |-> start + k]
           size == IF left < PAGE THEN left ELSE PAGE
           page == SubSeq(rest, 1, size)
<1>1. start \in Nat /\ left \in Nat /\ PAGE \in Nat \ {0, 1}
  BY BrowserAssumption DEF Loaded
<1>2. (IF after = 0 THEN 1 ELSE after + 2) = start + 1
  BY DEF Loaded
<1>3. Chosen("all", [k \in 1..(upTo - (start + 1) + 1) |-> (start + 1) + k - 1]) = rest
  <2>1. upTo - (start + 1) + 1 = left
    BY <1>1
  <2>2. \A k \in 1..left : (start + 1) + k - 1 = start + k
    BY <1>1
  <2> HIDE DEF start, left
  <2> QED  BY <2>1, <2>2 DEF Chosen
<1> HIDE DEF start, left
<1>4. rest \in Seq(Nat) /\ Len(rest) = left
  <2>1. \A k \in 1..left : start + k \in Nat
    BY <1>1
  <2>2. rest \in [1..left -> Nat]
    BY <2>1
  <2> QED  BY <1>1, <2>2
<1> HIDE DEF rest
<1>5. Page("all", upTo, after) = [numbers |-> page,
          next |-> IF left > PAGE THEN <<Last(page) - 1>> ELSE Nothing]
  BY <1>2, <1>3, <1>4 DEF Page
<1>6. size \in Nat /\ size <= left /\ (left > PAGE => size = PAGE)
  BY <1>1
<1> HIDE DEF size
<1>7. page = [k \in 1..size |-> start + k]
  <2>1. \A k \in 1..size : rest[k] = start + k
    BY <1>1, <1>6 DEF rest
  <2>2. page = [k \in 1..size |-> rest[k]]
    BY <1>4, <1>6
  <2> QED  BY <2>1, <2>2
<1>8. left > PAGE => Last(page) = start + PAGE
  BY <1>1, <1>6, <1>7 DEF Last
<1> HIDE DEF page
<1>9. /\ Page("all", upTo, after).numbers = [k \in 1..size |-> start + k]
      /\ Page("all", upTo, after).next
           = IF left > PAGE THEN <<start + PAGE - 1>> ELSE Nothing
  <2>1. /\ Page("all", upTo, after).numbers = page
        /\ Page("all", upTo, after).next = IF left > PAGE THEN <<Last(page) - 1>> ELSE Nothing
    BY <1>5
  <2>2. CASE left > PAGE
    <3>1. Last(page) - 1 = start + PAGE - 1
      BY <1>1, <1>8, <2>2
    <3>2. <<Last(page) - 1>> = <<start + PAGE - 1>>
      BY <3>1
    <3>3. Page("all", upTo, after).next = <<start + PAGE - 1>>
      BY <2>1, <2>2, <3>2, Zenon
    <3>4. Page("all", upTo, after).numbers = [k \in 1..size |-> start + k]
      BY <1>7, <2>1, Zenon
    <3> QED  BY <2>2, <3>3, <3>4, Zenon
  <2>3. CASE ~(left > PAGE)
    BY <1>7, <2>1, <2>3, Zenon
  <2> QED  BY <2>2, <2>3
<1> QED  BY <1>9 DEF start, left, size

(* Pages that follow each other make up the pairs from the first.             *)
LEMMA PagesJoin ==
  ASSUME NEW start \in Nat, NEW more \in Nat
  PROVE  [n \in 1..start |-> n] \o [k \in 1..more |-> start + k]
           = [n \in 1..(start + more) |-> n]
<1> DEFINE s == [n \in 1..start |-> n]
           t == [k \in 1..more |-> start + k]
<1>1. s \in Seq(Nat) /\ Len(s) = start
  <2>1. s \in [1..start -> Nat]
    OBVIOUS
  <2> QED  BY <2>1
<1>2. t \in Seq(Nat) /\ Len(t) = more
  <2>1. \A k \in 1..more : start + k \in Nat
    OBVIOUS
  <2>2. t \in [1..more -> Nat]
    BY <2>1
  <2> QED  BY <2>2
<1>3. \A n \in 1..start : s[n] = n
  OBVIOUS
<1>4. \A k \in 1..more : t[k] = start + k
  OBVIOUS
<1> HIDE DEF s, t
<1>5. /\ s \o t \in Seq(Nat) /\ Len(s \o t) = start + more
      /\ \A n \in 1..(start + more) :
            (s \o t)[n] = IF n <= start THEN s[n] ELSE t[n - start]
  BY <1>1, <1>2, ConcatProperties
<1>6. ASSUME NEW n \in 1..(start + more) PROVE (s \o t)[n] = n
  <2>1. CASE n <= start
    BY <1>3, <1>5, <2>1
  <2>2. CASE n > start
    <3>1. n - start \in 1..more /\ start + (n - start) = n
      BY <2>2
    <3> QED  BY <1>4, <1>5, <2>2, <3>1
  <2>3. n <= start \/ n > start
    OBVIOUS
  <2> QED  BY <2>1, <2>2, <2>3, Zenon
<1>7. s \o t \in [1..(start + more) -> Nat]
  BY <1>5, LenProperties
<1>8. s \o t = [n \in 1..(start + more) |-> n]
  BY <1>6, <1>7
<1> QED  BY <1>8 DEF s, t

(* The page that completes a series ends at the coverage of the chart; any    *)
(* other is covered whole, and the next one begins after it.                  *)
LEMMA SeriesPage ==
  ASSUME NEW upTo \in Nat, NEW after \in Nat, NEW covered \in Nat, NEW before,
         Loaded(after) <= covered, covered <= upTo,
         before = [n \in 1..Loaded(after) |-> n]
  PROVE  LET page == Page("all", upTo, after)
             items == before \o CoveredPairs(page.numbers, covered)
         IN  IF LastOfSeries(page.next, covered) THEN items = [n \in 1..covered |-> n]
             ELSE /\ page.next[1] \in Nat \ {0} /\ page.next[1] + 1 < covered
                  /\ items = [n \in 1..Loaded(page.next[1]) |-> n]
<1> DEFINE start == Loaded(after)
           left == upTo - start
           size == IF left < PAGE THEN left ELSE PAGE
           kept == IF size < covered - start THEN size ELSE covered - start
           page == Page("all", upTo, after)
           items == before \o CoveredPairs(page.numbers, covered)
<1>1. /\ page.numbers = [k \in 1..size |-> start + k]
      /\ page.next = IF left > PAGE THEN <<start + PAGE - 1>> ELSE Nothing
  <2>1. Loaded(after) <= upTo
    BY DEF Loaded
  <2> QED  BY <2>1, PageOfAll
<1>2. /\ start \in Nat /\ left \in Nat /\ PAGE \in Nat \ {0, 1} /\ start <= covered
      /\ covered - start <= left
  BY BrowserAssumption DEF Loaded
<1> HIDE DEF start, page
<1>3. size \in Nat /\ kept \in Nat
  BY <1>2
<1>4. CoveredPairs(page.numbers, covered) = [k \in 1..kept |-> start + k]
  <2> DEFINE numbers == page.numbers
  <2>1. /\ start \in Nat /\ size \in Nat /\ start <= covered
        /\ DOMAIN numbers = 1..size /\ \A k \in 1..size : numbers[k] = start + k
    BY <1>1, <1>2, <1>3
  <2>2. /\ kept \in Nat /\ kept <= size
        /\ \A k \in 1..size : start + k <= covered <=> k <= kept
    <3>1. kept = IF size < covered - start THEN size ELSE covered - start
      OBVIOUS
    <3> HIDE DEF numbers, size, kept
    <3>2. kept \in Nat /\ kept <= size
      BY <2>1, <3>1
    <3>3. ASSUME NEW k \in 1..size PROVE start + k <= covered <=> k <= kept
      BY <2>1, <3>1
    <3> QED  BY <3>2, <3>3
  <2> HIDE DEF numbers, size, kept
  <2>3. {k \in DOMAIN numbers : numbers[k] <= covered} = 1..kept
    <3>1. \A k \in 1..size : (numbers[k] <= covered) <=> k \in 1..kept
      <4> TAKE k \in 1..size
      <4>1. k \in Nat /\ k >= 1 /\ (k \in 1..kept <=> k <= kept)
        BY <2>2
      <4>2. numbers[k] = start + k /\ (start + k <= covered <=> k <= kept)
        BY <2>1, <2>2
      <4> QED  BY <4>1, <4>2
    <3>2. \A k \in 1..kept : k \in 1..size
      BY <2>1, <2>2
    <3> QED  BY <2>1, <3>1, <3>2
  <2>4. Cardinality(1..kept) = kept
    BY <2>2, FS_Interval
  <2>5. numbers \in Seq(Nat) /\ Len(numbers) = size
    <3>1. \A k \in 1..size : start + k \in Nat
      BY <2>1
    <3>2. numbers = [k \in 1..size |-> start + k]
      BY <1>1 DEF numbers
    <3>3. numbers \in [1..size -> Nat]
      BY <3>1, <3>2
    <3> QED  BY <2>1, <3>3
  <2>6. SubSeq(numbers, 1, kept) = [k \in 1..kept |-> start + k]
    <3>1. \A k \in 1..kept : numbers[k] = start + k
      BY <2>1, <2>2
    <3> QED  BY <2>1, <2>2, <2>5, <3>1
  <2>7. CoveredPairs(numbers, covered) = SubSeq(numbers, 1, kept)
    BY <2>3, <2>4 DEF CoveredPairs
  <2> QED  BY <2>6, <2>7 DEF numbers
<1>5. items = [n \in 1..(start + kept) |-> n]
  <2>1. before = [n \in 1..start |-> n]
    BY DEF start
  <2> HIDE DEF kept
  <2>2. [n \in 1..start |-> n] \o [k \in 1..kept |-> start + k]
           = [n \in 1..(start + kept) |-> n]
    BY <1>2, <1>3, PagesJoin
  <2> QED  BY <1>4, <2>1, <2>2, Zenon
<1>6. CASE left > PAGE
  <2>1. page.next = <<start + PAGE - 1>> /\ size = PAGE
    BY <1>1, <1>2, <1>6
  <2>2. page.next # Nothing /\ page.next[1] = start + PAGE - 1
    BY <2>1 DEF Nothing
  <2>3. CASE start + PAGE - 1 >= covered - 1
    <3>1. start + kept = covered
      BY <1>2, <2>1, <2>3
    <3>2. LastOfSeries(page.next, covered)
      BY <2>2, <2>3 DEF LastOfSeries
    <3> QED  BY <1>5, <3>1, <3>2 DEF start, page
  <2>4. CASE ~(start + PAGE - 1 >= covered - 1)
    <3>1. /\ kept = PAGE /\ start + PAGE - 1 \in Nat \ {0}
          /\ (start + PAGE - 1) + 1 < covered
      BY <1>2, <2>1, <2>4
    <3>2. ~LastOfSeries(page.next, covered)
      BY <2>2, <2>4 DEF LastOfSeries
    <3>3. start + kept = Loaded(page.next[1])
      BY <1>2, <2>2, <3>1 DEF Loaded
    <3> QED  BY <1>5, <2>2, <3>1, <3>2, <3>3 DEF start, page
  <2> QED  BY <2>3, <2>4
<1>7. CASE ~(left > PAGE)
  <2>1. LastOfSeries(page.next, covered)
    BY <1>1, <1>7 DEF LastOfSeries
  <2>2. start + kept = covered
    BY <1>2, <1>7
  <2> QED  BY <1>5, <2>1, <2>2 DEF start, page
<1> QED  BY <1>6, <1>7

-----------------------------------------------------------------------------
(* The answers.                                                               *)

(* What is known when a request is answered.                                  *)
LEMMA Arriving ==
  ASSUME BrowserInv, NEW k \in DOMAIN requests
  PROVE  /\ Follows(requests[k], repository, chart, saved)
         /\ AllFollow(RemoveAt(requests, k), repository, chart, saved)
         /\ repository \in Repositories /\ saved \in [Repositories -> Nat]
BY EachFollows, OthersFollow DEF BrowserInv

(* The status of an answer that is used is one of the chosen repository.      *)
LEMMA AnsweredStatus ==
  ASSUME NEW r, Follows(r, repository, chart, saved), r.active, r.answer # Nothing,
         r.kind \in {"load", "fresh"}
  PROVE  StatusFollows(StatusIn(r), repository, saved)
BY DEF Follows, StatusFollows, StatusIn

(* An answer that sets the summary.                                           *)
LEMMA SummaryArrives ==
  ASSUME BrowserInv, NEW view, view.repository \in {repository, Nothing}, NEW st, NEW ext,
         StatusFollows(st, repository, saved), NEW pending,
         AllFollow(pending, repository, chart, saved),
         SetSummary(view, st, ext, pending), UNCHANGED <<repository, saved>>
  PROVE  BrowserInv'
BY SummaryKeeps DEF BrowserInv

LEMMA LoadKeeps ==
  ASSUME BrowserInv, NEW k \in DOMAIN requests, LoadArrives(k)
  PROVE  BrowserInv'
<1> DEFINE r == requests[k]
<1>1. /\ r.kind = "load" /\ r.answer # Nothing /\ UNCHANGED <<repository, saved>>
      /\ \/ r.active /\ SetSummary(Here, StatusIn(r), extension, RemoveAt(requests, k))
         \/ requests' = RemoveAt(requests, k) /\ UNCHANGED <<status, chart>>
  BY DEF LoadArrives, Arrives, StillWanted, serverVars, viewVars, summaryVars
<1>2. Here.repository \in {repository, Nothing}
  BY DEF Here
<1>3. CASE r.active /\ SetSummary(Here, StatusIn(r), extension, RemoveAt(requests, k))
  <2>1. StatusFollows(StatusIn(r), repository, saved)
    BY <1>1, <1>3, Arriving, AnsweredStatus
  <2> QED  BY <1>1, <1>2, <1>3, <2>1, Arriving, SummaryArrives
<1>4. CASE requests' = RemoveAt(requests, k) /\ UNCHANGED <<status, chart>>
  BY <1>1, <1>4, Arriving DEF BrowserInv
<1> QED  BY <1>1, <1>3, <1>4

LEMMA FreshKeeps ==
  ASSUME BrowserInv, NEW k \in DOMAIN requests, FreshArrives(k)
  PROVE  BrowserInv'
<1> DEFINE r == requests[k]
<1>1. /\ r.kind = "fresh" /\ r.answer # Nothing /\ UNCHANGED <<repository, saved>>
      /\ \/ r.active /\ SetSummary(Here, StatusIn(r), extension, RemoveAt(requests, k))
         \/ requests' = RemoveAt(requests, k) /\ UNCHANGED <<status, chart>>
  BY DEF FreshArrives, Arrives, StillWanted, serverVars, viewVars, summaryVars
<1>2. Here.repository \in {repository, Nothing}
  BY DEF Here
<1>3. CASE r.active /\ SetSummary(Here, StatusIn(r), extension, RemoveAt(requests, k))
  <2>1. StatusFollows(StatusIn(r), repository, saved)
    BY <1>1, <1>3, Arriving, AnsweredStatus
  <2> QED  BY <1>1, <1>2, <1>3, <2>1, Arriving, SummaryArrives
<1>4. CASE requests' = RemoveAt(requests, k) /\ UNCHANGED <<status, chart>>
  BY <1>1, <1>4, Arriving DEF BrowserInv
<1> QED  BY <1>1, <1>3, <1>4

(* The second half of a poll is asked of the repository of the first.         *)
LEMMA PollKeeps ==
  ASSUME BrowserInv, NEW k \in DOMAIN requests, PollArrives(k)
  PROVE  BrowserInv'
<1> DEFINE r == requests[k]
           rest == RemoveAt(requests, k)
           next == [j \in DOMAIN AfterPoll(r) |->
                      [AfterPoll(r)[j] EXCEPT !.context = ExtensionIn(r)]]
           fresh == [Question("fresh", r) EXCEPT !.context = ExtensionIn(r)]
<1>1. /\ r.kind = "poll" /\ UNCHANGED <<repository, saved>>
      /\ \/ r.active /\ SetSummary(Here, status, ExtensionIn(r), rest \o next)
         \/ requests' = rest /\ UNCHANGED <<status, chart>>
  BY DEF PollArrives, Arrives, StillWanted, serverVars, viewVars, summaryVars
<1>2. Here.repository \in {repository, Nothing}
  BY DEF Here
<1>3. CASE r.active /\ SetSummary(Here, status, ExtensionIn(r), rest \o next)
  <2>1. r.repository = repository /\ repository \in Repositories
    BY <1>1, <1>3, Arriving DEF Follows
  <2>2. Follows(fresh, repository, chart, saved)
    BY <2>1 DEF Question, Follows, IsQuestion, Nothing, Kinds
  <2>3. next = <<>> \/ next = <<fresh>>
    BY DEF AfterPoll
  <2>4. AllFollow(next, repository, chart, saved)
    <3> HIDE DEF next, fresh
    <3> QED  BY <2>2, <2>3, OneFollows, NoneFollows
  <2> HIDE DEF next, rest
  <2>5. AllFollow(rest, repository, chart, saved)
    BY Arriving DEF rest
  <2>6. AllFollow(rest \o next, repository, chart, saved)
    BY <2>4, <2>5, JoinedFollow
  <2> QED  BY <1>1, <1>2, <1>3, <2>6, SummaryArrives DEF BrowserInv
<1>4. CASE requests' = rest /\ UNCHANGED <<status, chart>>
  BY <1>1, <1>4, Arriving DEF BrowserInv
<1> QED  BY <1>1, <1>3, <1>4

LEMMA ExtendKeeps ==
  ASSUME BrowserInv, NEW k \in DOMAIN requests, ExtendArrives(k)
  PROVE  BrowserInv'
<1> DEFINE view == [Here EXCEPT !.repository = IF Enabled THEN @ ELSE Nothing]
<1>1. /\ SetSummary(view, status, ExtensionIn(requests[k]), RemoveAt(requests, k))
      /\ UNCHANGED <<repository, saved>>
  BY DEF ExtendArrives, serverVars, viewVars
<1>2. view.repository \in {repository, Nothing}
  BY DEF Here
<1> HIDE DEF view
<1> QED  BY <1>1, <1>2, Arriving, SummaryArrives DEF BrowserInv

(* The pages that are loaded stay the beginning of the series, and what is    *)
(* shown is the whole of it.                                                  *)
LEMMA SeriesKeeps ==
  ASSUME BrowserInv, NEW k \in DOMAIN requests, SeriesArrives(k)
  PROVE  BrowserInv'
<1> DEFINE r == requests[k]
           rest == RemoveAt(requests, k)
           page == Page(r.selection, r.answer.saved, r.after)
           items == r.items \o CoveredPairs(page.numbers, r.covered)
           next == [Question("series", r) EXCEPT !.after = page.next[1],
                                                 !.covered = r.covered, !.items = items]
           shownItems == [j \in DOMAIN items |-> <<r.repository, items[j]>>]
<1>1. /\ r.kind = "series" /\ r.answer # Nothing /\ UNCHANGED <<repository, saved, status>>
      /\ \/ ~r.active /\ requests' = rest /\ chart' = chart
         \/ /\ r.active /\ LastOfSeries(page.next, r.covered) /\ requests' = rest
            /\ chart' = [chart EXCEPT !.items = shownItems]
         \/ /\ r.active /\ ~LastOfSeries(page.next, r.covered)
            /\ requests' = Append(rest, next) /\ chart' = chart
  BY DEF SeriesArrives, Arrives, StillWanted, serverVars, viewVars
<1>2. CASE requests' = rest /\ chart' = chart
  BY <1>1, <1>2, Arriving DEF BrowserInv
<1>3. ASSUME r.active
      PROVE  /\ SeriesFollows(r, chart, saved) /\ IsQuestion(r)
             /\ r.repository = repository /\ chart.key # Nothing
             /\ IF LastOfSeries(page.next, r.covered) THEN items = [n \in 1..r.covered |-> n]
                ELSE /\ page.next[1] \in Nat \ {0} /\ page.next[1] + 1 < r.covered
                     /\ items = [n \in 1..Loaded(page.next[1]) |-> n]
  <2>1. SeriesFollows(r, chart, saved) /\ IsQuestion(r) /\ r.answer.saved \in Nat
    BY <1>1, <1>3, Arriving DEF Follows
  <2>2. r.covered \in Nat /\ r.after \in Nat /\ r.covered <= r.answer.saved
    BY <1>1, <2>1 DEF SeriesFollows, IsQuestion
  <2>3. /\ Loaded(r.after) <= r.covered /\ r.selection = "all"
        /\ r.items = [n \in 1..Loaded(r.after) |-> n]
    BY <2>1, <2>2 DEF SeriesFollows, Loaded
  <2>4. r.repository = repository /\ chart.key # Nothing
    BY <2>1 DEF SeriesFollows, BrowserInv, ChartFollows
  <2> DEFINE upTo == r.answer.saved
             covered == r.covered
             after == r.after
             before == r.items
             all == Page("all", upTo, after)
             joined == before \o CoveredPairs(all.numbers, covered)
  <2>5. page = all /\ items = joined
    BY <2>3
  <2>6. IF LastOfSeries(all.next, covered) THEN joined = [n \in 1..covered |-> n]
        ELSE /\ all.next[1] \in Nat \ {0} /\ all.next[1] + 1 < covered
             /\ joined = [n \in 1..Loaded(all.next[1]) |-> n]
    <3>1. /\ upTo \in Nat /\ after \in Nat /\ covered \in Nat
          /\ Loaded(after) <= covered /\ covered <= upTo
          /\ before = [n \in 1..Loaded(after) |-> n]
      BY <2>1, <2>2, <2>3
    <3> HIDE DEF upTo, covered, after, before
    <3> QED  BY <3>1, SeriesPage
  <2>7. covered = r.covered
    OBVIOUS
  <2> HIDE DEF page, items, all, joined, covered
  <2>8. IF LastOfSeries(page.next, r.covered) THEN items = [n \in 1..r.covered |-> n]
        ELSE /\ page.next[1] \in Nat \ {0} /\ page.next[1] + 1 < r.covered
             /\ items = [n \in 1..Loaded(page.next[1]) |-> n]
    BY <2>5, <2>6, <2>7
  <2> QED  BY <2>1, <2>4, <2>8
<1> HIDE DEF r, rest, items, page
<1>4. CASE /\ r.active /\ LastOfSeries(page.next, r.covered) /\ requests' = rest
           /\ chart' = [chart EXCEPT !.items = shownItems]
  <2>1. items = [n \in 1..r.covered |-> n] /\ r.covered = chart.covered
    BY <1>3, <1>4 DEF SeriesFollows
  <2>2. shownItems = [n \in 1..chart.covered |-> <<repository, n>>]
    BY <1>3, <1>4, <2>1
  <2> HIDE DEF shownItems
  <2>3. ChartFollows(chart, repository)
    BY DEF BrowserInv
  <2>4. /\ chart'.key = chart.key /\ chart'.covered = chart.covered
        /\ chart'.items = shownItems
        /\ chart' \in [key : {chart'.key}, covered : Nat, items : {chart'.items},
                       failed : BOOLEAN]
    BY <1>4, <2>3 DEF ChartFollows
  <2>5. ChartFollows(chart', repository)
    BY <1>3, <1>4, <2>2, <2>3, <2>4 DEF ChartFollows
  <2>6. \A q : Follows(q, repository, chart, saved) => Follows(q, repository, chart', saved)
    BY <2>4 DEF Follows, SeriesFollows
  <2>7. AllFollow(rest, repository, chart', saved)
    BY <2>6, Arriving DEF rest, AllFollow
  <2> QED  BY <1>1, <1>4, <2>5, <2>7 DEF BrowserInv
<1>5. CASE /\ r.active /\ ~LastOfSeries(page.next, r.covered)
           /\ requests' = Append(rest, next) /\ chart' = chart
  <2>1. /\ SeriesFollows(r, chart, saved) /\ IsQuestion(r) /\ r.repository = repository
        /\ page.next[1] \in Nat \ {0} /\ page.next[1] + 1 < r.covered
        /\ items = [n \in 1..Loaded(page.next[1]) |-> n]
    BY <1>3, <1>5
  <2>2. next = [kind |-> "series", repository |-> r.repository, selection |-> r.selection,
                after |-> page.next[1], pair |-> 0, active |-> TRUE, covered |-> r.covered,
                items |-> items, context |-> Nothing, answer |-> Nothing]
    <3> DEFINE asking == Question("series", r)
    <3>1. asking = [kind |-> "series", repository |-> r.repository, selection |-> r.selection,
                    after |-> 0, pair |-> 0, active |-> TRUE, covered |-> 0,
                    items |-> <<>>, context |-> Nothing, answer |-> Nothing]
      BY DEF Question
    <3>2. next = [asking EXCEPT !.after = page.next[1], !.covered = r.covered, !.items = items]
      OBVIOUS
    <3> HIDE DEF asking, next
    <3> QED  BY <3>1, <3>2
  <2> HIDE DEF next
  <2>3. SeriesFollows(next, chart, saved)
    BY <2>1, <2>2 DEF SeriesFollows
  <2>4. IsQuestion(next)
    BY <2>1, <2>2 DEF IsQuestion, Kinds
  <2>5. Follows(next, repository, chart, saved)
    BY <2>2, <2>3, <2>4 DEF Follows
  <2> QED  BY <1>1, <1>5, <2>5, Arriving, AppendedFollow DEF BrowserInv, rest
<1> QED  BY <1>1, <1>2, <1>4, <1>5

(* An answer that is only taken away, or kept for the header, leaves the rest *)
(* as it is.                                                                  *)
LEMMA OtherAnswersKeep ==
  ASSUME BrowserInv, NEW k \in DOMAIN requests,
         MoreArrives(k) \/ PairArrives(k) \/ OpenedPairArrives(k)
  PROVE  BrowserInv'
<1>1. requests' = RemoveAt(requests, k) /\ UNCHANGED <<repository, saved, status, chart>>
  BY DEF MoreArrives, PairArrives, OpenedPairArrives, serverVars, viewVars, summaryVars
<1> QED  BY <1>1, Arriving DEF BrowserInv

(* The request for an opened pair keeps the context of the click.             *)
LEMMA OpenKeeps ==
  ASSUME BrowserInv, NEW k \in DOMAIN requests, OpenArrives(k)
  PROVE  BrowserInv'
<1> DEFINE r == requests[k]
           next == [r EXCEPT !.kind = "openedPair", !.answer = Nothing]
<1>1. /\ requests' = Append(RemoveAt(requests, k), next) /\ r.kind = "open"
      /\ UNCHANGED <<repository, saved, status, chart>>
  BY DEF OpenArrives, Arrives, serverVars, viewVars, summaryVars
<1>2. Follows(r, repository, chart, saved)
  BY Arriving
<1> HIDE DEF r
<1>3. /\ IsQuestion(next) /\ next.kind = "openedPair" /\ next.answer = Nothing
      /\ next.context = r.context /\ next.repository = r.repository /\ next.pair = r.pair
  BY <1>2 DEF Follows, IsQuestion, Kinds
<1> HIDE DEF next
<1>4. Follows(next, repository, chart, saved)
  BY <1>1, <1>2, <1>3 DEF Follows
<1> QED  BY <1>1, <1>4, Arriving, AppendedFollow DEF BrowserInv

LEMMA FailsKeeps ==
  ASSUME BrowserInv, NEW k \in DOMAIN requests, Fails(k)
  PROVE  BrowserInv'
<1> DEFINE failed == chart.failed \/ (requests[k].kind = "series" /\ StillWanted(requests[k]))
<1>1. /\ requests' = RemoveAt(requests, k) /\ UNCHANGED <<repository, saved, status>>
      /\ chart' = [chart EXCEPT !.failed = failed]
  BY DEF Fails, serverVars, viewVars
<1>2. ChartFollows(chart, repository) /\ requests[k].active \in BOOLEAN
  BY Arriving DEF BrowserInv, Follows, IsQuestion
<1>3. failed \in BOOLEAN
  BY <1>2 DEF StillWanted, ChartFollows
<1> HIDE DEF failed
<1>4. /\ chart'.key = chart.key /\ chart'.covered = chart.covered
      /\ chart'.items = chart.items
      /\ chart' \in [key : {chart'.key}, covered : Nat, items : {chart'.items},
                     failed : BOOLEAN]
  BY <1>1, <1>2, <1>3 DEF ChartFollows
<1>5. ChartFollows(chart', repository)
  BY <1>2, <1>4 DEF ChartFollows
<1>6. \A q : Follows(q, repository, chart, saved) => Follows(q, repository, chart', saved)
  BY <1>4 DEF Follows, SeriesFollows
<1>7. AllFollow(requests', repository, chart', saved)
  BY <1>1, <1>6, Arriving DEF AllFollow
<1> QED  BY <1>1, <1>5, <1>7 DEF BrowserInv

LEMMA BrowserInvStep == BrowserInv /\ [BrowserNext]_<<historyVars, inputVars>> => BrowserInv'
<1> SUFFICES ASSUME BrowserInv, [BrowserNext]_<<historyVars, inputVars>> PROVE BrowserInv'
  OBVIOUS
<1>1. ASSUME NEW k \in DOMAIN requests, Answers(k) PROVE BrowserInv'
  BY <1>1, LoadKeeps, PollKeeps, FreshKeeps, SeriesKeeps, ExtendKeeps, OpenKeeps,
     OtherAnswersKeep DEF Answers
<1>2. CASE UNCHANGED <<historyVars, inputVars>>
  BY <1>2 DEF historyVars, BrowserInv
<1> QED
  BY <1>1, <1>2, OtherInputKeeps, ClicksKeep, PollsKeep, ServesKeeps, FailsKeeps,
     ExtensionMovesKeep DEF BrowserNext

(* Whatever is chosen between a request and its answer, and however far an    *)
(* extension gets between two pages, the summary is of the repository that is *)
(* chosen and the chart holds its pairs, each once and in order: for any      *)
(* repositories, pages, number of clicks, polls and failures.                 *)
THEOREM ChartIsRight == BrowserSpec => []ChartShowsTheRepository
<1>1. BrowserInit => BrowserInv
  BY BrowserInvInitially
<1>2. BrowserInv /\ [BrowserNext]_<<historyVars, inputVars>> => BrowserInv'
  BY BrowserInvStep
<1>3. BrowserInv => ChartShowsTheRepository
  BY DEF BrowserInv, StatusFollows, ChartFollows, ChartShowsTheRepository
<1> QED
  BY <1>1, <1>2, <1>3, PTL DEF BrowserSpec

-----------------------------------------------------------------------------
(* The header, beside the history tab.                                        *)

(* The tab touches what the inputs keep only when an opened pair is there.    *)
LEMMA InputsStay ==
  BrowserNext => \/ InputNext \/ UNCHANGED <<inputMode, form, asked, shown>>
                 \/ \E k \in DOMAIN requests : OpenedPairArrives(k)
<1>1. Clicks => UNCHANGED <<inputMode, form, asked, shown>>
  BY DEF Clicks, ChooseRepository, ChooseSelection, Refresh, LoadMore, ExtendHistory,
         SelectPair, OpenVisualization
<1>2. ASSUME NEW k \in DOMAIN requests, Serves(k) \/ Answers(k) \/ Fails(k)
      PROVE  UNCHANGED <<inputMode, form, asked, shown>> \/ OpenedPairArrives(k)
  BY <1>2 DEF Serves, Answers, Fails, LoadArrives, PollArrives, FreshArrives, SeriesArrives,
              MoreArrives, PairArrives, ExtendArrives, OpenArrives, inputVars
<1>3. Polls \/ (\E p \in Repositories : ExtensionMoves(p))
        => UNCHANGED <<inputMode, form, asked, shown>>
  BY DEF Polls, ExtensionMoves, inputVars
<1> QED  BY <1>1, <1>2, <1>3 DEF BrowserNext, OtherInput

LEMMA OpenedPairIsNamed ==
  ASSUME BrowserInv, InputInv, NEW k \in DOMAIN requests, OpenedPairArrives(k)
  PROVE  InputInv'
<1> DEFINE r == requests[k]
           pair == <<"pair", r.repository, r.pair>>
<1>1. /\ r.kind = "openedPair" /\ UNCHANGED <<inputMode, form, asked>>
      /\ shown' = [data |-> pair, context |-> r.context]
  BY DEF OpenedPairArrives, Arrives, AcceptVisualization, CapturedContext
<1>2. r.context = [mode |-> "history", label |-> pair]
  BY <1>1, Arriving DEF Follows
<1>3. pair # Nothing /\ r.context # Nothing
  BY <1>2, ContextIsThere DEF Nothing
<1>4. Names(r.context, pair)
  BY <1>2, <1>3 DEF Names
<1> HIDE DEF r, pair
<1>5. ShownInv'
  BY <1>1, <1>4 DEF ShownInv, Names
<1> QED  BY <1>1, <1>5 DEF InputInv, FormInv, AskedInv, Names

(* The header names the comparison that is shown also when pairs of a history *)
(* are opened between the other inputs.                                       *)
THEOREM HeaderStaysRight == BrowserSpec => []ContextNamesTheShown
<1> DEFINE Both == BrowserInv /\ InputInv
<1>1. BrowserInit => Both
  BY BrowserInvInitially, InputInvInitially DEF BrowserInit
<1>2. Both /\ [BrowserNext]_<<historyVars, inputVars>> => Both'
  <2> SUFFICES ASSUME Both, [BrowserNext]_<<historyVars, inputVars>> PROVE Both'
    OBVIOUS
  <2>1. BrowserInv'
    BY BrowserInvStep
  <2>2. CASE InputNext
    BY <2>1, <2>2, InputInvStep
  <2>3. CASE UNCHANGED <<inputMode, form, asked, shown>>
    BY <2>1, <2>3 DEF InputInv, FormInv, AskedInv, ShownInv, Names
  <2>4. ASSUME NEW k \in DOMAIN requests, OpenedPairArrives(k) PROVE Both'
    BY <2>1, <2>4, OpenedPairIsNamed
  <2>5. UNCHANGED <<historyVars, inputVars>> => UNCHANGED <<inputMode, form, asked, shown>>
    BY DEF inputVars
  <2> QED  BY <2>2, <2>3, <2>4, <2>5, InputsStay
<1>3. Both => ContextNamesTheShown
  BY InputInvNames
<1> QED
  BY <1>1, <1>2, <1>3, PTL DEF BrowserSpec
=============================================================================
