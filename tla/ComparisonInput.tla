--------------------------- MODULE ComparisonInput ---------------------------
(* The inputs of the page and the one comparison it shows: the form for       *)
(* examples, pasted text and uploads (useSrcDiffData.ts), and an imported     *)
(* review of benchmark cases (useBigMoveBenchReview.ts).  Answers arrive in   *)
(* any order, after whatever the user did meanwhile; a handler sees the state *)
(* of the moment it was called.  What is shown and its context are set by one *)
(* handler and so at once.                                                    *)
EXTENDS Naturals

CONSTANTS
  Examples,   \* the files of /api/examples
  Texts,      \* what a user pastes
  Uploads,    \* files a user chooses
  Reviews,    \* review archives
  Cases,      \* the ordinals of a review's cases
  MaxInputs   \* bound: how often the user acts

VARIABLES
  inputMode,  \* the tab of the input panel
  form,       \* [xml, example, upload]: xmlInput, loadedExampleFilename, selectedUpload
  waiting,    \* which hooks are busy: "submit", "example", "review"
  review,     \* the manifest of the imported review
  asked,      \* requests of these hooks that are not answered
  shown,      \* [data, context]: the comparison and what the header says of it
  inputs      \* how often the user acted

inputVars == <<inputMode, form, waiting, review, asked, shown, inputs>>

Nothing == <<>>
FormModes == {"examples", "paste", "upload"}
Modes == FormModes \cup {"history", "benchmark"}
NoComparison == [data |-> Nothing, context |-> Nothing]

InputInit ==
  /\ inputMode = "examples" /\ waiting = {} /\ review = Nothing /\ asked = {}
  /\ form = [xml |-> Nothing, example |-> Nothing, upload |-> Nothing]
  /\ shown = NoComparison /\ inputs = 0

Acts == inputs < MaxInputs /\ inputs' = inputs + 1

Asks(kind, content, context) ==
  asked' = asked \cup {[kind |-> kind, content |-> content, context |-> context]}

Settles(r, busy) == asked' = asked \ {r} /\ waiting' = waiting \ {busy}

ChooseMode(mode) ==
  /\ "submit" \notin waiting /\ mode # inputMode /\ Acts
  /\ inputMode' = mode
  /\ UNCHANGED <<form, waiting, review, asked, shown>>

(* An edited text is no longer the example it was loaded as.                 *)
EditXml(text) ==
  /\ inputMode = "paste" /\ "submit" \notin waiting /\ Acts
  /\ form' = [form EXCEPT !.xml = <<"text", text>>, !.example = Nothing]
  /\ UNCHANGED <<inputMode, waiting, review, asked, shown>>

ChooseUpload(file) ==
  /\ inputMode = "upload" /\ "submit" \notin waiting /\ Acts
  /\ form' = [form EXCEPT !.upload = file]
  /\ UNCHANGED <<inputMode, waiting, review, asked, shown>>

LoadExample(filename) ==
  /\ inputMode = "examples" /\ waiting \cap {"submit", "example"} = {} /\ Acts
  /\ waiting' = waiting \cup {"example"}
  /\ Asks("example", <<"example", filename>>, Nothing)
  /\ UNCHANGED <<inputMode, form, review, shown>>

(* The form is filled, and its tab opened, wherever the user went meanwhile. *)
ExampleArrives(r) ==
  /\ r \in asked /\ r.kind = "example"
  /\ Settles(r, "example")
  /\ form' = [form EXCEPT !.xml = r.content, !.example = r.content]
  /\ inputMode' = "examples"
  /\ UNCHANGED <<review, shown, inputs>>

-----------------------------------------------------------------------------
FormContent == IF inputMode = "upload" THEN form.upload ELSE form.xml

(* The label of a text that is no example is the file name of the answer.    *)
FormContext ==
  [mode |-> inputMode,
   label |-> IF inputMode = "examples" /\ form.example # Nothing
             THEN form.example ELSE FormContent]

Submit ==
  /\ inputMode \in FormModes /\ FormContent # Nothing
  /\ "submit" \notin waiting /\ Acts
  /\ waiting' = waiting \cup {"submit"}
  /\ Asks("form", FormContent, FormContext)
  /\ UNCHANGED <<inputMode, form, review, shown>>

\* Mutant: the context is taken from the form when the answer is there.
CurrentContext(r) == FormContext

CapturedContext(r) == r.context

AcceptVisualization(payload, context) == shown' = [data |-> payload, context |-> context]

FormArrives(r) ==
  /\ r \in asked /\ r.kind = "form"
  /\ Settles(r, "submit")
  /\ AcceptVisualization(r.content, CapturedContext(r))
  /\ UNCHANGED <<inputMode, form, review, inputs>>

(* A failed submission takes down what was shown, whoever showed it.         *)
FormFails(r) ==
  /\ r \in asked /\ r.kind = "form"
  /\ Settles(r, "submit")
  /\ shown' = NoComparison
  /\ UNCHANGED <<inputMode, form, review, inputs>>

-----------------------------------------------------------------------------
ImportBundle(archive) ==
  /\ inputMode = "benchmark" /\ "review" \notin waiting /\ Acts
  /\ waiting' = waiting \cup {"review"}
  /\ Asks("import", archive, Nothing)
  /\ UNCHANGED <<inputMode, form, review, shown>>

ReviewArrives(r) ==
  /\ r \in asked /\ r.kind = "import"
  /\ Settles(r, "review")
  /\ review' = r.content
  /\ UNCHANGED <<inputMode, form, shown, inputs>>

VisualizeCase(ordinal) ==
  /\ review # Nothing /\ "review" \notin waiting /\ Acts
  /\ waiting' = waiting \cup {"review"}
  /\ LET case == <<"case", review, ordinal>>
     IN  Asks("case", case, [mode |-> "benchmark", label |-> case])
  /\ UNCHANGED <<inputMode, form, review, shown>>

CaseArrives(r) ==
  /\ r \in asked /\ r.kind = "case"
  /\ Settles(r, "review")
  /\ AcceptVisualization(r.content, CapturedContext(r))
  /\ UNCHANGED <<inputMode, form, review, inputs>>

RequestFails(r) ==
  /\ r \in asked /\ r.kind # "form"
  /\ Settles(r, IF r.kind = "example" THEN "example" ELSE "review")
  /\ UNCHANGED <<inputMode, form, review, shown, inputs>>

-----------------------------------------------------------------------------
InputNext ==
  \/ \E mode \in Modes : ChooseMode(mode)
  \/ \E text \in Texts : EditXml(text)
  \/ \E file \in Uploads : ChooseUpload(<<"upload", file>>)
  \/ ChooseUpload(Nothing)
  \/ \E filename \in Examples : LoadExample(filename)
  \/ Submit
  \/ \E archive \in Reviews : ImportBundle(archive)
  \/ \E ordinal \in Cases : VisualizeCase(ordinal)
  \/ \E r \in asked : \/ ExampleArrives(r) \/ FormArrives(r) \/ FormFails(r)
                      \/ ReviewArrives(r) \/ CaseArrives(r) \/ RequestFails(r)

InputSpec == InputInit /\ [][InputNext]_inputVars

(* "Context is captured when the comparison loads; editing another input     *)
(* does not relabel the loaded result": whatever is edited, chosen, loaded   *)
(* or accepted between a request and its answer, the header names the        *)
(* comparison that is shown.                                                 *)
ContextNamesTheShown ==
  /\ shown.data = Nothing <=> shown.context = Nothing
  /\ shown.data # Nothing =>
       IF shown.context.mode = "paste" THEN shown.data[1] \in {"text", "example"}
       ELSE shown.context.label = shown.data
=============================================================================
