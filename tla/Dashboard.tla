------------------------------ MODULE Dashboard ------------------------------
(***************************************************************************)
(* The investigator dashboard in one browser tab (frontend/src): the       *)
(* connect screen, the case queue and the case page, whose requests are    *)
(* answered in any order, also after the page has moved on.  Other tabs    *)
(* share the stored API key.                                               *)
(*                                                                         *)
(* React renders one component at a time, which the key and the URL        *)
(* determine.  A component that is unmounted loses its state, but nothing  *)
(* aborts its requests: a write it has sent stays in flight and reaches    *)
(* the API, while a read leaves the model, as its answer changes nothing   *)
(* any more.  The case page stays mounted when the history goes from one   *)
(* case to another.                                                        *)
(* The API answers as it likes; the four requests for the sections of a    *)
(* case (Promise.all) are one; what they show and what people type in the  *)
(* forms is left out.                                                      *)
(***************************************************************************)
EXTENDS Naturals, FiniteSets

CONSTANTS Keys, Filters, Cases, None,
          Slots    \* bound: requests in flight

ASSUME NoneAssumption == None \notin Keys \cup Filters \cup Cases
ASSUME SlotsAssumption == Slots # {}

VARIABLES
  stored,    \* localStorage: the API key
  accepted,  \* keys the API has accepted
  apiKey,    \* AuthContext: the key this tab is connected with
  url,       \* the location of the tab
  connect,   \* state of ConnectScreen
  list,      \* state of CaseListPage
  page,      \* state of CaseDetailPage
  calls      \* requests in flight, by slot

vars == <<stored, accepted, apiKey, url, connect, list, page, calls>>

Urls == [page : {"list"}, of : Filters] \cup [page : {"case"}, of : Cases]

\* AuthGate and Routes: what is mounted.
Screen == IF apiKey = None THEN "connect" ELSE url.page

Writes == {"save", "note", "report"}

NoConnect == [key |-> None, checking |-> FALSE]
NoList == [cases |-> None, error |-> FALSE]
NoCase == [id |-> None, confirmed |-> FALSE]

\* busy holds resolving, addingNote and generatingReport; form says which case
\* filled resolveForm.
NoPage == [caseData |-> NoCase, form |-> None, loadError |-> FALSE, busy |-> {}]

\* by: the effect or handler that awaits the answer, "left" when its page has
\* been unmounted.  then: the case its
\* closure of load is about.
Call(op, by, of, then) ==
  [op |-> op, by |-> by, of |-> of, then |-> then, cancelled |-> FALSE]

\* The request of the effect that runs when a page is mounted at u.
Mounting(u) == Call(u.page, "effect", u.of, u.of)

NextSlot(cs) == CHOOSE i \in Slots \ DOMAIN cs : TRUE
With(cs, call) ==
  [i \in DOMAIN cs \cup {NextSlot(cs)} |-> IF i = NextSlot(cs) THEN call ELSE cs[i]]
Without(i) == [k \in DOMAIN calls \ {i} |-> calls[k]]

NoCalls == [i \in {} |-> i]
Free == Slots \ DOMAIN calls # {}

\* The tab is opened, with the key of an earlier visit or without one.
Init ==
  /\ accepted \in SUBSET Keys
  /\ stored \in accepted \cup {None}
  /\ apiKey = stored
  /\ url \in Urls
  /\ connect = NoConnect
  /\ list = NoList
  /\ page = NoPage
  /\ calls = IF apiKey = None THEN NoCalls ELSE With(NoCalls, Mounting(url))

\* The writes in flight, which nobody awaits any more: request has no AbortController.
LeftBehind ==
  [i \in {k \in DOMAIN calls : calls[k].op \in Writes} |-> [calls[i] EXCEPT !.by = "left"]]

\* Every component is left and what is mounted then starts afresh, its busy
\* flags included, whatever the old one had sent.
Remount(key, u) ==
  /\ key # None => Slots \ DOMAIN LeftBehind # {}
  /\ apiKey' = key
  /\ url' = u
  /\ connect' = NoConnect
  /\ list' = NoList
  /\ page' = NoPage
  /\ calls' = IF key = None THEN LeftBehind ELSE With(LeftBehind, Mounting(u))

-----------------------------------------------------------------------------
\* ConnectScreen

TypeKey(key) ==
  /\ Screen = "connect"
  /\ key # connect.key
  /\ connect' = [connect EXCEPT !.key = key]
  /\ UNCHANGED <<stored, accepted, apiKey, url, list, page, calls>>

\* handleSubmit, up to its await; a blank key or a running check disables it.
SubmitKey ==
  /\ Screen = "connect"
  /\ connect.key # None /\ ~connect.checking
  /\ Free
  /\ connect' = [connect EXCEPT !.checking = TRUE]
  /\ calls' = With(calls, Call("validate", "connect", connect.key, None))
  /\ UNCHANGED <<stored, accepted, apiKey, url, list, page>>

\* Mutated form: what the input holds by then is stored.
TypedKey(i) == connect.key

\* The key that was sent is the one that is stored.
CheckedKey(i) == calls[i].of

AnswerValidate(i) ==
  /\ calls[i].op = "validate"
  /\ \/ /\ accepted' = accepted \cup {calls[i].of}
        /\ stored' = CheckedKey(i)
        /\ Remount(CheckedKey(i), url)
     \/ /\ connect' = [connect EXCEPT !.checking = FALSE]
        /\ calls' = Without(i)
        /\ UNCHANGED <<stored, accepted, apiKey, url, list, page>>

-----------------------------------------------------------------------------
\* CaseListPage

\* Mutated form: late answers are used.
IgnoredNever(call) == FALSE

\* The cleanup of the effect has set cancelled.
Ignored(call) == call.cancelled

\* updateFilter: the effect of the old filter is cleaned up, the new one runs.
ChangeFilter(f) ==
  /\ Screen = "list"
  /\ f # url.of
  /\ Free
  /\ url' = [url EXCEPT !.of = f]
  /\ list' = [list EXCEPT !.error = FALSE]
  /\ calls' = With([i \in DOMAIN calls |->
                      [calls[i] EXCEPT !.cancelled = @ \/ calls[i].op = "list"]],
                   Mounting([url EXCEPT !.of = f]))
  /\ UNCHANGED <<stored, accepted, apiKey, connect, page>>

AnswerList(i) ==
  /\ calls[i].op = "list"
  /\ IF Ignored(calls[i]) THEN UNCHANGED list
     ELSE \/ list' = [list EXCEPT !.cases = calls[i].of]
          \/ list' = [list EXCEPT !.error = TRUE]
  /\ calls' = Without(i)
  /\ UNCHANGED <<stored, accepted, apiKey, url, connect, page>>

-----------------------------------------------------------------------------
\* CaseDetailPage

\* The history goes to another case without leaving the page: load changes
\* with caseId, and its effect runs.
GoToCase(c) ==
  /\ Screen = "case"
  /\ c # url.of
  /\ Free
  /\ url' = [url EXCEPT !.of = c]
  /\ calls' = With(calls, Mounting([url EXCEPT !.of = c]))
  /\ UNCHANGED <<stored, accepted, apiKey, connect, list, page>>

\* Mutated form: the case of the URL is written.
TargetUrl == url.of

\* The handlers write the case that is shown.
Target == page.caseData.id

\* Mutated form: a case that has not been loaded does not stop the handler.
MayWriteUnloaded(op) == op \notin page.busy /\ ~page.loadError

\* The forms are rendered and their button is not disabled.
MayWrite(op) ==
  /\ op \notin page.busy
  /\ ~page.loadError
  /\ page.caseData.id # None
  /\ op = "report" => page.caseData.confirmed

\* handleResolveSubmit, handleAddNote and handleGenerateReport, up to the await.
Write(op) ==
  /\ Screen = "case"
  /\ MayWrite(op)
  /\ Free
  /\ page' = [page EXCEPT !.busy = @ \cup {op}]
  /\ calls' = With(calls, Call(op, op, Target, url.of))
  /\ UNCHANGED <<stored, accepted, apiKey, url, connect, list>>

\* Mutated form: the flag is reset on success only.
FinishedSuccess(p, op, ok) == IF ok THEN [p EXCEPT !.busy = @ \ {op}] ELSE p

\* The finally clause of the handler; the effect has none.
Finished(p, op, ok) == [p EXCEPT !.busy = @ \ {op}]

\* Mutated form: the flag is reset before the case is loaded again.
ReloadingEarly(p, op) == [p EXCEPT !.busy = @ \ {op}]

\* The handler awaits load().
Reloading(p, op) == p

AnswerWrite(i) ==
  LET call == calls[i]
  IN /\ call.op \in Writes /\ call.by # "left"
     /\ \/ /\ calls' = [calls EXCEPT ![i].op = "case", ![i].of = call.then]
           /\ page' = Reloading(page, call.by)
        \/ /\ calls' = Without(i)
           /\ page' = Finished(page, call.by, FALSE)
     /\ UNCHANGED <<stored, accepted, apiKey, url, connect, list>>

\* The handler of an unmounted page resumes: what it sets and the case it loads
\* again are not shown.
AnswerLeft(i) ==
  /\ calls[i].by = "left"
  /\ calls' = Without(i)
  /\ UNCHANGED <<stored, accepted, apiKey, url, connect, list, page>>

\* load catches every error.
LoadFailed(i) ==
  /\ calls' = Without(i)
  /\ page' = Finished([page EXCEPT !.loadError = TRUE], calls[i].by, TRUE)

\* getCase: case and form are set, and the sections of that case requested.
AnswerCase(i) ==
  LET call == calls[i]
  IN /\ call.op = "case"
     /\ \/ /\ calls' = [calls EXCEPT ![i].op = "sections"]
           /\ \E confirmed \in BOOLEAN :
                page' = [page EXCEPT !.caseData = [id |-> call.of, confirmed |-> confirmed],
                                     !.form = call.of]
        \/ LoadFailed(i)
     /\ UNCHANGED <<stored, accepted, apiKey, url, connect, list>>

AnswerSections(i) ==
  /\ calls[i].op = "sections"
  /\ \/ /\ calls' = Without(i)
        /\ page' = Finished(page, calls[i].by, TRUE)
     \/ LoadFailed(i)
  /\ UNCHANGED <<stored, accepted, apiKey, url, connect, list>>

-----------------------------------------------------------------------------
\* Links and the history, between queue and case page.
Navigate(u) ==
  /\ apiKey # None /\ u.page # url.page
  /\ Remount(apiKey, u)
  /\ UNCHANGED <<stored, accepted>>

\* disconnect; the URL stays.
Disconnect ==
  /\ apiKey # None
  /\ stored' = None
  /\ Remount(None, url)
  /\ UNCHANGED accepted

\* The tab is loaded again.
Reload ==
  /\ Remount(stored, url)
  /\ UNCHANGED <<stored, accepted>>

\* Another tab connects, after its own check, or disconnects.
OtherTab(key) ==
  /\ stored' = key
  /\ accepted' = accepted \cup ({key} \ {None})
  /\ UNCHANGED <<apiKey, url, connect, list, page, calls>>

Answer(i) ==
  \/ AnswerValidate(i)
  \/ AnswerList(i)
  \/ AnswerWrite(i)
  \/ AnswerLeft(i)
  \/ AnswerCase(i)
  \/ AnswerSections(i)

Next ==
  \/ \E key \in Keys \cup {None} : TypeKey(key)
  \/ SubmitKey
  \/ \E f \in Filters : ChangeFilter(f)
  \/ \E c \in Cases : GoToCase(c)
  \/ \E op \in Writes : Write(op)
  \/ \E u \in Urls : Navigate(u)
  \/ Disconnect
  \/ Reload
  \/ \E key \in Keys \cup {None} : OtherTab(key)
  \/ \E i \in DOMAIN calls : Answer(i)

Spec == Init /\ [][Next]_vars

Awaited(by) == {i \in DOMAIN calls : calls[i].by = by}

\* The API answers, or the connection fails, sooner or later.  Nobody has to
\* type, click or navigate.
Fairness == \A op \in Writes : WF_vars(\E i \in Awaited(op) : Answer(i))

FairSpec == Spec /\ Fairness

-----------------------------------------------------------------------------
CallRecords ==
  [op : {"validate"}, by : {"connect"}, of : Keys, then : {None},
   cancelled : {FALSE}]
  \cup [op : {"list"}, by : {"effect"}, of : Filters, then : Filters,
        cancelled : BOOLEAN]
  \cup [op : Writes \cup {"case", "sections"}, by : Writes \cup {"effect"}, of : Cases,
        then : Cases, cancelled : {FALSE}]
  \cup [op : Writes, by : {"left"}, of : Cases, then : Cases, cancelled : {FALSE}]

\* Types of the variables.
TypeOK ==
  /\ accepted \subseteq Keys /\ stored \in Keys \cup {None} /\ apiKey \in Keys \cup {None}
  /\ url \in Urls
  /\ connect \in [key : Keys \cup {None}, checking : BOOLEAN]
  /\ list \in [cases : Filters \cup {None}, error : BOOLEAN]
  /\ page \in [caseData : [id : Cases \cup {None}, confirmed : BOOLEAN],
               form : Cases \cup {None}, loadError : BOOLEAN,
               busy : SUBSET Writes]
  /\ DOMAIN calls \subseteq Slots
  /\ \A i \in DOMAIN calls : calls[i] \in CallRecords

\* A key is stored, and a tab connected with it, only after the API accepted
\* that very key, whatever is typed while it is being checked.
StoredKeyAccepted == {stored, apiKey} \subseteq accepted \cup {None}

\* When the queue awaits no answer and shows no error, its cases are the answer
\* to the filter in the URL, in whatever order the answers to earlier filters
\* arrive.
ListAnswersFilter ==
  Screen = "list" /\ ~list.error /\ (\A i \in DOMAIN calls : calls[i].op = "list" => Ignored(calls[i]))
    => list.cases = url.of

\* As long as the page stays mounted, a handler does not run a second time
\* while its request or the load after it is in flight: no double click, nor a
\* trip through the history to another case and back, saves twice or files two
\* reports.  Leaving the page and coming back does: what was left behind is
\* awaited by nobody and holds no flag.
OneAtATimeWhileMounted == \A op \in Writes : Cardinality(Awaited(op)) <= 1

\* What is saved goes to the case whose answer filled the form, also when an
\* answer for another case than that of the URL arrived last; and a report is
\* requested only for a case that was last seen resolved and confirmed.
WritesFollowAnswers ==
  [][\A i \in DOMAIN calls' \ DOMAIN calls :
       calls'[i].op \in Writes =>
         /\ calls'[i].of = page.form
         /\ calls'[i].op = "report" => page.caseData = [id |-> calls'[i].of, confirmed |-> TRUE]]_vars

\* A button that a handler has disabled is enabled again, unless the page is
\* left: failed requests and failed loads included.
BusyEnds == \A op \in Writes : op \in page.busy ~> op \notin page.busy
=============================================================================
