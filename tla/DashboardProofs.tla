--------------------------- MODULE DashboardProofs ---------------------------
(***************************************************************************)
(* Theorems about Dashboard, for any keys, filters and cases and any       *)
(* number of requests in flight.                                           *)
(*                                                                         *)
(* DashboardInv ties the requests in flight to the state of the page that  *)
(* awaits them: those of a handler to its flag, and the request of the     *)
(* queue that is not cancelled to the filter in the URL.  Writes that an   *)
(* unmounted page has left behind are tied to nothing.                     *)
(***************************************************************************)
EXTENDS Dashboard, FiniteSetTheorems, TLAPS

\* A request of the queue that is not cancelled asks for the filter shown.
CurrentListAsked ==
  Screen = "list" =>
    \A i \in DOMAIN calls : calls[i].op = "list" /\ ~calls[i].cancelled => calls[i].of = url.of

\* A handler that awaits an answer has set its flag, and awaits one only.
HandlersBusy ==
  /\ \A i \in DOMAIN calls : calls[i].by \in Writes => calls[i].by \in page.busy
  /\ \A i, k \in DOMAIN calls : calls[i].by \in Writes /\ calls[i].by = calls[k].by => i = k

\* setCaseData and setResolveForm are always called together.
FormOfCase == page.form = page.caseData.id

DashboardInv ==
  /\ TypeOK
  /\ StoredKeyAccepted
  /\ CurrentListAsked
  /\ ListAnswersFilter
  /\ HandlersBusy
  /\ FormOfCase

-----------------------------------------------------------------------------
\* A new request takes a free slot.
LEMMA NextSlotFree ==
  ASSUME NEW cs, Slots \ DOMAIN cs # {}
  PROVE  NextSlot(cs) \in Slots /\ NextSlot(cs) \notin DOMAIN cs
  BY DEF NextSlot

LEMMA MountingType ==
  ASSUME NEW u \in Urls
  PROVE  /\ Mounting(u) \in CallRecords
         /\ Mounting(u).op = u.page /\ Mounting(u).of = u.of
         /\ Mounting(u).by = "effect" /\ Mounting(u).cancelled = FALSE
  BY DEF Mounting, Call, Urls, CallRecords

\* Writes that nobody awaits.
LeftCall(call) == call \in CallRecords /\ call.op \in Writes /\ call.by = "left"

\* What is mounted starts afresh: only the key, the URL, the request of the
\* effect and what was left behind remain to be looked at.
Fresh ==
  /\ accepted \subseteq Keys /\ stored \in Keys \cup {None} /\ apiKey \in Keys \cup {None}
  /\ url \in Urls
  /\ StoredKeyAccepted
  /\ connect = NoConnect
  /\ list = NoList
  /\ page = NoPage
  /\ DOMAIN calls \subseteq Slots
  /\ IF apiKey = None THEN \A i \in DOMAIN calls : LeftCall(calls[i])
     ELSE \E slot \in DOMAIN calls : /\ calls[slot] = Mounting(url)
                                     /\ \A i \in DOMAIN calls \ {slot} : LeftCall(calls[i])

LEMMA FreshState == Fresh => DashboardInv
<1> SUFFICES ASSUME Fresh PROVE DashboardInv
  OBVIOUS
<1> USE DEF Fresh
<1>1. /\ connect \in [key : Keys \cup {None}, checking : BOOLEAN]
      /\ list \in [cases : Filters \cup {None}, error : BOOLEAN]
      /\ page \in [caseData : [id : Cases \cup {None}, confirmed : BOOLEAN],
                   form : Cases \cup {None}, loadError : BOOLEAN, busy : SUBSET Writes]
      /\ FormOfCase
  BY DEF NoConnect, NoList, NoPage, NoCase, FormOfCase
<1>2. ASSUME NEW call, LeftCall(call)
      PROVE  call \in CallRecords /\ call.op # "list" /\ call.by \notin Writes
  BY <1>2 DEF LeftCall, Writes
<1>3. CASE apiKey = None
  <2>1. Screen = "connect"
    BY <1>3 DEF Screen
  <2>2. \A i \in DOMAIN calls :
          calls[i] \in CallRecords /\ calls[i].op # "list" /\ calls[i].by \notin Writes
    BY <1>2, <1>3
  <2> QED
    BY <1>1, <2>1, <2>2
    DEF DashboardInv, TypeOK, CurrentListAsked, ListAnswersFilter, HandlersBusy
<1>4. CASE apiKey # None
  <2>1. PICK slot \in DOMAIN calls : /\ calls[slot] = Mounting(url)
                                    /\ \A i \in DOMAIN calls \ {slot} : LeftCall(calls[i])
    BY <1>4
  <2>2. /\ calls[slot] \in CallRecords /\ calls[slot].by = "effect"
        /\ calls[slot].op = url.page /\ calls[slot].of = url.of /\ ~calls[slot].cancelled
    BY <2>1, MountingType
  <2>3. \A i \in DOMAIN calls \ {slot} :
          calls[i] \in CallRecords /\ calls[i].op # "list" /\ calls[i].by \notin Writes
    BY <1>2, <2>1
  <2>4. Screen = url.page
    BY <1>4 DEF Screen
  <2>5. TypeOK
    BY <1>1, <2>2, <2>3 DEF TypeOK
  <2>6. CurrentListAsked /\ ListAnswersFilter
    BY <2>2, <2>3, <2>4 DEF CurrentListAsked, ListAnswersFilter, Ignored
  <2>7. HandlersBusy
    BY <2>2, <2>3 DEF HandlersBusy, Writes
  <2> QED
    BY <1>1, <2>5, <2>6, <2>7 DEF DashboardInv
<1> QED
  BY <1>3, <1>4

\* Mounting a page next to writes that were left behind.
LEMMA MountedCalls ==
  ASSUME NEW u \in Urls, NEW cs, DOMAIN cs \subseteq Slots, Slots \ DOMAIN cs # {},
         \A i \in DOMAIN cs : LeftCall(cs[i])
  PROVE  /\ DOMAIN With(cs, Mounting(u)) \subseteq Slots
         /\ \E slot \in DOMAIN With(cs, Mounting(u)) :
              /\ With(cs, Mounting(u))[slot] = Mounting(u)
              /\ \A i \in DOMAIN With(cs, Mounting(u)) \ {slot} :
                   LeftCall(With(cs, Mounting(u))[i])
<1> DEFINE slot == NextSlot(cs)
<1>1. slot \in Slots /\ slot \notin DOMAIN cs
  BY NextSlotFree
<1>2. With(cs, Mounting(u)) = [i \in DOMAIN cs \cup {slot} |->
                                 IF i = slot THEN Mounting(u) ELSE cs[i]]
  BY DEF With
<1> HIDE DEF slot
<1> QED
  BY <1>1, <1>2

LEMMA InitDashboard == Init => DashboardInv
<1> SUFFICES ASSUME Init PROVE DashboardInv
  OBVIOUS
<1>1. StoredKeyAccepted
  BY DEF Init, StoredKeyAccepted
<1>2. DOMAIN NoCalls = {}
  BY DEF NoCalls
<1>3. /\ DOMAIN calls \subseteq Slots
      /\ IF apiKey = None THEN \A i \in DOMAIN calls : LeftCall(calls[i])
         ELSE \E slot \in DOMAIN calls : /\ calls[slot] = Mounting(url)
                                         /\ \A i \in DOMAIN calls \ {slot} : LeftCall(calls[i])
  <2>1. CASE apiKey = None
    BY <1>2, <2>1 DEF Init
  <2>2. CASE apiKey # None
    <3>1. calls = With(NoCalls, Mounting(url)) /\ url \in Urls
      BY <2>2 DEF Init
    <3> QED
      BY <1>2, <2>2, <3>1, MountedCalls, SlotsAssumption
  <2> QED
    BY <2>1, <2>2
<1> QED
  BY <1>1, <1>3, FreshState DEF Init, Fresh

\* Only writes are left behind, and nobody awaits them.
LEMMA LeftBehindCalls ==
  ASSUME TypeOK
  PROVE  /\ DOMAIN LeftBehind \subseteq DOMAIN calls /\ DOMAIN LeftBehind \subseteq Slots
         /\ \A i \in DOMAIN LeftBehind : LeftCall(LeftBehind[i])
<1>1. DOMAIN LeftBehind = {k \in DOMAIN calls : calls[k].op \in Writes}
  BY DEF LeftBehind
<1>2. ASSUME NEW i \in DOMAIN LeftBehind PROVE LeftCall(LeftBehind[i])
  <2>1. calls[i] \in CallRecords /\ calls[i].op \in Writes
    BY <1>1 DEF TypeOK
  <2>2. LeftBehind[i] = [calls[i] EXCEPT !.by = "left"]
    BY <1>1 DEF LeftBehind
  <2> QED
    BY <2>1, <2>2 DEF LeftCall, CallRecords, Writes
<1> QED
  BY <1>1, <1>2 DEF TypeOK

LEMMA RemountKeeps ==
  ASSUME TypeOK, NEW key \in Keys \cup {None}, NEW u \in Urls, Remount(key, u),
         accepted' \subseteq Keys, stored' \in Keys \cup {None},
         {stored', key} \subseteq accepted' \cup {None}
  PROVE  DashboardInv'
<1>1. /\ apiKey' = key /\ url' = u
      /\ connect' = NoConnect /\ list' = NoList /\ page' = NoPage
      /\ key # None => Slots \ DOMAIN LeftBehind # {}
      /\ calls' = IF key = None THEN LeftBehind ELSE With(LeftBehind, Mounting(u))
  BY DEF Remount
<1>2. /\ DOMAIN calls' \subseteq Slots
      /\ IF apiKey' = None THEN \A i \in DOMAIN calls' : LeftCall(calls'[i])
         ELSE \E slot \in DOMAIN calls' : /\ calls'[slot] = Mounting(url')
                                          /\ \A i \in DOMAIN calls' \ {slot} : LeftCall(calls'[i])
  <2>1. CASE key = None
    BY <1>1, <2>1, LeftBehindCalls
  <2>2. CASE key # None
    BY <1>1, <2>2, LeftBehindCalls, MountedCalls
  <2> QED
    BY <2>1, <2>2
<1>3. Fresh'
  BY <1>1, <1>2
  DEF Fresh, StoredKeyAccepted, NoConnect, NoList, NoPage, NoCase, LeftCall, CallRecords, Writes,
      Mounting, Call
<1> QED
  BY <1>3, FreshState, PTL

-----------------------------------------------------------------------------
LEMMA TypeKeyKeeps ==
  ASSUME DashboardInv, NEW key \in Keys \cup {None}, TypeKey(key)
  PROVE  DashboardInv'
  BY DEF DashboardInv, TypeKey, TypeOK, StoredKeyAccepted, CurrentListAsked, ListAnswersFilter,
         HandlersBusy, FormOfCase, Screen, Ignored

\* The state of the calls after one more request.
LEMMA CallAdded ==
  ASSUME TypeOK, Free, NEW call \in CallRecords, calls' = With(calls, call)
  PROVE  \E slot \in Slots \ DOMAIN calls :
           /\ DOMAIN calls' = DOMAIN calls \cup {slot}
           /\ calls'[slot] = call
           /\ \A i \in DOMAIN calls : calls'[i] = calls[i]
           /\ DOMAIN calls' \subseteq Slots
           /\ \A i \in DOMAIN calls' : calls'[i] \in CallRecords
<1>1. NextSlot(calls) \in Slots /\ NextSlot(calls) \notin DOMAIN calls
  BY NextSlotFree DEF Free
<1> QED
  BY <1>1 DEF With, TypeOK

LEMMA SubmitKeyKeeps ==
  ASSUME DashboardInv, SubmitKey
  PROVE  DashboardInv'
<1> DEFINE call == Call("validate", "connect", connect.key, None)
<1> USE DEF DashboardInv
<1>1. call \in CallRecords /\ call.op = "validate" /\ call.by = "connect"
  BY DEF SubmitKey, TypeOK, Call, CallRecords
<1>2. Free /\ calls' = With(calls, call) /\ Screen = "connect" /\ Screen' = "connect"
  BY DEF SubmitKey, Screen
<1> HIDE DEF call
<1>3. PICK slot \in Slots \ DOMAIN calls :
        /\ DOMAIN calls' = DOMAIN calls \cup {slot}
        /\ calls'[slot] = call
        /\ \A i \in DOMAIN calls : calls'[i] = calls[i]
        /\ DOMAIN calls' \subseteq Slots
        /\ \A i \in DOMAIN calls' : calls'[i] \in CallRecords
  BY <1>1, <1>2, CallAdded
<1>4. TypeOK'
  BY <1>3 DEF SubmitKey, TypeOK
<1>5. HandlersBusy'
  BY <1>1, <1>3 DEF SubmitKey, HandlersBusy, Writes
<1>6. (CurrentListAsked /\ ListAnswersFilter /\ StoredKeyAccepted /\ FormOfCase)'
  BY <1>2 DEF SubmitKey, CurrentListAsked, ListAnswersFilter, StoredKeyAccepted, FormOfCase
<1> QED
  BY <1>4, <1>5, <1>6

\* A call that is answered for good leaves the others as they are.
LEMMA CallRemoved ==
  ASSUME TypeOK, NEW i \in DOMAIN calls, calls' = Without(i)
  PROVE  /\ DOMAIN calls' = DOMAIN calls \ {i}
         /\ \A k \in DOMAIN calls' : calls'[k] = calls[k]
         /\ DOMAIN calls' \subseteq Slots
         /\ \A k \in DOMAIN calls' : calls'[k] \in CallRecords
  BY DEF Without, TypeOK

LEMMA AnswerValidateKeeps ==
  ASSUME DashboardInv, NEW i \in DOMAIN calls, AnswerValidate(i)
  PROVE  DashboardInv'
<1> USE DEF DashboardInv
<1>1. calls[i].op = "validate" /\ calls[i].of \in Keys
  BY DEF AnswerValidate, TypeOK, CallRecords, Writes
<1>2. CASE /\ accepted' = accepted \cup {calls[i].of}
           /\ stored' = CheckedKey(i)
           /\ Remount(CheckedKey(i), url)
  <2>1. CheckedKey(i) \in Keys /\ url \in Urls
    BY <1>1 DEF CheckedKey, TypeOK
  <2>2. accepted' \subseteq Keys /\ {stored', CheckedKey(i)} \subseteq accepted'
    BY <1>1, <1>2 DEF CheckedKey, TypeOK
  <2> QED
    BY <1>2, <2>1, <2>2, RemountKeeps
<1>3. CASE /\ connect' = [connect EXCEPT !.checking = FALSE]
           /\ calls' = Without(i)
           /\ UNCHANGED <<stored, accepted, apiKey, url, list, page>>
  <2>1. /\ DOMAIN calls' = DOMAIN calls \ {i}
        /\ \A k \in DOMAIN calls' : calls'[k] = calls[k]
        /\ DOMAIN calls' \subseteq Slots
        /\ \A k \in DOMAIN calls' : calls'[k] \in CallRecords
    BY <1>3, CallRemoved
  <2>2. TypeOK'
    BY <1>3, <2>1 DEF TypeOK
  <2>3. HandlersBusy'
    BY <1>3, <2>1 DEF HandlersBusy
  <2>4. (CurrentListAsked /\ ListAnswersFilter)'
    BY <1>1, <1>3, <2>1 DEF CurrentListAsked, ListAnswersFilter, Screen, Ignored
  <2>5. (StoredKeyAccepted /\ FormOfCase)'
    BY <1>3 DEF StoredKeyAccepted, FormOfCase
  <2> QED
    BY <2>2, <2>3, <2>4, <2>5
<1> QED
  BY <1>2, <1>3 DEF AnswerValidate

-----------------------------------------------------------------------------
\* The effect of the old filter cancels its request, so the only one that is
\* not cancelled asks for the new filter.
LEMMA ChangeFilterKeeps ==
  ASSUME DashboardInv, NEW f \in Filters, ChangeFilter(f)
  PROVE  DashboardInv'
<1> DEFINE u == [url EXCEPT !.of = f]
           cs == [i \in DOMAIN calls |-> [calls[i] EXCEPT !.cancelled = @ \/ calls[i].op = "list"]]
           slot == NextSlot(cs)
<1> USE DEF DashboardInv
<1>1. Screen = "list" /\ apiKey # None /\ url.page = "list"
  BY DEF ChangeFilter, Screen, TypeOK, Urls
<1>2. u \in Urls /\ u.page = "list" /\ u.of = f
  BY <1>1 DEF TypeOK, Urls
<1>3. DOMAIN cs = DOMAIN calls /\ slot \in Slots /\ slot \notin DOMAIN calls
  BY NextSlotFree DEF ChangeFilter, Free
<1>4. \A i \in DOMAIN cs : /\ cs[i] \in CallRecords
                           /\ cs[i].op = calls[i].op /\ cs[i].by = calls[i].by
                           /\ cs[i].of = calls[i].of
                           /\ cs[i].op = "list" => cs[i].cancelled
  <2> TAKE i \in DOMAIN cs
  <2>1. calls[i] \in CallRecords /\ cs[i] = [calls[i] EXCEPT !.cancelled = @ \/ calls[i].op = "list"]
    BY DEF TypeOK
  <2>2. CASE calls[i].op = "list"
    BY <2>1, <2>2 DEF CallRecords, Writes
  <2>3. CASE calls[i].op # "list"
    BY <2>1, <2>3 DEF CallRecords, Writes
  <2> QED
    BY <2>2, <2>3
<1>5. url' = u /\ calls' = With(cs, Mounting(u))
  BY DEF ChangeFilter
<1> HIDE DEF cs, u, slot
<1>6. /\ DOMAIN calls' = DOMAIN cs \cup {slot} /\ calls'[slot] = Mounting(u)
      /\ \A i \in DOMAIN cs : calls'[i] = cs[i]
  BY <1>3, <1>5 DEF With, slot
<1>7. /\ Mounting(u) \in CallRecords /\ Mounting(u).op = "list" /\ Mounting(u).of = f
      /\ Mounting(u).by = "effect" /\ ~Mounting(u).cancelled
  BY <1>2, MountingType
<1>8. TypeOK'
  BY <1>2, <1>3, <1>4, <1>5, <1>6, <1>7 DEF TypeOK, ChangeFilter
<1>9. HandlersBusy'
  <2>1. \A i \in DOMAIN calls' : calls'[i].by \in Writes =>
          i \in DOMAIN calls /\ calls'[i].by = calls[i].by
    BY <1>3, <1>4, <1>6, <1>7 DEF Writes
  <2>2. page' = page
    BY DEF ChangeFilter
  <2> QED
    BY <2>1, <2>2 DEF HandlersBusy
<1>10. (CurrentListAsked /\ ListAnswersFilter)'
  BY <1>2, <1>3, <1>4, <1>5, <1>6, <1>7 DEF CurrentListAsked, ListAnswersFilter, Ignored
<1>11. (StoredKeyAccepted /\ FormOfCase)'
  BY DEF ChangeFilter, StoredKeyAccepted, FormOfCase
<1> QED
  BY <1>8, <1>9, <1>10, <1>11

LEMMA AnswerListKeeps ==
  ASSUME DashboardInv, NEW i \in DOMAIN calls, AnswerList(i)
  PROVE  DashboardInv'
<1> USE DEF DashboardInv
<1>1. calls[i].op = "list" /\ calls[i].of \in Filters
  BY DEF AnswerList, TypeOK, CallRecords, Writes
<1>2. /\ DOMAIN calls' = DOMAIN calls \ {i}
      /\ \A k \in DOMAIN calls' : calls'[k] = calls[k]
      /\ DOMAIN calls' \subseteq Slots
      /\ \A k \in DOMAIN calls' : calls'[k] \in CallRecords
  BY CallRemoved DEF AnswerList
<1>3. /\ Ignored(calls[i]) => list' = list
      /\ ~Ignored(calls[i]) => \/ list' = [list EXCEPT !.cases = calls[i].of]
                               \/ list' = [list EXCEPT !.error = TRUE]
  BY DEF AnswerList
<1>4. TypeOK'
  BY <1>1, <1>2, <1>3 DEF TypeOK, AnswerList
<1>5. HandlersBusy'
  BY <1>2 DEF HandlersBusy, AnswerList
<1>6. CurrentListAsked'
  BY <1>2 DEF CurrentListAsked, AnswerList, Screen
<1>7. ListAnswersFilter'
  BY <1>1, <1>2, <1>3
  DEF ListAnswersFilter, CurrentListAsked, AnswerList, Screen, Ignored, TypeOK
<1>8. (StoredKeyAccepted /\ FormOfCase)'
  BY DEF AnswerList, StoredKeyAccepted, FormOfCase
<1> QED
  BY <1>4, <1>5, <1>6, <1>7, <1>8

-----------------------------------------------------------------------------
LEMMA GoToCaseKeeps ==
  ASSUME DashboardInv, NEW c \in Cases, GoToCase(c)
  PROVE  DashboardInv'
<1> DEFINE u == [url EXCEPT !.of = c]
<1> USE DEF DashboardInv
<1>1. Screen = "case" /\ apiKey # None /\ url.page = "case"
  BY DEF GoToCase, Screen, TypeOK, Urls
<1>2. u \in Urls /\ u.page = "case" /\ u.of = c
  BY <1>1 DEF TypeOK, Urls
<1>3. url' = u /\ calls' = With(calls, Mounting(u)) /\ Free
  BY DEF GoToCase
<1> HIDE DEF u
<1>4. Mounting(u) \in CallRecords /\ Mounting(u).op = "case" /\ Mounting(u).by = "effect"
  BY <1>2, MountingType
<1>5. PICK slot \in Slots \ DOMAIN calls :
        /\ DOMAIN calls' = DOMAIN calls \cup {slot}
        /\ calls'[slot] = Mounting(u)
        /\ \A i \in DOMAIN calls : calls'[i] = calls[i]
        /\ DOMAIN calls' \subseteq Slots
        /\ \A i \in DOMAIN calls' : calls'[i] \in CallRecords
  BY <1>3, <1>4, CallAdded
<1>6. TypeOK'
  BY <1>2, <1>3, <1>5 DEF TypeOK, GoToCase
<1>7. HandlersBusy'
  BY <1>4, <1>5 DEF HandlersBusy, GoToCase, Writes
<1>8. (CurrentListAsked /\ ListAnswersFilter)'
  BY <1>2, <1>3, <1>1 DEF CurrentListAsked, ListAnswersFilter, Screen, GoToCase
<1>9. (StoredKeyAccepted /\ FormOfCase)'
  BY DEF GoToCase, StoredKeyAccepted, FormOfCase
<1> QED
  BY <1>6, <1>7, <1>8, <1>9

\* A handler starts only when its flag is not set, so it awaits nothing yet.
LEMMA WriteKeeps ==
  ASSUME DashboardInv, NEW op \in Writes, Write(op)
  PROVE  DashboardInv'
<1> DEFINE call == Call(op, op, Target, url.of)
<1> USE DEF DashboardInv
<1>1. Screen = "case" /\ apiKey # None /\ url.page = "case" /\ url.of \in Cases
  BY DEF Write, Screen, TypeOK, Urls
<1>2. /\ op \notin page.busy
      /\ page' = [page EXCEPT !.busy = @ \cup {op}] /\ calls' = With(calls, call) /\ Free
  BY DEF Write, MayWrite
<1>3. Target \in Cases
  BY DEF Write, MayWrite, Target, TypeOK
<1>4. call \in CallRecords /\ call.op = op /\ call.by = op
  BY <1>1, <1>3 DEF Call, CallRecords
<1> HIDE DEF call
<1>5. PICK slot \in Slots \ DOMAIN calls :
        /\ DOMAIN calls' = DOMAIN calls \cup {slot}
        /\ calls'[slot] = call
        /\ \A i \in DOMAIN calls : calls'[i] = calls[i]
        /\ DOMAIN calls' \subseteq Slots
        /\ \A i \in DOMAIN calls' : calls'[i] \in CallRecords
  BY <1>2, <1>4, CallAdded
<1>6. TypeOK'
  BY <1>2, <1>5 DEF TypeOK, Write
<1>7. HandlersBusy'
  BY <1>2, <1>4, <1>5 DEF HandlersBusy, TypeOK
<1>8. (CurrentListAsked /\ ListAnswersFilter)'
  BY <1>1 DEF CurrentListAsked, ListAnswersFilter, Screen, Write
<1>9. (StoredKeyAccepted /\ FormOfCase)'
  BY <1>2 DEF Write, StoredKeyAccepted, FormOfCase, TypeOK
<1> QED
  BY <1>6, <1>7, <1>8, <1>9

\* What the answers to the requests of the case page have in common: a request
\* goes on as another one of the same handler, or it is over and, with it, its
\* handler's flag is reset.
CaseAnswered(i) ==
  /\ \/ /\ DOMAIN calls' = DOMAIN calls
        /\ \A k \in DOMAIN calls \ {i} : calls'[k] = calls[k]
        /\ calls'[i] \in CallRecords /\ calls'[i].by = calls[i].by /\ calls'[i].op # "list"
        /\ page'.busy = page.busy
     \/ /\ calls' = Without(i)
        /\ page'.busy = page.busy \ {calls[i].by}
  /\ page' \in [caseData : [id : Cases \cup {None}, confirmed : BOOLEAN],
                form : Cases \cup {None}, loadError : BOOLEAN, busy : SUBSET Writes]
  /\ FormOfCase'
  /\ UNCHANGED <<stored, accepted, apiKey, url, connect, list>>

LEMMA CaseAnsweredKeeps ==
  ASSUME DashboardInv, NEW i \in DOMAIN calls, calls[i].op # "list", CaseAnswered(i)
  PROVE  DashboardInv'
<1> USE DEF DashboardInv
<1>1. CASE /\ DOMAIN calls' = DOMAIN calls
           /\ \A k \in DOMAIN calls \ {i} : calls'[k] = calls[k]
           /\ calls'[i] \in CallRecords /\ calls'[i].by = calls[i].by /\ calls'[i].op # "list"
           /\ page'.busy = page.busy
  <2>1. TypeOK'
    BY <1>1 DEF TypeOK, CaseAnswered
  <2>2. HandlersBusy'
    BY <1>1 DEF HandlersBusy
  <2>3. (CurrentListAsked /\ ListAnswersFilter)'
    BY <1>1 DEF CurrentListAsked, ListAnswersFilter, Screen, Ignored, CaseAnswered
  <2>4. (StoredKeyAccepted /\ FormOfCase)'
    BY DEF CaseAnswered, StoredKeyAccepted
  <2> QED
    BY <2>1, <2>2, <2>3, <2>4
<1>2. CASE calls' = Without(i) /\ page'.busy = page.busy \ {calls[i].by}
  <2>1. /\ DOMAIN calls' = DOMAIN calls \ {i}
        /\ \A k \in DOMAIN calls' : calls'[k] = calls[k]
        /\ DOMAIN calls' \subseteq Slots
        /\ \A k \in DOMAIN calls' : calls'[k] \in CallRecords
    BY <1>2, CallRemoved
  <2>2. TypeOK'
    BY <2>1 DEF TypeOK, CaseAnswered
  <2>3. HandlersBusy'
    BY <1>2, <2>1 DEF HandlersBusy
  <2>4. (CurrentListAsked /\ ListAnswersFilter)'
    BY <2>1 DEF CurrentListAsked, ListAnswersFilter, Screen, Ignored, CaseAnswered
  <2>5. (StoredKeyAccepted /\ FormOfCase)'
    BY DEF CaseAnswered, StoredKeyAccepted
  <2> QED
    BY <2>2, <2>3, <2>4, <2>5
<1> QED
  BY <1>1, <1>2 DEF CaseAnswered

LEMMA AnswerWriteKeeps ==
  ASSUME DashboardInv, NEW i \in DOMAIN calls, AnswerWrite(i)
  PROVE  DashboardInv'
<1> USE DEF DashboardInv
<1>1. /\ calls[i].op \in Writes /\ calls[i] \in CallRecords /\ calls[i].then \in Cases
      /\ calls[i].by # "left"
  BY DEF AnswerWrite, TypeOK, CallRecords, Writes
<1>2. CASE /\ calls' = [calls EXCEPT ![i].op = "case", ![i].of = calls[i].then]
           /\ page' = Reloading(page, calls[i].by)
  <2>1. /\ DOMAIN calls' = DOMAIN calls
        /\ \A k \in DOMAIN calls \ {i} : calls'[k] = calls[k]
        /\ calls'[i] = [calls[i] EXCEPT !.op = "case", !.of = calls[i].then]
    BY <1>2
  <2>2. calls'[i] \in CallRecords /\ calls'[i].by = calls[i].by /\ calls'[i].op # "list"
    BY <1>1, <2>1 DEF CallRecords, Writes
  <2>3. page' = page
    BY <1>2 DEF Reloading
  <2> QED
    BY <1>1, <2>1, <2>2, <2>3, CaseAnsweredKeeps
    DEF CaseAnswered, AnswerWrite, TypeOK, FormOfCase, Writes
<1>3. CASE calls' = Without(i) /\ page' = Finished(page, calls[i].by, FALSE)
  BY <1>1, <1>3, CaseAnsweredKeeps
  DEF CaseAnswered, AnswerWrite, TypeOK, FormOfCase, Finished, Writes
<1> QED
  BY <1>2, <1>3 DEF AnswerWrite

\* What was left behind is awaited by no handler of the page.
LEMMA AnswerLeftKeeps ==
  ASSUME DashboardInv, NEW i \in DOMAIN calls, AnswerLeft(i)
  PROVE  DashboardInv'
<1> USE DEF DashboardInv
<1>1. calls[i].op # "list" /\ calls[i].by \notin Writes
  BY DEF AnswerLeft, TypeOK, CallRecords, Writes
<1>2. page.busy = page.busy \ {calls[i].by}
  BY <1>1 DEF TypeOK
<1> QED
  BY <1>1, <1>2, CaseAnsweredKeeps DEF CaseAnswered, AnswerLeft, TypeOK, FormOfCase

LEMMA LoadFailedKeeps ==
  ASSUME DashboardInv, NEW i \in DOMAIN calls, calls[i].op # "list", LoadFailed(i),
         UNCHANGED <<stored, accepted, apiKey, url, connect, list>>
  PROVE  DashboardInv'
  BY CaseAnsweredKeeps
  DEF DashboardInv, CaseAnswered, LoadFailed, Finished, TypeOK, FormOfCase

LEMMA AnswerCaseKeeps ==
  ASSUME DashboardInv, NEW i \in DOMAIN calls, AnswerCase(i)
  PROVE  DashboardInv'
<1> USE DEF DashboardInv
<1>1. calls[i].op = "case" /\ calls[i] \in CallRecords /\ calls[i].of \in Cases
  BY DEF AnswerCase, TypeOK, CallRecords, Writes
<1>2. ASSUME NEW confirmed \in BOOLEAN,
             calls' = [calls EXCEPT ![i].op = "sections"],
             page' = [page EXCEPT !.caseData = [id |-> calls[i].of, confirmed |-> confirmed],
                                  !.form = calls[i].of]
      PROVE  DashboardInv'
  <2>1. /\ DOMAIN calls' = DOMAIN calls
        /\ \A k \in DOMAIN calls \ {i} : calls'[k] = calls[k]
        /\ calls'[i] = [calls[i] EXCEPT !.op = "sections"]
    BY <1>2
  <2>2. calls'[i] \in CallRecords /\ calls'[i].by = calls[i].by /\ calls'[i].op # "list"
    BY <1>1, <2>1 DEF CallRecords, Writes
  <2>3. /\ page' \in [caseData : [id : Cases \cup {None}, confirmed : BOOLEAN],
                      form : Cases \cup {None}, loadError : BOOLEAN, busy : SUBSET Writes]
        /\ page'.busy = page.busy /\ FormOfCase'
    BY <1>1, <1>2 DEF TypeOK, FormOfCase
  <2> QED
    BY <1>1, <2>1, <2>2, <2>3, CaseAnsweredKeeps DEF CaseAnswered, AnswerCase
<1> QED
  BY <1>1, <1>2, LoadFailedKeeps DEF AnswerCase

LEMMA AnswerSectionsKeeps ==
  ASSUME DashboardInv, NEW i \in DOMAIN calls, AnswerSections(i)
  PROVE  DashboardInv'
<1> USE DEF DashboardInv
<1>1. calls[i].op # "list"
  BY DEF AnswerSections
<1>2. CASE calls' = Without(i) /\ page' = Finished(page, calls[i].by, TRUE)
  BY <1>1, <1>2, CaseAnsweredKeeps
  DEF CaseAnswered, AnswerSections, TypeOK, FormOfCase, Finished
<1> QED
  BY <1>1, <1>2, LoadFailedKeeps DEF AnswerSections

-----------------------------------------------------------------------------
LEMMA LeavingKeeps ==
  ASSUME DashboardInv,
         (\E u \in Urls : Navigate(u)) \/ Disconnect \/ Reload
  PROVE  DashboardInv'
<1> USE DEF DashboardInv, TypeOK, StoredKeyAccepted
<1>1. ASSUME NEW u \in Urls, Navigate(u) PROVE DashboardInv'
  BY <1>1, RemountKeeps DEF Navigate
<1>2. CASE Disconnect
  BY <1>2, RemountKeeps DEF Disconnect
<1>3. CASE Reload
  BY <1>3, RemountKeeps DEF Reload
<1> QED
  BY <1>1, <1>2, <1>3

LEMMA OtherTabKeeps ==
  ASSUME DashboardInv, NEW key \in Keys \cup {None}, OtherTab(key)
  PROVE  DashboardInv'
  BY DEF DashboardInv, OtherTab, TypeOK, StoredKeyAccepted, CurrentListAsked,
         ListAnswersFilter, HandlersBusy, FormOfCase, Screen, Ignored

LEMMA StepDashboard == DashboardInv /\ [Next]_vars => DashboardInv'
<1> SUFFICES ASSUME DashboardInv, [Next]_vars PROVE DashboardInv'
  OBVIOUS
<1>1. CASE UNCHANGED vars
  BY <1>1
  DEF vars, DashboardInv, TypeOK, StoredKeyAccepted, CurrentListAsked, ListAnswersFilter,
      HandlersBusy, FormOfCase, Screen, Ignored
<1>2. ASSUME NEW i \in DOMAIN calls, Answer(i) PROVE DashboardInv'
  BY <1>2, AnswerValidateKeeps, AnswerListKeeps, AnswerWriteKeeps, AnswerLeftKeeps,
     AnswerCaseKeeps, AnswerSectionsKeeps DEF Answer
<1> QED
  BY <1>1, <1>2, TypeKeyKeeps, SubmitKeyKeeps, ChangeFilterKeeps, GoToCaseKeeps, WriteKeeps,
     LeavingKeeps, OtherTabKeeps DEF Next

\* The inductive invariant holds in every reachable state: what is in flight
\* belongs to what the page shows and to the flags it has set.
THEOREM DashboardInvariant == Spec => []DashboardInv
<1> QED
  BY InitDashboard, StepDashboard, PTL DEF Spec

\* Every variable keeps its type.
THEOREM TypeCorrect == Spec => []TypeOK
<1>1. DashboardInv => TypeOK
  BY DEF DashboardInv
<1> QED
  BY <1>1, DashboardInvariant, PTL

-----------------------------------------------------------------------------
\* ConnectScreen.handleSubmit: no key is stored, and no tab connected with one,
\* that the API has not accepted.
THEOREM StoredKeysAlwaysAccepted == Spec => []StoredKeyAccepted
<1>1. DashboardInv => StoredKeyAccepted
  BY DEF DashboardInv
<1> QED
  BY <1>1, DashboardInvariant, PTL

\* The cancelled flag of CaseListPage: the queue never settles on the answer to
\* an earlier filter.
THEOREM ListAlwaysAnswersFilter == Spec => []ListAnswersFilter
<1>1. DashboardInv => ListAnswersFilter
  BY DEF DashboardInv
<1> QED
  BY <1>1, DashboardInvariant, PTL

\* resolving, addingNote and generatingReport: as long as the page stays
\* mounted, no handler of it runs twice at a time, whatever writes an earlier
\* visit has left behind.
THEOREM HandlersAloneWhileMounted == Spec => []OneAtATimeWhileMounted
<1>1. DashboardInv => OneAtATimeWhileMounted
  <2> SUFFICES ASSUME DashboardInv, NEW op \in Writes PROVE Cardinality(Awaited(op)) <= 1
    BY DEF OneAtATimeWhileMounted
  <2>1. CASE Awaited(op) = {}
    BY <2>1, FS_EmptySet
  <2>2. ASSUME NEW i \in Awaited(op) PROVE Cardinality(Awaited(op)) <= 1
    <3>1. Awaited(op) = {i}
      BY DEF Awaited, DashboardInv, HandlersBusy
    <3>2. Cardinality({i}) = 1
      BY FS_Singleton
    <3>3. Cardinality(Awaited(op)) = 1
      BY <3>1, <3>2, Zenon
    <3> QED
      BY <3>3
  <2> QED
    BY <2>1, <2>2
<1> QED
  BY <1>1, DashboardInvariant, PTL

\* A new write is the request of a handler: every other step sends something
\* else or nothing.
LEMMA NewWrites ==
  ASSUME DashboardInv, Next, NEW i \in DOMAIN calls' \ DOMAIN calls, calls'[i].op \in Writes
  PROVE  /\ calls'[i].of = page.form
         /\ calls'[i].op = "report" => page.caseData = [id |-> calls'[i].of, confirmed |-> TRUE]
<1> USE DEF DashboardInv
<1>1. ASSUME NEW op \in Writes, Write(op)
      PROVE  /\ calls'[i].of = page.form
             /\ calls'[i].op = "report" => page.caseData = [id |-> calls'[i].of, confirmed |-> TRUE]
  <2>1. calls'[i] = Call(op, op, Target, url.of)
    BY <1>1 DEF Write, With
  <2>2. calls'[i].of = page.caseData.id /\ calls'[i].op = op
    BY <2>1 DEF Call, Target
  <2> QED
    BY <1>1, <2>2 DEF Write, MayWrite, FormOfCase, TypeOK
<1>2. ASSUME NEW key, NEW u \in Urls, Remount(key, u) PROVE FALSE
  <2>1. DOMAIN LeftBehind \subseteq DOMAIN calls
    BY LeftBehindCalls
  <2>2. calls' = With(LeftBehind, Mounting(u))
    BY <1>2, <2>1 DEF Remount
  <2>3. calls'[i] = Mounting(u)
    BY <2>1, <2>2 DEF With
  <2> QED
    BY <2>3, MountingType DEF Urls, Writes
<1>3. ASSUME NEW key, TypeKey(key) \/ OtherTab(key) PROVE FALSE
  BY <1>3 DEF TypeKey, OtherTab
<1>4. CASE SubmitKey
  BY <1>4 DEF SubmitKey, With, Call, Writes
<1>5. ASSUME NEW f \in Filters, ChangeFilter(f) PROVE FALSE
  BY <1>5 DEF ChangeFilter, With, Mounting, Call, Writes, Screen
<1>6. ASSUME NEW c \in Cases, GoToCase(c) PROVE FALSE
  BY <1>6 DEF GoToCase, With, Mounting, Call, Writes, Screen
<1>7. ASSUME NEW k \in DOMAIN calls, Answer(k), ~AnswerValidate(k) PROVE FALSE
  BY <1>7
  DEF Answer, AnswerList, AnswerWrite, AnswerLeft, AnswerCase, AnswerSections, LoadFailed, Without
<1>8. ASSUME NEW k \in DOMAIN calls, AnswerValidate(k) PROVE FALSE
  BY <1>2, <1>8 DEF AnswerValidate, Without, TypeOK
<1>9. ASSUME (\E u \in Urls : Navigate(u)) \/ Disconnect \/ Reload PROVE FALSE
  BY <1>2, <1>9 DEF Navigate, Disconnect, Reload, TypeOK
<1> QED
  BY <1>1, <1>3, <1>4, <1>5, <1>6, <1>7, <1>8, <1>9 DEF Next

\* handleResolveSubmit and its siblings write the case that filled the form,
\* whatever the URL says by then; a report is only asked for a confirmed case.
THEOREM WritesAlwaysFollowAnswers == Spec => WritesFollowAnswers
<1>1. DashboardInv /\ [Next]_vars =>
        [\A i \in DOMAIN calls' \ DOMAIN calls :
           calls'[i].op \in Writes =>
             /\ calls'[i].of = page.form
             /\ calls'[i].op = "report" => page.caseData = [id |-> calls'[i].of, confirmed |-> TRUE]]_vars
  BY NewWrites
<1> QED
  BY <1>1, DashboardInvariant, PTL DEF Spec, WritesFollowAnswers
=============================================================================
