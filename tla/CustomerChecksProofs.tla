------------------------ MODULE CustomerChecksProofs ------------------------
(***************************************************************************)
(* Theorems about CustomerChecks, for any tenants, customers, watch list,  *)
(* thresholds, identifiers, peppers and requests.                          *)
(*                                                                         *)
(* Every row a request is going to commit, or has committed, is sound: it  *)
(* says what the provider answers for the inputs recorded in it.  A        *)
(* request's row speaks of a committed customer of its tenant; its case is *)
(* there exactly when it may commit; its primary key is nobody else's.     *)
(***************************************************************************)
EXTENDS CustomerChecks, SequenceTheorems, WellFoundedInduction, TLAPS

-----------------------------------------------------------------------------
\* The provider.

LEMMA ScoreRange ==
  ASSUME NEW name \in Names, NEW e \in Entries
  PROVE  Score(name, e) \in Scores
<1>1. Similarity[name][e] \in Nat /\ Similarity[name][e] <= 10000
  BY NamesAssumption
<1>2. ASSUME NEW n \in Nat, n <= 10000
      PROVE  Rounded(n) \in Nat /\ Rounded(n) <= 1000
  BY <1>2 DEF Rounded
<1>3. Score(name, e) \in Nat /\ Score(name, e) <= 1000
  BY <1>1, <1>2 DEF Score
<1> QED
  BY <1>3 DEF Scores

LEMMA ScoresNat == Scores \subseteq Nat
BY DEF Scores

\* A set of scores has a largest member.
LEMMA LargestScore ==
  ASSUME NEW S \in SUBSET Scores, S # {}
  PROVE  \E s \in S : \A q \in S : s >= q
<1> DEFINE D == {1000 - s : s \in S}
<1>1. D \subseteq Nat /\ D # {}
  <2>1. \A s \in S : 1000 - s \in Nat
    BY DEF Scores
  <2> QED
    BY <2>1
<1>2. PICK d \in D : \A q \in D : <<q, d>> \notin OpToRel(<, Nat)
  <2> HIDE DEF D
  <2> QED
    BY <1>1, WFMin, NatLessThanWellFounded, Zenon
<1>3. \A q \in D : ~(q < d)
  BY <1>1, <1>2, Zenon DEF OpToRel
<1>4. PICK s \in S : d = 1000 - s
  OBVIOUS
<1>5. \A q \in S : s >= q
  <2> TAKE q \in S
  <2>1. ~(1000 - q < 1000 - s)
    BY <1>3, <1>4
  <2> QED
    BY <2>1 DEF Scores
<1> QED
  BY <1>5

LEMMA HighestScoreIsMax ==
  ASSUME NEW name \in Names
  PROVE  /\ HighestScore(name) \in Scores
         /\ \E e \in Entries : HighestScore(name) = Score(name, e)
         /\ \A e \in Entries : HighestScore(name) >= Score(name, e)
<1> DEFINE S == {Score(name, e) : e \in Entries}
<1>1. S \in SUBSET Scores /\ S # {}
  BY ScoreRange, NamesAssumption
<1>2. \E s \in S : \A q \in S : s >= q
  BY <1>1, LargestScore
<1>3. HighestScore(name) \in S /\ \A e \in Entries : HighestScore(name) >= Score(name, e)
  BY <1>2 DEF HighestScore
<1> QED
  BY <1>1, <1>3

\* MockWatchlistProvider.screen: its verdict is that of the highest score.
LEMMA ScreenedVerdict ==
  ASSUME NEW name \in Names, NEW threshold \in Thresholds
  PROVE  LET result == Screened(name, threshold)
         IN /\ result.status \in {"clear", "potential_match", "error"}
            /\ result.hits \in SUBSET [name : Entries, score : Scores]
            /\ result.highest_score \in Scores \cup {None}
            /\ result.status = "error" <=> result.highest_score = None
            /\ result.status # "error" =>
                 /\ result.status = "potential_match" <=> result.highest_score >= threshold
                 /\ result.status = "potential_match" <=>
                      \E h \in result.hits : h.score = result.highest_score
            /\ \A h \in result.hits : h.score >= threshold
<1> DEFINE result == Screened(name, threshold)
           hits == {e \in Entries : Hit(name, e, threshold)}
           hitRecords == {[name |-> e, score |-> Score(name, e)] : e \in hits}
<1>1. CASE name = ErrorName
  <2>1. result = [status |-> "error", hits |-> {}, highest_score |-> None]
    BY <1>1 DEF Screened
  <2> QED
    BY <2>1
<1>2. CASE name # ErrorName
  <2>1. /\ result.status = IF hits # {} THEN "potential_match" ELSE "clear"
        /\ result.hits = hitRecords
        /\ result.highest_score = HighestScore(name)
    BY <1>2 DEF Screened
  <2>2. HighestScore(name) \in Scores /\ HighestScore(name) # None
    BY HighestScoreIsMax, NoneAssumption DEF Scores
  <2>3. hitRecords \in SUBSET [name : Entries, score : Scores]
    BY ScoreRange
  <2>4. threshold \in Nat
    BY NamesAssumption
  <2>5. \A h \in hitRecords : h.score >= threshold
    BY DEF Hit
  <2>6. PICK e \in Entries : HighestScore(name) = Score(name, e)
    BY HighestScoreIsMax
  <2>7. hits # {} => HighestScore(name) >= threshold
    <3> SUFFICES ASSUME NEW h \in hits PROVE HighestScore(name) >= threshold
      OBVIOUS
    <3>1. HighestScore(name) >= Score(name, h) /\ Score(name, h) >= threshold
      BY HighestScoreIsMax DEF Hit
    <3>2. Score(name, h) \in Scores
      BY ScoreRange
    <3> HIDE DEF hits
    <3>3. Score(name, h) \in Nat /\ HighestScore(name) \in Nat
      BY <2>2, <3>2, ScoresNat
    <3> QED
      BY <2>4, <3>1, <3>3
  <2>8. HighestScore(name) >= threshold => e \in hits
    BY <2>6 DEF Hit
  <2>9. e \in hits => \E h \in hitRecords : h.score = HighestScore(name)
    <3> SUFFICES ASSUME e \in hits PROVE \E h \in hitRecords : h.score = HighestScore(name)
      OBVIOUS
    <3>1. [name |-> e, score |-> Score(name, e)] \in hitRecords
      OBVIOUS
    <3> HIDE DEF hitRecords
    <3> QED
      BY <2>6, <3>1
  <2>10. (\E h \in hitRecords : h.score = HighestScore(name)) => hits # {}
    OBVIOUS
  <2> HIDE DEF hits, hitRecords, result
  <2> QED
    BY <2>1, <2>2, <2>3, <2>5, <2>7, <2>8, <2>9, <2>10 DEF result
<1> QED
  BY <1>1, <1>2

-----------------------------------------------------------------------------
\* What a row of checks says is what the provider answers for its inputs.
SoundScreening(row) ==
  /\ row \in Screenings
  /\ LET result == Screened(row.screened_name, row.match_threshold)
     IN /\ row.status = result.status
        /\ row.hits = result.hits
        /\ row.highest_score = result.highest_score

SoundVerification(row) ==
  /\ row \in Verifications
  /\ \E value \in Identifiers, pepper \in Peppers :
       LET result == Verified(row.identifier_type, value)
       IN /\ row.identifier_hash = <<pepper, value>>
          /\ row.identifier_last4 = LastFour[value]
          /\ row.status = result.status
          /\ row.profile_data = result.profile

SoundRow(row) == SoundScreening(row) \/ SoundVerification(row)

\* Every identifier hash stands for one identifier.
LEMMA SoundRepeats ==
  ASSUME NEW a, NEW b, SoundVerification(a), SoundVerification(b),
         a.identifier_hash = b.identifier_hash, a.identifier_type = b.identifier_type
  PROVE  /\ a.status = b.status
         /\ a.identifier_last4 = b.identifier_last4
         /\ a.profile_data = b.profile_data
  BY DEF SoundVerification

-----------------------------------------------------------------------------
\* The requests.

CustomerJobs == [op : {"customer"}, tenant : Tenants, id : Customers,
                 row : [tenant : Tenants, full_name : Names \cup {BlankName}]]
CheckJobs == [op : {"check"}, tenant : Tenants, id : Checks,
              row : Screenings \cup Verifications, opened : Seq(OpenedCases)]
Jobs == {NoJob} \cup CustomerJobs \cup CheckJobs

JobsTyped == /\ job \in [Requests -> Jobs]
             /\ \A r \in Requests : phase[r] = "idle" <=> job[r].op = "none"

\* A key that is going to be inserted is neither stored nor anybody else's.
FreshFor(r, j) ==
  /\ j.op = "customer" =>
       /\ j.id \notin DOMAIN customers
       /\ \A q \in Requests \ {r} : job[q].op = "customer" => job[q].id # j.id
  /\ j.op = "check" =>
       /\ j.id \notin DOMAIN checks
       /\ \A q \in Requests \ {r} : job[q].op = "check" => job[q].id # j.id

OwnCustomer(row) ==
  row.customer \in DOMAIN customers /\ customers[row.customer].tenant = row.tenant

SoundJob(j) ==
  j.op = "check" => SoundRow(j.row) /\ j.row.tenant = j.tenant /\ OwnCustomer(j.row)

CaseFor(j) == [tenant |-> j.tenant, customer |-> j.row.customer, source |-> j.id,
               priority |-> "high"]

\* What a request has opened at a stage.
CaseReady(r) ==
  /\ phase[r] = "inserted" => job[r].op = "check" /\ OpensCase(job[r].row)
  /\ job[r].op = "check" =>
       job[r].opened = IF phase[r] = "complete" /\ OpensCase(job[r].row)
                       THEN <<CaseFor(job[r])>> ELSE <<>>

RequestsSound ==
  \A r \in Requests : FreshFor(r, job[r]) /\ SoundJob(job[r]) /\ CaseReady(r)

ChecksSound == \A i \in DOMAIN checks : SoundRow(checks[i])

ChecksInv ==
  /\ TypeOK
  /\ JobsTyped
  /\ RequestsSound
  /\ ChecksSound
  /\ ChecksOfOwnCustomers
  /\ MatchesEscalated

\* What can be said of a job, by its kind.
LEMMA JobCases ==
  ASSUME NEW j \in Jobs
  PROVE  /\ j.op = "none" => j = NoJob
         /\ j.op = "customer" => j \in CustomerJobs
         /\ j.op = "check" => j \in CheckJobs
         /\ j.op \in {"none", "customer", "check"}
  BY DEF Jobs, NoJob, CustomerJobs, CheckJobs

LEMMA InitChecks == Init => ChecksInv
<1> SUFFICES ASSUME Init PROVE ChecksInv
  OBVIOUS
<1> USE DEF Init
<1>1. DOMAIN customers = {} /\ DOMAIN checks = {} /\ cases = <<>>
  OBVIOUS
<1>2. \A r \in Requests : job[r] = NoJob /\ job[r].op = "none"
  BY DEF NoJob
<1>3. TypeOK
  BY <1>1 DEF TypeOK
<1>4. JobsTyped
  BY <1>2 DEF JobsTyped, Jobs
<1>5. RequestsSound
  BY <1>2 DEF RequestsSound, FreshFor, SoundJob, CaseReady
<1>6. ChecksSound /\ ChecksOfOwnCustomers
  BY <1>1 DEF ChecksSound, ChecksOfOwnCustomers
<1>7. MatchesEscalated
  BY <1>1 DEF MatchesEscalated, CasesOf
<1> QED
  BY <1>3, <1>4, <1>5, <1>6, <1>7 DEF ChecksInv

\* A handler that has decided to insert a fresh, sound row of its tenant.
LEMMA DecideKeeps ==
  ASSUME ChecksInv, NEW r \in Requests, NEW j \in Jobs, j.op # "none", Decide(r, j),
         FreshFor(r, j), SoundJob(j), j.op = "check" => j.opened = <<>>
  PROVE  ChecksInv'
<1> USE DEF ChecksInv
<1>1. /\ job' = [job EXCEPT ![r] = j] /\ phase' = [phase EXCEPT ![r] = "flushing"]
      /\ phase[r] = "idle"
      /\ UNCHANGED <<settings, customers, checks, cases, writer>>
  BY DEF Decide
<1>2. /\ job'[r] = j /\ phase'[r] = "flushing"
      /\ \A q \in Requests \ {r} : job'[q] = job[q] /\ phase'[q] = phase[q]
  BY <1>1 DEF TypeOK, JobsTyped
<1>3. j.op \in {"customer", "check"}
  BY JobCases
<1>4. TypeOK'
  BY <1>1, <1>2, <1>3 DEF TypeOK
<1>5. JobsTyped'
  BY <1>1, <1>2 DEF JobsTyped
<1>6. \A q \in Requests : FreshFor(q, job[q])'
  BY <1>1, <1>2 DEF RequestsSound, FreshFor
<1>7. \A q \in Requests : SoundJob(job[q])' /\ CaseReady(q)'
  BY <1>1, <1>2 DEF RequestsSound, SoundJob, CaseReady, OwnCustomer
<1>8. (ChecksSound /\ ChecksOfOwnCustomers /\ MatchesEscalated)'
  BY <1>1 DEF ChecksSound, ChecksOfOwnCustomers, MatchesEscalated, CasesOf
<1> QED
  BY <1>4, <1>5, <1>6, <1>7, <1>8 DEF RequestsSound

LEMMA CreateCustomerKeeps ==
  ASSUME ChecksInv, NEW r \in Requests, NEW t \in Tenants, NEW c \in Customers,
         NEW name \in Names \cup {BlankName}, CreateCustomer(r, t, c, name)
  PROVE  ChecksInv'
<1> DEFINE j == [op |-> "customer", tenant |-> t, id |-> c,
                 row |-> [tenant |-> t, full_name |-> name]]
<1>1. j \in Jobs /\ j.op = "customer" /\ j.id = c
  BY DEF Jobs, CustomerJobs
<1>2. Decide(r, j) /\ c \notin DOMAIN customers
      /\ \A q \in Requests : job[q].op = "customer" => job[q].id # c
  BY DEF CreateCustomer
<1> HIDE DEF j
<1>3. FreshFor(r, j) /\ SoundJob(j)
  BY <1>1, <1>2 DEF FreshFor, SoundJob
<1> QED
  BY <1>1, <1>2, <1>3, DecideKeeps

LEMMA CheckKeeps ==
  ASSUME ChecksInv, NEW r \in Requests, NEW t \in Tenants, NEW i \in Checks, NEW row,
         Check(r, t, i, row), SoundRow(row), row.tenant = t, OwnCustomer(row)
  PROVE  ChecksInv'
<1> DEFINE j == [op |-> "check", tenant |-> t, id |-> i, row |-> row, opened |-> <<>>]
<1>1. row \in Screenings \cup Verifications
  BY DEF SoundRow, SoundScreening, SoundVerification
<1>2. /\ j.op = "check" /\ j.tenant = t /\ j.id = i /\ j.row = row /\ j.opened = <<>>
      /\ j \in CheckJobs
  BY <1>1, EmptySeq DEF CheckJobs
<1>3. Decide(r, j) /\ i \notin DOMAIN checks
      /\ \A q \in Requests : job[q].op = "check" => job[q].id # i
  BY DEF Check
<1> HIDE DEF j
<1>4. FreshFor(r, j) /\ SoundJob(j) /\ j \in Jobs
  BY <1>2, <1>3 DEF FreshFor, SoundJob, Jobs
<1> QED
  BY <1>2, <1>3, <1>4, DecideKeeps

LEMMA ScreenCustomerKeeps ==
  ASSUME ChecksInv, NEW r \in Requests, NEW t \in Tenants, NEW c \in Customers,
         NEW i \in Checks, NEW name_override \in Names \cup {None},
         ScreenCustomer(r, t, c, i, name_override)
  PROVE  ChecksInv'
<1> DEFINE name == IF name_override # None THEN name_override ELSE customers[c].full_name
           threshold == settings.threshold
           result == Screened(name, threshold)
           row == [kind |-> "screening", tenant |-> t, customer |-> c,
                   screened_name |-> name, match_threshold |-> threshold,
                   status |-> result.status, hits |-> result.hits,
                   highest_score |-> result.highest_score]
<1> USE DEF ChecksInv
<1>1. c \in Found(t) /\ name # BlankName /\ Check(r, t, i, row)
  BY DEF ScreenCustomer
<1>2. c \in DOMAIN customers /\ customers[c].tenant = t
  BY <1>1 DEF Found
<1>3. name \in Names /\ threshold \in Thresholds
  BY <1>1, <1>2 DEF TypeOK, Settings
<1> HIDE DEF name, threshold
<1>4. /\ result.status \in {"clear", "potential_match", "error"}
      /\ result.hits \in SUBSET [name : Entries, score : Scores]
      /\ result.highest_score \in Scores \cup {None}
  BY <1>3, ScreenedVerdict
<1>5. row.tenant = t /\ OwnCustomer(row)
  BY <1>2 DEF OwnCustomer
<1>6. SoundScreening(row)
  <2> HIDE DEF result
  <2>1. row \in Screenings
    BY <1>3, <1>4 DEF Screenings
  <2> QED
    BY <2>1 DEF SoundScreening, result
<1> HIDE DEF row
<1> QED
  BY <1>1, <1>5, <1>6, CheckKeeps DEF SoundRow

LEMMA VerifyIdentityKeeps ==
  ASSUME ChecksInv, NEW r \in Requests, NEW t \in Tenants, NEW c \in Customers,
         NEW i \in Checks, NEW type \in {"BVN", "NIN"}, NEW value \in Identifiers,
         VerifyIdentity(r, t, c, i, type, value)
  PROVE  ChecksInv'
<1> DEFINE result == Verified(type, value)
           row == [kind |-> "verification", tenant |-> t, customer |-> c,
                   identifier_type |-> type, identifier_last4 |-> LastFour[value],
                   identifier_hash |-> hash_identifier(value),
                   status |-> result.status, matched |-> result.matched,
                   profile_data |-> result.profile]
<1> USE DEF ChecksInv
<1>1. c \in DOMAIN customers /\ customers[c].tenant = t /\ Check(r, t, i, row)
  BY DEF VerifyIdentity, Found
<1>2. settings.pepper \in Peppers /\ hash_identifier(value) = <<settings.pepper, value>>
  BY DEF TypeOK, Settings, hash_identifier
<1>3. /\ result.status \in {"verified", "no_match", "error"} /\ result.matched \in BOOLEAN
      /\ result.profile \in ({"BVN", "NIN"} \X Identifiers) \cup {None}
  BY DEF Verified
<1>4. LastFour[value] \in Identifiers
  BY IdentifiersAssumption
<1>5. row.tenant = t /\ OwnCustomer(row)
  BY <1>1 DEF OwnCustomer
<1>6. SoundVerification(row)
  <2> HIDE DEF result
  <2>1. row \in Verifications
    BY <1>2, <1>3, <1>4 DEF Verifications
  <2> QED
    BY <1>2, <2>1 DEF SoundVerification, result
<1> HIDE DEF row
<1> QED
  BY <1>1, <1>5, <1>6, CheckKeeps DEF SoundRow

-----------------------------------------------------------------------------
LEMMA InsertKeeps ==
  ASSUME ChecksInv, NEW r \in Requests, Insert(r)
  PROVE  ChecksInv'
<1> USE DEF ChecksInv
<1> DEFINE next == IF job[r].op = "check" /\ OpensCase(job[r].row) THEN "inserted" ELSE "complete"
<1>1. /\ phase[r] = "flushing" /\ phase' = [phase EXCEPT ![r] = next]
      /\ UNCHANGED <<settings, customers, checks, cases, job>>
  BY DEF Insert
<1>2. phase'[r] = next /\ \A q \in Requests \ {r} : phase'[q] = phase[q]
  BY <1>1 DEF TypeOK
<1>3. job[r] \in Jobs /\ job[r].op \in {"customer", "check"}
  BY <1>1, JobCases DEF JobsTyped
<1>4. TypeOK'
  <2>1. job[r].tenant \in Tenants
    BY <1>3, JobCases DEF CustomerJobs, CheckJobs
  <2>2. writer' \in [Tenants -> Requests \cup {None}]
    BY <2>1 DEF Insert, TypeOK
  <2> QED
    BY <1>1, <1>2, <1>3, <2>2 DEF TypeOK
<1>5. JobsTyped'
  BY <1>1, <1>2, <1>3 DEF JobsTyped
<1>6. RequestsSound'
  BY <1>1, <1>2 DEF RequestsSound, FreshFor, SoundJob, CaseReady, OwnCustomer
<1>7. (ChecksSound /\ ChecksOfOwnCustomers /\ MatchesEscalated)'
  BY <1>1 DEF ChecksSound, ChecksOfOwnCustomers, MatchesEscalated, CasesOf
<1> QED
  BY <1>4, <1>5, <1>6, <1>7

LEMMA OpenCaseKeeps ==
  ASSUME ChecksInv, NEW r \in Requests, OpenCase(r)
  PROVE  ChecksInv'
<1> USE DEF ChecksInv
<1>1. /\ phase[r] = "inserted" /\ phase' = [phase EXCEPT ![r] = "complete"]
      /\ job' = [job EXCEPT ![r].opened = <<CaseFor(job[r])>>]
      /\ UNCHANGED <<settings, customers, checks, cases, writer>>
  BY DEF OpenCase, CaseFor
<1>2. job[r] \in CheckJobs /\ job[r].op = "check" /\ OpensCase(job[r].row)
  BY <1>1, JobCases DEF RequestsSound, CaseReady, JobsTyped
<1>3. CaseFor(job[r]) \in OpenedCases
  <2>1. job[r].row.customer \in Customers
    BY <1>2 DEF CheckJobs, Screenings, Verifications
  <2> QED
    BY <1>2, <2>1 DEF CaseFor, OpenedCases, CheckJobs
<1>4. <<CaseFor(job[r])>> \in Seq(OpenedCases)
  BY <1>3
<1>5. /\ job'[r] = [job[r] EXCEPT !.opened = <<CaseFor(job[r])>>] /\ phase'[r] = "complete"
      /\ \A q \in Requests \ {r} : job'[q] = job[q] /\ phase'[q] = phase[q]
  BY <1>1 DEF TypeOK, JobsTyped
<1>6. /\ job'[r] \in CheckJobs /\ job'[r].op = "check"
      /\ job'[r].tenant = job[r].tenant /\ job'[r].id = job[r].id /\ job'[r].row = job[r].row
      /\ job'[r].opened = <<CaseFor(job[r])>> /\ CaseFor(job'[r]) = CaseFor(job[r])
  BY <1>2, <1>4, <1>5 DEF CheckJobs, CaseFor
<1>7. TypeOK'
  BY <1>1, <1>5, <1>6 DEF TypeOK
<1>8. JobsTyped'
  BY <1>1, <1>5, <1>6 DEF JobsTyped, Jobs
<1>9. RequestsSound'
  <2>1. \A q \in Requests : FreshFor(q, job[q])'
    BY <1>1, <1>2, <1>5, <1>6 DEF RequestsSound, FreshFor
  <2>2. \A q \in Requests : SoundJob(job[q])'
    BY <1>1, <1>2, <1>5, <1>6 DEF RequestsSound, SoundJob, OwnCustomer
  <2>3. \A q \in Requests : CaseReady(q)'
    BY <1>1, <1>2, <1>5, <1>6 DEF RequestsSound, CaseReady
  <2> QED
    BY <2>1, <2>2, <2>3 DEF RequestsSound
<1>10. (ChecksSound /\ ChecksOfOwnCustomers /\ MatchesEscalated)'
  BY <1>1 DEF ChecksSound, ChecksOfOwnCustomers, MatchesEscalated, CasesOf
<1> QED
  BY <1>7, <1>8, <1>9, <1>10

\* The request that ends keeps nothing; the others are as before, as long as
\* customers stay and nobody's key has been taken.
LEMMA EndKeeps ==
  ASSUME ChecksInv, NEW r \in Requests, End(r),
         \A c \in DOMAIN customers : c \in DOMAIN customers' /\ customers'[c] = customers[c],
         \A q \in Requests \ {r} :
           /\ job[q].op = "customer" => job[q].id \notin DOMAIN customers'
           /\ job[q].op = "check" => job[q].id \notin DOMAIN checks'
  PROVE  /\ settings' \in Settings
         /\ writer' \in [Tenants -> Requests \cup {None}]
         /\ phase' \in [Requests -> {"idle", "flushing", "inserted", "complete"}]
         /\ \A q \in Requests : phase'[q] # "idle" => job'[q].op \in {"customer", "check"}
         /\ JobsTyped'
         /\ RequestsSound'
<1> USE DEF ChecksInv
<1>1. /\ phase' = [phase EXCEPT ![r] = "idle"] /\ job' = [job EXCEPT ![r] = NoJob]
      /\ writer' = [t \in Tenants |-> IF writer[t] = r THEN None ELSE writer[t]]
      /\ settings' = settings
  BY DEF End
<1>2. /\ job'[r] = NoJob /\ job'[r].op = "none" /\ phase'[r] = "idle"
      /\ \A q \in Requests \ {r} : job'[q] = job[q] /\ phase'[q] = phase[q]
  BY <1>1 DEF TypeOK, JobsTyped, NoJob
<1>3. /\ settings' \in Settings
      /\ writer' \in [Tenants -> Requests \cup {None}]
      /\ phase' \in [Requests -> {"idle", "flushing", "inserted", "complete"}]
      /\ \A q \in Requests : phase'[q] # "idle" => job'[q].op \in {"customer", "check"}
  BY <1>1, <1>2 DEF TypeOK
<1>4. JobsTyped'
  BY <1>1, <1>2 DEF JobsTyped, Jobs
<1>5. \A q \in Requests : FreshFor(q, job[q])'
  BY <1>2 DEF RequestsSound, FreshFor
<1>6. \A q \in Requests : SoundJob(job[q])' /\ CaseReady(q)'
  BY <1>2 DEF RequestsSound, SoundJob, CaseReady, OwnCustomer
<1> QED
  BY <1>3, <1>4, <1>5, <1>6 DEF RequestsSound

LEMMA CommitCustomerKeeps ==
  ASSUME ChecksInv, NEW r \in Requests, End(r), job[r].op = "customer",
         customers' = With(customers, job[r].id, job[r].row), UNCHANGED <<checks, cases>>
  PROVE  ChecksInv'
<1> USE DEF ChecksInv
<1>1. job[r] \in CustomerJobs /\ job[r].id \notin DOMAIN customers
  BY JobCases DEF JobsTyped, RequestsSound, FreshFor
<1>2. /\ DOMAIN customers' = DOMAIN customers \cup {job[r].id}
      /\ customers'[job[r].id] = job[r].row
      /\ \A c \in DOMAIN customers : c \in DOMAIN customers' /\ customers'[c] = customers[c]
  BY <1>1 DEF With
<1>3. \A q \in Requests \ {r} :
        /\ job[q].op = "customer" => job[q].id \notin DOMAIN customers'
        /\ job[q].op = "check" => job[q].id \notin DOMAIN checks'
  BY <1>2 DEF RequestsSound, FreshFor
<1>4. /\ settings' \in Settings
      /\ writer' \in [Tenants -> Requests \cup {None}]
      /\ phase' \in [Requests -> {"idle", "flushing", "inserted", "complete"}]
      /\ \A q \in Requests : phase'[q] # "idle" => job'[q].op \in {"customer", "check"}
      /\ JobsTyped'
      /\ RequestsSound'
  BY <1>2, <1>3, EndKeeps
<1>5. /\ DOMAIN customers' \subseteq Customers
      /\ \A c \in DOMAIN customers' :
           customers'[c] \in [tenant : Tenants, full_name : Names \cup {BlankName}]
  BY <1>1, <1>2 DEF TypeOK, CustomerJobs
<1>6. TypeOK'
  BY <1>4, <1>5 DEF TypeOK
<1>7. (ChecksSound /\ MatchesEscalated)'
  BY DEF ChecksSound, MatchesEscalated, CasesOf
<1>8. ChecksOfOwnCustomers'
  BY <1>2 DEF ChecksOfOwnCustomers
<1> QED
  BY <1>4, <1>6, <1>7, <1>8

\* The cases a request commits with its check: one more of its own, or none.
LEMMA CommitCheckKeeps ==
  ASSUME ChecksInv, NEW r \in Requests, End(r), job[r].op = "check", phase[r] = "complete",
         checks' = With(checks, job[r].id, job[r].row), cases' = cases \o job[r].opened,
         UNCHANGED customers
  PROVE  ChecksInv'
<1> DEFINE i == job[r].id
           row == job[r].row
           opened == CaseFor(job[r])
<1> USE DEF ChecksInv
<1>1. job[r] \in CheckJobs /\ i \in Checks /\ i \notin DOMAIN checks
  BY JobCases DEF JobsTyped, RequestsSound, FreshFor, CheckJobs
<1>2. /\ DOMAIN checks' = DOMAIN checks \cup {i} /\ checks'[i] = row
      /\ \A k \in DOMAIN checks : checks'[k] = checks[k]
  BY <1>1 DEF With
<1>3. \A q \in Requests \ {r} :
        /\ job[q].op = "customer" => job[q].id \notin DOMAIN customers'
        /\ job[q].op = "check" => job[q].id \notin DOMAIN checks'
  BY <1>2 DEF RequestsSound, FreshFor
<1>4. /\ settings' \in Settings
      /\ writer' \in [Tenants -> Requests \cup {None}]
      /\ phase' \in [Requests -> {"idle", "flushing", "inserted", "complete"}]
      /\ \A q \in Requests : phase'[q] # "idle" => job'[q].op \in {"customer", "check"}
      /\ JobsTyped'
      /\ RequestsSound'
  BY <1>3, EndKeeps
<1>5. SoundRow(row) /\ row.tenant = job[r].tenant /\ OwnCustomer(row)
  BY DEF RequestsSound, SoundJob
<1>6. ChecksSound'
  BY <1>2, <1>5 DEF ChecksSound
<1>7. row \in Screenings \cup Verifications /\ job[r].opened \in Seq(OpenedCases)
  BY <1>1 DEF CheckJobs
<1>8. TypeOK'
  <2>1. DOMAIN checks' \subseteq Checks /\ \A k \in DOMAIN checks' : checks'[k] \in Screenings \cup Verifications
    BY <1>1, <1>2, <1>7 DEF TypeOK
  <2>2. cases' \in Seq(OpenedCases)
    BY <1>7, ConcatProperties DEF TypeOK
  <2> QED
    BY <1>4, <2>1, <2>2 DEF TypeOK
<1>9. CASE ~OpensCase(row)
  <2>1. cases' = cases
    <3>1. job[r].opened = <<>>
      BY <1>9 DEF RequestsSound, CaseReady
    <3> QED
      BY <3>1, ConcatEmptySeq DEF TypeOK
  <2>2. ChecksOfOwnCustomers'
    BY <1>2, <1>5, <2>1 DEF ChecksOfOwnCustomers, OwnCustomer
  <2>3. MatchesEscalated'
    BY <1>1, <1>2, <1>9, <2>1 DEF MatchesEscalated, CasesOf
  <2> QED
    BY <1>4, <1>6, <1>8, <2>2, <2>3
<1>10. CASE OpensCase(row)
  <2> DEFINE n == Len(cases) + 1
  <2>1. job[r].opened = <<opened>>
    BY <1>10 DEF RequestsSound, CaseReady
  <2>2. /\ DOMAIN cases' = DOMAIN cases \cup {n} /\ n \notin DOMAIN cases
        /\ cases'[n] = opened
        /\ \A k \in DOMAIN cases : cases'[k] = cases[k]
    BY <2>1, ConcatProperties DEF TypeOK
  <2>3. opened.source = i /\ opened.customer = row.customer /\ opened.tenant = row.tenant
    BY <1>5 DEF CaseFor
  <2> HIDE DEF n, opened, row, i
  <2>4. ChecksOfOwnCustomers'
    BY <1>2, <1>5, <2>2, <2>3 DEF ChecksOfOwnCustomers, OwnCustomer
  <2>5. MatchesEscalated'
    <3>1. PICK key \in Checks, m \in {n} : key = i /\ m = n
      BY <1>1
    <3>2. CasesOf(key) = {}
      BY <1>1, <3>1 DEF MatchesEscalated
    <3>3. CasesOf(key)' = {m}
      BY <2>2, <2>3, <3>1, <3>2 DEF CasesOf
    <3>4. \A k \in Checks \ {key} : CasesOf(k)' = CasesOf(k)
      BY <2>2, <2>3, <3>1 DEF CasesOf
    <3>5. \A k \in Checks \ {key} :
            IF k \in DOMAIN checks' /\ OpensCase(checks'[k])
            THEN \E l \in DOMAIN cases' : /\ CasesOf(k)' = {l}
                                          /\ cases'[l].customer = checks'[k].customer
            ELSE CasesOf(k)' = {}
      <4> TAKE k \in Checks \ {key}
      <4>1. k \in DOMAIN checks' <=> k \in DOMAIN checks
        BY <1>2, <3>1
      <4>2. CASE k \in DOMAIN checks /\ OpensCase(checks[k])
        <5>1. PICK l \in DOMAIN cases : CasesOf(k) = {l} /\ cases[l].customer = checks[k].customer
          BY <4>2 DEF MatchesEscalated
        <5> QED
          BY <1>2, <2>2, <3>4, <4>1, <4>2, <5>1
      <4>3. CASE ~(k \in DOMAIN checks /\ OpensCase(checks[k]))
        <5>1. CasesOf(k) = {}
          BY <4>3 DEF MatchesEscalated
        <5> QED
          BY <1>2, <3>4, <4>1, <4>3, <5>1
      <4> QED
        BY <4>2, <4>3
    <3>6. /\ key \in DOMAIN checks' /\ OpensCase(checks'[key])
          /\ m \in DOMAIN cases' /\ CasesOf(key)' = {m}
          /\ cases'[m].customer = checks'[key].customer
      BY <1>2, <1>10, <2>2, <2>3, <3>1, <3>3
    <3> QED
      BY <3>5, <3>6 DEF MatchesEscalated
  <2> QED
    BY <1>4, <1>6, <1>8, <2>4, <2>5
<1> QED
  BY <1>9, <1>10

LEMMA RollbackKeeps ==
  ASSUME ChecksInv, NEW r \in Requests, Rollback(r)
  PROVE  ChecksInv'
<1> USE DEF ChecksInv
<1>1. End(r) /\ UNCHANGED <<customers, checks, cases>>
  BY DEF Rollback
<1>2. /\ settings' \in Settings
      /\ writer' \in [Tenants -> Requests \cup {None}]
      /\ phase' \in [Requests -> {"idle", "flushing", "inserted", "complete"}]
      /\ \A q \in Requests : phase'[q] # "idle" => job'[q].op \in {"customer", "check"}
      /\ JobsTyped'
      /\ RequestsSound'
  BY <1>1, EndKeeps DEF RequestsSound, FreshFor
<1>3. TypeOK'
  BY <1>1, <1>2 DEF TypeOK
<1>4. (ChecksSound /\ ChecksOfOwnCustomers /\ MatchesEscalated)'
  BY <1>1 DEF ChecksSound, ChecksOfOwnCustomers, MatchesEscalated, CasesOf
<1> QED
  BY <1>2, <1>3, <1>4

LEMMA RedeployKeeps ==
  ASSUME ChecksInv, Redeploy
  PROVE  ChecksInv'
<1> USE DEF ChecksInv, Redeploy
<1>1. \A r \in Requests : job'[r] = NoJob /\ job'[r].op = "none" /\ phase'[r] = "idle"
  BY DEF NoJob
<1>2. TypeOK'
  BY <1>1 DEF TypeOK
<1>3. JobsTyped'
  BY <1>1 DEF JobsTyped, Jobs
<1>4. RequestsSound'
  BY <1>1 DEF RequestsSound, FreshFor, SoundJob, CaseReady
<1>5. (ChecksSound /\ ChecksOfOwnCustomers /\ MatchesEscalated)'
  BY DEF ChecksSound, ChecksOfOwnCustomers, MatchesEscalated, CasesOf
<1> QED
  BY <1>2, <1>3, <1>4, <1>5

LEMMA StepChecks == ChecksInv /\ [Next]_vars => ChecksInv'
<1> SUFFICES ASSUME ChecksInv, [Next]_vars PROVE ChecksInv'
  OBVIOUS
<1>1. CASE UNCHANGED vars
  BY <1>1
  DEF vars, ChecksInv, TypeOK, JobsTyped, RequestsSound, FreshFor, SoundJob, CaseReady,
      OwnCustomer, ChecksSound, ChecksOfOwnCustomers, MatchesEscalated, CasesOf
<1>2. ASSUME NEW r \in Requests, Commit(r) PROVE ChecksInv'
  BY <1>2, CommitCustomerKeeps, CommitCheckKeeps DEF Commit, MayCommit
<1> QED
  BY <1>1, <1>2, CreateCustomerKeeps, ScreenCustomerKeeps, VerifyIdentityKeeps, InsertKeeps,
     OpenCaseKeeps, RollbackKeeps, RedeployKeeps DEF Next

\* The inductive invariant holds in every reachable state: what is stored, and
\* what is going to be, is sound, of the right tenant, and escalated.
THEOREM ChecksInvariant == Spec => []ChecksInv
<1> QED
  BY InitChecks, StepChecks, PTL DEF Spec

\* Every variable keeps its type.
THEOREM TypeCorrect == Spec => []TypeOK
<1>1. ChecksInv => TypeOK
  BY DEF ChecksInv
<1> QED
  BY <1>1, ChecksInvariant, PTL

-----------------------------------------------------------------------------
\* get_customer behind the tenant policy: checks and cases stay with the tenant
\* of their customer.
THEOREM ChecksAlwaysOfOwnCustomers == Spec => []ChecksOfOwnCustomers
<1>1. ChecksInv => ChecksOfOwnCustomers
  BY DEF ChecksInv
<1> QED
  BY <1>1, ChecksInvariant, PTL

\* create_sanctions_screening opens a case in the same transaction, exactly when
\* the screening is a potential match.
THEOREM MatchesAlwaysEscalated == Spec => []MatchesEscalated
<1>1. ChecksInv => MatchesEscalated
  BY DEF ChecksInv
<1> QED
  BY <1>1, ChecksInvariant, PTL

\* SanctionsScreening rows explain themselves, whatever the watch list, the
\* similarities and the thresholds.
THEOREM VerdictsAlwaysReproducible == Spec => []VerdictReproducible
<1>1. ChecksInv => VerdictReproducible
  <2> SUFFICES ASSUME ChecksInv, NEW i \in DOMAIN checks, checks[i].kind = "screening"
               PROVE  LET row == checks[i]
                      IN /\ row.status = "error" <=> row.highest_score = None
                         /\ row.status # "error" =>
                              /\ row.status = "potential_match" <=> row.highest_score >= row.match_threshold
                              /\ row.status = "potential_match" <=>
                                   \E h \in row.hits : h.score = row.highest_score
                         /\ \A h \in row.hits : h.score >= row.match_threshold
    BY DEF VerdictReproducible
  <2>1. SoundScreening(checks[i])
    BY DEF ChecksInv, ChecksSound, SoundRow, SoundVerification, Verifications
  <2>2. checks[i].screened_name \in Names /\ checks[i].match_threshold \in Thresholds
    BY <2>1 DEF SoundScreening, Screenings
  <2> QED
    BY <2>1, <2>2, ScreenedVerdict DEF SoundScreening
<1> QED
  BY <1>1, ChecksInvariant, PTL

\* hash_identifier: two verifications with one hash and one type agree.
THEOREM RepeatsAlwaysAgree == Spec => []RepeatsAgree
<1>1. ChecksInv => RepeatsAgree
  <2> SUFFICES ASSUME ChecksInv, NEW i \in DOMAIN checks, NEW k \in DOMAIN checks,
                      checks[i].kind = "verification", checks[k].kind = "verification",
                      checks[i].identifier_hash = checks[k].identifier_hash,
                      checks[i].identifier_type = checks[k].identifier_type
               PROVE  /\ checks[i].status = checks[k].status
                      /\ checks[i].identifier_last4 = checks[k].identifier_last4
                      /\ checks[i].profile_data = checks[k].profile_data
    BY DEF RepeatsAgree
  <2>1. SoundVerification(checks[i]) /\ SoundVerification(checks[k])
    BY DEF ChecksInv, ChecksSound, SoundRow, SoundScreening, Screenings
  <2> QED
    BY <2>1, SoundRepeats
<1> QED
  BY <1>1, ChecksInvariant, PTL
=============================================================================
