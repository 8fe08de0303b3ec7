--------------------------- MODULE CustomerChecks ---------------------------
(***************************************************************************)
(* Customers and what is checked about them: customer_service,             *)
(* identity_service and sanctions_service with their routes and the mock   *)
(* providers, run by concurrent requests of several tenants.               *)
(*                                                                         *)
(* A request is one database transaction.  It looks its customer up        *)
(* through the tenant policy, asks the provider, and inserts the record;   *)
(* a screening with hits then opens a case by a second flush.  The first   *)
(* flush waits for the tenant's audit chain head (module AuditLog), held   *)
(* until COMMIT.  The tables' foreign keys do not know tenants.            *)
(*                                                                         *)
(* A similarity is a number of hundredths of a percent, a score the        *)
(* similarity rounded to tenths; how names are compared, order of hits     *)
(* and the provider's references are left out.                                 *)
(***************************************************************************)
EXTENDS Integers, Sequences

CONSTANTS Tenants,
          Customers,           \* primary keys of customers
          Checks,              \* primary keys of screenings and verifications
          Names,               \* names that are not blank
          BlankName,           \* a name of white space only
          ErrorName,           \* the mock provider's error trigger
          Entries,             \* the watch list
          Similarity,          \* of each name and entry of the list
          Thresholds,          \* configured values of sanctions_match_threshold
          Identifiers,         \* strings of eleven digits
          LastFour,            \* one identifier for all that end like it
          NoMatch, ProviderError,  \* reserved identifiers
          Peppers,             \* configured values of identity_hash_pepper
          Requests, None

ASSUME NoneAssumption == /\ None \notin Requests \cup Names \cup {BlankName}
                         /\ None \notin 0..1000
ASSUME NamesAssumption ==
  /\ BlankName \notin Names /\ ErrorName \in Names /\ Entries # {}
  /\ \A name \in Names, e \in Entries : Similarity[name][e] \in Nat /\ Similarity[name][e] <= 10000
  /\ Thresholds \subseteq Nat
ASSUME IdentifiersAssumption == /\ NoMatch # ProviderError
                                /\ LastFour \in [Identifiers -> Identifiers]

VARIABLES
  settings,   \* the configuration the processes run with
  customers,  \* committed customers, by id
  checks,     \* committed screenings and verifications, by id
  cases,      \* committed cases opened for screenings, oldest first
  writer,     \* per tenant: the request that holds the chain head
  phase,      \* per request: "idle", "flushing", "inserted", "complete"
  job         \* per request: its tenant and what it is going to commit

vars == <<settings, customers, checks, cases, writer, phase, job>>

Settings == [threshold : Thresholds, pepper : Peppers]
NoJob == [op |-> "none"]

Init ==
  /\ settings \in Settings
  /\ customers = [c \in {} |-> c]
  /\ checks = [i \in {} |-> i]
  /\ cases = <<>>
  /\ writer = [t \in Tenants |-> None]
  /\ phase = [r \in Requests |-> "idle"]
  /\ job = [r \in Requests |-> NoJob]

\* The handler has looked up, asked and built its object; it waits to be flushed.
Decide(r, j) ==
  /\ phase[r] = "idle"
  /\ job' = [job EXCEPT ![r] = j]
  /\ phase' = [phase EXCEPT ![r] = "flushing"]
  /\ UNCHANGED <<settings, customers, checks, cases, writer>>

-----------------------------------------------------------------------------
\* POST /customers; the name may be blank.  The id is a fresh uuid4.
CreateCustomer(r, t, c, name) ==
  /\ c \notin DOMAIN customers
  /\ \A q \in Requests : job[q].op = "customer" => job[q].id # c
  /\ Decide(r, [op |-> "customer", tenant |-> t, id |-> c,
                row |-> [tenant |-> t, full_name |-> name]])

\* Mutated form: a lookup that the policy does not restrict.
FoundAnywhere(t) == DOMAIN customers

\* get_customer in a session pinned to t; the routes answer 404 for any other.
Found(t) == {c \in DOMAIN customers : customers[c].tenant = t}

Check(r, t, i, row) ==
  /\ i \notin DOMAIN checks
  /\ \A q \in Requests : job[q].op = "check" => job[q].id # i
  /\ Decide(r, [op |-> "check", tenant |-> t, id |-> i, row |-> row, opened |-> <<>>])

-----------------------------------------------------------------------------
\* Sanctions screening.

Rounded(similarity) == (similarity + 5) \div 10

Score(name, e) == Rounded(Similarity[name][e])

\* Mutated form: candidates are compared before they are rounded.
HitUnrounded(name, e, threshold) == Similarity[name][e] >= 10 * threshold

Hit(name, e, threshold) == Score(name, e) >= threshold

\* The best score over all candidates, hits or not.
HighestScore(name) ==
  CHOOSE s \in {Score(name, e) : e \in Entries} : \A e \in Entries : s >= Score(name, e)

\* MockWatchlistProvider.screen
Screened(name, threshold) ==
  LET hits == {e \in Entries : Hit(name, e, threshold)}
  IN IF name = ErrorName
     THEN [status |-> "error", hits |-> {}, highest_score |-> None]
     ELSE [status |-> IF hits # {} THEN "potential_match" ELSE "clear",
           hits |-> {[name |-> e, score |-> Score(name, e)] : e \in hits},
           highest_score |-> HighestScore(name)]

\* POST /customers/{id}/sanctions-screenings.  A blank name raises ValueError.
ScreenCustomer(r, t, c, i, name_override) ==
  LET name == IF name_override # None THEN name_override ELSE customers[c].full_name
      threshold == settings.threshold
      result == Screened(name, threshold)
  IN /\ c \in Found(t)
     /\ name # BlankName
     /\ Check(r, t, i, [kind |-> "screening", tenant |-> t, customer |-> c,
                        screened_name |-> name, match_threshold |-> threshold,
                        status |-> result.status, hits |-> result.hits,
                        highest_score |-> result.highest_score])

-----------------------------------------------------------------------------
\* Identity verification.

\* MockIdentityProvider._verify: the profile is drawn with the type and the
\* value as the seed.
Verified(type, value) ==
  CASE value = ProviderError -> [status |-> "error", matched |-> FALSE, profile |-> None]
    [] value = NoMatch -> [status |-> "no_match", matched |-> FALSE, profile |-> None]
    [] OTHER -> [status |-> "verified", matched |-> TRUE, profile |-> <<type, value>>]

\* Mutated forms: a bare hash; a hash of what is kept anyway.
hash_identifier_bare(value) == <<value>>
hash_identifier_last4(value) == <<settings.pepper, LastFour[value]>>

\* An HMAC keyed by the pepper; the type is not part of it.
hash_identifier(value) == <<settings.pepper, value>>

\* POST /customers/{id}/identity-verifications
VerifyIdentity(r, t, c, i, type, value) ==
  LET result == Verified(type, value)
  IN /\ c \in Found(t)
     /\ Check(r, t, i, [kind |-> "verification", tenant |-> t, customer |-> c,
                        identifier_type |-> type, identifier_last4 |-> LastFour[value],
                        identifier_hash |-> hash_identifier(value),
                        status |-> result.status, matched |-> result.matched,
                        profile_data |-> result.profile])

-----------------------------------------------------------------------------
\* open_case_for_sanctions_screening
OpensCase(row) == row.kind = "screening" /\ row.status = "potential_match"

\* db.flush() of the record, when the chain head is free.
Insert(r) ==
  /\ phase[r] = "flushing"
  /\ writer[job[r].tenant] = None
  /\ writer' = [writer EXCEPT ![job[r].tenant] = r]
  /\ phase' = [phase EXCEPT ![r] = IF job[r].op = "check" /\ OpensCase(job[r].row)
                                   THEN "inserted" ELSE "complete"]
  /\ UNCHANGED <<settings, customers, checks, cases, job>>

\* open_case, by a flush of its own in the same transaction.
OpenCase(r) ==
  /\ phase[r] = "inserted"
  /\ job' = [job EXCEPT ![r].opened =
               <<[tenant |-> job[r].tenant, customer |-> job[r].row.customer,
                  source |-> job[r].id, priority |-> "high"]>>]
  /\ phase' = [phase EXCEPT ![r] = "complete"]
  /\ UNCHANGED <<settings, customers, checks, cases, writer>>

End(r) ==
  /\ phase' = [phase EXCEPT ![r] = "idle"]
  /\ job' = [job EXCEPT ![r] = NoJob]
  /\ writer' = [t \in Tenants |-> IF writer[t] = r THEN None ELSE writer[t]]
  /\ UNCHANGED settings

With(rows, i, row) == [k \in DOMAIN rows \cup {i} |-> IF k = i THEN row ELSE rows[k]]

\* Mutated form: the record is committed before its case is opened.
MayCommitEarly(r) == phase[r] \in {"inserted", "complete"}

MayCommit(r) == phase[r] = "complete"

Commit(r) ==
  /\ MayCommit(r)
  /\ \/ /\ job[r].op = "customer"
        /\ customers' = With(customers, job[r].id, job[r].row)
        /\ UNCHANGED <<checks, cases>>
     \/ /\ job[r].op = "check"
        /\ checks' = With(checks, job[r].id, job[r].row)
        /\ cases' = cases \o job[r].opened
        /\ UNCHANGED customers
  /\ End(r)

\* An exception, a lost connection or a crash.
Rollback(r) ==
  /\ phase[r] # "idle"
  /\ UNCHANGED <<customers, checks, cases>>
  /\ End(r)

\* The processes are restarted with another configuration; what is not
\* committed is lost.
Redeploy ==
  /\ settings' \in Settings \ {settings}
  /\ writer' = [t \in Tenants |-> None]
  /\ phase' = [r \in Requests |-> "idle"]
  /\ job' = [r \in Requests |-> NoJob]
  /\ UNCHANGED <<customers, checks, cases>>

Next ==
  \/ \E r \in Requests :
       \/ \E t \in Tenants, c \in Customers :
            \/ \E name \in Names \cup {BlankName} : CreateCustomer(r, t, c, name)
            \/ \E i \in Checks, name_override \in Names \cup {None} :
                 ScreenCustomer(r, t, c, i, name_override)
            \/ \E i \in Checks, type \in {"BVN", "NIN"}, value \in Identifiers :
                 VerifyIdentity(r, t, c, i, type, value)
       \/ Insert(r)
       \/ OpenCase(r)
       \/ Commit(r)
       \/ Rollback(r)
  \/ Redeploy

Spec == Init /\ [][Next]_vars

-----------------------------------------------------------------------------
Scores == 0..1000

Screenings ==
  [kind : {"screening"}, tenant : Tenants, customer : Customers, screened_name : Names,
   match_threshold : Thresholds, status : {"clear", "potential_match", "error"},
   hits : SUBSET [name : Entries, score : Scores], highest_score : Scores \cup {None}]

Verifications ==
  [kind : {"verification"}, tenant : Tenants, customer : Customers,
   identifier_type : {"BVN", "NIN"}, identifier_last4 : Identifiers,
   identifier_hash : Peppers \X Identifiers,
   status : {"verified", "no_match", "error"}, matched : BOOLEAN,
   profile_data : ({"BVN", "NIN"} \X Identifiers) \cup {None}]

OpenedCases == [tenant : Tenants, customer : Customers, source : Checks, priority : {"high"}]

\* Types of the variables.
TypeOK ==
  /\ settings \in Settings
  /\ DOMAIN customers \subseteq Customers
  /\ \A c \in DOMAIN customers :
       customers[c] \in [tenant : Tenants, full_name : Names \cup {BlankName}]
  /\ DOMAIN checks \subseteq Checks
  /\ \A i \in DOMAIN checks : checks[i] \in Screenings \cup Verifications
  /\ cases \in Seq(OpenedCases)
  /\ writer \in [Tenants -> Requests \cup {None}]
  /\ phase \in [Requests -> {"idle", "flushing", "inserted", "complete"}]
  /\ \A r \in Requests : phase[r] # "idle" => job[r].op \in {"customer", "check"}

\* A check and the case it opened belong to the tenant that owns the customer,
\* although the foreign keys would accept any customer of any tenant.
ChecksOfOwnCustomers ==
  /\ \A i \in DOMAIN checks : /\ checks[i].customer \in DOMAIN customers
                              /\ customers[checks[i].customer].tenant = checks[i].tenant
  /\ \A k \in DOMAIN cases : /\ cases[k].customer \in DOMAIN customers
                             /\ customers[cases[k].customer].tenant = cases[k].tenant

CasesOf(i) == {k \in DOMAIN cases : cases[k].source = i}

\* A committed screening has one case, of its own customer, exactly when it is
\* a potential match: neither a crash between the two flushes nor a restart
\* leaves a match without its case or a case without its match.
MatchesEscalated ==
  \A i \in Checks :
    IF i \in DOMAIN checks /\ OpensCase(checks[i])
    THEN \E k \in DOMAIN cases : /\ CasesOf(i) = {k}
                                 /\ cases[k].customer = checks[i].customer
    ELSE CasesOf(i) = {}

\* models/sanctions_screening.py: a record "stays self-explanatory and
\* reproducible even if the configured threshold changes later": its verdict
\* follows from the score and the threshold in the row, at the boundary too.
VerdictReproducible ==
  \A i \in {k \in DOMAIN checks : checks[k].kind = "screening"} :
    LET row == checks[i]
    IN /\ row.status = "error" <=> row.highest_score = None
       /\ row.status # "error" =>
            /\ row.status = "potential_match" <=> row.highest_score >= row.match_threshold
            /\ row.status = "potential_match" <=>
                 \E h \in row.hits : h.score = row.highest_score
       /\ \A h \in row.hits : h.score >= row.match_threshold

\* Verifications that the identifier hash marks as repeats of one identifier of
\* one type got the same answer, whoever asked, under whatever configuration.
RepeatsAgree ==
  \A i, k \in {n \in DOMAIN checks : checks[n].kind = "verification"} :
    /\ checks[i].identifier_hash = checks[k].identifier_hash
    /\ checks[i].identifier_type = checks[k].identifier_type
    => /\ checks[i].status = checks[k].status
       /\ checks[i].identifier_last4 = checks[k].identifier_last4
       /\ checks[i].profile_data = checks[k].profile_data
=============================================================================
