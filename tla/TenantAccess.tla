---------------------------- MODULE TenantAccess ----------------------------
(***************************************************************************)
(* Who works for which tenant: provisioning and API keys (app/cli.py and   *)
(* app/services/api_key_service.py) next to requests that present a key    *)
(* (app/api/deps.py).                                                      *)
(*                                                                         *)
(* Every command is one transaction, and create-api-key prints the raw key *)
(* after its COMMIT.  A request looks its key up in a session of its own,  *)
(* which is closed before the transaction that does the work begins, so a  *)
(* revocation may be committed between the two.  A raw key stands for its  *)
(* row and for its SHA-256; the key_hash column is unique.  Slugs and      *)
(* labels are left out, and so is revoke-api-key of an unknown id, which   *)
(* changes nothing.                                                        *)
(***************************************************************************)
EXTENDS Naturals

CONSTANTS Tenants, Keys,
          Commands,      \* runs of the command line that may overlap
          Requests,
          None

ASSUME NoneAssumption == None \notin Tenants /\ None \notin Keys

VARIABLES
  tenants,   \* committed tenants
  heads,     \* tenants with a committed audit_chain_head row
  keys,      \* the committed api_keys row of each raw key, or NoKey
  printed,   \* raw keys that have been shown to an operator
  command,   \* per run of the command line: what it is doing
  request,   \* per request: its progress
  work       \* who has committed work for whom: key presented, actor, tenant

vars == <<tenants, heads, keys, printed, command, request, work>>

NoKey == [tenant |-> None, revoked |-> FALSE]
Exists(k) == keys[k].tenant # None
Revoked(k) == keys[k].revoked

NoCommand == [name |-> "none", phase |-> "idle", tenant |-> None, key |-> None]
NoRequest == [phase |-> "idle", raw |-> None, actor |-> None, tenant |-> None]

Init ==
  /\ tenants = {}
  /\ heads = {}
  /\ keys = [k \in Keys |-> NoKey]
  /\ printed = {}
  /\ command = [c \in Commands |-> NoCommand]
  /\ request = [r \in Requests |-> NoRequest]
  /\ work = {}

-----------------------------------------------------------------------------
\* The command line.

Start(c, name, t, k) ==
  /\ command[c].phase = "idle"
  /\ command' = [command EXCEPT ![c] =
                   [name |-> name, phase |-> "flushed", tenant |-> t, key |-> k]]
  /\ UNCHANGED <<tenants, heads, keys, printed, request, work>>

\* create-tenant, up to its COMMIT.  The id is a fresh uuid4.
CreateTenant(c, t) ==
  /\ t \notin tenants
  /\ \A d \in Commands : command[d].name = "create-tenant" => command[d].tenant # t
  /\ Start(c, "create-tenant", t, None)

\* create-api-key of a tenant that is found, up to its COMMIT.  The raw key is
\* fresh: 256 random bits.
CreateApiKey(c, t, k) ==
  /\ t \in tenants
  /\ ~Exists(k) /\ k \notin printed
  /\ \A d \in Commands : command[d].key # k
  /\ Start(c, "create-api-key", t, k)

\* revoke-api-key of a key that is found, up to its COMMIT.
RevokeApiKey(c, k) ==
  /\ Exists(k)
  /\ Start(c, "revoke-api-key", None, k)

\* Mutated form: the chain head is not added.
HeadForgotten(t) == heads

\* The head row is committed with its tenant.
HeadAdded(t) == heads \cup {t}

\* db.commit().  create-api-key still has to print.
CommitCommand(c) ==
  /\ command[c].phase = "flushed"
  /\ \/ /\ command[c].name = "create-tenant"
        /\ tenants' = tenants \cup {command[c].tenant}
        /\ heads' = HeadAdded(command[c].tenant)
        /\ command' = [command EXCEPT ![c] = NoCommand]
        /\ UNCHANGED keys
     \/ /\ command[c].name = "create-api-key"
        /\ keys' = [keys EXCEPT ![command[c].key] =
                      [tenant |-> command[c].tenant, revoked |-> FALSE]]
        /\ command' = [command EXCEPT ![c].phase = "committed"]
        /\ UNCHANGED <<tenants, heads>>
     \/ /\ command[c].name = "revoke-api-key"
        /\ keys' = [keys EXCEPT ![command[c].key].revoked = TRUE]
        /\ command' = [command EXCEPT ![c] = NoCommand]
        /\ UNCHANGED <<tenants, heads>>
  /\ UNCHANGED <<printed, request, work>>

\* Mutated form: the key is printed before the COMMIT.
PrintableEarly(c) == command[c].phase \in {"flushed", "committed"}

Printable(c) == command[c].phase = "committed"

\* "Key (shown once, will not be retrievable again)".
PrintKey(c) ==
  /\ command[c].name = "create-api-key"
  /\ Printable(c)
  /\ printed' = printed \cup {command[c].key}
  /\ command' = [command EXCEPT ![c] = NoCommand]
  /\ UNCHANGED <<tenants, heads, keys, request, work>>

\* The command fails or is killed; what is not committed is lost.
Abort(c) ==
  /\ command[c].phase # "idle"
  /\ command' = [command EXCEPT ![c] = NoCommand]
  /\ UNCHANGED <<tenants, heads, keys, printed, request, work>>

-----------------------------------------------------------------------------
\* Requests.

Advance(r, progress) ==
  /\ request' = [request EXCEPT ![r] = progress]
  /\ UNCHANGED <<tenants, heads, keys, printed, command>>

\* A client sends a bearer key that it was given, or guesses.
Present(r, k) ==
  /\ request[r].phase = "idle"
  /\ Advance(r, [phase |-> "presented", raw |-> k, actor |-> None, tenant |-> None])
  /\ UNCHANGED work

\* Mutated forms: the row may be absent; revoked_at is not looked at; the hash
\* is not compared.
MatchingUnknown(k) == {m \in Keys : m = k /\ ~Revoked(m)}
MatchingRevoked(k) == {m \in Keys : Exists(m) /\ m = k}
MatchingAny(k) == {m \in Keys : Exists(m) /\ ~Revoked(m)}

\* The rows the query of authenticate finds.
Matching(k) == {m \in Keys : Exists(m) /\ m = k /\ ~Revoked(m)}

\* get_current_tenant: 401 when no row is found.
Authenticate(r) ==
  /\ request[r].phase = "presented"
  /\ \/ /\ Matching(request[r].raw) = {}
        /\ Advance(r, NoRequest)
     \/ \E m \in Matching(request[r].raw) :
          Advance(r, [phase |-> "authenticated", raw |-> request[r].raw,
                      actor |-> m, tenant |-> keys[m].tenant])
  /\ UNCHANGED work

\* The handler writes in a transaction pinned to the key's tenant, with the key
\* as the actor of its entries; scalar_one() needs the head row.
Commit(r) ==
  /\ request[r].phase = "authenticated"
  /\ request[r].tenant \in heads
  /\ work' = work \cup {[raw |-> request[r].raw, actor |-> request[r].actor,
                         tenant |-> request[r].tenant]}
  /\ Advance(r, NoRequest)

\* An exception, a lost connection or a crash.
Fail(r) ==
  /\ request[r].phase # "idle"
  /\ Advance(r, NoRequest)
  /\ UNCHANGED work

Next ==
  \/ \E c \in Commands :
       \/ \E t \in Tenants : CreateTenant(c, t)
       \/ \E t \in Tenants, k \in Keys : CreateApiKey(c, t, k)
       \/ \E k \in Keys : RevokeApiKey(c, k)
       \/ CommitCommand(c)
       \/ PrintKey(c)
       \/ Abort(c)
  \/ \E r \in Requests :
       \/ \E k \in Keys : Present(r, k)
       \/ Authenticate(r)
       \/ Commit(r)
       \/ Fail(r)

Spec == Init /\ [][Next]_vars

\* A request that has arrived runs to its end.  Nobody has to run a command,
\* send a request, or fail.
Fairness == \A r \in Requests : WF_vars(Authenticate(r)) /\ WF_vars(Commit(r))

FairSpec == Spec /\ Fairness

-----------------------------------------------------------------------------
KeyRows == {NoKey} \cup [tenant : Tenants, revoked : BOOLEAN]

CommandStates ==
  {NoCommand}
    \cup [name : {"create-tenant"}, phase : {"flushed"}, tenant : Tenants, key : {None}]
    \cup [name : {"create-api-key"}, phase : {"flushed", "committed"}, tenant : Tenants,
          key : Keys]
    \cup [name : {"revoke-api-key"}, phase : {"flushed"}, tenant : {None}, key : Keys]

RequestStates ==
  {NoRequest}
    \cup [phase : {"presented"}, raw : Keys, actor : {None}, tenant : {None}]
    \cup [phase : {"authenticated"}, raw : Keys, actor : Keys, tenant : Tenants]

\* Types of the variables; in particular a request that is let in has a tenant
\* and an actor (ApiKey.tenant_id is not nullable).
TypeOK ==
  /\ tenants \subseteq Tenants
  /\ heads \subseteq Tenants
  /\ keys \in [Keys -> KeyRows]
  /\ printed \subseteq Keys
  /\ command \in [Commands -> CommandStates]
  /\ request \in [Requests -> RequestStates]
  /\ work \subseteq [raw : Keys, actor : Keys, tenant : Tenants]

\* A key only exists for a tenant whose chain head exists, so no request that
\* authenticates ever finds its tenant without a head row to append to, however
\* commands overlap and whichever of them are killed.
AuthenticatedCanRecord ==
  \A r \in Requests : request[r].phase = "authenticated" => request[r].tenant \in heads

\* Work is recorded for the tenant, and under the actor, of the very key that
\* was presented, also while keys are created and revoked.
WorkByOwnKey ==
  \A w \in work : w.actor = w.raw /\ Exists(w.raw) /\ w.tenant = keys[w.raw].tenant

\* A key that an operator has been shown is stored.
PrintedKeysStored == \A k \in printed : Exists(k)

Holders(k) == {r \in Requests : request[r].phase = "authenticated" /\ request[r].actor = k}

\* Once a key is revoked and no request is under way with it, none ever gets in
\* with it again.
RevocationEndsAccess ==
  [][\A k \in Keys : Revoked(k) /\ Holders(k) = {} => (Revoked(k) /\ Holders(k) = {})']_vars

\* The requests that were authenticated before a revocation end, so every
\* revoked key is out of use from some moment on.
RevokedOutOfUse == \A k \in Keys : Revoked(k) ~> [](Holders(k) = {})
=============================================================================
