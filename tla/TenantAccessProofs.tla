------------------------- MODULE TenantAccessProofs -------------------------
(***************************************************************************)
(* Theorems about TenantAccess, for any tenants, keys, command runs and    *)
(* requests.                                                               *)
(*                                                                         *)
(* WorkByOwnKey and RevocationEndsAccess both rest on a stored key never   *)
(* being stored a second time, which is FreshKeysUnstored: the key of a    *)
(* create-api-key that has not committed is stored nowhere, and no other   *)
(* overlapping command has it.                                             *)
(***************************************************************************)
EXTENDS TenantAccess, TLAPS

Creating(c) == command[c].name = "create-api-key"

\* Every tenant has been committed with its head row.
TenantsHaveHeads == tenants \subseteq heads

\* The foreign key of api_keys, and the tenants that create-api-key has found.
KeysOfTenants ==
  /\ \A k \in Keys : Exists(k) => keys[k].tenant \in tenants
  /\ \A c \in Commands : Creating(c) => command[c].tenant \in tenants

FreshKeysUnstored ==
  \A c \in Commands :
    Creating(c) /\ command[c].phase = "flushed" =>
      /\ ~Exists(command[c].key)
      /\ \A d \in Commands \ {c} : command[d].key # command[c].key

CommittedKeysStored ==
  \A c \in Commands : Creating(c) /\ command[c].phase = "committed" => Exists(command[c].key)

RevokedExist == \A k \in Keys : Revoked(k) => Exists(k)

RevocationsOfStored ==
  \A c \in Commands : command[c].name = "revoke-api-key" => Exists(command[c].key)

\* A request works with the stored row of the key it presented.
RequestsByOwnKey ==
  \A r \in Requests :
    request[r].phase = "authenticated" =>
      /\ request[r].actor = request[r].raw
      /\ Exists(request[r].raw)
      /\ request[r].tenant = keys[request[r].raw].tenant

AccessInv ==
  /\ TypeOK
  /\ TenantsHaveHeads
  /\ KeysOfTenants
  /\ FreshKeysUnstored
  /\ CommittedKeysStored
  /\ RevokedExist
  /\ RevocationsOfStored
  /\ RequestsByOwnKey
  /\ WorkByOwnKey
  /\ PrintedKeysStored

-----------------------------------------------------------------------------
LEMMA InitAccess == Init => AccessInv
<1> SUFFICES ASSUME Init PROVE AccessInv
  OBVIOUS
<1> QED
  BY NoneAssumption
  DEF Init, AccessInv, TypeOK, KeyRows, CommandStates, RequestStates, TenantsHaveHeads,
      KeysOfTenants, FreshKeysUnstored, CommittedKeysStored, RevokedExist,
      RevocationsOfStored, RequestsByOwnKey, WorkByOwnKey, PrintedKeysStored, Creating,
      Exists, Revoked, NoKey, NoCommand, NoRequest

\* A command that starts changes nothing that is stored.
LEMMA StartKeeps ==
  ASSUME AccessInv, NEW c \in Commands, NEW t, NEW k,
         \/ t \in Tenants /\ CreateTenant(c, t)
         \/ t \in Tenants /\ k \in Keys /\ CreateApiKey(c, t, k)
         \/ k \in Keys /\ RevokeApiKey(c, k)
  PROVE  AccessInv'
<1> USE DEF AccessInv, TypeOK
<1>0. UNCHANGED <<tenants, heads, keys, printed, request, work>>
  BY DEF CreateTenant, CreateApiKey, RevokeApiKey, Start
<1>1. TypeOK'
  BY <1>0 DEF CreateTenant, CreateApiKey, RevokeApiKey, Start, CommandStates
<1>2. KeysOfTenants'
  BY <1>0 DEF CreateTenant, CreateApiKey, RevokeApiKey, Start, KeysOfTenants, Creating, Exists
<1>3. FreshKeysUnstored'
  <2>1. CASE CreateTenant(c, t)
    BY <2>1, <1>0, NoneAssumption
    DEF CreateTenant, Start, FreshKeysUnstored, Creating, Exists, CommandStates, NoCommand
  <2>2. CASE CreateApiKey(c, t, k)
    BY <2>2, <1>0 DEF CreateApiKey, Start, FreshKeysUnstored, Creating, Exists
  <2>3. CASE RevokeApiKey(c, k)
    BY <2>3, <1>0 DEF RevokeApiKey, Start, FreshKeysUnstored, Creating, Exists
  <2> QED
    BY <2>1, <2>2, <2>3
<1>4. CommittedKeysStored'
  BY <1>0 DEF CreateTenant, CreateApiKey, RevokeApiKey, Start, CommittedKeysStored, Creating,
      Exists
<1>5. RevocationsOfStored'
  BY <1>0 DEF CreateTenant, CreateApiKey, RevokeApiKey, Start, RevocationsOfStored, Exists
<1> QED
  BY <1>0, <1>1, <1>2, <1>3, <1>4, <1>5
  DEF TenantsHaveHeads, RevokedExist, RequestsByOwnKey, WorkByOwnKey, PrintedKeysStored,
      Exists, Revoked

\* What a COMMIT stores: a row for an unstored key, or a revocation of a stored
\* one.  The tenant of a stored key stays.
LEMMA KeysKeepTenant ==
  ASSUME AccessInv, NEW c \in Commands, CommitCommand(c)
  PROVE  \A k \in Keys : Exists(k) => Exists(k)' /\ keys'[k].tenant = keys[k].tenant
<1> USE DEF AccessInv, TypeOK, KeyRows, NoKey
<1> SUFFICES ASSUME NEW k \in Keys, Exists(k)
             PROVE  keys'[k].tenant = keys[k].tenant
  BY DEF Exists
<1>1. CASE command[c].name = "create-api-key"
  <2>1. command[c].key # k
    BY <1>1 DEF CommitCommand, FreshKeysUnstored, Creating
  <2> QED
    BY <1>1, <2>1 DEF CommitCommand
<1>2. CASE command[c].name # "create-api-key"
  BY <1>2 DEF CommitCommand
<1> QED
  BY <1>1, <1>2

LEMMA CommitCommandKeeps ==
  ASSUME AccessInv, NEW c \in Commands, CommitCommand(c)
  PROVE  AccessInv'
<1> USE DEF AccessInv, TypeOK
<1>0. \A k \in Keys : Exists(k) => Exists(k)' /\ keys'[k].tenant = keys[k].tenant
  BY KeysKeepTenant
<1>1. CASE command[c].name = "create-tenant"
  <2>1. /\ command[c].tenant \in Tenants
        /\ tenants' = tenants \cup {command[c].tenant}
        /\ heads' = heads \cup {command[c].tenant}
        /\ command' = [command EXCEPT ![c] = NoCommand]
        /\ UNCHANGED <<keys, printed, request, work>>
    BY <1>1 DEF CommitCommand, HeadAdded, CommandStates, NoCommand
  <2>2. TypeOK'
    BY <2>1 DEF CommandStates
  <2>3. TenantsHaveHeads' /\ KeysOfTenants'
    BY <2>1 DEF TenantsHaveHeads, KeysOfTenants, Creating, Exists, NoCommand
  <2>4. FreshKeysUnstored'
    BY <2>1, NoneAssumption
    DEF FreshKeysUnstored, Creating, Exists, NoCommand, CommandStates
  <2>5. CommittedKeysStored' /\ RevocationsOfStored'
    BY <2>1 DEF CommittedKeysStored, RevocationsOfStored, Creating, Exists, NoCommand
  <2> QED
    BY <2>1, <2>2, <2>3, <2>4, <2>5
    DEF RevokedExist, RequestsByOwnKey, WorkByOwnKey, PrintedKeysStored, Exists, Revoked
<1>2. CASE command[c].name = "create-api-key"
  <2>1. /\ command[c].phase = "flushed"
        /\ command[c].key \in Keys
        /\ command[c].tenant \in tenants
        /\ keys' = [keys EXCEPT ![command[c].key] =
                      [tenant |-> command[c].tenant, revoked |-> FALSE]]
        /\ command' = [command EXCEPT ![c].phase = "committed"]
        /\ UNCHANGED <<tenants, heads, printed, request, work>>
    BY <1>2 DEF CommitCommand, CommandStates, NoCommand, KeysOfTenants, Creating
  <2>2. Exists(command[c].key)'
    BY <2>1, NoneAssumption DEF Exists
  <2>3. TypeOK'
    BY <1>2, <2>1 DEF CommandStates, KeyRows, NoCommand
  <2>4. KeysOfTenants'
    BY <2>1 DEF KeysOfTenants, Creating, Exists
  <2>5. FreshKeysUnstored'
    BY <1>2, <2>1 DEF FreshKeysUnstored, Creating, Exists
  <2>6. CommittedKeysStored' /\ RevocationsOfStored'
    BY <1>0, <2>1, <2>2, <1>2
    DEF CommittedKeysStored, RevocationsOfStored, Creating, CommandStates, NoCommand
  <2>7. RevokedExist'
    BY <2>1, <2>2 DEF RevokedExist, Revoked, Exists
  <2>8. RequestsByOwnKey'
    BY <1>0, <2>1 DEF RequestsByOwnKey, RequestStates, NoRequest
  <2>9. WorkByOwnKey' /\ PrintedKeysStored'
    BY <1>0, <2>1 DEF WorkByOwnKey, PrintedKeysStored
  <2> QED
    BY <2>1, <2>3, <2>4, <2>5, <2>6, <2>7, <2>8, <2>9 DEF TenantsHaveHeads
<1>3. CASE command[c].name = "revoke-api-key"
  <2>1. /\ command[c].key \in Keys
        /\ Exists(command[c].key)
        /\ keys' = [keys EXCEPT ![command[c].key].revoked = TRUE]
        /\ command' = [command EXCEPT ![c] = NoCommand]
        /\ UNCHANGED <<tenants, heads, printed, request, work>>
    BY <1>3 DEF CommitCommand, CommandStates, NoCommand, RevocationsOfStored
  <2>2. \A k \in Keys : keys'[k].tenant = keys[k].tenant
    BY <2>1 DEF KeyRows, NoKey
  <2>3. TypeOK'
    <3>1. keys' \in [Keys -> KeyRows]
      <4>1. keys[command[c].key] \in [tenant : Tenants, revoked : BOOLEAN]
        BY <2>1 DEF KeyRows, NoKey, Exists
      <4> QED
        BY <2>1, <4>1 DEF KeyRows
    <3> QED
      BY <2>1, <3>1 DEF CommandStates
  <2>4. KeysOfTenants' /\ CommittedKeysStored' /\ RevocationsOfStored'
    BY <2>1, <2>2
    DEF KeysOfTenants, CommittedKeysStored, RevocationsOfStored, Creating, Exists, NoCommand,
        CommandStates
  <2>5. FreshKeysUnstored'
    BY <2>1, <2>2, NoneAssumption
    DEF FreshKeysUnstored, Creating, Exists, NoCommand, CommandStates
  <2>6. RevokedExist'
    BY <2>1, <2>2 DEF RevokedExist, Revoked, Exists
  <2>7. RequestsByOwnKey'
    BY <1>0, <2>1 DEF RequestsByOwnKey, RequestStates, NoRequest
  <2>8. WorkByOwnKey' /\ PrintedKeysStored'
    BY <1>0, <2>1 DEF WorkByOwnKey, PrintedKeysStored
  <2> QED
    BY <2>1, <2>3, <2>4, <2>5, <2>6, <2>7, <2>8 DEF TenantsHaveHeads
<1> QED
  BY <1>1, <1>2, <1>3 DEF CommitCommand

\* A command that ends without storing anything.
LEMMA CommandEndKeeps ==
  ASSUME AccessInv, NEW c \in Commands, PrintKey(c) \/ Abort(c)
  PROVE  AccessInv'
<1> USE DEF AccessInv, TypeOK
<1>1. /\ command' = [command EXCEPT ![c] = NoCommand]
      /\ UNCHANGED <<tenants, heads, keys, request, work>>
  BY DEF PrintKey, Abort
<1>2. printed' \subseteq Keys /\ PrintedKeysStored'
  <2>1. CASE PrintKey(c)
    <3>1. command[c].key \in Keys /\ Exists(command[c].key)
      BY <2>1 DEF PrintKey, Printable, CommittedKeysStored, Creating, CommandStates, NoCommand
    <3> QED
      BY <2>1, <3>1, <1>1 DEF PrintKey, PrintedKeysStored, Exists
  <2>2. CASE Abort(c)
    BY <2>2 DEF Abort, PrintedKeysStored, Exists
  <2> QED
    BY <2>1, <2>2
<1>3. TypeOK'
  BY <1>1, <1>2 DEF CommandStates
<1>4. FreshKeysUnstored'
  BY <1>1, NoneAssumption DEF FreshKeysUnstored, Creating, Exists, NoCommand, CommandStates
<1>5. KeysOfTenants' /\ CommittedKeysStored' /\ RevocationsOfStored'
  BY <1>1 DEF KeysOfTenants, CommittedKeysStored, RevocationsOfStored, Creating, Exists,
      NoCommand
<1> QED
  BY <1>1, <1>2, <1>3, <1>4, <1>5
  DEF TenantsHaveHeads, RevokedExist, RequestsByOwnKey, WorkByOwnKey, Exists, Revoked

LEMMA RequestKeeps ==
  ASSUME AccessInv, NEW r \in Requests, NEW k,
         (k \in Keys /\ Present(r, k)) \/ Authenticate(r) \/ Commit(r) \/ Fail(r)
  PROVE  AccessInv'
<1> USE DEF AccessInv, TypeOK
<1>1. UNCHANGED <<tenants, heads, keys, printed, command>>
  BY DEF Present, Authenticate, Commit, Fail, Advance
<1>2. request' \in [Requests -> RequestStates] /\ RequestsByOwnKey'
  <2>1. CASE k \in Keys /\ Present(r, k)
    BY <2>1, <1>1 DEF Present, Advance, RequestStates, NoRequest, RequestsByOwnKey, Exists
  <2>2. CASE request' = [request EXCEPT ![r] = NoRequest]
    BY <2>2, <1>1 DEF RequestStates, NoRequest, RequestsByOwnKey, Exists
  <2>3. CASE Authenticate(r) /\ request' # [request EXCEPT ![r] = NoRequest]
    <3>1. PICK m \in Matching(request[r].raw) :
            request' = [request EXCEPT ![r] =
                          [phase |-> "authenticated", raw |-> request[r].raw,
                           actor |-> m, tenant |-> keys[m].tenant]]
      BY <2>3 DEF Authenticate, Advance
    <3>2. m \in Keys /\ m = request[r].raw /\ Exists(m) /\ keys[m].tenant \in Tenants
      BY <3>1 DEF Matching, KeyRows, NoKey, Exists
    <3> QED
      BY <3>1, <3>2, <1>1 DEF RequestStates, RequestsByOwnKey, Exists
  <2> QED
    BY <2>1, <2>2, <2>3 DEF Authenticate, Commit, Fail, Advance
<1>3. /\ work' \subseteq [raw : Keys, actor : Keys, tenant : Tenants]
      /\ WorkByOwnKey'
  <2>1. CASE Commit(r)
    <3>1. /\ request[r].raw \in Keys
          /\ request[r].actor = request[r].raw
          /\ Exists(request[r].raw)
          /\ request[r].tenant = keys[request[r].raw].tenant
          /\ request[r].tenant \in Tenants
      BY <2>1 DEF Commit, RequestsByOwnKey, RequestStates, NoRequest
    <3> QED
      BY <2>1, <3>1, <1>1 DEF Commit, WorkByOwnKey, Exists
  <2>2. CASE work' = work
    BY <2>2, <1>1 DEF WorkByOwnKey, Exists
  <2> QED
    BY <2>1, <2>2 DEF Present, Authenticate, Fail
<1> QED
  BY <1>1, <1>2, <1>3
  DEF TenantsHaveHeads, KeysOfTenants, FreshKeysUnstored, CommittedKeysStored, RevokedExist,
      RevocationsOfStored, PrintedKeysStored, Creating, Exists, Revoked

LEMMA StutterKeeps == AccessInv /\ UNCHANGED vars => AccessInv'
  BY DEF vars, AccessInv, TypeOK, TenantsHaveHeads, KeysOfTenants, FreshKeysUnstored,
      CommittedKeysStored, RevokedExist, RevocationsOfStored, RequestsByOwnKey, WorkByOwnKey,
      PrintedKeysStored, Creating, Exists, Revoked

LEMMA NextKeeps == AccessInv /\ [Next]_vars => AccessInv'
<1> SUFFICES ASSUME AccessInv, [Next]_vars
             PROVE  AccessInv'
  OBVIOUS
<1>1. CASE UNCHANGED vars
  BY <1>1, StutterKeeps
<1>2. ASSUME NEW c \in Commands,
             \/ \E t \in Tenants : CreateTenant(c, t)
             \/ \E t \in Tenants, k \in Keys : CreateApiKey(c, t, k)
             \/ \E k \in Keys : RevokeApiKey(c, k)
      PROVE  AccessInv'
  BY <1>2, StartKeeps
<1>3. ASSUME NEW c \in Commands, CommitCommand(c)
      PROVE  AccessInv'
  BY <1>3, CommitCommandKeeps
<1>4. ASSUME NEW c \in Commands, PrintKey(c) \/ Abort(c)
      PROVE  AccessInv'
  BY <1>4, CommandEndKeeps
<1>5. ASSUME NEW r \in Requests,
             (\E k \in Keys : Present(r, k)) \/ Authenticate(r) \/ Commit(r) \/ Fail(r)
      PROVE  AccessInv'
  BY <1>5, RequestKeeps
<1> QED
  BY <1>1, <1>2, <1>3, <1>4, <1>5 DEF Next

\* The inductive invariant of provisioning, keys and requests.
THEOREM AccessInvariant == Spec => []AccessInv
<1>1. Init => AccessInv
  BY InitAccess
<1>2. AccessInv /\ [Next]_vars => AccessInv'
  BY NextKeeps
<1> QED
  BY <1>1, <1>2, PTL DEF Spec

\* Every variable keeps its type.
THEOREM TypeCorrect == Spec => []TypeOK
<1>1. AccessInv => TypeOK
  BY DEF AccessInv
<1> QED
  BY <1>1, AccessInvariant, PTL

\* No request that is let in by its key ever lacks a chain head to record its
\* work in.
THEOREM AuthenticatedAlwaysRecord == Spec => []AuthenticatedCanRecord
<1>1. AccessInv => AuthenticatedCanRecord
  BY DEF AccessInv, AuthenticatedCanRecord, TenantsHaveHeads, KeysOfTenants, RequestsByOwnKey,
      TypeOK, RequestStates, NoRequest
<1> QED
  BY <1>1, AccessInvariant, PTL

\* All work is recorded under the key that was presented, for its tenant.
THEOREM WorkAlwaysByOwnKey == Spec => []WorkByOwnKey
<1>1. AccessInv => WorkByOwnKey
  BY DEF AccessInv
<1> QED
  BY <1>1, AccessInvariant, PTL

\* A key that was shown works until it is revoked.
THEOREM PrintedAlwaysStored == Spec => []PrintedKeysStored
<1>1. AccessInv => PrintedKeysStored
  BY DEF AccessInv
<1> QED
  BY <1>1, AccessInvariant, PTL

-----------------------------------------------------------------------------
\* No COMMIT makes a revoked key valid again.
LEMMA RevocationsStay ==
  ASSUME AccessInv, [Next]_vars, NEW k \in Keys, Revoked(k)
  PROVE  Revoked(k)'
<1>1. CASE \E c \in Commands : CommitCommand(c)
  <2>1. PICK c \in Commands : CommitCommand(c)
    BY <1>1
  <2>2. CASE command[c].name = "create-api-key"
    <3>1. Exists(k) /\ ~Exists(command[c].key)
      BY <2>1, <2>2 DEF AccessInv, RevokedExist, FreshKeysUnstored, Creating, CommitCommand
    <3> QED
      BY <2>1, <2>2, <3>1 DEF CommitCommand, Revoked, AccessInv, TypeOK, Exists
  <2>3. CASE command[c].name = "revoke-api-key"
    BY <2>1, <2>3 DEF CommitCommand, Revoked, AccessInv, TypeOK, KeyRows, NoKey
  <2>4. CASE command[c].name = "create-tenant"
    BY <2>1, <2>4 DEF CommitCommand, Revoked
  <2> QED
    BY <2>1, <2>2, <2>3, <2>4 DEF CommitCommand
<1>2. CASE UNCHANGED keys
  BY <1>2 DEF Revoked
<1> QED
  BY <1>1, <1>2 DEF Next, vars, CreateTenant, CreateApiKey, RevokeApiKey, Start, PrintKey,
      Abort, Present, Authenticate, Commit, Fail, Advance

\* Only Authenticate lets a request in.
LEMMA RequestSteps ==
  ASSUME TypeOK, [Next]_vars, NEW r \in Requests
  PROVE  \/ request'[r] = request[r]
         \/ request'[r].phase # "authenticated"
         \/ Authenticate(r)
<1>1. CASE UNCHANGED request
  BY <1>1
<1>2. ASSUME NEW q \in Requests, NEW k,
             Present(q, k) \/ Authenticate(q) \/ Commit(q) \/ Fail(q), q # r
      PROVE  request'[r] = request[r]
  BY <1>2 DEF TypeOK, Present, Authenticate, Commit, Fail, Advance
<1>3. ASSUME NEW k, Present(r, k) \/ Commit(r) \/ Fail(r)
      PROVE  request'[r].phase # "authenticated"
  BY <1>3 DEF TypeOK, Present, Commit, Fail, Advance, NoRequest
<1>4. UNCHANGED request
        \/ \E q \in Requests :
             (\E k \in Keys : Present(q, k)) \/ Authenticate(q) \/ Commit(q) \/ Fail(q)
  <2>1. CASE \E c \in Commands : CommitCommand(c) \/ PrintKey(c) \/ Abort(c)
    BY <2>1 DEF CommitCommand, PrintKey, Abort
  <2> QED
    BY <2>1 DEF Next, vars, CreateTenant, CreateApiKey, RevokeApiKey, Start
<1> QED
  BY <1>1, <1>2, <1>3, <1>4

\* Nobody gets in with a revoked key, neither by a lookup nor in a later step.
THEOREM RevocationsEndAccess == Spec => RevocationEndsAccess
<1> DEFINE Out(k) == Revoked(k) /\ Holders(k) = {}
<1>1. ASSUME AccessInv, [Next]_vars, NEW k \in Keys, Out(k)
      PROVE  Out(k)'
  <2>1. Revoked(k)'
    BY <1>1, RevocationsStay
  <2>2. ASSUME NEW r \in Requests, r \notin Holders(k)
        PROVE  r \notin Holders(k)'
    <3>1. CASE request'[r] = request[r]
      BY <2>2, <3>1 DEF Holders
    <3>2. CASE request'[r].phase # "authenticated"
      BY <3>2 DEF Holders
    <3>3. CASE Authenticate(r) /\ request'[r].phase = "authenticated"
      <4>1. request'[r].actor \in Matching(request[r].raw)
        BY <3>3, <1>1 DEF Authenticate, Advance, NoRequest, AccessInv, TypeOK
      <4> QED
        BY <4>1, <1>1 DEF Matching, Holders
    <3> QED
      BY <1>1, <3>1, <3>2, <3>3, RequestSteps DEF AccessInv
  <2>3. Holders(k)' \subseteq Requests
    BY DEF Holders
  <2> QED
    BY <1>1, <2>1, <2>2, <2>3
<1>2. AccessInv /\ [Next]_vars => [\A k \in Keys : Out(k) => Out(k)']_vars
  BY <1>1
<1> QED
  BY <1>2, AccessInvariant, PTL DEF Spec, RevocationEndsAccess
=============================================================================
