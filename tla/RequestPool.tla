----------------------------- MODULE RequestPool -----------------------------
(***************************************************************************)
(* What the requests of one server process share: the worker threads of    *)
(* the framework, the connections of the engine's pool, and the audit      *)
(* chain heads that writers hold until COMMIT (app/db/session.py and       *)
(* app/api/deps.py).                                                       *)
(*                                                                         *)
(* Dependencies and handlers are plain functions, so the framework runs    *)
(* each of them, and the validation of the response, in a worker thread;   *)
(* a request keeps none between two of them.  The lookup of the key has a  *)
(* session, hence a connection, of its own; the session of get_db has      *)
(* another one from its first statement, set_config, to the end of its     *)
(* transaction.  The exit of get_db runs in a thread that is never short.  *)
(* A pooled connection is a session of the database, with a setting        *)
(* app.current_tenant of its own.                                          *)
(***************************************************************************)
EXTENDS Naturals, FiniteSets

CONSTANTS Requests, Tenants, Connections,
          Threads,      \* number of worker threads
          None

\* pool_size + max_overflow of the engine is 15, the framework has 40 threads.
ASSUME SizesAssumption == /\ IsFiniteSet(Connections) /\ Connections # {}
                          /\ Threads \in Nat
                          /\ Cardinality(Connections) <= Threads
ASSUME NoneAssumption == None \notin Requests \cup Tenants \cup Connections

VARIABLES
  stage,    \* per request: what it is about to do, or doing
  thread,   \* the requests that occupy a worker thread
  conn,     \* per request: the connection it has checked out
  tenant,   \* per request: the tenant of its key, once looked up
  setting,  \* per connection: its app.current_tenant
  writer    \* per tenant: the request that holds its chain head

vars == <<stage, thread, conn, tenant, setting, writer>>

Stages == {"idle", "authenticate", "enter", "handle", "flush", "respond", "exit"}

Init ==
  /\ stage = [r \in Requests |-> "idle"]
  /\ thread = {}
  /\ conn = [r \in Requests |-> None]
  /\ tenant = [r \in Requests |-> None]
  /\ setting = [c \in Connections |-> None]
  /\ writer = [t \in Tenants |-> None]

Arrive(r) ==
  /\ stage[r] = "idle"
  /\ stage' = [stage EXCEPT ![r] = "authenticate"]
  /\ UNCHANGED <<thread, conn, tenant, setting, writer>>

\* The framework gives a thread to a request whose next function is to be run.
TakeThread(r) ==
  /\ stage[r] \in {"authenticate", "enter", "handle", "respond"}
  /\ r \notin thread
  /\ Cardinality(thread) < Threads
  /\ thread' = thread \cup {r}
  /\ UNCHANGED <<stage, conn, tenant, setting, writer>>

\* The function returns or raises, and its thread is free again.
Return(r, next) ==
  /\ stage' = [stage EXCEPT ![r] = next]
  /\ thread' = thread \ {r}

-----------------------------------------------------------------------------
\* The pool.

\* Mutated form: the pool has no limit.
AvailableUnlimited == Connections

Available == Connections \ {conn[r] : r \in Requests}

WaitsForConnection(r) ==
  r \in thread /\ stage[r] \in {"authenticate", "enter"} /\ conn[r] = None

\* The first statement of a session checks a connection out; that of a pinned
\* session is set_config.
Connect(r) ==
  /\ WaitsForConnection(r)
  /\ \E c \in Available :
       /\ conn' = [conn EXCEPT ![r] = c]
       /\ setting' = IF stage[r] = "enter" THEN [setting EXCEPT ![c] = tenant[r]] ELSE setting
  /\ UNCHANGED <<stage, thread, tenant, writer>>

\* Mutated form: the request tries again.
AfterTimeoutRetry == "authenticate"

\* The error goes to the client.
AfterTimeout == "idle"

\* QueuePool raises TimeoutError after pool_timeout seconds.
PoolTimeout(r) ==
  /\ WaitsForConnection(r)
  /\ Available = {}
  /\ Return(r, AfterTimeout)
  /\ tenant' = [tenant EXCEPT ![r] = None]
  /\ UNCHANGED <<conn, setting, writer>>

-----------------------------------------------------------------------------
\* The functions of a request.

\* Mutated form: the session of the lookup is not closed.
ConnAfterLookupOpen(r) == conn

\* "with SessionLocal() as db" closes the session.
ConnAfterLookup(r) == [conn EXCEPT ![r] = None]

\* Mutated form: the lookup may find nothing.
KeyTenantsUnchecked == Tenants \cup {None}

\* The tenants a valid key may have.
KeyTenants == Tenants

\* get_current_tenant; without a valid key the request ends with 401.
Authenticated(r) ==
  /\ stage[r] = "authenticate" /\ conn[r] # None
  /\ \/ \E t \in KeyTenants : /\ tenant' = [tenant EXCEPT ![r] = t]
                              /\ Return(r, "enter")
     \/ /\ Return(r, "idle")
        /\ UNCHANGED tenant
  /\ conn' = ConnAfterLookup(r)
  /\ UNCHANGED <<setting, writer>>

\* tenant_session up to its yield.
Entered(r) ==
  /\ stage[r] = "enter" /\ conn[r] # None
  /\ Return(r, "handle")
  /\ UNCHANGED <<conn, tenant, setting, writer>>

\* The handler reads only, or raises, or has something to flush.
Handle(r) ==
  /\ stage[r] = "handle" /\ r \in thread
  /\ \/ \E next \in {"respond", "exit"} : Return(r, next)
     \/ /\ stage' = [stage EXCEPT ![r] = "flush"]
        /\ UNCHANGED thread
  /\ UNCHANGED <<conn, tenant, setting, writer>>

\* SELECT ... FOR UPDATE returns.
Lockable(r) == writer[tenant[r]] = None

\* _append_to_chain locks the head; the handler goes on and returns, or raises.
Flush(r) ==
  /\ stage[r] = "flush"
  /\ Lockable(r)
  /\ writer' = [writer EXCEPT ![tenant[r]] = r]
  /\ \E next \in {"respond", "exit"} : Return(r, next)
  /\ UNCHANGED <<conn, tenant, setting>>

\* The response is validated while the session is still open.
Respond(r) ==
  /\ stage[r] = "respond" /\ r \in thread
  /\ Return(r, "exit")
  /\ UNCHANGED <<conn, tenant, setting, writer>>

\* Mutated form: set_config(..., false) outlives the transaction.
SettingAfterKept(r) == setting

\* set_config(..., true) ends with the transaction.  PostgreSQL leaves an empty
\* string behind, which names no tenant either.
SettingAfter(r) == [setting EXCEPT ![conn[r]] = None]

\* COMMIT or ROLLBACK, and the connection goes back to the pool.
Exit(r) ==
  /\ stage[r] = "exit"
  /\ setting' = SettingAfter(r)
  /\ writer' = [t \in Tenants |-> IF writer[t] = r THEN None ELSE writer[t]]
  /\ conn' = [conn EXCEPT ![r] = None]
  /\ tenant' = [tenant EXCEPT ![r] = None]
  /\ stage' = [stage EXCEPT ![r] = "idle"]
  /\ UNCHANGED thread

Next ==
  \E r \in Requests :
    \/ Arrive(r)
    \/ TakeThread(r)
    \/ Connect(r)
    \/ PoolTimeout(r)
    \/ Authenticated(r)
    \/ Entered(r)
    \/ Handle(r)
    \/ Flush(r)
    \/ Respond(r)
    \/ Exit(r)

Spec == Init /\ [][Next]_vars

\* What has begun goes on.  Threads and row locks are handed out in the order
\* in which they were asked for; a request that waits for a connection gets one
\* or the timeout, and no order of the waiters is assumed.
Fairness ==
  \A r \in Requests :
    /\ SF_vars(TakeThread(r))
    /\ WF_vars(Connect(r) \/ PoolTimeout(r))
    /\ SF_vars(Flush(r))
    /\ WF_vars(Authenticated(r) \/ Entered(r) \/ Handle(r) \/ Respond(r) \/ Exit(r))

FairSpec == Spec /\ Fairness

-----------------------------------------------------------------------------
\* Types of the variables; a request that is let in has a tenant.
TypeOK ==
  /\ stage \in [Requests -> Stages]
  /\ thread \subseteq Requests
  /\ conn \in [Requests -> Connections \cup {None}]
  /\ tenant \in [Requests -> Tenants \cup {None}]
  /\ \A r \in Requests : stage[r] \notin {"idle", "authenticate"} => tenant[r] \in Tenants
  /\ setting \in [Connections -> Tenants \cup {None}]
  /\ writer \in [Tenants -> Requests \cup {None}]

InTransaction(r) == stage[r] \in {"handle", "flush", "respond", "exit"}

\* A connection is checked out by one request, no more threads are used than
\* there are, and a request that has ended, in whatever way, keeps neither a
\* thread nor a connection nor a chain head.
NothingLeaks ==
  /\ \A r, q \in Requests : conn[r] = conn[q] /\ conn[r] # None => r = q
  /\ Cardinality(thread) <= Threads
  /\ \A r \in Requests : stage[r] = "idle" =>
       r \notin thread /\ conn[r] = None /\ \A t \in Tenants : writer[t] # r

\* A connection in the pool, and one that looks a key up, is pinned to no
\* tenant, and that of a transaction to the tenant of its request.
PinnedToOwnTenant ==
  /\ \A c \in Available : setting[c] = None
  /\ \A r \in Requests : /\ InTransaction(r) => conn[r] # None /\ setting[conn[r]] = tenant[r]
                         /\ stage[r] = "authenticate" /\ conn[r] # None => setting[conn[r]] = None

\* Requests that wait for a chain head leave a thread to others: the holder of
\* the head, which needs one for its response, can go on.
ThreadBeyondLocks ==
  \A t \in Tenants : writer[t] # None =>
    Cardinality({r \in Requests : stage[r] = "flush" /\ tenant[r] = t}) < Threads

\* Every request ends, though requests that hold connections wait for threads
\* whose requests wait for connections.
RequestsEnd == \A r \in Requests : stage[r] # "idle" ~> stage[r] = "idle"
=============================================================================
