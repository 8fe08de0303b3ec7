------------------------- MODULE RequestPoolProofs -------------------------
(***************************************************************************)
(* Theorems about RequestPool, for any number of requests, tenants,        *)
(* connections and threads within SizesAssumption.                         *)
(*                                                                         *)
(* The invariant says at which stages a request holds what.  That a reused *)
(* connection is never pinned to an earlier tenant needs all of it: the    *)
(* connection of a transaction is nobody else's, and its setting is its    *)
(* own tenant from set_config to the end of the transaction.               *)
(***************************************************************************)
EXTENDS RequestPool, FiniteSetTheorems, FunctionTheorems, TLAPS

\* What a request may hold at each stage.
StagesHold ==
  \A r \in Requests :
    /\ r \in thread => stage[r] \notin {"idle", "exit"}
    /\ stage[r] = "flush" => r \in thread
    /\ stage[r] = "idle" => conn[r] = None
    /\ stage[r] \in {"authenticate", "enter"} /\ conn[r] # None => r \in thread
    /\ stage[r] = "enter" /\ conn[r] # None => setting[conn[r]] = tenant[r]

\* A chain head is held by a request of its tenant that has flushed.
HeadsHeld ==
  \A t \in Tenants : writer[t] # None =>
    /\ stage[writer[t]] \in {"respond", "exit"}
    /\ tenant[writer[t]] = t

ConnsExclusive == \A r, q \in Requests : conn[r] = conn[q] /\ conn[r] # None => r = q

ThreadsBounded == IsFiniteSet(thread) /\ Cardinality(thread) <= Threads

PoolInv ==
  /\ TypeOK
  /\ StagesHold
  /\ HeadsHeld
  /\ ConnsExclusive
  /\ PinnedToOwnTenant
  /\ ThreadsBounded

-----------------------------------------------------------------------------
LEMMA InitPool == Init => PoolInv
<1> SUFFICES ASSUME Init PROVE PoolInv
  OBVIOUS
<1> USE DEF Init
<1>1. TypeOK
  BY DEF TypeOK, Stages
<1>2. StagesHold /\ HeadsHeld /\ ConnsExclusive
  BY DEF StagesHold, HeadsHeld, ConnsExclusive
<1>3. PinnedToOwnTenant
  BY DEF PinnedToOwnTenant, InTransaction, Available
<1>4. ThreadsBounded
  BY FS_EmptySet, SizesAssumption DEF ThreadsBounded
<1> QED
  BY <1>1, <1>2, <1>3, <1>4 DEF PoolInv

\* Threads are taken below the limit, and given back.
LEMMA ThreadsStayBounded ==
  ASSUME ThreadsBounded, NEW r,
         \/ Cardinality(thread) < Threads /\ thread' = thread \cup {r}
         \/ thread' = thread \ {r}
         \/ thread' = thread
  PROVE  ThreadsBounded'
<1>1. Cardinality(thread) \in Nat /\ Threads \in Nat
  BY FS_CardinalityType, SizesAssumption DEF ThreadsBounded
<1>2. CASE Cardinality(thread) < Threads /\ thread' = thread \cup {r}
  BY <1>1, <1>2, FS_AddElement DEF ThreadsBounded
<1>3. CASE thread' = thread \ {r}
  <2>1. IsFiniteSet(thread \ {r}) /\ Cardinality(thread \ {r}) <= Cardinality(thread)
    BY <1>1, FS_RemoveElement DEF ThreadsBounded
  <2>2. Cardinality(thread \ {r}) \in Nat
    BY <2>1, FS_CardinalityType
  <2> QED
    BY <1>1, <1>3, <2>1, <2>2 DEF ThreadsBounded
<1>4. CASE thread' = thread
  BY <1>4 DEF ThreadsBounded
<1> QED
  BY <1>2, <1>3, <1>4

LEMMA ArriveKeeps ==
  ASSUME PoolInv, NEW r \in Requests, Arrive(r)
  PROVE  PoolInv'
<1> USE DEF PoolInv, TypeOK, Stages, Arrive
<1>1. TypeOK'
  OBVIOUS
<1>2. StagesHold' /\ HeadsHeld'
  BY DEF StagesHold, HeadsHeld
<1>3. ConnsExclusive' /\ PinnedToOwnTenant'
  BY DEF StagesHold, ConnsExclusive, PinnedToOwnTenant, InTransaction, Available
<1>4. ThreadsBounded'
  BY ThreadsStayBounded
<1> QED
  BY <1>1, <1>2, <1>3, <1>4

LEMMA TakeThreadKeeps ==
  ASSUME PoolInv, NEW r \in Requests, TakeThread(r)
  PROVE  PoolInv'
<1> USE DEF PoolInv, TypeOK, Stages, TakeThread
<1>1. TypeOK'
  OBVIOUS
<1>2. StagesHold' /\ HeadsHeld'
  BY DEF StagesHold, HeadsHeld
<1>3. ConnsExclusive' /\ PinnedToOwnTenant'
  BY DEF ConnsExclusive, PinnedToOwnTenant, InTransaction, Available
<1>4. ThreadsBounded'
  BY ThreadsStayBounded
<1> QED
  BY <1>1, <1>2, <1>3, <1>4

\* The connection comes from the pool, so nobody has it; it is pinned unless
\* it serves the lookup of a key.
LEMMA ConnectKeeps ==
  ASSUME PoolInv, NEW r \in Requests, Connect(r)
  PROVE  PoolInv'
<1> USE DEF PoolInv, TypeOK, Stages
<1>1. PICK c \in Available :
        /\ conn' = [conn EXCEPT ![r] = c]
        /\ setting' = IF stage[r] = "enter" THEN [setting EXCEPT ![c] = tenant[r]] ELSE setting
  BY DEF Connect
<1>2. /\ UNCHANGED <<stage, thread, tenant, writer>>
      /\ r \in thread /\ stage[r] \in {"authenticate", "enter"} /\ conn[r] = None
  BY DEF Connect, WaitsForConnection
<1>3. /\ c \in Connections /\ c # None /\ setting[c] = None
      /\ \A q \in Requests : conn[q] # c
  BY <1>1, NoneAssumption DEF Available, PinnedToOwnTenant
<1>4. TypeOK'
  BY <1>1, <1>2, <1>3
<1>5. StagesHold' /\ HeadsHeld'
  BY <1>1, <1>2, <1>3 DEF StagesHold, HeadsHeld
<1>6. ConnsExclusive'
  BY <1>1, <1>3 DEF ConnsExclusive
<1>7. Available' = Available \ {c}
  BY <1>1, <1>2, <1>3, NoneAssumption DEF Available
<1>8. PinnedToOwnTenant'
  BY <1>1, <1>2, <1>3, <1>7 DEF PinnedToOwnTenant, InTransaction
<1>9. ThreadsBounded'
  BY <1>2 DEF ThreadsBounded
<1> QED
  BY <1>4, <1>5, <1>6, <1>8, <1>9

LEMMA PoolTimeoutKeeps ==
  ASSUME PoolInv, NEW r \in Requests, PoolTimeout(r)
  PROVE  PoolInv'
<1> USE DEF PoolInv, TypeOK, Stages, PoolTimeout, Return, AfterTimeout, WaitsForConnection
<1>1. TypeOK'
  OBVIOUS
<1>2. StagesHold'
  BY DEF StagesHold
<1>3. HeadsHeld'
  BY DEF HeadsHeld
<1>4. ConnsExclusive' /\ PinnedToOwnTenant'
  BY DEF ConnsExclusive, PinnedToOwnTenant, InTransaction, Available
<1>5. ThreadsBounded'
  BY ThreadsStayBounded
<1> QED
  BY <1>1, <1>2, <1>3, <1>4, <1>5

\* The connection of the lookup was never pinned and goes back to the pool.
LEMMA AuthenticatedKeeps ==
  ASSUME PoolInv, NEW r \in Requests, Authenticated(r)
  PROVE  PoolInv'
<1> USE DEF PoolInv, TypeOK, Stages, Authenticated, Return, ConnAfterLookup, KeyTenants
<1>1. TypeOK'
  BY NoneAssumption
<1>2. StagesHold'
  BY DEF StagesHold
<1>3. HeadsHeld'
  BY DEF HeadsHeld
<1>4. ConnsExclusive'
  BY DEF ConnsExclusive
<1>5. Available' \subseteq Available \cup {conn[r]}
  BY DEF Available
<1>6. PinnedToOwnTenant'
  <2>1. \A c \in Available' : setting'[c] = None
    BY <1>5 DEF PinnedToOwnTenant
  <2>2. \A q \in Requests \ {r} : stage'[q] = stage[q] /\ conn'[q] = conn[q] /\ tenant'[q] = tenant[q]
    OBVIOUS
  <2>3. conn'[r] = None /\ stage'[r] \in {"enter", "idle"} /\ setting' = setting
    OBVIOUS
  <2> QED
    BY <2>1, <2>2, <2>3 DEF PinnedToOwnTenant, InTransaction
<1>7. ThreadsBounded'
  BY ThreadsStayBounded
<1> QED
  BY <1>1, <1>2, <1>3, <1>4, <1>6, <1>7

LEMMA EnteredKeeps ==
  ASSUME PoolInv, NEW r \in Requests, Entered(r)
  PROVE  PoolInv'
<1> USE DEF PoolInv, TypeOK, Stages, Entered, Return
<1>1. TypeOK'
  OBVIOUS
<1>2. StagesHold' /\ HeadsHeld'
  BY DEF StagesHold, HeadsHeld
<1>3. ConnsExclusive' /\ PinnedToOwnTenant'
  BY DEF StagesHold, ConnsExclusive, PinnedToOwnTenant, InTransaction, Available
<1>4. ThreadsBounded'
  BY ThreadsStayBounded
<1> QED
  BY <1>1, <1>2, <1>3, <1>4

LEMMA HandleKeeps ==
  ASSUME PoolInv, NEW r \in Requests, Handle(r)
  PROVE  PoolInv'
<1> USE DEF PoolInv, TypeOK, Stages, Handle, Return
<1>1. TypeOK'
  OBVIOUS
<1>2. StagesHold'
  BY DEF StagesHold
<1>3. HeadsHeld'
  BY DEF HeadsHeld
<1>4. ConnsExclusive' /\ PinnedToOwnTenant'
  BY DEF ConnsExclusive, PinnedToOwnTenant, InTransaction, Available
<1>5. ThreadsBounded'
  BY ThreadsStayBounded
<1> QED
  BY <1>1, <1>2, <1>3, <1>4, <1>5

LEMMA FlushKeeps ==
  ASSUME PoolInv, NEW r \in Requests, Flush(r)
  PROVE  PoolInv'
<1> USE DEF PoolInv, TypeOK, Stages, Flush, Return, Lockable
<1>1. TypeOK'
  OBVIOUS
<1>2. StagesHold'
  BY DEF StagesHold
<1>3. HeadsHeld'
  BY NoneAssumption DEF HeadsHeld
<1>4. ConnsExclusive' /\ PinnedToOwnTenant'
  BY DEF ConnsExclusive, PinnedToOwnTenant, InTransaction, Available
<1>5. ThreadsBounded'
  BY ThreadsStayBounded
<1> QED
  BY <1>1, <1>2, <1>3, <1>4, <1>5

LEMMA RespondKeeps ==
  ASSUME PoolInv, NEW r \in Requests, Respond(r)
  PROVE  PoolInv'
<1> USE DEF PoolInv, TypeOK, Stages, Respond, Return
<1>1. TypeOK'
  OBVIOUS
<1>2. StagesHold' /\ HeadsHeld'
  BY DEF StagesHold, HeadsHeld
<1>3. ConnsExclusive' /\ PinnedToOwnTenant'
  BY DEF ConnsExclusive, PinnedToOwnTenant, InTransaction, Available
<1>4. ThreadsBounded'
  BY ThreadsStayBounded
<1> QED
  BY <1>1, <1>2, <1>3, <1>4

\* The setting of the connection ends with the transaction that returns it, and
\* no other request has that connection.
LEMMA ExitKeeps ==
  ASSUME PoolInv, NEW r \in Requests, Exit(r)
  PROVE  PoolInv'
<1> USE DEF PoolInv, TypeOK, Stages, Exit, SettingAfter
<1>1. conn[r] \in Connections /\ \A q \in Requests \ {r} : conn[q] # conn[r]
  BY DEF PinnedToOwnTenant, InTransaction, ConnsExclusive
<1>2. TypeOK'
  BY <1>1
<1>3. StagesHold'
  BY <1>1 DEF StagesHold
<1>4. HeadsHeld'
  BY DEF HeadsHeld
<1>5. ConnsExclusive'
  BY DEF ConnsExclusive
<1>6. Available' \subseteq Available \cup {conn[r]}
  BY DEF Available
<1>7. PinnedToOwnTenant'
  <2>1. \A c \in Available' : setting'[c] = None
    BY <1>1, <1>6 DEF PinnedToOwnTenant, Available
  <2>2. \A q \in Requests \ {r} :
          /\ stage'[q] = stage[q] /\ conn'[q] = conn[q] /\ tenant'[q] = tenant[q]
          /\ conn[q] \in Connections => setting'[conn[q]] = setting[conn[q]]
    BY <1>1
  <2>3. conn'[r] = None /\ stage'[r] = "idle"
    OBVIOUS
  <2> QED
    BY <2>1, <2>2, <2>3 DEF PinnedToOwnTenant, InTransaction
<1>8. ThreadsBounded'
  BY ThreadsStayBounded
<1> QED
  BY <1>2, <1>3, <1>4, <1>5, <1>7, <1>8

LEMMA StepPool == PoolInv /\ [Next]_vars => PoolInv'
<1> SUFFICES ASSUME PoolInv, [Next]_vars PROVE PoolInv'
  OBVIOUS
<1>1. CASE UNCHANGED vars
  BY <1>1
  DEF vars, PoolInv, TypeOK, StagesHold, HeadsHeld, ConnsExclusive, PinnedToOwnTenant,
      InTransaction, Available, ThreadsBounded
<1>2. ASSUME NEW r \in Requests,
             \/ Arrive(r) \/ TakeThread(r) \/ Connect(r) \/ PoolTimeout(r) \/ Authenticated(r)
             \/ Entered(r) \/ Handle(r) \/ Flush(r) \/ Respond(r) \/ Exit(r)
      PROVE  PoolInv'
  BY <1>2, ArriveKeeps, TakeThreadKeeps, ConnectKeeps, PoolTimeoutKeeps, AuthenticatedKeeps,
     EnteredKeeps, HandleKeeps, FlushKeeps, RespondKeeps, ExitKeeps
<1> QED
  BY <1>1, <1>2 DEF Next

\* The inductive invariant holds in every reachable state: which request holds
\* which thread, connection, setting and chain head at which stage.
THEOREM PoolInvariant == Spec => []PoolInv
<1> QED
  BY InitPool, StepPool, PTL DEF Spec

\* Every variable keeps its type.
THEOREM TypeCorrect == Spec => []TypeOK
<1>1. PoolInv => TypeOK
  BY DEF PoolInv
<1> QED
  BY <1>1, PoolInvariant, PTL

-----------------------------------------------------------------------------
\* tenant_session, get_current_tenant: no request that has ended keeps a
\* thread, a connection or a chain head, and no connection has two owners.
THEOREM NothingEverLeaks == Spec => []NothingLeaks
<1>1. PoolInv => NothingLeaks
  BY NoneAssumption
  DEF PoolInv, TypeOK, StagesHold, HeadsHeld, ConnsExclusive, ThreadsBounded, NothingLeaks
<1> QED
  BY <1>1, PoolInvariant, PTL

\* set_config(..., true): a connection carries no tenant from one request to
\* the next, and a transaction always runs as its own tenant.
THEOREM AlwaysPinnedToOwnTenant == Spec => []PinnedToOwnTenant
<1>1. PoolInv => PinnedToOwnTenant
  BY DEF PoolInv
<1> QED
  BY <1>1, PoolInvariant, PTL

\* Every transaction has a connection of its own.
LEMMA TransactionsFit ==
  ASSUME PoolInv, NEW S \in SUBSET Requests, \A r \in S : InTransaction(r)
  PROVE  IsFiniteSet(S) /\ Cardinality(S) <= Cardinality(Connections)
<1> DEFINE f == [r \in S |-> conn[r]]
<1>1. \A r \in S : conn[r] \in Connections /\ conn[r] # None
  BY DEF PoolInv, TypeOK, PinnedToOwnTenant
<1>2. \A r, q \in S : conn[r] = conn[q] => r = q
  BY <1>1 DEF PoolInv, ConnsExclusive
<1>3. f \in Injection(S, Connections)
  BY <1>1, <1>2 DEF Injection, IsInjective
<1> HIDE DEF f
<1> QED
  BY <1>3, SizesAssumption, FS_Injection

\* The requests that wait for the chain head of t and its holder have different
\* connections, and there are no more connections than threads.
LEMMA WaitersHaveConnections ==
  ASSUME PoolInv, NEW t \in Tenants, writer[t] # None
  PROVE  Cardinality({r \in Requests : stage[r] = "flush" /\ tenant[r] = t}) < Threads
<1> DEFINE waiters == {r \in Requests : stage[r] = "flush" /\ tenant[r] = t}
           everyone == waiters \cup {writer[t]}
<1> USE DEF PoolInv, TypeOK
<1>1. writer[t] \in Requests /\ writer[t] \notin waiters /\ InTransaction(writer[t])
  BY DEF HeadsHeld, InTransaction
<1>2. \A r \in everyone : r \in Requests /\ InTransaction(r)
  BY <1>1 DEF InTransaction
<1>3. IsFiniteSet(everyone) /\ Cardinality(everyone) <= Cardinality(Connections)
  <2> HIDE DEF everyone
  <2> QED
    BY <1>2, TransactionsFit
<1>4. IsFiniteSet(waiters)
  <2>1. waiters \in SUBSET everyone
    OBVIOUS
  <2> HIDE DEF waiters, everyone
  <2> QED
    BY <1>3, <2>1, FS_Subset
<1>5. Cardinality(everyone) = Cardinality(waiters) + 1
  <2> HIDE DEF waiters
  <2> QED
    BY <1>1, <1>4, FS_AddElement
<1>6. Cardinality(waiters) \in Nat /\ Cardinality(Connections) \in Nat
  <2> HIDE DEF waiters
  <2> QED
    BY <1>4, SizesAssumption, FS_CardinalityType
<1> HIDE DEF everyone, waiters
<1>7. Cardinality(waiters) < Threads
  BY <1>3, <1>5, <1>6, SizesAssumption
<1> QED
  BY <1>7 DEF waiters

\* create_engine's pool is no larger than the framework's threads: requests
\* that wait for one chain head never occupy every thread while it is held.
THEOREM AlwaysThreadBeyondLocks == Spec => []ThreadBeyondLocks
<1>1. PoolInv => ThreadBeyondLocks
  BY WaitersHaveConnections DEF ThreadBeyondLocks
<1> QED
  BY <1>1, PoolInvariant, PTL

-----------------------------------------------------------------------------
\* The guards of what a request at its stage waits for: a thread or that it has
\* one (then a connection or the timeout comes), the chain head, or nothing.
MayProceed(r) ==
  \/ /\ stage[r] \in {"authenticate", "enter", "handle", "respond"}
     /\ r \in thread \/ Cardinality(thread) < Threads
  \/ stage[r] = "flush" /\ Lockable(r)
  \/ stage[r] = "exit"

\* Threads, connections and chain heads of all tenants together never lock up:
\* as long as a request is open, an open request can go on.
NoGridlock ==
  (\E r \in Requests : stage[r] # "idle") =>
    \E r \in Requests : stage[r] # "idle" /\ MayProceed(r)

\* Were every thread taken by a request that waits for some chain head, and the
\* holder of one of them without a thread, there would be more transactions
\* than connections.
LEMMA PoolMoves ==
  ASSUME PoolInv
  PROVE  NoGridlock
<1> SUFFICES ASSUME NEW open \in Requests, stage[open] # "idle",
                    \A r \in Requests : stage[r] # "idle" => ~MayProceed(r)
             PROVE  FALSE
  BY DEF NoGridlock
<1>1. /\ stage \in [Requests -> Stages] /\ thread \in SUBSET Requests
      /\ IsFiniteSet(thread) /\ Cardinality(thread) <= Threads
  BY DEF PoolInv, TypeOK, ThreadsBounded
<1>2. Cardinality(thread) \in Nat /\ Cardinality(Connections) \in Nat \ {0}
  BY <1>1, SizesAssumption, FS_CardinalityType, FS_EmptySet
<1>3. \A r \in thread : stage[r] = "flush"
  BY <1>1 DEF PoolInv, StagesHold, MayProceed, Stages
<1>4. \A r \in Requests : stage[r] \notin {"idle", "flush"} => Cardinality(thread) = Threads
  BY <1>1, <1>2, SizesAssumption DEF MayProceed, Stages
<1>5. thread # {}
  <2>1. CASE stage[open] = "flush"
    BY <2>1 DEF PoolInv, StagesHold
  <2>2. CASE stage[open] # "flush"
    BY <1>2, <1>4, <2>2, SizesAssumption, FS_EmptySet
  <2> QED
    BY <2>1, <2>2
<1>6. PICK q \in thread : stage[q] = "flush"
  BY <1>3, <1>5
<1> DEFINE w == writer[tenant[q]]
<1>7. w \in Requests /\ stage[w] \in {"respond", "exit"}
  <2>1. tenant[q] \in Tenants /\ w # None
    BY <1>1, <1>6 DEF PoolInv, TypeOK, MayProceed, Lockable
  <2> QED
    BY <2>1 DEF PoolInv, TypeOK, HeadsHeld
<1> HIDE DEF w
<1>8. w \notin thread /\ Cardinality(thread) = Threads
  BY <1>3, <1>4, <1>7
<1> DEFINE everyone == thread \cup {w}
<1>9. Cardinality(everyone) = Threads + 1
  BY <1>1, <1>8, FS_AddElement
<1>10. \A r \in everyone : r \in Requests /\ InTransaction(r)
  BY <1>1, <1>3, <1>7 DEF InTransaction
<1> HIDE DEF everyone
<1>11. Cardinality(everyone) <= Cardinality(Connections)
  BY <1>10, TransactionsFit
<1> QED
  BY <1>2, <1>9, <1>11, SizesAssumption

\* Requests of all tenants that compete for threads, connections and chain heads
\* never all wait for each other, for any sizes within SizesAssumption.
THEOREM PoolNeverGridlocked == Spec => []NoGridlock
<1>1. PoolInv => NoGridlock
  BY PoolMoves
<1> QED
  BY <1>1, PoolInvariant, PTL
=============================================================================
