------------------------ MODULE ChainVerifierProofs ------------------------
(***************************************************************************)
(* What verify_chain reports is right, whatever is appended and altered    *)
(* before, between and after its two reads.                                *)
(***************************************************************************)
EXTENDS ChainVerifier, SequenceTheorems, TLAPS

\* The audited unit of work over the log as it was committed.  No session reads
\* audit_log, so altering its rows does not change what sessions do, and what is
\* proved of AuditLog holds of "recorded" in the place of "log".
R == INSTANCE AuditLogProofs WITH log <- recorded

LEMMA InstanceAssumptions ==
  /\ NoRequest \notin Requests
  /\ NoTenant \notin Tenants
  /\ StoredAs \in [Columns -> [Values -> Values]]
  /\ MaxLog \in Nat /\ MaxWrites \in Nat
BY NoRequestAssumption, NoTenantAssumption, StoredAssumption, BoundsAssumption

\* The operators of both copies are the same.
LEMMA SameRows ==
  /\ R!NoRow = NoRow /\ R!Rows = Rows /\ R!Payloads = Payloads
  /\ R!EmptyTable = EmptyTable /\ R!FullRow = FullRow /\ R!NoHead = NoHead
  /\ R!Heads = Heads
  /\ \A row : R!AsStored(row) = AsStored(row)
BY DEF R!AsStored, AsStored, R!J!AsStored, J!AsStored,
       R!NoRow, NoRow, R!J!NoRow, J!NoRow, R!Rows, Rows, R!J!Rows, J!Rows,
       R!Payloads, Payloads, R!J!Payloads, J!Payloads, R!EmptyTable, EmptyTable,
       R!J!EmptyTable, J!EmptyTable, R!FullRow, FullRow, R!NoHead, NoHead, R!Heads, Heads,
       R!Digests, Digests

LEMMA SameChain ==
  /\ \A P : R!Entries(P) = Entries(P)
  /\ \A t, s : R!Tip(t, s) = Tip(t, s)
  /\ \A t, s, i : R!RowChecks(t, s, i) <=> RowChecks(t, s, i)
  /\ \A t, s : R!Chained(t, s) <=> Chained(t, s)
  /\ \A t, s, h : R!HeadMatches(t, s, h) <=> HeadMatches(t, s, h)
  /\ \A t, s : R!BadRows(t, s) = BadRows(t, s)
BY DEF R!Entries, Entries, R!Digests, Digests, R!Tip, Tip, R!RowChecks, RowChecks,
       R!RunningHash, RunningHash, R!genesis_hash, genesis_hash, R!chain_hash, chain_hash,
       R!Chained, Chained, R!HeadMatches, HeadMatches, R!BadRows, BadRows

LEMMA SameSessions ==
  /\ \A r : R!Open(r) <=> Open(r)
  /\ \A r : R!Working(r) <=> Working(r)
  /\ \A r : R!Added(r) = Added(r) /\ R!Dirty(r) = Dirty(r) /\ R!Pending(r) = Pending(r)
  /\ \A r : R!WithinBounds(r) <=> WithinBounds(r)
  /\ \A rec : R!Fresh(rec) <=> Fresh(rec)
<1>1. \A r : R!Open(r) <=> Open(r)
  BY DEF R!Open, Open
<1>2. \A r : R!Working(r) <=> Working(r)
  BY <1>1 DEF R!Working, Working
<1>3. \A r : R!Added(r) = Added(r) /\ R!Dirty(r) = Dirty(r)
  BY SameRows DEF R!Added, Added, R!Dirty, Dirty
<1>4. \A r : R!Pending(r) = Pending(r)
  BY <1>3 DEF R!Pending, Pending
<1>5. \A S : R!Cardinality(S) = Cardinality(S)
  BY DEF R!Cardinality, Cardinality
<1>6. \A r : R!WithinBounds(r) <=> WithinBounds(r)
  BY <1>4, <1>5 DEF R!WithinBounds, WithinBounds
<1>7. \A rec : R!Fresh(rec) <=> Fresh(rec)
  BY SameRows DEF R!Fresh, Fresh
<1> QED BY <1>1, <1>2, <1>3, <1>4, <1>6, <1>7

LEMMA SameFlush ==
  /\ \A r, rec : R!NextInFlush(r, rec) <=> NextInFlush(r, rec)
  /\ \A r : R!HeadLockable(r) <=> HeadLockable(r)
  /\ \A r : R!HeadRead(r) = HeadRead(r)
  /\ \A r, rec : R!PayloadFor(r, rec) = PayloadFor(r, rec)
  /\ \A r, rec : R!Written(r, rec) = Written(r, rec)
  /\ \A r, rec : R!Refreshed(r, rec) = Refreshed(r, rec)
  /\ \A h, p : R!NewEntry(h, p) = NewEntry(h, p)
  /\ \A h, e : R!HeadAfter(h, e) = HeadAfter(h, e)
<1>1. \A r, rec : R!NextInFlush(r, rec) <=> NextInFlush(r, rec)
  BY SameSessions DEF R!NextInFlush, NextInFlush
<1>2. \A r : (R!HeadLockable(r) <=> HeadLockable(r)) /\ R!HeadRead(r) = HeadRead(r)
  BY DEF R!HeadLockable, HeadLockable, R!HeadRead, HeadRead
<1>3. \A r, rec : R!ChangedColumns(r, rec) = ChangedColumns(r, rec)
  BY DEF R!ChangedColumns, ChangedColumns
<1>4. \A r, rec : R!PayloadFor(r, rec) = PayloadFor(r, rec)
  BY <1>3, SameRows, SameSessions DEF R!PayloadFor, PayloadFor
<1>5. \A f, g : R!Overlay(f, g) = Overlay(f, g)
  BY DEF R!Overlay, Overlay
<1>6. \A r, rec : R!Written(r, rec) = Written(r, rec)
  BY <1>4, <1>5, SameRows DEF R!Written, Written
<1>7. \A r, rec : R!Refreshed(r, rec) = Refreshed(r, rec)
  BY <1>5, <1>6 DEF R!Refreshed, Refreshed
<1>8. \A h, p : R!NewEntry(h, p) = NewEntry(h, p)
  BY DEF R!NewEntry, NewEntry, R!chain_hash, chain_hash
<1>9. \A h, e : R!HeadAfter(h, e) = HeadAfter(h, e)
  BY DEF R!HeadAfter, HeadAfter
<1> QED BY <1>1, <1>2, <1>4, <1>6, <1>7, <1>8, <1>9

LEMMA SameClose ==
  /\ \A r : R!Close(r) <=> Close(r)
  /\ \A r : R!Released(r) = Released(r)
  /\ \A r : R!RowsAfter(r) = RowsAfter(r)
  /\ \A r : R!HeadRowAfter(r) = HeadRowAfter(r)
<1>1. \A r : R!Close(r) <=> Close(r)
  BY SameRows DEF R!Close, Close
<1>2. \A r : R!Released(r) = Released(r) /\ R!HeadRowAfter(r) = HeadRowAfter(r)
  BY DEF R!Released, Released, R!HeadRowAfter, HeadRowAfter
<1>3. \A f, g : R!Overlay(f, g) = Overlay(f, g)
  BY DEF R!Overlay, Overlay
<1>4. \A r : R!RowsAfter(r) = RowsAfter(r)
  BY <1>3 DEF R!RowsAfter, RowsAfter
<1> QED BY <1>1, <1>2, <1>4

\* A step of the application that commits nothing is the same step over "recorded".
LEMMA UncommittedRefines ==
  ASSUME NEW r \in Requests, Step(r), ~Commit(r), recorded' = recorded
  PROVE  R!Step(r)
<1>1. ASSUME NEW t \in Tenants, Begin(r, t) PROVE R!Begin(r, t)
  BY <1>1, SameSessions DEF Begin, R!Begin
<1>2. ASSUME NEW rec \in Records, Get(r, rec) PROVE R!Get(r, rec)
  BY <1>2, SameRows, SameSessions DEF Get, R!Get, Visible, R!Visible
<1>3. ASSUME NEW rec \in Records, NEW row \in FullRow, Add(r, rec, row) PROVE R!Add(r, rec, row)
  BY <1>3, SameSessions DEF Add, R!Add
<1>4. ASSUME NEW rec \in Records, NEW row \in FullRow, Assign(r, rec, row)
      PROVE  R!Assign(r, rec, row)
  BY <1>4, SameRows, SameSessions DEF Assign, R!Assign
<1>5. ASSUME Flush(r) PROVE R!Flush(r)
  BY <1>5, SameSessions DEF Flush, R!Flush
<1>6. ASSUME NEW rec \in Records, AppendToChain(r, rec) PROVE R!AppendToChain(r, rec)
  BY <1>6, SameSessions, SameFlush DEF AppendToChain, R!AppendToChain
<1>7. ASSUME Rollback(r) PROVE R!Rollback(r)
  BY <1>7, SameSessions, SameClose DEF Rollback, R!Rollback, storeVars, R!storeVars
<1>8. R!FullRow = FullRow
  BY SameRows
<1> QED BY <1>1, <1>2, <1>3, <1>4, <1>5, <1>6, <1>7, <1>8 DEF Step, R!Step

LEMMA CommitRefines ==
  ASSUME NEW r \in Requests, Commit(r),
         recorded' = [recorded EXCEPT ![tenant[r]] = @ \o entries[r]]
  PROVE  R!Step(r)
<1>1. R!Commit(r)
  BY SameSessions, SameClose DEF Commit, R!Commit
<1> QED BY <1>1 DEF R!Step

-----------------------------------------------------------------------------
\* s is what is left of rec after rows were rewritten and rows deleted at the
\* end of the log it had then: every row still carries the links and the number
\* of a recorded row, and the numbers run ahead of the positions by no more
\* than the number of rows that are missing.
DerivedFrom(s, rec) ==
  /\ Len(s) <= Len(rec)
  /\ \A i \in 1..Len(s) :
       LET k == s[i].seq
       IN /\ k \in i..(i + (Len(rec) - Len(s)))
          /\ s[i].prev_hash = rec[k].prev_hash
          /\ s[i].record_hash = rec[k].record_hash

Logs == Seq(Entries(Payloads))

VerifierTypes ==
  /\ log \in [Tenants -> Logs]
  /\ phase \in [Verifiers -> {"idle", "walked", "done"}]
  /\ subject \in [Verifiers -> Tenants \cup {NoTenant}]
  /\ seen \in [Verifiers -> Logs]
  /\ seenAs \in [Verifiers -> Logs]
  /\ verdict = [v \in Verifiers |-> verdict[v]]

LogDerived == \A t \in Tenants : DerivedFrom(log[t], recorded[t])

\* What a verifier read was derived from a chain that is still a part of the
\* recorded one, and its verdict follows from what it read; a tip it accepted
\* is at least as far as the rows recorded when it read.
Sound(v) ==
  LET t == subject[v]
  IN /\ phase[v] # "idle" =>
          /\ t \in Tenants
          /\ Chained(t, seenAs[v])
          /\ DerivedFrom(seen[v], seenAs[v])
          /\ Len(seenAs[v]) <= Len(recorded[t])
     /\ phase[v] = "walked" => BadRows(t, seen[v]) = {}
     /\ phase[v] = "done" =>
          \/ BadRows(t, seen[v]) # {} /\ verdict[v] = WalkVerdict(t, seen[v])
          \/ /\ BadRows(t, seen[v]) = {}
             /\ verdict[v].failed_at_seq = NoSeq
             /\ verdict[v].valid => Len(seenAs[v]) <= Len(Tip(t, seen[v]).content)

VerifierInv == VerifierTypes /\ LogDerived /\ \A v \in Verifiers : Sound(v)

\* What AuditLogProofs says of the recorded log, in the names of this module.
LEMMA RecordedFacts ==
  ASSUME R!ChainInv
  PROVE  /\ recorded \in [Tenants -> Logs]
         /\ tenant \in [Requests -> Tenants \cup {NoTenant}]
         /\ entries \in [Requests -> Logs]
         /\ \A t \in Tenants : Chained(t, recorded[t]) /\ HeadMatches(t, recorded[t], head[t])
<1>1. R!TypeOK /\ R!ChainIntact
  BY DEF R!ChainInv
<1>2. R!Entries(R!Payloads) = Entries(Payloads)
  BY SameRows, SameChain
<1>3. /\ recorded \in [Tenants -> Logs] /\ entries \in [Requests -> Logs]
      /\ tenant \in [Requests -> Tenants \cup {NoTenant}]
  BY <1>1, <1>2 DEF R!TypeOK, Logs
<1>4. \A t \in Tenants : Chained(t, recorded[t]) /\ HeadMatches(t, recorded[t], head[t])
  BY <1>1, SameChain DEF R!ChainIntact
<1> QED BY <1>3, <1>4

\* What is left of a concatenation when its first part is cut off.
LEMMA SuffixOfConcat ==
  ASSUME NEW S, NEW s \in Seq(S), NEW u \in Seq(S)
  PROVE  SubSeq(s \o u, Len(s) + 1, Len(s \o u)) = u
<1>1. Len(s) \in Nat /\ Len(u) \in Nat /\ Len(s \o u) = Len(s) + Len(u)
  BY ConcatProperties
<1>2. CASE u = <<>>
  BY <1>1, <1>2, SubSeqEmpty
<1>3. CASE u # <<>>
  <2>1. Len(u) # 0
    BY <1>3
  <2>2. SubSeq(s \o u, Len(s) + 1, Len(s) + Len(u)) = SubSeq(u, 1, Len(u))
    BY <1>1, <2>1, SubSeqOfConcat2
  <2>3. SubSeq(u, 1, Len(u)) = u
    BY SubSeqFull
  <2> QED BY <1>1, <2>2, <2>3
<1> QED BY <1>2, <1>3

\* Every step of the application adds the same rows to both logs, and is a step
\* of the audited unit of work over the recorded one.
LEMMA ApplicationEffect ==
  ASSUME R!ChainInv, VerifierTypes, Application
  PROVE  /\ R!Next
         /\ \A t \in Tenants : \E b \in Logs :
              log'[t] = log[t] \o b /\ recorded'[t] = recorded[t] \o b
<1>1. PICK r \in Requests : Step(r)
  BY DEF Application, Next
<1>2. /\ log \in [Tenants -> Logs] /\ recorded \in [Tenants -> Logs]
      /\ entries[r] \in Logs /\ tenant[r] \in Tenants \cup {NoTenant}
  BY RecordedFacts DEF VerifierTypes
<1>3. recorded' = [t \in Tenants |-> recorded[t] \o SubSeq(log'[t], Len(log[t]) + 1, Len(log'[t]))]
  BY DEF Application
<1>4. <<>> \in Logs
  BY DEF Logs
<1>5. ASSUME NEW t \in Tenants, NEW b \in Logs, log'[t] = log[t] \o b
      PROVE  recorded'[t] = recorded[t] \o b
  <2>1. SubSeq(log[t] \o b, Len(log[t]) + 1, Len(log[t] \o b)) = b
    BY <1>2, SuffixOfConcat DEF Logs
  <2> QED BY <1>3, <1>5, <2>1
<1>6. \A s \in Logs : s \o <<>> = s
  BY ConcatEmptySeq DEF Logs
<1>7. CASE Commit(r)
  <2>1. tenant[r] \in Tenants /\ log' = [log EXCEPT ![tenant[r]] = @ \o entries[r]]
    BY <1>2, <1>7 DEF Commit, Working, Open
  <2>2. log'[tenant[r]] = log[tenant[r]] \o entries[r]
    BY <1>2, <2>1
  <2>3. recorded'[tenant[r]] = recorded[tenant[r]] \o entries[r]
    BY <1>2, <1>5, <2>1, <2>2
  <2>4. \A t \in Tenants : t # tenant[r] => log'[t] = log[t] \o <<>>
    BY <1>2, <1>6, <2>1
  <2>5. \A t \in Tenants : t # tenant[r] => recorded'[t] = recorded[t] \o <<>>
    BY <1>4, <1>5, <2>4
  <2>6. \A t \in Tenants : t # tenant[r] => recorded'[t] = recorded[t]
    BY <1>2, <1>6, <2>5
  <2>7. recorded' = [recorded EXCEPT ![tenant[r]] = @ \o entries[r]]
    BY <1>2, <1>3, <2>1, <2>3, <2>6
  <2>8. R!Next
    BY <1>7, <2>7, CommitRefines DEF R!Next
  <2> QED BY <1>2, <1>4, <2>1, <2>2, <2>3, <2>4, <2>5, <2>8
<1>8. CASE ~Commit(r)
  <2>1. log' = log
    BY <1>1, <1>8 DEF Step, Begin, Get, Add, Assign, Flush, AppendToChain, Rollback, storeVars
  <2>2. \A t \in Tenants : log'[t] = log[t] \o <<>>
    BY <1>2, <1>6, <2>1
  <2>3. \A t \in Tenants : recorded'[t] = recorded[t] \o <<>>
    BY <1>4, <1>5, <2>2
  <2>4. \A t \in Tenants : recorded'[t] = recorded[t]
    BY <1>2, <1>6, <2>3
  <2>5. recorded' = recorded
    BY <1>2, <1>3, <2>4
  <2>6. R!Next
    BY <1>1, <1>8, <2>5, UncommittedRefines DEF R!Next
  <2> QED BY <1>4, <2>2, <2>3, <2>6
<1> QED BY <1>7, <1>8

\* What is appended to both stays derived, because the recorded chain is numbered.
LEMMA DerivedConcat ==
  ASSUME NEW t \in Tenants, NEW s \in Logs, NEW rec \in Logs, NEW b \in Logs,
         DerivedFrom(s, rec), Chained(t, rec \o b)
  PROVE  DerivedFrom(s \o b, rec \o b)
<1> DEFINE m == Len(s)
           n == Len(rec)
           k == Len(b)
<1>1. m \in Nat /\ n \in Nat /\ k \in Nat /\ m <= n
  BY LenProperties DEF Logs, DerivedFrom
<1>2. /\ s \o b \in Logs /\ Len(s \o b) = m + k
      /\ \A i \in 1..(m + k) : (s \o b)[i] = IF i <= m THEN s[i] ELSE b[i - m]
  BY ConcatProperties DEF Logs
<1>3. /\ rec \o b \in Logs /\ Len(rec \o b) = n + k
      /\ \A i \in 1..(n + k) : (rec \o b)[i] = IF i <= n THEN rec[i] ELSE b[i - n]
  BY ConcatProperties DEF Logs
<1>4. \A i \in 1..(n + k) : (rec \o b)[i].seq = i
  BY <1>3 DEF Chained, Logs
<1> DEFINE x == s \o b
           y == rec \o b
<1>5. \A i \in 1..m : /\ s[i].seq \in i..(i + (n - m))
                      /\ s[i].prev_hash = rec[s[i].seq].prev_hash
                      /\ s[i].record_hash = rec[s[i].seq].record_hash
  BY DEF DerivedFrom
<1> HIDE DEF m, n, k, x, y
<1>6. ASSUME NEW i \in 1..(m + k)
      PROVE  /\ x[i].seq \in i..(i + ((n + k) - (m + k)))
             /\ x[i].prev_hash = y[x[i].seq].prev_hash
             /\ x[i].record_hash = y[x[i].seq].record_hash
  <2>1. CASE i <= m
    <3>1. i \in 1..m /\ x[i] = s[i]
      BY <1>1, <1>2, <2>1 DEF x
    <3>2. s[i].seq \in 1..n /\ i + ((n + k) - (m + k)) = i + (n - m)
      BY <1>1, <1>5, <3>1
    <3>3. \A q \in 1..n : y[q] = rec[q]
      <4> TAKE q \in 1..n
      <4>1. q \in 1..(n + k) /\ q <= n
        BY <1>1
      <4> QED BY <1>3, <4>1 DEF y
    <3>4. y[s[i].seq] = rec[s[i].seq]
      BY <3>2, <3>3, Zenon
    <3> QED BY <1>5, <3>1, <3>2, <3>4
  <2>2. CASE ~(i <= m)
    <3> DEFINE j == i + (n - m)
    <3>1. j \in 1..(n + k) /\ ~(j <= n) /\ j - n = i - m
      BY <1>1, <2>2
    <3>2. x[i] = b[i - m] /\ y[j] = b[j - n]
      BY <1>1, <1>2, <1>3, <2>2, <3>1 DEF x, y
    <3>3. y[j].seq = j /\ x[i] = y[j]
      BY <1>4, <3>1, <3>2 DEF y
    <3>4. j \in i..(i + ((n + k) - (m + k)))
      BY <1>1
    <3> QED BY <3>3, <3>4
  <2> QED BY <2>1, <2>2
<1>7. Len(x) = m + k /\ Len(y) = n + k /\ m + k <= n + k
  BY <1>1, <1>2, <1>3 DEF x, y
<1> QED BY <1>6, <1>7 DEF DerivedFrom, x, y

LEMMA DerivedAlter ==
  ASSUME NEW s \in Logs, NEW rec \in Logs, NEW i \in DOMAIN s, NEW p \in Payloads,
         DerivedFrom(s, rec)
  PROVE  LET a == [s EXCEPT ![i].payload = p] IN a \in Logs /\ DerivedFrom(a, rec)
<1> DEFINE e == [s[i] EXCEPT !.payload = p]
           a == [s EXCEPT ![i] = e]
<1>1. i \in 1..Len(s) /\ s \in Seq(Entries(Payloads)) /\ s[i] \in Entries(Payloads)
  BY DEF Logs
<1>2. /\ e \in Entries(Payloads) /\ e.seq = s[i].seq
      /\ e.prev_hash = s[i].prev_hash /\ e.record_hash = s[i].record_hash
  BY <1>1 DEF Entries
<1> HIDE DEF e
<1>3. /\ a \in Logs /\ Len(a) = Len(s)
      /\ \A j \in 1..Len(s) : a[j] = IF j = i THEN e ELSE s[j]
  BY <1>1, <1>2, ExceptSeq DEF Logs
<1> HIDE DEF a
<1>4. \A j \in 1..Len(s) : /\ a[j].seq = s[j].seq /\ a[j].prev_hash = s[j].prev_hash
                           /\ a[j].record_hash = s[j].record_hash
  BY <1>2, <1>3
<1>5. DerivedFrom(a, rec)
  BY <1>3, <1>4 DEF DerivedFrom
<1> QED BY <1>3, <1>5 DEF a, e

LEMMA DerivedDrop ==
  ASSUME NEW s \in Logs, NEW rec \in Logs, s # <<>>, DerivedFrom(s, rec)
  PROVE  Front(s) \in Logs /\ DerivedFrom(Front(s), rec)
<1> DEFINE m == Len(s)
           n == Len(rec)
           a == Front(s)
<1>1. m \in Nat /\ m # 0 /\ n \in Nat
  BY LenProperties DEF Logs
<1>2. \A i \in 1..(m - 1) : s[i] \in Entries(Payloads)
  BY <1>1 DEF Logs
<1>3. /\ a \in Logs /\ Len(a) = m - 1
      /\ \A i \in 1..(m - 1) : a[i] = s[i]
  <2> DEFINE f == SubSeq(s, 1, m - 1)
  <2>1. m - 1 \in Int /\ 1 \in Int
    BY <1>1
  <2>2. /\ f \in Seq(Entries(Payloads))
        /\ Len(f) = IF 1 <= m - 1 THEN (m - 1) - 1 + 1 ELSE 0
        /\ \A i \in 1..((m - 1) - 1 + 1) : f[i] = s[1 + i - 1]
    <3> HIDE DEF m
    <3> QED BY <1>2, <2>1, SubSeqProperties
  <2> HIDE DEF f, m
  <2>3. Len(f) = m - 1 /\ \A i \in 1..(m - 1) : f[i] = s[i]
    BY <1>1, <2>2
  <2>4. a = f
    BY DEF Front, f, m
  <2> QED BY <2>2, <2>3, <2>4 DEF Logs
<1>4. /\ m <= n
      /\ \A i \in 1..m : /\ s[i].seq \in i..(i + (n - m))
                         /\ s[i].prev_hash = rec[s[i].seq].prev_hash
                         /\ s[i].record_hash = rec[s[i].seq].record_hash
  BY DEF DerivedFrom
<1> HIDE DEF m, n, a
<1>5. /\ m - 1 <= n
      /\ \A i \in 1..(m - 1) : /\ a[i].seq \in i..(i + (n - (m - 1)))
                               /\ a[i].prev_hash = rec[a[i].seq].prev_hash
                               /\ a[i].record_hash = rec[a[i].seq].record_hash
  <2>1. m - 1 <= n
    BY <1>1, <1>4
  <2>2. ASSUME NEW i \in 1..(m - 1)
        PROVE  a[i] = s[i] /\ i \in 1..m /\ s[i].seq \in i..(i + (n - (m - 1)))
    <3>1. i \in 1..m /\ a[i] = s[i]
      BY <1>1, <1>3
    <3>2. s[i].seq \in i..(i + (n - m))
      BY <1>4, <3>1
    <3> QED BY <1>1, <3>1, <3>2
  <2> QED BY <1>4, <2>1, <2>2
<1>6. DerivedFrom(a, rec)
  BY <1>3, <1>5 DEF DerivedFrom, n
<1> QED BY <1>3, <1>6 DEF a

\* In a chain that checks, the digest of row i stands for i payloads.
LEMMA LinkedContent ==
  ASSUME NEW t \in Tenants, NEW s \in Logs, \A i \in 1..Len(s) : RowChecks(t, s, i)
  PROVE  \A i \in 1..Len(s) : /\ Len(s[i].prev_hash.content) = i - 1
                              /\ Len(s[i].record_hash.content) = i
<1> DEFINE bad == {i \in 1..Len(s) : Len(s[i].record_hash.content) # i}
<1>1. /\ s \in Seq(Entries(Payloads)) /\ Len(s) \in Nat
      /\ \A i \in 1..Len(s) : s[i] \in Entries(Payloads)
  BY ElementOfSeq, LenProperties DEF Logs
<1>2. ASSUME NEW i \in 1..Len(s)
      PROVE  Len(s[i].record_hash.content) = Len(s[i].prev_hash.content) + 1
  <2>1. s[i].prev_hash \in Digests(Payloads) /\ s[i].payload \in Payloads
    BY <1>1 DEF Entries
  <2>2. s[i].record_hash = chain_hash(s[i].prev_hash, s[i].payload)
    BY DEF RowChecks
  <2>3. s[i].record_hash.content = Append(s[i].prev_hash.content, s[i].payload)
    BY <2>1, <2>2 DEF chain_hash, Digests
  <2>4. s[i].prev_hash.content \in Seq(Payloads)
    BY <2>1 DEF Digests
  <2> QED BY <2>1, <2>3, <2>4, AppendProperties
<1>3. ASSUME NEW i \in 1..Len(s), i = 1 \/ i - 1 \notin bad
      PROVE  Len(s[i].prev_hash.content) = i - 1
  <2>1. s[i].prev_hash = RunningHash(t, s, i)
    BY DEF RowChecks
  <2>2. CASE i = 1
    <3>1. s[i].prev_hash.content = <<>>
      BY <2>1, <2>2 DEF RunningHash, genesis_hash
    <3> QED BY <2>2, <3>1
  <2>3. CASE i # 1
    <3>1. i - 1 \in 1..Len(s)
      BY <1>1, <2>3
    <3>2. s[i].prev_hash = s[i - 1].record_hash
      BY <2>1, <2>3 DEF RunningHash
    <3> QED BY <1>3, <2>3, <3>1, <3>2
  <2> QED BY <2>2, <2>3
<1>4. bad = {}
  <2> SUFFICES ASSUME bad # {} PROVE FALSE
    OBVIOUS
  <2>1. bad \in SUBSET Nat
    BY <1>1
  <2> HIDE DEF bad
  <2>2. PICK m \in bad : \A n \in bad : m <= n
    BY <2>1, R!LeastNatural, InstanceAssumptions
  <2>3. m \in 1..Len(s) /\ Len(s[m].record_hash.content) # m
    BY <2>2 DEF bad
  <2>4. m - 1 \notin bad
    BY <2>1, <2>2
  <2>5. Len(s[m].prev_hash.content) = m - 1
    BY <1>3, <2>3, <2>4
  <2>6. Len(s[m].record_hash.content) = m
    BY <1>1, <1>2, <2>3, <2>5
  <2> QED BY <2>3, <2>6
<1> QED BY <1>1, <1>3, <1>4

\* So does its tip stand for all of its rows.
LEMMA TipContent ==
  ASSUME NEW t \in Tenants, NEW s \in Logs, \A i \in 1..Len(s) : RowChecks(t, s, i)
  PROVE  Len(Tip(t, s).content) = Len(s)
<1>1. Len(s) \in Nat
  BY LenProperties DEF Logs
<1>2. CASE Len(s) = 0
  BY <1>2 DEF Tip, RunningHash, genesis_hash
<1>3. CASE Len(s) # 0
  <2>1. Len(s) \in 1..Len(s) /\ Len(s) + 1 # 1
    BY <1>1, <1>3
  <2>2. Tip(t, s) = s[Len(s)].record_hash
    BY <1>1, <2>1 DEF Tip, RunningHash
  <2> QED BY <2>1, <2>2, LinkedContent
<1> QED BY <1>2, <1>3

LEMMA NoBadRows ==
  ASSUME NEW t \in Tenants, NEW s \in Logs
  PROVE  /\ BadRows(t, s) = {} <=> \A i \in 1..Len(s) : RowChecks(t, s, i)
         /\ Chained(t, s) => BadRows(t, s) = {}
<1>1. DOMAIN s = 1..Len(s)
  BY DEF Logs
<1> QED BY <1>1 DEF BadRows, Chained

\* Rows that pass the walk are the recorded ones, from the first on: a digest
\* says how many payloads it stands for and which the last one is.
LEMMA CheckedRowsRecorded ==
  ASSUME NEW t \in Tenants, NEW s \in Logs, NEW rec \in Logs,
         Chained(t, rec), DerivedFrom(s, rec), BadRows(t, s) = {}
  PROVE  \A i \in 1..Len(s) : s[i] = rec[i]
<1> SUFFICES ASSUME NEW i \in 1..Len(s) PROVE s[i] = rec[i]
  OBVIOUS
<1> DEFINE k == s[i].seq
<1>1. Len(s) \in Nat /\ Len(rec) \in Nat /\ Len(s) <= Len(rec)
  BY LenProperties DEF Logs, DerivedFrom
<1>2. /\ k \in i..(i + (Len(rec) - Len(s)))
      /\ s[i].prev_hash = rec[k].prev_hash
      /\ s[i].record_hash = rec[k].record_hash
  BY DEF DerivedFrom
<1>3. /\ \A j \in 1..Len(s) : RowChecks(t, s, j)
      /\ \A j \in 1..Len(rec) : RowChecks(t, rec, j)
      /\ \A j \in 1..Len(rec) : rec[j].seq = j
  BY NoBadRows DEF Chained, Logs
<1> HIDE DEF k
<1>4. k \in 1..Len(rec)
  BY <1>1, <1>2
<1>5. k = i
  <2>1. Len(s[i].prev_hash.content) = i - 1
    BY <1>3, LinkedContent
  <2>2. Len(rec[k].prev_hash.content) = k - 1
    BY <1>3, <1>4, LinkedContent
  <2> QED BY <1>1, <1>2, <1>4, <2>1, <2>2
<1>6. s[i] \in Entries(Payloads) /\ rec[i] \in Entries(Payloads)
  BY <1>4, <1>5, ElementOfSeq DEF Logs
<1>7. s[i].payload = rec[i].payload
  <2> DEFINE d == s[i].prev_hash
  <2>1. s[i].record_hash = chain_hash(d, s[i].payload) /\ rec[i].record_hash = chain_hash(d, rec[i].payload)
    BY <1>2, <1>3, <1>4, <1>5 DEF RowChecks
  <2>2. d \in Digests(Payloads) /\ s[i].payload \in Payloads /\ rec[i].payload \in Payloads
    BY <1>6 DEF Entries
  <2>3. d.content \in Seq(Payloads)
    BY <2>2 DEF Digests
  <2> HIDE DEF d
  <2>4. \A p \in Payloads : chain_hash(d, p).content = Append(d.content, p)
    BY <2>2 DEF chain_hash, Digests
  <2>5. Append(d.content, s[i].payload) = Append(d.content, rec[i].payload)
    BY <1>2, <1>5, <2>1, <2>2, <2>4
  <2> QED BY <2>2, <2>3, <2>5, AppendInjective
<1>8. s[i].seq = rec[i].seq
  BY <1>3, <1>4, <1>5 DEF k
<1> QED BY <1>2, <1>5, <1>6, <1>7, <1>8 DEF Entries

\* The least of a set of positions, as the walk and the property pick it.
LEMMA LeastPosition ==
  ASSUME NEW n \in Nat, NEW S \in SUBSET (1..n), S # {}
  PROVE  /\ Min(S) \in S
         /\ Min(S) = CHOOSE i \in S : \A j \in S : i <= j
<1>1. S \in SUBSET Nat
  OBVIOUS
<1>2. \E m \in S : \A j \in S : m <= j
  BY <1>1, R!LeastNatural, InstanceAssumptions
<1>3. Min(S) = CHOOSE i \in S : \A j \in S : i <= j
  BY DEF Min
<1> QED BY <1>2, <1>3, Zenon

LEMMA SoundBlame ==
  ASSUME VerifierInv
  PROVE  RowBlamedOnlyIfAltered
<1> SUFFICES ASSUME NEW v \in Verifiers, Done(v), verdict[v].failed_at_seq # NoSeq
             PROVE  seen[v] # seenAs[v]
  BY DEF RowBlamedOnlyIfAltered, ReadAltered
<1>1. phase[v] = "done" /\ Sound(v) /\ seenAs[v] \in Logs
  BY DEF VerifierInv, VerifierTypes, Done
<1>2. subject[v] \in Tenants /\ Chained(subject[v], seenAs[v]) /\ BadRows(subject[v], seen[v]) # {}
  BY <1>1 DEF Sound
<1>3. BadRows(subject[v], seenAs[v]) = {}
  BY <1>1, <1>2, NoBadRows
<1> QED BY <1>2, <1>3

LEMMA SoundVerdict ==
  ASSUME VerifierInv
  PROVE  AlterationNeverValid
<1> SUFFICES ASSUME NEW v \in Verifiers, Done(v), verdict[v].valid
             PROVE  seen[v] = seenAs[v]
  BY DEF AlterationNeverValid, ReadAltered
<1> DEFINE t == subject[v]
<1>1. /\ phase[v] = "done" /\ Sound(v)
      /\ seen[v] \in Logs /\ seenAs[v] \in Logs
  BY DEF VerifierInv, VerifierTypes, Done
<1>2. /\ t \in Tenants /\ Chained(t, seenAs[v]) /\ DerivedFrom(seen[v], seenAs[v])
  BY <1>1 DEF Sound
<1>3. ~ (verdict[v] = WalkVerdict(t, seen[v]))
  BY DEF WalkVerdict
<1>4. BadRows(t, seen[v]) = {} /\ Len(seenAs[v]) <= Len(Tip(t, seen[v]).content)
  BY <1>1, <1>3 DEF Sound
<1>5. Len(Tip(t, seen[v]).content) = Len(seen[v])
  BY <1>1, <1>2, <1>4, NoBadRows, TipContent
<1>6. Len(seen[v]) = Len(seenAs[v])
  <2>1. Len(seen[v]) \in Nat /\ Len(seenAs[v]) \in Nat
    BY <1>1, LenProperties DEF Logs
  <2> QED BY <1>2, <1>4, <1>5, <2>1 DEF DerivedFrom
<1>7. \A i \in 1..Len(seen[v]) : seen[v][i] = seenAs[v][i]
  BY <1>1, <1>2, <1>4, CheckedRowsRecorded
<1> QED BY <1>1, <1>6, <1>7, SeqEqual DEF Logs

LEMMA SoundName ==
  ASSUME VerifierInv
  PROVE  FirstAlteredRowNamed
<1> SUFFICES ASSUME NEW v \in Verifiers, Done(v), Len(seen[v]) = Len(seenAs[v]),
                    {i \in DOMAIN seen[v] : seen[v][i] # seenAs[v][i]} # {}
             PROVE  LET altered == {i \in DOMAIN seen[v] : seen[v][i] # seenAs[v][i]}
                    IN verdict[v].failed_at_seq
                         = seenAs[v][CHOOSE i \in altered : \A j \in altered : i <= j].seq
  BY DEF FirstAlteredRowNamed
<1> DEFINE t == subject[v]
           a == seen[v]
           s == seenAs[v]
           n == Len(s)
           altered == {i \in DOMAIN a : a[i] # s[i]}
<1>1. /\ phase[v] = "done" /\ Sound(v) /\ a \in Logs /\ s \in Logs
      /\ n \in Nat /\ Len(a) = n
  BY LenProperties DEF VerifierInv, VerifierTypes, Done, Logs
<1>2. t \in Tenants /\ Chained(t, s) /\ DerivedFrom(a, s)
  BY <1>1 DEF Sound
<1>3. \A i \in 1..n : /\ a[i].seq = i /\ s[i].seq = i
                      /\ a[i].prev_hash = s[i].prev_hash
                      /\ a[i].record_hash = s[i].record_hash
                      /\ a[i] \in Entries(Payloads) /\ s[i] \in Entries(Payloads)
  <2> TAKE i \in 1..n
  <2>1. a[i] \in Entries(Payloads) /\ s[i] \in Entries(Payloads)
    BY <1>1, ElementOfSeq DEF Logs
  <2>2. s[i].seq = i
    BY <1>1, <1>2 DEF Chained, Logs
  <2>3. /\ a[i].seq \in i..(i + (n - n))
        /\ a[i].prev_hash = s[a[i].seq].prev_hash
        /\ a[i].record_hash = s[a[i].seq].record_hash
    BY <1>1, <1>2 DEF DerivedFrom
  <2>4. a[i].seq = i
    BY <1>1, <2>3
  <2> QED BY <2>1, <2>2, <2>3, <2>4
<1>4. \A i \in 1..n : a[i] = s[i] <=> a[i].payload = s[i].payload
  BY <1>3 DEF Entries
<1>5. BadRows(t, a) = {i \in 1..n : a[i].payload # s[i].payload}
  <2>1. R!Chained(t, s) /\ R!Entries(Payloads) = Entries(Payloads)
    BY <1>2, SameChain
  <2>2. a \in Seq(R!Entries(Payloads)) /\ s \in Seq(R!Entries(Payloads))
    BY <1>1, <2>1 DEF Logs
  <2> HIDE DEF t, a, s, n
  <2>3. Len(a) = Len(s) /\ \A i \in 1..Len(s) : a[i].prev_hash = s[i].prev_hash /\ a[i].record_hash = s[i].record_hash
    BY <1>1, <1>3 DEF n
  <2>4. R!BadRows(t, a) = {i \in 1..Len(s) : a[i].payload # s[i].payload}
    BY <1>2, <2>1, <2>2, <2>3, R!AlteredRowsFail, InstanceAssumptions, SMTT(60)
  <2> QED BY <2>4, SameChain DEF n
<1>6. DOMAIN a = 1..n
  BY <1>1 DEF Logs
<1> HIDE DEF t, a, s, n
<1>7. BadRows(t, a) = altered
  BY <1>4, <1>5, <1>6
<1>8. altered # {} /\ altered \in SUBSET (1..n)
  BY <1>6 DEF a, s
<1>9. verdict[v].failed_at_seq = a[Min(altered)].seq
  <2>1. verdict[v] = WalkVerdict(t, a)
    BY <1>1, <1>7, <1>8 DEF Sound, t, a
  <2> QED BY <1>7, <2>1 DEF WalkVerdict
<1> HIDE DEF altered
<1>10. Min(altered) \in 1..n /\ Min(altered) = CHOOSE i \in altered : \A j \in altered : i <= j
  BY <1>1, <1>8, LeastPosition
<1>11. a[Min(altered)].seq = s[Min(altered)].seq
  BY <1>3, <1>10
<1> QED BY <1>9, <1>10, <1>11 DEF altered, a, s

-----------------------------------------------------------------------------
LEMMA CInitSound == CInit => R!ChainInv /\ VerifierInv
<1> SUFFICES ASSUME CInit PROVE R!ChainInv /\ VerifierInv
  OBVIOUS
<1>1. R!Init
  <2>1. \A t : R!genesis_hash(t) = genesis_hash(t)
    BY DEF R!genesis_hash, genesis_hash
  <2> QED BY <2>1, SameRows DEF CInit, Init, R!Init
<1>2. R!ChainInv
  BY <1>1, R!ChainInvInit, InstanceAssumptions
<1>3. VerifierTypes
  BY DEF CInit, Init, VerifierTypes, Logs
<1>4. LogDerived
  BY DEF CInit, Init, LogDerived, DerivedFrom
<1>5. \A v \in Verifiers : Sound(v)
  BY DEF CInit, Sound
<1> QED BY <1>2, <1>3, <1>4, <1>5 DEF VerifierInv

\* A verifier that has read keeps what it knows while others go on: recorded
\* logs only grow.
LEMMA SoundKept ==
  ASSUME NEW v \in Verifiers, Sound(v),
         R!ChainInv, VerifierTypes,
         phase'[v] = phase[v], subject'[v] = subject[v], seen'[v] = seen[v],
         seenAs'[v] = seenAs[v], verdict'[v] = verdict[v],
         \A t \in Tenants : \E b \in Logs : recorded'[t] = recorded[t] \o b
  PROVE  Sound(v)'
<1>1. \A t \in Tenants : Len(recorded[t]) <= Len(recorded'[t]) /\ Len(recorded[t]) \in Nat
                         /\ Len(recorded'[t]) \in Nat
  <2> TAKE t \in Tenants
  <2>1. PICK b \in Logs : recorded'[t] = recorded[t] \o b
    OBVIOUS
  <2>2. recorded[t] \in Logs
    BY RecordedFacts
  <2>3. Len(recorded'[t]) = Len(recorded[t]) + Len(b) /\ Len(recorded[t]) \in Nat /\ Len(b) \in Nat
    BY <2>1, <2>2, ConcatProperties, LenProperties DEF Logs
  <2> QED BY <2>3
<1>2. Len(seenAs[v]) \in Nat
  BY LenProperties DEF VerifierTypes, Logs
<1> QED BY <1>1, <1>2 DEF Sound

LEMMA ApplicationSound ==
  ASSUME R!ChainInv, VerifierInv, Application
  PROVE  R!ChainInv' /\ VerifierInv'
<1>1. R!ChainInv'
  BY ApplicationEffect, R!ChainInvNext, InstanceAssumptions DEF VerifierInv
<1>2. /\ log \in [Tenants -> Logs] /\ recorded \in [Tenants -> Logs]
      /\ \A t \in Tenants : Chained(t, recorded'[t])
      /\ UNCHANGED verifierVars
  <2>1. R!ChainIntact'
    BY <1>1 DEF R!ChainInv
  <2>2. \A t \in Tenants : R!Chained(t, recorded'[t])
    BY <2>1 DEF R!ChainIntact
  <2>3. \A t, s : R!Chained(t, s) <=> Chained(t, s)
    BY SameChain
  <2>4. \A t \in Tenants : Chained(t, recorded'[t])
    BY <2>2, <2>3
  <2> QED BY <2>4, RecordedFacts DEF VerifierInv, VerifierTypes, Application
<1>3. \A t \in Tenants : \E b \in Logs : log'[t] = log[t] \o b /\ recorded'[t] = recorded[t] \o b
  BY ApplicationEffect DEF VerifierInv
<1>4. log' \in [Tenants -> Logs]
  <2>1. log' = [t \in Tenants |-> log'[t]]
    <3>1. PICK r \in Requests : Step(r)
      BY DEF Application, Next
    <3>2. log' = log \/ \E x, y : log' = [log EXCEPT ![x] = y]
      BY <3>1 DEF Step, Begin, Get, Add, Assign, Flush, AppendToChain, Commit, Rollback, storeVars
    <3> QED BY <1>2, <3>2
  <2>2. \A t \in Tenants : log'[t] \in Logs
    BY <1>2, <1>3, ConcatProperties DEF Logs
  <2> QED BY <2>1, <2>2
<1>5. VerifierTypes'
  BY <1>2, <1>4 DEF VerifierInv, VerifierTypes, verifierVars
<1>6. LogDerived'
  <2> SUFFICES ASSUME NEW t \in Tenants PROVE DerivedFrom(log'[t], recorded'[t])
    BY DEF LogDerived
  <2>1. PICK b \in Logs : log'[t] = log[t] \o b /\ recorded'[t] = recorded[t] \o b
    BY <1>3
  <2>2. DerivedFrom(log[t], recorded[t]) /\ log[t] \in Logs /\ recorded[t] \in Logs
    BY <1>2 DEF VerifierInv, LogDerived
  <2>3. Chained(t, recorded[t] \o b)
    BY <1>2, <2>1
  <2> QED BY <2>1, <2>2, <2>3, DerivedConcat
<1>7. ASSUME NEW v \in Verifiers PROVE Sound(v)'
  BY <1>2, <1>3, SoundKept DEF VerifierInv, verifierVars
<1> QED BY <1>1, <1>5, <1>6, <1>7 DEF VerifierInv

\* The audited unit of work does not see that a row of the log is altered.
LEMMA AlteredSound ==
  ASSUME R!ChainInv, VerifierInv,
         UNCHANGED <<rows, head, lock, sessionVars, recorded, verifierVars>>,
         NEW t \in Tenants, NEW s \in Logs, DerivedFrom(s, recorded[t]),
         log' = [log EXCEPT ![t] = s]
  PROVE  R!ChainInv' /\ VerifierInv'
<1>1. R!ChainInv'
  <2>1. UNCHANGED R!vars
    BY DEF R!vars, sessionVars
  <2> QED BY <2>1, R!ChainInvNext, InstanceAssumptions
<1>2. VerifierTypes'
  BY DEF VerifierInv, VerifierTypes, verifierVars
<1>3. LogDerived'
  BY DEF VerifierInv, VerifierTypes, LogDerived
<1>4. ASSUME NEW v \in Verifiers PROVE Sound(v)'
  BY DEF VerifierInv, Sound, verifierVars
<1> QED BY <1>1, <1>2, <1>3, <1>4 DEF VerifierInv

LEMMA AlterSound ==
  ASSUME R!ChainInv, VerifierInv, NEW t \in Tenants, NEW i \in DOMAIN log[t],
         NEW p \in AlteredContents(log[t][i].payload), Alter(t, i, p)
  PROVE  R!ChainInv' /\ VerifierInv'
<1>1. log[t] \in Logs /\ recorded[t] \in Logs /\ DerivedFrom(log[t], recorded[t])
  BY RecordedFacts DEF VerifierInv, VerifierTypes, LogDerived
<1>2. p \in Payloads
  <2>1. log[t][i] \in Entries(Payloads)
    BY <1>1, ElementOfSeq DEF Logs
  <2>2. log[t][i].payload \in Payloads
    BY <2>1 DEF Entries
  <2>3. PICK row \in [Columns -> Values] : p = [log[t][i].payload EXCEPT !.new = row]
    BY DEF AlteredContents
  <2>4. row \in Rows
    BY DEF Rows, J!Rows
  <2> QED BY <2>2, <2>3, <2>4 DEF Payloads, J!Payloads, Rows
<1> DEFINE s == [log[t] EXCEPT ![i].payload = p]
<1>3. s \in Logs /\ DerivedFrom(s, recorded[t])
  BY <1>1, <1>2, DerivedAlter
<1>4. log' = [log EXCEPT ![t] = s]
  BY DEF Alter, VerifierInv, VerifierTypes
<1>5. UNCHANGED <<rows, head, lock, sessionVars, recorded, verifierVars>>
  BY DEF Alter
<1> QED BY <1>3, <1>4, <1>5, AlteredSound

LEMMA DropTailSound ==
  ASSUME R!ChainInv, VerifierInv, NEW t \in Tenants, DropTail(t)
  PROVE  R!ChainInv' /\ VerifierInv'
<1>1. log[t] \in Logs /\ recorded[t] \in Logs /\ DerivedFrom(log[t], recorded[t])
  BY RecordedFacts DEF VerifierInv, VerifierTypes, LogDerived
<1>2. Front(log[t]) \in Logs /\ DerivedFrom(Front(log[t]), recorded[t])
  BY <1>1, DerivedDrop DEF DropTail
<1>3. /\ log' = [log EXCEPT ![t] = Front(log[t])]
      /\ UNCHANGED <<rows, head, lock, sessionVars, recorded, verifierVars>>
  BY DEF DropTail
<1> QED BY <1>2, <1>3, AlteredSound

\* Steps of a verifier leave everything else alone.
LEMMA VerifierStepSound ==
  ASSUME R!ChainInv, VerifierInv, NEW v \in Verifiers,
         UNCHANGED <<vars, recorded>>, VerifierTypes', Sound(v)',
         \A w \in Verifiers : w # v => /\ phase'[w] = phase[w] /\ subject'[w] = subject[w]
                                       /\ seen'[w] = seen[w] /\ seenAs'[w] = seenAs[w]
                                       /\ verdict'[w] = verdict[w]
  PROVE  R!ChainInv' /\ VerifierInv'
<1>1. R!ChainInv'
  <2>1. UNCHANGED R!vars
    BY DEF R!vars, vars
  <2> QED BY <2>1, R!ChainInvNext, InstanceAssumptions
<1>2. LogDerived'
  BY DEF VerifierInv, LogDerived, vars
<1>3. ASSUME NEW w \in Verifiers PROVE Sound(w)'
  BY DEF VerifierInv, Sound, vars
<1> QED BY <1>1, <1>2, <1>3 DEF VerifierInv

LEMMA ReadRowsSound ==
  ASSUME R!ChainInv, VerifierInv, NEW v \in Verifiers, NEW t \in Tenants, ReadRows(v, t)
  PROVE  R!ChainInv' /\ VerifierInv'
<1>1. /\ log[t] \in Logs /\ recorded[t] \in Logs
      /\ DerivedFrom(log[t], recorded[t]) /\ Chained(t, recorded[t])
  BY RecordedFacts DEF VerifierInv, VerifierTypes, LogDerived
<1>2. /\ subject' = [subject EXCEPT ![v] = t]
      /\ seen' = [seen EXCEPT ![v] = log[t]]
      /\ seenAs' = [seenAs EXCEPT ![v] = recorded[t]]
      /\ UNCHANGED <<vars, recorded>>
      /\ \/ /\ BadRows(t, log[t]) # {}
            /\ verdict' = [verdict EXCEPT ![v] = WalkVerdict(t, log[t])]
            /\ phase' = [phase EXCEPT ![v] = "done"]
         \/ /\ BadRows(t, log[t]) = {}
            /\ phase' = [phase EXCEPT ![v] = "walked"]
            /\ verdict' = verdict
  BY DEF ReadRows
<1>3. VerifierTypes'
  BY <1>1, <1>2 DEF VerifierInv, VerifierTypes, vars
<1>4. /\ subject'[v] = t /\ seen'[v] = log[t] /\ seenAs'[v] = recorded[t]
      /\ \/ BadRows(t, log[t]) # {} /\ verdict'[v] = WalkVerdict(t, log[t]) /\ phase'[v] = "done"
         \/ BadRows(t, log[t]) = {} /\ phase'[v] = "walked"
      /\ \A w \in Verifiers : w # v => /\ phase'[w] = phase[w] /\ subject'[w] = subject[w]
                                       /\ seen'[w] = seen[w] /\ seenAs'[w] = seenAs[w]
                                       /\ verdict'[w] = verdict[w]
  BY <1>2 DEF VerifierInv, VerifierTypes
<1>5. Sound(v)'
  <2>1. Len(recorded[t]) \in Nat
    BY <1>1, LenProperties DEF Logs
  <2> QED BY <1>1, <1>2, <1>4, <2>1 DEF Sound
<1> QED BY <1>2, <1>3, <1>4, <1>5, VerifierStepSound

LEMMA ReadHeadSound ==
  ASSUME R!ChainInv, VerifierInv, NEW v \in Verifiers, ReadHead(v)
  PROVE  R!ChainInv' /\ VerifierInv'
<1> DEFINE t == subject[v]
           n == TipVerdict(t, seen[v], head[t])
<1>1. /\ phase[v] = "walked" /\ Sound(v) /\ seen[v] \in Logs /\ seenAs[v] \in Logs
  BY DEF ReadHead, VerifierInv, VerifierTypes
<1>2. /\ t \in Tenants /\ Chained(t, seenAs[v]) /\ DerivedFrom(seen[v], seenAs[v])
      /\ Len(seenAs[v]) <= Len(recorded[t]) /\ BadRows(t, seen[v]) = {}
  BY <1>1 DEF Sound
<1>3. /\ verdict' = [verdict EXCEPT ![v] = n]
      /\ phase' = [phase EXCEPT ![v] = "done"]
      /\ UNCHANGED <<vars, recorded, subject, seen, seenAs>>
  BY DEF ReadHead
<1>4. n.failed_at_seq = NoSeq /\ n.valid = (Tip(t, seen[v]) = head[t].last_hash)
  BY Zenon DEF TipVerdict
<1>5. Tip(t, seen[v]) = head[t].last_hash => Len(seenAs[v]) <= Len(Tip(t, seen[v]).content)
  <2> HIDE DEF t, n
  <2>0. /\ recorded[t] \in Logs /\ Chained(t, recorded[t])
        /\ HeadMatches(t, recorded[t], head[t])
    BY <1>2, RecordedFacts
  <2>1. head[t].last_hash = Tip(t, recorded[t])
    BY <2>0 DEF HeadMatches
  <2>2. \A i \in 1..Len(recorded[t]) : RowChecks(t, recorded[t], i)
    BY <1>2, <2>0, NoBadRows
  <2>3. Len(Tip(t, recorded[t]).content) = Len(recorded[t])
    BY <1>2, <2>0, <2>2, TipContent
  <2> QED BY <1>2, <2>1, <2>3
<1>6. n.valid => Len(seenAs[v]) <= Len(Tip(t, seen[v]).content)
  <2> HIDE DEF n, t
  <2> QED BY <1>4, <1>5, Zenon
<1> HIDE DEF n
<1>7. VerifierTypes'
  BY <1>3 DEF VerifierInv, VerifierTypes, vars
<1>8. /\ phase'[v] = "done" /\ verdict'[v] = n
      /\ \A w \in Verifiers : w # v => phase'[w] = phase[w] /\ verdict'[w] = verdict[w]
  BY <1>3 DEF VerifierInv, VerifierTypes
<1>9. Sound(v)'
  BY <1>2, <1>3, <1>4, <1>6, <1>8 DEF Sound
<1> QED BY <1>3, <1>7, <1>8, <1>9, VerifierStepSound

LEMMA ExitSound ==
  ASSUME R!ChainInv, VerifierInv, NEW v \in Verifiers, Exit(v)
  PROVE  R!ChainInv' /\ VerifierInv'
<1>1. /\ phase' = [phase EXCEPT ![v] = "idle"]
      /\ subject' = [subject EXCEPT ![v] = NoTenant]
      /\ seen' = [seen EXCEPT ![v] = <<>>]
      /\ seenAs' = [seenAs EXCEPT ![v] = <<>>]
      /\ verdict' = [verdict EXCEPT ![v] = NoVerdict]
      /\ UNCHANGED <<vars, recorded>>
  BY DEF Exit
<1>2. VerifierTypes'
  <2>1. log' = log /\ <<>> \in Logs
    BY <1>1 DEF vars, Logs
  <2>2. verdict' = [w \in Verifiers |-> verdict'[w]]
    BY <1>1 DEF VerifierInv, VerifierTypes
  <2>3. /\ phase' \in [Verifiers -> {"idle", "walked", "done"}]
        /\ subject' \in [Verifiers -> Tenants \cup {NoTenant}]
        /\ seen' \in [Verifiers -> Logs] /\ seenAs' \in [Verifiers -> Logs]
    BY <1>1, <2>1 DEF VerifierInv, VerifierTypes
  <2> QED BY <2>1, <2>2, <2>3 DEF VerifierInv, VerifierTypes
<1>3. /\ phase'[v] = "idle"
      /\ \A w \in Verifiers : w # v => /\ phase'[w] = phase[w] /\ subject'[w] = subject[w]
                                       /\ seen'[w] = seen[w] /\ seenAs'[w] = seenAs[w]
                                       /\ verdict'[w] = verdict[w]
  BY <1>1 DEF VerifierInv, VerifierTypes
<1>4. Sound(v)'
  BY <1>3 DEF Sound
<1> QED BY <1>1, <1>2, <1>3, <1>4, VerifierStepSound

LEMMA CNextSound == R!ChainInv /\ VerifierInv /\ [CNext]_cvars => (R!ChainInv /\ VerifierInv)'
<1> SUFFICES ASSUME R!ChainInv, VerifierInv, [CNext]_cvars
             PROVE  R!ChainInv' /\ VerifierInv'
  OBVIOUS
<1>1. CASE UNCHANGED cvars
  <2>1. R!ChainInv'
    <3>1. UNCHANGED R!vars
      BY <1>1 DEF cvars, vars, R!vars
    <3> QED BY <3>1, R!ChainInvNext, InstanceAssumptions
  <2>2. VerifierInv'
    BY <1>1 DEF cvars, vars, verifierVars, VerifierInv, VerifierTypes, LogDerived, Sound
  <2> QED BY <2>1, <2>2
<1>2. CASE Application
  BY <1>2, ApplicationSound
<1>3. ASSUME NEW t \in Tenants, NEW i \in DOMAIN log[t],
             NEW p \in AlteredContents(log[t][i].payload), Alter(t, i, p)
      PROVE  R!ChainInv' /\ VerifierInv'
  BY <1>3, AlterSound
<1>4. ASSUME NEW t \in Tenants, DropTail(t) PROVE R!ChainInv' /\ VerifierInv'
  BY <1>4, DropTailSound
<1>5. ASSUME NEW v \in Verifiers, NEW t \in Tenants, ReadRows(v, t)
      PROVE  R!ChainInv' /\ VerifierInv'
  BY <1>5, ReadRowsSound
<1>6. ASSUME NEW v \in Verifiers, ReadHead(v) PROVE R!ChainInv' /\ VerifierInv'
  BY <1>6, ReadHeadSound
<1>7. ASSUME NEW v \in Verifiers, Exit(v) PROVE R!ChainInv' /\ VerifierInv'
  BY <1>7, ExitSound
<1> QED BY <1>1, <1>2, <1>3, <1>4, <1>5, <1>6, <1>7 DEF CNext

\* The inductive invariant: the recorded chain is intact, the log is what
\* alterations have left of it, and every verdict follows from what was read.
THEOREM VerifierInvariant == CSpec => [](R!ChainInv /\ VerifierInv)
<1> QED BY CInitSound, CNextSound, PTL DEF CSpec

\* No interleaving of the two reads with appends makes the walk name a row of a
\* log that nobody had altered when it was read.
THEOREM BlamedRowsAreAltered == CSpec => []RowBlamedOnlyIfAltered
<1>1. R!ChainInv /\ VerifierInv => RowBlamedOnlyIfAltered
  BY SoundBlame
<1> QED BY <1>1, VerifierInvariant, PTL

\* Rows that differ from what was committed, rewritten or cut off, are never
\* reported as valid, although the head is read later than the rows.
THEOREM AlteredNeverValid == CSpec => []AlterationNeverValid
<1>1. R!ChainInv /\ VerifierInv => AlterationNeverValid
  BY SoundVerdict
<1> QED BY <1>1, VerifierInvariant, PTL

\* When rows were rewritten and none cut off, failed_at_seq is the first of them.
THEOREM FirstAlteredAlwaysNamed == CSpec => []FirstAlteredRowNamed
<1>1. R!ChainInv /\ VerifierInv => FirstAlteredRowNamed
  BY SoundName
<1> QED BY <1>1, VerifierInvariant, PTL

-----------------------------------------------------------------------------
\* NoFalseAlarm does not hold (a commit between the two reads is reported as
\* tampering), but nothing else than such a commit raises a false alarm: when
\* rows that nobody had altered fail, the chain has grown since they were read.
FalseAlarmOnlyInTraffic ==
  \A v \in Verifiers :
    Done(v) /\ ~verdict[v].valid /\ ~ReadAltered(v) =>
      Len(seenAs[v]) < Len(recorded[subject[v]])

\* What was recorded when v read begins what is recorded now, and the property of v.
AlarmSound(v) ==
  LET t == subject[v]
  IN /\ phase[v] # "idle" => \E b \in Logs : recorded[t] = seenAs[v] \o b
     /\ phase[v] = "done" /\ ~verdict[v].valid /\ seen[v] = seenAs[v] =>
          Len(seenAs[v]) < Len(recorded[t])

AlarmInv == R!ChainInv /\ VerifierInv /\ \A v \in Verifiers : AlarmSound(v)

LEMMA ConcatTwice ==
  ASSUME NEW a \in Logs, NEW b \in Logs, NEW c \in Logs
  PROVE  (a \o b) \o c = a \o (b \o c) /\ b \o c \in Logs
BY ConcatAssociative, ConcatProperties DEF Logs

\* What was true of v stays true while it does nothing.
LEMMA AlarmKept ==
  ASSUME NEW v \in Verifiers, AlarmSound(v), R!ChainInv, VerifierInv,
         phase'[v] = phase[v], subject'[v] = subject[v], seen'[v] = seen[v],
         seenAs'[v] = seenAs[v], verdict'[v] = verdict[v],
         \A t \in Tenants : \E b \in Logs : recorded'[t] = recorded[t] \o b
  PROVE  AlarmSound(v)'
<1> DEFINE t == subject[v]
<1>1. CASE phase[v] = "idle"
  BY <1>1 DEF AlarmSound
<1>2. CASE phase[v] # "idle"
  <2>1. t \in Tenants /\ seenAs[v] \in Logs /\ recorded[t] \in Logs
    BY <1>2, RecordedFacts DEF VerifierInv, VerifierTypes, Sound
  <2>2. PICK b \in Logs : recorded[t] = seenAs[v] \o b
    BY <1>2 DEF AlarmSound
  <2>3. PICK c \in Logs : recorded'[t] = recorded[t] \o c
    BY <2>1
  <2>4. recorded'[t] = seenAs[v] \o (b \o c) /\ b \o c \in Logs
    <3> HIDE DEF t
    <3>1. (seenAs[v] \o b) \o c = seenAs[v] \o (b \o c) /\ b \o c \in Logs
      BY <2>1, ConcatTwice
    <3> QED BY <2>2, <2>3, <3>1
  <2>5. Len(recorded[t]) <= Len(recorded'[t])
    <3>1. Len(recorded[t] \o c) = Len(recorded[t]) + Len(c) /\ Len(recorded[t]) \in Nat /\ Len(c) \in Nat
      BY <2>1, ConcatProperties, LenProperties DEF Logs
    <3> QED BY <2>3, <3>1
  <2>6. Len(seenAs[v]) \in Nat /\ Len(recorded[t]) \in Nat /\ Len(recorded'[t]) \in Nat
    BY <2>1, <2>2, <2>3, <2>4, ConcatProperties, LenProperties DEF Logs
  <2>7. phase[v] = "done" /\ ~verdict[v].valid /\ seen[v] = seenAs[v] =>
          Len(seenAs[v]) < Len(recorded'[t])
    BY <2>5, <2>6 DEF AlarmSound
  <2> QED BY <2>4, <2>7 DEF AlarmSound
<1> QED BY <1>1, <1>2

\* The walk accepts the rows that were recorded, so such a read does not end
\* the command.
LEMMA ReadRowsAlarm ==
  ASSUME R!ChainInv, VerifierInv, NEW v \in Verifiers, NEW t \in Tenants, ReadRows(v, t)
  PROVE  AlarmSound(v)'
<1>1. recorded[t] \in Logs /\ Chained(t, recorded[t]) /\ <<>> \in Logs
  BY RecordedFacts DEF Logs
<1>2. recorded[t] = recorded[t] \o <<>>
  BY <1>1, ConcatEmptySeq DEF Logs
<1>3. BadRows(t, recorded[t]) = {}
  BY <1>1, NoBadRows
<1>4. /\ subject'[v] = t /\ seen'[v] = log[t] /\ seenAs'[v] = recorded[t] /\ recorded' = recorded
      /\ phase'[v] = "done" => BadRows(t, log[t]) # {}
  BY DEF ReadRows, VerifierInv, VerifierTypes
<1> QED BY <1>1, <1>2, <1>3, <1>4 DEF AlarmSound

\* A tip that differs from the head is not that of the rows recorded by then.
LEMMA ReadHeadAlarm ==
  ASSUME R!ChainInv, VerifierInv, NEW v \in Verifiers, AlarmSound(v), ReadHead(v)
  PROVE  AlarmSound(v)'
<1> DEFINE t == subject[v]
           n == TipVerdict(t, seen[v], head[t])
<1>1. phase[v] = "walked" /\ t \in Tenants /\ seenAs[v] \in Logs
  BY DEF ReadHead, VerifierInv, VerifierTypes, Sound
<1>2. PICK b \in Logs : recorded[t] = seenAs[v] \o b
  BY <1>1 DEF AlarmSound
<1>3. /\ verdict'[v] = n /\ recorded' = recorded
      /\ subject' = subject /\ seen' = seen /\ seenAs' = seenAs
  BY DEF ReadHead, VerifierInv, VerifierTypes
<1>4. ASSUME ~n.valid, seen[v] = seenAs[v] PROVE Len(seenAs[v]) < Len(recorded[t])
  <2>1. Tip(t, seen[v]) # head[t].last_hash
    BY <1>4, Zenon DEF TipVerdict
  <2> HIDE DEF t, n
  <2>2. HeadMatches(t, recorded[t], head[t])
    BY <1>1, RecordedFacts
  <2>3. head[t].last_hash = Tip(t, recorded[t])
    BY <2>2 DEF HeadMatches
  <2>4. recorded[t] # seenAs[v]
    BY <1>4, <2>1, <2>3
  <2>5. b # <<>>
    BY <1>1, <1>2, <2>4, ConcatEmptySeq DEF Logs
  <2>6. Len(b) \in Nat \ {0}
    BY <2>5, EmptySeq, LenProperties DEF Logs
  <2>7. Len(recorded[t]) = Len(seenAs[v]) + Len(b) /\ Len(seenAs[v]) \in Nat
    BY <1>1, <1>2, ConcatProperties, LenProperties DEF Logs
  <2> QED BY <2>6, <2>7
<1> HIDE DEF n
<1> QED BY <1>2, <1>3, <1>4 DEF AlarmSound

LEMMA AlarmNext == AlarmInv /\ [CNext]_cvars => AlarmInv'
<1> SUFFICES ASSUME AlarmInv, [CNext]_cvars PROVE AlarmInv'
  OBVIOUS
<1>1. R!ChainInv' /\ VerifierInv'
  BY CNextSound DEF AlarmInv
<1> SUFFICES ASSUME NEW v \in Verifiers PROVE AlarmSound(v)'
  BY <1>1 DEF AlarmInv
<1>2. AlarmSound(v) /\ R!ChainInv /\ VerifierInv
  BY DEF AlarmInv
<1>3. recorded' = recorded => \A t \in Tenants : \E b \in Logs : recorded'[t] = recorded[t] \o b
  <2>1. \A t \in Tenants : recorded[t] \o <<>> = recorded[t] /\ <<>> \in Logs
    BY <1>2, RecordedFacts, ConcatEmptySeq DEF Logs
  <2> QED BY <2>1
<1>4. CASE UNCHANGED cvars
  BY <1>2, <1>3, <1>4, AlarmKept DEF cvars, verifierVars
<1>5. CASE Application
  <2>1. \A t \in Tenants : \E b \in Logs : recorded'[t] = recorded[t] \o b
    BY <1>2, <1>5, ApplicationEffect DEF VerifierInv
  <2> QED BY <1>2, <1>5, <2>1, AlarmKept DEF Application, verifierVars
<1>6. CASE \/ \E t \in Tenants : \E i \in DOMAIN log[t] :
                \E p \in AlteredContents(log[t][i].payload) : Alter(t, i, p)
           \/ \E t \in Tenants : DropTail(t)
  <2>1. UNCHANGED <<recorded, verifierVars>>
    BY <1>6 DEF Alter, DropTail
  <2> QED BY <1>2, <1>3, <2>1, AlarmKept DEF verifierVars
<1>7. ASSUME NEW w \in Verifiers,
             (\E t \in Tenants : ReadRows(w, t)) \/ ReadHead(w) \/ Exit(w)
      PROVE  AlarmSound(v)'
  <2>1. CASE w # v
    <3>1. /\ recorded' = recorded /\ phase'[v] = phase[v] /\ subject'[v] = subject[v]
          /\ seen'[v] = seen[v] /\ seenAs'[v] = seenAs[v] /\ verdict'[v] = verdict[v]
      BY <1>2, <1>7, <2>1 DEF ReadRows, ReadHead, Exit, VerifierInv, VerifierTypes
    <3> QED BY <1>2, <1>3, <3>1, AlarmKept
  <2>2. ASSUME w = v, NEW t \in Tenants, ReadRows(v, t) PROVE AlarmSound(v)'
    BY <1>2, <2>2, ReadRowsAlarm
  <2>3. CASE w = v /\ ReadHead(v)
    BY <1>2, <2>3, ReadHeadAlarm
  <2>4. CASE w = v /\ Exit(v)
    <3>1. phase'[v] = "idle"
      BY <1>2, <2>4 DEF Exit, VerifierInv, VerifierTypes
    <3> QED BY <3>1 DEF AlarmSound
  <2> QED BY <1>7, <2>1, <2>2, <2>3, <2>4
<1> QED BY <1>4, <1>5, <1>6, <1>7 DEF CNext

\* An unaltered log is reported only when a commit came between the two reads.
THEOREM FalseAlarmsOnlyInTraffic == CSpec => []FalseAlarmOnlyInTraffic
<1>1. CInit => AlarmInv
  BY CInitSound DEF CInit, AlarmInv, AlarmSound
<1>2. AlarmInv => FalseAlarmOnlyInTraffic
  BY DEF AlarmInv, AlarmSound, FalseAlarmOnlyInTraffic, Done, ReadAltered
<1> QED BY <1>1, <1>2, AlarmNext, PTL DEF CSpec
=============================================================================
