--------------------------- MODULE AuditLogProofs ---------------------------
(***************************************************************************)
(* The chain of AuditLog holds together for every set of tenants,          *)
(* requests, records, columns and values, and for every bound.             *)
(***************************************************************************)
EXTENDS AuditLog, SequenceTheorems, WellFoundedInduction, TLAPS

LEMMA AppendConcat ==
  ASSUME NEW S, NEW u \in Seq(S), NEW v \in Seq(S), NEW x \in S
  PROVE  u \o Append(v, x) = Append(u \o v, x)
<1>1. Append(v, x) = v \o <<x>> /\ Append(u \o v, x) = (u \o v) \o <<x>>
  BY AppendIsConcat, ConcatProperties
<1> QED BY <1>1, ConcatAssociative

\* One call of _append_to_chain prolongs a chain and its head.
LEMMA AppendChained ==
  ASSUME NEW t \in Tenants, NEW s \in Seq(Entries(Payloads)), NEW h \in Heads,
         NEW p \in Payloads, Chained(t, s), HeadMatches(t, s, h)
  PROVE  LET e == NewEntry(h, p)
         IN /\ e \in Entries(Payloads)
            /\ HeadAfter(h, e) \in Heads
            /\ Chained(t, Append(s, e))
            /\ HeadMatches(t, Append(s, e), HeadAfter(h, e))
<1> DEFINE e == NewEntry(h, p)
           s1 == Append(s, e)
<1>1. h.last_seq = Len(s) /\ h.last_hash = Tip(t, s) /\ Len(s) \in Nat
  BY DEF HeadMatches
<1>2. e \in Entries(Payloads) /\ HeadAfter(h, e) \in Heads
  <2>1. h.last_hash \in Digests(Payloads) /\ h.last_seq \in Nat
    BY DEF Heads
  <2>2. Append(h.last_hash.content, p) \in Seq(Payloads)
    BY <2>1 DEF Digests
  <2>3. chain_hash(h.last_hash, p) \in Digests(Payloads)
    BY <2>1, <2>2 DEF chain_hash, Digests
  <2>4. e.record_hash = chain_hash(h.last_hash, p)
    BY DEF NewEntry
  <2> HIDE DEF e
  <2> QED
    BY <2>1, <2>3, <2>4 DEF NewEntry, HeadAfter, Heads, Entries, e
<1>3. /\ Len(s1) = Len(s) + 1
      /\ s1 \in Seq(Entries(Payloads))
      /\ s1[Len(s) + 1] = e
      /\ \A i \in 1..Len(s) : s1[i] = s[i]
  BY <1>1, <1>2
<1>4. Chained(t, s1)
  <2> SUFFICES ASSUME NEW i \in 1..(Len(s) + 1)
               PROVE  s1[i].seq = i /\ RowChecks(t, s1, i)
    BY <1>3 DEF Chained
  <2>1. CASE i \in 1..Len(s)
    <3>1. s[i].seq = i /\ RowChecks(t, s, i)
      BY <2>1, <1>1 DEF Chained
    <3>2. RunningHash(t, s1, i) = RunningHash(t, s, i)
      BY <2>1, <1>1, <1>3 DEF RunningHash
    <3> QED
      BY <2>1, <1>3, <3>1, <3>2 DEF RowChecks
  <2>2. CASE i = Len(s) + 1
    <3>1. RunningHash(t, s1, i) = Tip(t, s)
      BY <2>2, <1>1, <1>3 DEF RunningHash, Tip
    <3>2. e.seq = i /\ e.prev_hash = Tip(t, s) /\ e.record_hash = chain_hash(Tip(t, s), e.payload)
      BY <2>2, <1>1 DEF NewEntry
    <3> QED
      BY <2>2, <1>3, <3>1, <3>2 DEF RowChecks
  <2> QED BY <2>1, <2>2, <1>1
<1>5. HeadMatches(t, s1, HeadAfter(h, e))
  <2>1. Tip(t, s1) = e.record_hash
    BY <1>1, <1>3 DEF Tip, RunningHash
  <2> QED BY <1>1, <1>3, <2>1 DEF HeadMatches, HeadAfter
<1> QED BY <1>2, <1>4, <1>5

\* The overlay of two rows is a row on the columns of both.
LEMMA OverlayRows ==
  ASSUME NEW f \in Rows, NEW g \in Rows
  PROVE  /\ Overlay(f, g) \in Rows
         /\ DOMAIN Overlay(f, g) = DOMAIN f \cup DOMAIN g
<1>1. /\ DOMAIN f \in SUBSET Columns /\ f \in [DOMAIN f -> Values]
      /\ DOMAIN g \in SUBSET Columns /\ g \in [DOMAIN g -> Values]
  BY DEF Rows, J!Rows
<1>2. DOMAIN f \cup DOMAIN g \in SUBSET Columns
  BY <1>1
<1>3. Overlay(f, g) \in [DOMAIN f \cup DOMAIN g -> Values]
  BY <1>1 DEF Overlay
<1> QED BY <1>2, <1>3 DEF Rows, J!Rows

\* What the columns store of a row is a row on the same columns.
LEMMA StoredRows ==
  ASSUME NEW f \in Rows
  PROVE  AsStored(f) \in Rows /\ DOMAIN AsStored(f) = DOMAIN f
<1>1. DOMAIN f \in SUBSET Columns /\ f \in [DOMAIN f -> Values]
  BY DEF Rows, J!Rows
<1>2. AsStored(f) = [c \in DOMAIN f |-> StoredAs[c][f[c]]]
  BY DEF AsStored, J!AsStored
<1>3. AsStored(f) \in [DOMAIN f -> Values]
  BY <1>1, <1>2, StoredAssumption
<1> QED BY <1>1, <1>3 DEF Rows, J!Rows

LEMMA RowFacts ==
  /\ NoRow \in Rows /\ DOMAIN NoRow = {}
  /\ EmptyTable \in [Records -> Rows]
  /\ \A rec \in Records : EmptyTable[rec] = NoRow
  /\ \A x \in FullRow : x \in Rows /\ DOMAIN x = Columns
  /\ \A x \in Rows : DOMAIN x = Columns => x \in FullRow
<1>1. NoRow \in [{} -> Values] /\ DOMAIN NoRow = {}
  BY DEF NoRow, J!NoRow
<1>2. NoRow \in Rows
  <2>1. {} \in SUBSET Columns
    OBVIOUS
  <2> QED BY <1>1, <2>1 DEF Rows, J!Rows
<1>3. EmptyTable \in [Records -> Rows] /\ \A rec \in Records : EmptyTable[rec] = NoRow
  BY <1>2 DEF EmptyTable, J!EmptyTable, NoRow
<1>4. \A x \in FullRow : x \in Rows /\ DOMAIN x = Columns
  BY DEF Rows, J!Rows, FullRow
<1>5. \A x \in Rows : DOMAIN x = Columns => x \in FullRow
  BY DEF Rows, J!Rows, FullRow
<1> QED BY <1>1, <1>2, <1>3, <1>4, <1>5

LEMMA ChainInvInit == Init => ChainInv
<1> SUFFICES ASSUME Init PROVE ChainInv
  OBVIOUS
<1> USE DEF Init
<1>1. \A t \in Tenants : genesis_hash(t) \in Digests(Payloads)
  BY DEF genesis_hash, Digests
<1>2. TypeOK
  BY <1>1, RowFacts DEF TypeOK, Heads
<1>3. LockHeldByWriter
  BY NoRequestAssumption DEF LockHeldByWriter, Open
<1>4. RowsWhole
  BY RowFacts DEF RowsWhole, Open
<1>5. ChainIntact
  BY DEF ChainIntact, Chained, HeadMatches, Tip, RunningHash
<1>6. InFlightChained
  BY DEF InFlightChained
<1> QED BY <1>2, <1>3, <1>4, <1>5, <1>6 DEF ChainInv

\* Steps that leave the stored rows, the lock and the uncommitted entries alone.
LEMMA QuietChain ==
  ASSUME ChainIntact, InFlightChained,
         UNCHANGED <<log, head, view, entries>>,
         \A r \in Requests : entries[r] # <<>> => tenant'[r] = tenant[r]
  PROVE  ChainIntact' /\ InFlightChained'
<1>1. ChainIntact'
  BY DEF ChainIntact
<1>2. InFlightChained'
  BY DEF InFlightChained
<1> QED BY <1>1, <1>2

LEMMA BeginChainInv ==
  ASSUME ChainInv, NEW r \in Requests, NEW t \in Tenants, Begin(r, t)
  PROVE  ChainInv'
<1> USE DEF ChainInv, Begin
<1>1. TypeOK'
  BY DEF TypeOK
<1>2. entries[r] = <<>> /\ \A u \in Tenants : lock[u] # r
  BY DEF LockHeldByWriter
<1>3. \A q \in Requests : q # r => tenant'[q] = tenant[q]
  BY DEF TypeOK
<1>4. tenant'[r] = t
  BY DEF TypeOK
<1>5. LockHeldByWriter'
  BY <1>2, <1>3, <1>4, NoTenantAssumption DEF LockHeldByWriter, Open
<1>6. RowsWhole'
  <2>1. \A rec \in Records : base[r][rec] = NoRow /\ writes[r][rec] = NoRow
    BY RowFacts DEF LockHeldByWriter
  <2> QED BY <2>1, <1>3, <1>4 DEF RowsWhole, Open
<1>7. ChainIntact' /\ InFlightChained'
  BY <1>2, <1>3, QuietChain
<1> QED BY <1>1, <1>5, <1>6, <1>7

LEMMA GetChainInv ==
  ASSUME ChainInv, NEW r \in Requests, NEW rec \in Records, Get(r, rec)
  PROVE  ChainInv'
<1> USE DEF ChainInv, Get, Working
<1>1. tenant[r] \in Tenants
  BY DEF Open, TypeOK
<1> DEFINE row == Visible(r)[rec]
<1>2. row \in FullRow /\ row \in Rows /\ rows[tenant[r]][rec] = row /\ row # NoRow
  BY <1>1, RowFacts DEF Visible, RowsWhole
<1> HIDE DEF row
<1>3. TypeOK'
  BY <1>2 DEF TypeOK, row
<1>4. /\ \A q \in Requests, x \in Records :
           base'[q][x] = IF q = r /\ x = rec THEN row ELSE base[q][x]
      /\ \A q \in Requests, x \in Records :
           cur'[q][x] = IF q = r /\ x = rec THEN row ELSE cur[q][x]
      /\ \A q \in Requests : q # r => base'[q] = base[q] /\ cur'[q] = cur[q]
  BY DEF TypeOK, row
<1>5. LockHeldByWriter'
  BY <1>4 DEF LockHeldByWriter, Open
<1>6. RowsWhole'
  BY <1>2, <1>4 DEF RowsWhole, Open
<1>7. ChainIntact' /\ InFlightChained'
  BY QuietChain
<1> QED BY <1>3, <1>5, <1>6, <1>7

LEMMA AddChainInv ==
  ASSUME ChainInv, NEW r \in Requests, NEW rec \in Records, NEW row \in FullRow,
         Add(r, rec, row) \/ Assign(r, rec, row)
  PROVE  ChainInv'
<1> USE DEF ChainInv, Working
<1>0. /\ Working(r)
      /\ cur' = [cur EXCEPT ![r][rec] = row]
      /\ UNCHANGED <<rows, log, head, lock, tenant, base, flushing, view, entries, writes>>
  BY DEF Add, Assign
<1>1. row \in Rows
  BY RowFacts
<1>2. TypeOK'
  BY <1>0, <1>1 DEF TypeOK
<1>3. /\ \A q \in Requests, x \in Records :
           cur'[q][x] = IF q = r /\ x = rec THEN row ELSE cur[q][x]
      /\ \A q \in Requests : q # r => cur'[q] = cur[q]
  BY <1>0 DEF TypeOK
<1>4. LockHeldByWriter'
  BY <1>0, <1>3 DEF LockHeldByWriter, Open
<1>5. row = NoRow => base[r][rec] = NoRow
  <2>1. \A x, y \in FullRow : DOMAIN x = {} => x = y
    BY DEF FullRow
  <2> QED BY <2>1, RowFacts DEF RowsWhole
<1>6. RowsWhole'
  BY <1>0, <1>3, <1>5 DEF RowsWhole, Open
<1>7. ChainIntact' /\ InFlightChained'
  BY <1>0, QuietChain
<1> QED BY <1>2, <1>4, <1>6, <1>7

LEMMA FlushChainInv ==
  ASSUME ChainInv, NEW r \in Requests, Flush(r)
  PROVE  ChainInv'
<1> USE DEF ChainInv, Flush, Working
<1>1. TypeOK'
  BY DEF TypeOK
<1>2. LockHeldByWriter'
  BY DEF LockHeldByWriter, Open, TypeOK
<1>3. RowsWhole'
  BY DEF RowsWhole, Open
<1>4. ChainIntact' /\ InFlightChained'
  BY QuietChain
<1> QED BY <1>1, <1>2, <1>3, <1>4

LEMMA TipType ==
  ASSUME NEW t \in Tenants, NEW s \in Seq(Entries(Payloads))
  PROVE  Tip(t, s) \in Digests(Payloads) /\ [last_seq |-> Len(s), last_hash |-> Tip(t, s)] \in Heads
<1>1. CASE Len(s) = 0
  BY <1>1 DEF Tip, RunningHash, genesis_hash, Digests, Heads
<1>2. CASE Len(s) # 0
  <2>1. s[Len(s)] \in Entries(Payloads)
    BY <1>2
  <2> QED BY <1>2, <2>1 DEF Tip, RunningHash, Entries, Heads
<1> QED BY <1>1, <1>2

\* The head a flush reads is that of the chain it prolongs: its own, or the
\* committed one it has just locked.
LEMMA HeadReadFacts ==
  ASSUME ChainInv, NEW r \in Requests, tenant[r] \in Tenants, HeadLockable(r)
  PROVE  /\ HeadRead(r) \in Heads
         /\ Chained(tenant[r], log[tenant[r]] \o entries[r])
         /\ HeadMatches(tenant[r], log[tenant[r]] \o entries[r], HeadRead(r))
<1> DEFINE t == tenant[r]
<1>1. /\ log[t] \in Seq(Entries(Payloads)) /\ entries[r] \in Seq(Entries(Payloads))
      /\ log[t] \o entries[r] \in Seq(Entries(Payloads))
  BY DEF ChainInv, TypeOK
<1>2. CASE lock[t] = r
  <2>1. HeadRead(r) = view[r] /\ entries[r] # <<>>
    BY <1>2 DEF HeadRead, ChainInv, LockHeldByWriter
  <2>2. Chained(t, log[t] \o entries[r]) /\ HeadMatches(t, log[t] \o entries[r], HeadRead(r))
    BY <2>1 DEF ChainInv, InFlightChained
  <2>3. HeadRead(r) \in Heads
    BY <2>2, <1>1, TipType DEF HeadMatches
  <2> QED BY <2>2, <2>3
<1>3. CASE lock[t] # r
  <2>1. HeadRead(r) = head[t] /\ entries[r] = <<>>
    BY <1>3 DEF HeadRead, ChainInv, LockHeldByWriter
  <2>2. log[t] \o entries[r] = log[t]
    BY <2>1, <1>1, ConcatEmptySeq
  <2> QED BY <2>1, <2>2 DEF ChainInv, ChainIntact, TypeOK
<1> QED BY <1>2, <1>3

\* What a flush writes for one object.
LEMMA PayloadFacts ==
  ASSUME ChainInv, NEW r \in Requests, NEW rec \in Records, tenant[r] \in Tenants,
         rec \in Pending(r)
  PROVE  /\ PayloadFor(r, rec) \in Payloads
         /\ Written(r, rec) \in Rows
         /\ Refreshed(r, rec) \in FullRow
<1>1. /\ cur[r][rec] \in Rows /\ base[r][rec] \in Rows /\ writes[r][rec] \in Rows
      /\ rows[tenant[r]][rec] \in Rows
  BY DEF ChainInv, TypeOK
<1>2. cur[r][rec] # NoRow /\ cur[r][rec] \in FullRow
  BY DEF ChainInv, RowsWhole, Pending, Added, Dirty
<1>3. CASE rec \in Added(r)
  <2>1. PayloadFor(r, rec) = [tenant |-> tenant[r], action |-> "INSERT", record |-> rec,
                              old |-> NoRow, new |-> cur[r][rec]]
    BY <1>3 DEF PayloadFor
  <2>2. PayloadFor(r, rec) \in Payloads
    BY <2>1, <1>1, RowFacts DEF Payloads, J!Payloads, Rows
  <2>3. Written(r, rec) \in Rows /\ DOMAIN Written(r, rec) = Columns \cup DOMAIN writes[r][rec]
    <3>1. PayloadFor(r, rec).new = cur[r][rec] /\ DOMAIN cur[r][rec] = Columns
      BY <2>1, <1>2, RowFacts
    <3>2. AsStored(cur[r][rec]) \in Rows /\ DOMAIN AsStored(cur[r][rec]) = Columns
      BY <3>1, <1>1, StoredRows
    <3> QED BY <3>1, <3>2, <1>1, OverlayRows DEF Written
  <2>4. \A x \in Rows : DOMAIN x \subseteq Columns
    BY DEF Rows, J!Rows
  <2>5. Refreshed(r, rec) \in Rows /\ DOMAIN Refreshed(r, rec) = Columns
    BY <2>3, <2>4, <1>1, OverlayRows DEF Refreshed
  <2> QED BY <2>2, <2>3, <2>5, RowFacts
<1>4. CASE rec \notin Added(r)
  <2> DEFINE cs == ChangedColumns(r, rec)
  <2>1. base[r][rec] # NoRow /\ base[r][rec] \in FullRow
    BY <1>4, <1>2 DEF Pending, Added, Dirty, ChainInv, RowsWhole
  <2>2. cs \in SUBSET Columns /\ cs \subseteq DOMAIN cur[r][rec] /\ cs \subseteq DOMAIN base[r][rec]
    BY <2>1, <1>2, RowFacts DEF ChangedColumns
  <2> DEFINE o == [c \in cs |-> base[r][rec][c]]
             n == [c \in cs |-> cur[r][rec][c]]
  <2>3. o \in [cs -> Values] /\ n \in [cs -> Values]
    BY <2>1, <2>2, <1>2 DEF FullRow
  <2>4. o \in Rows /\ n \in Rows
    BY <2>2, <2>3 DEF Rows, J!Rows
  <2>5. PayloadFor(r, rec) = [tenant |-> tenant[r], action |-> "UPDATE", record |-> rec,
                              old |-> o, new |-> n]
    BY <1>4 DEF PayloadFor
  <2>6. PayloadFor(r, rec) \in Payloads /\ PayloadFor(r, rec).new = n
    BY <2>4, <2>5 DEF Payloads, J!Payloads, Rows
  <2>7. Written(r, rec) \in Rows /\ DOMAIN Written(r, rec) = cs \cup DOMAIN writes[r][rec]
    <3>1. n \in Rows /\ DOMAIN n = cs
      BY <2>4
    <3>2. Written(r, rec) = Overlay(AsStored(n), writes[r][rec])
      BY <2>6 DEF Written
    <3> HIDE DEF n, cs
    <3>3. AsStored(n) \in Rows /\ DOMAIN AsStored(n) = cs
      BY <3>1, StoredRows
    <3> QED BY <3>2, <3>3, <1>1, OverlayRows
  <2>8. writes[r][rec] \in FullRow \/ rows[tenant[r]][rec] \in FullRow
    BY <2>1, NoTenantAssumption DEF ChainInv, RowsWhole, Open
  <2>9. \A x \in Rows : DOMAIN x \subseteq Columns
    BY DEF Rows, J!Rows
  <2>10. /\ Refreshed(r, rec) \in Rows
         /\ DOMAIN Refreshed(r, rec) = (cs \cup DOMAIN writes[r][rec]) \cup DOMAIN rows[tenant[r]][rec]
    BY <2>7, <1>1, OverlayRows DEF Refreshed
  <2>11. DOMAIN Refreshed(r, rec) = Columns
    BY <2>2, <2>8, <2>9, <2>10, <1>1, RowFacts
  <2> QED BY <2>6, <2>7, <2>10, <2>11, RowFacts
<1> QED BY <1>3, <1>4

LEMMA AppendChainInv ==
  ASSUME ChainInv, NEW r \in Requests, NEW rec \in Records, AppendToChain(r, rec)
  PROVE  ChainInv'
<1> DEFINE t == tenant[r]
           p == PayloadFor(r, rec)
           h == HeadRead(r)
           e == NewEntry(h, p)
           row == Refreshed(r, rec)
<1>1. t \in Tenants /\ rec \in Pending(r) /\ HeadLockable(r)
  BY DEF AppendToChain, ChainInv, LockHeldByWriter, Open, TypeOK, NextInFlush, Pending
<1>2. p \in Payloads /\ Written(r, rec) \in Rows /\ row \in FullRow /\ row \in Rows
  BY <1>1, PayloadFacts, RowFacts
<1>3. /\ log[t] \in Seq(Entries(Payloads)) /\ entries[r] \in Seq(Entries(Payloads))
      /\ log[t] \o entries[r] \in Seq(Entries(Payloads))
  BY <1>1 DEF ChainInv, TypeOK
<1>4. h \in Heads /\ Chained(t, log[t] \o entries[r]) /\ HeadMatches(t, log[t] \o entries[r], h)
  BY <1>1, HeadReadFacts
<1>5. /\ e \in Entries(Payloads) /\ HeadAfter(h, e) \in Heads
      /\ Chained(t, Append(log[t] \o entries[r], e))
      /\ HeadMatches(t, Append(log[t] \o entries[r], e), HeadAfter(h, e))
  BY <1>1, <1>2, <1>3, <1>4, AppendChained
<1>6. /\ entries' = [entries EXCEPT ![r] = Append(@, e)]
      /\ view' = [view EXCEPT ![r] = HeadAfter(h, e)]
      /\ lock' = [lock EXCEPT ![t] = r]
      /\ writes' = [writes EXCEPT ![r][rec] = Written(r, rec)]
      /\ base' = [base EXCEPT ![r][rec] = row]
      /\ cur' = [cur EXCEPT ![r][rec] = row]
      /\ flushing' = [flushing EXCEPT ![r] = Pending(r) # {rec}]
      /\ flushing[r]
      /\ UNCHANGED <<rows, log, head, tenant>>
  BY DEF AppendToChain
<1> HIDE DEF t, p, h, e, row
<1>7. TypeOK'
  BY <1>1, <1>2, <1>3, <1>5, <1>6 DEF ChainInv, TypeOK
<1>8. /\ entries'[r] = Append(entries[r], e) /\ entries'[r] # <<>>
      /\ view'[r] = HeadAfter(h, e)
      /\ lock'[t] = r
      /\ \A u \in Tenants : u # t => lock'[u] = lock[u]
      /\ \A q \in Requests : q # r =>
           /\ entries'[q] = entries[q] /\ view'[q] = view[q] /\ writes'[q] = writes[q]
           /\ base'[q] = base[q] /\ cur'[q] = cur[q] /\ flushing'[q] = flushing[q]
      /\ \A x \in Records :
           /\ base'[r][x] = IF x = rec THEN row ELSE base[r][x]
           /\ cur'[r][x] = IF x = rec THEN row ELSE cur[r][x]
           /\ writes'[r][x] = IF x = rec THEN Written(r, rec) ELSE writes[r][x]
  <2>1. entries'[r] = Append(entries[r], e) /\ Append(entries[r], e) # <<>>
    <3>1. entries'[r] = Append(entries[r], e)
      BY <1>6 DEF ChainInv, TypeOK
    <3>2. Append(entries[r], e) # <<>>
      BY <1>3, <1>5, AppendProperties
    <3> QED BY <3>1, <3>2
  <2>2. view'[r] = HeadAfter(h, e) /\ lock'[t] = r /\ \A u \in Tenants : u # t => lock'[u] = lock[u]
    BY <1>1, <1>6 DEF ChainInv, TypeOK
  <2>3. \A q \in Requests : q # r =>
           /\ entries'[q] = entries[q] /\ view'[q] = view[q] /\ writes'[q] = writes[q]
           /\ base'[q] = base[q] /\ cur'[q] = cur[q] /\ flushing'[q] = flushing[q]
    BY <1>6 DEF ChainInv, TypeOK
  <2>4. \A x \in Records :
           /\ base'[r][x] = IF x = rec THEN row ELSE base[r][x]
           /\ cur'[r][x] = IF x = rec THEN row ELSE cur[r][x]
           /\ writes'[r][x] = IF x = rec THEN Written(r, rec) ELSE writes[r][x]
    BY <1>6 DEF ChainInv, TypeOK
  <2> QED BY <2>1, <2>2, <2>3, <2>4
\* The lock was free or its own, so no other session has entries on t.
<1>9. \A q \in Requests : q # r /\ entries[q] # <<>> => tenant[q] # t
  BY <1>1, NoRequestAssumption DEF HeadLockable, ChainInv, LockHeldByWriter, t
<1>10. \A q \in Requests, u \in Tenants : q # r => (lock'[u] = q => lock[u] = q)
  BY <1>1, <1>8
<1>11. LockHeldByWriter'
  <2> SUFFICES ASSUME NEW q \in Requests
               PROVE  /\ ~Open(q)' => /\ ~flushing'[q] /\ entries'[q] = <<>>
                                      /\ base'[q] = EmptyTable /\ cur'[q] = EmptyTable
                                      /\ writes'[q] = EmptyTable
                      /\ entries'[q] # <<>> => lock'[tenant'[q]] = q
                      /\ \A u \in Tenants : lock'[u] = q => tenant'[q] = u /\ entries'[q] # <<>>
    BY DEF LockHeldByWriter
  <2>1. CASE q = r
    <3>1. Open(r)'
      BY <1>1, <1>6, NoTenantAssumption DEF Open, t
    <3>2. \A u \in Tenants : u # t => lock'[u] # r
      BY <1>8 DEF ChainInv, LockHeldByWriter, t
    <3> QED BY <2>1, <3>1, <3>2, <1>6, <1>8 DEF t
  <2>2. CASE q # r
    <3>1. entries[q] # <<>> => lock'[tenant[q]] = q
      <4>1. entries[q] # <<>> => tenant[q] \in Tenants
        BY DEF ChainInv, TypeOK, LockHeldByWriter, Open
      <4> QED BY <4>1, <2>2, <1>8, <1>9 DEF ChainInv, LockHeldByWriter
    <3> QED BY <2>2, <3>1, <1>6, <1>8, <1>10 DEF ChainInv, LockHeldByWriter, Open
  <2> QED BY <2>1, <2>2
<1>12. RowsWhole'
  <2>1. \A q \in Requests, x \in Records : q # r =>
          /\ base'[q][x] = base[q][x] /\ cur'[q][x] = cur[q][x] /\ writes'[q][x] = writes[q][x]
    BY <1>8
  <2>2. Written(r, rec) \in FullRow \/ rows[tenant[r]][rec] \in FullRow
    <3>1. CASE rec \in Added(r)
      <4>1. cur[r][rec] \in FullRow /\ PayloadFor(r, rec).new = cur[r][rec]
        BY <3>1 DEF ChainInv, RowsWhole, Added, PayloadFor
      <4>2. DOMAIN cur[r][rec] = Columns /\ cur[r][rec] \in Rows /\ writes[r][rec] \in Rows
        BY <4>1, RowFacts DEF ChainInv, TypeOK
      <4>3. DOMAIN writes[r][rec] \subseteq Columns
        BY <4>2 DEF Rows, J!Rows
      <4>4. DOMAIN Written(r, rec) = Columns
        <5>1. Written(r, rec) = Overlay(AsStored(cur[r][rec]), writes[r][rec])
          BY <4>1 DEF Written
        <5>2. AsStored(cur[r][rec]) \in Rows /\ DOMAIN AsStored(cur[r][rec]) = Columns
          BY <4>2, StoredRows
        <5>3. DOMAIN Overlay(AsStored(cur[r][rec]), writes[r][rec])
                = DOMAIN AsStored(cur[r][rec]) \cup DOMAIN writes[r][rec]
          BY <4>2, <5>2, OverlayRows
        <5> QED BY <5>1, <5>2, <5>3, <4>3
      <4> QED BY <4>4, <1>2, RowFacts
    <3>2. CASE rec \notin Added(r)
      <4>1. base[r][rec] # NoRow
        BY <3>2, <1>1 DEF Pending, Added, Dirty
      <4>2. writes[r][rec] \in FullRow \/ rows[tenant[r]][rec] \in FullRow
        BY <4>1, <1>1, NoTenantAssumption DEF ChainInv, RowsWhole, Open, t
      <4>3. CASE writes[r][rec] \in FullRow
        <5>1. DOMAIN writes[r][rec] = Columns /\ writes[r][rec] \in Rows /\ p \in Payloads
          BY <4>3, <1>2, RowFacts
        <5>2. p.new \in Rows /\ DOMAIN p.new \subseteq Columns
          BY <5>1 DEF Payloads, J!Payloads, Rows, J!Rows
        <5>3. AsStored(p.new) \in Rows /\ DOMAIN AsStored(p.new) \subseteq Columns
          BY <5>2, StoredRows
        <5>4. DOMAIN Written(r, rec) = Columns
          BY <5>1, <5>3, OverlayRows DEF Written, p
        <5> QED BY <5>4, <1>2, RowFacts
      <4> QED BY <4>2, <4>3
    <3> QED BY <3>1, <3>2
  <2> QED BY <2>1, <2>2, <1>2, <1>6, <1>8 DEF ChainInv, RowsWhole, Open
<1>13. ChainIntact'
  BY <1>6 DEF ChainInv, ChainIntact
<1>14. InFlightChained'
  <2> SUFFICES ASSUME NEW q \in Requests, entries'[q] # <<>>
               PROVE  /\ Chained(tenant'[q], log'[tenant'[q]] \o entries'[q])
                      /\ HeadMatches(tenant'[q], log'[tenant'[q]] \o entries'[q], view'[q])
    BY DEF InFlightChained
  <2>1. CASE q = r
    <3>1. log[t] \o Append(entries[r], e) = Append(log[t] \o entries[r], e)
      <4>1. /\ log[t] \in Seq(Entries(Payloads)) /\ entries[r] \in Seq(Entries(Payloads))
            /\ e \in Entries(Payloads)
        BY <1>3, <1>5
      <4> DEFINE u == log[t]
                 v == entries[r]
      <4> HIDE DEF u, v
      <4>2. u \in Seq(Entries(Payloads)) /\ v \in Seq(Entries(Payloads))
        BY <4>1 DEF u, v
      <4>3. u \o Append(v, e) = Append(u \o v, e)
        BY <4>1, <4>2, AppendConcat
      <4> QED BY <4>3 DEF u, v
    <3>2. tenant'[q] = t /\ log'[t] = log[t] /\ entries'[q] = Append(entries[r], e)
          /\ view'[q] = HeadAfter(h, e)
      BY <2>1, <1>6, <1>8 DEF t
    <3> QED BY <3>1, <3>2, <1>5
  <2>2. CASE q # r
    BY <2>2, <1>6, <1>8 DEF ChainInv, InFlightChained
  <2> QED BY <2>1, <2>2
<1> QED BY <1>7, <1>11, <1>12, <1>13, <1>14 DEF ChainInv

\* What closing the session does to everybody's locks and to its own state.
LEMMA CloseFacts ==
  ASSUME ChainInv, NEW r \in Requests, Close(r), lock' = Released(r)
  PROVE  /\ tenant' \in [Requests -> Tenants \cup {NoTenant}]
         /\ base' \in [Requests -> [Records -> Rows]]
         /\ cur' \in [Requests -> [Records -> Rows]]
         /\ writes' \in [Requests -> [Records -> Rows]]
         /\ flushing' \in [Requests -> BOOLEAN]
         /\ view' \in [Requests -> Heads \cup {NoHead}]
         /\ entries' \in [Requests -> Seq(Entries(Payloads))]
         /\ lock' \in [Tenants -> Requests \cup {NoRequest}]
         /\ tenant'[r] = NoTenant /\ entries'[r] = <<>> /\ ~flushing'[r]
         /\ base'[r] = EmptyTable /\ cur'[r] = EmptyTable /\ writes'[r] = EmptyTable
         /\ \A q \in Requests : q # r =>
              /\ tenant'[q] = tenant[q] /\ entries'[q] = entries[q] /\ view'[q] = view[q]
              /\ flushing'[q] = flushing[q] /\ writes'[q] = writes[q]
              /\ base'[q] = base[q] /\ cur'[q] = cur[q]
         /\ LockHeldByWriter'
<1>1. /\ tenant' \in [Requests -> Tenants \cup {NoTenant}]
      /\ base' \in [Requests -> [Records -> Rows]]
      /\ cur' \in [Requests -> [Records -> Rows]]
      /\ writes' \in [Requests -> [Records -> Rows]]
      /\ flushing' \in [Requests -> BOOLEAN]
      /\ view' \in [Requests -> Heads \cup {NoHead}]
      /\ entries' \in [Requests -> Seq(Entries(Payloads))]
  BY RowFacts DEF Close, ChainInv, TypeOK
<1>2. /\ lock' \in [Tenants -> Requests \cup {NoRequest}]
      /\ \A t \in Tenants : lock'[t] = IF lock[t] = r THEN NoRequest ELSE lock[t]
  BY DEF Released, ChainInv, TypeOK
<1>3. /\ tenant'[r] = NoTenant /\ entries'[r] = <<>> /\ ~flushing'[r]
      /\ base'[r] = EmptyTable /\ cur'[r] = EmptyTable /\ writes'[r] = EmptyTable
  BY DEF Close, ChainInv, TypeOK
<1>4. \A q \in Requests : q # r =>
        /\ tenant'[q] = tenant[q] /\ entries'[q] = entries[q] /\ view'[q] = view[q]
        /\ flushing'[q] = flushing[q] /\ writes'[q] = writes[q]
        /\ base'[q] = base[q] /\ cur'[q] = cur[q]
  BY DEF Close, ChainInv, TypeOK
<1>5. LockHeldByWriter'
  <2> SUFFICES ASSUME NEW q \in Requests
               PROVE  /\ ~Open(q)' => /\ ~flushing'[q] /\ entries'[q] = <<>>
                                      /\ base'[q] = EmptyTable /\ cur'[q] = EmptyTable
                                      /\ writes'[q] = EmptyTable
                      /\ entries'[q] # <<>> => lock'[tenant'[q]] = q
                      /\ \A u \in Tenants : lock'[u] = q => tenant'[q] = u /\ entries'[q] # <<>>
    BY DEF LockHeldByWriter
  <2>1. CASE q = r
    BY <2>1, <1>2, <1>3, NoRequestAssumption
  <2>2. CASE q # r
    <3>1. entries[q] # <<>> => tenant[q] \in Tenants
      BY DEF ChainInv, TypeOK, LockHeldByWriter, Open
    <3> QED BY <2>2, <3>1, <1>2, <1>4, NoRequestAssumption DEF ChainInv, LockHeldByWriter, Open
  <2> QED BY <2>1, <2>2
<1> QED BY <1>1, <1>2, <1>3, <1>4, <1>5

LEMMA CloseRowsWhole ==
  ASSUME ChainInv, NEW r \in Requests, Close(r), lock' = Released(r),
         \A u \in Tenants, rec \in Records :
            /\ rows'[u][rec] \in FullRow \cup {NoRow}
            /\ rows[u][rec] \in FullRow => rows'[u][rec] \in FullRow
  PROVE  RowsWhole'
<1> SUFFICES ASSUME NEW q \in Requests, NEW rec \in Records
             PROVE  /\ base'[q][rec] \in FullRow \cup {NoRow}
                    /\ cur'[q][rec] \in FullRow \cup {NoRow}
                    /\ base'[q][rec] # NoRow => cur'[q][rec] # NoRow
                    /\ Open(q)' => \/ base'[q][rec] = NoRow /\ writes'[q][rec] = NoRow
                                   \/ writes'[q][rec] \in FullRow
                                   \/ rows'[tenant'[q]][rec] \in FullRow
  BY DEF RowsWhole
<1>1. CASE q = r
  <2>1. base'[q] = EmptyTable /\ cur'[q] = EmptyTable /\ writes'[q] = EmptyTable
    BY <1>1, CloseFacts
  <2> QED BY <2>1, RowFacts
<1>2. CASE q # r
  <2>1. /\ base'[q] = base[q] /\ cur'[q] = cur[q] /\ writes'[q] = writes[q]
        /\ tenant'[q] = tenant[q]
    BY <1>2, CloseFacts
  <2>2. tenant[q] # NoTenant => tenant[q] \in Tenants
    BY DEF ChainInv, TypeOK
  <2> QED BY <2>1, <2>2 DEF ChainInv, RowsWhole, Open
<1> QED BY <1>1, <1>2

LEMMA RollbackChainInv ==
  ASSUME ChainInv, NEW r \in Requests, Rollback(r)
  PROVE  ChainInv'
<1>1. Close(r) /\ lock' = Released(r) /\ UNCHANGED <<rows, log, head>>
  BY DEF Rollback, storeVars
<1>2. TypeOK'
  BY <1>1, CloseFacts DEF ChainInv, TypeOK
<1>3. RowsWhole'
  <2>1. \A u \in Tenants, rec \in Records :
          /\ rows'[u][rec] \in FullRow \cup {NoRow}
          /\ rows[u][rec] \in FullRow => rows'[u][rec] \in FullRow
    BY <1>1 DEF ChainInv, RowsWhole
  <2> QED BY <2>1, <1>1, CloseRowsWhole
<1>4. ChainIntact'
  BY <1>1 DEF ChainInv, ChainIntact
<1>5. InFlightChained'
  BY <1>1, CloseFacts DEF ChainInv, InFlightChained
<1> QED BY <1>1, <1>2, <1>3, <1>4, <1>5, CloseFacts DEF ChainInv

\* COMMIT publishes the chain the session built on the committed one.
LEMMA CommitChainInv ==
  ASSUME ChainInv, NEW r \in Requests, Commit(r)
  PROVE  ChainInv'
<1> DEFINE t == tenant[r]
           committed == log[t] \o entries[r]
<1>1. /\ t \in Tenants
      /\ Close(r) /\ lock' = Released(r)
      /\ log' = [log EXCEPT ![t] = committed]
      /\ head' = [head EXCEPT ![t] = HeadRowAfter(r)]
      /\ rows' = [rows EXCEPT ![t] = RowsAfter(r)]
  BY DEF Commit, Working, Open, ChainInv, TypeOK
<1>2. committed \in Seq(Entries(Payloads)) /\ log[t] \in Seq(Entries(Payloads))
  BY <1>1 DEF ChainInv, TypeOK
<1>3. Chained(t, committed) /\ HeadMatches(t, committed, HeadRowAfter(r))
  <2>1. CASE entries[r] = <<>>
    <3>1. committed = log[t]
      BY <2>1, <1>2, ConcatEmptySeq
    <3> QED BY <2>1, <3>1, <1>1 DEF HeadRowAfter, ChainInv, ChainIntact
  <2>2. CASE entries[r] # <<>>
    BY <2>2 DEF HeadRowAfter, ChainInv, InFlightChained
  <2> QED BY <2>1, <2>2
<1>4. HeadRowAfter(r) \in Heads
  BY <1>1, <1>2, <1>3, TipType DEF HeadMatches
<1>5. \A rec \in Records : /\ RowsAfter(r)[rec] \in Rows
                           /\ RowsAfter(r)[rec] \in FullRow \cup {NoRow}
                           /\ rows[t][rec] \in FullRow => RowsAfter(r)[rec] \in FullRow
  <2> SUFFICES ASSUME NEW rec \in Records
               PROVE  /\ RowsAfter(r)[rec] \in Rows
                      /\ RowsAfter(r)[rec] \in FullRow \cup {NoRow}
                      /\ rows[t][rec] \in FullRow => RowsAfter(r)[rec] \in FullRow
    OBVIOUS
  <2> DEFINE w == writes[r][rec]
             old == rows[t][rec]
  <2>1. RowsAfter(r)[rec] = Overlay(w, old)
    BY DEF RowsAfter
  <2>2. w \in Rows /\ old \in Rows
    BY <1>1 DEF ChainInv, TypeOK
  <2>3. /\ old \in FullRow \cup {NoRow}
        /\ w = NoRow \/ w \in FullRow \/ old \in FullRow
    BY <1>1, NoTenantAssumption DEF ChainInv, RowsWhole, Open
  <2> HIDE DEF w, old
  <2>4. Overlay(w, old) \in Rows /\ DOMAIN Overlay(w, old) = DOMAIN w \cup DOMAIN old
    BY <2>2, OverlayRows
  <2>5. DOMAIN w \subseteq Columns /\ DOMAIN old \subseteq Columns
    BY <2>2 DEF Rows, J!Rows
  <2>6. CASE w \in FullRow \/ old \in FullRow
    <3>1. DOMAIN Overlay(w, old) = Columns
      BY <2>4, <2>5, <2>6, RowFacts
    <3>2. Overlay(w, old) \in FullRow
      BY <2>4, <3>1, RowFacts
    <3> QED BY <2>1, <2>4, <3>2
  <2>7. CASE w = NoRow /\ old = NoRow
    <3>1. DOMAIN Overlay(w, old) = {}
      BY <2>4, <2>7, RowFacts
    <3>2. Overlay(w, old) = NoRow
      BY <3>1 DEF Overlay, NoRow, J!NoRow
    <3>3. RowsAfter(r)[rec] = old /\ old = NoRow
      BY <2>1, <3>2, <2>7
    <3> QED BY <3>3, <2>2 DEF old
  <2> QED BY <2>3, <2>6, <2>7
<1>6. RowsAfter(r) \in [Records -> Rows]
  BY <1>5 DEF RowsAfter
<1> HIDE DEF t, committed
<1>7. TypeOK'
  BY <1>1, <1>2, <1>4, <1>6, CloseFacts DEF ChainInv, TypeOK
<1>8. /\ log'[t] = committed /\ head'[t] = HeadRowAfter(r) /\ rows'[t] = RowsAfter(r)
      /\ \A u \in Tenants : u # t =>
           log'[u] = log[u] /\ head'[u] = head[u] /\ rows'[u] = rows[u]
  BY <1>1 DEF ChainInv, TypeOK
<1>9. RowsWhole'
  <2>1. \A u \in Tenants, rec \in Records :
          /\ rows'[u][rec] \in FullRow \cup {NoRow}
          /\ rows[u][rec] \in FullRow => rows'[u][rec] \in FullRow
    BY <1>5, <1>8 DEF ChainInv, RowsWhole
  <2> QED BY <2>1, <1>1, CloseRowsWhole
<1>10. ChainIntact'
  BY <1>3, <1>8 DEF ChainInv, ChainIntact, t, committed
<1>11. InFlightChained'
  <2> SUFFICES ASSUME NEW q \in Requests, entries'[q] # <<>>
               PROVE  /\ Chained(tenant'[q], log'[tenant'[q]] \o entries'[q])
                      /\ HeadMatches(tenant'[q], log'[tenant'[q]] \o entries'[q], view'[q])
    BY DEF InFlightChained
  <2>1. q # r /\ tenant'[q] = tenant[q] /\ entries'[q] = entries[q] /\ view'[q] = view[q]
    BY <1>1, CloseFacts
  <2>2. CASE entries[r] = <<>>
    <3>1. committed = log[t]
      BY <2>2, <1>2, ConcatEmptySeq DEF committed
    <3>2. tenant[q] \in Tenants
      BY <2>1 DEF ChainInv, TypeOK, LockHeldByWriter, Open
    <3>3. log'[tenant[q]] = log[tenant[q]]
      BY <3>1, <3>2, <1>8
    <3> QED BY <2>1, <3>3 DEF ChainInv, InFlightChained
  <2>3. CASE entries[r] # <<>>
    <3>1. tenant[q] # t /\ tenant[q] \in Tenants
      BY <2>1, <2>3 DEF ChainInv, TypeOK, LockHeldByWriter, Open, t
    <3> QED BY <2>1, <3>1, <1>8 DEF ChainInv, InFlightChained
  <2> QED BY <2>2, <2>3
<1> QED BY <1>1, <1>7, <1>9, <1>10, <1>11, CloseFacts DEF ChainInv

LEMMA ChainInvNext == ChainInv /\ [Next]_vars => ChainInv'
<1> SUFFICES ASSUME ChainInv, [Next]_vars PROVE ChainInv'
  OBVIOUS
<1>1. CASE UNCHANGED vars
  BY <1>1 DEF vars, ChainInv, TypeOK, LockHeldByWriter, Open, RowsWhole, ChainIntact,
              InFlightChained
<1>2. ASSUME NEW r \in Requests, Step(r) PROVE ChainInv'
  <2>1. CASE \E t \in Tenants : Begin(r, t)
    BY <2>1, BeginChainInv
  <2>2. CASE \E rec \in Records : Get(r, rec)
    BY <2>2, GetChainInv
  <2>3. CASE \E rec \in Records, row \in FullRow : Add(r, rec, row) \/ Assign(r, rec, row)
    BY <2>3, AddChainInv
  <2>4. CASE Flush(r)
    BY <2>4, FlushChainInv
  <2>5. CASE \E rec \in Records : AppendToChain(r, rec)
    BY <2>5, AppendChainInv
  <2>6. CASE Commit(r)
    BY <2>6, CommitChainInv
  <2>7. CASE Rollback(r)
    BY <2>7, RollbackChainInv
  <2> QED BY <1>2, <2>1, <2>2, <2>3, <2>4, <2>5, <2>6, <2>7 DEF Step
<1> QED BY <1>1, <1>2 DEF Next

\* The inductive invariant holds in every reachable state, for any number of
\* tenants and concurrent requests.
THEOREM ChainInvariant == Spec => []ChainInv
<1> QED BY ChainInvInit, ChainInvNext, PTL DEF Spec

\* Every variable keeps its type.
THEOREM TypeCorrect == Spec => []TypeOK
<1>1. ChainInv => TypeOK
  BY DEF ChainInv
<1> QED BY <1>1, ChainInvariant, PTL

\* The committed chain of every tenant is gapless and linked, and its head row
\* describes its tip, after any interleaving of flushes, commits and rollbacks.
THEOREM ChainAlwaysIntact == Spec => []ChainIntact
<1>1. ChainInv => ChainIntact
  BY DEF ChainInv
<1> QED BY <1>1, ChainInvariant, PTL

\* No two sessions ever build on the same head row: uncommitted entries always
\* continue the chain as it is committed at that moment.
THEOREM InFlightAlwaysChained == Spec => []InFlightChained
<1>1. ChainInv => InFlightChained
  BY DEF ChainInv
<1> QED BY <1>1, ChainInvariant, PTL

-----------------------------------------------------------------------------
\* verify_chain on a chain that nobody touches between its two reads: no row
\* fails, and the tip is the head's.
THEOREM QuietVerificationPasses ==
  Spec => [](\A t \in Tenants : /\ BadRows(t, log[t]) = {}
                                /\ TipVerdict(t, log[t], head[t]).valid)
<1>1. ASSUME ChainInv, NEW t \in Tenants
      PROVE  BadRows(t, log[t]) = {} /\ TipVerdict(t, log[t], head[t]).valid
  <2>1. log[t] \in Seq(Entries(Payloads))
    BY <1>1 DEF ChainInv, TypeOK
  <2>2. Chained(t, log[t]) /\ HeadMatches(t, log[t], head[t])
    BY <1>1 DEF ChainInv, ChainIntact
  <2>3. BadRows(t, log[t]) = {}
    BY <2>1, <2>2 DEF BadRows, Chained
  <2>4. head[t].last_hash = Tip(t, log[t])
    BY <2>2 DEF HeadMatches
  <2>5. TipVerdict(t, log[t], head[t]).valid = (Tip(t, log[t]) = head[t].last_hash)
    BY ZenonT(20) DEF TipVerdict
  <2>6. TipVerdict(t, log[t], head[t]).valid
    BY <2>4, <2>5, Zenon
  <2> QED BY <2>3, <2>6
<1>2. ChainInv => \A t \in Tenants : /\ BadRows(t, log[t]) = {}
                                     /\ TipVerdict(t, log[t], head[t]).valid
  BY <1>1
<1> QED BY <1>2, ChainInvariant, PTL

\* Rewriting the content of any rows of a chain, in any positions, makes
\* exactly those rows fail the walk: none is missed and none is blamed wrongly.
THEOREM AlteredRowsFail ==
  ASSUME NEW t \in Tenants, NEW P, NEW s \in Seq(Entries(P)), NEW a \in Seq(Entries(P)),
         Chained(t, s), Len(a) = Len(s),
         \A i \in 1..Len(s) : a[i].prev_hash = s[i].prev_hash /\ a[i].record_hash = s[i].record_hash
  PROVE  BadRows(t, a) = {i \in 1..Len(s) : a[i].payload # s[i].payload}
<1> SUFFICES ASSUME NEW i \in 1..Len(s)
             PROVE  RowChecks(t, a, i) <=> a[i].payload = s[i].payload
  BY DEF BadRows
<1>1. RowChecks(t, s, i) /\ s[i] \in Entries(P) /\ a[i] \in Entries(P)
  BY DEF Chained
<1>2. RunningHash(t, a, i) = RunningHash(t, s, i)
  BY DEF RunningHash
<1>3. /\ s[i].prev_hash = RunningHash(t, s, i) /\ s[i].prev_hash \in Digests(P)
      /\ s[i].record_hash = chain_hash(s[i].prev_hash, s[i].payload)
      /\ s[i].payload \in P /\ a[i].payload \in P
  BY <1>1 DEF RowChecks, Entries
<1>4. ASSUME NEW d \in Digests(P), NEW p \in P, NEW q \in P, chain_hash(d, p) = chain_hash(d, q)
      PROVE  p = q
  <2>1. Append(d.content, p) = Append(d.content, q) /\ d.content \in Seq(P)
    BY <1>4 DEF chain_hash, Digests
  <2> QED BY <2>1, AppendInjective
<1>5. RowChecks(t, a, i) <=> chain_hash(s[i].prev_hash, a[i].payload)
                               = chain_hash(s[i].prev_hash, s[i].payload)
  BY <1>2, <1>3 DEF RowChecks
<1> QED BY <1>3, <1>4, <1>5

-----------------------------------------------------------------------------

\* A set of naturals that is not empty has a least element.
LEMMA LeastNatural ==
  ASSUME NEW S \in SUBSET Nat, S # {}
  PROVE  \E m \in S : \A n \in S : m <= n
<1>1. \E m \in S : \A n \in S : ~(<<n, m>> \in OpToRel(<, Nat))
  BY NatLessThanWellFounded, WFMin, Zenon
<1>2. \A n, m \in S : n < m => <<n, m>> \in OpToRel(<, Nat)
  BY DEF OpToRel
<1>3. PICK m \in S : \A n \in S : ~(<<n, m>> \in OpToRel(<, Nat))
  BY <1>1
<1>4. \A n \in S : ~(n < m)
  BY <1>2, <1>3
<1> QED BY <1>4

\* A set of positions of a sequence that is not empty has a last one.
LEMMA LastOfSettings ==
  ASSUME NEW n \in Nat, NEW S \in SUBSET (1..n), S # {}
  PROVE  J!LastOf(S) \in S /\ \A j \in S : j <= J!LastOf(S)
<1> DEFINE D == {n - i : i \in S}
<1>1. PICK m \in D : \A k \in D : m <= k
  <2>1. D \in SUBSET Nat /\ D # {}
    OBVIOUS
  <2> QED BY <2>1, LeastNatural
<1>2. PICK i \in S : m = n - i
  OBVIOUS
<1>3. \A j \in S : j <= i
  BY <1>1, <1>2
<1> QED BY <1>2, <1>3, Zenon DEF J!LastOf

LEMMA RowEqual ==
  ASSUME NEW f \in Rows, NEW g \in Rows, DOMAIN f = DOMAIN g,
         \A c \in DOMAIN f : f[c] = g[c]
  PROVE  f = g
<1>1. f \in [DOMAIN f -> Values] /\ g \in [DOMAIN f -> Values]
  BY DEF Rows, J!Rows
<1> QED BY <1>1

\* What replaying a batch makes of one row.
LEMMA ReplayRow ==
  ASSUME NEW tbl \in [Records -> Rows], NEW b \in Seq(Payloads), NEW rec \in Records
  PROVE  LET row == J!Replay(tbl, b)[rec]
         IN /\ row \in Rows
            /\ DOMAIN row = {c \in Columns : c \in DOMAIN tbl[rec] \/ J!Settings(b, rec, c) # {}}
            /\ \A c \in Columns :
                 /\ J!Settings(b, rec, c) # {} =>
                      /\ J!LastOf(J!Settings(b, rec, c)) \in J!Settings(b, rec, c)
                      /\ row[c] = AsStored(b[J!LastOf(J!Settings(b, rec, c))].new)[c]
                 /\ J!Settings(b, rec, c) = {} /\ c \in DOMAIN tbl[rec] => row[c] = tbl[rec][c]
<1> DEFINE row == J!Replay(tbl, b)[rec]
           D == {c \in Columns : c \in DOMAIN tbl[rec] \/ J!Settings(b, rec, c) # {}}
           val(c) == IF J!Settings(b, rec, c) = {} THEN tbl[rec][c]
                     ELSE AsStored(b[J!LastOf(J!Settings(b, rec, c))].new)[c]
<1>1. row = [c \in D |-> val(c)]
  BY DEF J!Replay, AsStored
<1>2. \A c \in Columns : J!Settings(b, rec, c) # {} =>
        J!LastOf(J!Settings(b, rec, c)) \in J!Settings(b, rec, c)
  <2> SUFFICES ASSUME NEW c \in Columns, J!Settings(b, rec, c) # {}
               PROVE  J!LastOf(J!Settings(b, rec, c)) \in J!Settings(b, rec, c)
    OBVIOUS
  <2> DEFINE S == J!Settings(b, rec, c)
  <2>1. S \in SUBSET (1..Len(b)) /\ Len(b) \in Nat
    BY DEF J!Settings
  <2> HIDE DEF S
  <2>2. S # {} => J!LastOf(S) \in S
    BY <2>1, LastOfSettings
  <2> QED BY <2>2 DEF S
<1>3. \A c \in D : val(c) \in Values
  <2> SUFFICES ASSUME NEW c \in D PROVE val(c) \in Values
    OBVIOUS
  <2>1. CASE J!Settings(b, rec, c) = {}
    <3>1. tbl[rec] \in Rows /\ c \in DOMAIN tbl[rec]
      BY <2>1
    <3> QED BY <2>1, <3>1 DEF Rows, J!Rows
  <2>2. CASE J!Settings(b, rec, c) # {}
    <3> DEFINE i == J!LastOf(J!Settings(b, rec, c))
    <3>1. i \in 1..Len(b) /\ c \in DOMAIN b[i].new
      BY <2>2, <1>2 DEF J!Settings
    <3>2. b[i] \in Payloads
      BY <3>1, ElementOfSeq
    <3>3. b[i].new \in J!Rows
      BY <3>2 DEF Payloads, J!Payloads
    <3>4. AsStored(b[i].new) \in Rows /\ c \in DOMAIN AsStored(b[i].new)
      BY <3>1, <3>3, StoredRows DEF Rows
    <3>5. AsStored(b[i].new)[c] \in Values
      BY <3>4 DEF Rows, J!Rows
    <3> QED BY <2>2, <3>5
  <2> QED BY <2>1, <2>2
<1>4. row \in Rows
  <2>1. D \in SUBSET Columns
    OBVIOUS
  <2>2. row \in [D -> Values]
    BY <1>1, <1>3
  <2> QED BY <2>1, <2>2 DEF Rows, J!Rows
<1>5. DOMAIN row = D
  BY <1>1
<1>6. ASSUME NEW c \in Columns, J!Settings(b, rec, c) # {}
      PROVE  row[c] = AsStored(b[J!LastOf(J!Settings(b, rec, c))].new)[c]
  BY <1>1, <1>6
<1>7. ASSUME NEW c \in Columns, J!Settings(b, rec, c) = {}, c \in DOMAIN tbl[rec]
      PROVE  row[c] = tbl[rec][c]
  BY <1>1, <1>7
<1> HIDE DEF row, D
<1>8. D = {c \in Columns : c \in DOMAIN tbl[rec] \/ J!Settings(b, rec, c) # {}}
  BY DEF D
<1> QED BY <1>2, <1>4, <1>5, <1>6, <1>7, <1>8 DEF row

LEMMA ReplayType ==
  ASSUME NEW tbl \in [Records -> Rows], NEW b \in Seq(Payloads)
  PROVE  J!Replay(tbl, b) \in [Records -> Rows]
<1>1. \A rec \in Records : J!Replay(tbl, b)[rec] \in Rows
  BY ReplayRow
<1>2. J!Replay(tbl, b) = [rec \in Records |-> J!Replay(tbl, b)[rec]]
  BY Zenon DEF J!Replay
<1> QED BY <1>1, <1>2

\* Replaying a batch over a table overlays the rows it leaves on the table's.
LEMMA ReplayOverlay ==
  ASSUME NEW tbl \in [Records -> Rows], NEW b \in Seq(Payloads), NEW rec \in Records
  PROVE  J!Replay(tbl, b)[rec] = Overlay(J!Replay(EmptyTable, b)[rec], tbl[rec])
<1> DEFINE x == J!Replay(tbl, b)[rec]
           y == J!Replay(EmptyTable, b)[rec]
           z == Overlay(y, tbl[rec])
<1>1. EmptyTable \in [Records -> Rows] /\ DOMAIN EmptyTable[rec] = {}
  BY RowFacts
<1>2. /\ x \in Rows
      /\ DOMAIN x = {c \in Columns : c \in DOMAIN tbl[rec] \/ J!Settings(b, rec, c) # {}}
      /\ \A c \in Columns :
           /\ J!Settings(b, rec, c) # {} => x[c] = AsStored(b[J!LastOf(J!Settings(b, rec, c))].new)[c]
           /\ J!Settings(b, rec, c) = {} /\ c \in DOMAIN tbl[rec] => x[c] = tbl[rec][c]
  BY ReplayRow
<1>3. /\ y \in Rows
      /\ DOMAIN y = {c \in Columns : J!Settings(b, rec, c) # {}}
      /\ \A c \in Columns :
           J!Settings(b, rec, c) # {} => y[c] = AsStored(b[J!LastOf(J!Settings(b, rec, c))].new)[c]
  BY <1>1, ReplayRow
<1>4. tbl[rec] \in Rows /\ DOMAIN tbl[rec] \subseteq Columns
  BY DEF Rows, J!Rows
<1>5. z \in Rows /\ DOMAIN z = DOMAIN y \cup DOMAIN tbl[rec]
  BY <1>3, <1>4, OverlayRows
<1>6. \A c \in DOMAIN z : z[c] = IF c \in DOMAIN y THEN y[c] ELSE tbl[rec][c]
  BY <1>5 DEF Overlay
<1> HIDE DEF x, y, z
<1>7. DOMAIN x = DOMAIN z
  BY <1>2, <1>3, <1>4, <1>5
<1>8. \A c \in DOMAIN x : x[c] = z[c]
  BY <1>2, <1>3, <1>4, <1>5, <1>6
<1> QED BY <1>2, <1>5, <1>7, <1>8, RowEqual DEF x, y, z

\* A row that no payload of the batch sets a column of stays as it is.
LEMMA ReplayUntouched ==
  ASSUME NEW tbl \in [Records -> Rows], NEW b \in Seq(Payloads), NEW rec \in Records,
         \A c \in Columns : J!Settings(b, rec, c) = {}
  PROVE  J!Replay(tbl, b)[rec] = tbl[rec]
<1> DEFINE x == J!Replay(tbl, b)[rec]
<1>1. /\ x \in Rows
      /\ DOMAIN x = {c \in Columns : c \in DOMAIN tbl[rec] \/ J!Settings(b, rec, c) # {}}
      /\ \A c \in Columns :
           J!Settings(b, rec, c) = {} /\ c \in DOMAIN tbl[rec] => x[c] = tbl[rec][c]
  BY ReplayRow
<1>2. tbl[rec] \in Rows /\ DOMAIN tbl[rec] \subseteq Columns
  BY DEF Rows, J!Rows
<1> HIDE DEF x
<1>3. DOMAIN x = DOMAIN tbl[rec] /\ \A c \in DOMAIN x : x[c] = tbl[rec][c]
  BY <1>1, <1>2
<1> QED BY <1>1, <1>2, <1>3, RowEqual DEF x

LEMMA ReplayNothing ==
  ASSUME NEW tbl \in [Records -> Rows]
  PROVE  J!Replay(tbl, <<>>) = tbl
<1>1. <<>> \in Seq(Payloads)
  OBVIOUS
<1>2. \A rec, c : J!Settings(<<>>, rec, c) = {}
  BY DEF J!Settings
<1>3. \A rec \in Records : J!Replay(tbl, <<>>)[rec] = tbl[rec]
  BY <1>1, <1>2, ReplayUntouched
<1>4. J!Replay(tbl, <<>>) \in [Records -> Rows]
  BY <1>1, ReplayType
<1> QED BY <1>3, <1>4

\* One more payload sets the columns it names in the row it names.
LEMMA ReplayAppend ==
  ASSUME NEW tbl \in [Records -> Rows], NEW b \in Seq(Payloads), NEW p \in Payloads,
         NEW rec \in Records
  PROVE  J!Replay(tbl, Append(b, p))[rec]
           = IF rec = p.record THEN Overlay(AsStored(p.new), J!Replay(tbl, b)[rec])
             ELSE J!Replay(tbl, b)[rec]
<1> DEFINE b1 == Append(b, p)
           n == Len(b)
           x == J!Replay(tbl, b)[rec]
           y == J!Replay(tbl, b1)[rec]
           z == IF rec = p.record THEN Overlay(AsStored(p.new), x) ELSE x
           sets(c) == rec = p.record /\ c \in DOMAIN p.new
<1>1. /\ b1 \in Seq(Payloads) /\ n \in Nat /\ Len(b1) = n + 1
      /\ b1[n + 1] = p
      /\ \A i \in 1..n : b1[i] = b[i]
  BY AppendProperties
<1>2. /\ p.new \in Rows /\ DOMAIN p.new \subseteq Columns
      /\ AsStored(p.new) \in Rows /\ DOMAIN AsStored(p.new) = DOMAIN p.new
  <2>1. p.new \in Rows /\ DOMAIN p.new \subseteq Columns
    BY DEF Payloads, J!Payloads, Rows, J!Rows
  <2> QED BY <2>1, StoredRows
<1>3. /\ x \in Rows
      /\ DOMAIN x = {c \in Columns : c \in DOMAIN tbl[rec] \/ J!Settings(b, rec, c) # {}}
      /\ \A c \in Columns :
           /\ J!Settings(b, rec, c) # {} => x[c] = AsStored(b[J!LastOf(J!Settings(b, rec, c))].new)[c]
           /\ J!Settings(b, rec, c) = {} /\ c \in DOMAIN tbl[rec] => x[c] = tbl[rec][c]
  BY ReplayRow
<1>4. /\ y \in Rows
      /\ DOMAIN y = {c \in Columns : c \in DOMAIN tbl[rec] \/ J!Settings(b1, rec, c) # {}}
      /\ \A c \in Columns :
           /\ J!Settings(b1, rec, c) # {} => y[c] = AsStored(b1[J!LastOf(J!Settings(b1, rec, c))].new)[c]
           /\ J!Settings(b1, rec, c) = {} /\ c \in DOMAIN tbl[rec] => y[c] = tbl[rec][c]
  BY <1>1, ReplayRow
<1>5. z \in Rows /\ DOMAIN z = DOMAIN x \cup (IF rec = p.record THEN DOMAIN p.new ELSE {})
  <2>1. CASE rec = p.record
    <3>1. x \in Rows /\ AsStored(p.new) \in Rows
      BY <1>2, <1>3
    <3> HIDE DEF x
    <3>2. /\ Overlay(AsStored(p.new), x) \in Rows
          /\ DOMAIN Overlay(AsStored(p.new), x) = DOMAIN p.new \cup DOMAIN x
      BY <1>2, <3>1, OverlayRows
    <3>3. z = Overlay(AsStored(p.new), x)
      BY <2>1
    <3> QED BY <2>1, <3>2, <3>3
  <2>2. CASE rec # p.record
    BY <2>2, <1>3
  <2> QED BY <2>1, <2>2
<1>6. \A c \in DOMAIN z : z[c] = IF sets(c) THEN AsStored(p.new)[c] ELSE x[c]
  BY <1>2, <1>5 DEF Overlay
<1> HIDE DEF b1, n, x, y, z
<1>7. ASSUME NEW c \in Columns
      PROVE  J!Settings(b1, rec, c) = J!Settings(b, rec, c) \cup (IF sets(c) THEN {n + 1} ELSE {})
  BY <1>1 DEF J!Settings, n
<1>8. DOMAIN y = DOMAIN z
  BY <1>2, <1>3, <1>4, <1>5, <1>7
<1>9. ASSUME NEW c \in DOMAIN y PROVE y[c] = z[c]
  <2>1. c \in Columns
    BY <1>4
  <2>2. CASE sets(c)
    <3> DEFINE S == J!Settings(b1, rec, c)
    <3>1. S \in SUBSET (1..(n + 1)) /\ n + 1 \in S /\ n + 1 \in Nat
      BY <1>1, <1>7, <2>1, <2>2 DEF J!Settings
    <3> HIDE DEF S
    <3>2. J!LastOf(S) \in S /\ n + 1 <= J!LastOf(S)
      BY <3>1, LastOfSettings
    <3>3. J!LastOf(S) = n + 1
      <4>1. \A m \in 1..(n + 1) : n + 1 <= m => m = n + 1
        BY <1>1
      <4>2. J!LastOf(S) \in 1..(n + 1)
        BY <3>1, <3>2
      <4> QED BY <3>2, <4>1, <4>2
    <3>4. y[c] = AsStored(b1[J!LastOf(S)].new)[c]
      BY <1>4, <2>1, <3>1 DEF S
    <3> QED BY <1>1, <1>6, <1>8, <1>9, <2>2, <3>3, <3>4
  <2>3. CASE ~sets(c)
    <3>1. J!Settings(b1, rec, c) = J!Settings(b, rec, c)
      BY <1>7, <2>1, <2>3
    <3>2. z[c] = x[c]
      BY <1>6, <1>8, <1>9, <2>3
    <3>3. CASE J!Settings(b, rec, c) = {}
      BY <1>3, <1>4, <1>9, <2>1, <3>1, <3>2, <3>3
    <3>4. CASE J!Settings(b, rec, c) # {}
      <4> DEFINE i == J!LastOf(J!Settings(b, rec, c))
      <4>1. i \in J!Settings(b, rec, c)
        BY <2>1, <3>4, ReplayRow
      <4>2. i \in 1..n
        BY <4>1 DEF J!Settings, n
      <4> HIDE DEF i
      <4>3. y[c] = AsStored(b1[i].new)[c] /\ x[c] = AsStored(b[i].new)[c]
        BY <1>3, <1>4, <2>1, <3>1, <3>4 DEF i
      <4> QED BY <1>1, <3>2, <4>2, <4>3
    <3> QED BY <3>3, <3>4
  <2> QED BY <2>2, <2>3
<1> QED BY <1>4, <1>5, <1>8, <1>9, RowEqual DEF b1, x, y, z

\* Replaying two batches one after the other is replaying their concatenation.
LEMMA ReplayConcat ==
  ASSUME NEW tbl \in [Records -> Rows], NEW a \in Seq(Payloads), NEW b \in Seq(Payloads)
  PROVE  J!Replay(J!Replay(tbl, a), b) = J!Replay(tbl, a \o b)
<1> DEFINE mid == J!Replay(tbl, a)
           ab == a \o b
           n == Len(a)
<1>1. /\ ab \in Seq(Payloads) /\ n \in Nat /\ Len(b) \in Nat /\ Len(ab) = n + Len(b)
      /\ \A i \in 1..n : ab[i] = a[i]
      /\ \A i \in 1..Len(b) : ab[n + i] = b[i]
  <2>1. /\ ab \in Seq(Payloads) /\ Len(ab) = n + Len(b)
        /\ \A i \in 1..(n + Len(b)) : ab[i] = IF i <= n THEN a[i] ELSE b[i - n]
    BY ConcatProperties
  <2>2. n \in Nat /\ Len(b) \in Nat
    BY LenProperties
  <2> HIDE DEF ab, n
  <2> QED BY <2>1, <2>2
<1>2. mid \in [Records -> Rows]
  BY ReplayType
<1> HIDE DEF ab, n
<1>3. ASSUME NEW rec \in Records, NEW c \in Columns
      PROVE  J!Settings(ab, rec, c) = J!Settings(a, rec, c) \cup {n + i : i \in J!Settings(b, rec, c)}
  <2> DEFINE sa == J!Settings(a, rec, c)
             sb == J!Settings(b, rec, c)
  <2>1. sa = {i \in 1..n : ab[i].record = rec /\ c \in DOMAIN ab[i].new}
    BY <1>1 DEF J!Settings, n
  <2>2. sb = {i \in 1..Len(b) : ab[n + i].record = rec /\ c \in DOMAIN ab[n + i].new}
    BY <1>1 DEF J!Settings
  <2>3. J!Settings(ab, rec, c) = {i \in 1..(n + Len(b)) : ab[i].record = rec /\ c \in DOMAIN ab[i].new}
    BY <1>1 DEF J!Settings
  <2> HIDE DEF sa, sb
  <2>4. \A i \in 1..(n + Len(b)) : i \in 1..n \/ (i - n \in 1..Len(b) /\ i = n + (i - n))
    BY <1>1
  <2>5. J!Settings(ab, rec, c) \subseteq sa \cup {n + i : i \in sb}
    BY <2>1, <2>2, <2>3, <2>4
  <2>6. sa \cup {n + i : i \in sb} \subseteq J!Settings(ab, rec, c)
    BY <2>1, <2>2, <2>3, <1>1
  <2> QED BY <2>5, <2>6 DEF sa, sb
<1>4. ASSUME NEW rec \in Records
      PROVE  J!Replay(mid, b)[rec] = J!Replay(tbl, ab)[rec]
  <2> DEFINE x == J!Replay(mid, b)[rec]
             y == J!Replay(tbl, ab)[rec]
             z == mid[rec]
  <2>1. /\ x \in Rows
        /\ DOMAIN x = {c \in Columns : c \in DOMAIN z \/ J!Settings(b, rec, c) # {}}
        /\ \A c \in Columns :
             /\ J!Settings(b, rec, c) # {} =>
                  /\ J!LastOf(J!Settings(b, rec, c)) \in J!Settings(b, rec, c)
                  /\ x[c] = AsStored(b[J!LastOf(J!Settings(b, rec, c))].new)[c]
             /\ J!Settings(b, rec, c) = {} /\ c \in DOMAIN z => x[c] = z[c]
    <3> HIDE DEF mid
    <3> QED BY <1>2, ReplayRow
  <2>2. /\ y \in Rows
        /\ DOMAIN y = {c \in Columns : c \in DOMAIN tbl[rec] \/ J!Settings(ab, rec, c) # {}}
        /\ \A c \in Columns :
             /\ J!Settings(ab, rec, c) # {} =>
                  /\ J!LastOf(J!Settings(ab, rec, c)) \in J!Settings(ab, rec, c)
                  /\ y[c] = AsStored(ab[J!LastOf(J!Settings(ab, rec, c))].new)[c]
             /\ J!Settings(ab, rec, c) = {} /\ c \in DOMAIN tbl[rec] => y[c] = tbl[rec][c]
    BY <1>1, ReplayRow
  <2>3. /\ DOMAIN z = {c \in Columns : c \in DOMAIN tbl[rec] \/ J!Settings(a, rec, c) # {}}
        /\ \A c \in Columns :
             /\ J!Settings(a, rec, c) # {} =>
                  /\ J!LastOf(J!Settings(a, rec, c)) \in J!Settings(a, rec, c)
                  /\ z[c] = AsStored(a[J!LastOf(J!Settings(a, rec, c))].new)[c]
             /\ J!Settings(a, rec, c) = {} /\ c \in DOMAIN tbl[rec] => z[c] = tbl[rec][c]
    BY ReplayRow
  <2> HIDE DEF x, y, z
  <2>4. \A c \in Columns : J!Settings(ab, rec, c) = {} <=>
                             J!Settings(a, rec, c) = {} /\ J!Settings(b, rec, c) = {}
    <3> TAKE c \in Columns
    <3> DEFINE sb == J!Settings(b, rec, c)
    <3> HIDE DEF sb
    <3>1. {n + i : i \in sb} = {} <=> sb = {}
      OBVIOUS
    <3> QED BY <1>3, <3>1 DEF sb
  <2>5. DOMAIN x = DOMAIN y
    BY <2>1, <2>2, <2>3, <2>4
  <2>6. ASSUME NEW c \in DOMAIN x PROVE x[c] = y[c]
    <3> DEFINE sa == J!Settings(a, rec, c)
               sb == J!Settings(b, rec, c)
               sab == J!Settings(ab, rec, c)
    <3>1. c \in Columns
      BY <2>1
    <3>2. /\ sa \in SUBSET (1..n) /\ sb \in SUBSET (1..Len(b)) /\ sab \in SUBSET (1..(n + Len(b)))
          /\ sab = sa \cup {n + i : i \in sb}
      BY <1>1, <1>3, <3>1 DEF J!Settings, n
    <3>3. CASE sb # {}
      <4> DEFINE i == J!LastOf(sb)
                 k == J!LastOf(sab)
      <4>1. x[c] = AsStored(b[i].new)[c] /\ y[c] = AsStored(ab[k].new)[c] /\ sab # {}
        BY <2>1, <2>2, <2>4, <3>1, <3>3
      <4> HIDE DEF sa, sb, sab
      <4>2. i \in sb /\ \A j \in sb : j <= i
        BY <1>1, <3>2, <3>3, LastOfSettings
      <4>3. n + Len(b) \in Nat
        BY <1>1
      <4>4. k \in sab /\ \A j \in sab : j <= k
        BY <3>2, <4>1, <4>3, LastOfSettings
      <4> HIDE DEF i, k
      <4>5. k = n + i
        <5>1. n + i \in sab /\ n + i <= k
          BY <3>2, <4>2, <4>4
        <5>2. k \notin sa
          BY <1>1, <3>2, <4>2, <5>1
        <5>3. PICK j \in sb : k = n + j
          BY <3>2, <4>4, <5>2
        <5> QED BY <1>1, <3>2, <4>2, <5>1, <5>3
      <4>6. ab[n + i] = b[i]
        BY <1>1, <3>2, <4>2
      <4> QED BY <4>1, <4>5, <4>6
    <3>4. CASE sb = {}
      <4>1. sab = sa
        BY <3>2, <3>4
      <4>2. c \in DOMAIN z /\ x[c] = z[c]
        BY <2>1, <2>6, <3>1, <3>4
      <4>3. CASE sa = {}
        BY <2>2, <2>3, <3>1, <4>1, <4>2, <4>3
      <4>4. CASE sa # {}
        <5> DEFINE i == J!LastOf(sa)
        <5>1. i \in sa /\ z[c] = AsStored(a[i].new)[c] /\ y[c] = AsStored(ab[i].new)[c]
          BY <2>2, <2>3, <3>1, <4>1, <4>4
        <5> HIDE DEF i
        <5>2. ab[i] = a[i]
          BY <1>1, <3>2, <5>1
        <5> QED BY <4>2, <5>1, <5>2
      <4> QED BY <4>3, <4>4
    <3> QED BY <3>3, <3>4
  <2> QED BY <2>1, <2>2, <2>5, <2>6, RowEqual DEF x, y
<1>5. J!Replay(mid, b) \in [Records -> Rows] /\ J!Replay(tbl, ab) \in [Records -> Rows]
  <2> HIDE DEF mid
  <2> QED BY <1>1, <1>2, ReplayType
<1> QED BY <1>4, <1>5 DEF ab, mid

LEMMA PayloadsOfSeq ==
  ASSUME NEW s \in Seq(Entries(Payloads))
  PROVE  /\ PayloadsOf(s) \in Seq(Payloads) /\ Len(PayloadsOf(s)) = Len(s)
         /\ \A i \in 1..Len(s) : PayloadsOf(s)[i] = s[i].payload
<1>1. \A i \in 1..Len(s) : s[i].payload \in Payloads
  <2>1. \A i \in 1..Len(s) : s[i] \in Entries(Payloads)
    BY ElementOfSeq
  <2>2. \A e \in Entries(Payloads) : e.payload \in Payloads
    BY DEF Entries
  <2> QED BY <2>1, <2>2
<1>2. Len(s) \in Nat
  OBVIOUS
<1> QED BY <1>1, <1>2 DEF PayloadsOf

LEMMA PayloadsOfConcat ==
  ASSUME NEW s \in Seq(Entries(Payloads)), NEW u \in Seq(Entries(Payloads))
  PROVE  PayloadsOf(s \o u) = PayloadsOf(s) \o PayloadsOf(u)
<1> DEFINE x == PayloadsOf(s \o u)
           y == PayloadsOf(s) \o PayloadsOf(u)
<1>1. /\ s \o u \in Seq(Entries(Payloads)) /\ Len(s \o u) = Len(s) + Len(u)
      /\ \A i \in 1..(Len(s) + Len(u)) : (s \o u)[i] = IF i <= Len(s) THEN s[i] ELSE u[i - Len(s)]
  BY ConcatProperties
<1>2. /\ PayloadsOf(s) \in Seq(Payloads) /\ Len(PayloadsOf(s)) = Len(s)
      /\ \A i \in 1..Len(s) : PayloadsOf(s)[i] = s[i].payload
      /\ PayloadsOf(u) \in Seq(Payloads) /\ Len(PayloadsOf(u)) = Len(u)
      /\ \A i \in 1..Len(u) : PayloadsOf(u)[i] = u[i].payload
  BY PayloadsOfSeq
<1>3. /\ x \in Seq(Payloads) /\ Len(x) = Len(s) + Len(u)
      /\ \A i \in 1..(Len(s) + Len(u)) : x[i] = (s \o u)[i].payload
  <2> HIDE DEF x
  <2>1. /\ PayloadsOf(s \o u) \in Seq(Payloads) /\ Len(PayloadsOf(s \o u)) = Len(s \o u)
        /\ \A i \in 1..Len(s \o u) : PayloadsOf(s \o u)[i] = (s \o u)[i].payload
    BY <1>1, PayloadsOfSeq
  <2> QED BY <1>1, <2>1 DEF x
<1>4. /\ y \in Seq(Payloads) /\ Len(y) = Len(s) + Len(u)
      /\ \A i \in 1..(Len(s) + Len(u)) :
           y[i] = IF i <= Len(s) THEN PayloadsOf(s)[i] ELSE PayloadsOf(u)[i - Len(s)]
  <2> DEFINE ps == PayloadsOf(s)
             pu == PayloadsOf(u)
  <2> HIDE DEF ps, pu
  <2>1. ps \in Seq(Payloads) /\ pu \in Seq(Payloads) /\ Len(ps) = Len(s) /\ Len(pu) = Len(u)
    BY <1>2 DEF ps, pu
  <2>2. /\ ps \o pu \in Seq(Payloads) /\ Len(ps \o pu) = Len(ps) + Len(pu)
        /\ \A i \in 1..(Len(ps) + Len(pu)) :
             (ps \o pu)[i] = IF i <= Len(ps) THEN ps[i] ELSE pu[i - Len(ps)]
    BY <2>1, ConcatProperties
  <2> QED BY <2>1, <2>2 DEF ps, pu
<1>5. Len(s) \in Nat /\ Len(u) \in Nat
  OBVIOUS
<1> HIDE DEF x, y
<1>6. \A i \in 1..(Len(s) + Len(u)) : x[i] = y[i]
  <2> TAKE i \in 1..(Len(s) + Len(u))
  <2>1. CASE i <= Len(s)
    <3>1. i \in 1..Len(s)
      BY <1>5, <2>1
    <3>2. x[i] = s[i].payload /\ y[i] = PayloadsOf(s)[i]
      BY <1>1, <1>3, <1>4, <2>1
    <3> QED BY <1>2, <3>1, <3>2
  <2>2. CASE ~(i <= Len(s))
    <3>1. i - Len(s) \in 1..Len(u)
      BY <1>5, <2>2
    <3>2. x[i] = u[i - Len(s)].payload /\ y[i] = PayloadsOf(u)[i - Len(s)]
      BY <1>1, <1>3, <1>4, <2>2
    <3> QED BY <1>2, <3>1, <3>2
  <2> QED BY <2>1, <2>2
<1> QED BY <1>3, <1>4, <1>6, SeqEqual DEF x, y

LEMMA PayloadsOfAppend ==
  ASSUME NEW s \in Seq(Entries(Payloads)), NEW e \in Entries(Payloads)
  PROVE  PayloadsOf(Append(s, e)) = Append(PayloadsOf(s), e.payload)
<1> DEFINE x == PayloadsOf(Append(s, e))
           y == Append(PayloadsOf(s), e.payload)
<1>1. /\ Append(s, e) \in Seq(Entries(Payloads)) /\ Len(Append(s, e)) = Len(s) + 1
      /\ \A i \in 1..Len(s) : Append(s, e)[i] = s[i]
      /\ Append(s, e)[Len(s) + 1] = e
  BY AppendProperties
<1>2. /\ PayloadsOf(s) \in Seq(Payloads) /\ Len(PayloadsOf(s)) = Len(s)
      /\ \A i \in 1..Len(s) : PayloadsOf(s)[i] = s[i].payload
  BY PayloadsOfSeq
<1>3. /\ x \in Seq(Payloads) /\ Len(x) = Len(s) + 1
      /\ \A i \in 1..(Len(s) + 1) : x[i] = Append(s, e)[i].payload
  <2> HIDE DEF x
  <2>1. /\ PayloadsOf(Append(s, e)) \in Seq(Payloads)
        /\ Len(PayloadsOf(Append(s, e))) = Len(Append(s, e))
        /\ \A i \in 1..Len(Append(s, e)) : PayloadsOf(Append(s, e))[i] = Append(s, e)[i].payload
    BY <1>1, PayloadsOfSeq
  <2> QED BY <1>1, <2>1 DEF x
<1>4. e.payload \in Payloads /\ Len(s) \in Nat
  BY DEF Entries
<1>5. /\ y \in Seq(Payloads) /\ Len(y) = Len(s) + 1
      /\ \A i \in 1..Len(s) : y[i] = PayloadsOf(s)[i]
      /\ y[Len(s) + 1] = e.payload
  BY <1>2, <1>4, AppendProperties
<1> HIDE DEF x, y
<1>6. \A i \in 1..(Len(s) + 1) : x[i] = y[i]
  <2> TAKE i \in 1..(Len(s) + 1)
  <2>1. CASE i \in 1..Len(s)
    BY <1>1, <1>2, <1>3, <1>5, <2>1
  <2>2. CASE i = Len(s) + 1
    BY <1>1, <1>3, <1>5, <2>2
  <2> QED BY <1>4, <2>1, <2>2
<1> QED BY <1>3, <1>5, <1>6, SeqEqual DEF x, y

-----------------------------------------------------------------------------
\* What a session has written and not committed is what its uncommitted entries say.
WritesLogged ==
  \A r \in Requests : writes[r] = J!Replay(EmptyTable, PayloadsOf(entries[r]))

\* Entries name the tenant of the session that appends them.
EntriesOfTenant ==
  \A r \in Requests : \A i \in DOMAIN entries[r] : entries[r][i].payload.tenant = tenant[r]

JournalInv == WritesLogged /\ EntriesOfTenant /\ LogExplainsRows

\* A record belongs to one tenant, in the tables and in all sessions at once,
\* and what a session has written it still holds.
RecordsApart ==
  /\ \A t, u \in Tenants, rec \in Records :
       rows[t][rec] # NoRow /\ rows[u][rec] # NoRow => t = u
  /\ \A r \in Requests, t \in Tenants, rec \in Records :
       cur[r][rec] # NoRow /\ rows[t][rec] # NoRow => t = tenant[r]
  /\ \A q, r \in Requests, rec \in Records :
       cur[q][rec] # NoRow /\ cur[r][rec] # NoRow => tenant[q] = tenant[r]
  /\ \A r \in Requests, rec \in Records : writes[r][rec] # NoRow => cur[r][rec] # NoRow

\* Every logged payload is about a row that its tenant has, or that the
\* session which logged it has written.
LoggedHeld ==
  /\ \A t \in Tenants : \A i \in DOMAIN log[t] : rows[t][log[t][i].payload.record] # NoRow
  /\ \A r \in Requests : \A i \in DOMAIN entries[r] :
       writes[r][entries[r][i].payload.record] # NoRow

IsolationInv == RecordsApart /\ LoggedHeld

\* What AppendToChain does to the session, and to nobody else.
LEMMA AppendEffect ==
  ASSUME ChainInv, NEW r \in Requests, NEW rec \in Records, AppendToChain(r, rec)
  PROVE  /\ tenant[r] \in Tenants /\ rec \in Pending(r)
         /\ PayloadFor(r, rec) \in Payloads /\ PayloadFor(r, rec).tenant = tenant[r]
         /\ PayloadFor(r, rec).record = rec
         /\ \E e \in Entries(Payloads) : /\ e.payload = PayloadFor(r, rec)
                                         /\ entries'[r] = Append(entries[r], e)
         /\ \A x \in Records :
              /\ writes'[r][x] = IF x = rec THEN Written(r, rec) ELSE writes[r][x]
              /\ cur'[r][x] = IF x = rec THEN Refreshed(r, rec) ELSE cur[r][x]
         /\ \A q \in Requests : q # r =>
              entries'[q] = entries[q] /\ writes'[q] = writes[q] /\ cur'[q] = cur[q]
         /\ UNCHANGED <<rows, log, tenant>>
<1> DEFINE t == tenant[r]
           p == PayloadFor(r, rec)
           h == HeadRead(r)
           e == NewEntry(h, p)
<1>1. t \in Tenants /\ rec \in Pending(r) /\ HeadLockable(r)
  BY DEF AppendToChain, ChainInv, LockHeldByWriter, Open, TypeOK, NextInFlush, Pending
<1>2. p \in Payloads
  BY <1>1, PayloadFacts
<1>3. p.tenant = t /\ p.record = rec
  BY DEF PayloadFor
<1>4. e \in Entries(Payloads)
  <2>1. /\ log[t] \o entries[r] \in Seq(Entries(Payloads)) /\ h \in Heads
        /\ Chained(t, log[t] \o entries[r]) /\ HeadMatches(t, log[t] \o entries[r], h)
    BY <1>1, HeadReadFacts DEF ChainInv, TypeOK
  <2> HIDE DEF t, p, h
  <2> QED BY <1>1, <1>2, <2>1, AppendChained
<1>5. e.payload = p
  BY DEF NewEntry
<1>6. /\ entries' = [entries EXCEPT ![r] = Append(@, e)]
      /\ writes' = [writes EXCEPT ![r][rec] = Written(r, rec)]
      /\ cur' = [cur EXCEPT ![r][rec] = Refreshed(r, rec)]
      /\ UNCHANGED <<rows, log, tenant>>
  BY DEF AppendToChain
<1> HIDE DEF t, p, h, e
<1>7. /\ entries'[r] = Append(entries[r], e)
      /\ \A x \in Records :
           /\ writes'[r][x] = IF x = rec THEN Written(r, rec) ELSE writes[r][x]
           /\ cur'[r][x] = IF x = rec THEN Refreshed(r, rec) ELSE cur[r][x]
      /\ \A q \in Requests : q # r =>
           entries'[q] = entries[q] /\ writes'[q] = writes[q] /\ cur'[q] = cur[q]
  BY <1>6 DEF ChainInv, TypeOK
<1> QED BY <1>1, <1>2, <1>3, <1>4, <1>5, <1>6, <1>7 DEF t, p

\* What COMMIT does.
LEMMA CommitEffect ==
  ASSUME ChainInv, NEW r \in Requests, Commit(r)
  PROVE  /\ tenant[r] \in Tenants /\ Close(r) /\ lock' = Released(r)
         /\ log'[tenant[r]] = log[tenant[r]] \o entries[r]
         /\ rows'[tenant[r]] = RowsAfter(r)
         /\ \A u \in Tenants : u # tenant[r] => log'[u] = log[u] /\ rows'[u] = rows[u]
<1>1. /\ tenant[r] \in Tenants
      /\ Close(r) /\ lock' = Released(r)
      /\ log' = [log EXCEPT ![tenant[r]] = log[tenant[r]] \o entries[r]]
      /\ rows' = [rows EXCEPT ![tenant[r]] = RowsAfter(r)]
  BY DEF Commit, Working, Open, ChainInv, TypeOK
<1> QED BY <1>1 DEF ChainInv, TypeOK

\* The effect of every other step on what the journal speaks of.
LEMMA QuietEffect ==
  ASSUME ChainInv, NEW r \in Requests,
         \/ \E t \in Tenants : Begin(r, t)
         \/ \E rec \in Records : Get(r, rec)
         \/ \E rec \in Records, row \in FullRow : Add(r, rec, row) \/ Assign(r, rec, row)
         \/ Flush(r)
  PROVE  /\ UNCHANGED <<rows, log, entries, writes>>
         /\ \A q \in Requests : entries[q] # <<>> => tenant'[q] = tenant[q]
<1>1. CASE \E t \in Tenants : Begin(r, t)
  <2>1. entries[r] = <<>>
    BY <1>1 DEF Begin, ChainInv, LockHeldByWriter
  <2>2. \A q \in Requests : q # r => tenant'[q] = tenant[q]
    BY <1>1 DEF Begin, ChainInv, TypeOK
  <2> QED BY <1>1, <2>1, <2>2 DEF Begin
<1>2. CASE \/ \E rec \in Records : Get(r, rec)
           \/ \E rec \in Records, row \in FullRow : Add(r, rec, row) \/ Assign(r, rec, row)
           \/ Flush(r)
  BY <1>2 DEF Get, Add, Assign, Flush
<1> QED BY <1>1, <1>2

LEMMA JournalInvInit == Init => JournalInv
<1> SUFFICES ASSUME Init PROVE JournalInv
  OBVIOUS
<1>1. PayloadsOf(<<>>) = <<>>
  BY DEF PayloadsOf
<1>2. J!Replay(EmptyTable, <<>>) = EmptyTable
  BY RowFacts, ReplayNothing
<1>3. WritesLogged /\ LogExplainsRows
  BY <1>1, <1>2 DEF Init, WritesLogged, LogExplainsRows
<1>4. EntriesOfTenant
  BY DEF Init, EntriesOfTenant
<1> QED BY <1>3, <1>4 DEF JournalInv

\* A session that is closed has nothing left to explain.
LEMMA ClosedJournal ==
  ASSUME ChainInv, JournalInv, NEW r \in Requests, Close(r), lock' = Released(r)
  PROVE  WritesLogged' /\ EntriesOfTenant'
<1>1. /\ entries'[r] = <<>> /\ writes'[r] = EmptyTable
      /\ \A q \in Requests : q # r =>
           entries'[q] = entries[q] /\ writes'[q] = writes[q] /\ tenant'[q] = tenant[q]
  BY CloseFacts
<1>2. J!Replay(EmptyTable, PayloadsOf(<<>>)) = EmptyTable
  <2>1. PayloadsOf(<<>>) = <<>>
    BY DEF PayloadsOf
  <2> QED BY <2>1, RowFacts, ReplayNothing
<1>3. WritesLogged'
  BY <1>1, <1>2 DEF JournalInv, WritesLogged
<1>4. EntriesOfTenant'
  BY <1>1 DEF JournalInv, EntriesOfTenant
<1> QED BY <1>3, <1>4

LEMMA AppendJournalInv ==
  ASSUME ChainInv, JournalInv, NEW r \in Requests, NEW rec \in Records, AppendToChain(r, rec)
  PROVE  JournalInv'
<1> DEFINE p == PayloadFor(r, rec)
           s == entries[r]
<1>1. PICK e \in Entries(Payloads) : e.payload = p /\ entries'[r] = Append(s, e)
  BY AppendEffect
<1>2. s \in Seq(Entries(Payloads)) /\ writes[r] \in [Records -> Rows] /\ p \in Payloads
  BY AppendEffect DEF ChainInv, TypeOK
<1>3. /\ PayloadsOf(s) \in Seq(Payloads) /\ Len(s) \in Nat
      /\ PayloadsOf(Append(s, e)) = Append(PayloadsOf(s), p)
  BY <1>1, <1>2, PayloadsOfSeq, PayloadsOfAppend
<1>4. WritesLogged'
  <2> SUFFICES ASSUME NEW q \in Requests
               PROVE  writes'[q] = J!Replay(EmptyTable, PayloadsOf(entries'[q]))
    BY DEF WritesLogged
  <2>1. CASE q = r
    <3> DEFINE w == J!Replay(EmptyTable, Append(PayloadsOf(s), p))
    <3>1. Append(PayloadsOf(s), p) \in Seq(Payloads)
      BY <1>2, <1>3, AppendProperties
    <3>2. w \in [Records -> Rows]
      BY <3>1, RowFacts, ReplayType
    <3>3. writes'[r] \in [Records -> Rows]
      BY AppendChainInv DEF ChainInv, TypeOK
    <3>4. ASSUME NEW x \in Records PROVE writes'[r][x] = w[x]
      <4>1. J!Replay(EmptyTable, PayloadsOf(s)) = writes[r]
        BY DEF JournalInv, WritesLogged
      <4> HIDE DEF p, s
      <4>2. w[x] = IF x = p.record
                   THEN Overlay(AsStored(p.new), J!Replay(EmptyTable, PayloadsOf(s))[x])
                   ELSE J!Replay(EmptyTable, PayloadsOf(s))[x]
        BY <1>2, <1>3, RowFacts, ReplayAppend
      <4>3. /\ p.record = rec
            /\ writes'[r][x] = IF x = rec THEN Overlay(AsStored(p.new), writes[r][rec])
                               ELSE writes[r][x]
        BY AppendEffect DEF Written, p
      <4> HIDE DEF w
      <4> QED BY <4>1, <4>2, <4>3
    <3> HIDE DEF w
    <3>5. writes'[r] = w
      BY <3>2, <3>3, <3>4
    <3> QED BY <1>1, <1>3, <2>1, <3>5 DEF w
  <2>2. CASE q # r
    BY <2>2, AppendEffect DEF JournalInv, WritesLogged
  <2> QED BY <2>1, <2>2
<1>5. EntriesOfTenant'
  <2> SUFFICES ASSUME NEW q \in Requests, NEW i \in DOMAIN entries'[q]
               PROVE  entries'[q][i].payload.tenant = tenant'[q]
    BY DEF EntriesOfTenant
  <2>1. CASE q = r
    <3>1. p.tenant = tenant[r] /\ tenant' = tenant
      BY AppendEffect
    <3> HIDE DEF p, s
    <3>2. /\ DOMAIN entries'[r] = 1..(Len(s) + 1)
          /\ entries'[r][Len(s) + 1] = e
          /\ \A k \in 1..Len(s) : entries'[r][k] = s[k]
      BY <1>1, <1>2, AppendProperties
    <3>3. \A k \in 1..Len(s) : s[k].payload.tenant = tenant[r]
      BY <1>2 DEF JournalInv, EntriesOfTenant, s
    <3>4. i \in 1..Len(s) \/ i = Len(s) + 1
      BY <1>3, <2>1, <3>2
    <3> QED BY <1>1, <2>1, <3>1, <3>2, <3>3, <3>4
  <2>2. CASE q # r
    BY <2>2, AppendEffect DEF JournalInv, EntriesOfTenant
  <2> QED BY <2>1, <2>2
<1>6. LogExplainsRows'
  BY AppendEffect DEF JournalInv, LogExplainsRows
<1> QED BY <1>4, <1>5, <1>6 DEF JournalInv

\* COMMIT overlays what the session wrote, which is what replaying its entries does.
LEMMA CommitReplays ==
  ASSUME ChainInv, JournalInv, NEW r \in Requests, Commit(r)
  PROVE  LET t == tenant[r] IN
         /\ rows'[t] = J!Replay(rows[t], PayloadsOf(entries[r]))
         /\ PayloadsOf(log'[t]) = PayloadsOf(log[t]) \o PayloadsOf(entries[r])
<1> DEFINE t == tenant[r]
           b == PayloadsOf(entries[r])
<1>1. t \in Tenants /\ rows'[t] = RowsAfter(r) /\ log'[t] = log[t] \o entries[r]
  BY CommitEffect
<1>2. /\ log[t] \in Seq(Entries(Payloads)) /\ entries[r] \in Seq(Entries(Payloads))
      /\ rows[t] \in [Records -> Rows]
  BY <1>1 DEF ChainInv, TypeOK
<1>3. b \in Seq(Payloads)
  BY <1>2, PayloadsOfSeq
<1>4. writes[r] = J!Replay(EmptyTable, b)
  BY DEF JournalInv, WritesLogged
<1> HIDE DEF b, t
<1>5. \A rec \in Records : J!Replay(rows[t], b)[rec] = Overlay(writes[r][rec], rows[t][rec])
  BY <1>2, <1>3, <1>4, ReplayOverlay
<1>6. RowsAfter(r) = [rec \in Records |-> Overlay(writes[r][rec], rows[t][rec])]
  BY DEF RowsAfter, t
<1>7. J!Replay(rows[t], b) \in [Records -> Rows]
  BY <1>2, <1>3, ReplayType
<1>8. RowsAfter(r) = J!Replay(rows[t], b)
  BY <1>5, <1>6, <1>7
<1>9. PayloadsOf(log[t] \o entries[r]) = PayloadsOf(log[t]) \o b
  BY <1>2, PayloadsOfConcat DEF b
<1> QED BY <1>1, <1>8, <1>9 DEF b, t

LEMMA CommitJournalInv ==
  ASSUME ChainInv, JournalInv, NEW r \in Requests, Commit(r)
  PROVE  JournalInv'
<1> DEFINE t == tenant[r]
<1>1. t \in Tenants /\ Close(r) /\ lock' = Released(r)
  BY CommitEffect
<1>2. LogExplainsRows'
  <2> SUFFICES ASSUME NEW u \in Tenants
               PROVE  rows'[u] = J!Replay(EmptyTable, PayloadsOf(log'[u]))
    BY DEF LogExplainsRows
  <2>1. CASE u = t
    <3> DEFINE a == PayloadsOf(log[t])
               b == PayloadsOf(entries[r])
    <3>1. a \in Seq(Payloads) /\ b \in Seq(Payloads)
      BY <1>1, PayloadsOfSeq DEF ChainInv, TypeOK
    <3>2. rows[t] = J!Replay(EmptyTable, a)
      BY <1>1 DEF JournalInv, LogExplainsRows
    <3>3. rows'[t] = J!Replay(rows[t], b) /\ PayloadsOf(log'[t]) = a \o b
      BY CommitReplays
    <3> HIDE DEF a, b
    <3>4. J!Replay(J!Replay(EmptyTable, a), b) = J!Replay(EmptyTable, a \o b)
      BY <3>1, RowFacts, ReplayConcat
    <3> QED BY <2>1, <3>2, <3>3, <3>4
  <2>2. CASE u # t
    BY <2>2, CommitEffect DEF JournalInv, LogExplainsRows
  <2> QED BY <2>1, <2>2
<1>3. WritesLogged' /\ EntriesOfTenant'
  BY <1>1, ClosedJournal
<1> QED BY <1>2, <1>3 DEF JournalInv

\* A step other than COMMIT and AppendToChain leaves the journal as it was.
LEMMA QuietJournalInv ==
  ASSUME JournalInv, UNCHANGED <<rows, log, entries, writes>>,
         \A q \in Requests : entries[q] # <<>> => tenant'[q] = tenant[q]
  PROVE  JournalInv'
<1>1. WritesLogged' /\ LogExplainsRows'
  BY DEF JournalInv, WritesLogged, LogExplainsRows
<1>2. EntriesOfTenant'
  <2> SUFFICES ASSUME NEW q \in Requests, NEW i \in DOMAIN entries[q]
               PROVE  entries[q][i].payload.tenant = tenant'[q]
    BY DEF EntriesOfTenant
  <2>1. entries[q] # <<>>
    OBVIOUS
  <2> QED BY <2>1 DEF JournalInv, EntriesOfTenant
<1> QED BY <1>1, <1>2 DEF JournalInv

LEMMA JournalInvNext == ChainInv /\ JournalInv /\ [Next]_vars => JournalInv'
<1> SUFFICES ASSUME ChainInv, JournalInv, [Next]_vars PROVE JournalInv'
  OBVIOUS
<1>1. CASE UNCHANGED vars
  BY <1>1, QuietJournalInv DEF vars
<1>2. ASSUME NEW r \in Requests, Step(r) PROVE JournalInv'
  <2>1. CASE \/ \E t \in Tenants : Begin(r, t)
             \/ \E rec \in Records : Get(r, rec)
             \/ \E rec \in Records, row \in FullRow : Add(r, rec, row) \/ Assign(r, rec, row)
             \/ Flush(r)
    BY <2>1, QuietEffect, QuietJournalInv
  <2>2. CASE \E rec \in Records : AppendToChain(r, rec)
    BY <2>2, AppendJournalInv
  <2>3. CASE Commit(r)
    BY <2>3, CommitJournalInv
  <2>4. CASE Rollback(r)
    <3>1. Close(r) /\ lock' = Released(r) /\ UNCHANGED <<rows, log>>
      BY <2>4 DEF Rollback, storeVars
    <3>2. LogExplainsRows'
      BY <3>1 DEF JournalInv, LogExplainsRows
    <3> QED BY <3>1, <3>2, ClosedJournal DEF JournalInv
  <2> QED BY <1>2, <2>1, <2>2, <2>3, <2>4 DEF Step
<1> QED BY <1>1, <1>2 DEF Next

\* What a session has written is what its entries say, and what is committed is
\* what the log says, in every reachable state.
THEOREM JournalInvariant == Spec => [](ChainInv /\ JournalInv)
<1>1. Init => ChainInv /\ JournalInv
  BY ChainInvInit, JournalInvInit
<1>2. ChainInv /\ JournalInv /\ [Next]_vars => (ChainInv /\ JournalInv)'
  BY ChainInvNext, JournalInvNext
<1> QED BY <1>1, <1>2, PTL DEF Spec

\* Replaying the new_values of a tenant's log, each as its column stores it,
\* yields exactly its audited rows, whatever stale rows the sessions wrote from
\* and however a column rounds: an amount may differ by its rounding only.
THEOREM LogAlwaysExplainsRows == Spec => []LogExplainsRows
<1>1. ChainInv /\ JournalInv => LogExplainsRows
  BY DEF JournalInv
<1> QED BY <1>1, JournalInvariant, PTL

-----------------------------------------------------------------------------
LEMMA InitRecordsNothing == Init => J!JInit
<1> SUFFICES ASSUME Init PROVE J!JInit
  OBVIOUS
<1>1. PayloadsOf(<<>>) = <<>>
  BY DEF PayloadsOf
<1>2. [t \in Tenants |-> PayloadsOf(log[t])] = [t \in Tenants |-> <<>>]
  BY <1>1 DEF Init
<1>3. rows = [t \in Tenants |-> J!EmptyTable]
  BY DEF Init, EmptyTable
<1> QED BY <1>2, <1>3 DEF J!JInit

\* A COMMIT with entries is one step of the journal; one without changes nothing.
LEMMA CommitRecords ==
  ASSUME ChainInv, JournalInv, NEW r \in Requests, Commit(r)
  PROVE  J!JNext \/ UNCHANGED J!jvars
<1> DEFINE t == tenant[r]
           a == PayloadsOf(log[t])
           b == PayloadsOf(entries[r])
           before == [u \in Tenants |-> PayloadsOf(log[u])]
           after == [u \in Tenants |-> PayloadsOf(log'[u])]
<1>1. /\ t \in Tenants
      /\ \A u \in Tenants : u # t => log'[u] = log[u] /\ rows'[u] = rows[u]
  BY CommitEffect
<1>2. rows'[t] = J!Replay(rows[t], b) /\ PayloadsOf(log'[t]) = a \o b
  BY CommitReplays
<1>3. /\ a \in Seq(Payloads) /\ b \in Seq(Payloads) /\ Len(b) = Len(entries[r])
      /\ \A i \in 1..Len(b) : b[i] = entries[r][i].payload
  BY <1>1, PayloadsOfSeq DEF ChainInv, TypeOK
<1>4. rows \in [Tenants -> [Records -> Rows]] /\ rows' \in [Tenants -> [Records -> Rows]]
  BY CommitChainInv DEF ChainInv, TypeOK
<1>5. \A i \in DOMAIN b : b[i].tenant = t
  <2>1. \A i \in DOMAIN entries[r] : entries[r][i].payload.tenant = t
    BY DEF JournalInv, EntriesOfTenant
  <2>2. entries[r] \in Seq(Entries(Payloads))
    BY DEF ChainInv, TypeOK
  <2> HIDE DEF b, t
  <2>3. DOMAIN b = 1..Len(b) /\ DOMAIN entries[r] = 1..Len(entries[r])
    BY <1>3, <2>2
  <2> QED BY <1>3, <2>1, <2>3
<1> HIDE DEF t, a, b
<1>6. before[t] = a /\ after[t] = a \o b
  BY <1>1, <1>2 DEF a
<1>7. SubSeq(after[t], Len(before[t]) + 1, Len(after[t])) = b
  <2>1. Len(a \o b) = Len(a) + Len(b)
    BY <1>3, ConcatProperties
  <2>2. SubSeq(a \o b, Len(a) + 1, Len(a) + Len(b)) = b
    BY <1>3, SubSeqOfConcat2
  <2> HIDE DEF before, after
  <2> QED BY <1>6, <2>1, <2>2
<1>8. after = [before EXCEPT ![t] = before[t] \o b]
  <2>1. \A u \in Tenants : u # t => after[u] = before[u]
    BY <1>1
  <2> QED BY <1>1, <1>6, <2>1
<1>9. rows' = [rows EXCEPT ![t] = J!Replay(rows[t], b)]
  BY <1>1, <1>2, <1>4
<1>10. CASE b = <<>>
  <2>1. a \o b = a
    BY <1>3, <1>10, ConcatEmptySeq
  <2>2. after = before
    BY <1>1, <1>6, <1>8, <2>1
  <2>3. J!Replay(rows[t], b) = rows[t]
    BY <1>1, <1>4, <1>10, ReplayNothing
  <2>4. rows' = rows
    BY <1>4, <1>9, <2>3
  <2> QED BY <2>2, <2>4 DEF J!jvars
<1>11. CASE b # <<>>
  <2>1. J!Record(t)
    BY <1>5, <1>7, <1>8, <1>9, <1>11 DEF J!Record
  <2> QED BY <1>1, <2>1 DEF J!JNext
<1> QED BY <1>10, <1>11

LEMMA NextRecords == ChainInv /\ JournalInv /\ [Next]_vars => [J!JNext]_J!jvars
<1> SUFFICES ASSUME ChainInv, JournalInv, [Next]_vars
             PROVE  J!JNext \/ UNCHANGED J!jvars
  OBVIOUS
<1>1. CASE UNCHANGED <<rows, log>>
  BY <1>1 DEF J!jvars
<1>2. ASSUME NEW r \in Requests, Step(r) PROVE UNCHANGED <<rows, log>> \/ Commit(r)
  BY <1>2 DEF Step, Begin, Get, Add, Assign, Flush, AppendToChain, Rollback, storeVars
<1> QED BY <1>1, <1>2, CommitRecords DEF Next, vars

\* The audited unit of work implements the journal: the log of a tenant grows
\* by whole batches of what the session held, and its rows change in the same
\* step by what the columns store of them.
THEOREM JournalImplemented == Spec => ImplementsJournal
<1> QED
  BY InitRecordsNothing, JournalInvariant, NextRecords, PTL DEF Spec, ImplementsJournal, J!JSpec

-----------------------------------------------------------------------------
\* A row is empty exactly when it has no columns.
LEMMA EmptyRow ==
  ASSUME NEW f \in Rows
  PROVE  f = NoRow <=> DOMAIN f = {}
BY RowFacts, RowEqual

LEMMA OverlayEmpty ==
  ASSUME NEW f \in Rows, NEW g \in Rows
  PROVE  Overlay(f, g) = NoRow <=> f = NoRow /\ g = NoRow
<1>1. Overlay(f, g) \in Rows /\ DOMAIN Overlay(f, g) = DOMAIN f \cup DOMAIN g
  BY OverlayRows
<1> QED BY <1>1, EmptyRow

\* What is written for a changed object is not empty, and so is what is read back.
LEMMA WrittenNotEmpty ==
  ASSUME ChainInv, NEW r \in Requests, NEW rec \in Records, tenant[r] \in Tenants,
         rec \in Pending(r)
  PROVE  /\ cur[r][rec] # NoRow
         /\ Written(r, rec) # NoRow /\ Refreshed(r, rec) # NoRow
<1>1. /\ cur[r][rec] \in Rows /\ base[r][rec] \in Rows /\ writes[r][rec] \in Rows
      /\ rows[tenant[r]][rec] \in Rows
      /\ PayloadFor(r, rec).new \in Rows
  BY PayloadFacts DEF ChainInv, TypeOK, Payloads, J!Payloads, Rows
<1>2. cur[r][rec] # NoRow /\ cur[r][rec] \in FullRow
  BY DEF ChainInv, RowsWhole, Pending, Added, Dirty
<1>3. PayloadFor(r, rec).new # NoRow
  <2>1. CASE rec \in Added(r)
    BY <1>2, <2>1 DEF PayloadFor
  <2>2. CASE rec \notin Added(r)
    <3>1. base[r][rec] \in FullRow /\ cur[r][rec] # base[r][rec]
      BY <2>2, <1>2 DEF Pending, Added, Dirty, ChainInv, RowsWhole
    <3>2. PICK c \in Columns : cur[r][rec][c] # base[r][rec][c]
      BY <1>2, <3>1 DEF FullRow
    <3>3. c \in ChangedColumns(r, rec)
      BY <1>2, <3>2, RowFacts DEF ChangedColumns
    <3>4. PayloadFor(r, rec).new = [k \in ChangedColumns(r, rec) |-> cur[r][rec][k]]
      BY <2>2 DEF PayloadFor
    <3> QED BY <3>3, <3>4, RowFacts
  <2> QED BY <2>1, <2>2
<1>4. Written(r, rec) \in Rows /\ Written(r, rec) # NoRow
  <2>1. AsStored(PayloadFor(r, rec).new) \in Rows /\ AsStored(PayloadFor(r, rec).new) # NoRow
    BY <1>1, <1>3, StoredRows, EmptyRow
  <2> QED BY <1>1, <2>1, OverlayEmpty, PayloadFacts DEF Written
<1>5. Refreshed(r, rec) # NoRow
  BY <1>1, <1>4, OverlayEmpty DEF Refreshed
<1> QED BY <1>2, <1>4, <1>5

LEMMA IsolationInvInit == Init => IsolationInv
BY RowFacts DEF Init, IsolationInv, RecordsApart, LoggedHeld

\* Steps that change the rows held in memory only.
LEMMA MemoryIsolationInv ==
  ASSUME ChainInv, IsolationInv, NEW r \in Requests, NEW rec \in Records, NEW row \in Rows,
         tenant[r] \in Tenants,
         cur' = [cur EXCEPT ![r][rec] = row],
         \/ rows[tenant[r]][rec] # NoRow
         \/ Fresh(rec)
         \/ cur[r][rec] # NoRow,
         row = NoRow => cur[r][rec] = NoRow,
         UNCHANGED <<rows, log, tenant, entries, writes>>
  PROVE  IsolationInv'
<1>1. /\ \A x \in Records : cur'[r][x] = IF x = rec THEN row ELSE cur[r][x]
      /\ \A q \in Requests : q # r => cur'[q] = cur[q]
  BY DEF ChainInv, TypeOK
<1>2. /\ \A t \in Tenants : rows[t][rec] # NoRow => t = tenant[r]
      /\ \A q \in Requests : cur[q][rec] # NoRow => tenant[q] = tenant[r]
  BY DEF IsolationInv, RecordsApart, Fresh
<1>3. \A q \in Requests, x \in Records :
        cur'[q][x] # NoRow => cur[q][x] # NoRow \/ (q = r /\ x = rec)
  BY <1>1
<1>4. \A q \in Requests, x \in Records : cur[q][x] # NoRow => cur'[q][x] # NoRow
  BY <1>1
<1>5. RecordsApart'
  BY <1>2, <1>3, <1>4 DEF IsolationInv, RecordsApart
<1>6. LoggedHeld'
  BY DEF IsolationInv, LoggedHeld
<1> QED BY <1>5, <1>6 DEF IsolationInv

LEMMA BeginIsolationInv ==
  ASSUME ChainInv, IsolationInv, NEW r \in Requests, NEW t \in Tenants, Begin(r, t)
  PROVE  IsolationInv'
<1>1. \A x \in Records : cur[r][x] = NoRow
  BY RowFacts DEF Begin, ChainInv, LockHeldByWriter
<1>2. \A q \in Requests : q # r => tenant'[q] = tenant[q]
  BY DEF Begin, ChainInv, TypeOK
<1>3. RecordsApart'
  BY <1>1, <1>2 DEF Begin, IsolationInv, RecordsApart
<1>4. LoggedHeld'
  BY DEF Begin, IsolationInv, LoggedHeld
<1> QED BY <1>3, <1>4 DEF IsolationInv

LEMMA AppendIsolationInv ==
  ASSUME ChainInv, IsolationInv, NEW r \in Requests, NEW rec \in Records, AppendToChain(r, rec)
  PROVE  IsolationInv'
<1> DEFINE s == entries[r]
<1>1. PICK e \in Entries(Payloads) : e.payload = PayloadFor(r, rec) /\ entries'[r] = Append(s, e)
  BY AppendEffect
<1>2. /\ tenant[r] \in Tenants /\ rec \in Pending(r) /\ e.payload.record = rec
      /\ UNCHANGED <<rows, log, tenant>>
  BY <1>1, AppendEffect
<1>3. cur[r][rec] # NoRow /\ Written(r, rec) # NoRow /\ Refreshed(r, rec) # NoRow
  BY <1>2, WrittenNotEmpty
<1>4. /\ \A x \in Records :
           /\ writes'[r][x] = IF x = rec THEN Written(r, rec) ELSE writes[r][x]
           /\ cur'[r][x] = IF x = rec THEN Refreshed(r, rec) ELSE cur[r][x]
      /\ \A q \in Requests : q # r =>
           entries'[q] = entries[q] /\ writes'[q] = writes[q] /\ cur'[q] = cur[q]
  BY AppendEffect
<1>5. RecordsApart'
  <2>1. \A q \in Requests, x \in Records : cur'[q][x] # NoRow <=> cur[q][x] # NoRow
    BY <1>3, <1>4
  <2>2. \A q \in Requests, x \in Records :
          writes'[q][x] # NoRow => writes[q][x] # NoRow \/ (q = r /\ x = rec)
    BY <1>4
  <2> QED BY <1>2, <1>3, <2>1, <2>2 DEF IsolationInv, RecordsApart
<1>6. LoggedHeld'
  <2> SUFFICES ASSUME NEW q \in Requests, NEW i \in DOMAIN entries'[q]
               PROVE  writes'[q][entries'[q][i].payload.record] # NoRow
    BY <1>2 DEF IsolationInv, LoggedHeld
  <2>1. CASE q = r
    <3>1. s \in Seq(Entries(Payloads)) /\ Len(s) \in Nat
      BY DEF ChainInv, TypeOK
    <3>2. \A k \in 1..Len(s) : s[k] \in Entries(Payloads) /\ s[k].payload.record \in Records
      <4>1. \A k \in 1..Len(s) : s[k] \in Entries(Payloads)
        BY <3>1, ElementOfSeq
      <4>2. \A d \in Entries(Payloads) : d.payload.record \in Records
        BY DEF Entries, Payloads, J!Payloads
      <4> HIDE DEF s
      <4> QED BY <4>1, <4>2
    <3>3. \A k \in 1..Len(s) : writes[r][s[k].payload.record] # NoRow
      BY <3>1 DEF IsolationInv, LoggedHeld
    <3> HIDE DEF s
    <3>4. /\ DOMAIN entries'[r] = 1..(Len(s) + 1)
          /\ entries'[r][Len(s) + 1] = e
          /\ \A k \in 1..Len(s) : entries'[r][k] = s[k]
      BY <1>1, <3>1, AppendProperties
    <3>5. i \in 1..Len(s) \/ i = Len(s) + 1
      BY <2>1, <3>1, <3>4
    <3>6. \A x \in Records : writes[r][x] # NoRow => writes'[r][x] # NoRow
      BY <1>3, <1>4
    <3> QED BY <1>2, <1>3, <1>4, <2>1, <3>2, <3>3, <3>4, <3>5, <3>6
  <2>2. CASE q # r
    BY <1>4, <2>2 DEF IsolationInv, LoggedHeld
  <2> QED BY <2>1, <2>2
<1> QED BY <1>5, <1>6 DEF IsolationInv

\* A closed session holds nothing; the others are as they were.
LEMMA ClosedApart ==
  ASSUME ChainInv, IsolationInv, NEW r \in Requests, Close(r), lock' = Released(r)
  PROVE  /\ \A q \in Requests, x \in Records :
              /\ cur'[q][x] # NoRow => q # r /\ cur[q][x] # NoRow
              /\ writes'[q][x] # NoRow => cur'[q][x] # NoRow
         /\ \A q \in Requests : q # r => tenant'[q] = tenant[q]
         /\ \A q \in Requests : \A i \in DOMAIN entries'[q] :
              writes'[q][entries'[q][i].payload.record] # NoRow
<1>1. /\ entries'[r] = <<>> /\ writes'[r] = EmptyTable /\ cur'[r] = EmptyTable
      /\ \A q \in Requests : q # r =>
           /\ entries'[q] = entries[q] /\ writes'[q] = writes[q] /\ cur'[q] = cur[q]
           /\ tenant'[q] = tenant[q]
  BY CloseFacts
<1> QED BY <1>1, RowFacts DEF IsolationInv, RecordsApart, LoggedHeld

LEMMA CommitIsolationInv ==
  ASSUME ChainInv, IsolationInv, NEW r \in Requests, Commit(r)
  PROVE  IsolationInv'
<1> DEFINE t == tenant[r]
<1>1. /\ t \in Tenants /\ Close(r) /\ lock' = Released(r)
      /\ log'[t] = log[t] \o entries[r] /\ rows'[t] = RowsAfter(r)
      /\ \A u \in Tenants : u # t => log'[u] = log[u] /\ rows'[u] = rows[u]
  BY CommitEffect
<1>2. \A x \in Records : rows'[t][x] # NoRow <=> rows[t][x] # NoRow \/ writes[r][x] # NoRow
  <2> TAKE x \in Records
  <2>1. writes[r][x] \in Rows /\ rows[t][x] \in Rows
    BY <1>1 DEF ChainInv, TypeOK
  <2>2. rows'[t][x] = Overlay(writes[r][x], rows[t][x])
    BY <1>1 DEF RowsAfter
  <2> QED BY <2>1, <2>2, OverlayEmpty
<1>3. \A x \in Records : rows'[t][x] # NoRow => rows[t][x] # NoRow \/ cur[r][x] # NoRow
  BY <1>2 DEF IsolationInv, RecordsApart
<1>4. RecordsApart'
  <2>1. \A u \in Tenants, x \in Records :
          rows'[u][x] # NoRow => rows[u][x] # NoRow \/ (u = t /\ cur[r][x] # NoRow)
    BY <1>1, <1>3
  <2>2. /\ \A q \in Requests, x \in Records :
             /\ cur'[q][x] # NoRow => cur[q][x] # NoRow /\ tenant'[q] = tenant[q]
             /\ writes'[q][x] # NoRow => cur'[q][x] # NoRow
    BY <1>1, ClosedApart
  <2> QED BY <2>1, <2>2 DEF IsolationInv, RecordsApart
<1>5. LoggedHeld'
  <2>1. ASSUME NEW u \in Tenants, NEW i \in DOMAIN log'[u]
        PROVE  rows'[u][log'[u][i].payload.record] # NoRow
    <3>1. CASE u = t
      <4> DEFINE a == log[t]
                 b == entries[r]
      <4>1. a \in Seq(Entries(Payloads)) /\ b \in Seq(Entries(Payloads))
        BY <1>1 DEF ChainInv, TypeOK
      <4>2. /\ \A k \in 1..Len(a) : rows[t][a[k].payload.record] # NoRow
            /\ \A k \in 1..Len(b) : writes[r][b[k].payload.record] # NoRow
        BY <1>1, <4>1 DEF IsolationInv, LoggedHeld
      <4> HIDE DEF a, b
      <4>3. /\ a \o b \in Seq(Entries(Payloads)) /\ Len(a \o b) = Len(a) + Len(b)
            /\ \A k \in 1..(Len(a) + Len(b)) : (a \o b)[k] = IF k <= Len(a) THEN a[k] ELSE b[k - Len(a)]
        BY <4>1, ConcatProperties
      <4>4. i \in 1..(Len(a) + Len(b)) /\ log'[u] = a \o b /\ Len(a) \in Nat /\ Len(b) \in Nat
        <5>1. log'[u] = a \o b
          BY <1>1, <3>1 DEF a, b
        <5> QED BY <2>1, <4>1, <4>3, <5>1
      <4>5. (a \o b)[i].payload.record \in Records
        <5>1. (a \o b)[i] \in Entries(Payloads)
          BY <4>3, <4>4, ElementOfSeq
        <5> QED BY <5>1 DEF Entries, Payloads, J!Payloads
      <4>6. CASE i <= Len(a)
        <5>1. i \in 1..Len(a) /\ (a \o b)[i] = a[i]
          BY <4>3, <4>4, <4>6
        <5> QED BY <1>2, <3>1, <4>2, <4>4, <4>5, <5>1
      <4>7. CASE ~(i <= Len(a))
        <5>1. i - Len(a) \in 1..Len(b) /\ (a \o b)[i] = b[i - Len(a)]
          BY <4>3, <4>4, <4>7
        <5> QED BY <1>2, <3>1, <4>2, <4>4, <4>5, <5>1
      <4> QED BY <4>6, <4>7
    <3>2. CASE u # t
      BY <1>1, <3>2 DEF IsolationInv, LoggedHeld
    <3> QED BY <3>1, <3>2
  <2> QED BY <1>1, <2>1, ClosedApart DEF LoggedHeld
<1> QED BY <1>4, <1>5 DEF IsolationInv

LEMMA IsolationInvNext == ChainInv /\ IsolationInv /\ [Next]_vars => IsolationInv'
<1> SUFFICES ASSUME ChainInv, IsolationInv, [Next]_vars PROVE IsolationInv'
  OBVIOUS
<1>1. CASE UNCHANGED vars
  BY <1>1 DEF vars, IsolationInv, RecordsApart, LoggedHeld
<1>2. ASSUME NEW r \in Requests, Step(r) PROVE IsolationInv'
  <2>0. Open(r) => tenant[r] \in Tenants
    BY DEF Open, ChainInv, TypeOK
  <2>1. CASE \E t \in Tenants : Begin(r, t)
    BY <2>1, BeginIsolationInv
  <2>2. ASSUME NEW rec \in Records, Get(r, rec) PROVE IsolationInv'
    <3>1. /\ tenant[r] \in Tenants
          /\ rows[tenant[r]][rec] \in Rows /\ rows[tenant[r]][rec] # NoRow
          /\ cur' = [cur EXCEPT ![r][rec] = rows[tenant[r]][rec]]
          /\ UNCHANGED <<rows, log, tenant, entries, writes>>
      BY <2>0, <2>2 DEF Get, Working, Visible, ChainInv, TypeOK
    <3> QED BY <3>1, MemoryIsolationInv
  <2>3. ASSUME NEW rec \in Records, NEW row \in FullRow, Add(r, rec, row) \/ Assign(r, rec, row)
        PROVE  IsolationInv'
    <3>1. /\ tenant[r] \in Tenants /\ row \in Rows
          /\ cur' = [cur EXCEPT ![r][rec] = row]
          /\ UNCHANGED <<rows, log, tenant, entries, writes>>
      BY <2>0, <2>3, RowFacts DEF Add, Assign, Working
    <3>2. Fresh(rec) \/ cur[r][rec] # NoRow
      BY <2>3 DEF Add, Assign
    <3>3. row = NoRow => cur[r][rec] = NoRow
      <4>1. \A x, y \in FullRow : DOMAIN x = {} => x = y
        BY DEF FullRow
      <4>2. cur[r][rec] \in FullRow \cup {NoRow}
        BY DEF ChainInv, RowsWhole
      <4> QED BY <4>1, <4>2, <2>3, RowFacts
    <3> QED BY <3>1, <3>2, <3>3, MemoryIsolationInv
  <2>4. CASE Flush(r)
    BY <2>4 DEF Flush, IsolationInv, RecordsApart, LoggedHeld
  <2>5. CASE \E rec \in Records : AppendToChain(r, rec)
    BY <2>5, AppendIsolationInv
  <2>6. CASE Commit(r)
    BY <2>6, CommitIsolationInv
  <2>7. CASE Rollback(r)
    <3>1. Close(r) /\ lock' = Released(r) /\ UNCHANGED <<rows, log>>
      BY <2>7 DEF Rollback, storeVars
    <3>2. RecordsApart'
      BY <3>1, ClosedApart DEF IsolationInv, RecordsApart
    <3>3. LoggedHeld'
      BY <3>1, ClosedApart DEF IsolationInv, LoggedHeld
    <3> QED BY <3>2, <3>3 DEF IsolationInv
  <2> QED BY <1>2, <2>1, <2>2, <2>3, <2>4, <2>5, <2>6, <2>7 DEF Step
<1> QED BY <1>1, <1>2 DEF Next

\* No session ever holds a row of a tenant it is not pinned to, and no tenant's
\* log describes a record of another tenant.
THEOREM TenantsAlwaysIsolated == Spec => []TenantIsolation
<1>1. Init => ChainInv /\ IsolationInv
  BY ChainInvInit, IsolationInvInit
<1>2. ChainInv /\ IsolationInv /\ [Next]_vars => (ChainInv /\ IsolationInv)'
  BY ChainInvNext, IsolationInvNext
<1>3. ChainInv /\ IsolationInv => TenantIsolation
  <2> SUFFICES ASSUME ChainInv, IsolationInv PROVE TenantIsolation
    OBVIOUS
  <2>1. \A r \in Requests, rec \in Records, t \in Tenants :
          cur[r][rec] # NoRow /\ rows[t][rec] # NoRow => t = tenant[r]
    BY DEF IsolationInv, RecordsApart
  <2>2. ASSUME NEW t \in Tenants, NEW i \in DOMAIN log[t], NEW u \in Tenants \ {t}
        PROVE  rows[u][log[t][i].payload.record] = NoRow
    <3>1. log[t] \in Seq(Entries(Payloads))
      BY DEF ChainInv, TypeOK
    <3>2. log[t][i] \in Entries(Payloads)
      BY <3>1
    <3>3. log[t][i].payload.record \in Records
      BY <3>2 DEF Entries, Payloads, J!Payloads
    <3> QED BY <3>3 DEF IsolationInv, LoggedHeld, RecordsApart
  <2> QED BY <2>1, <2>2 DEF TenantIsolation
<1> QED BY <1>1, <1>2, <1>3, PTL DEF Spec
=============================================================================
