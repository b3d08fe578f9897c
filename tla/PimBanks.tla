------------------------------ MODULE PimBanks ------------------------------
(***************************************************************************)
(* Where interned weights live: the intern table and the row allocator of  *)
(* src/pim_func/src/c_api.cpp (Runtime, intern_store, ensure_banks), the   *)
(* banked DRAM of mem.cpp with its dense regions and its sparse store, and *)
(* the weight loader of device.cpp.  In the hybrid mode the regions lie in *)
(* the shared arena and the MAC worker of the other process adopts them    *)
(* (adopt_hybrid).                                                         *)
(*                                                                         *)
(* A weight matrix has `groups` groups of n_banks output rows and `cols`   *)
(* bursts per row.  Group g lives in channel g % NCh, DRAM row             *)
(* row_base + g \div NCh (CentGemvAllocation).  One row of one channel is  *)
(* the unit here; its content is <<key, version, group>>: whose weights,   *)
(* which state of them and which group.  All callers are one thread.       *)
(***************************************************************************)
EXTENDS Integers, Sequences, SequencesExt, FiniteSetsExt

CONSTANTS
  Keys,            \* the weights' keys
  Shapes,          \* shapes of matrices, records [groups, cols]
  NCh,             \* number of PIM channels: host_hw 1, gem5_hw 4
  NRows,           \* hw.n_rows
  Shared,          \* PIM_ISSUE_SHM: regions are allocated in the arena
  ArenaSize,       \* its size, in bursts of all banks
  MaxRegions,      \* PIM_HYBRID_MAX_REGIONS
  MaxVersion,      \* bound: how often a weight is interned or written
  MaxRow,          \* bound: next_row, which grows past hw.n_rows
  MaxModeCalls     \* bound: how often pim_set_issue_mode is called

ASSUME BanksAssumption ==
  /\ NCh \in Nat \ {0} /\ NRows \in Nat
  /\ Shapes \subseteq [groups : Nat \ {0}, cols : Nat \ {0}]
  /\ Shared \in BOOLEAN /\ ArenaSize \in Nat /\ MaxRegions \in Nat
  /\ MaxVersion \in Nat /\ MaxRow \in Nat /\ MaxModeCalls \in Nat

VARIABLES
  intern,      \* Runtime::intern: key -> entry, or Absent
  version,     \* the state of the host's copy of the weights
  nextRow,     \* Runtime::next_row
  regions,     \* every dense region allocated so far, with its content; in
               \* the hybrid mode this is the table in the shared header
  dense,       \* BankedDram::dense_ of the client, as indices of regions
  store,       \* BankedDram::store_: <<ch, row>> -> content
  bump,        \* PimHybridHeader::bump
  refused,     \* has ensure_dense ever returned nullptr?
  modeCalls,   \* calls of pim_set_issue_mode
  down         \* has pim_shutdown been called? it acts only once

vars == <<intern, version, nextRow, regions, dense, store, bump, refused,
          modeCalls, down>>
dram == <<regions, dense, store, bump, refused>>

Absent == [elems |-> 0]
NoShape == [groups |-> 0, cols |-> 0]
Zero == <<>>                  \* a row of zeros
Torn == <<"torn">>            \* a row whose last columns are lost

Interned == {k \in Keys : intern[k] # Absent}

\* Mutant: a started wave is not counted.
WavesFloor(s) == s.groups \div NCh

Waves(s) == (s.groups + NCh - 1) \div NCh
Ch(g)    == g % NCh
Row(e, g) == e.rowBase + g \div NCh
Groups(s) == 0 .. s.groups - 1

\* A region serves its rows of its channel.
Covers(r, ch, row) == r.ch = ch /\ row \in r.row0 .. r.row0 + r.nRows - 1

\* Mutant: the first region in the list is taken.
RegionForFirst(rs, ds, ch, row) ==
  LET hits == {i \in DOMAIN ds : Covers(rs[ds[i]], ch, row)}
  IN IF hits = {} THEN 0 ELSE ds[Min(hits)]

\* region_for_row: the region of dense_ that was indexed last for this row.
RegionFor(rs, ds, ch, row) ==
  LET hits == {i \in DOMAIN ds : Covers(rs[ds[i]], ch, row)}
  IN IF hits = {} THEN 0 ELSE ds[Max(hits)]

\* BankedDram::read over the columns of one row: a row that a region covers is
\* never looked up in store_.
ReadRow(rs, ds, st, ch, row) ==
  LET i == RegionFor(rs, ds, ch, row)
  IN IF i # 0 THEN rs[i].slot[row - rs[i].row0]
     ELSE IF <<ch, row>> \in DOMAIN st THEN st[<<ch, row>>]
     ELSE Zero

Init ==
  /\ intern = [k \in Keys |-> Absent]
  /\ version = [k \in Keys |-> 0]
  /\ nextRow = 0
  /\ regions = <<>> /\ dense = <<>> /\ store = <<>> /\ bump = 0
  /\ refused = FALSE
  /\ modeCalls = 0 /\ down = FALSE

-----------------------------------------------------------------------------
(* The DRAM.                                                               *)

EmptyRegion(ch, e) ==
  [ch |-> ch, row0 |-> e.rowBase, nRows |-> e.shape.groups,
   cols |-> e.shape.cols, slot |-> [o \in Groups(e.shape) |-> Zero]]

SamePlace(r, q) == r.ch = q.ch /\ r.row0 = q.row0 /\ r.nRows = q.nRows /\ r.cols = q.cols

\* Mutant: the arena is checked without the size that is asked for.
EnsureDenseOver(d, ch, e) ==
  LET q == EmptyRegion(ch, e)
      old == {i \in DOMAIN d.dense : SamePlace(d.regions[d.dense[i]], q)}
      need == q.nRows * q.cols
      full == Shared /\ d.bump > ArenaSize
      noSlot == Shared /\ Len(d.regions) >= MaxRegions
  IN IF old # {}
     THEN [d EXCEPT !.regions[d.dense[Min(old)]] = q]
     ELSE IF full
     THEN [d EXCEPT !.refused = TRUE]
     ELSE IF noSlot
     THEN [d EXCEPT !.refused = TRUE, !.bump = d.bump + need]
     ELSE [d EXCEPT !.regions = Append(@, q),
                    !.dense = Append(@, Len(d.regions) + 1),
                    !.bump = d.bump + need]

\* ensure_dense on the state d of the DRAM: a region in the same place is
\* zeroed, else one is allocated.  The arena or its table may be full: the
\* caller does not look at the nullptr it gets then.
EnsureDense(d, ch, e) ==
  LET q == EmptyRegion(ch, e)
      old == {i \in DOMAIN d.dense : SamePlace(d.regions[d.dense[i]], q)}
      need == q.nRows * q.cols
      full == Shared /\ d.bump + need > ArenaSize
      noSlot == Shared /\ Len(d.regions) >= MaxRegions
  IN IF old # {}
     THEN [d EXCEPT !.regions[d.dense[Min(old)]] = q]
     ELSE IF full
     THEN [d EXCEPT !.refused = TRUE]
     ELSE IF noSlot
     THEN [d EXCEPT !.refused = TRUE, !.bump = d.bump + need]
     ELSE [d EXCEPT !.regions = Append(@, q),
                    !.dense = Append(@, Len(d.regions) + 1),
                    !.bump = d.bump + need]

\* The rows of load_weights_f32, written through region_for_row.
WriteWeights(d, k, e) ==
  LET at(g) == RegionFor(d.regions, d.dense, Ch(g), Row(e, g))
      put(i, o) == {g \in Groups(e.shape) :
                      at(g) = i /\ Ch(g) = d.regions[i].ch
                                /\ Row(e, g) = d.regions[i].row0 + o}
      content(g) == <<k, version[k], g>>
      slot(i) == [o \in DOMAIN d.regions[i].slot |->
                    IF put(i, o) = {} THEN d.regions[i].slot[o]
                    ELSE IF d.regions[i].cols >= e.shape.cols
                    THEN content(CHOOSE g \in put(i, o) : TRUE)
                    ELSE Torn]
      loose == {g \in Groups(e.shape) : at(g) = 0}
      places == {<<Ch(g), Row(e, g)>> : g \in loose}
  IN [d EXCEPT
        !.regions = [i \in DOMAIN d.regions |-> [d.regions[i] EXCEPT !.slot = slot(i)]],
        !.store = [p \in DOMAIN d.store \cup places |->
                     IF p \in places
                     THEN content(CHOOSE g \in loose : <<Ch(g), Row(e, g)>> = p)
                     ELSE d.store[p]]]

\* The loop of load_weights_f32 over the channels.
EnsureAll(d0, e) ==
  LET d[ch \in 0 .. NCh] == IF ch = 0 THEN d0 ELSE EnsureDense(d[ch - 1], ch - 1, e)
  IN d[NCh]

\* Device::load_weights_f32
Load(k, e) ==
  LET d0 == [regions |-> regions, dense |-> dense, store |-> store,
             bump |-> bump, refused |-> refused]
  IN WriteWeights(EnsureAll(d0, e), k, e)

-----------------------------------------------------------------------------
(* The calls.                                                              *)

\* intern_store; an entry of the same key is replaced, its rows are not
\* given back.
Intern(k, s) ==
  /\ version[k] < MaxVersion
  /\ version' = [version EXCEPT ![k] = @ + 1]
  /\ intern' = [intern EXCEPT ![k] =
       [elems |-> s.groups * s.cols, shape |-> NoShape, rowBase |-> -1, stale |-> TRUE]]
  /\ UNCHANGED <<nextRow, dram, modeCalls, down>>

\* Mutant: the banks are not told that the host has written.
HostWriteSilent(k) ==
  /\ intern[k] # Absent /\ version[k] < MaxVersion
  /\ version' = [version EXCEPT ![k] = @ + 1]
  /\ UNCHANGED <<intern, nextRow, dram, modeCalls, down>>

\* The host changes the weights and says so (llm_backend_host_write, which
\* calls pim_invalidate).
HostWrite(k) ==
  /\ intern[k] # Absent /\ version[k] < MaxVersion
  /\ version' = [version EXCEPT ![k] = @ + 1]
  /\ intern' = [intern EXCEPT ![k].stale = TRUE]
  /\ UNCHANGED <<nextRow, dram, modeCalls, down>>

\* The entry's rows were given out for this shape.  pim_prepare of a key that
\* is unknown or has another number of elements (-1), and of weights that are
\* in place and not stale (0), changes nothing.
InPlace(e, s) == e.shape = s /\ e.rowBase >= 0

\* pim_prepare of weights that have their rows but are stale.
PrepareReload(k, s) ==
  /\ intern[k] # Absent /\ intern[k].elems = s.groups * s.cols
  /\ InPlace(intern[k], s) /\ intern[k].stale
  /\ intern' = [intern EXCEPT ![k].stale = FALSE]
  /\ LET d == Load(k, intern[k])
     IN /\ regions' = d.regions /\ dense' = d.dense /\ store' = d.store
        /\ bump' = d.bump /\ refused' = d.refused
  /\ UNCHANGED <<version, nextRow, modeCalls, down>>

\* pim_prepare of weights that get new rows.  The entry and next_row are
\* changed before the end of the rows is looked at (-2).
PreparePlace(k, s) ==
  LET e == [elems |-> s.groups * s.cols, shape |-> s, rowBase |-> nextRow, stale |-> FALSE]
      fits == nextRow + Waves(s) <= NRows
  IN /\ intern[k] # Absent /\ intern[k].elems = s.groups * s.cols
     /\ ~InPlace(intern[k], s)
     /\ nextRow + Waves(s) <= MaxRow
     /\ nextRow' = nextRow + Waves(s)
     /\ IF fits
        THEN /\ intern' = [intern EXCEPT ![k] = e]
             /\ LET d == Load(k, e)
                IN /\ regions' = d.regions /\ dense' = d.dense /\ store' = d.store
                   /\ bump' = d.bump /\ refused' = d.refused
        ELSE /\ intern' = [intern EXCEPT ![k] = [e EXCEPT !.stale = intern[k].stale]]
             /\ UNCHANGED dram
     /\ UNCHANGED <<version, modeCalls, down>>

\* pim_set_issue_mode: the next call gets a new Device; the intern table and
\* next_row stay.  test_hybrid.cpp calls it before anything is interned.
SetIssueMode ==
  /\ modeCalls < MaxModeCalls
  /\ Interned = {}
  /\ modeCalls' = modeCalls + 1
  /\ dense' = <<>> /\ store' = <<>>
  /\ UNCHANGED <<intern, version, nextRow, regions, bump, refused, down>>

\* pim_shutdown, the first time.  The table in the shared header stays.
Shutdown ==
  /\ ~down
  /\ down' = TRUE
  /\ intern' = [k \in Keys |-> Absent]
  /\ nextRow' = 0
  /\ dense' = <<>> /\ store' = <<>>
  /\ UNCHANGED <<version, regions, bump, refused, modeCalls>>

Next == \/ \E k \in Keys : \/ HostWrite(k)
                           \/ \E s \in Shapes : \/ Intern(k, s)
                                                \/ PrepareReload(k, s)
                                                \/ PreparePlace(k, s)
        \/ SetIssueMode \/ Shutdown

Spec == Init /\ [][Next]_vars

-----------------------------------------------------------------------------
(* Properties.                                                             *)

TypeOK ==
  /\ \A k \in Interned :
       intern[k] \in [elems : {s.groups * s.cols : s \in Shapes},
                     shape : Shapes \cup {NoShape}, rowBase : Nat \cup {-1},
                     stale : BOOLEAN]
  /\ version \in [Keys -> 0 .. MaxVersion] /\ nextRow \in 0 .. MaxRow
  /\ Range(dense) \subseteq DOMAIN regions
  /\ bump \in Nat /\ Shared => bump <= ArenaSize /\ Len(regions) <= MaxRegions

\* The entries whose latest pim_prepare has returned 0 and that the host has
\* not written since.
Ready == {k \in Interned : ~intern[k].stale}

RowsOf(k) == {Row(intern[k], g) : g \in Groups(intern[k].shape)}

\* "CentGemv rows are unique across interned matrices" (mem.h): the rows that
\* hold the groups of two matrices never overlap, though their regions may.
RowsDisjoint == \A k, j \in Interned :
  k # j /\ intern[k].rowBase >= 0 /\ intern[j].rowBase >= 0
    => RowsOf(k) \cap RowsOf(j) = {}

\* All groups of k are found, in their present state, by one who looks them
\* up in the regions ds and the store st.
Readable(k, ds, st) == \A g \in Groups(intern[k].shape) :
  ReadRow(regions, ds, st, Ch(g), Row(intern[k], g)) = <<k, version[k], g>>

\* A matrix that was given rows the banks do not have.  pim_prepare answered
\* -2, and answers 0 the next time it is asked.
Beyond(k) == ~(RowsOf(k) \subseteq 0 .. NRows - 1)

\* As long as the arena has room, the rows of a prepared matrix hold its
\* present weights, whatever has been loaded, reloaded, replaced or turned
\* down since.
ClientReads ==
  ~refused => \A k \in Ready : Beyond(k) \/ Readable(k, dense, store)

\* So they do for the MAC worker, which knows the shared table only, and
\* adopts it in the order of the allocations.
Adopted == [i \in DOMAIN regions |-> i]
WorkerReads ==
  Shared /\ ~refused => \A k \in Ready : Beyond(k) \/ Readable(k, Adopted, <<>>)

\* "Place interned weights into banks. Returns 0": a prepared matrix lies in
\* rows that exist and is found there by whoever computes with it.
Placed == \A k \in Ready :
  /\ ~Beyond(k)
  /\ Readable(k, dense, store)
  /\ Shared => Readable(k, Adopted, <<>>)
=============================================================================
