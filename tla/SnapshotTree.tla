---------------------------- MODULE SnapshotTree ----------------------------
(***************************************************************************)
(* core/state/snapshot: the tree of diff layers over one disk layer, which *)
(* answers the reads of a StateDB without walking the tries.               *)
(*                                                                         *)
(* A layer is an object that others may still point to when the tree has   *)
(* dropped it: "obj" is the heap, "layers" the tree's map from roots.  The *)
(* slots of an account in a diff layer are a map of their own, which       *)
(* flatten may leave shared by two layers: "maps" holds them.  A key is an *)
(* account with a slot, 0 for the account itself; the value 0 stands for   *)
(* an empty one.  The marker of the generator is the place of the last key *)
(* it covered: 0 at the start, Done once nothing is left.                  *)
(***************************************************************************)
EXTENDS Integers, Sequences, SequencesExt, FiniteSets, TLC

CONSTANTS
    Genesis,       \* the root of the first state, with nothing in it
    None,
    Settings       \* chains of blocks, and the bounds to explore each with

ASSUME SnapshotAssumption ==
    \A s \in Settings :
        /\ s.cap \in Nat \ {0}
        /\ \A r \in DOMAIN s.blocks : s.blocks[r].parent \in DOMAIN s.blocks \cup {Genesis}

VARIABLES
    setting,       \* one of them, for good
    t,             \* the tree and what it keeps on disk
    executed,      \* the roots of the blocks that ran, whose tries exist
    up, restarts,
    dangling       \* the slots that a flush cut short left on disk without their account

vars == <<setting, t, executed, up, restarts, dangling>>

Blocks == setting.blocks            \* state root -> [parent, destructs, data]: what its block changes
Account == setting.accounts         \* 1 .. n, in the order of their hashes
Slot == setting.slots               \* 1 .. n, in the order of their hashes
CapLayers == setting.cap            \* the diff layers a commit leaves: 128
MaxObjects == setting.objects       \* bound: layers ever made
MaxRestarts == setting.restarts     \* bound
MayFail == setting.fail             \* the process may crash
MayReset == setting.reset           \* Disable, Rebuild and the pruner may be called

Key == Account \X ({0} \cup Slot)
Place(k) == (k[1] - 1) * (Cardinality(Slot) + 1) + k[2] + 1
Done == Cardinality(Key) + 1
Err == -1

(* The state of a root, from the changes of its blocks.                    *)
RECURSIVE True(_)
True(r) ==
    IF r = Genesis THEN [k \in Key |-> 0]
    ELSE LET b == Blocks[r] IN
         [k \in Key |-> IF k \in DOMAIN b.data THEN b.data[k]
                        ELSE IF k[1] \in b.destructs THEN 0 ELSE True(b.parent)[k]]

-----------------------------------------------------------------------------
(* Layers.                                                                 *)
IsDiff(h, i) == h.obj[i].kind = "diff"
Stale(h, i) == h.obj[i].stale
Parent(h, i) == h.obj[i].parent
NextId(h) == Len(h.obj) + 1

diskLayer(root, marker, generating) ==
    [kind |-> "disk", root |-> root, stale |-> FALSE, marker |-> marker, generating |-> generating]

(* The accounts and slots of a diff layer, as the keys a bloom filter gets.*)
Destructed(a) == <<a, -1>>
Items(h, l) ==
    {Destructed(a) : a \in l.destructs} \cup {<<a, 0>> : a \in DOMAIN l.accounts}
        \cup UNION {{<<a, s>> : s \in DOMAIN h.maps[l.storage[a]]} : a \in DOMAIN l.storage}

Rebloomed(h, l, origin) ==
    [l EXCEPT !.origin = origin,
              !.diffed = Items(h, l) \cup (IF IsDiff(h, l.parent) THEN h.obj[l.parent].diffed ELSE {})]

(* newDiffLayer keeps the maps it is given.                                *)
newDiffLayer(h, parent, root, destructs, data) ==
    LET i       == NextId(h)
        storers == {k[1] : k \in {k \in DOMAIN data : k[2] # 0}}
        maps    == [id \in {<<i, a>> : a \in storers} |->
                        [s \in {s \in Slot : <<id[2], s>> \in DOMAIN data} |-> data[<<id[2], s>>]]]
        h1      == [h EXCEPT !.maps = maps @@ @]
        l       == [kind |-> "diff", root |-> root, parent |-> parent, origin |-> parent, stale |-> FALSE,
                    destructs |-> destructs, diffed |-> {},
                    accounts |-> [a \in {a \in Account : <<a, 0>> \in DOMAIN data} |-> data[<<a, 0>>]],
                    storage |-> [a \in storers |-> <<i, a>>]]
    IN  [h1 EXCEPT !.obj = Append(@, Rebloomed(h1, l, IF IsDiff(h, parent) THEN h.obj[parent].origin ELSE parent))]

(* flatten merges a layer into the lowest diff layer, which becomes stale; *)
(* a map of slots the parent lacks is taken over as it is.                 *)
(* Mutant: the slots a destructed account had below stay.                  *)
Merged_KeepsSlots(h, p, l) ==
    LET below == h.obj[p]
        both  == DOMAIN below.storage \cap DOMAIN l.storage
    IN  [below EXCEPT
            !.destructs = @ \cup l.destructs,
            !.accounts  = l.accounts @@ [a \in DOMAIN @ \ l.destructs |-> @[a]],
            !.storage   = [a \in both |-> @[a]] @@ l.storage @@ @]

Merged(h, p, l) ==
    LET below == h.obj[p]
        kept  == DOMAIN below.storage \ l.destructs
        both  == kept \cap DOMAIN l.storage
    IN  [below EXCEPT
            !.destructs = @ \cup l.destructs,
            !.accounts  = l.accounts @@ [a \in DOMAIN @ \ l.destructs |-> @[a]],
            !.storage   = [a \in both |-> @[a]] @@ l.storage @@ [a \in kept |-> @[a]]]

RECURSIVE Flatten(_, _)
Flatten(h, i) ==
    IF ~IsDiff(h, Parent(h, i)) THEN [h |-> h, id |-> i]
    ELSE LET low == Flatten(h, Parent(h, i))
             g   == low.h
             l   == g.obj[i]
             m   == Merged(g, low.id, l)
             written == [id \in {m.storage[a] : a \in {a \in DOMAIN l.storage : m.storage[a] # l.storage[a]}} |->
                            g.maps[l.storage[id[2]]] @@ g.maps[id]]
         IN  [h  |-> [g EXCEPT !.panicked = @ \/ Stale(g, low.id),
                               !.maps = written @@ @,
                               !.obj = Append([@ EXCEPT ![low.id] = [m EXCEPT !.stale = TRUE]],
                                              [m EXCEPT !.root = l.root, !.diffed = l.diffed, !.stale = FALSE])],
              id |-> NextId(g)]

-----------------------------------------------------------------------------
(* diffToDisk writes what the generator has covered: the destructed        *)
(* accounts go first, and their slots with them.                           *)
Writes(h, l) ==
    [k \in {<<a, 0>> : a \in DOMAIN l.accounts} \cup (Items(h, l) \cap (Account \X Slot)) |->
        IF k[2] = 0 THEN l.accounts[k[1]] ELSE h.maps[l.storage[k[1]]][k[2]]]

(* Mutant: the place the generator has come to counts as not covered.      *)
OnDisk_MidAccount(h, i) ==
    LET l    == h.obj[i]
        base == h.obj[l.parent]
        gone == {k \in Key : k[1] \in l.destructs /\ Place(<<k[1], 0>>) <= base.marker}
        new  == [k \in {k \in DOMAIN Writes(h, l) : Place(k) < base.marker} |-> Writes(h, l)[k]]
    IN  [data  |-> [k \in Key |-> IF k \in DOMAIN new THEN new[k] ELSE IF k \in gone THEN 0 ELSE h.db.data[k]],
         cache |-> new @@ [k \in {k \in gone : k[2] = 0} |-> 0]
                       @@ [k \in DOMAIN h.cache \ {k \in gone : h.db.data[k] # 0} |-> h.cache[k]]]

OnDisk(h, i) ==
    LET l    == h.obj[i]
        base == h.obj[l.parent]
        gone == {k \in Key : k[1] \in l.destructs /\ Place(<<k[1], 0>>) <= base.marker}
        new  == [k \in {k \in DOMAIN Writes(h, l) : Place(k) <= base.marker} |-> Writes(h, l)[k]]
    IN  [data  |-> [k \in Key |-> IF k \in DOMAIN new THEN new[k] ELSE IF k \in gone THEN 0 ELSE h.db.data[k]],
         cache |-> new @@ [k \in {k \in gone : k[2] = 0} |-> 0]
                       @@ [k \in DOMAIN h.cache \ {k \in gone : h.db.data[k] # 0} |-> h.cache[k]]]

(* What a crash may find of it.  Its first batches take the root and, one  *)
(* destructed account after the other, the account and its slots in order; *)
(* then come accounts.  The slots of the diff and the new root are in the  *)
(* last batch, which is whole.                                             *)
Cuts(h, i) ==
    LET l       == h.obj[i]
        marker  == h.obj[l.parent].marker
        doomed  == {a \in l.destructs : Place(<<a, 0>>) <= marker}
        written == {a \in DOMAIN l.accounts : Place(<<a, 0>>) <= marker}
        Removing(as, a, s) == [k \in Key |-> IF k[1] \in as \/ (k[1] = a /\ k[2] <= s) THEN 0 ELSE h.db.data[k]]
        Writing(as) == [k \in Key |-> IF k[2] = 0 /\ k[1] \in as THEN l.accounts[k[1]]
                                      ELSE IF k[1] \in doomed THEN 0 ELSE h.db.data[k]]
    IN  {Removing(as, k[1], k[2]) : as \in SUBSET doomed, k \in {k \in doomed \X Slot : h.db.data[k] # 0}}
            \cup {Writing(as) : as \in SUBSET written \ {{}}}

diffToDisk(h, i) ==
    LET l    == h.obj[i]
        base == h.obj[l.parent]
        out  == OnDisk(h, i)
    IN  [h |-> [h EXCEPT !.panicked = @ \/ base.stale,
                         !.cache = out.cache,
                         !.db = [@ EXCEPT !.root = l.root, !.gen = base.marker, !.data = out.data],
                         !.obj = Append([@ EXCEPT ![l.parent].stale = TRUE],
                                        diskLayer(l.root, base.marker, base.generating /\ base.marker # Done))],
         id |-> NextId(h)]

-----------------------------------------------------------------------------
(* The tree.                                                               *)
DiffsOf(h) == {r \in DOMAIN h.layers : IsDiff(h, h.layers[r])}
Put(h, r, i) == [h EXCEPT !.layers = (r :> i) @@ @]

Update(h, root) ==
    LET b == Blocks[root] IN
    IF b.parent \notin DOMAIN h.layers THEN h
    ELSE Put(newDiffLayer(h, h.layers[b.parent], root, b.destructs, b.data), root, NextId(h))

(* cap dives to the last layer to keep and flattens what is below it; the  *)
(* result goes to the disk if it is large, or if the generator needs it.   *)
RECURSIVE Dive(_, _, _)
Dive(h, i, n) == IF n = 0 \/ ~IsDiff(h, i) THEN i ELSE Dive(h, Parent(h, i), n - 1)

capTree(h, i, n, large) ==
    LET d == Dive(h, i, n - 1) IN
    IF ~IsDiff(h, d) \/ ~IsDiff(h, Parent(h, d)) THEN [h |-> h, persisted |-> None]
    ELSE LET f  == Flatten(h, Parent(h, d))
             g  == [Put(f.h, f.h.obj[f.id].root, f.id) EXCEPT !.obj[d].parent = f.id]
             disk == g.obj[Parent(g, f.id)]
         IN  IF ~large /\ ~disk.generating THEN [h |-> g, persisted |-> None]
             ELSE LET w == diffToDisk(g, f.id) IN
                  [h |-> [Put(w.h, w.h.obj[w.id].root, w.id) EXCEPT !.obj[d].parent = w.id], persisted |-> w.id]

(* The roots in the tree that lead to one of the given roots.              *)
RECURSIVE Under(_, _)
Under(h, rs) ==
    LET more == {r \in DiffsOf(h) : h.obj[Parent(h, h.layers[r])].root \in rs} \ rs IN
    IF more = {} THEN rs ELSE Under(h, rs \cup more)

Pruned(h) ==
    [h EXCEPT !.layers = [r \in DOMAIN @ \ Under(h, {r \in DOMAIN @ : Stale(h, @[r])}) |-> @[r]]]

(* The blooms of the layers over a new disk layer, each after its parent.  *)
RECURSIVE Reblooms(_, _, _)
Reblooms(h, rs, origin) ==
    LET next == {r \in DiffsOf(h) : h.obj[Parent(h, h.layers[r])].root \in rs /\ r \notin rs}
        ids  == {h.layers[r] : r \in next}
    IN  IF next = {} THEN h
        ELSE Reblooms([h EXCEPT !.obj = [i \in DOMAIN @ |-> IF i \in ids THEN Rebloomed(h, @[i], origin) ELSE @[i]]],
                      next, origin)

(* Mutant: the layers keep the blooms and the disk layer they had.         *)
Cap_KeepsBlooms(h, root, large) ==
    IF root \notin DiffsOf(h) THEN h ELSE Pruned(capTree(h, h.layers[root], CapLayers, large).h)

Cap(h, root, large) ==
    IF root \notin DiffsOf(h) THEN h
    ELSE LET c == capTree(h, h.layers[root], CapLayers, large)
             p == Pruned(c.h)
         IN  IF c.persisted = None THEN p ELSE Reblooms(p, {p.obj[c.persisted].root}, c.persisted)

(* Cap with 0 layers: everything up to the root goes to the disk.          *)
CapAll(h, root) ==
    LET f == Flatten(h, h.layers[root])
        w == diffToDisk(f.h, f.id)
    IN  [w.h EXCEPT !.layers = (root :> w.id)]

(* Disable and Rebuild make every layer of the tree stale.                 *)
AllStale(h) ==
    [h EXCEPT !.obj = [i \in DOMAIN @ |-> IF \E r \in DOMAIN h.layers : h.layers[r] = i
                                           THEN [@[i] EXCEPT !.stale = TRUE] ELSE @[i]]]

Disable(h) ==
    [AllStale(h) EXCEPT !.layers = << >>,
                        !.db = [@ EXCEPT !.disabled = TRUE, !.root = None, !.journal = None, !.gen = None]]

Rebuild(h, root) ==
    [AllStale(h) EXCEPT !.layers = (root :> NextId(h)), !.cache = << >>,
                        !.db = [@ EXCEPT !.disabled = FALSE, !.root = root, !.gen = 0],
                        !.obj = Append(@, diskLayer(root, 0, TRUE))]

-----------------------------------------------------------------------------
(* Reads.  A miss in the bloom filter goes to the disk layer, anything     *)
(* else walks down the layers; a false hit walks as well.                  *)
DiskRead(h, i, k) ==
    IF Stale(h, i) \/ Place(k) > h.obj[i].marker THEN Err
    ELSE IF k \in DOMAIN h.cache THEN h.cache[k] ELSE h.db.data[k]

RECURSIVE Walk(_, _, _)
Walk(h, i, k) ==
    IF ~IsDiff(h, i) THEN DiskRead(h, i, k)
    ELSE LET l == h.obj[i] IN
         IF l.stale THEN Err
         ELSE IF k[2] = 0 /\ k[1] \in DOMAIN l.accounts THEN l.accounts[k[1]]
         ELSE IF k[2] # 0 /\ k[1] \in DOMAIN l.storage /\ k[2] \in DOMAIN h.maps[l.storage[k[1]]]
         THEN h.maps[l.storage[k[1]]][k[2]]
         ELSE IF k[1] \in l.destructs THEN 0 ELSE Walk(h, l.parent, k)

Reads(h, i, k) ==
    {Walk(h, i, k)}
        \cup IF IsDiff(h, i) /\ k \notin h.obj[i].diffed /\ Destructed(k[1]) \notin h.obj[i].diffed
             THEN {DiskRead(h, h.obj[i].origin, k)} ELSE {}

-----------------------------------------------------------------------------
(* The journal and the start.                                              *)
RECURSIVE Chain(_, _)
Chain(h, i) == IF IsDiff(h, i) THEN Append(Chain(h, Parent(h, i)), i) ELSE <<i>>

(* Journal writes the disk layer's root and the diffs up to a root, unless *)
(* one of them is stale.                                                   *)
Entry(h, i) == [root |-> h.obj[i].root, destructs |-> h.obj[i].destructs, data |-> Writes(h, h.obj[i])]
Journal(h, root) ==
    LET ids == Chain(h, h.layers[root]) IN
    IF \E n \in DOMAIN ids : Stale(h, ids[n]) THEN h
    ELSE [h EXCEPT !.db.gen = h.obj[Head(ids)].marker,
                   !.db.journal = [root |-> h.obj[Head(ids)].root,
                                   diffs |-> [n \in 1 .. Len(ids) - 1 |-> Entry(h, ids[n + 1])]]]

(* A journal of another disk layer's root is not applied.                  *)
Loaded(db) ==
    LET base  == [obj |-> <<diskLayer(db.root, db.gen, db.gen # Done)>>, maps |-> << >>, layers |-> (db.root :> 1),
                  cache |-> << >>, db |-> db, panicked |-> FALSE]
        diffs == IF db.journal = None \/ db.journal.root # db.root THEN <<>> ELSE db.journal.diffs
    IN  FoldLeft(LAMBDA h, e : Put(newDiffLayer(h, Len(h.obj), e.root, e.destructs, e.data), e.root, NextId(h)),
                 base, diffs)

Empty(db) == [obj |-> <<>>, maps |-> << >>, layers |-> << >>, cache |-> << >>, db |-> db, panicked |-> FALSE]

New(db, root, recovery) ==
    IF db.disabled THEN Empty(db)
    ELSE IF db.root = None \/ db.gen = None THEN Rebuild(Empty(db), root)
    ELSE LET h == Loaded(db) IN
         IF h.obj[Len(h.obj)].root # root /\ ~recovery THEN Rebuild(Empty(db), root) ELSE h

-----------------------------------------------------------------------------
(* The database has no snapshot, or a complete one of the first state.     *)
Init ==
    /\ setting \in Settings
    /\ \E r \in {None, Genesis} :
         t = New([root |-> r, gen |-> IF r = None THEN None ELSE Done, journal |-> None, disabled |-> FALSE,
                  data |-> [k \in Key |-> 0]], Genesis, FALSE)
    /\ executed = {Genesis}
    /\ up = TRUE
    /\ restarts = 0
    /\ dangling = {}

Room == Len(t.obj) + 3 <= MaxObjects

(* StateDB.Commit: a state opened on a layer adds its own on top of it.  A *)
(* state opened before the tree dropped that layer leaves the tree alone.  *)
(* A block that ran is not run again while the tree has its layer.         *)
Commit(root, large) ==
    /\ up /\ Room
    /\ Blocks[root].parent \in executed /\ root \notin DOMAIN t.layers
    /\ executed' = executed \cup {root}
    /\ t' = Cap(Update(t, root), root, large)
    /\ UNCHANGED <<setting, up, restarts, dangling>>

(* generateRange visits the accounts that are in the trie or on disk, and  *)
(* with an account its slots: they become what the trie has.  The slots of *)
(* an account that is in neither are not looked at.                        *)
Visited(data, root) == {a \in Account : True(root)[<<a, 0>>] # 0 \/ data[<<a, 0>>] # 0}

(* generate: a batch is flushed with the place it has come to, an account  *)
(* or a slot of the trie, or at the end.                                   *)
Generate(i, p) ==
    /\ up /\ ~Stale(t, i) /\ ~IsDiff(t, i)
    /\ t.obj[i].generating /\ t.obj[i].marker < p
    /\ p = Done \/ \E k \in Key : Place(k) = p /\ True(t.obj[i].root)[k] # 0
    /\ t' = [t EXCEPT !.obj[i].marker = p,
                      !.db.gen = p,
                      !.db.data = [k \in Key |-> IF /\ Place(k) > t.obj[i].marker /\ Place(k) <= p
                                                    /\ k[1] \in Visited(@, t.obj[i].root)
                                                 THEN True(t.obj[i].root)[k] ELSE @[k]]]
    /\ UNCHANGED <<setting, executed, up, restarts, dangling>>

(* A read of the disk layer leaves its answer in the cache.                *)
Fill(i, k) ==
    /\ up /\ ~IsDiff(t, i) /\ DiskRead(t, i, k) # Err /\ k \notin DOMAIN t.cache
    /\ t' = [t EXCEPT !.cache = (k :> t.db.data[k]) @@ @]
    /\ UNCHANGED <<setting, executed, up, restarts, dangling>>

(* The pruner's cap, the downloader's Disable, the Rebuild at the end of a *)
(* sync.                                                                   *)
Reset(root) ==
    /\ MayReset /\ up /\ Room
    /\ \/ root \in DiffsOf(t) /\ t' = CapAll(t, root)
       \/ t.layers # << >> /\ t' = Disable(t)
       \/ root \in executed /\ t' = Rebuild(t, root)
    /\ UNCHANGED <<setting, executed, up, restarts, dangling>>

(* BlockChain.Stop journals the head's layers.                             *)
Shutdown(root) ==
    /\ up /\ restarts < MaxRestarts
    /\ root \in DOMAIN t.layers
    /\ t' = Empty(Journal(t, root).db)
    /\ up' = FALSE
    /\ UNCHANGED <<setting, executed, restarts, dangling>>

(* A crash keeps what the database has.                                    *)
Crash ==
    /\ MayFail /\ up /\ restarts < MaxRestarts
    /\ t' = Empty(t.db)
    /\ up' = FALSE
    /\ UNCHANGED <<setting, executed, restarts, dangling>>

(* A crash in diffToDisk: some of its batches were written, the first of   *)
(* them with the removal of the root.                                      *)
CrashInFlush(root) ==
    /\ MayFail /\ up /\ restarts < MaxRestarts
    /\ root \in DiffsOf(t)
    /\ LET i == t.layers[root] IN
       /\ ~IsDiff(t, Parent(t, i)) /\ ~Stale(t, Parent(t, i))
       /\ \E data \in Cuts(t, i) :
            /\ t' = Empty([t.db EXCEPT !.root = None, !.data = data])
            /\ dangling' = dangling \cup {k \in Account \X Slot : data[k] # 0 /\ data[<<k[1], 0>>] = 0}
    /\ up' = FALSE
    /\ UNCHANGED <<setting, executed, restarts>>

(* NewBlockChain opens the snapshot on the root of the head it found.      *)
Start(root, recovery) ==
    /\ ~up /\ root \in executed
    /\ t' = New(t.db, root, recovery)
    /\ up' = TRUE /\ restarts' = restarts + 1
    /\ UNCHANGED <<setting, executed, dangling>>

Roots == DOMAIN Blocks \cup {Genesis}

Next ==
    \/ \E r \in DOMAIN Blocks, large \in BOOLEAN : Commit(r, large)
    \/ \E i \in DOMAIN t.obj, p \in 1 .. Done : Generate(i, p)
    \/ \E i \in DOMAIN t.obj, k \in Key : Fill(i, k)
    \/ \E r \in Roots : Reset(r) \/ Shutdown(r)
    \/ Crash
    \/ \E r \in Roots : CrashInFlush(r)
    \/ \E r \in Roots, recovery \in BOOLEAN : Start(r, recovery)

Spec == Init /\ [][Next]_vars

-----------------------------------------------------------------------------
(* Whatever layer of the tree a state is opened on, a read returns the     *)
(* value its root stands for or an error: through the bloom filters, the   *)
(* flattened layers, the cache and the part the generator has covered.     *)
(* Left out are slots that a crash in diffToDisk separated from their      *)
(* account: no generator finds them, and a new account would read them.    *)
ReadsAreTrue ==
    \A r \in DOMAIN t.layers : \A k \in Key \ dangling : Reads(t, t.layers[r], k) \subseteq {Err, True(r)[k]}

(* The tree has one disk layer, which is live, and every layer's misses go *)
(* to it.  No layer is flattened into twice: flatten and diffToDisk find   *)
(* what they merge into still live and do not panic.                       *)
OneDiskLayer ==
    /\ ~t.panicked
    /\ t.layers # << >> =>
        \E r \in DOMAIN t.layers :
            /\ ~IsDiff(t, t.layers[r]) /\ ~Stale(t, t.layers[r])
            /\ \A q \in DOMAIN t.layers \ {r} : IsDiff(t, t.layers[q]) /\ t.obj[t.layers[q]].origin = t.layers[r]

(* What the database says it covers is the state of its root, also when    *)
(* the process is down: a crash in the middle of a flush takes the root    *)
(* with it, and the generator repairs what was written, but for the slots  *)
(* that were separated from their account.                                 *)
DiskIsTrue ==
    (t.db.root # None /\ t.db.gen # None) =>
        \A k \in Key \ dangling : Place(k) <= t.db.gen => t.db.data[k] = True(t.db.root)[k]
=============================================================================
