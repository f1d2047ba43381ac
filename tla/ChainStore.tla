----------------------------- MODULE ChainStore -----------------------------
(***************************************************************************)
(* The durable chain store (storage.cpp) as TestnetChain (chain.cpp) uses  *)
(* it: an append-only block file, block-index and UTXO files numbered by   *)
(* generation, and a manifest that names the committed generation.         *)
(*                                                                         *)
(* Proc is the set of processes that open the same data directory: the     *)
(* daemon and the one-shot commands of main.cpp.  Within one process the   *)
(* node's data mutex already serialises the users of the store, so a       *)
(* process runs one operation at a time: load, choose a new tip, commit.   *)
(* Every system call of commit that changes a file is a step of its own,   *)
(* and between two steps the process may die, the machine may lose power,  *)
(* the call may fail, or a file may be damaged on disk.                    *)
(*                                                                         *)
(* A chain is named by its tip (see BlockTree); the UTXO set is a          *)
(* function of the chain, so a UTXO file is named by the tip it was built  *)
(* for.  A checksum is modelled by the content it was computed from.       *)
(***************************************************************************)
EXTENDS BlockTree, Integers, Sequences

CONSTANTS
    Proc,           \* processes that share the data directory
    Torn,           \* a record of which only a prefix was written
    Damaged,        \* content that fails its checksum or does not parse
    MaxGeneration,  \* bound on generation numbers (uint64 in the code)
    MaxKills,       \* bound on killed processes and failed commits
    MaxLosses,      \* bound on power losses
    MaxDamage       \* bound on files damaged on disk

Generation == 1..MaxGeneration

\* What a block-index file says: the tip and the offset of every chain block
\* (the position of its record; 0 for a block that is not in the chain).
IndexFile == [tip : Block, at : [Block -> Nat]]

\* The manifest: the committed generation and the checksum of its index file.
\* The checksum of the UTXO file is determined by the tip.
Manifest == [gen : Generation, index : IndexFile]

ASSUME MarkerAssumption ==
    /\ None # Damaged /\ Torn # Damaged /\ None \notin Proc
    /\ {Torn, Damaged} \cap Block = {}
    /\ {None, Damaged} \cap (IndexFile \cup Manifest) = {}

ASSUME BoundAssumption ==
    /\ MaxGeneration \in Nat /\ MaxKills \in Nat
    /\ MaxLosses \in Nat /\ MaxDamage \in Nat

VARIABLES
    blockFile,  \* blk00000.dat: the sequence of its records
    synced,     \* how many records the last fsync of the block file covers
    index,      \* index[g]: block-index file of generation g
    utxo,       \* utxo[g]: UTXO file of generation g
    manifest,   \* the manifest file
    lock,       \* which process holds the flock on chainstate/LOCK
    pc,         \* pc[p]: where process p is
    tip,        \* tip[p]: the chain p has in memory (blocks_), None if none
    todo,       \* todo[p]: blocks p still has to append
    draft,      \* draft[p]: the manifest p is about to publish
    kills, losses, damage   \* faults so far

files == <<blockFile, synced, index, utxo, manifest>>
faults == <<kills, losses, damage>>
vars == <<files, lock, pc, tip, todo, draft, faults>>

-----------------------------------------------------------------------------
(* Reading the files.                                                      *)

\* scan_catalog walks the block file from its start: a damaged record of the
\* right length is skipped, but an incomplete record ends the walk, because
\* the bytes after it no longer start on a record boundary.
Scanned(i) == \A j \in 1..i : blockFile[j] # Torn

\* Write record r at the end of the file.  What lies behind an incomplete record
\* is never read again, so it is not represented.
WriteAtEnd(r) == IF \E i \in DOMAIN blockFile : blockFile[i] = Torn
                 THEN blockFile ELSE Append(blockFile, r)

\* The blocks scan_catalog finds.
Catalog == {b \in Block : \E i \in DOMAIN blockFile : Scanned(i) /\ blockFile[i] = b}

\* Where scan_catalog finds block b: the first record for a hash wins.
Position(b) ==
    CHOOSE i \in DOMAIN blockFile :
        /\ Scanned(i) /\ blockFile[i] = b
        /\ \A j \in 1..(i - 1) : blockFile[j] # b

\* load_indexed_chain succeeds: every indexed record is there, passes its
\* checksum and holds the block the index names.
Readable(ix) ==
    \A b \in Chain[ix.tip] :
        ix.at[b] \in DOMAIN blockFile /\ blockFile[ix.at[b]] = b

ManifestIntact == manifest \notin {None, Damaged}

\* load_manifest_generation succeeds for the manifest on disk.
ManifestLoads ==
    /\ ManifestIntact
    /\ index[manifest.gen] = manifest.index
    /\ utxo[manifest.gen] = manifest.index.tip
    /\ Readable(manifest.index)

\* available_generations: both files exist, in whatever condition.
Available == {g \in Generation : index[g] # None /\ utxo[g] # None}

\* Generations the recovery scan of load can use: only the index is read.
Recoverable == {g \in Available : index[g] # Damaged /\ Readable(index[g])}

Newest(G) == CHOOSE g \in G : \A h \in G : h <= g

Exists ==
    \/ manifest # None
    \/ Available # {} /\ blockFile # <<>>

\* The tip that a load returns now, None if it fails.
LoadTip ==
    IF ManifestLoads THEN manifest.index.tip
    ELSE IF Recoverable # {} THEN index[Newest(Recoverable)].tip
    ELSE None

\* Mutant: the committed generation is written over.
NextGenerationReused ==
    IF ManifestIntact THEN manifest.gen
    ELSE IF Available # {} THEN Newest(Available) + 1
    ELSE 1

\* The number commit gives to the next generation.
NextGeneration ==
    IF ManifestIntact THEN manifest.gen + 1
    ELSE IF Available # {} THEN Newest(Available) + 1
    ELSE 1

\* Mutant: cleanup keeps the current generation only.
OldOrPrevious(g) == {h \in Available : h # g}

\* cleanup_old_generations keeps the current generation and its predecessor.
Old(g) == {h \in Available : h # g /\ h + 1 # g}

-----------------------------------------------------------------------------
Init ==
    /\ blockFile = <<>> /\ synced = 0
    /\ index = [g \in Generation |-> None]
    /\ utxo = [g \in Generation |-> None]
    /\ manifest = None
    /\ lock = None
    /\ pc = [p \in Proc |-> "idle"]
    /\ tip = [p \in Proc |-> None]
    /\ todo = [p \in Proc |-> {}]
    /\ draft = [p \in Proc |-> None]
    /\ kills = 0 /\ losses = 0 /\ damage = 0

Goto(p, label) == pc' = [pc EXCEPT ![p] = label]

\* Bound of the model on the commits that add to the chain: generations are
\* kept in reserve for the processes under way and for the recovery from every
\* fault still to come, so that the bound never stops an operation half way.
RoomForCommit ==
    NextGeneration + Cardinality(Proc) + MaxKills + MaxLosses + MaxDamage <= MaxGeneration + 1

\* The chain in memory is now the one that ends in b, and p calls save.
StartCommit(p, b) ==
    /\ Goto(p, "commit")
    /\ tip' = [tip EXCEPT ![p] = b]
    /\ UNCHANGED <<files, lock, todo, draft, faults>>

\* p is done with its TestnetChain object, or an exception has ended the
\* operation, or the process is gone.
Drop(p) ==
    /\ Goto(p, "idle")
    /\ tip' = [tip EXCEPT ![p] = None]
    /\ todo' = [todo EXCEPT ![p] = {}]
    /\ draft' = [draft EXCEPT ![p] = None]

(* Operations of TestnetChain up to the call of commit.                    *)

\* initialize on a directory that holds no store: the genesis chain is saved.
\* The test for a store is made without the lock.
InitializeFresh(p) ==
    /\ pc[p] = "idle"
    /\ ~Exists
    /\ StartCommit(p, Genesis)

\* load, under the lock.  A chain that had to be recovered from an index file
\* has no UTXO snapshot; unless it is the genesis chain, whose UTXO set is
\* empty anyway, it is saved again after the lock has been given back.
Load(p) ==
    /\ pc[p] = "idle"
    /\ Exists
    /\ lock = None
    /\ LoadTip # None
    /\ IF ManifestLoads \/ LoadTip = Genesis
       THEN /\ Goto(p, "loaded")
            /\ tip' = [tip EXCEPT ![p] = LoadTip]
            /\ UNCHANGED <<files, lock, todo, draft, faults>>
       ELSE StartCommit(p, LoadTip)

\* The operation ends and its TestnetChain object is dropped.
Close(p) ==
    /\ pc[p] = "loaded"
    /\ Drop(p)
    /\ UNCHANGED <<files, lock, faults>>

\* append_blocks: the node passes one block, and it must extend the tip.
AppendBlocks(p, b) ==
    /\ pc[p] = "loaded"
    /\ RoomForCommit
    /\ b \notin Chain[tip[p]]
    /\ Chain[b] = Chain[tip[p]] \cup {b}
    /\ StartCommit(p, b)

\* Mutant: a candidate chain is activated whatever its work.
ActivateAny(p, b) ==
    /\ pc[p] = "loaded"
    /\ RoomForCommit
    /\ StartCommit(p, b)

\* activate_if_more_work: a candidate chain needs strictly more work than the
\* chain in memory.
Activate(p, b) ==
    /\ pc[p] = "loaded"
    /\ RoomForCommit
    /\ Work(b) > Work(tip[p])
    /\ StartCommit(p, b)

\* generate: any number of new blocks on top of the tip, saved together.
Generate(p, b) ==
    /\ pc[p] = "loaded"
    /\ RoomForCommit
    /\ b # tip[p]
    /\ tip[p] \in Chain[b]
    /\ StartCommit(p, b)

\* reindex: the heaviest complete chain among the records of the block file,
\* which is read without the lock; of equal ones, any (hash order decides).
Reindex(p) ==
    /\ pc[p] = "idle"
    /\ RoomForCommit
    /\ LET complete == {b \in Catalog : Chain[b] \subseteq Catalog}
       IN \E b \in complete :
            /\ \A c \in complete : Work(c) <= Work(b)
            /\ StartCommit(p, b)

(* The steps of commit.                                                    *)

\* Mutant: commit does not take the lock.
CommitBeginUnlocked(p) ==
    /\ pc[p] = "commit"
    /\ todo' = [todo EXCEPT ![p] = Chain[tip[p]] \ Catalog]
    /\ Goto(p, "append")
    /\ UNCHANGED <<files, lock, tip, draft, faults>>

\* Take the lock and scan the catalog for the blocks that are not stored yet.
CommitBegin(p) ==
    /\ pc[p] = "commit"
    /\ lock = None
    /\ lock' = p
    /\ todo' = [todo EXCEPT ![p] = Chain[tip[p]] \ Catalog]
    /\ Goto(p, "append")
    /\ UNCHANGED <<files, tip, draft, faults>>

\* Append the record of the lowest missing block at the end of the file.
AppendRecord(p) ==
    /\ pc[p] \in {"append", "dirty"}
    /\ \E b \in todo[p] :
        /\ \A c \in todo[p] : Work(b) <= Work(c)
        /\ blockFile' = WriteAtEnd(b)
        /\ todo' = [todo EXCEPT ![p] = @ \ {b}]
    /\ Goto(p, "dirty")
    /\ UNCHANGED <<synced, index, utxo, manifest, lock, tip, draft, faults>>

\* Mutant: the block file is not synced before the index is built.
SkipSync(p) ==
    /\ pc[p] \in {"append", "dirty"}
    /\ todo[p] = {}
    /\ Goto(p, "index")
    /\ UNCHANGED <<files, lock, tip, todo, draft, faults>>

\* fsync the block file, if this commit appended to it.
SyncBlockFile(p) ==
    /\ pc[p] \in {"append", "dirty"}
    /\ todo[p] = {}
    /\ synced' = IF pc[p] = "dirty" THEN Len(blockFile) ELSE synced
    /\ Goto(p, "index")
    /\ UNCHANGED <<blockFile, index, utxo, manifest, lock, tip, todo, draft, faults>>

\* manifest_for_generation scans the catalog again and finds every block of
\* the chain in it; the index file of the new generation is replaced.
WriteIndex(p) ==
    /\ pc[p] = "index"
    /\ Chain[tip[p]] \subseteq Catalog
    /\ NextGeneration \in Generation
    /\ LET ix == [tip |-> tip[p],
                  at |-> [b \in Block |-> IF b \in Chain[tip[p]] THEN Position(b) ELSE 0]]
       IN /\ index' = [index EXCEPT ![NextGeneration] = ix]
          /\ draft' = [draft EXCEPT ![p] = [gen |-> NextGeneration, index |-> ix]]
    /\ Goto(p, "utxo")
    /\ UNCHANGED <<blockFile, synced, utxo, manifest, lock, tip, todo, faults>>

\* Mutant: a missing block is appended once more, under the same lock.
BlockMissingRetries(p) ==
    /\ pc[p] = "index"
    /\ ~(Chain[tip[p]] \subseteq Catalog)
    /\ todo' = [todo EXCEPT ![p] = Chain[tip[p]] \ Catalog]
    /\ Goto(p, "append")
    /\ UNCHANGED <<files, lock, tip, draft, faults>>

\* manifest_for_generation misses a block of the chain in the second scan:
\* "Committed block is missing from append-only block store".
BlockMissing(p) ==
    /\ pc[p] = "index"
    /\ ~(Chain[tip[p]] \subseteq Catalog)
    /\ Drop(p)
    /\ lock' = None
    /\ UNCHANGED <<files, faults>>

\* Mutant: the snapshot is named by the height of the tip, not by its hash.
WriteUtxoByHeight(p) ==
    /\ pc[p] = "utxo"
    /\ utxo' = [utxo EXCEPT ![draft[p].gen] = Work(tip[p])]
    /\ Goto(p, "manifest")
    /\ UNCHANGED <<blockFile, synced, index, manifest, lock, tip, todo, draft, faults>>

\* The UTXO file of the new generation is replaced.
WriteUtxo(p) ==
    /\ pc[p] = "utxo"
    /\ utxo' = [utxo EXCEPT ![draft[p].gen] = tip[p]]
    /\ Goto(p, "manifest")
    /\ UNCHANGED <<blockFile, synced, index, manifest, lock, tip, todo, draft, faults>>

\* The commit point: the manifest is replaced, always last.
WriteManifest(p) ==
    /\ pc[p] = "manifest"
    /\ manifest' = draft[p]
    /\ Goto(p, "cleanup")
    /\ UNCHANGED <<blockFile, synced, index, utxo, lock, tip, todo, draft, faults>>

\* cleanup_old_generations, and the lock is given back.  Each remove may fail
\* unnoticed, so any part of the old files may stay; that also covers removals
\* that a power loss undoes before the directory is synced.
Cleanup(p) ==
    /\ pc[p] = "cleanup"
    /\ \E I \in SUBSET Old(draft[p].gen), U \in SUBSET Old(draft[p].gen) :
        /\ index' = [g \in Generation |-> IF g \in I THEN None ELSE index[g]]
        /\ utxo' = [g \in Generation |-> IF g \in U THEN None ELSE utxo[g]]
    /\ lock' = None
    /\ Goto(p, "loaded")
    /\ draft' = [draft EXCEPT ![p] = None]
    /\ UNCHANGED <<blockFile, synced, manifest, tip, todo, faults>>

-----------------------------------------------------------------------------
(* Faults.                                                                 *)

Holding == {"append", "dirty", "index", "utxo", "manifest", "cleanup"}

\* p is writing a record.
Appending(p) == pc[p] \in {"append", "dirty"} /\ todo[p] # {}

\* Process p is killed, or a system call of its commit fails (disk full, I/O
\* error) and the exception ends the operation.  atomic_write leaves the old
\* file in place; the block file keeps what was written of the record.
Kill(p) ==
    /\ pc[p] # "idle"
    /\ kills < MaxKills
    /\ kills' = kills + 1
    /\ \/ UNCHANGED blockFile
       \/ Appending(p) /\ blockFile' = WriteAtEnd(Torn)
    /\ lock' = IF lock = p THEN None ELSE lock
    /\ Drop(p)
    /\ UNCHANGED <<synced, index, utxo, manifest, losses, damage>>

\* The machine loses power: every process is gone.  Of the records that no
\* fsync covers only the first few survive; behind them there may be a prefix
\* of a record, or a record whose length reached the disk before its data.
\* The other files were synced before they were renamed.
PowerLoss ==
    /\ losses < MaxLosses
    /\ losses' = losses + 1
    /\ \/ \E k \in synced..Len(blockFile) : blockFile' = SubSeq(blockFile, 1, k)
       \/ \E k \in synced..(Len(blockFile) - 1), r \in {Torn, Damaged} :
            blockFile' = Append(SubSeq(blockFile, 1, k), r)
       \/ /\ \E p \in Proc : Appending(p)
          /\ \E r \in {Torn, Damaged} : blockFile' = WriteAtEnd(r)
    /\ synced' = Len(blockFile')
    /\ lock' = None
    /\ pc' = [p \in Proc |-> "idle"]
    /\ tip' = [p \in Proc |-> None]
    /\ todo' = [p \in Proc |-> {}]
    /\ draft' = [p \in Proc |-> None]
    /\ UNCHANGED <<index, utxo, manifest, kills, damage>>

\* A file is damaged on disk (what the checksums and the recovery are for).
Damage ==
    /\ damage < MaxDamage
    /\ damage' = damage + 1
    /\ \/ /\ manifest # None
          /\ manifest' = Damaged
          /\ UNCHANGED <<blockFile, index, utxo>>
       \/ \E g \in Generation :
            /\ index[g] # None
            /\ index' = [index EXCEPT ![g] = Damaged]
            /\ UNCHANGED <<blockFile, utxo, manifest>>
       \/ \E g \in Generation :
            /\ utxo[g] # None
            /\ utxo' = [utxo EXCEPT ![g] = Damaged]
            /\ UNCHANGED <<blockFile, index, manifest>>
       \/ \E i \in DOMAIN blockFile :
            /\ blockFile[i] \in Block
            /\ blockFile' = [blockFile EXCEPT ![i] = Damaged]
            /\ UNCHANGED <<index, utxo, manifest>>
    /\ UNCHANGED <<synced, lock, pc, tip, todo, draft, kills, losses>>

-----------------------------------------------------------------------------
CommitStep(p) ==
    \/ CommitBegin(p)
    \/ AppendRecord(p)
    \/ SyncBlockFile(p)
    \/ WriteIndex(p)
    \/ BlockMissing(p)
    \/ WriteUtxo(p)
    \/ WriteManifest(p)
    \/ Cleanup(p)

Operation(p) ==
    \/ InitializeFresh(p)
    \/ Load(p)
    \/ Close(p)
    \/ Reindex(p)
    \/ \E b \in Block : AppendBlocks(p, b) \/ Activate(p, b) \/ Generate(p, b)

Next ==
    \/ \E p \in Proc : Operation(p) \/ CommitStep(p) \/ Kill(p)
    \/ PowerLoss
    \/ Damage

Spec == Init /\ [][Next]_vars

\* A process keeps executing the commit it has begun: its steps are straight-
\* line code.  flock does not promise fairness, so no process is promised the
\* lock because it is free again and again.
FairSpec == Spec /\ \A p \in Proc : WF_vars(CommitStep(p))

-----------------------------------------------------------------------------
TypeOK ==
    /\ blockFile \in Seq(Block \cup {Torn, Damaged})
    /\ synced \in Nat /\ synced <= Len(blockFile)
    /\ index \in [Generation -> IndexFile \cup {None, Damaged}]
    /\ utxo \in [Generation -> Block \cup {None, Damaged}]
    /\ manifest \in Manifest \cup {None, Damaged}
    /\ lock \in Proc \cup {None}
    /\ pc \in [Proc -> Holding \cup {"idle", "loaded", "commit"}]
    /\ tip \in [Proc -> Block \cup {None}]
    /\ todo \in [Proc -> SUBSET Block]
    /\ draft \in [Proc -> Manifest \cup {None}]
    /\ kills \in 0..MaxKills /\ losses \in 0..MaxLosses /\ damage \in 0..MaxDamage

\* No committed chain is ever lost to a crash in the middle of a commit: as
\* long as nothing was damaged on disk, and processes were killed or the
\* machine lost power but not both, load finds the manifest, the index and the
\* UTXO file of the committed generation consistent and every block of the
\* chain readable.  (Killed processes and power losses together are the
\* subject of ManifestDurable.)
CommittedLoadable ==
    damage = 0 /\ (kills = 0 \/ losses = 0) /\ manifest # None => ManifestLoads

\* "commit point: manifest is always last" (storage.cpp): every record that the
\* manifest reaches has been synced before the manifest is published.  A process
\* that is killed between append and fsync breaks this: the next commit finds its
\* record in the catalog, appends nothing and therefore syncs nothing.
ManifestDurable ==
    damage = 0 /\ kills = 0 /\ ManifestIntact =>
        \A b \in Chain[manifest.index.tip] : manifest.index.at[b] <= synced

\* The strengthening that makes CommittedLoadable inductive.

\* Only the process that holds the lock is inside commit, and from WriteIndex
\* on it knows the manifest that it is going to publish.
PhaseInv ==
    \A p \in Proc :
        /\ pc[p] \in Holding => lock = p
        /\ pc[p] # "idle" => tip[p] \in Block
        /\ pc[p] \in {"utxo", "manifest", "cleanup"} =>
            /\ draft[p] \in Manifest
            /\ draft[p].index.tip = tip[p]

\* If no commit was ever cut short, all records are synced but those of a
\* commit that is still appending.
SyncInv ==
    kills = 0 => \/ synced = Len(blockFile)
                 \/ \E p \in Proc : pc[p] = "dirty"

Sound == damage = 0 /\ (kills = 0 \/ losses = 0)

\* The chain of an index can be read back, now and after a power loss.
Stored(ix) ==
    /\ Readable(ix)
    /\ kills = 0 => \A b \in Chain[ix.tip] : ix.at[b] <= synced

\* The files of the committed generation are those that the manifest names.
ManifestInv ==
    Sound => /\ manifest # Damaged
             /\ manifest # None =>
                 /\ index[manifest.gen] = manifest.index
                 /\ utxo[manifest.gen] = manifest.index.tip
                 /\ Stored(manifest.index)

\* The files of the generation being written are complete up to the step that
\* the commit has reached, and they are not those of the committed one.
DraftInv ==
    Sound => \A p \in Proc :
        /\ pc[p] \in {"utxo", "manifest", "cleanup"} =>
            /\ index[draft[p].gen] = draft[p].index
            /\ Stored(draft[p].index)
        /\ pc[p] \in {"utxo", "manifest"} /\ manifest # None => draft[p].gen # manifest.gen
        /\ pc[p] \in {"manifest", "cleanup"} => utxo[draft[p].gen] = tip[p]
        /\ pc[p] = "cleanup" => manifest = draft[p]

IInv == TypeOK /\ PhaseInv /\ SyncInv /\ ManifestInv /\ DraftInv

\* At most one file was damaged, it was not the block file, and the machine did
\* not lose power.
Repairable ==
    /\ damage <= 1 /\ losses = 0
    /\ \A i \in DOMAIN blockFile : blockFile[i] # Damaged

\* One damaged chainstate file costs at most the newest generation.  Cleanup
\* keeps the predecessor of the committed generation, so once there is one, load
\* returns some chain; and unless the index of the committed generation is the
\* damaged file, it returns a chain with the work of the committed one.
OneDamageRecoverable ==
    Repairable =>
        /\ manifest = Damaged => LoadTip # None
        /\ ManifestIntact =>
            IF index[manifest.gen] = Damaged
            THEN manifest.gen > 1 => LoadTip # None
            ELSE Work(LoadTip) >= Work(manifest.index.tip)

\* The lock makes the scan of the catalog and the appends that follow from it
\* one unit: no two processes store the same block twice.
StoredOnce ==
    damage = 0 => \A i, j \in DOMAIN blockFile :
        Scanned(i) /\ Scanned(j) /\ blockFile[i] \in Block /\ blockFile[i] = blockFile[j]
            => i = j

\* The strengthening that makes StoredOnce inductive: what the process that
\* holds the lock still has to append is not stored.
OnceInv ==
    /\ StoredOnce
    /\ damage = 0 => \A p \in Proc :
            pc[p] \in {"append", "dirty"} => todo[p] \cap Catalog = {}

\* "interrupted tail is ignored" (storage.cpp): once a commit has appended and
\* synced its records, the scan that builds the index finds all of them.
InterruptedTailIgnored ==
    damage = 0 => \A p \in Proc : pc[p] = "index" => Chain[tip[p]] \subseteq Catalog

\* A commit ends, and with it its hold on the lock, whatever fails in between.
CommitEnds == \A p \in Proc : lock = p ~> lock # p

\* Seen through load, the store is the abstract durable chain: a commit takes
\* effect in one step, and a crash at any other step has no effect.  This ends with
\* damage on disk, or when a machine loses power on which a process was killed.
Durable == INSTANCE DurableChain WITH durable <- LoadTip
DurableChainSpec == Durable!Init /\ [][Sound' => Durable!Next]_LoadTip

-----------------------------------------------------------------------------
(* The strengthening for DurableChainSpec, when one process uses the store. *)

\* Nothing lies behind an incomplete record.
TailInv == \A i \in DOMAIN blockFile : blockFile[i] = Torn => i = Len(blockFile)

IntactInv ==
    damage = 0 => /\ manifest # Damaged
                  /\ \A g \in Generation : Damaged \notin {index[g], utxo[g]}

\* Before the first manifest the files of every generation can be used: none has
\* been removed, and an index file is written before the UTXO file.
FreshInv ==
    Sound /\ manifest = None => \A g \in Generation :
        /\ utxo[g] # None => index[g] # None
        /\ index[g] # None => Stored(index[g])

\* The chain that the files stand for when nothing is damaged.
Visible ==
    IF manifest # None THEN manifest.index.tip
    ELSE IF Available # {} THEN index[Newest(Available)].tip
    ELSE None

\* Until there is a chain to load, only the genesis block has been stored.
GenesisInv ==
    Sound /\ Visible = None =>
        \A i \in DOMAIN blockFile : blockFile[i] \in Block => blockFile[i] = Genesis

\* What the process has in memory is never behind what load would return, and
\* it is the same before a new tip is chosen.
TipInv ==
    Sound => \A p \in Proc :
        /\ pc[p] # "idle" => IF Visible = None THEN tip[p] = Genesis
                             ELSE Work(tip[p]) >= Work(Visible)
        /\ pc[p] = "loaded" => tip[p] = Visible
        /\ pc[p] \in {"append", "dirty"} => todo[p] \subseteq Chain[tip[p]]

\* Before the first manifest, the generation being written is the newest.
NumberInv ==
    Sound /\ manifest = None => \A p \in Proc :
        /\ pc[p] = "utxo" => \A h \in Available : h < draft[p].gen
        /\ pc[p] = "manifest" => /\ draft[p].gen \in Available
                                 /\ \A h \in Available : h <= draft[p].gen

AloneInv == TailInv /\ IntactInv /\ FreshInv /\ GenesisInv /\ TipInv /\ NumberInv

-----------------------------------------------------------------------------
(* The strengthening for OneDamageRecoverable, when one process uses the    *)
(* store.                                                                  *)

OneDamageInv ==
    damage <= 1 => \A g, h \in Generation :
        /\ manifest = Damaged => Damaged \notin {index[g], utxo[g]}
        /\ index[g] = Damaged => utxo[h] # Damaged
        /\ index[g] = Damaged /\ index[h] = Damaged => g = h

\* The files of the committed generation and of its predecessor are there, and
\* what is newer was left by at most one commit.
KeptInv ==
    Repairable =>
        /\ \A g \in Generation : index[g] \in IndexFile => Readable(index[g])
        /\ manifest # None => Available # {}
        /\ ManifestIntact =>
            /\ index[manifest.gen] \in {manifest.index, Damaged}
            /\ utxo[manifest.gen] \in {manifest.index.tip, Damaged}
            /\ Readable(manifest.index)
            /\ manifest.gen > 1 => manifest.gen - 1 \in Available
            /\ \A h \in Available : h <= manifest.gen + 1

\* The same for the generation that a commit is writing.
WrittenInv ==
    Repairable => \A p \in Proc : pc[p] \in {"utxo", "manifest", "cleanup"} =>
        /\ index[draft[p].gen] \in {draft[p].index, Damaged}
        /\ Readable(draft[p].index)
        /\ draft[p].gen > 1 => draft[p].gen - 1 \in Available
        /\ \A h \in Available : h <= draft[p].gen
        /\ pc[p] # "utxo" => utxo[draft[p].gen] \in {tip[p], Damaged}
        /\ pc[p] # "cleanup" /\ ManifestIntact => draft[p].gen = manifest.gen + 1
        /\ pc[p] = "cleanup" => manifest \in {draft[p], Damaged}

\* While the index of the committed generation is there, nothing that is newer,
\* on disk or in memory, has less work than the committed chain.
NewerInv ==
    Repairable /\ ManifestIntact =>
        \/ index[manifest.gen] = Damaged
        \/ /\ \A h \in Available : h > manifest.gen /\ index[h] # Damaged =>
                Work(index[h].tip) >= Work(manifest.index.tip)
           /\ \A p \in Proc : pc[p] # "idle" => Work(tip[p]) >= Work(manifest.index.tip)

RecoveryInv == OneDamageInv /\ KeptInv /\ WrittenInv /\ NewerInv
=============================================================================
