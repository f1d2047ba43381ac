------------------------- MODULE ChainStore_proofs --------------------------
(***************************************************************************)
(* Proofs about ChainStore, for every block tree, every number of          *)
(* processes and every bound on generations and faults.                    *)
(***************************************************************************)
EXTENDS ChainStore, SequenceTheorems, FiniteSetTheorems, WellFoundedInduction, TLAPS

-----------------------------------------------------------------------------
(* Choices made by the store.                                              *)

\* A set of natural numbers that is not empty has a least element.
LEMMA LeastExists ==
    ASSUME NEW S \in SUBSET Nat, S # {}
    PROVE  \E m \in S : \A n \in S : m <= n
<1>1. PICK m \in S : \A n \in S : <<n, m>> \notin OpToRel(<, Nat)
  BY WFMin, NatLessThanWellFounded
<1>2. \A n \in S : m <= n
  <2> TAKE n \in S
  <2>1. <<n, m>> \notin {ss \in Nat \X Nat : ss[1] < ss[2]}
    BY <1>1 DEF OpToRel
  <2> QED BY <2>1
<1> QED BY <1>2

\* Newest (the scan for the highest generation in load and commit) finds an
\* element of its argument, and none is higher.
LEMMA NewestIsLast ==
    ASSUME NEW G \in SUBSET Generation, G # {}
    PROVE  Newest(G) \in G /\ \A h \in G : h <= Newest(G)
<1> DEFINE S == {MaxGeneration - h : h \in G}
<1>1. S \in SUBSET Nat /\ S # {}
  <2>1. \A h \in G : MaxGeneration - h \in Nat
    BY BoundAssumption DEF Generation
  <2>2. S # {}
    OBVIOUS
  <2> QED BY <2>1, <2>2
<1> HIDE DEF S
<1>2. PICK m \in S : \A n \in S : m <= n
  BY <1>1, LeastExists
<1>3. PICK g \in G : m = MaxGeneration - g
  BY <1>2 DEF S
<1>4. ASSUME NEW h \in G PROVE h <= g
  <2>1. MaxGeneration - h \in S
    BY DEF S
  <2> QED BY <2>1, <1>2, <1>3, BoundAssumption DEF Generation
<1> QED BY <1>4 DEF Newest

\* Position finds a record of every block of the catalog.
LEMMA PositionFindsRecord ==
    ASSUME blockFile \in Seq(Block \cup {Torn, Damaged}), NEW b \in Catalog
    PROVE  Position(b) \in DOMAIN blockFile /\ blockFile[Position(b)] = b
<1> DEFINE S == {i \in DOMAIN blockFile : Scanned(i) /\ blockFile[i] = b}
<1>0. DOMAIN blockFile = 1..Len(blockFile) /\ Len(blockFile) \in Nat
  BY LenProperties
<1>1. S \in SUBSET Nat /\ S # {}
  BY <1>0 DEF Catalog
<1>2. PICK i \in S : \A n \in S : i <= n
  BY <1>1, LeastExists
<1>3. \A j \in 1..(i - 1) : blockFile[j] # b
  <2> SUFFICES ASSUME NEW j \in 1..(i - 1), blockFile[j] = b
               PROVE  FALSE
    OBVIOUS
  <2>1. i \in 1..Len(blockFile) /\ j \in 1..Len(blockFile) /\ j < i
    BY <1>0, <1>2
  <2>2. Scanned(j)
    BY <2>1, <1>2 DEF Scanned
  <2>3. j \in S
    BY <2>1, <2>2, <1>0
  <2> QED BY <2>1, <2>3, <1>2
<1> QED BY <1>2, <1>3 DEF Position

-----------------------------------------------------------------------------
(* Facts used by several steps of the invariance proof.                    *)

Publishing == {"utxo", "manifest", "cleanup"}

\* The lock excludes: one process at most is between taking and giving it back.
LEMMA Exclusive ==
    ASSUME PhaseInv, NEW p \in Proc, NEW q \in Proc,
           pc[p] \in Holding, pc[q] \in Holding
    PROVE  p = q
BY DEF PhaseInv

\* A step that touches no file and moves no process into or within the last
\* steps of commit keeps what the files promise.
LEMMA SameFiles ==
    ASSUME ManifestInv, DraftInv, UNCHANGED <<files, faults>>,
           \A q \in Proc : pc'[q] \in Publishing =>
                pc'[q] = pc[q] /\ draft'[q] = draft[q] /\ tip'[q] = tip[q]
    PROVE  ManifestInv' /\ DraftInv'
<1>1. ManifestInv'
  BY DEF ManifestInv, Sound, Stored, Readable, files, faults
<1>2. DraftInv'
  BY DEF DraftInv, Sound, Stored, Readable, Publishing, files, faults
<1> QED BY <1>1, <1>2

\* Every chain in memory before save: a process that is not in commit starts it.
LEMMA StartCommitStep ==
    ASSUME IInv, NEW p \in Proc, NEW b \in Block,
           pc[p] \in {"idle", "loaded"}, StartCommit(p, b)
    PROVE  IInv'
<1>1. TypeOK'
  BY DEF IInv, TypeOK, StartCommit, Goto, files, faults
<1>2. PhaseInv'
  BY DEF IInv, TypeOK, PhaseInv, StartCommit, Goto, Holding
<1>3. SyncInv'
  BY DEF IInv, TypeOK, SyncInv, StartCommit, Goto, files, faults
<1>4. ManifestInv' /\ DraftInv'
  <2>1. \A q \in Proc : pc'[q] \in Publishing =>
            pc'[q] = pc[q] /\ draft'[q] = draft[q] /\ tip'[q] = tip[q]
    BY DEF IInv, TypeOK, StartCommit, Goto, Publishing
  <2> QED BY <2>1, SameFiles DEF IInv, StartCommit
<1> QED BY <1>1, <1>2, <1>3, <1>4 DEF IInv

\* The initial state satisfies the invariant.
LEMMA InitIInv == Init => IInv
<1> SUFFICES ASSUME Init PROVE IInv
  OBVIOUS
<1>1. TypeOK
  BY EmptySeq, BoundAssumption DEF Init, TypeOK
<1>2. PhaseInv /\ SyncInv /\ ManifestInv /\ DraftInv
  <2>1. Len(<<>>) = 0
    BY EmptySeq
  <2> QED BY <2>1, MarkerAssumption DEF Init, PhaseInv, SyncInv, ManifestInv, DraftInv, Holding
<1> QED BY <1>1, <1>2 DEF IInv

-----------------------------------------------------------------------------
(* Operations up to the call of commit.                                    *)

\* A chain that load returns is a chain of valid blocks.
LEMMA LoadTipIsBlock ==
    ASSUME TypeOK, LoadTip # None
    PROVE  LoadTip \in Block
<1>1. CASE ManifestLoads
  BY <1>1 DEF TypeOK, ManifestLoads, ManifestIntact, LoadTip, Manifest, IndexFile
<1>2. CASE ~ManifestLoads
  <2>1. Recoverable # {} /\ LoadTip = index[Newest(Recoverable)].tip
    BY <1>2 DEF LoadTip
  <2>2. Newest(Recoverable) \in Recoverable /\ Recoverable \subseteq Generation
    <3>1. Recoverable \in SUBSET Generation
      BY DEF Recoverable, Available
    <3> QED BY <2>1, <3>1, NewestIsLast
  <2>3. index[Newest(Recoverable)] \in IndexFile
    BY <2>2 DEF TypeOK, Recoverable, Available
  <2> QED BY <2>1, <2>3 DEF IndexFile
<1> QED BY <1>1, <1>2

LEMMA LoadStep ==
    ASSUME IInv, NEW p \in Proc, Load(p)
    PROVE  IInv'
<1>1. LoadTip \in Block /\ pc[p] = "idle"
  BY LoadTipIsBlock DEF IInv, Load
<1>2. CASE StartCommit(p, LoadTip)
  BY <1>1, <1>2, StartCommitStep
<1>3. CASE /\ Goto(p, "loaded")
           /\ tip' = [tip EXCEPT ![p] = LoadTip]
           /\ UNCHANGED <<files, lock, todo, draft, faults>>
  <2>1. TypeOK'
    BY <1>1, <1>3 DEF IInv, TypeOK, Goto, files, faults
  <2>2. PhaseInv'
    BY <1>1, <1>3 DEF IInv, TypeOK, PhaseInv, Goto, Holding
  <2>3. SyncInv'
    BY <1>1, <1>3 DEF IInv, TypeOK, SyncInv, Goto, files, faults
  <2>4. \A q \in Proc : pc'[q] \in Publishing =>
            pc'[q] = pc[q] /\ draft'[q] = draft[q] /\ tip'[q] = tip[q]
    BY <1>1, <1>3 DEF IInv, TypeOK, Goto, Publishing
  <2>5. ManifestInv' /\ DraftInv'
    BY <1>3, <2>4, SameFiles DEF IInv
  <2> QED BY <2>1, <2>2, <2>3, <2>5 DEF IInv
<1> QED BY <1>2, <1>3 DEF Load

LEMMA CloseStep ==
    ASSUME IInv, NEW p \in Proc, Close(p)
    PROVE  IInv'
<1>1. TypeOK'
  BY DEF IInv, TypeOK, Close, Drop, Goto, files, faults
<1>2. PhaseInv'
  BY DEF IInv, TypeOK, PhaseInv, Close, Drop, Goto, Holding
<1>3. SyncInv'
  BY DEF IInv, TypeOK, SyncInv, Close, Drop, Goto, files, faults
<1>4. ManifestInv' /\ DraftInv'
  <2>1. \A q \in Proc : pc'[q] \in Publishing =>
            pc'[q] = pc[q] /\ draft'[q] = draft[q] /\ tip'[q] = tip[q]
    BY DEF IInv, TypeOK, Close, Drop, Goto, Publishing
  <2> QED BY <2>1, SameFiles DEF IInv, Close
<1> QED BY <1>1, <1>2, <1>3, <1>4 DEF IInv

LEMMA OperationStep ==
    ASSUME IInv, NEW p \in Proc, Operation(p)
    PROVE  IInv'
<1>1. CASE InitializeFresh(p)
  BY <1>1, StartCommitStep, TreeAssumption DEF InitializeFresh
<1>2. CASE Load(p)
  BY <1>2, LoadStep
<1>3. CASE Close(p)
  BY <1>3, CloseStep
<1>4. CASE Reindex(p)
  <2>1. PICK b \in Block : pc[p] = "idle" /\ StartCommit(p, b)
    BY <1>4 DEF Reindex, Catalog
  <2> QED BY <2>1, StartCommitStep
<1>5. ASSUME NEW b \in Block, AppendBlocks(p, b) \/ Activate(p, b) \/ Generate(p, b)
      PROVE  IInv'
  BY <1>5, StartCommitStep DEF AppendBlocks, Activate, Generate
<1> QED BY <1>1, <1>2, <1>3, <1>4, <1>5 DEF Operation

-----------------------------------------------------------------------------
(* The steps of commit.                                                    *)

\* Writing at the end of the block file leaves every record where it is.
LEMMA WriteAtEndExtends ==
    ASSUME blockFile \in Seq(Block \cup {Torn, Damaged}),
           NEW r \in Block \cup {Torn, Damaged}
    PROVE  /\ WriteAtEnd(r) \in Seq(Block \cup {Torn, Damaged})
           /\ Len(blockFile) <= Len(WriteAtEnd(r))
           /\ \A i \in 1..Len(blockFile) : WriteAtEnd(r)[i] = blockFile[i]
<1>1. Len(blockFile) \in Nat
  BY LenProperties
<1>2. CASE WriteAtEnd(r) = blockFile
  BY <1>1, <1>2
<1>3. CASE WriteAtEnd(r) = Append(blockFile, r)
  BY <1>1, <1>3, AppendProperties
<1> QED BY <1>2, <1>3 DEF WriteAtEnd

\* A step that extends the block file and keeps the synced part, the other
\* files, and every process out of the last steps of commit.
LEMMA ExtendedFile ==
    ASSUME IInv, TypeOK', UNCHANGED <<index, utxo, manifest, faults>>,
           Len(blockFile) <= Len(blockFile'), synced <= synced',
           \A i \in 1..Len(blockFile) : blockFile'[i] = blockFile[i],
           \A q \in Proc : pc'[q] \notin Publishing
    PROVE  ManifestInv' /\ DraftInv'
<1>1. DraftInv'
  BY DEF DraftInv, Publishing
<1>2. SUFFICES ASSUME Sound', manifest' # None
               PROVE  /\ manifest' # Damaged
                      /\ index'[manifest'.gen] = manifest'.index
                      /\ utxo'[manifest'.gen] = manifest'.index.tip
                      /\ Stored(manifest.index)'
  BY <1>1 DEF IInv, ManifestInv, Sound, faults
<1>3. /\ manifest \notin {None, Damaged}
      /\ index[manifest.gen] = manifest.index
      /\ utxo[manifest.gen] = manifest.index.tip
      /\ Stored(manifest.index)
  BY <1>2 DEF IInv, ManifestInv, Sound, faults
<1>4. /\ manifest.index.tip \in Block
      /\ manifest.index.at \in [Block -> Nat]
      /\ Chain[manifest.index.tip] \subseteq Block
  BY <1>3, TreeAssumption DEF IInv, TypeOK, Manifest, IndexFile
<1>5. /\ Len(blockFile) \in Nat /\ Len(blockFile') \in Nat
      /\ DOMAIN blockFile = 1..Len(blockFile) /\ DOMAIN blockFile' = 1..Len(blockFile')
      /\ synced \in Nat /\ synced' \in Nat
  BY LenProperties DEF IInv, TypeOK
<1>6. \A b \in Chain[manifest.index.tip] :
        /\ manifest.index.at[b] \in DOMAIN blockFile'
        /\ blockFile'[manifest.index.at[b]] = b
        /\ kills' = 0 => manifest.index.at[b] <= synced'
  <2> TAKE b \in Chain[manifest.index.tip]
  <2>1. /\ manifest.index.at[b] \in DOMAIN blockFile
        /\ blockFile[manifest.index.at[b]] = b
        /\ kills = 0 => manifest.index.at[b] <= synced
    BY <1>3 DEF Stored, Readable
  <2>2. manifest.index.at[b] \in Nat
    BY <1>4
  <2> QED BY <2>1, <2>2, <1>5 DEF faults
<1> QED BY <1>3, <1>6 DEF Stored, Readable

LEMMA CommitBeginStep ==
    ASSUME IInv, NEW p \in Proc, CommitBegin(p)
    PROVE  IInv'
<1>1. TypeOK'
  BY TreeAssumption DEF IInv, TypeOK, PhaseInv, CommitBegin, Goto, Holding, files, faults
<1>2. PhaseInv'
  BY MarkerAssumption DEF IInv, TypeOK, PhaseInv, CommitBegin, Goto, Holding
<1>3. SyncInv'
  BY DEF IInv, TypeOK, SyncInv, CommitBegin, Goto, files, faults
<1>4. ManifestInv' /\ DraftInv'
  <2>1. \A q \in Proc : pc'[q] \in Publishing =>
            pc'[q] = pc[q] /\ draft'[q] = draft[q] /\ tip'[q] = tip[q]
    BY DEF IInv, TypeOK, CommitBegin, Goto, Publishing
  <2> QED BY <2>1, SameFiles DEF IInv, CommitBegin
<1> QED BY <1>1, <1>2, <1>3, <1>4 DEF IInv

LEMMA AppendRecordStep ==
    ASSUME IInv, NEW p \in Proc, AppendRecord(p)
    PROVE  IInv'
<1>1. PICK b \in todo[p] : /\ blockFile' = WriteAtEnd(b)
                           /\ todo' = [todo EXCEPT ![p] = @ \ {b}]
  BY DEF AppendRecord
<1>2. b \in Block
  BY <1>1 DEF IInv, TypeOK
<1>3. /\ blockFile' \in Seq(Block \cup {Torn, Damaged})
      /\ Len(blockFile) <= Len(blockFile')
      /\ \A i \in 1..Len(blockFile) : blockFile'[i] = blockFile[i]
      /\ Len(blockFile) \in Nat /\ Len(blockFile') \in Nat
  BY <1>1, <1>2, WriteAtEndExtends, LenProperties DEF IInv, TypeOK
<1>4. TypeOK'
  BY <1>1, <1>3 DEF IInv, TypeOK, AppendRecord, Goto, Holding, faults
<1>5. PhaseInv'
  BY DEF IInv, TypeOK, PhaseInv, AppendRecord, Goto, Holding
<1>6. SyncInv'
  BY DEF IInv, TypeOK, SyncInv, AppendRecord, Goto
<1>7. \A q \in Proc : pc'[q] \notin Publishing
  BY Exclusive DEF IInv, TypeOK, AppendRecord, Goto, Publishing, Holding
<1>8. ManifestInv' /\ DraftInv'
  BY <1>3, <1>4, <1>7, ExtendedFile DEF AppendRecord, IInv, TypeOK
<1> QED BY <1>4, <1>5, <1>6, <1>8 DEF IInv

LEMMA SyncBlockFileStep ==
    ASSUME IInv, NEW p \in Proc, SyncBlockFile(p)
    PROVE  IInv'
<1>0. Len(blockFile) \in Nat
  BY LenProperties DEF IInv, TypeOK
<1>1. TypeOK'
  BY <1>0 DEF IInv, TypeOK, SyncBlockFile, Goto, Holding, faults
<1>2. PhaseInv'
  BY DEF IInv, TypeOK, PhaseInv, SyncBlockFile, Goto, Holding
<1>3. SyncInv'
  <2>1. \A q \in Proc : pc[q] = "dirty" => q = p
    BY Exclusive DEF IInv, SyncBlockFile, Holding
  <2> QED BY <2>1 DEF IInv, TypeOK, SyncInv, SyncBlockFile, Goto, faults
<1>4. \A q \in Proc : pc'[q] \notin Publishing
  BY Exclusive DEF IInv, TypeOK, SyncBlockFile, Goto, Publishing, Holding
<1>5. ManifestInv' /\ DraftInv'
  BY <1>0, <1>1, <1>4, ExtendedFile DEF SyncBlockFile, IInv, TypeOK
<1> QED BY <1>1, <1>2, <1>3, <1>5 DEF IInv

LEMMA BlockMissingStep ==
    ASSUME IInv, NEW p \in Proc, BlockMissing(p)
    PROVE  IInv'
<1>1. TypeOK'
  BY DEF IInv, TypeOK, BlockMissing, Drop, Goto, files, faults
<1>2. PhaseInv'
  BY Exclusive DEF IInv, TypeOK, PhaseInv, BlockMissing, Drop, Goto, Holding
<1>3. SyncInv'
  BY DEF IInv, TypeOK, SyncInv, BlockMissing, Drop, Goto, files, faults
<1>4. ManifestInv' /\ DraftInv'
  <2>1. \A q \in Proc : pc'[q] \in Publishing =>
            pc'[q] = pc[q] /\ draft'[q] = draft[q] /\ tip'[q] = tip[q]
    BY DEF IInv, TypeOK, BlockMissing, Drop, Goto, Publishing
  <2> QED BY <2>1, SameFiles DEF IInv, BlockMissing
<1> QED BY <1>1, <1>2, <1>3, <1>4 DEF IInv

\* The generation that commit writes is not the committed one.
LEMMA NextGenerationIsNew ==
    ASSUME TypeOK, ManifestIntact
    PROVE  NextGeneration # manifest.gen
BY DEF NextGeneration, TypeOK, ManifestIntact, Manifest, Generation

LEMMA WriteIndexStep ==
    ASSUME IInv, NEW p \in Proc, WriteIndex(p)
    PROVE  IInv'
<1> DEFINE ix == [tip |-> tip[p],
                  at |-> [b \in Block |-> IF b \in Chain[tip[p]] THEN Position(b) ELSE 0]]
           n == NextGeneration
<1>0. /\ pc[p] = "index" /\ tip[p] \in Block
      /\ Chain[tip[p]] \subseteq Catalog
      /\ Chain[tip[p]] \subseteq Block
  BY TreeAssumption DEF IInv, PhaseInv, Holding, WriteIndex
<1>1. /\ index' = [index EXCEPT ![n] = ix]
      /\ draft' = [draft EXCEPT ![p] = [gen |-> n, index |-> ix]]
      /\ n \in Generation
  BY DEF WriteIndex
<1>2. Len(blockFile) \in Nat /\ DOMAIN blockFile = 1..Len(blockFile)
  BY LenProperties DEF IInv, TypeOK
<1>3. \A b \in Chain[tip[p]] :
        /\ Position(b) \in DOMAIN blockFile
        /\ blockFile[Position(b)] = b
  BY <1>0, PositionFindsRecord DEF IInv, TypeOK
<1>4. ix \in IndexFile
  <2>1. \A b \in Block : (IF b \in Chain[tip[p]] THEN Position(b) ELSE 0) \in Nat
    BY <1>2, <1>3
  <2> QED BY <2>1, <1>0 DEF IndexFile
<1>5. kills = 0 => synced = Len(blockFile)
  <2>1. \A q \in Proc : pc[q] # "dirty"
    BY <1>0, Exclusive DEF IInv, Holding
  <2> QED BY <2>1 DEF IInv, SyncInv
<1>6. Stored(ix)
  <2>1. \A b \in Chain[tip[p]] : ix.at[b] = Position(b)
    BY <1>0
  <2> QED BY <2>1, <1>2, <1>3, <1>5 DEF Stored, Readable
<1> HIDE DEF ix, n
<1>7. TypeOK'
  BY <1>0, <1>1, <1>4 DEF IInv, TypeOK, WriteIndex, Goto, Holding, faults, Manifest
<1>8. ix.tip = tip[p]
  BY DEF ix
<1>9. PhaseInv'
  <2>1. /\ pc'[p] = "utxo" /\ draft'[p] = [gen |-> n, index |-> ix]
        /\ \A q \in Proc \ {p} : pc'[q] = pc[q] /\ draft'[q] = draft[q]
        /\ lock' = lock /\ tip' = tip
    BY <1>1 DEF IInv, TypeOK, WriteIndex, Goto
  <2>2. draft'[p] \in Manifest /\ draft'[p].index.tip = tip'[p]
    BY <2>1, <1>1, <1>4, <1>8 DEF Manifest
  <2>3. lock' = p /\ tip'[p] \in Block
    BY <2>1, <1>0 DEF IInv, PhaseInv, Holding
  <2> QED BY <2>1, <2>2, <2>3 DEF IInv, PhaseInv
<1>10. SyncInv'
  BY <1>0, <1>5 DEF IInv, TypeOK, SyncInv, WriteIndex, Goto, faults
<1>11. Sound /\ manifest # None => n # manifest.gen
  BY NextGenerationIsNew DEF IInv, ManifestInv, ManifestIntact, n
<1>12. ManifestInv'
  BY <1>1, <1>11 DEF IInv, TypeOK, ManifestInv, Sound, Stored, Readable, WriteIndex, faults, Manifest
<1>13. DraftInv'
  <2> SUFFICES ASSUME Sound', NEW q \in Proc, pc'[q] \in Publishing
               PROVE  /\ index'[draft'[q].gen] = draft'[q].index
                      /\ Stored(draft[q].index)'
                      /\ manifest' # None => draft'[q].gen # manifest'.gen
                      /\ pc'[q] = "utxo"
    BY DEF DraftInv, Publishing
  <2>1. q = p
    BY <1>0, Exclusive DEF IInv, TypeOK, WriteIndex, Goto, Publishing, Holding
  <2>2. draft'[q] = [gen |-> n, index |-> ix] /\ pc'[q] = "utxo"
    BY <1>1, <2>1 DEF IInv, TypeOK, WriteIndex, Goto
  <2>3. index'[n] = ix
    BY <1>1 DEF IInv, TypeOK
  <2>4. Stored(draft[q].index)'
    BY <1>6, <2>2 DEF Stored, Readable, WriteIndex, faults
  <2> QED BY <2>2, <2>3, <2>4, <1>11 DEF WriteIndex, faults, Sound
<1> QED BY <1>7, <1>9, <1>10, <1>12, <1>13 DEF IInv

LEMMA WriteUtxoStep ==
    ASSUME IInv, NEW p \in Proc, WriteUtxo(p)
    PROVE  IInv'
<1>1. /\ pc[p] = "utxo" /\ tip[p] \in Block /\ draft[p] \in Manifest
      /\ draft[p].gen \in Generation
      /\ \A q \in Proc : pc[q] \in Holding => q = p
  BY Exclusive DEF IInv, PhaseInv, Holding, WriteUtxo, Manifest
<1>2. TypeOK'
  BY <1>1 DEF IInv, TypeOK, WriteUtxo, Goto, Holding, faults
<1>3. PhaseInv'
  BY <1>1 DEF IInv, TypeOK, PhaseInv, WriteUtxo, Goto, Holding
<1>4. SyncInv'
  BY <1>1 DEF IInv, TypeOK, SyncInv, WriteUtxo, Goto, faults
<1>5. ManifestInv'
  BY <1>1 DEF IInv, TypeOK, ManifestInv, DraftInv, Sound, Stored, Readable, WriteUtxo, faults, Manifest
<1>6. DraftInv'
  BY <1>1 DEF IInv, TypeOK, DraftInv, Sound, Stored, Readable, WriteUtxo, Goto, faults, Holding
<1> QED BY <1>2, <1>3, <1>4, <1>5, <1>6 DEF IInv

LEMMA WriteManifestStep ==
    ASSUME IInv, NEW p \in Proc, WriteManifest(p)
    PROVE  IInv'
<1>1. /\ pc[p] = "manifest" /\ draft[p] \in Manifest /\ draft[p].index.tip = tip[p]
      /\ manifest' = draft[p]
      /\ \A q \in Proc : pc[q] \in Holding => q = p
  BY Exclusive DEF IInv, PhaseInv, Holding, WriteManifest
<1>2. TypeOK'
  BY <1>1 DEF IInv, TypeOK, WriteManifest, Goto, Holding, faults
<1>3. PhaseInv'
  BY <1>1 DEF IInv, TypeOK, PhaseInv, WriteManifest, Goto, Holding
<1>4. SyncInv'
  BY <1>1 DEF IInv, TypeOK, SyncInv, WriteManifest, Goto, faults
<1>5. Sound => /\ index[draft[p].gen] = draft[p].index
               /\ utxo[draft[p].gen] = draft[p].index.tip
               /\ Stored(draft[p].index)
  BY <1>1 DEF IInv, DraftInv
<1>6. ManifestInv'
  BY <1>1, <1>5, MarkerAssumption DEF ManifestInv, Sound, Stored, Readable, WriteManifest, faults
<1>7. DraftInv'
  BY <1>1 DEF IInv, TypeOK, DraftInv, Sound, Stored, Readable, WriteManifest, Goto, faults, Holding
<1> QED BY <1>2, <1>3, <1>4, <1>6, <1>7 DEF IInv

LEMMA CleanupStep ==
    ASSUME IInv, NEW p \in Proc, Cleanup(p)
    PROVE  IInv'
<1>1. /\ pc[p] = "cleanup" /\ draft[p] \in Manifest
      /\ \A q \in Proc : pc[q] \in Holding => q = p
  BY Exclusive DEF IInv, PhaseInv, Holding, Cleanup
<1>2. PICK I \in SUBSET Old(draft[p].gen), U \in SUBSET Old(draft[p].gen) :
        /\ index' = [g \in Generation |-> IF g \in I THEN None ELSE index[g]]
        /\ utxo' = [g \in Generation |-> IF g \in U THEN None ELSE utxo[g]]
  BY DEF Cleanup
<1>3. draft[p].gen \notin I /\ draft[p].gen \notin U
  BY DEF Old
<1>4. TypeOK'
  BY <1>1, <1>2 DEF IInv, TypeOK, Cleanup, Goto, Holding, faults
<1>5. PhaseInv'
  BY <1>1 DEF IInv, TypeOK, PhaseInv, Cleanup, Goto, Holding
<1>6. SyncInv'
  BY <1>1 DEF IInv, TypeOK, SyncInv, Cleanup, Goto, faults
<1>7. \A q \in Proc : pc'[q] \notin Publishing
  BY <1>1 DEF IInv, TypeOK, Cleanup, Goto, Holding, Publishing
<1>8. ManifestInv'
  <2> SUFFICES ASSUME Sound
               PROVE  /\ manifest' \notin {None, Damaged}
                      /\ index'[manifest'.gen] = manifest'.index
                      /\ utxo'[manifest'.gen] = manifest'.index.tip
                      /\ Stored(manifest.index)'
    BY DEF ManifestInv, Sound, Cleanup, faults
  <2>1. manifest = draft[p] /\ manifest \notin {None, Damaged} /\ manifest.gen \in Generation
    BY <1>1, MarkerAssumption DEF IInv, DraftInv, Manifest
  <2>2. /\ index[manifest.gen] = manifest.index
        /\ utxo[manifest.gen] = manifest.index.tip
        /\ Stored(manifest.index)
    BY <2>1 DEF IInv, ManifestInv
  <2>3. index'[manifest.gen] = index[manifest.gen] /\ utxo'[manifest.gen] = utxo[manifest.gen]
    BY <1>2, <1>3, <2>1
  <2> QED BY <2>1, <2>2, <2>3 DEF Cleanup, Stored, Readable, faults
<1>9. DraftInv'
  BY <1>7 DEF DraftInv, Publishing
<1> QED BY <1>4, <1>5, <1>6, <1>8, <1>9 DEF IInv

LEMMA CommitStepKept ==
    ASSUME IInv, NEW p \in Proc, CommitStep(p)
    PROVE  IInv'
BY CommitBeginStep, AppendRecordStep, SyncBlockFileStep, WriteIndexStep, BlockMissingStep,
   WriteUtxoStep, WriteManifestStep, CleanupStep DEF CommitStep

-----------------------------------------------------------------------------
(* Faults.                                                                 *)

LEMMA KillStep ==
    ASSUME IInv, NEW p \in Proc, Kill(p)
    PROVE  IInv'
<1>0. /\ kills' = kills + 1 /\ kills' \in 1..MaxKills /\ kills' # 0
      /\ pc' = [pc EXCEPT ![p] = "idle"]
      /\ tip' = [tip EXCEPT ![p] = None]
      /\ todo' = [todo EXCEPT ![p] = {}]
      /\ draft' = [draft EXCEPT ![p] = None]
  BY BoundAssumption DEF Kill, Drop, Goto, IInv, TypeOK
<1>1. /\ blockFile' \in Seq(Block \cup {Torn, Damaged})
      /\ Len(blockFile) <= Len(blockFile')
      /\ \A i \in 1..Len(blockFile) : blockFile'[i] = blockFile[i]
      /\ Len(blockFile) \in Nat /\ Len(blockFile') \in Nat
      /\ DOMAIN blockFile = 1..Len(blockFile) /\ DOMAIN blockFile' = 1..Len(blockFile')
  BY WriteAtEndExtends, LenProperties DEF Kill, IInv, TypeOK
<1>2. TypeOK'
  BY <1>0, <1>1 DEF IInv, TypeOK, Kill
<1>3. PhaseInv'
  BY <1>0, Exclusive DEF IInv, TypeOK, PhaseInv, Kill, Holding
<1>4. SyncInv'
  BY <1>0 DEF SyncInv
<1>5. ManifestInv'
  BY <1>0, <1>1 DEF IInv, TypeOK, ManifestInv, Sound, Stored, Readable, Kill
<1>6. DraftInv'
  <2>1. \A q \in Proc : pc'[q] \in Publishing =>
            pc'[q] = pc[q] /\ draft'[q] = draft[q] /\ tip'[q] = tip[q]
    BY <1>0 DEF IInv, TypeOK, Publishing
  <2>2. Sound' => Sound
    BY <1>0 DEF Sound, Kill, IInv, TypeOK
  <2>3. \A ix : Stored(ix) /\ Sound' => Stored(ix)'
    BY <1>0, <1>1 DEF Stored, Readable
  <2>4. index' = index /\ utxo' = utxo /\ manifest' = manifest
    BY DEF Kill
  <2>5. \A q \in Proc : pc'[q] \in Publishing =>
            pc[q] \in Publishing /\ pc'[q] = pc[q] /\ draft'[q] = draft[q] /\ tip'[q] = tip[q]
    BY <2>1
  <2>6. SUFFICES ASSUME Sound', NEW q \in Proc, pc'[q] \in Publishing
                 PROVE  /\ pc'[q] \in {"utxo", "manifest", "cleanup"} =>
                            /\ index'[draft'[q].gen] = draft'[q].index
                            /\ Stored(draft[q].index)'
                        /\ pc'[q] \in {"utxo", "manifest"} /\ manifest' # None =>
                            draft'[q].gen # manifest'.gen
                        /\ pc'[q] \in {"manifest", "cleanup"} => utxo'[draft'[q].gen] = tip'[q]
                        /\ pc'[q] = "cleanup" => manifest' = draft'[q]
    BY DEF DraftInv, Publishing
  <2>7. Sound /\ DraftInv
    BY <2>2, <2>6 DEF IInv
  <2>8. pc[q] \in {"utxo", "manifest", "cleanup"} => Stored(draft[q].index)'
    <3>1. pc[q] \in {"utxo", "manifest", "cleanup"} => Stored(draft[q].index)
      BY <2>7 DEF DraftInv
    <3>2. draft'[q].index = draft[q].index
      BY <2>5, <2>6
    <3> QED BY <3>1, <3>2, <2>3, <2>6 DEF Stored, Readable
  <2> QED BY <2>4, <2>5, <2>6, <2>7, <2>8 DEF DraftInv
<1> QED BY <1>2, <1>3, <1>4, <1>5, <1>6 DEF IInv

\* What a power loss leaves of the block file: a sequence of records, and the
\* synced ones are among them, where they were.
LEMMA PowerLossKeepsSynced ==
    ASSUME IInv, PowerLoss
    PROVE  /\ blockFile' \in Seq(Block \cup {Torn, Damaged})
           /\ synced <= Len(blockFile')
           /\ \A i \in 1..synced : blockFile'[i] = blockFile[i]
<1> DEFINE R == Block \cup {Torn, Damaged}
<1>1. /\ blockFile \in Seq(R) /\ Len(blockFile) \in Nat
      /\ synced \in Nat /\ synced <= Len(blockFile)
      /\ \A i \in 1..Len(blockFile) : blockFile[i] \in R
  BY LenProperties, ElementOfSeq DEF IInv, TypeOK
<1>2. ASSUME NEW k \in synced..Len(blockFile)
      PROVE  /\ SubSeq(blockFile, 1, k) \in Seq(R)
             /\ Len(SubSeq(blockFile, 1, k)) = k
             /\ \A i \in 1..synced : SubSeq(blockFile, 1, k)[i] = blockFile[i]
  <2>1. k \in Nat /\ synced <= k /\ k <= Len(blockFile)
    BY <1>1
  <2> QED BY <2>1, <1>1, SubSeqProperties
<1>3. CASE \E k \in synced..Len(blockFile) : blockFile' = SubSeq(blockFile, 1, k)
  BY <1>1, <1>2, <1>3
<1>4. CASE \E k \in synced..(Len(blockFile) - 1), r \in {Torn, Damaged} :
             blockFile' = Append(SubSeq(blockFile, 1, k), r)
  <2>1. PICK k \in synced..(Len(blockFile) - 1), r \in {Torn, Damaged} :
            blockFile' = Append(SubSeq(blockFile, 1, k), r)
    BY <1>4
  <2>2. k \in synced..Len(blockFile) /\ r \in R
    BY <1>1
  <2> DEFINE s == SubSeq(blockFile, 1, k)
  <2>3. s \in Seq(R) /\ Len(s) = k /\ \A i \in 1..synced : s[i] = blockFile[i]
    BY <1>2, <2>2
  <2> HIDE DEF s
  <2>4. /\ Append(s, r) \in Seq(R) /\ Len(Append(s, r)) = k + 1
        /\ \A i \in 1..k : Append(s, r)[i] = s[i]
    BY <2>2, <2>3, <1>1, AppendProperties
  <2> QED BY <2>1, <2>2, <2>3, <2>4, <1>1 DEF s
<1>5. CASE \E r \in {Torn, Damaged} : blockFile' = WriteAtEnd(r)
  <2>1. PICK r \in {Torn, Damaged} : blockFile' = WriteAtEnd(r)
    BY <1>5
  <2>2. /\ WriteAtEnd(r) \in Seq(R)
        /\ Len(blockFile) <= Len(WriteAtEnd(r))
        /\ \A i \in 1..Len(blockFile) : WriteAtEnd(r)[i] = blockFile[i]
        /\ Len(WriteAtEnd(r)) \in Nat
    BY <1>1, WriteAtEndExtends, LenProperties
  <2> QED BY <2>1, <2>2, <1>1
<1> QED BY <1>3, <1>4, <1>5 DEF PowerLoss

LEMMA PowerLossStep ==
    ASSUME IInv, PowerLoss
    PROVE  IInv'
<1>0. /\ blockFile' \in Seq(Block \cup {Torn, Damaged})
      /\ synced \in Nat /\ synced <= Len(blockFile')
      /\ \A i \in 1..synced : blockFile'[i] = blockFile[i]
      /\ Len(blockFile') \in Nat /\ DOMAIN blockFile' = 1..Len(blockFile')
      /\ synced' = Len(blockFile')
      /\ losses' = losses + 1 /\ losses' \in 1..MaxLosses /\ losses' # 0
  <2>1. /\ blockFile' \in Seq(Block \cup {Torn, Damaged})
        /\ synced <= Len(blockFile')
        /\ \A i \in 1..synced : blockFile'[i] = blockFile[i]
    BY PowerLossKeepsSynced
  <2>2. Len(blockFile') \in Nat /\ DOMAIN blockFile' = 1..Len(blockFile')
    BY <2>1, LenProperties
  <2>3. losses' = losses + 1 /\ losses' \in 1..MaxLosses /\ losses' # 0
    BY BoundAssumption DEF PowerLoss, IInv, TypeOK
  <2>4. synced \in Nat /\ synced' = Len(blockFile')
    BY DEF PowerLoss, IInv, TypeOK
  <2> QED BY <2>1, <2>2, <2>3, <2>4
<1>1. TypeOK'
  <2>1. /\ pc' \in [Proc -> Holding \cup {"idle", "loaded", "commit"}]
        /\ tip' \in [Proc -> Block \cup {None}]
        /\ todo' \in [Proc -> SUBSET Block]
        /\ draft' \in [Proc -> Manifest \cup {None}]
    BY DEF PowerLoss
  <2> QED BY <1>0, <2>1 DEF IInv, TypeOK, PowerLoss
<1>2. PhaseInv'
  BY DEF PhaseInv, PowerLoss, Holding
<1>3. SyncInv'
  BY <1>0 DEF SyncInv
<1>4. ManifestInv'
  <2> SUFFICES ASSUME Sound', manifest # None
               PROVE  Stored(manifest.index)' /\ Sound
    BY MarkerAssumption DEF IInv, ManifestInv, PowerLoss, Sound
  <2>1. kills = 0 /\ Sound
    BY <1>0 DEF Sound, PowerLoss
  <2>2. Stored(manifest.index)
    BY <2>1 DEF IInv, ManifestInv
  <2>3. \A b \in Chain[manifest.index.tip] :
            /\ manifest.index.at[b] \in 1..synced
            /\ blockFile[manifest.index.at[b]] = b
    <3>1. DOMAIN blockFile = 1..Len(blockFile) /\ Len(blockFile) \in Nat
      BY LenProperties DEF IInv, TypeOK
    <3>2. \A b \in Chain[manifest.index.tip] :
              /\ manifest.index.at[b] \in DOMAIN blockFile
              /\ blockFile[manifest.index.at[b]] = b
              /\ manifest.index.at[b] <= synced
      BY <2>1, <2>2 DEF Stored, Readable
    <3> QED BY <3>1, <3>2, <1>0
  <2> QED BY <2>1, <2>3, <1>0 DEF Stored, Readable, PowerLoss
<1>5. DraftInv'
  BY DEF DraftInv, PowerLoss
<1> QED BY <1>1, <1>2, <1>3, <1>4, <1>5 DEF IInv

LEMMA DamageStep ==
    ASSUME IInv, Damage
    PROVE  IInv'
<1>0. damage' = damage + 1 /\ damage' \in 1..MaxDamage /\ damage' # 0
  BY BoundAssumption DEF Damage, IInv, TypeOK
<1>1. blockFile' \in Seq(Block \cup {Torn, Damaged}) /\ Len(blockFile') = Len(blockFile)
  <2>1. blockFile \in Seq(Block \cup {Torn, Damaged}) /\ DOMAIN blockFile = 1..Len(blockFile)
    BY LenProperties DEF IInv, TypeOK
  <2>2. CASE UNCHANGED blockFile
    BY <2>1, <2>2
  <2>3. ASSUME NEW i \in DOMAIN blockFile, blockFile' = [blockFile EXCEPT ![i] = Damaged]
        PROVE  blockFile' \in Seq(Block \cup {Torn, Damaged}) /\ Len(blockFile') = Len(blockFile)
    <3>1. Damaged \in Block \cup {Torn, Damaged}
      OBVIOUS
    <3> QED BY <2>1, <2>3, <3>1, ExceptSeq
  <2>4. UNCHANGED blockFile \/ \E i \in DOMAIN blockFile : blockFile' = [blockFile EXCEPT ![i] = Damaged]
    BY DEF Damage
  <2> QED BY <2>2, <2>3, <2>4
<1>2. TypeOK'
  <2>1. index' \in [Generation -> IndexFile \cup {None, Damaged}]
    BY DEF Damage, IInv, TypeOK
  <2>2. utxo' \in [Generation -> Block \cup {None, Damaged}]
    BY DEF Damage, IInv, TypeOK
  <2>3. manifest' \in Manifest \cup {None, Damaged}
    BY DEF Damage, IInv, TypeOK
  <2> QED BY <1>0, <1>1, <2>1, <2>2, <2>3 DEF Damage, IInv, TypeOK
<1>3. PhaseInv'
  BY DEF Damage, IInv, PhaseInv
<1>4. SyncInv'
  BY <1>1 DEF Damage, IInv, SyncInv
<1>5. ManifestInv' /\ DraftInv'
  BY <1>0 DEF ManifestInv, DraftInv, Sound
<1> QED BY <1>2, <1>3, <1>4, <1>5 DEF IInv

-----------------------------------------------------------------------------
(* The theorems.                                                           *)

LEMMA StutterStep ==
    ASSUME IInv, UNCHANGED vars
    PROVE  IInv'
<1>1. TypeOK' /\ PhaseInv' /\ SyncInv'
  BY DEF IInv, TypeOK, PhaseInv, SyncInv, vars, files, faults
<1>2. ManifestInv' /\ DraftInv'
  BY SameFiles DEF IInv, vars
<1> QED BY <1>1, <1>2 DEF IInv

\* IInv is an inductive invariant of the store: every operation, every step of
\* commit and every fault preserves it, whichever process takes it.
THEOREM Inductive == Spec => []IInv
<1>1. IInv /\ [Next]_vars => IInv'
  <2> SUFFICES ASSUME IInv, [Next]_vars PROVE IInv'
    OBVIOUS
  <2>1. ASSUME NEW p \in Proc, Operation(p) PROVE IInv'
    BY <2>1, OperationStep
  <2>2. ASSUME NEW p \in Proc, CommitStep(p) PROVE IInv'
    BY <2>2, CommitStepKept
  <2>3. ASSUME NEW p \in Proc, Kill(p) PROVE IInv'
    BY <2>3, KillStep
  <2>4. CASE PowerLoss
    BY <2>4, PowerLossStep
  <2>5. CASE Damage
    BY <2>5, DamageStep
  <2>6. CASE UNCHANGED vars
    BY <2>6, StutterStep
  <2> QED BY <2>1, <2>2, <2>3, <2>4, <2>5, <2>6 DEF Next
<1> QED BY InitIInv, <1>1, PTL DEF Spec

\* The type invariant of the store, for every instance.
THEOREM TypeCorrect == Spec => []TypeOK
<1>1. IInv => TypeOK
  BY DEF IInv
<1> QED BY <1>1, Inductive, PTL

\* No committed chain is lost to a crash in the middle of a commit (storage.cpp
\* commit: append, fsync, index, UTXO, manifest last, cleanup keeps the current
\* generation), for any number of processes that share the data directory.
THEOREM CommittedStaysLoadable == Spec => []CommittedLoadable
<1>1. IInv => CommittedLoadable
  BY DEF IInv, ManifestInv, CommittedLoadable, Sound, ManifestLoads, ManifestIntact, Stored
<1> QED BY <1>1, Inductive, PTL

\* Without killed processes, whatever else fails, the manifest never reaches a
\* record that a power loss could take away.
THEOREM SyncedBeforePublished == Spec => []ManifestDurable
<1>1. IInv => ManifestDurable
  BY DEF IInv, ManifestInv, ManifestDurable, Sound, ManifestIntact, Stored
<1> QED BY <1>1, Inductive, PTL

-----------------------------------------------------------------------------
(* No block is stored twice.                                               *)

\* Only the records that a scan of the block file meets count, so a step that
\* keeps the file, and gives no process more to append, keeps OnceInv.
LEMMA OnceSameFile ==
    ASSUME OnceInv, UNCHANGED <<blockFile, damage>>,
           \A p \in Proc : pc'[p] \in {"append", "dirty"} =>
                todo'[p] \cap Catalog = {} \/ (pc[p] \in {"append", "dirty"} /\ todo'[p] \subseteq todo[p])
    PROVE  OnceInv'
<1>1. StoredOnce'
  BY DEF OnceInv, StoredOnce, Scanned
<1>2. Catalog' = Catalog
  BY DEF Catalog, Scanned
<1>3. ASSUME damage' = 0, NEW p \in Proc, pc'[p] \in {"append", "dirty"}
      PROVE  todo'[p] \cap Catalog' = {}
  <2>1. pc[p] \in {"append", "dirty"} => todo[p] \cap Catalog = {}
    BY <1>3 DEF OnceInv
  <2> QED BY <2>1, <1>2, <1>3
<1> QED BY <1>1, <1>3 DEF OnceInv

\* A record that is no block at the end of the file adds nothing to the catalog.
LEMMA OnceMarker ==
    ASSUME OnceInv, blockFile \in Seq(Block \cup {Torn, Damaged}),
           NEW r \in {Torn, Damaged}, blockFile' = WriteAtEnd(r), damage' = damage
    PROVE  StoredOnce' /\ Catalog' \subseteq Catalog
<1>1. /\ Len(blockFile) \in Nat /\ DOMAIN blockFile = 1..Len(blockFile)
      /\ DOMAIN blockFile' \in SUBSET (1..(Len(blockFile) + 1))
      /\ DOMAIN blockFile' = 1..Len(blockFile')
      /\ \A i \in 1..Len(blockFile) : i \in DOMAIN blockFile' /\ blockFile'[i] = blockFile[i]
      /\ \A i \in DOMAIN blockFile' : i \notin 1..Len(blockFile) => blockFile'[i] = r
  <2>1. Len(blockFile) \in Nat /\ DOMAIN blockFile = 1..Len(blockFile)
    BY LenProperties
  <2>2. CASE blockFile' = blockFile
    BY <2>1, <2>2
  <2>3. CASE blockFile' = Append(blockFile, r)
    <3>1. /\ Append(blockFile, r) \in Seq(Block \cup {Torn, Damaged})
          /\ Len(Append(blockFile, r)) = Len(blockFile) + 1
          /\ \A i \in 1..Len(blockFile) : Append(blockFile, r)[i] = blockFile[i]
          /\ Append(blockFile, r)[Len(blockFile) + 1] = r
      BY AppendProperties
    <3>2. DOMAIN Append(blockFile, r) = 1..(Len(blockFile) + 1)
      BY <3>1, LenProperties
    <3> QED BY <2>1, <2>3, <3>1, <3>2
  <2> QED BY <2>2, <2>3 DEF WriteAtEnd
<1>2. r \notin Block
  BY MarkerAssumption
<1>3. \A i \in DOMAIN blockFile' : blockFile'[i] \in Block =>
            i \in 1..Len(blockFile) /\ blockFile[i] = blockFile'[i]
  BY <1>1, <1>2
<1>4. \A i \in 1..Len(blockFile) : Scanned(i)' => Scanned(i)
  BY <1>1 DEF Scanned
<1>5. Catalog' \subseteq Catalog
  BY <1>1, <1>3, <1>4 DEF Catalog
<1>6. StoredOnce'
  BY <1>1, <1>3, <1>4 DEF OnceInv, StoredOnce
<1> QED BY <1>5, <1>6

LEMMA OnceAppend ==
    ASSUME IInv, OnceInv, NEW p \in Proc, AppendRecord(p)
    PROVE  OnceInv'
<1>1. PICK b \in todo[p] : /\ blockFile' = WriteAtEnd(b)
                           /\ todo' = [todo EXCEPT ![p] = @ \ {b}]
  BY DEF AppendRecord
<1>2. /\ pc[p] \in {"append", "dirty"} /\ damage' = damage /\ b \in Block /\ b # Torn
      /\ \A q \in Proc : pc'[q] \in {"append", "dirty"} => q = p
  <2>1. \A q \in Proc : pc[q] \in {"append", "dirty"} => q = p
    BY Exclusive DEF AppendRecord, IInv, Holding
  <2> QED BY <1>1, <2>1, MarkerAssumption DEF AppendRecord, Goto, IInv, TypeOK, faults
<1>3. CASE blockFile' = blockFile
  <2>1. todo'[p] \subseteq todo[p]
    BY <1>1 DEF IInv, TypeOK
  <2> QED BY <1>2, <1>3, <2>1, OnceSameFile
<1>4. CASE /\ \A i \in DOMAIN blockFile : blockFile[i] # Torn
           /\ blockFile' = Append(blockFile, b)
  <2> DEFINE n == Len(blockFile)
  <2>1. /\ n \in Nat /\ DOMAIN blockFile = 1..n /\ DOMAIN blockFile' = 1..(n + 1)
        /\ \A i \in 1..n : blockFile'[i] = blockFile[i]
        /\ blockFile'[n + 1] = b
    <3>1. blockFile \in Seq(Block \cup {Torn, Damaged}) /\ b \in Block \cup {Torn, Damaged}
      BY <1>2 DEF IInv, TypeOK
    <3>2. n \in Nat /\ DOMAIN blockFile = 1..n
      BY <3>1, LenProperties
    <3>3. /\ Append(blockFile, b) \in Seq(Block \cup {Torn, Damaged})
          /\ Len(Append(blockFile, b)) = n + 1
          /\ \A i \in 1..n : Append(blockFile, b)[i] = blockFile[i]
          /\ Append(blockFile, b)[n + 1] = b
      BY <3>1, AppendProperties
    <3>4. DOMAIN Append(blockFile, b) = 1..(n + 1)
      BY <3>3, LenProperties
    <3> QED BY <1>4, <3>2, <3>3, <3>4
  <2> HIDE DEF n
  <2>2. ASSUME damage = 0
        PROVE  \A i \in 1..n : blockFile[i] # b
    <3>1. todo[p] \cap Catalog = {}
      BY <1>2, <2>2 DEF OnceInv
    <3>2. b \notin Catalog
      BY <1>1, <3>1
    <3>3. \A i \in 1..n : Scanned(i)
      BY <1>4, <2>1 DEF Scanned
    <3> QED BY <1>2, <2>1, <3>2, <3>3 DEF Catalog
  <2>3. \A i \in 1..n : Scanned(i)
    BY <1>4, <2>1 DEF Scanned
  <2>4. StoredOnce'
    <3> SUFFICES ASSUME damage' = 0, NEW i \in 1..(n + 1), NEW j \in 1..(n + 1),
                        blockFile'[i] \in Block, blockFile'[i] = blockFile'[j]
                 PROVE  i = j
      BY <2>1 DEF StoredOnce
    <3>1. CASE i \in 1..n /\ j \in 1..n
      BY <1>2, <2>1, <2>3, <3>1 DEF OnceInv, StoredOnce
    <3>2. CASE i = n + 1 \/ j = n + 1
      BY <1>2, <2>1, <2>2, <3>2
    <3> QED BY <2>1, <3>1, <3>2
  <2>5. Catalog' \subseteq Catalog \cup {b}
    <3> SUFFICES ASSUME NEW c \in Block, NEW i \in 1..(n + 1), blockFile'[i] = c
                 PROVE  c \in Catalog \cup {b}
      BY <2>1 DEF Catalog
    <3>1. CASE i \in 1..n
      BY <2>1, <2>3, <3>1 DEF Catalog
    <3> QED BY <2>1, <3>1
  <2>6. ASSUME damage' = 0, NEW q \in Proc, pc'[q] \in {"append", "dirty"}
        PROVE  todo'[q] \cap Catalog' = {}
    <3>1. q = p /\ todo'[p] = todo[p] \ {b} /\ todo[p] \cap Catalog = {}
      BY <1>1, <1>2, <2>6 DEF OnceInv, IInv, TypeOK
    <3> QED BY <2>5, <3>1
  <2> QED BY <2>4, <2>6 DEF OnceInv
<1> QED BY <1>1, <1>3, <1>4 DEF WriteAtEnd

\* What a killed process leaves at the end of the file is no record.
LEMMA OnceKill ==
    ASSUME IInv, OnceInv, NEW p \in Proc, Kill(p)
    PROVE  OnceInv'
<1>1. /\ damage' = damage
      /\ \A q \in Proc : pc'[q] \in {"append", "dirty"} => pc'[q] = pc[q] /\ todo'[q] = todo[q]
  BY DEF Kill, Drop, Goto, IInv, TypeOK
<1>2. CASE UNCHANGED blockFile
  BY <1>1, <1>2, OnceSameFile
<1>3. CASE blockFile' = WriteAtEnd(Torn)
  <2>1. StoredOnce' /\ Catalog' \subseteq Catalog
    BY <1>1, <1>3, OnceMarker DEF IInv, TypeOK
  <2>2. ASSUME damage' = 0, NEW q \in Proc, pc'[q] \in {"append", "dirty"}
        PROVE  todo'[q] \cap Catalog' = {}
    <3>1. todo[q] \cap Catalog = {} /\ todo'[q] = todo[q]
      BY <1>1, <2>2 DEF OnceInv
    <3> QED BY <2>1, <3>1
  <2> QED BY <2>1, <2>2 DEF OnceInv
<1> QED BY <1>2, <1>3 DEF Kill

\* What a power loss leaves is a part of what was stored.
LEMMA OncePowerLoss ==
    ASSUME IInv, OnceInv, PowerLoss
    PROVE  OnceInv'
<1> DEFINE R == Block \cup {Torn, Damaged}
<1>1. /\ blockFile \in Seq(R) /\ Len(blockFile) \in Nat
      /\ synced \in Nat /\ DOMAIN blockFile = 1..Len(blockFile)
      /\ damage' = damage
      /\ \A q \in Proc : pc'[q] \notin {"append", "dirty"}
  BY LenProperties DEF IInv, TypeOK, PowerLoss
<1>2. SUFFICES StoredOnce'
  BY <1>1 DEF OnceInv
<1>3. ASSUME NEW k \in 0..Len(blockFile), DOMAIN blockFile' = 1..Len(blockFile'),
             \A i \in 1..k : blockFile'[i] = blockFile[i] /\ i \in DOMAIN blockFile',
             \A i \in DOMAIN blockFile' : blockFile'[i] \in Block => i \in 1..k
      PROVE  StoredOnce'
  <2>1. \A i \in 1..k : Scanned(i)' => Scanned(i)
    BY <1>1, <1>3 DEF Scanned
  <2>2. 1..k \subseteq DOMAIN blockFile
    BY <1>1
  <2> QED BY <1>1, <1>3, <2>1, <2>2 DEF OnceInv, StoredOnce
<1>4. ASSUME NEW k \in synced..Len(blockFile)
      PROVE  /\ SubSeq(blockFile, 1, k) \in Seq(R) /\ k \in 0..Len(blockFile)
             /\ Len(SubSeq(blockFile, 1, k)) = k
             /\ DOMAIN SubSeq(blockFile, 1, k) = 1..k
             /\ \A i \in 1..k : SubSeq(blockFile, 1, k)[i] = blockFile[i]
  <2>1. k \in Nat /\ k <= Len(blockFile)
    BY <1>1
  <2> QED BY <2>1, <1>1, SubSeqProperties, LenProperties
<1>5. CASE \E k \in synced..Len(blockFile) : blockFile' = SubSeq(blockFile, 1, k)
  BY <1>3, <1>4, <1>5
<1>6. CASE \E k \in synced..(Len(blockFile) - 1), r \in {Torn, Damaged} :
             blockFile' = Append(SubSeq(blockFile, 1, k), r)
  <2>1. PICK k \in synced..(Len(blockFile) - 1), r \in {Torn, Damaged} :
            blockFile' = Append(SubSeq(blockFile, 1, k), r)
    BY <1>6
  <2>2. k \in synced..Len(blockFile) /\ r \in R /\ r \notin Block
    BY <1>1, MarkerAssumption
  <2> DEFINE s == SubSeq(blockFile, 1, k)
  <2>3. /\ s \in Seq(R) /\ Len(s) = k /\ k \in 0..Len(blockFile)
        /\ \A i \in 1..k : s[i] = blockFile[i]
    BY <1>4, <2>2
  <2> HIDE DEF s
  <2>4. /\ Append(s, r) \in Seq(R) /\ Len(Append(s, r)) = k + 1
        /\ \A i \in 1..k : Append(s, r)[i] = s[i]
        /\ Append(s, r)[k + 1] = r
    BY <2>2, <2>3, AppendProperties
  <2>5. DOMAIN Append(s, r) = 1..(k + 1) /\ blockFile' = Append(s, r)
    BY <2>1, <2>4, LenProperties DEF s
  <2> QED BY <1>3, <2>2, <2>3, <2>4, <2>5
<1>7. CASE \E r \in {Torn, Damaged} : blockFile' = WriteAtEnd(r)
  BY <1>1, <1>7, OnceMarker
<1> QED BY <1>5, <1>6, <1>7 DEF PowerLoss

\* The steps that neither write to the block file nor scan it.
LEMMA OnceOther ==
    ASSUME IInv, OnceInv, NEW p \in Proc,
           \/ Operation(p)
           \/ SyncBlockFile(p) \/ WriteIndex(p) \/ BlockMissing(p)
           \/ WriteUtxo(p) \/ WriteManifest(p) \/ Cleanup(p)
    PROVE  OnceInv'
<1>1. UNCHANGED <<blockFile, damage>>
  BY DEF Operation, InitializeFresh, Load, Close, Reindex, AppendBlocks, Activate, Generate,
         StartCommit, SyncBlockFile, WriteIndex, BlockMissing, WriteUtxo, WriteManifest, Cleanup,
         files, faults
<1>2. \A q \in Proc : pc'[q] \in {"append", "dirty"} => pc'[q] = pc[q] /\ todo'[q] \subseteq todo[q]
  BY DEF IInv, TypeOK, Operation, InitializeFresh, Load, Close, Reindex, AppendBlocks, Activate,
         Generate, StartCommit, SyncBlockFile, WriteIndex, BlockMissing, WriteUtxo, WriteManifest,
         Cleanup, Goto, Drop
<1> QED BY <1>1, <1>2, OnceSameFile

\* No two processes store the same block twice (storage.cpp commit: the scan of
\* the catalog and the appends that follow from it happen under one lock).
THEOREM NothingStoredTwice == Spec => []StoredOnce
<1>1. Init => OnceInv
  <2>1. DOMAIN <<>> = {}
    BY EmptySeq
  <2> QED BY <2>1 DEF Init, OnceInv, StoredOnce
<1>2. IInv /\ OnceInv /\ [Next]_vars => OnceInv'
  <2> SUFFICES ASSUME IInv, OnceInv, [Next]_vars PROVE OnceInv'
    OBVIOUS
  <2>1. ASSUME NEW p \in Proc, CommitBegin(p) PROVE OnceInv'
    <3>1. /\ UNCHANGED <<blockFile, damage>>
          /\ \A q \in Proc : pc'[q] \in {"append", "dirty"} =>
                todo'[q] \cap Catalog = {} \/ (pc[q] \in {"append", "dirty"} /\ todo'[q] \subseteq todo[q])
      <4>1. todo'[p] = Chain[tip[p]] \ Catalog
        BY <2>1 DEF CommitBegin, IInv, TypeOK
      <4>2. \A q \in Proc : q # p => pc'[q] = pc[q] /\ todo'[q] = todo[q]
        BY <2>1 DEF CommitBegin, Goto, IInv, TypeOK
      <4> QED BY <2>1, <4>1, <4>2 DEF CommitBegin, files, faults
    <3> QED BY <3>1, OnceSameFile
  <2>2. ASSUME NEW p \in Proc, Operation(p) \/ CommitStep(p) PROVE OnceInv'
    BY <2>1, <2>2, OnceAppend, OnceOther DEF CommitStep
  <2>3. ASSUME NEW p \in Proc, Kill(p) PROVE OnceInv'
    BY <2>3, OnceKill
  <2>4. CASE PowerLoss
    BY <2>4, OncePowerLoss
  <2>5. CASE Damage
    <3>1. damage' # 0
      BY <2>5 DEF Damage, IInv, TypeOK
    <3> QED BY <3>1 DEF OnceInv, StoredOnce
  <2>6. CASE UNCHANGED vars
    BY <2>6, OnceSameFile DEF vars, files, faults
  <2> QED BY <2>2, <2>3, <2>4, <2>5, <2>6 DEF Next
<1>3. OnceInv => StoredOnce
  BY DEF OnceInv
<1> QED BY <1>1, <1>2, <1>3, Inductive, PTL DEF Spec

-----------------------------------------------------------------------------
(* One process implements the abstract durable chain.                      *)

\* One process uses the data directory.
Alone == \A p, q \in Proc : p = q

\* What the abstract chain allows a step to do with the chain that load finds.
Promise ==
    \/ Visible' = Visible
    \/ Visible = None /\ Visible' = Genesis
    \/ Visible # None /\ Visible' \in Block /\ Work(Visible') >= Work(Visible)

LEMMA WorkIsNat == \A b \in Block : Work(b) \in Nat
BY FiniteChains, FS_CardinalityType DEF Work

LEMMA SameVisible ==
    ASSUME UNCHANGED <<index, utxo, manifest>>
    PROVE  Visible' = Visible /\ Available' = Available
<1>1. Available' = Available
  BY DEF Available
<1> QED BY <1>1 DEF Visible

\* Without damage the files stand for a chain of valid blocks, or for none.
LEMMA VisibleIsBlock ==
    ASSUME TypeOK, IntactInv, damage = 0
    PROVE  /\ Visible \in Block \cup {None}
           /\ manifest # None => Visible \in Block
           /\ manifest = None /\ Available # {} =>
                /\ Newest(Available) \in Available
                /\ \A h \in Available : h <= Newest(Available)
                /\ Visible = index[Newest(Available)].tip
                /\ Visible \in Block
<1>1. ASSUME manifest # None PROVE Visible \in Block
  BY <1>1 DEF TypeOK, IntactInv, Manifest, IndexFile, Visible
<1>2. ASSUME manifest = None, Available # {}
      PROVE  /\ Newest(Available) \in Available
             /\ \A h \in Available : h <= Newest(Available)
             /\ Visible = index[Newest(Available)].tip
             /\ Visible \in Block
  <2>1. Available \in SUBSET Generation
    BY DEF Available
  <2>2. Newest(Available) \in Available /\ \A h \in Available : h <= Newest(Available)
    BY <1>2, <2>1, NewestIsLast
  <2>3. index[Newest(Available)] \in IndexFile
    BY <2>1, <2>2 DEF TypeOK, IntactInv, Available
  <2>4. Visible = index[Newest(Available)].tip
    BY <1>2 DEF Visible
  <2> QED BY <2>2, <2>3, <2>4 DEF IndexFile
<1>3. manifest = None /\ Available = {} => Visible = None
  BY DEF Visible
<1> QED BY <1>1, <1>2, <1>3

\* What the files stand for is what load returns.
LEMMA VisibleIsLoaded ==
    ASSUME IInv, AloneInv, Sound
    PROVE  LoadTip = Visible
<1>1. CASE manifest # None
  <2>1. ManifestLoads
    BY <1>1 DEF IInv, ManifestInv, ManifestLoads, ManifestIntact, Stored
  <2> QED BY <1>1, <2>1 DEF LoadTip, Visible
<1>2. CASE manifest = None
  <2>1. ~ManifestLoads
    BY <1>2 DEF ManifestLoads, ManifestIntact
  <2>2. \A g \in Available : index[g] # Damaged /\ Readable(index[g])
    BY <1>2 DEF AloneInv, IntactInv, FreshInv, Sound, Stored, Available
  <2>3. Recoverable = Available
    BY <2>2 DEF Recoverable
  <2> QED BY <1>2, <2>1, <2>3 DEF LoadTip, Visible
<1> QED BY <1>1, <1>2

\* A step that keeps the files moves no chain; what is left to show is what the
\* process has in memory.
LEMMA AloneSameFiles ==
    ASSUME AloneInv, UNCHANGED <<files, faults>>,
           \A q \in Proc : pc'[q] \in {"utxo", "manifest"} => pc'[q] = pc[q] /\ draft'[q] = draft[q],
           Sound => \A q \in Proc :
                /\ pc'[q] # "idle" => IF Visible = None THEN tip'[q] = Genesis
                                      ELSE Work(tip'[q]) >= Work(Visible)
                /\ pc'[q] = "loaded" => tip'[q] = Visible
                /\ pc'[q] \in {"append", "dirty"} => todo'[q] \subseteq Chain[tip'[q]]
    PROVE  AloneInv' /\ Promise
<1>1. Visible' = Visible /\ Available' = Available
  BY SameVisible DEF files
<1>2. TailInv' /\ IntactInv'
  BY DEF AloneInv, TailInv, IntactInv, files, faults
<1>3. FreshInv'
  BY DEF AloneInv, FreshInv, Sound, Stored, Readable, files, faults
<1>4. GenesisInv'
  BY <1>1 DEF AloneInv, GenesisInv, Sound, files, faults
<1>5. TipInv'
  BY <1>1 DEF TipInv, Sound, faults
<1>6. NumberInv'
  BY <1>1 DEF AloneInv, NumberInv, Sound, files, faults
<1> QED BY <1>1, <1>2, <1>3, <1>4, <1>5, <1>6 DEF AloneInv, Promise

\* save is called with a chain that is not behind the visible one.
LEMMA AloneStartCommit ==
    ASSUME Alone, IInv, AloneInv, NEW p \in Proc, NEW b \in Block, StartCommit(p, b),
           Sound => IF Visible = None THEN b = Genesis ELSE Work(b) >= Work(Visible)
    PROVE  AloneInv' /\ Promise
<1>1. pc'[p] = "commit" /\ tip'[p] = b /\ \A q \in Proc : q = p
  BY DEF StartCommit, Goto, IInv, TypeOK, Alone
<1> QED BY <1>1, AloneSameFiles DEF StartCommit

\* A chain that extends another one has at least its work, and more if it has
\* one block more.
LEMMA LongerChains ==
    ASSUME NEW a \in Block, NEW b \in Block, a \in Chain[b]
    PROVE  Work(b) >= Work(a)
<1>1. Chain[a] \subseteq Chain[b] /\ IsFiniteSet(Chain[b])
  BY TreeAssumption, FiniteChains
<1>2. Cardinality(Chain[a]) <= Cardinality(Chain[b])
  BY <1>1, FS_Subset
<1> QED BY <1>2, WorkIsNat DEF Work

\* With nothing behind an incomplete record, every block that is stored is found
\* by the scan.
LEMMA StoredIsScanned ==
    ASSUME TypeOK, TailInv, NEW c \in Block, \E i \in DOMAIN blockFile : blockFile[i] = c
    PROVE  c \in Catalog
<1>1. blockFile \in Seq(Block \cup {Torn, Damaged}) /\ DOMAIN blockFile = 1..Len(blockFile) /\ Len(blockFile) \in Nat
  BY LenProperties DEF TypeOK
<1>2. PICK i \in DOMAIN blockFile : blockFile[i] = c
  OBVIOUS
<1>3. c # Torn
  BY MarkerAssumption
<1>4. Scanned(i)
  BY <1>1, <1>2, <1>3 DEF Scanned, TailInv
<1> QED BY <1>2, <1>4 DEF Catalog

LEMMA AloneOperation ==
    ASSUME Alone, IInv, AloneInv, NEW p \in Proc, Operation(p)
    PROVE  AloneInv' /\ Promise
<1>0. /\ \A q \in Proc : q = p
      /\ Sound => LoadTip = Visible /\ damage = 0
      /\ Visible \in Block \cup {None} \/ ~Sound
  BY VisibleIsLoaded, VisibleIsBlock DEF Alone, Sound, IInv, AloneInv
<1>1. CASE InitializeFresh(p)
  <2>1. ASSUME Sound PROVE Visible = None
    <3>1. manifest = None /\ (Available = {} \/ blockFile = <<>>)
      BY <1>1 DEF InitializeFresh, Exists
    <3>2. CASE Available = {}
      BY <3>1, <3>2 DEF Visible
    <3>3. CASE blockFile = <<>> /\ Available # {}
      <4>1. PICK g \in Available : TRUE
        BY <3>3
      <4>2. /\ g \in Generation /\ index[g] \in IndexFile /\ Readable(index[g])
        BY <2>1, <3>1, <4>1 DEF AloneInv, IntactInv, FreshInv, Available, Sound, Stored, IInv, TypeOK
      <4>3. Genesis \in Chain[index[g].tip] /\ DOMAIN blockFile = {}
        BY <3>3, <4>2, TreeAssumption, EmptySeq DEF IndexFile
      <4> QED BY <4>2, <4>3 DEF Readable
    <3> QED BY <3>1, <3>2, <3>3
  <2> QED BY <1>1, <2>1, TreeAssumption, AloneStartCommit DEF InitializeFresh
<1>2. CASE Load(p)
  <2>1. LoadTip \in Block /\ LoadTip # None
    BY <1>2, LoadTipIsBlock DEF Load, IInv
  <2>2. Sound => Work(LoadTip) >= Work(Visible) /\ Visible # None
    BY <1>0, <2>1, WorkIsNat
  <2>3. CASE StartCommit(p, LoadTip)
    BY <2>1, <2>2, <2>3, AloneStartCommit
  <2>4. CASE /\ Goto(p, "loaded")
             /\ tip' = [tip EXCEPT ![p] = LoadTip]
             /\ UNCHANGED <<files, lock, todo, draft, faults>>
    <3>1. pc'[p] = "loaded" /\ tip'[p] = LoadTip
      BY <2>4 DEF Goto, IInv, TypeOK
    <3> QED BY <1>0, <2>2, <2>4, <3>1, AloneSameFiles
  <2> QED BY <1>2, <2>3, <2>4 DEF Load
<1>3. CASE Close(p)
  <2>1. pc'[p] = "idle"
    BY <1>3 DEF Close, Drop, Goto, IInv, TypeOK
  <2> QED BY <1>0, <1>3, <2>1, AloneSameFiles DEF Close
<1>4. CASE Reindex(p)
  <2> DEFINE complete == {b \in Catalog : Chain[b] \subseteq Catalog}
  <2>1. PICK b \in complete : (\A c \in complete : Work(c) <= Work(b)) /\ StartCommit(p, b)
    BY <1>4 DEF Reindex
  <2>2. b \in Block /\ b \in Catalog /\ Chain[b] \subseteq Catalog
    BY <2>1 DEF Catalog
  <2>3. ASSUME Sound, Visible = None PROVE b = Genesis
    BY <2>2, <2>3 DEF AloneInv, GenesisInv, Catalog
  <2>4. ASSUME Sound, Visible # None PROVE Work(b) >= Work(Visible)
    <3>1. PICK ix \in IndexFile : ix.tip = Visible /\ Readable(ix)
      <4>1. CASE manifest # None
        <5>1. manifest.index \in IndexFile /\ Readable(manifest.index)
          BY <2>4, <4>1 DEF IInv, TypeOK, ManifestInv, Manifest, Stored
        <5> QED BY <4>1, <5>1 DEF Visible
      <4>2. CASE manifest = None
        <5>1. Available # {}
          BY <2>4, <4>2 DEF Visible
        <5>2. Newest(Available) \in Available /\ Visible = index[Newest(Available)].tip
          BY <1>0, <2>4, <4>2, <5>1, VisibleIsBlock DEF IInv, AloneInv
        <5>3. /\ index[Newest(Available)] \in IndexFile /\ Readable(index[Newest(Available)])
          BY <2>4, <4>2, <5>2 DEF AloneInv, IntactInv, FreshInv, Sound, Stored, Available, IInv, TypeOK
        <5> QED BY <5>2, <5>3
      <4> QED BY <4>1, <4>2
    <3>2. Visible \in Block /\ Chain[Visible] \subseteq Block /\ Visible \in Chain[Visible]
      BY <1>0, <2>4, TreeAssumption
    <3>3. Chain[Visible] \subseteq Catalog
      <4>1. ASSUME NEW c \in Chain[Visible] PROVE c \in Catalog
        <5>1. ix.at[c] \in DOMAIN blockFile /\ blockFile[ix.at[c]] = c /\ c \in Block
          BY <3>1, <3>2, <4>1 DEF Readable
        <5> QED BY <5>1, StoredIsScanned DEF IInv, AloneInv
      <4> QED BY <4>1
    <3>4. Visible \in complete
      BY <3>2, <3>3
    <3>5. Work(Visible) <= Work(b)
      BY <2>1, <3>4
    <3> QED BY <2>2, <3>2, <3>5, WorkIsNat
  <2>5. Sound => IF Visible = None THEN b = Genesis ELSE Work(b) >= Work(Visible)
    BY <2>3, <2>4
  <2> QED BY <2>1, <2>2, <2>5, AloneStartCommit
<1>5. ASSUME NEW b \in Block, AppendBlocks(p, b) \/ Activate(p, b) \/ Generate(p, b)
      PROVE  AloneInv' /\ Promise
  <2>1. pc[p] = "loaded" /\ StartCommit(p, b) /\ tip[p] \in Block
    BY <1>5 DEF AppendBlocks, Activate, Generate, IInv, PhaseInv
  <2>2. Work(b) >= Work(tip[p])
    <3>1. CASE AppendBlocks(p, b)
      BY <2>1, <3>1, LongerChains, TreeAssumption DEF AppendBlocks
    <3>2. CASE Activate(p, b)
      BY <2>1, <3>2, WorkIsNat DEF Activate
    <3>3. CASE Generate(p, b)
      BY <2>1, <3>3, LongerChains DEF Generate
    <3> QED BY <1>5, <3>1, <3>2, <3>3
  <2>3. Sound => tip[p] = Visible /\ Visible # None
    BY <2>1, TreeAssumption DEF AloneInv, TipInv
  <2> QED BY <2>1, <2>2, <2>3, AloneStartCommit
<1> QED BY <1>1, <1>2, <1>3, <1>4, <1>5 DEF Operation

\* A chain that can be read back stays so when the records that the manifest may
\* rest on stay where they are.
LEMMA KeptStored ==
    ASSUME NEW ix, Stored(ix),
           \A i \in DOMAIN blockFile : (kills = 0 => i <= synced) =>
                i \in DOMAIN blockFile' /\ blockFile'[i] = blockFile[i],
           kills' = 0 => kills = 0 /\ \A i \in DOMAIN blockFile : i <= synced => i <= synced'
    PROVE  /\ \A b \in Chain[ix.tip] : ix.at[b] \in DOMAIN blockFile' /\ blockFile'[ix.at[b]] = b
           /\ kills' = 0 => \A b \in Chain[ix.tip] : ix.at[b] <= synced'
BY DEF Stored, Readable

\* A step that changes the block file only, and leaves the process before the
\* files of a new generation are written.
LEMMA AloneBlockFile ==
    ASSUME AloneInv, UNCHANGED <<index, utxo, manifest, damage>>,
           Sound' => Sound, TailInv', TipInv',
           Sound' => \A i \in DOMAIN blockFile : (kills = 0 => i <= synced) =>
                i \in DOMAIN blockFile' /\ blockFile'[i] = blockFile[i],
           kills' = 0 => kills = 0 /\ \A i \in DOMAIN blockFile : i <= synced => i <= synced',
           Sound' /\ Visible = None =>
                \A i \in DOMAIN blockFile' : blockFile'[i] \in Block => blockFile'[i] = Genesis,
           \A q \in Proc : pc'[q] \notin {"utxo", "manifest"}
    PROVE  AloneInv' /\ Promise
<1>1. Visible' = Visible /\ Available' = Available
  BY SameVisible
<1>2. IntactInv'
  BY DEF AloneInv, IntactInv
<1>3. FreshInv'
  <2> SUFFICES ASSUME Sound', manifest = None, NEW g \in Generation
               PROVE  /\ utxo[g] # None => index[g] # None
                      /\ index[g] # None => Stored(index[g])'
    BY DEF FreshInv, Stored, Readable
  <2>1. /\ utxo[g] # None => index[g] # None
        /\ index[g] # None => Stored(index[g])
    BY DEF AloneInv, FreshInv
  <2>2. ASSUME index[g] # None PROVE Stored(index[g])'
    <3>1. PICK ix : ix = index[g]
      OBVIOUS
    <3>2. /\ \A b \in Chain[ix.tip] : ix.at[b] \in DOMAIN blockFile' /\ blockFile'[ix.at[b]] = b
          /\ kills' = 0 => \A b \in Chain[ix.tip] : ix.at[b] <= synced'
      BY <2>1, <2>2, <3>1, KeptStored
    <3>3. index'[g] = ix
      BY <3>1
    <3> QED BY <3>2, <3>3 DEF Stored, Readable
  <2> QED BY <2>1, <2>2
<1>4. GenesisInv'
  BY <1>1 DEF GenesisInv
<1>5. NumberInv'
  BY DEF NumberInv
<1> QED BY <1>1, <1>2, <1>3, <1>4, <1>5 DEF AloneInv, Promise

\* A record written at the end leaves the incomplete one, if any, the last.
LEMMA TailAfterWrite ==
    ASSUME TypeOK, TailInv, NEW r \in Block \cup {Torn, Damaged}, blockFile' = WriteAtEnd(r)
    PROVE  /\ TailInv'
           /\ DOMAIN blockFile \subseteq DOMAIN blockFile'
           /\ \A i \in DOMAIN blockFile : blockFile'[i] = blockFile[i]
           /\ \A i \in DOMAIN blockFile' : i \notin DOMAIN blockFile => blockFile'[i] = r
<1>1. /\ blockFile \in Seq(Block \cup {Torn, Damaged})
      /\ Len(blockFile) \in Nat /\ DOMAIN blockFile = 1..Len(blockFile)
  BY LenProperties DEF TypeOK
<1>2. CASE blockFile' = blockFile
  BY <1>1, <1>2 DEF TailInv
<1>3. CASE /\ \A i \in DOMAIN blockFile : blockFile[i] # Torn
           /\ blockFile' = Append(blockFile, r)
  <2>1. /\ Append(blockFile, r) \in Seq(Block \cup {Torn, Damaged})
        /\ Len(Append(blockFile, r)) = Len(blockFile) + 1
        /\ \A i \in 1..Len(blockFile) : Append(blockFile, r)[i] = blockFile[i]
        /\ Append(blockFile, r)[Len(blockFile) + 1] = r
    BY <1>1, AppendProperties
  <2>2. DOMAIN Append(blockFile, r) = 1..(Len(blockFile) + 1)
    BY <2>1, LenProperties
  <2> QED BY <1>1, <1>3, <2>1, <2>2 DEF TailInv
<1> QED BY <1>2, <1>3 DEF WriteAtEnd

LEMMA AloneAppend ==
    ASSUME Alone, IInv, AloneInv, NEW p \in Proc, AppendRecord(p)
    PROVE  AloneInv' /\ Promise
<1>1. PICK b \in todo[p] : /\ blockFile' = WriteAtEnd(b)
                           /\ todo' = [todo EXCEPT ![p] = @ \ {b}]
  BY DEF AppendRecord
<1>2. /\ UNCHANGED <<synced, index, utxo, manifest, damage, kills, losses, tip>>
      /\ pc[p] \in {"append", "dirty"} /\ pc'[p] = "dirty" /\ b \in Block
      /\ todo'[p] \subseteq todo[p]
      /\ \A q \in Proc : q = p
  BY <1>1 DEF AppendRecord, Goto, IInv, TypeOK, faults, Alone
<1>3. /\ TailInv'
      /\ DOMAIN blockFile \subseteq DOMAIN blockFile'
      /\ \A i \in DOMAIN blockFile : blockFile'[i] = blockFile[i]
      /\ \A i \in DOMAIN blockFile' : i \notin DOMAIN blockFile => blockFile'[i] = b
  BY <1>1, <1>2, TailAfterWrite DEF IInv, AloneInv
<1>4. TipInv'
  <2>1. Visible' = Visible /\ (Sound' <=> Sound)
    BY <1>2, SameVisible DEF Sound
  <2> QED BY <1>2, <2>1 DEF AloneInv, TipInv
<1>5. Sound' /\ Visible = None =>
        \A i \in DOMAIN blockFile' : blockFile'[i] \in Block => blockFile'[i] = Genesis
  <2> SUFFICES ASSUME Sound', Visible = None PROVE \A i \in DOMAIN blockFile' : blockFile'[i] \in Block => blockFile'[i] = Genesis
    OBVIOUS
  <2>1. Sound
    BY <1>2 DEF Sound
  <2>2. tip[p] = Genesis /\ todo[p] \subseteq Chain[tip[p]]
    BY <1>2, <2>1 DEF AloneInv, TipInv
  <2>3. b = Genesis
    BY <1>1, <2>2, TreeAssumption
  <2> QED BY <1>3, <2>1, <2>3 DEF AloneInv, GenesisInv
<1> QED BY <1>2, <1>3, <1>4, <1>5, AloneBlockFile DEF Sound

LEMMA AloneSync ==
    ASSUME Alone, IInv, AloneInv, NEW p \in Proc, SyncBlockFile(p)
    PROVE  AloneInv' /\ Promise
<1>1. /\ UNCHANGED <<blockFile, index, utxo, manifest, damage, kills, losses, tip>>
      /\ pc[p] # "idle" /\ pc'[p] = "index"
      /\ \A q \in Proc : q = p
  BY DEF SyncBlockFile, Goto, IInv, TypeOK, faults, Alone
<1>2. \A i \in DOMAIN blockFile : i <= synced => i <= synced'
  <2>1. Len(blockFile) \in Nat /\ DOMAIN blockFile = 1..Len(blockFile)
    BY LenProperties DEF IInv, TypeOK
  <2> QED BY <2>1 DEF SyncBlockFile, IInv, TypeOK
<1>3. Visible' = Visible /\ (Sound' <=> Sound)
  BY <1>1, SameVisible DEF Sound
<1>4. TipInv'
  BY <1>1, <1>3 DEF AloneInv, TipInv
<1>5. TailInv'
  BY <1>1 DEF AloneInv, TailInv
<1>6. Sound' /\ Visible = None =>
        \A i \in DOMAIN blockFile' : blockFile'[i] \in Block => blockFile'[i] = Genesis
  BY <1>1, <1>3 DEF AloneInv, GenesisInv
<1> QED BY <1>1, <1>2, <1>3, <1>4, <1>5, <1>6, AloneBlockFile

LEMMA AloneKill ==
    ASSUME Alone, IInv, AloneInv, NEW p \in Proc, Kill(p)
    PROVE  AloneInv' /\ Promise
<1>1. /\ UNCHANGED <<synced, index, utxo, manifest, losses, damage>>
      /\ kills \in Nat /\ kills' = kills + 1
      /\ \A q \in Proc : pc'[q] = "idle"
  BY DEF Kill, Drop, Goto, IInv, TypeOK, Alone
<1>2. kills' # 0 /\ (Sound' => Sound)
  BY <1>1 DEF Sound
<1>3. CASE UNCHANGED blockFile
  <2>1. TailInv' /\ TipInv'
    BY <1>1, <1>3 DEF AloneInv, TailInv, TipInv
  <2> QED BY <1>1, <1>2, <1>3, <2>1, AloneBlockFile DEF AloneInv, GenesisInv
<1>4. CASE blockFile' = WriteAtEnd(Torn)
  <2>1. /\ TailInv'
        /\ DOMAIN blockFile \subseteq DOMAIN blockFile'
        /\ \A i \in DOMAIN blockFile : blockFile'[i] = blockFile[i]
        /\ \A i \in DOMAIN blockFile' : i \notin DOMAIN blockFile => blockFile'[i] = Torn
    BY <1>4, TailAfterWrite DEF IInv, AloneInv
  <2>2. TipInv'
    BY <1>1 DEF TipInv
  <2>3. Sound' /\ Visible = None =>
            \A i \in DOMAIN blockFile' : blockFile'[i] \in Block => blockFile'[i] = Genesis
    BY <1>2, <2>1, MarkerAssumption DEF AloneInv, GenesisInv
  <2> QED BY <1>1, <1>2, <2>1, <2>2, <2>3, AloneBlockFile
<1> QED BY <1>3, <1>4 DEF Kill

LEMMA AlonePowerLoss ==
    ASSUME IInv, AloneInv, PowerLoss
    PROVE  AloneInv' /\ Promise
<1> DEFINE R == Block \cup {Torn, Damaged}
<1>1. /\ blockFile \in Seq(R) /\ Len(blockFile) \in Nat
      /\ synced \in Nat /\ DOMAIN blockFile = 1..Len(blockFile)
      /\ UNCHANGED <<index, utxo, manifest, kills, damage>>
      /\ losses' = losses + 1 /\ losses \in Nat
      /\ synced' = Len(blockFile')
      /\ \A q \in Proc : pc'[q] = "idle"
  BY LenProperties DEF IInv, TypeOK, PowerLoss
<1>2. Sound' => kills = 0 /\ Sound
  BY <1>1 DEF Sound
<1>3. /\ blockFile' \in Seq(R) /\ synced <= Len(blockFile')
      /\ \A i \in 1..synced : blockFile'[i] = blockFile[i]
      /\ Len(blockFile') \in Nat /\ DOMAIN blockFile' = 1..Len(blockFile')
  <2>1. /\ blockFile' \in Seq(R) /\ synced <= Len(blockFile')
        /\ \A i \in 1..synced : blockFile'[i] = blockFile[i]
    BY PowerLossKeepsSynced
  <2> QED BY <2>1, LenProperties
<1>4. /\ TailInv'
      /\ \A i \in DOMAIN blockFile' : blockFile'[i] \in Block =>
            i \in DOMAIN blockFile /\ blockFile[i] = blockFile'[i]
  <2>1. ASSUME NEW k \in synced..Len(blockFile)
        PROVE  /\ SubSeq(blockFile, 1, k) \in Seq(R) /\ k \in Nat /\ k <= Len(blockFile)
               /\ Len(SubSeq(blockFile, 1, k)) = k
               /\ DOMAIN SubSeq(blockFile, 1, k) = 1..k
               /\ \A i \in 1..k : SubSeq(blockFile, 1, k)[i] = blockFile[i]
    <3>1. k \in Nat /\ k <= Len(blockFile)
      BY <1>1
    <3> QED BY <3>1, <1>1, SubSeqProperties, LenProperties
  <2>2. CASE \E k \in synced..Len(blockFile) : blockFile' = SubSeq(blockFile, 1, k)
    <3>1. PICK k \in synced..Len(blockFile) : blockFile' = SubSeq(blockFile, 1, k)
      BY <2>2
    <3>2. /\ k \in Nat /\ k <= Len(blockFile) /\ Len(blockFile') = k
          /\ DOMAIN blockFile' = 1..k
          /\ \A i \in 1..k : blockFile'[i] = blockFile[i]
      BY <2>1, <3>1
    <3>3. TailInv'
      BY <1>1, <3>2 DEF AloneInv, TailInv
    <3> QED BY <1>1, <3>2, <3>3
  <2>3. CASE \E k \in synced..(Len(blockFile) - 1), r \in {Torn, Damaged} :
               blockFile' = Append(SubSeq(blockFile, 1, k), r)
    <3>1. PICK k \in synced..(Len(blockFile) - 1), r \in {Torn, Damaged} :
              blockFile' = Append(SubSeq(blockFile, 1, k), r)
      BY <2>3
    <3>2. k \in synced..Len(blockFile) /\ k < Len(blockFile) /\ r \in R /\ r \notin Block
      BY <1>1, MarkerAssumption
    <3> DEFINE s == SubSeq(blockFile, 1, k)
    <3>3. /\ s \in Seq(R) /\ Len(s) = k /\ k \in Nat
          /\ \A i \in 1..k : s[i] = blockFile[i]
      BY <2>1, <3>2
    <3>4. blockFile' = Append(s, r)
      BY <3>1
    <3> HIDE DEF s
    <3>5. /\ Append(s, r) \in Seq(R) /\ Len(Append(s, r)) = k + 1
          /\ \A i \in 1..k : Append(s, r)[i] = s[i]
          /\ Append(s, r)[k + 1] = r
      BY <3>2, <3>3, AppendProperties
    <3>6. /\ DOMAIN blockFile' = 1..(k + 1) /\ Len(blockFile') = k + 1
          /\ \A i \in 1..k : blockFile'[i] = blockFile[i]
          /\ blockFile'[k + 1] = r
      BY <3>3, <3>4, <3>5, LenProperties
    <3>7. TailInv'
      BY <1>1, <3>2, <3>3, <3>6 DEF AloneInv, TailInv
    <3>8. \A i \in DOMAIN blockFile' : blockFile'[i] \in Block =>
            i \in DOMAIN blockFile /\ blockFile[i] = blockFile'[i]
      BY <1>1, <3>2, <3>3, <3>6
    <3> QED BY <3>7, <3>8
  <2>4. CASE \E r \in {Torn, Damaged} : blockFile' = WriteAtEnd(r)
    <3>1. PICK r \in {Torn, Damaged} : blockFile' = WriteAtEnd(r)
      BY <2>4
    <3>2. /\ TailInv'
          /\ \A i \in DOMAIN blockFile : blockFile'[i] = blockFile[i]
          /\ \A i \in DOMAIN blockFile' : i \notin DOMAIN blockFile => blockFile'[i] = r
      BY <3>1, TailAfterWrite DEF IInv, AloneInv
    <3>3. r \notin Block
      BY MarkerAssumption
    <3> QED BY <3>2, <3>3
  <2> QED BY <2>2, <2>3, <2>4 DEF PowerLoss
<1>5. TipInv'
  BY <1>1 DEF TipInv
<1>6. Sound' => \A i \in DOMAIN blockFile : (kills = 0 => i <= synced) =>
                i \in DOMAIN blockFile' /\ blockFile'[i] = blockFile[i]
  BY <1>1, <1>2, <1>3
<1>7. kills' = 0 => kills = 0 /\ \A i \in DOMAIN blockFile : i <= synced => i <= synced'
  BY <1>1, <1>3
<1>8. Sound' /\ Visible = None =>
            \A i \in DOMAIN blockFile' : blockFile'[i] \in Block => blockFile'[i] = Genesis
  BY <1>2, <1>4 DEF AloneInv, GenesisInv
<1> QED BY <1>1, <1>2, <1>4, <1>5, <1>6, <1>7, <1>8, AloneBlockFile

LEMMA AloneDamage ==
    ASSUME IInv, AloneInv, Damage
    PROVE  AloneInv' /\ ~Sound'
<1>1. damage' # 0 /\ ~Sound'
  BY DEF Damage, IInv, TypeOK, Sound
<1>2. TailInv'
  <2>1. blockFile \in Seq(Block \cup {Torn, Damaged}) /\ DOMAIN blockFile = 1..Len(blockFile)
    BY LenProperties DEF IInv, TypeOK
  <2>2. CASE UNCHANGED blockFile
    BY <2>2 DEF AloneInv, TailInv
  <2>3. CASE \E i \in DOMAIN blockFile : blockFile' = [blockFile EXCEPT ![i] = Damaged]
    <3>1. PICK i \in DOMAIN blockFile : blockFile' = [blockFile EXCEPT ![i] = Damaged]
      BY <2>3
    <3>2. Damaged \in Block \cup {Torn, Damaged}
      OBVIOUS
    <3>3. Len(blockFile') = Len(blockFile)
      BY <2>1, <3>1, <3>2, ExceptSeq
    <3>4. /\ DOMAIN blockFile' = DOMAIN blockFile
          /\ \A j \in DOMAIN blockFile : blockFile'[j] = IF j = i THEN Damaged ELSE blockFile[j]
      BY <3>1, <2>1
    <3> QED BY <3>3, <3>4, MarkerAssumption DEF AloneInv, TailInv
  <2> QED BY <2>2, <2>3 DEF Damage
<1> QED BY <1>1, <1>2 DEF AloneInv, IntactInv, FreshInv, GenesisInv, TipInv, NumberInv, Sound

\* The index file of a new generation is not seen by load until the UTXO file is
\* there too.
LEMMA AloneWriteIndex ==
    ASSUME Alone, IInv, IInv', AloneInv, NEW p \in Proc, WriteIndex(p)
    PROVE  AloneInv' /\ (Sound => Promise)
<1>1. PICK ix \in IndexFile, n \in Generation :
        /\ n = NextGeneration
        /\ index' = [index EXCEPT ![n] = ix]
        /\ draft' = [draft EXCEPT ![p] = [gen |-> n, index |-> ix]]
  <2>1. PICK ix : /\ index' = [index EXCEPT ![NextGeneration] = ix]
                  /\ draft' = [draft EXCEPT ![p] = [gen |-> NextGeneration, index |-> ix]]
    BY DEF WriteIndex
  <2>2. draft'[p] = [gen |-> NextGeneration, index |-> ix]
    BY <2>1 DEF IInv, TypeOK
  <2>3. draft'[p] \in Manifest
    BY DEF IInv, PhaseInv, WriteIndex, Goto, TypeOK
  <2>4. ix \in IndexFile
    BY <2>2, <2>3 DEF Manifest
  <2> QED BY <2>1, <2>4 DEF WriteIndex
<1>2. /\ UNCHANGED <<blockFile, synced, utxo, manifest, damage, kills, losses, tip, todo>>
      /\ pc[p] # "idle" /\ pc'[p] = "utxo"
      /\ draft'[p].gen = n /\ draft'[p].index = ix
      /\ \A q \in Proc : q = p
  BY <1>1 DEF WriteIndex, Goto, IInv, TypeOK, faults, Alone
<1>3. ASSUME Sound, manifest = None
      PROVE  /\ Available' = Available
             /\ \A h \in Available : h < n /\ index'[h] = index[h]
  <2>1. \A h \in Available : h < n
    <3>1. CASE Available = {}
      BY <3>1
    <3>2. CASE Available # {}
      <4>1. Newest(Available) \in Available /\ \A h \in Available : h <= Newest(Available)
        BY <1>3, <3>2, VisibleIsBlock DEF Sound, IInv, AloneInv
      <4>2. n = Newest(Available) + 1
        BY <1>1, <1>3, <3>2 DEF NextGeneration, ManifestIntact
      <4>3. Available \subseteq Generation
        BY DEF Available
      <4>4. \A h \in Generation : h \in Nat
        BY BoundAssumption DEF Generation
      <4>5. Newest(Available) \in Nat /\ \A h \in Available : h \in Nat
        BY <4>1, <4>3, <4>4
      <4> HIDE DEF Available, Newest
      <4> QED BY <4>1, <4>2, <4>5
    <3> QED BY <3>1, <3>2
  <2>2. n \notin Available
    BY <2>1 DEF Generation
  <2>3. utxo[n] = None
    BY <1>3, <2>2 DEF AloneInv, FreshInv, Available
  <2>4. \A h \in Generation : h # n => index'[h] = index[h]
    BY <1>1 DEF IInv, TypeOK
  <2>5. Available' = Available
    BY <1>2, <2>2, <2>3, <2>4 DEF Available
  <2> QED BY <2>1, <2>2, <2>4, <2>5 DEF Available
<1>4. Sound => Visible' = Visible
  <2>1. CASE manifest # None
    BY <1>2, <2>1 DEF Visible
  <2>2. ASSUME manifest = None, Sound PROVE Visible' = Visible
    <3>1. CASE Available = {}
      BY <1>2, <1>3, <2>2, <3>1 DEF Visible
    <3>2. CASE Available # {}
      <4>1. Newest(Available) \in Available
        BY <2>2, <3>2, VisibleIsBlock DEF Sound, IInv, AloneInv
      <4>2. Newest(Available)' = Newest(Available)
        BY <1>3, <2>2 DEF Newest
      <4> QED BY <1>2, <1>3, <2>2, <3>2, <4>1, <4>2 DEF Visible
    <3> QED BY <3>1, <3>2
  <2> QED BY <2>1, <2>2
<1>5. Sound' <=> Sound
  BY <1>2 DEF Sound
<1>6. TailInv'
  BY <1>2 DEF AloneInv, TailInv
<1>7. IntactInv'
  <2>1. ix # Damaged
    BY MarkerAssumption
  <2> QED BY <1>1, <1>2, <2>1 DEF AloneInv, IntactInv, IInv, TypeOK
<1>8. FreshInv'
  <2> SUFFICES ASSUME Sound, manifest = None, NEW g \in Generation
               PROVE  /\ utxo[g] # None => index'[g] # None
                      /\ index'[g] # None => Stored(index[g])'
    BY <1>2, <1>5 DEF FreshInv
  <2>1. CASE g = n
    <3>1. index'[g] = ix /\ ix # None
      BY <1>1, <2>1, MarkerAssumption DEF IInv, TypeOK
    <3>2. index'[g] = draft'[p].index /\ Stored(draft[p].index)'
      BY <1>2, <1>5, <3>1 DEF IInv, DraftInv
    <3> QED BY <3>1, <3>2 DEF Stored, Readable
  <2>2. CASE g # n
    <3>1. index'[g] = index[g]
      BY <1>1, <2>2 DEF IInv, TypeOK
    <3>2. /\ utxo[g] # None => index[g] # None
          /\ index[g] # None => Stored(index[g])
      BY DEF AloneInv, FreshInv
    <3> QED BY <1>2, <3>1, <3>2 DEF Stored, Readable
  <2> QED BY <2>1, <2>2
<1>9. GenesisInv'
  BY <1>2, <1>4, <1>5 DEF AloneInv, GenesisInv
<1>10. TipInv'
  BY <1>2, <1>4, <1>5 DEF AloneInv, TipInv
<1>11. NumberInv'
  BY <1>2, <1>3, <1>5 DEF NumberInv
<1> QED BY <1>4, <1>5, <1>6, <1>7, <1>8, <1>9, <1>10, <1>11 DEF AloneInv, Promise

\* Before the first manifest the new files become visible with the UTXO file.
LEMMA AloneWriteUtxo ==
    ASSUME Alone, IInv, AloneInv, NEW p \in Proc, WriteUtxo(p)
    PROVE  AloneInv' /\ (Sound => Promise)
<1> DEFINE n == draft[p].gen
<1>1. /\ UNCHANGED <<blockFile, synced, index, manifest, damage, kills, losses, tip, todo, draft>>
      /\ pc[p] = "utxo" /\ pc'[p] = "manifest"
      /\ n \in Generation /\ draft[p].index \in IndexFile /\ draft[p].index.tip = tip[p]
      /\ tip[p] \in Block
      /\ utxo' = [utxo EXCEPT ![n] = tip[p]]
      /\ \A q \in Proc : q = p
  BY DEF WriteUtxo, Goto, IInv, TypeOK, PhaseInv, Manifest, faults, Alone
<1> HIDE DEF n
<1>2. Sound' <=> Sound
  BY <1>1 DEF Sound
<1>3. ASSUME Sound, manifest = None
      PROVE  /\ Available' = Available \cup {n}
             /\ \A h \in Available' : h <= n
             /\ Visible' = tip[p]
  <2>1. index[n] = draft[p].index /\ index[n] # None
    BY <1>1, <1>3, MarkerAssumption DEF IInv, DraftInv, n
  <2>2. utxo'[n] = tip[p] /\ \A h \in Generation : h # n => utxo'[h] = utxo[h]
    BY <1>1 DEF IInv, TypeOK
  <2>3. Available' = Available \cup {n}
    BY <1>1, <2>1, <2>2, TreeAssumption DEF Available
  <2>4. \A h \in Available : h < n
    BY <1>1, <1>3 DEF AloneInv, NumberInv, n
  <2>5. \A h \in Generation : h \in Nat
    BY BoundAssumption DEF Generation
  <2>6. Available \subseteq Generation
    BY DEF Available
  <2>7. \A h \in Available' : h <= n
    BY <1>1, <2>3, <2>4, <2>5, <2>6
  <2>8. Newest(Available') \in Available' /\ \A h \in Available' : h <= Newest(Available')
    BY <1>1, <2>3, <2>6, NewestIsLast
  <2>9. Newest(Available') = n
    BY <1>1, <2>3, <2>5, <2>6, <2>7, <2>8
  <2>10. Visible' = index'[Newest(Available')].tip
    BY <1>1, <1>3, <2>3 DEF Visible, Newest
  <2> QED BY <1>1, <2>1, <2>3, <2>7, <2>9, <2>10
<1>4. manifest # None => Visible' = Visible
  BY <1>1 DEF Visible
<1>5. Sound /\ Visible # None => Work(tip[p]) >= Work(Visible)
  BY <1>1 DEF AloneInv, TipInv
<1>6. Sound /\ Visible = None => tip[p] = Genesis
  BY <1>1 DEF AloneInv, TipInv
<1>7. TailInv'
  BY <1>1 DEF AloneInv, TailInv
<1>8. IntactInv'
  BY <1>1, MarkerAssumption DEF AloneInv, IntactInv, IInv, TypeOK
<1>9. FreshInv'
  <2> SUFFICES ASSUME Sound, manifest = None, NEW g \in Generation
               PROVE  /\ utxo'[g] # None => index[g] # None
                      /\ index[g] # None => Stored(index[g])'
    BY <1>1, <1>2 DEF FreshInv
  <2>1. index[n] # None
    BY <1>1, MarkerAssumption DEF IInv, DraftInv, n
  <2>2. utxo'[g] # None => index[g] # None
    BY <1>1, <2>1 DEF AloneInv, FreshInv, IInv, TypeOK
  <2>3. index[g] # None => Stored(index[g])'
    BY <1>1 DEF AloneInv, FreshInv, Stored, Readable
  <2> QED BY <2>2, <2>3
<1>10. GenesisInv'
  BY <1>1, <1>2, <1>3, <1>4, TreeAssumption DEF AloneInv, GenesisInv
<1>11. TipInv'
  <2> SUFFICES ASSUME Sound
               PROVE  IF Visible' = None THEN tip[p] = Genesis ELSE Work(tip[p]) >= Work(Visible')
    BY <1>1, <1>2 DEF TipInv
  <2>1. CASE manifest = None
    BY <1>1, <1>3, <2>1, TreeAssumption, WorkIsNat
  <2>2. CASE manifest # None
    BY <1>4, <1>5, <1>6, <2>2
  <2> QED BY <2>1, <2>2
<1>12. NumberInv'
  BY <1>1, <1>2, <1>3 DEF NumberInv, n
<1>13. Sound => Promise
  BY <1>1, <1>3, <1>4, <1>5, <1>6 DEF Promise
<1> QED BY <1>7, <1>8, <1>9, <1>10, <1>11, <1>12, <1>13 DEF AloneInv

\* The commit point.
LEMMA AloneWriteManifest ==
    ASSUME Alone, IInv, AloneInv, NEW p \in Proc, WriteManifest(p)
    PROVE  AloneInv' /\ (Sound => Promise)
<1>1. /\ UNCHANGED <<blockFile, synced, index, utxo, damage, kills, losses, tip, todo>>
      /\ pc[p] = "manifest" /\ pc'[p] = "cleanup"
      /\ draft[p] \in Manifest /\ draft[p].index.tip = tip[p] /\ tip[p] \in Block
      /\ manifest' = draft[p] /\ manifest' \notin {None, Damaged}
      /\ \A q \in Proc : q = p
  BY MarkerAssumption DEF WriteManifest, Goto, IInv, TypeOK, PhaseInv, faults, Alone
<1>2. Sound' <=> Sound
  BY <1>1 DEF Sound
<1>3. Visible' = tip[p]
  BY <1>1 DEF Visible
<1>4. ASSUME Sound, Visible # None PROVE Work(tip[p]) >= Work(Visible)
  BY <1>1, <1>4 DEF AloneInv, TipInv
<1>5. ASSUME Sound, Visible = None PROVE tip[p] = Genesis
  BY <1>1, <1>5 DEF AloneInv, TipInv
<1>6. TailInv' /\ IntactInv' /\ FreshInv' /\ NumberInv'
  BY <1>1 DEF AloneInv, TailInv, IntactInv, FreshInv, NumberInv
<1>7. GenesisInv'
  BY <1>1, <1>3, TreeAssumption DEF GenesisInv
<1>8. TipInv'
  BY <1>1, <1>3, TreeAssumption, WorkIsNat DEF TipInv
<1>9. Sound => Promise
  BY <1>1, <1>3, <1>4, <1>5 DEF Promise
<1> QED BY <1>6, <1>7, <1>8, <1>9 DEF AloneInv

LEMMA AloneCleanup ==
    ASSUME Alone, IInv, AloneInv, NEW p \in Proc, Cleanup(p)
    PROVE  AloneInv' /\ (Sound => Promise)
<1>1. /\ UNCHANGED <<blockFile, synced, manifest, damage, kills, losses, tip, todo>>
      /\ pc[p] = "cleanup" /\ pc'[p] = "loaded"
      /\ draft[p] \in Manifest /\ draft[p].index.tip = tip[p] /\ tip[p] \in Block
      /\ \A g \in Generation : index'[g] \in {None, index[g]} /\ utxo'[g] \in {None, utxo[g]}
      /\ \A q \in Proc : q = p
  BY DEF Cleanup, Goto, IInv, TypeOK, PhaseInv, faults, Alone
<1>2. Sound' <=> Sound
  BY <1>1 DEF Sound
<1>3. ASSUME Sound
      PROVE  manifest # None /\ Visible = tip[p] /\ Visible' = tip[p]
  <2>1. manifest = draft[p]
    BY <1>1, <1>3 DEF IInv, DraftInv
  <2> QED BY <1>1, <2>1, MarkerAssumption DEF Visible
<1>4. TailInv'
  BY <1>1 DEF AloneInv, TailInv
<1>5. IntactInv'
  BY <1>1, MarkerAssumption DEF AloneInv, IntactInv
<1>6. FreshInv' /\ NumberInv'
  BY <1>1, <1>2, <1>3 DEF FreshInv, NumberInv
<1>7. GenesisInv'
  BY <1>1, <1>2, <1>3, TreeAssumption DEF GenesisInv
<1>8. TipInv'
  BY <1>1, <1>2, <1>3, TreeAssumption, WorkIsNat DEF TipInv
<1>9. Sound => Promise
  BY <1>3 DEF Promise
<1> QED BY <1>4, <1>5, <1>6, <1>7, <1>8, <1>9 DEF AloneInv

LEMMA AloneCommitStep ==
    ASSUME Alone, IInv, IInv', AloneInv, NEW p \in Proc, CommitStep(p)
    PROVE  AloneInv' /\ (Sound => Promise)
<1>0. \A q \in Proc : q = p
  BY DEF Alone
<1>1. CASE CommitBegin(p)
  <2>1. /\ pc[p] # "idle" /\ pc'[p] = "append" /\ tip' = tip
        /\ todo'[p] \subseteq Chain[tip[p]]
    BY <1>1 DEF CommitBegin, Goto, IInv, TypeOK
  <2>2. UNCHANGED <<files, faults>>
    BY <1>1 DEF CommitBegin
  <2>3. Sound => IF Visible = None THEN tip[p] = Genesis ELSE Work(tip[p]) >= Work(Visible)
    BY <2>1 DEF AloneInv, TipInv
  <2> QED BY <1>0, <2>1, <2>2, <2>3, AloneSameFiles
<1>2. CASE BlockMissing(p)
  <2>1. pc'[p] = "idle"
    BY <1>2 DEF BlockMissing, Drop, Goto, IInv, TypeOK
  <2> QED BY <1>0, <1>2, <2>1, AloneSameFiles DEF BlockMissing
<1> QED BY <1>1, <1>2, AloneAppend, AloneSync, AloneWriteIndex, AloneWriteUtxo,
           AloneWriteManifest, AloneCleanup DEF CommitStep

\* Every step keeps AloneInv, and moves the visible chain as the abstract one may.
LEMMA AloneNext ==
    ASSUME Alone, IInv, IInv', AloneInv, [Next]_vars
    PROVE  AloneInv' /\ (Sound' => Promise /\ Sound)
<1>0. Sound' => Sound
  <2>1. CASE Damage
    BY <2>1, AloneDamage
  <2>2. CASE UNCHANGED <<damage, kills>> /\ losses' = losses
    BY <2>2 DEF Sound
  <2>3. CASE PowerLoss \/ \E p \in Proc : Kill(p)
    BY <2>3 DEF PowerLoss, Kill, Sound, IInv, TypeOK
  <2>4. ASSUME NEW p \in Proc, Operation(p) \/ CommitStep(p)
        PROVE  UNCHANGED <<damage, kills>> /\ losses' = losses
    BY <2>4 DEF Operation, CommitStep, InitializeFresh, Load, Close, Reindex, AppendBlocks,
           Activate, Generate, StartCommit, CommitBegin, AppendRecord, SyncBlockFile, WriteIndex,
           BlockMissing, WriteUtxo, WriteManifest, Cleanup, faults
  <2> QED BY <2>1, <2>2, <2>3, <2>4 DEF Next, vars, faults
<1>1. ASSUME NEW p \in Proc, Operation(p) \/ CommitStep(p)
      PROVE  AloneInv' /\ (Sound => Promise)
  BY <1>0, <1>1, AloneOperation, AloneCommitStep
<1>2. ASSUME NEW p \in Proc, Kill(p) PROVE AloneInv' /\ (Sound => Promise)
  BY <1>0, <1>2, AloneKill
<1>3. CASE PowerLoss
  BY <1>0, <1>3, AlonePowerLoss
<1>4. CASE Damage
  BY <1>4, AloneDamage
<1>5. CASE UNCHANGED vars
  <2>1. UNCHANGED <<files, faults, pc, draft, tip, todo>>
    BY <1>5 DEF vars
  <2>2. Sound => \A q \in Proc :
            /\ pc'[q] # "idle" => IF Visible = None THEN tip'[q] = Genesis
                                  ELSE Work(tip'[q]) >= Work(Visible)
            /\ pc'[q] = "loaded" => tip'[q] = Visible
            /\ pc'[q] \in {"append", "dirty"} => todo'[q] \subseteq Chain[tip'[q]]
    BY <2>1 DEF AloneInv, TipInv
  <2> QED BY <1>0, <2>1, <2>2, AloneSameFiles
<1> QED BY <1>0, <1>1, <1>2, <1>3, <1>4, <1>5 DEF Next

LEMMA AloneInit ==
    ASSUME Init
    PROVE  AloneInv /\ LoadTip = None
<1>1. DOMAIN <<>> = {} /\ Available = {} /\ Recoverable = {}
  BY EmptySeq DEF Init, Available, Recoverable
<1>2. LoadTip = None
  BY <1>1 DEF Init, LoadTip, ManifestLoads, ManifestIntact
<1>3. TailInv /\ FreshInv /\ GenesisInv /\ TipInv /\ NumberInv
  BY <1>1 DEF Init, TailInv, FreshInv, GenesisInv, TipInv, NumberInv
<1>4. IntactInv
  BY MarkerAssumption DEF Init, IntactInv
<1> QED BY <1>2, <1>3, <1>4 DEF AloneInv

LEMMA AloneInvariant ==
    ASSUME \A p, q \in Proc : p = q
    PROVE  Spec => []AloneInv
<1>1. Alone
  BY DEF Alone
<1>2. IInv /\ IInv' /\ AloneInv /\ [Next]_vars => AloneInv'
  BY <1>1, AloneNext
<1>3. Init => AloneInv
  BY AloneInit
<1> QED BY <1>2, <1>3, Inductive, PTL DEF Spec

\* Seen through load, the store is the abstract durable chain (storage.cpp load
\* and commit, chain.cpp save): a commit takes effect in one step, it replaces the
\* chain by one with at least as much work, and a crash at any other step has no
\* effect.  One process uses the store: with two, a commit does not look at
\* what the other one has published.
THEOREM StoreImplementsDurableChain ==
    ASSUME \A p, q \in Proc : p = q
    PROVE  Spec => DurableChainSpec
<1>1. Init => Durable!Init
  BY AloneInit DEF Durable!Init
<1>2. IInv /\ IInv' /\ AloneInv /\ [Next]_vars => AloneInv' /\ (Sound' => Promise /\ Sound)
  BY AloneNext DEF Alone
<1>3. IInv /\ AloneInv /\ Sound => LoadTip = Visible
  BY VisibleIsLoaded
<1>4. (IInv /\ AloneInv /\ Sound => LoadTip = Visible)'
  BY <1>3, PTL
<1>5. Promise /\ LoadTip = Visible /\ LoadTip' = Visible' => Durable!Next \/ LoadTip' = LoadTip
  <2> SUFFICES ASSUME Promise, LoadTip = Visible, LoadTip' = Visible'
               PROVE  Durable!Next \/ LoadTip' = LoadTip
    OBVIOUS
  <2>1. CASE Visible = None /\ Visible' = Genesis
    BY <2>1 DEF Durable!Next, Durable!PublishGenesis
  <2>2. CASE Visible # None /\ Visible' \in Block /\ Work(Visible') >= Work(Visible)
    <3> DEFINE b == Visible'
    <3>1. Durable!Publish(b)
      BY <2>2 DEF Durable!Publish, Durable!Work, Work, Durable!Cardinality, Cardinality
    <3> QED BY <2>2, <3>1 DEF Durable!Next
  <2> QED BY <2>1, <2>2 DEF Promise
<1>6. IInv /\ IInv' /\ AloneInv /\ [Next]_vars => [Sound' => Durable!Next]_LoadTip
  BY <1>2, <1>3, <1>4, <1>5
<1> QED BY <1>1, <1>6, Inductive, AloneInvariant, PTL DEF Spec, DurableChainSpec

-----------------------------------------------------------------------------
(* One damaged file can be recovered from.                                 *)

\* What load returns when one file is damaged.
LEMMA Recovered ==
    ASSUME TypeOK, RecoveryInv
    PROVE  OneDamageRecoverable
<1> SUFFICES ASSUME Repairable
             PROVE  /\ manifest = Damaged => LoadTip # None
                    /\ ManifestIntact =>
                        IF index[manifest.gen] = Damaged
                        THEN manifest.gen > 1 => LoadTip # None
                        ELSE Work(LoadTip) >= Work(manifest.index.tip)
  BY DEF OneDamageRecoverable
<1>1. /\ Available \subseteq Generation
      /\ \A g \in Available : index[g] # Damaged => index[g] \in IndexFile /\ g \in Recoverable
      /\ \A g \in Generation : g \in Nat
      /\ \A g \in Recoverable : g \in Available /\ index[g] \in IndexFile
  <2>1. \A g \in Generation : index[g] \notin {None, Damaged} => index[g] \in IndexFile
    BY DEF TypeOK
  <2>2. \A g \in Generation : index[g] \in IndexFile => Readable(index[g])
    BY DEF RecoveryInv, KeptInv
  <2>3. \A g \in Generation : g \in Nat
    BY BoundAssumption DEF Generation
  <2>4. \A g \in Available : g \in Generation /\ index[g] # None
    BY DEF Available
  <2>5. \A g : g \in Recoverable <=> g \in Available /\ index[g] # Damaged /\ Readable(index[g])
    BY DEF Recoverable
  <2> HIDE DEF Available, Recoverable, Generation
  <2> QED BY <2>1, <2>2, <2>3, <2>4, <2>5
<1>2. ASSUME NEW g \in Recoverable, ~ManifestLoads
      PROVE  /\ LoadTip \in Block /\ LoadTip # None
             /\ \E h \in Recoverable : LoadTip = index[h].tip /\ g <= h
  <2>1. Recoverable \in SUBSET Generation /\ Recoverable # {}
    BY <1>1, <1>2
  <2>2. Newest(Recoverable) \in Recoverable /\ \A h \in Recoverable : h <= Newest(Recoverable)
    BY <2>1, NewestIsLast
  <2>3. LoadTip = index[Newest(Recoverable)].tip
    BY <1>2, <2>1 DEF LoadTip
  <2> QED BY <1>1, <1>2, <2>2, <2>3, TreeAssumption DEF IndexFile
<1>3. ASSUME manifest = Damaged PROVE LoadTip # None
  <2>1. ~ManifestLoads
    BY <1>3 DEF ManifestLoads, ManifestIntact
  <2>2. manifest # None
    BY <1>3, MarkerAssumption
  <2>3. PICK g \in Available : TRUE
    BY <2>2 DEF RecoveryInv, KeptInv
  <2>4. index[g] # Damaged
    BY <1>1, <1>3, <2>3 DEF RecoveryInv, OneDamageInv, Repairable
  <2> QED BY <1>1, <1>2, <2>1, <2>3, <2>4
<1>4. ASSUME ManifestIntact, index[manifest.gen] = Damaged, manifest.gen > 1
      PROVE  LoadTip # None
  <2>1. manifest \in Manifest /\ manifest.gen \in Generation /\ manifest.index \in IndexFile
    BY <1>4 DEF ManifestIntact, TypeOK, Manifest
  <2>2. ~ManifestLoads
    BY <1>4, <2>1, MarkerAssumption DEF ManifestLoads
  <2>3. manifest.gen - 1 \in Available
    BY <1>4 DEF RecoveryInv, KeptInv
  <2>4. manifest.gen - 1 # manifest.gen
    BY <1>1, <2>1
  <2>5. index[manifest.gen - 1] # Damaged
    BY <1>1, <1>4, <2>1, <2>3, <2>4 DEF RecoveryInv, OneDamageInv, Repairable
  <2> QED BY <1>1, <1>2, <2>2, <2>3, <2>5
<1>5. ASSUME ManifestIntact, index[manifest.gen] # Damaged
      PROVE  Work(LoadTip) >= Work(manifest.index.tip)
  <2>1. /\ manifest \in Manifest /\ manifest.gen \in Generation
        /\ manifest.index \in IndexFile /\ manifest.index.tip \in Block
    BY <1>5 DEF ManifestIntact, TypeOK, Manifest, IndexFile
  <2>2. CASE ManifestLoads
    BY <2>1, <2>2, WorkIsNat DEF LoadTip
  <2>3. CASE ~ManifestLoads
    <3>1. index[manifest.gen] = manifest.index /\ utxo[manifest.gen] \in {manifest.index.tip, Damaged}
      BY <1>5 DEF RecoveryInv, KeptInv
    <3>2. index[manifest.gen] # None /\ utxo[manifest.gen] # None
      BY <2>1, <3>1, TreeAssumption, MarkerAssumption
    <3>3. manifest.gen \in Available
      BY <2>1, <3>2 DEF Available
    <3>4. manifest.gen \in Recoverable
      BY <1>1, <1>5, <3>3
    <3>5. PICK h \in Recoverable : LoadTip = index[h].tip /\ manifest.gen <= h
      BY <1>2, <2>3, <3>4
    <3>6. h \in Available /\ index[h] # Damaged /\ h \in Nat /\ manifest.gen \in Nat
      BY <1>1, <2>1, <3>5, MarkerAssumption
    <3>7. CASE h = manifest.gen
      BY <2>1, <3>1, <3>5, <3>7, WorkIsNat
    <3>8. CASE h > manifest.gen
      BY <1>5, <3>5, <3>6, <3>8 DEF RecoveryInv, NewerInv
    <3> QED BY <3>5, <3>6, <3>7, <3>8
  <2> QED BY <2>2, <2>3
<1> QED BY <1>3, <1>4, <1>5

\* A step that keeps the index files, the UTXO files and the manifest, and every
\* record of the block file.
LEMMA RecoverySameFiles ==
    ASSUME RecoveryInv, UNCHANGED <<index, utxo, manifest, damage, losses>>,
           \A i \in DOMAIN blockFile : i \in DOMAIN blockFile' /\ blockFile'[i] = blockFile[i],
           \A q \in Proc : pc'[q] \in Publishing =>
                pc'[q] = pc[q] /\ draft'[q] = draft[q] /\ tip'[q] = tip[q],
           Repairable /\ ManifestIntact /\ index[manifest.gen] # Damaged =>
                \A q \in Proc : pc'[q] # "idle" => Work(tip'[q]) >= Work(manifest.index.tip)
    PROVE  RecoveryInv'
<1>1. Repairable' => Repairable
  BY DEF Repairable
<1>2. /\ Available' = Available
      /\ ManifestIntact' <=> ManifestIntact
  BY DEF Available, ManifestIntact
<1>3. \A ix : (\A b \in Chain[ix.tip] : ix.at[b] \in DOMAIN blockFile /\ blockFile[ix.at[b]] = b)
            => (\A b \in Chain[ix.tip] : ix.at[b] \in DOMAIN blockFile' /\ blockFile'[ix.at[b]] = b)
  OBVIOUS
<1>4. OneDamageInv'
  BY DEF RecoveryInv, OneDamageInv
<1>5. KeptInv'
  BY <1>1, <1>2, <1>3 DEF RecoveryInv, KeptInv, Readable
<1>6. WrittenInv'
  BY <1>1, <1>2, <1>3 DEF RecoveryInv, WrittenInv, Readable, Publishing
<1>7. NewerInv'
  BY <1>1, <1>2 DEF RecoveryInv, NewerInv
<1> QED BY <1>4, <1>5, <1>6, <1>7 DEF RecoveryInv

\* The chain in memory is not behind the committed one.
LEMMA RecoveryStartCommit ==
    ASSUME Alone, IInv, RecoveryInv, NEW p \in Proc, NEW b \in Block, StartCommit(p, b),
           Repairable /\ ManifestIntact /\ index[manifest.gen] # Damaged =>
                Work(b) >= Work(manifest.index.tip)
    PROVE  RecoveryInv'
<1>1. pc'[p] = "commit" /\ tip'[p] = b /\ \A q \in Proc : q = p
  BY DEF StartCommit, Goto, IInv, TypeOK, Alone
<1> QED BY <1>1, RecoverySameFiles DEF StartCommit, files, faults, Publishing

LEMMA RecoveryOperation ==
    ASSUME Alone, IInv, AloneInv, RecoveryInv, NEW p \in Proc, Operation(p)
    PROVE  RecoveryInv'
<1>0. /\ \A q \in Proc : q = p
      /\ ManifestIntact => /\ manifest \in Manifest /\ manifest.index \in IndexFile
                           /\ manifest.index.tip \in Block
  BY DEF Alone, ManifestIntact, IInv, TypeOK, Manifest, IndexFile
<1>1. CASE InitializeFresh(p)
  <2>1. ~ManifestIntact
    BY <1>1 DEF InitializeFresh, Exists, ManifestIntact
  <2> QED BY <1>1, <2>1, TreeAssumption, RecoveryStartCommit DEF InitializeFresh
<1>2. CASE Load(p)
  <2>1. LoadTip \in Block
    BY <1>2, LoadTipIsBlock DEF Load, IInv
  <2>2. Repairable /\ ManifestIntact /\ index[manifest.gen] # Damaged =>
            Work(LoadTip) >= Work(manifest.index.tip)
    BY Recovered DEF OneDamageRecoverable, IInv
  <2>3. CASE StartCommit(p, LoadTip)
    BY <2>1, <2>2, <2>3, RecoveryStartCommit
  <2>4. CASE /\ Goto(p, "loaded")
             /\ tip' = [tip EXCEPT ![p] = LoadTip]
             /\ UNCHANGED <<files, lock, todo, draft, faults>>
    <3>1. pc'[p] = "loaded" /\ tip'[p] = LoadTip
      BY <2>4 DEF Goto, IInv, TypeOK
    <3> QED BY <1>0, <2>2, <2>4, <3>1, RecoverySameFiles DEF files, faults, Publishing
  <2> QED BY <1>2, <2>3, <2>4 DEF Load
<1>3. CASE Close(p)
  <2>1. pc'[p] = "idle"
    BY <1>3 DEF Close, Drop, Goto, IInv, TypeOK
  <2> QED BY <1>0, <1>3, <2>1, RecoverySameFiles DEF Close, files, faults, Publishing
<1>4. CASE Reindex(p)
  <2> DEFINE complete == {b \in Catalog : Chain[b] \subseteq Catalog}
  <2>1. PICK b \in complete : (\A c \in complete : Work(c) <= Work(b)) /\ StartCommit(p, b)
    BY <1>4 DEF Reindex
  <2>2. b \in Block
    BY <2>1 DEF Catalog
  <2>3. ASSUME Repairable, ManifestIntact PROVE Work(b) >= Work(manifest.index.tip)
    <3>1. Readable(manifest.index)
      BY <2>3 DEF RecoveryInv, KeptInv
    <3>2. manifest.index.tip \in complete
      <4>1. manifest.index.tip \in Chain[manifest.index.tip] /\ Chain[manifest.index.tip] \subseteq Block
        BY <1>0, <2>3, TreeAssumption
      <4>2. ASSUME NEW c \in Chain[manifest.index.tip] PROVE c \in Catalog
        <5>1. \E i \in DOMAIN blockFile : blockFile[i] = c
          BY <3>1, <4>2 DEF Readable
        <5> QED BY <4>1, <4>2, <5>1, StoredIsScanned DEF IInv, AloneInv
      <4> QED BY <4>1, <4>2
    <3>3. Work(manifest.index.tip) <= Work(b)
      BY <2>1, <3>2
    <3> QED BY <1>0, <2>2, <2>3, <3>3, WorkIsNat
  <2> QED BY <2>1, <2>2, <2>3, RecoveryStartCommit
<1>5. ASSUME NEW b \in Block, AppendBlocks(p, b) \/ Activate(p, b) \/ Generate(p, b)
      PROVE  RecoveryInv'
  <2>1. pc[p] = "loaded" /\ StartCommit(p, b) /\ tip[p] \in Block
    BY <1>5 DEF AppendBlocks, Activate, Generate, IInv, PhaseInv
  <2>2. Work(b) >= Work(tip[p])
    <3>1. CASE AppendBlocks(p, b)
      BY <2>1, <3>1, LongerChains, TreeAssumption DEF AppendBlocks
    <3>2. CASE Activate(p, b)
      BY <2>1, <3>2, WorkIsNat DEF Activate
    <3>3. CASE Generate(p, b)
      BY <2>1, <3>3, LongerChains DEF Generate
    <3> QED BY <1>5, <3>1, <3>2, <3>3
  <2>3. Repairable /\ ManifestIntact /\ index[manifest.gen] # Damaged =>
            Work(tip[p]) >= Work(manifest.index.tip)
    BY <2>1 DEF RecoveryInv, NewerInv
  <2>4. Repairable /\ ManifestIntact /\ index[manifest.gen] # Damaged =>
            Work(b) >= Work(manifest.index.tip)
    BY <1>0, <2>1, <2>2, <2>3, WorkIsNat
  <2> QED BY <2>1, <2>4, RecoveryStartCommit
<1> QED BY <1>1, <1>2, <1>3, <1>4, <1>5 DEF Operation

\* The steps of commit before the new files are written, and a kill.
LEMMA RecoveryBlockFile ==
    ASSUME Alone, IInv, AloneInv, RecoveryInv, NEW p \in Proc,
           \/ CommitBegin(p) \/ AppendRecord(p) \/ SyncBlockFile(p) \/ BlockMissing(p) \/ Kill(p)
    PROVE  RecoveryInv'
<1>1. /\ UNCHANGED <<index, utxo, manifest, damage, losses>>
      /\ pc[p] # "idle"
      /\ pc'[p] \notin Publishing
      /\ pc'[p] # "idle" => tip'[p] = tip[p]
      /\ \A q \in Proc : q = p
  BY DEF CommitBegin, AppendRecord, SyncBlockFile, BlockMissing, Kill, Drop, Goto, Publishing,
         IInv, TypeOK, files, faults, Alone
<1>2. \A i \in DOMAIN blockFile : i \in DOMAIN blockFile' /\ blockFile'[i] = blockFile[i]
  <2>1. CASE UNCHANGED blockFile
    BY <2>1
  <2>2. CASE \E r \in Block \cup {Torn, Damaged} : blockFile' = WriteAtEnd(r)
    BY <2>2, TailAfterWrite DEF IInv, AloneInv
  <2>3. UNCHANGED blockFile \/ \E r \in Block \cup {Torn, Damaged} : blockFile' = WriteAtEnd(r)
    BY DEF CommitBegin, AppendRecord, SyncBlockFile, BlockMissing, Kill, IInv, TypeOK, files
  <2> QED BY <2>1, <2>2, <2>3
<1>3. Repairable /\ ManifestIntact /\ index[manifest.gen] # Damaged =>
            Work(tip[p]) >= Work(manifest.index.tip)
  BY <1>1 DEF RecoveryInv, NewerInv
<1> QED BY <1>1, <1>2, <1>3, RecoverySameFiles

LEMMA RecoveryDamage ==
    ASSUME IInv, AloneInv, RecoveryInv, Damage
    PROVE  RecoveryInv'
<1>1. /\ damage' = damage + 1 /\ damage \in Nat
      /\ UNCHANGED <<synced, lock, pc, tip, todo, draft, kills, losses>>
  BY DEF Damage, IInv, TypeOK
<1>2. ASSUME damage' <= 1
      PROVE  damage = 0 /\ manifest # Damaged /\ \A g \in Generation : Damaged \notin {index[g], utxo[g]}
  BY <1>1, <1>2 DEF AloneInv, IntactInv
<1>3. OneDamageInv'
  <2> SUFFICES ASSUME damage' <= 1, NEW g \in Generation, NEW h \in Generation
               PROVE  /\ manifest' = Damaged => Damaged \notin {index'[g], utxo'[g]}
                      /\ index'[g] = Damaged => utxo'[h] # Damaged
                      /\ index'[g] = Damaged /\ index'[h] = Damaged => g = h
    BY DEF OneDamageInv
  <2> QED BY <1>2 DEF Damage, IInv, TypeOK
<1>4. ASSUME Repairable' PROVE Repairable /\ UNCHANGED blockFile
  <2>1. Len(blockFile) \in Nat /\ DOMAIN blockFile = 1..Len(blockFile)
    BY LenProperties DEF IInv, TypeOK
  <2>2. UNCHANGED blockFile
    BY <1>4, <2>1 DEF Damage, Repairable
  <2> QED BY <1>1, <1>4, <2>2 DEF Repairable
<1>5. /\ manifest' \in {manifest, Damaged} /\ (manifest' # None <=> manifest # None)
      /\ \A g \in Generation : /\ index'[g] \in {index[g], Damaged}
                               /\ utxo'[g] \in {utxo[g], Damaged}
                               /\ index'[g] # None <=> index[g] # None
                               /\ utxo'[g] # None <=> utxo[g] # None
  BY MarkerAssumption DEF Damage, IInv, TypeOK
<1>6. Available' = Available
  BY <1>5 DEF Available
<1>7. ASSUME ManifestIntact'
      PROVE  /\ ManifestIntact /\ manifest' = manifest
             /\ manifest \in Manifest /\ manifest.gen \in Generation
  BY <1>5, <1>7 DEF ManifestIntact, IInv, TypeOK, Manifest
<1>8. KeptInv'
  <2> SUFFICES ASSUME Repairable'
               PROVE  /\ \A g \in Generation : index'[g] \in IndexFile => Readable(index[g])'
                      /\ manifest' # None => Available' # {}
                      /\ ManifestIntact' =>
                            /\ index'[manifest.gen] \in {manifest.index, Damaged}
                            /\ utxo'[manifest.gen] \in {manifest.index.tip, Damaged}
                            /\ Readable(manifest.index)
                            /\ manifest.gen > 1 => manifest.gen - 1 \in Available'
                            /\ \A h \in Available' : h <= manifest.gen + 1
    BY <1>4, <1>7 DEF KeptInv, Readable
  <2>1. Repairable /\ UNCHANGED blockFile /\ KeptInv
    BY <1>4 DEF RecoveryInv
  <2>2. \A g \in Generation : index'[g] \in IndexFile => Readable(index[g])'
    <3> SUFFICES ASSUME NEW g \in Generation, index'[g] \in IndexFile PROVE Readable(index[g])'
      OBVIOUS
    <3>1. index'[g] = index[g]
      BY <1>5, MarkerAssumption
    <3> QED BY <2>1, <3>1 DEF KeptInv, Readable
  <2>3. manifest' # None => Available' # {}
    BY <1>5, <1>6, <2>1 DEF KeptInv
  <2>4. ASSUME ManifestIntact'
        PROVE  /\ index'[manifest.gen] \in {manifest.index, Damaged}
               /\ utxo'[manifest.gen] \in {manifest.index.tip, Damaged}
               /\ Readable(manifest.index)
               /\ manifest.gen > 1 => manifest.gen - 1 \in Available'
               /\ \A h \in Available' : h <= manifest.gen + 1
    BY <1>5, <1>6, <1>7, <2>1, <2>4 DEF KeptInv
  <2> QED BY <2>2, <2>3, <2>4
<1>9. WrittenInv'
  <2> SUFFICES ASSUME Repairable', NEW p \in Proc, pc[p] \in Publishing
               PROVE  /\ index'[draft[p].gen] \in {draft[p].index, Damaged}
                      /\ Readable(draft[p].index)
                      /\ draft[p].gen > 1 => draft[p].gen - 1 \in Available'
                      /\ \A h \in Available' : h <= draft[p].gen
                      /\ pc[p] # "utxo" => utxo'[draft[p].gen] \in {tip[p], Damaged}
                      /\ pc[p] # "cleanup" /\ ManifestIntact' => draft[p].gen = manifest'.gen + 1
                      /\ pc[p] = "cleanup" => manifest' \in {draft[p], Damaged}
    BY <1>1, <1>4 DEF WrittenInv, Readable, Publishing
  <2>1. draft[p].gen \in Generation
    BY DEF IInv, PhaseInv, Manifest, Publishing
  <2>2. Repairable /\ WrittenInv
    BY <1>4 DEF RecoveryInv
  <2> QED BY <1>5, <1>6, <1>7, <2>1, <2>2 DEF WrittenInv, Publishing
<1>10. NewerInv'
  <2> SUFFICES ASSUME Repairable', ManifestIntact', index'[manifest.gen] # Damaged
               PROVE  /\ \A h \in Available' : h > manifest.gen /\ index'[h] # Damaged =>
                            Work(index'[h].tip) >= Work(manifest.index.tip)
                      /\ \A p \in Proc : pc[p] # "idle" => Work(tip[p]) >= Work(manifest.index.tip)
    BY <1>1, <1>7 DEF NewerInv
  <2>1. /\ Repairable /\ ManifestIntact /\ index[manifest.gen] # Damaged
    BY <1>4, <1>5, <1>7
  <2>2. \A h \in Available : index'[h] # Damaged => index'[h] = index[h]
    BY <1>5 DEF Available
  <2> QED BY <1>6, <2>1, <2>2 DEF RecoveryInv, NewerInv
<1> QED BY <1>3, <1>8, <1>9, <1>10 DEF RecoveryInv

\* The number of the next generation is beyond everything that load could use,
\* and the files of the generation before it are there.
LEMMA NextIsBeyond ==
    ASSUME TypeOK, KeptInv, Repairable, NextGeneration \in Generation
    PROVE  /\ \A h \in Available : h <= NextGeneration
           /\ NextGeneration > 1 => NextGeneration - 1 \in Available
           /\ ManifestIntact => NextGeneration = manifest.gen + 1
<1>1. /\ Available \in SUBSET Generation
      /\ \A g \in Generation : g \in Nat
  BY BoundAssumption DEF Available, Generation
<1>2. CASE ManifestIntact
  <2>1. manifest \in Manifest /\ manifest.gen \in Generation /\ manifest.index.tip \in Block
    BY <1>2 DEF ManifestIntact, TypeOK, Manifest, IndexFile
  <2>2. NextGeneration = manifest.gen + 1
    BY <1>2 DEF NextGeneration
  <2>3. manifest.gen \in Available
    <3>1. /\ index[manifest.gen] \in {manifest.index, Damaged}
          /\ utxo[manifest.gen] \in {manifest.index.tip, Damaged}
      BY <1>2 DEF KeptInv
    <3>2. manifest.index \in IndexFile
      BY <2>1 DEF Manifest
    <3> QED BY <2>1, <3>1, <3>2, TreeAssumption, MarkerAssumption DEF Available
  <2>4. \A h \in Available : h <= manifest.gen + 1
    BY <1>2 DEF KeptInv
  <2>5. manifest.gen \in Nat
    BY <1>1, <2>1
  <2>6. NextGeneration - 1 = manifest.gen
    BY <2>2, <2>5
  <2> HIDE DEF Available
  <2> QED BY <2>2, <2>3, <2>4, <2>5, <2>6
<1>3. CASE ~ManifestIntact /\ Available # {}
  <2>1. Newest(Available) \in Available /\ \A h \in Available : h <= Newest(Available)
    BY <1>1, <1>3, NewestIsLast
  <2>2. NextGeneration = Newest(Available) + 1
    BY <1>3 DEF NextGeneration
  <2>3. Newest(Available) \in Nat /\ \A h \in Available : h \in Nat
    BY <1>1, <2>1
  <2> HIDE DEF Available, Newest
  <2> QED BY <1>3, <2>1, <2>2, <2>3
<1>4. CASE ~ManifestIntact /\ Available = {}
  BY <1>4 DEF NextGeneration
<1> QED BY <1>2, <1>3, <1>4

LEMMA RecoveryWriteIndex ==
    ASSUME Alone, IInv, IInv', RecoveryInv, NEW p \in Proc, WriteIndex(p)
    PROVE  RecoveryInv'
<1>1. PICK ix \in IndexFile, n \in Generation :
        /\ n = NextGeneration
        /\ index' = [index EXCEPT ![n] = ix]
        /\ draft' = [draft EXCEPT ![p] = [gen |-> n, index |-> ix]]
        /\ ix.tip = tip[p] /\ Readable(ix)
  <2>1. PICK ix : /\ ix = [tip |-> tip[p],
                           at |-> [b \in Block |-> IF b \in Chain[tip[p]] THEN Position(b) ELSE 0]]
                  /\ index' = [index EXCEPT ![NextGeneration] = ix]
                  /\ draft' = [draft EXCEPT ![p] = [gen |-> NextGeneration, index |-> ix]]
    BY DEF WriteIndex
  <2>2. draft'[p] = [gen |-> NextGeneration, index |-> ix]
    BY <2>1 DEF IInv, TypeOK
  <2>3. draft'[p] \in Manifest
    BY DEF IInv, PhaseInv, WriteIndex, Goto, TypeOK
  <2>4. ix \in IndexFile
    BY <2>2, <2>3 DEF Manifest
  <2>5. /\ Chain[tip[p]] \subseteq Catalog
        /\ Chain[tip[p]] \subseteq Block
    BY TreeAssumption DEF IInv, PhaseInv, Holding, WriteIndex
  <2>6. \A b \in Chain[tip[p]] : Position(b) \in DOMAIN blockFile /\ blockFile[Position(b)] = b
    BY <2>5, PositionFindsRecord DEF IInv, TypeOK
  <2>7. ix.tip = tip[p] /\ \A b \in Chain[tip[p]] : ix.at[b] = Position(b)
    BY <2>1, <2>5
  <2>8. Readable(ix)
    BY <2>6, <2>7 DEF Readable
  <2> QED BY <2>1, <2>4, <2>7, <2>8 DEF WriteIndex
<1>2. /\ UNCHANGED <<blockFile, synced, utxo, manifest, damage, kills, losses, tip, todo>>
      /\ pc[p] # "idle" /\ pc'[p] = "utxo"
      /\ draft'[p].gen = n /\ draft'[p].index = ix
      /\ \A q \in Proc : q = p
      /\ index'[n] = ix /\ \A h \in Generation : h # n => index'[h] = index[h]
      /\ ix \notin {None, Damaged}
  BY <1>1, MarkerAssumption DEF WriteIndex, Goto, IInv, TypeOK, faults, Alone
<1>3. Repairable' <=> Repairable
  BY <1>2 DEF Repairable
<1>4. ManifestIntact' <=> ManifestIntact
  BY <1>2 DEF ManifestIntact
<1>5. ASSUME Repairable
      PROVE  /\ \A h \in Available : h <= n
             /\ n > 1 => n - 1 \in Available
             /\ ManifestIntact => n = manifest.gen + 1
  BY <1>1, <1>5, NextIsBeyond DEF IInv, RecoveryInv
<1>6. Available \subseteq Available' /\ Available' \subseteq Available \cup {n} /\ Available \subseteq Generation
  BY <1>2 DEF Available
<1>7. \A g \in Generation : g \in Nat
  BY BoundAssumption DEF Generation
<1>8. ManifestIntact => /\ manifest \in Manifest /\ manifest.gen \in Generation
                        /\ manifest.index \in IndexFile
  BY DEF ManifestIntact, IInv, TypeOK, Manifest
<1>9. OneDamageInv'
  BY <1>2 DEF RecoveryInv, OneDamageInv
<1>10. KeptInv'
  <2> SUFFICES ASSUME Repairable
               PROVE  /\ \A g \in Generation : index'[g] \in IndexFile => Readable(index[g])'
                      /\ manifest # None => Available' # {}
                      /\ ManifestIntact =>
                            /\ index'[manifest.gen] \in {manifest.index, Damaged}
                            /\ utxo[manifest.gen] \in {manifest.index.tip, Damaged}
                            /\ Readable(manifest.index)
                            /\ manifest.gen > 1 => manifest.gen - 1 \in Available'
                            /\ \A h \in Available' : h <= manifest.gen + 1
    BY <1>2, <1>3, <1>4 DEF KeptInv, Readable
  <2>1. KeptInv
    BY DEF RecoveryInv
  <2>2. \A g \in Generation : index'[g] \in IndexFile => Readable(index[g])'
    BY <1>1, <1>2, <2>1 DEF KeptInv, Readable
  <2>3. manifest # None => Available' # {}
    BY <1>6, <2>1 DEF KeptInv
  <2>4. ASSUME ManifestIntact
        PROVE  /\ index'[manifest.gen] \in {manifest.index, Damaged}
               /\ utxo[manifest.gen] \in {manifest.index.tip, Damaged}
               /\ Readable(manifest.index)
               /\ manifest.gen > 1 => manifest.gen - 1 \in Available'
               /\ \A h \in Available' : h <= manifest.gen + 1
    <3>1. n = manifest.gen + 1 /\ n # manifest.gen /\ manifest.gen \in Generation /\ manifest.gen \in Nat
      BY <1>5, <1>7, <1>8, <2>4
    <3>2. /\ index[manifest.gen] \in {manifest.index, Damaged}
          /\ utxo[manifest.gen] \in {manifest.index.tip, Damaged}
          /\ Readable(manifest.index)
          /\ manifest.gen > 1 => manifest.gen - 1 \in Available
          /\ \A h \in Available : h <= manifest.gen + 1
      BY <2>1, <2>4 DEF KeptInv
    <3>3. \A h \in Available' : h <= manifest.gen + 1
      BY <1>6, <3>1, <3>2
    <3> QED BY <1>2, <1>6, <3>1, <3>2, <3>3
  <2> QED BY <2>2, <2>3, <2>4
<1>11. WrittenInv'
  <2> SUFFICES ASSUME Repairable
               PROVE  /\ index'[n] \in {ix, Damaged}
                      /\ Readable(ix)
                      /\ n > 1 => n - 1 \in Available'
                      /\ \A h \in Available' : h <= n
                      /\ ManifestIntact => n = manifest.gen + 1
    BY <1>2, <1>3, <1>4 DEF WrittenInv, Readable
  <2> QED BY <1>1, <1>2, <1>5, <1>6, <1>7
<1>12. NewerInv'
  <2> SUFFICES ASSUME Repairable, ManifestIntact, index'[manifest.gen] # Damaged
               PROVE  /\ \A h \in Available' : h > manifest.gen /\ index'[h] # Damaged =>
                            Work(index'[h].tip) >= Work(manifest.index.tip)
                      /\ \A q \in Proc : pc'[q] # "idle" => Work(tip[q]) >= Work(manifest.index.tip)
    BY <1>2, <1>3, <1>4 DEF NewerInv
  <2>1. index[manifest.gen] # Damaged
    <3>1. n # manifest.gen
      BY <1>5, <1>7, <1>8
    <3> QED BY <1>2, <1>8, <3>1
  <2>2. /\ \A h \in Available : h > manifest.gen /\ index[h] # Damaged =>
                Work(index[h].tip) >= Work(manifest.index.tip)
        /\ Work(tip[p]) >= Work(manifest.index.tip)
    BY <1>2, <2>1 DEF RecoveryInv, NewerInv
  <2> QED BY <1>1, <1>2, <1>6, <2>2
<1> QED BY <1>9, <1>10, <1>11, <1>12 DEF RecoveryInv

LEMMA RecoveryWriteUtxo ==
    ASSUME Alone, IInv, RecoveryInv, NEW p \in Proc, WriteUtxo(p)
    PROVE  RecoveryInv'
<1> DEFINE n == draft[p].gen
<1>1. /\ UNCHANGED <<blockFile, synced, index, manifest, damage, kills, losses, tip, todo, draft>>
      /\ pc[p] = "utxo" /\ pc'[p] = "manifest"
      /\ n \in Generation /\ draft[p].index \in IndexFile /\ draft[p].index.tip = tip[p]
      /\ tip[p] \in Block
      /\ utxo'[n] = tip[p] /\ \A h \in Generation : h # n => utxo'[h] = utxo[h]
      /\ \A q \in Proc : q = p
  BY DEF WriteUtxo, Goto, IInv, TypeOK, PhaseInv, Manifest, faults, Alone
<1>2. /\ Repairable' <=> Repairable
      /\ ManifestIntact' <=> ManifestIntact
  BY <1>1 DEF Repairable, ManifestIntact
<1>3. ASSUME Repairable
      PROVE  /\ index[n] \in {draft[p].index, Damaged}
             /\ Readable(draft[p].index)
             /\ n > 1 => n - 1 \in Available
             /\ \A h \in Available : h <= n
             /\ ManifestIntact => n = manifest.gen + 1
  BY <1>1, <1>3 DEF RecoveryInv, WrittenInv
<1> HIDE DEF n
<1>4. Available \subseteq Available' /\ Available' \subseteq Available \cup {n} /\ Available \subseteq Generation
  BY <1>1, TreeAssumption DEF Available
<1>5. \A g \in Generation : g \in Nat
  BY BoundAssumption DEF Generation
<1>6. ManifestIntact => /\ manifest \in Manifest /\ manifest.gen \in Generation
                        /\ manifest.index \in IndexFile
  BY DEF ManifestIntact, IInv, TypeOK, Manifest
<1>7. OneDamageInv'
  <2>1. tip[p] # Damaged
    BY <1>1, MarkerAssumption
  <2> QED BY <1>1, <2>1 DEF RecoveryInv, OneDamageInv
<1>8. KeptInv'
  <2> SUFFICES ASSUME Repairable
               PROVE  /\ \A g \in Generation : index[g] \in IndexFile => Readable(index[g])
                      /\ manifest # None => Available' # {}
                      /\ ManifestIntact =>
                            /\ index[manifest.gen] \in {manifest.index, Damaged}
                            /\ utxo'[manifest.gen] \in {manifest.index.tip, Damaged}
                            /\ Readable(manifest.index)
                            /\ manifest.gen > 1 => manifest.gen - 1 \in Available'
                            /\ \A h \in Available' : h <= manifest.gen + 1
    BY <1>1, <1>2 DEF KeptInv, Readable
  <2>1. KeptInv
    BY DEF RecoveryInv
  <2>2. ASSUME ManifestIntact
        PROVE  /\ utxo'[manifest.gen] = utxo[manifest.gen]
               /\ \A h \in Available' : h <= manifest.gen + 1
    <3>1. n = manifest.gen + 1 /\ n # manifest.gen /\ manifest.gen \in Generation /\ manifest.gen \in Nat
      BY <1>3, <1>5, <1>6, <2>2
    <3>2. \A h \in Available : h <= manifest.gen + 1
      BY <2>1, <2>2 DEF KeptInv
    <3>3. utxo'[manifest.gen] = utxo[manifest.gen]
      BY <1>1, <3>1
    <3>4. \A h \in Available' : h <= manifest.gen + 1
      BY <1>4, <3>1, <3>2
    <3> QED BY <3>3, <3>4
  <2> QED BY <1>4, <2>1, <2>2 DEF KeptInv
<1>9. WrittenInv'
  <2> SUFFICES ASSUME Repairable
               PROVE  /\ index[n] \in {draft[p].index, Damaged}
                      /\ Readable(draft[p].index)
                      /\ n > 1 => n - 1 \in Available'
                      /\ \A h \in Available' : h <= n
                      /\ utxo'[n] \in {tip[p], Damaged}
                      /\ ManifestIntact => n = manifest.gen + 1
    BY <1>1, <1>2 DEF WrittenInv, Readable, n
  <2> QED BY <1>1, <1>3, <1>4, <1>5
<1>10. NewerInv'
  <2> SUFFICES ASSUME Repairable, ManifestIntact, index[manifest.gen] # Damaged
               PROVE  /\ \A h \in Available' : h > manifest.gen /\ index[h] # Damaged =>
                            Work(index[h].tip) >= Work(manifest.index.tip)
                      /\ Work(tip[p]) >= Work(manifest.index.tip)
    BY <1>1, <1>2 DEF NewerInv
  <2>1. /\ \A h \in Available : h > manifest.gen /\ index[h] # Damaged =>
                Work(index[h].tip) >= Work(manifest.index.tip)
        /\ Work(tip[p]) >= Work(manifest.index.tip)
    BY <1>1 DEF RecoveryInv, NewerInv
  <2> QED BY <1>1, <1>3, <1>4, <2>1
<1> QED BY <1>7, <1>8, <1>9, <1>10 DEF RecoveryInv

LEMMA RecoveryWriteManifest ==
    ASSUME Alone, IInv, RecoveryInv, NEW p \in Proc, WriteManifest(p)
    PROVE  RecoveryInv'
<1>1. PICK m \in Manifest :
        /\ m = draft[p] /\ manifest' = m /\ m \notin {None, Damaged}
        /\ m.gen \in Generation /\ m.index \in IndexFile /\ m.index.tip = tip[p] /\ tip[p] \in Block
  BY MarkerAssumption DEF WriteManifest, IInv, PhaseInv, Manifest
<1>2. /\ UNCHANGED <<blockFile, synced, index, utxo, damage, kills, losses, tip, todo, draft>>
      /\ pc[p] = "manifest" /\ pc'[p] = "cleanup"
      /\ \A q \in Proc : q = p
  BY DEF WriteManifest, Goto, IInv, TypeOK, faults, Alone
<1>3. /\ Repairable' <=> Repairable
      /\ Available' = Available /\ Available \subseteq Generation
      /\ \A g \in Generation : g \in Nat
  BY <1>2, BoundAssumption DEF Repairable, Available, Generation
<1>4. ASSUME Repairable
      PROVE  /\ index[m.gen] \in {m.index, Damaged}
             /\ utxo[m.gen] \in {m.index.tip, Damaged}
             /\ Readable(m.index)
             /\ m.gen > 1 => m.gen - 1 \in Available
             /\ \A h \in Available : h <= m.gen
             /\ m.gen \in Available
  <2>1. /\ index[m.gen] \in {m.index, Damaged}
        /\ utxo[m.gen] \in {m.index.tip, Damaged}
        /\ Readable(m.index)
        /\ m.gen > 1 => m.gen - 1 \in Available
        /\ \A h \in Available : h <= m.gen
    BY <1>1, <1>2, <1>4 DEF RecoveryInv, WrittenInv
  <2>2. index[m.gen] # None /\ utxo[m.gen] # None
    BY <1>1, <2>1, MarkerAssumption, TreeAssumption
  <2> QED BY <1>1, <2>1, <2>2 DEF Available
<1>5. OneDamageInv'
  BY <1>1, <1>2 DEF RecoveryInv, OneDamageInv
<1>6. KeptInv'
  <2> SUFFICES ASSUME Repairable
               PROVE  /\ \A g \in Generation : index[g] \in IndexFile => Readable(index[g])
                      /\ Available # {}
                      /\ index[m.gen] \in {m.index, Damaged}
                      /\ utxo[m.gen] \in {m.index.tip, Damaged}
                      /\ Readable(m.index)
                      /\ m.gen > 1 => m.gen - 1 \in Available
                      /\ \A h \in Available : h <= m.gen + 1
    BY <1>1, <1>2, <1>3 DEF KeptInv, Readable
  <2>1. \A g \in Generation : index[g] \in IndexFile => Readable(index[g])
    BY DEF RecoveryInv, KeptInv
  <2>2. \A h \in Available : h <= m.gen + 1
    BY <1>1, <1>3, <1>4
  <2> QED BY <1>4, <2>1, <2>2
<1>7. WrittenInv'
  <2> SUFFICES ASSUME Repairable
               PROVE  /\ index[m.gen] \in {m.index, Damaged}
                      /\ Readable(m.index)
                      /\ m.gen > 1 => m.gen - 1 \in Available
                      /\ \A h \in Available : h <= m.gen
                      /\ utxo[m.gen] \in {tip[p], Damaged}
    BY <1>1, <1>2, <1>3 DEF WrittenInv, Readable
  <2> QED BY <1>1, <1>4
<1>8. NewerInv'
  <2>1. ASSUME Repairable, NEW h \in Available PROVE ~(h > m.gen)
    BY <1>1, <1>3, <1>4, <2>1
  <2>2. Work(tip[p]) >= Work(m.index.tip)
    BY <1>1, WorkIsNat
  <2> QED BY <1>1, <1>2, <1>3, <2>1, <2>2 DEF NewerInv
<1> QED BY <1>5, <1>6, <1>7, <1>8 DEF RecoveryInv

LEMMA RecoveryCleanup ==
    ASSUME Alone, IInv, RecoveryInv, NEW p \in Proc, Cleanup(p)
    PROVE  RecoveryInv'
<1>1. PICK m \in Manifest :
        /\ m = draft[p] /\ m \notin {None, Damaged}
        /\ m.gen \in Generation /\ m.index \in IndexFile /\ m.index.tip = tip[p] /\ tip[p] \in Block
  BY MarkerAssumption DEF Cleanup, IInv, PhaseInv, Manifest
<1>2. PICK I \in SUBSET Old(m.gen), U \in SUBSET Old(m.gen) :
        /\ index' = [g \in Generation |-> IF g \in I THEN None ELSE index[g]]
        /\ utxo' = [g \in Generation |-> IF g \in U THEN None ELSE utxo[g]]
  BY <1>1 DEF Cleanup
<1>3. /\ UNCHANGED <<blockFile, synced, manifest, damage, kills, losses, tip, todo>>
      /\ pc[p] = "cleanup" /\ pc'[p] = "loaded"
      /\ \A q \in Proc : q = p
  BY DEF Cleanup, Goto, IInv, TypeOK, faults, Alone
<1>4. /\ \A g \in Generation : index'[g] \in {None, index[g]} /\ utxo'[g] \in {None, utxo[g]}
      /\ \A g \in Generation : g = m.gen \/ g + 1 = m.gen => index'[g] = index[g] /\ utxo'[g] = utxo[g]
  BY <1>2 DEF Old
<1>5. /\ Repairable' <=> Repairable
      /\ ManifestIntact' <=> ManifestIntact
      /\ Available' \subseteq Available /\ Available \subseteq Generation
      /\ \A g \in Available : g = m.gen \/ g + 1 = m.gen => g \in Available'
      /\ \A g \in Generation : g \in Nat
  BY <1>3, <1>4, BoundAssumption DEF Repairable, ManifestIntact, Available, Generation
<1>6. ASSUME Repairable
      PROVE  /\ index[m.gen] \in {m.index, Damaged}
             /\ utxo[m.gen] \in {m.index.tip, Damaged}
             /\ m.gen > 1 => m.gen - 1 \in Available'
             /\ \A h \in Available : h <= m.gen
             /\ m.gen \in Available'
             /\ manifest \in {m, Damaged}
  <2>1. /\ index[m.gen] \in {m.index, Damaged}
        /\ utxo[m.gen] \in {m.index.tip, Damaged}
        /\ m.gen > 1 => m.gen - 1 \in Available
        /\ \A h \in Available : h <= m.gen
        /\ manifest \in {m, Damaged}
    BY <1>1, <1>3, <1>6 DEF RecoveryInv, WrittenInv
  <2>2. index[m.gen] # None /\ utxo[m.gen] # None
    BY <1>1, <2>1, MarkerAssumption, TreeAssumption
  <2>3. m.gen \in Available
    BY <1>1, <2>2 DEF Available
  <2>4. m.gen \in Nat /\ (m.gen - 1) + 1 = m.gen
    BY <1>1, <1>5
  <2>5. m.gen > 1 => m.gen - 1 \in Available'
    BY <1>5, <2>1, <2>4
  <2> QED BY <1>5, <2>1, <2>3, <2>5
<1>7. OneDamageInv'
  BY <1>3, <1>4, MarkerAssumption DEF RecoveryInv, OneDamageInv
<1>8. KeptInv'
  <2> SUFFICES ASSUME Repairable
               PROVE  /\ \A g \in Generation : index'[g] \in IndexFile => Readable(index[g])'
                      /\ Available' # {}
                      /\ ManifestIntact =>
                            /\ index'[manifest.gen] \in {manifest.index, Damaged}
                            /\ utxo'[manifest.gen] \in {manifest.index.tip, Damaged}
                            /\ Readable(manifest.index)
                            /\ manifest.gen > 1 => manifest.gen - 1 \in Available'
                            /\ \A h \in Available' : h <= manifest.gen + 1
    BY <1>3, <1>5 DEF KeptInv, Readable
  <2>1. KeptInv
    BY DEF RecoveryInv
  <2>2. \A g \in Generation : index'[g] \in IndexFile => Readable(index[g])'
    <3> SUFFICES ASSUME NEW g \in Generation, index'[g] \in IndexFile PROVE Readable(index[g])'
      OBVIOUS
    <3>1. index'[g] = index[g]
      BY <1>4, MarkerAssumption
    <3> QED BY <1>3, <2>1, <3>1 DEF KeptInv, Readable
  <2>3. ASSUME ManifestIntact
        PROVE  /\ index'[manifest.gen] \in {manifest.index, Damaged}
               /\ utxo'[manifest.gen] \in {manifest.index.tip, Damaged}
               /\ Readable(manifest.index)
               /\ manifest.gen > 1 => manifest.gen - 1 \in Available'
               /\ \A h \in Available' : h <= manifest.gen + 1
    <3>1. manifest = m
      BY <1>6, <2>3 DEF ManifestIntact
    <3>2. Readable(m.index)
      BY <2>1, <2>3, <3>1 DEF KeptInv
    <3>3. \A h \in Available' : h <= m.gen + 1
      BY <1>1, <1>5, <1>6
    <3>4. index'[m.gen] = index[m.gen] /\ utxo'[m.gen] = utxo[m.gen]
      BY <1>1, <1>4
    <3> QED BY <1>6, <3>1, <3>2, <3>3, <3>4
  <2> QED BY <1>6, <2>2, <2>3
<1>9. WrittenInv'
  BY <1>3 DEF WrittenInv
<1>10. NewerInv'
  <2> SUFFICES ASSUME Repairable, ManifestIntact
               PROVE  /\ \A h \in Available' : ~(h > manifest.gen)
                      /\ Work(tip[p]) >= Work(manifest.index.tip)
    BY <1>3, <1>5 DEF NewerInv
  <2>1. manifest = m
    BY <1>6 DEF ManifestIntact
  <2> QED BY <1>1, <1>5, <1>6, <2>1, WorkIsNat
<1> QED BY <1>7, <1>8, <1>9, <1>10 DEF RecoveryInv

\* One damaged chainstate file costs at most the newest generation (storage.cpp
\* load, commit and cleanup_old_generations: the predecessor is kept, and the
\* recovery scan takes the newest generation that can be read).  One process uses
\* the store: a second one may leave the files of a lighter chain behind.
THEOREM DamageIsRecoverable ==
    ASSUME \A p, q \in Proc : p = q
    PROVE  Spec => []OneDamageRecoverable
<1>1. Init => RecoveryInv
  <2> SUFFICES ASSUME Init PROVE RecoveryInv
    OBVIOUS
  <2>1. ~ManifestIntact /\ manifest = None
    BY DEF Init, ManifestIntact
  <2>2. \A g \in Generation : index[g] = None /\ utxo[g] = None
    BY DEF Init
  <2>3. OneDamageInv /\ KeptInv /\ WrittenInv /\ NewerInv
    BY <2>1, <2>2, MarkerAssumption DEF Init, OneDamageInv, KeptInv, WrittenInv, NewerInv
  <2> QED BY <2>3 DEF RecoveryInv
<1>2. IInv /\ IInv' /\ AloneInv /\ RecoveryInv /\ [Next]_vars => RecoveryInv'
  <2> SUFFICES ASSUME IInv, IInv', AloneInv, RecoveryInv, [Next]_vars PROVE RecoveryInv'
    OBVIOUS
  <2>0. Alone
    BY DEF Alone
  <2>1. ASSUME NEW p \in Proc, Operation(p) PROVE RecoveryInv'
    BY <2>0, <2>1, RecoveryOperation
  <2>2. ASSUME NEW p \in Proc, CommitStep(p) \/ Kill(p) PROVE RecoveryInv'
    BY <2>0, <2>2, RecoveryBlockFile, RecoveryWriteIndex, RecoveryWriteUtxo,
       RecoveryWriteManifest, RecoveryCleanup DEF CommitStep
  <2>3. CASE PowerLoss
    <3>1. losses' # 0
      BY <2>3 DEF PowerLoss, IInv, TypeOK
    <3>2. OneDamageInv'
      BY <2>3 DEF PowerLoss, RecoveryInv, OneDamageInv
    <3> QED BY <3>1, <3>2 DEF RecoveryInv, KeptInv, WrittenInv, NewerInv, Repairable
  <2>4. CASE Damage
    BY <2>4, RecoveryDamage
  <2>5. CASE UNCHANGED vars
    <3>1. UNCHANGED <<files, faults, pc, draft, tip>>
      BY <2>5 DEF vars
    <3>2. Repairable /\ ManifestIntact /\ index[manifest.gen] # Damaged =>
            \A q \in Proc : pc[q] # "idle" => Work(tip[q]) >= Work(manifest.index.tip)
      BY DEF RecoveryInv, NewerInv
    <3> QED BY <3>1, <3>2, RecoverySameFiles DEF files, faults
  <2> QED BY <2>1, <2>2, <2>3, <2>4, <2>5 DEF Next
<1>3. IInv /\ RecoveryInv => OneDamageRecoverable
  BY Recovered DEF IInv
<1> QED BY <1>1, <1>2, <1>3, Inductive, AloneInvariant, PTL DEF Spec
=============================================================================
