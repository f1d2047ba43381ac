-------------------------- MODULE NodeData_proofs ---------------------------
(***************************************************************************)
(* Proofs about NodeData, for every block tree, every set of transactions  *)
(* and any number of sessions.                                             *)
(***************************************************************************)
EXTENDS NodeData, SequenceTheorems, FiniteSetTheorems, WellFoundedInduction, TLAPS

-----------------------------------------------------------------------------
(* Sequences of transactions.                                              *)

\* What appending a transaction (TestnetMempool::add) does to the mempool.
LEMMA AppendFacts ==
    ASSUME NEW s \in Seq(Tx), NEW t \in Tx
    PROVE  /\ Append(s, t) \in Seq(Tx)
           /\ ToSet(Append(s, t)) = ToSet(s) \cup {t}
           /\ Len(Append(s, t)) = Len(s) + 1
           /\ Append(s, t)[Len(s) + 1] = t
           /\ \A i \in 1..Len(s) : Append(s, t)[i] = s[i]
<1>1. /\ Append(s, t) \in Seq(Tx) /\ Len(Append(s, t)) = Len(s) + 1
      /\ Append(s, t)[Len(s) + 1] = t
      /\ \A i \in 1..Len(s) : Append(s, t)[i] = s[i]
      /\ DOMAIN Append(s, t) = 1..(Len(s) + 1) /\ DOMAIN s = 1..Len(s) /\ Len(s) \in Nat
  BY AppendProperties, LenProperties
<1>2. ToSet(Append(s, t)) = ToSet(s) \cup {t}
  BY <1>1 DEF ToSet
<1> QED BY <1>1, <1>2

\* The loops of revalidate and activate_candidate take their transactions from
\* the front.
LEMMA TailFacts ==
    ASSUME NEW s \in Seq(Tx), s # <<>>
    PROVE  /\ Head(s) \in ToSet(s) /\ Head(s) \in Tx
           /\ Tail(s) \in Seq(Tx)
           /\ ToSet(Tail(s)) \subseteq ToSet(s)
<1>1. /\ Len(s) \in Nat /\ Len(s) > 0 /\ DOMAIN s = 1..Len(s) /\ Head(s) = s[1]
      /\ Tail(s) \in Seq(Tx) /\ Len(Tail(s)) = Len(s) - 1
      /\ \A i \in 1..Len(Tail(s)) : Tail(s)[i] = s[i + 1]
  BY HeadTailProperties, LenProperties, EmptySeq
<1>2. DOMAIN Tail(s) = 1..Len(Tail(s))
  BY <1>1, LenProperties
<1> QED BY <1>1, <1>2 DEF ToSet

LEMMA ConcatFacts ==
    ASSUME NEW s \in Seq(Tx), NEW u \in Seq(Tx)
    PROVE  /\ s \o u \in Seq(Tx)
           /\ Len(s \o u) = Len(s) + Len(u)
           /\ \A i \in 1..Len(s) : (s \o u)[i] = s[i]
           /\ \A i \in 1..Len(u) : (s \o u)[Len(s) + i] = u[i]
           /\ ToSet(s \o u) = ToSet(s) \cup ToSet(u)
<1>1. /\ s \o u \in Seq(Tx)
      /\ Len(s \o u) = Len(s) + Len(u)
      /\ \A i \in 1..(Len(s) + Len(u)) : (s \o u)[i] = IF i <= Len(s) THEN s[i] ELSE u[i - Len(s)]
  BY ConcatProperties
<1>2. /\ Len(s) \in Nat /\ Len(u) \in Nat
      /\ DOMAIN s = 1..Len(s) /\ DOMAIN u = 1..Len(u)
      /\ DOMAIN (s \o u) = 1..(Len(s) + Len(u))
  BY <1>1, LenProperties
<1>3. \A i \in 1..Len(s) : (s \o u)[i] = s[i]
  BY <1>1, <1>2
<1>4. \A i \in 1..Len(u) : (s \o u)[Len(s) + i] = u[i]
  BY <1>1, <1>2
<1>5. ToSet(s \o u) \subseteq ToSet(s) \cup ToSet(u)
  <2> SUFFICES ASSUME NEW i \in 1..(Len(s) + Len(u))
               PROVE  (s \o u)[i] \in ToSet(s) \cup ToSet(u)
    BY <1>2 DEF ToSet
  <2>1. CASE i <= Len(s)
    BY <2>1, <1>1, <1>2 DEF ToSet
  <2>2. CASE ~(i <= Len(s))
    <3>1. i - Len(s) \in 1..Len(u)
      BY <2>2, <1>2
    <3> QED BY <3>1, <2>2, <1>1, <1>2 DEF ToSet
  <2> QED BY <2>1, <2>2
<1>6. ToSet(s) \cup ToSet(u) \subseteq ToSet(s \o u)
  <2>1. \A i \in 1..Len(u) : Len(s) + i \in 1..(Len(s) + Len(u))
    BY <1>2
  <2>2. \A i \in 1..Len(s) : i \in 1..(Len(s) + Len(u))
    BY <1>2
  <2> QED BY <1>2, <1>3, <1>4, <2>1, <2>2 DEF ToSet
<1> QED BY <1>1, <1>3, <1>4, <1>5, <1>6

\* The UTXO set is built from the chain, then the mempool, then one more transaction.
LEMMA ConcatAssoc ==
    \A x, y, z \in Seq(Tx) : x \o (y \o z) = (x \o y) \o z
<1> SUFFICES ASSUME NEW x \in Seq(Tx), NEW y \in Seq(Tx), NEW z \in Seq(Tx)
             PROVE  x \o (y \o z) = (x \o y) \o z
  OBVIOUS
<1> QED BY ConcatAssociative

-----------------------------------------------------------------------------
(* Transactions that apply.                                                *)

\* A transaction never applies after itself: it has spent its inputs.
LEMMA AppliesOnce ==
    ASSUME NEW s \in Seq(Tx), NEW t \in Tx, Spendable(t, s)
    PROVE  t \notin ToSet(s)
BY CoinAssumption DEF Spendable, After

\* apply_transaction on top of a valid sequence keeps it valid.
LEMMA AppendValid ==
    ASSUME NEW s \in Seq(Tx), NEW t \in Tx, Valid(s), Spendable(t, s)
    PROVE  Valid(Append(s, t))
<1> DEFINE a == Append(s, t)
<1>1. /\ a \in Seq(Tx) /\ Len(a) = Len(s) + 1 /\ a[Len(s) + 1] = t
      /\ \A i \in 1..Len(s) : a[i] = s[i]
      /\ DOMAIN a = 1..(Len(s) + 1) /\ DOMAIN s = 1..Len(s) /\ Len(s) \in Nat
  BY AppendFacts, LenProperties
<1> HIDE DEF a
<1>2. ASSUME NEW i \in 1..(Len(s) + 1)
      PROVE  SubSeq(a, 1, i - 1) = SubSeq(s, 1, i - 1)
  BY <1>1, Z3
<1>3. SubSeq(s, 1, Len(s)) = s
  BY SubSeqFull
<1>4. ASSUME NEW i \in 1..(Len(s) + 1)
      PROVE  Spendable(a[i], SubSeq(a, 1, i - 1))
  <2>1. CASE i = Len(s) + 1
    <3>1. a[i] = t /\ i - 1 = Len(s)
      BY <2>1, <1>1
    <3>2. SubSeq(a, 1, i - 1) = s
      BY <3>1, <1>2, <1>3
    <3> QED BY <3>1, <3>2
  <2>2. CASE i \in 1..Len(s)
    BY <2>2, <1>1, <1>2 DEF Valid
  <2> QED BY <2>1, <2>2, <1>1
<1>5. Valid(a)
  BY <1>1, <1>4 DEF Valid
<1> QED BY <1>5 DEF a

\* The empty mempool applies to every chain.
LEMMA EmptyApplies ==
    ASSUME NEW b \in Block
    PROVE  Applies(<<>>, b)
<1>1. History[b] \in Seq(Tx) /\ Valid(History[b])
  BY HistoryAssumption
<1>2. History[b] \o <<>> = History[b]
  BY <1>1, ConcatEmptySeq
<1> QED BY <1>1, <1>2 DEF Applies

\* What TestnetMempool::add accepts keeps the mempool applicable.
LEMMA AddApplies ==
    ASSUME NEW b \in Block, NEW p \in Seq(Tx), NEW t \in Tx,
           Applies(p, b), Spendable(t, History[b] \o p)
    PROVE  Applies(Append(p, t), b)
<1>1. History[b] \in Seq(Tx)
  BY HistoryAssumption
<1>2. History[b] \o p \in Seq(Tx) /\ <<t>> \in Seq(Tx)
  BY <1>1, ConcatFacts
<1>3. Append(p, t) = p \o <<t>> /\ Append(History[b] \o p, t) = (History[b] \o p) \o <<t>>
  BY <1>2, AppendIsConcat
<1>4. History[b] \o Append(p, t) = Append(History[b] \o p, t)
  <2>1. History[b] \o (p \o <<t>>) = (History[b] \o p) \o <<t>>
    BY <1>1, <1>2, ConcatAssoc
  <2> QED BY <2>1, <1>3, Zenon
<1> QED BY <1>2, <1>4, AppendValid DEF Applies

\* In a mempool that applies, each transaction applies after those before it, and
\* the chain does not confirm it: revalidate retains all of it.
LEMMA NextApplies ==
    ASSUME NEW b \in Block, NEW k \in Seq(Tx), NEW r \in Seq(Tx), r # <<>>,
           Applies(k \o r, b)
    PROVE  /\ Spendable(Head(r), History[b] \o k)
           /\ Head(r) \notin Confirmed(b)
           /\ Append(k, Head(r)) \o Tail(r) = k \o r
<1> DEFINE h == History[b]
           s == h \o k
<1>1. h \in Seq(Tx) /\ s \in Seq(Tx)
  BY HistoryAssumption, ConcatFacts
<1>2. Head(r) \in Tx /\ Head(r) = r[1] /\ Len(r) \in Nat /\ Len(r) > 0
  BY HeadTailProperties, LenProperties, EmptySeq
<1>3. h \o (k \o r) = s \o r
  BY <1>1, ConcatAssoc
<1>4. /\ s \o r \in Seq(Tx) /\ Len(s \o r) = Len(s) + Len(r)
      /\ (s \o r)[Len(s) + 1] = r[1]
      /\ DOMAIN (s \o r) = 1..(Len(s) + Len(r)) /\ Len(s) \in Nat
  <2>1. /\ s \o r \in Seq(Tx) /\ Len(s \o r) = Len(s) + Len(r)
        /\ \A i \in 1..Len(r) : (s \o r)[Len(s) + i] = r[i]
    BY <1>1, ConcatFacts
  <2>2. 1 \in 1..Len(r)
    BY <1>2
  <2> QED BY <2>1, <2>2, <1>1, LenProperties
<1>5. SubSeq(s \o r, 1, Len(s)) = s
  BY <1>1, SubSeqOfConcat1, SubSeqFull, LenProperties
<1>6. Spendable(Head(r), s)
  <2>1. Len(s) + 1 \in DOMAIN (s \o r) /\ Len(s) + 1 - 1 = Len(s)
    BY <1>2, <1>4
  <2>2. Spendable((s \o r)[Len(s) + 1], SubSeq(s \o r, 1, Len(s)))
    BY <2>1, <1>3 DEF Applies, Valid
  <2> QED BY <2>2, <1>2, <1>4, <1>5
<1>7. Head(r) \notin Confirmed(b)
  <2>1. Head(r) \notin ToSet(s)
    BY <1>1, <1>2, <1>6, AppliesOnce
  <2>2. ToSet(s) = ToSet(h) \cup ToSet(k)
    BY <1>1, ConcatFacts
  <2> QED BY <2>1, <2>2 DEF Confirmed
<1>8. Append(k, Head(r)) \o Tail(r) = k \o r
  <2>1. r = <<Head(r)>> \o Tail(r) /\ Tail(r) \in Seq(Tx) /\ Append(k, Head(r)) = k \o <<Head(r)>>
    BY <1>2, HeadTailProperties, AppendIsConcat, ConcatSimplifications, Z3
  <2>2. <<Head(r)>> \in Seq(Tx)
    BY <1>2
  <2> QED BY <2>1, <2>2, ConcatAssociative
<1> QED BY <1>6, <1>7, <1>8

-----------------------------------------------------------------------------
(* Work.                                                                   *)

\* A set of natural numbers that is not empty has a least element.
LEMMA LeastExists ==
    ASSUME NEW S \in SUBSET Nat, S # {}
    PROVE  \E m \in S : \A n \in S : m <= n
<1>1. PICK m \in S : \A n \in S : <<n, m>> \notin OpToRel(<, Nat)
  BY WFMin, NatLessThanWellFounded
<1>2. \A n \in S : m <= n
  <2> TAKE n \in S
  <2>1. <<n, m>> \notin {ss \in Nat \X Nat : ss[1] < ss[2]}
    BY <1>1 DEF OpToRel
  <2> QED BY <2>1
<1> QED BY <1>2

\* A longer chain has more work (every block has the same target).
LEMMA WorkFacts ==
    ASSUME NEW a \in Block, NEW b \in Block
    PROVE  /\ Work(a) \in Nat
           /\ Chain[a] \subseteq Chain[b] => Work(a) <= Work(b)
           /\ Chain[a] \subseteq Chain[b] /\ Chain[a] # Chain[b] => Work(a) < Work(b)
<1>1. IsFiniteSet(Chain[a]) /\ IsFiniteSet(Chain[b])
  BY FiniteChains
<1>2. Cardinality(Chain[a]) \in Nat /\ Cardinality(Chain[b]) \in Nat
  BY <1>1, FS_CardinalityType
<1>3. CASE Chain[a] \subseteq Chain[b]
  <2>1. /\ Cardinality(Chain[a]) <= Cardinality(Chain[b])
        /\ Cardinality(Chain[b]) = Cardinality(Chain[a]) => Chain[b] = Chain[a]
    BY <1>1, <1>3, FS_Subset
  <2> QED BY <2>1, <1>2 DEF Work
<1>4. CASE ~(Chain[a] \subseteq Chain[b])
  BY <1>2, <1>4 DEF Work
<1> QED BY <1>3, <1>4

\* Two chains share Genesis, so they have a fork.
LEMMA ForkFacts ==
    ASSUME NEW a \in Block, NEW b \in Block
    PROVE  /\ Fork(a, b) \in Chain[a] \cap Chain[b]
           /\ Fork(a, b) \in Block
           /\ \A d \in Chain[a] \cap Chain[b] : Work(d) <= Work(Fork(a, b))
<1> DEFINE C == Chain[a] \cap Chain[b]
           S == {Work(a) - Work(c) : c \in C}
<1>1. C \subseteq Block /\ Genesis \in C
  BY TreeAssumption
<1>2. \A c \in C : Work(c) \in Nat /\ Work(a) - Work(c) \in Nat
  <2> TAKE c \in C
  <2>1. c \in Block /\ Chain[c] \subseteq Chain[a]
    BY <1>1, TreeAssumption
  <2>2. Work(c) \in Nat /\ Work(a) \in Nat /\ Work(c) <= Work(a)
    BY <2>1, WorkFacts
  <2> QED BY <2>2
<1>3. S \in SUBSET Nat /\ S # {}
  BY <1>1, <1>2
<1> HIDE DEF S, C
<1>4. PICK m \in S : \A n \in S : m <= n
  BY <1>3, LeastExists
<1>5. PICK c \in C : m = Work(a) - Work(c)
  BY <1>4 DEF S
<1>6. \A d \in C : Work(d) <= Work(c)
  <2> TAKE d \in C
  <2>1. Work(a) - Work(c) <= Work(a) - Work(d)
    BY <1>4, <1>5 DEF S
  <2>2. Work(a) \in Nat /\ Work(c) \in Nat /\ Work(d) \in Nat
    BY <1>1, <1>2, WorkFacts
  <2> QED BY <2>1, <2>2
<1>7. /\ Fork(a, b) \in C
      /\ \A d \in C : Work(d) <= Work(Fork(a, b))
  BY <1>6 DEF Fork, C
<1> QED BY <1>1, <1>7 DEF C

\* The disconnected transactions are transactions of the old chain.
LEMMA LostFacts ==
    ASSUME NEW a \in Block, NEW b \in Block
    PROVE  Lost(a, b) \in Seq(Tx) /\ ToSet(Lost(a, b)) \subseteq Confirmed(a)
<1> DEFINE h == History[a]
           n == Len(History[Fork(a, b)])
<1>1. h \in Seq(Tx) /\ n \in Nat /\ Len(h) \in Nat
  <2>1. History[Fork(a, b)] \in Seq(Tx) /\ h \in Seq(Tx)
    BY ForkFacts, HistoryAssumption
  <2> QED BY <2>1, LenProperties
<1> HIDE DEF h, n
<1>2. DOMAIN h = 1..Len(h) /\ \A i \in 1..Len(h) : h[i] \in Tx
  BY <1>1, LenProperties, ElementOfSeq
<1>3. \A i \in (n + 1)..Len(h) : h[i] \in Tx
  BY <1>1, <1>2
<1> DEFINE l == SubSeq(h, n + 1, Len(h))
<1>4. /\ l \in Seq(Tx)
      /\ Len(l) = IF n + 1 <= Len(h) THEN Len(h) - (n + 1) + 1 ELSE 0
      /\ \A i \in 1..(Len(h) - (n + 1) + 1) : l[i] = h[n + 1 + i - 1]
  BY <1>1, <1>3, SubSeqProperties
<1> HIDE DEF l
<1>5. ToSet(l) \subseteq ToSet(h)
  <2> SUFFICES ASSUME NEW i \in 1..Len(l) PROVE l[i] \in ToSet(h)
    BY <1>4, LenProperties DEF ToSet
  <2>1. i \in 1..(Len(h) - (n + 1) + 1) /\ n + 1 + i - 1 \in 1..Len(h)
    BY <1>1, <1>4
  <2> QED BY <2>1, <1>2, <1>4 DEF ToSet
<1> QED BY <1>4, <1>5 DEF Lost, Confirmed, h, n, l

-----------------------------------------------------------------------------
(* Facts used by several steps of the invariance proof.                    *)

\* A block that extends the active chain has more work than the old tip.
LEMMA ExtendsHasMoreWork ==
    ASSUME chain \in Block, NEW a \in Block, NEW b \in Block,
           Extends(a), Chain[a] \subseteq Chain[b]
    PROVE  Work(b) > Work(chain)
<1>1. Chain[chain] \subseteq Chain[a] /\ Chain[chain] # Chain[a]
  BY TreeAssumption DEF Extends
<1>2. Work(chain) < Work(a) /\ Work(a) <= Work(b)
  BY <1>1, WorkFacts
<1> QED BY <1>2, WorkFacts

\* The fields of the job record.
LEMMA JobFields ==
    ASSUME job \in Job
    PROVE  /\ job.step \in {"idle", "branches", "activate", "remove", "revalidate",
                            "return", "clear"}
           /\ job.session \in Session \cup {None}
           /\ job.from \in Block /\ job.before \in Seq(Tx)
           /\ job.rest \in Seq(Tx) /\ job.kept \in Seq(Tx)
BY DEF Job

\* The handler that holds data_mutex begins with the data as it is.
LEMMA StartFacts ==
    ASSUME chain \in Block, pool \in Seq(Tx), NEW s \in Session \cup {None},
           NEW step \in {"branches", "remove", "clear"}, Start(step, s)
    PROVE  /\ job' \in Job /\ job'.step = step /\ job'.session = s
           /\ job'.from = chain /\ job'.before = pool
           /\ job'.rest = <<>> /\ job'.kept = <<>>
BY EmptySeq DEF Start, Job

\* A step of a session that leaves the files of the chain and the mempool alone
\* does not disturb the handler at work.
LEMMA SessionKeepsJob ==
    ASSUME JobInv, PoolInv, UNCHANGED <<chain, pool, job, faults>>,
           job.step \in {"branches", "activate"} =>
              /\ candidate'[job.session] \in Candidate
              /\ candidate'[job.session].phase = candidate[job.session].phase
    PROVE  JobInv' /\ PoolInv'
<1>1. JobInv'
  BY DEF JobInv, Free
<1>2. PoolInv'
  BY DEF PoolInv, Free, Applies, Confirmed
<1> QED BY <1>1, <1>2

-----------------------------------------------------------------------------
(* The invariant.                                                          *)

\* The initial state satisfies the invariant.
LEMMA InitIInv ==
    ASSUME Init
    PROVE  IInv
<1>1. TypeOK
  BY TreeAssumption, FaultAssumption, EmptySeq DEF Init, TypeOK, Idle, Job
<1>2. JobInv
  BY DEF Init, JobInv, Free, Idle
<1>3. PoolInv
  BY TreeAssumption, EmptyApplies DEF Init, PoolInv, Free, Idle
<1> QED BY <1>1, <1>2, <1>3 DEF IInv

\* TestnetMempool::add on behalf of tx and sendtoaddress.
LEMMA AddTransactionStep ==
    ASSUME IInv, NEW t \in Tx, AddTransaction(t)
    PROVE  IInv'
<1>1. TypeOK'
  BY AppendFacts DEF IInv, TypeOK, AddTransaction
<1>2. JobInv'
  BY DEF IInv, JobInv, AddTransaction, Free
<1>3. PoolInv'
  <2>1. Applies(Append(pool, t), chain)
    BY AddApplies DEF IInv, TypeOK, AddTransaction, Accepts
  <2> QED BY <2>1 DEF PoolInv, AddTransaction, Free, Applies
<1> QED BY <1>1, <1>2, <1>3 DEF IInv

\* The handlers that change the side store or a candidate only.
LEMMA SideStoreStep ==
    ASSUME IInv, NEW b \in Block, StoreSideBlock(b)
    PROVE  IInv'
<1>1. TypeOK'
  BY DEF IInv, TypeOK, StoreSideBlock
<1>2. JobInv' /\ PoolInv'
  BY SessionKeepsJob DEF IInv, JobInv, StoreSideBlock
<1> QED BY <1>1, <1>2 DEF IInv

LEMMA StartCandidateStep ==
    ASSUME IInv, NEW s \in Session, NEW b \in Block, StartCandidate(s, b)
    PROVE  IInv'
<1>1. [phase |-> "headers", base |-> chain, tip |-> b, fork |-> chain, pending |-> {}]
        \in Candidate
  BY DEF IInv, TypeOK, Candidate
<1>2. TypeOK'
  BY <1>1 DEF IInv, TypeOK, StartCandidate
<1>3. JobInv' /\ PoolInv'
  BY SessionKeepsJob DEF IInv, StartCandidate, Free
<1> QED BY <1>2, <1>3 DEF IInv

LEMMA ReceiveHeadersStep ==
    ASSUME IInv, NEW s \in Session, ReceiveHeaders(s)
    PROVE  IInv'
<1> DEFINE c == candidate[s]
           fork == Fork(c.base, c.tip)
           pending == Chain[c.tip] \ (Chain[fork] \cup Chain[chain] \cup side)
<1>1. c \in Candidate /\ c.base \in Block /\ c.tip \in Block
  BY DEF IInv, TypeOK, ReceiveHeaders, Candidate
<1>2. fork \in Block /\ pending \subseteq Block
  <2>1. Chain[c.tip] \subseteq Block
    BY <1>1, TreeAssumption
  <2> QED BY <2>1, <1>1, ForkFacts
<1> HIDE DEF fork, pending
<1>3. [c EXCEPT !.phase = "bodies", !.fork = fork, !.pending = pending] \in Candidate
  BY <1>1, <1>2 DEF Candidate
<1>4. candidate' = [candidate EXCEPT ![s] =
         [c EXCEPT !.phase = "bodies", !.fork = fork, !.pending = pending]]
  BY DEF IInv, TypeOK, ReceiveHeaders, fork, pending
<1>5. TypeOK'
  <2>1. candidate' \in [Session -> Candidate \cup {None}]
    BY <1>3, <1>4 DEF IInv, TypeOK
  <2> QED BY <2>1 DEF IInv, TypeOK, ReceiveHeaders
<1>6. JobInv' /\ PoolInv'
  BY SessionKeepsJob DEF IInv, ReceiveHeaders, Free
<1> QED BY <1>5, <1>6 DEF IInv

LEMMA ReceiveCandidateBlockStep ==
    ASSUME IInv, NEW s \in Session, NEW b \in Block, ReceiveCandidateBlock(s, b)
    PROVE  IInv'
<1> DEFINE c == candidate[s]
           d == [c EXCEPT !.pending = @ \ {b}]
<1>1. c \in Candidate
  BY DEF IInv, TypeOK, ReceiveCandidateBlock, Pending
<1>2. d \in Candidate /\ d.phase = c.phase
  BY <1>1 DEF Candidate
<1>3. candidate' = [candidate EXCEPT ![s] = d]
  BY DEF IInv, TypeOK, ReceiveCandidateBlock
<1> HIDE DEF d
<1>4. TypeOK'
  BY <1>2, <1>3 DEF IInv, TypeOK, ReceiveCandidateBlock
<1>5. JobInv' /\ PoolInv'
  BY <1>2, <1>3, SessionKeepsJob DEF IInv, TypeOK, JobInv, ReceiveCandidateBlock
<1> QED BY <1>4, <1>5 DEF IInv

LEMMA DisconnectStep ==
    ASSUME IInv, NEW s \in Session, Disconnect(s)
    PROVE  IInv'
<1>1. TypeOK'
  BY DEF IInv, TypeOK, Disconnect
<1>2. JobInv' /\ PoolInv'
  BY SessionKeepsJob DEF IInv, TypeOK, JobInv, Disconnect
<1> QED BY <1>1, <1>2 DEF IInv

\* The handlers that take data_mutex for several saves.
LEMMA ConnectBlockStep ==
    ASSUME IInv, NEW b \in Block, ConnectBlock(b)
    PROVE  IInv'
<1>1. /\ job' \in Job /\ job'.step = "remove" /\ job'.from = chain
      /\ job'.before = pool /\ job'.kept = <<>>
  BY StartFacts DEF IInv, TypeOK, ConnectBlock
<1>2. Work(b) > Work(chain)
  BY ExtendsHasMoreWork DEF IInv, TypeOK, ConnectBlock
<1>3. TypeOK'
  BY <1>1 DEF IInv, TypeOK, ConnectBlock
<1>4. JobInv'
  BY <1>1, <1>2 DEF IInv, TypeOK, JobInv, ConnectBlock, Free, Work
<1>5. PoolInv'
  BY <1>1 DEF IInv, PoolInv, ConnectBlock, Free, Applies
<1> QED BY <1>3, <1>4, <1>5 DEF IInv

LEMMA GenerateStep ==
    ASSUME IInv, NEW b \in Block, Generate(b)
    PROVE  IInv' /\ Work(b) > Work(chain)
<1>1. /\ job' \in Job /\ job'.step = "clear" /\ job'.from = chain
      /\ job'.before = pool /\ job'.kept = <<>>
  BY StartFacts DEF IInv, TypeOK, Generate
<1>2. Work(b) > Work(chain)
  <2>1. PICK first \in Chain[b] : Extends(first)
    BY DEF Generate
  <2>2. first \in Block /\ Chain[first] \subseteq Chain[b]
    BY <2>1, TreeAssumption
  <2> QED BY <2>1, <2>2, ExtendsHasMoreWork DEF IInv, TypeOK
<1>3. TypeOK'
  BY <1>1, TreeAssumption DEF IInv, TypeOK, Generate
<1>4. JobInv'
  BY <1>1, <1>2 DEF IInv, TypeOK, JobInv, Generate, Free, Work
<1>5. PoolInv'
  BY <1>1 DEF IInv, PoolInv, Generate, Free, Applies
<1> QED BY <1>2, <1>3, <1>4, <1>5 DEF IInv

LEMMA ActivateCandidateStep ==
    ASSUME IInv, NEW s \in Session, ActivateCandidate(s)
    PROVE  IInv'
<1> DEFINE d == [candidate[s] EXCEPT !.phase = "activating"]
<1>1. /\ job' \in Job /\ job'.step = "branches" /\ job'.session = s
      /\ job'.from = chain /\ job'.before = pool /\ job'.kept = <<>>
  BY StartFacts DEF IInv, TypeOK, ActivateCandidate
<1>2. d \in Candidate /\ d.phase = "activating"
  BY DEF IInv, TypeOK, ActivateCandidate, Candidate
<1>3. candidate' = [candidate EXCEPT ![s] = d]
  BY DEF IInv, TypeOK, ActivateCandidate
<1> HIDE DEF d
<1>4. TypeOK'
  BY <1>1, <1>2, <1>3 DEF IInv, TypeOK, ActivateCandidate
<1>5. JobInv'
  BY <1>1, <1>2, <1>3 DEF IInv, TypeOK, JobInv, ActivateCandidate, Free
<1>6. PoolInv'
  BY <1>1 DEF IInv, PoolInv, ActivateCandidate, Free, Applies
<1> QED BY <1>4, <1>5, <1>6 DEF IInv

\* The steps of a handler at work.
LEMMA ClearPoolStep ==
    ASSUME IInv, ClearPool
    PROVE  IInv'
<1>1. TypeOK'
  BY TreeAssumption, EmptySeq DEF IInv, TypeOK, ClearPool, Idle, Job
<1>2. JobInv'
  BY DEF JobInv, ClearPool, Idle, Free
<1>3. PoolInv'
  BY EmptyApplies DEF IInv, TypeOK, PoolInv, ClearPool, Idle, Free, Applies
<1> QED BY <1>1, <1>2, <1>3 DEF IInv

LEMMA StoreDisconnectedStep ==
    ASSUME IInv, StoreDisconnected
    PROVE  IInv'
<1>1. /\ job' = [job EXCEPT !.step = "activate"] /\ job \in Job
  BY DEF IInv, TypeOK, StoreDisconnected
<1>2. /\ job' \in Job /\ job'.step = "activate" /\ job'.session = job.session
      /\ job'.from = job.from /\ job'.before = job.before /\ job'.kept = job.kept
  BY <1>1 DEF Job
<1>3. TypeOK'
  <2>1. Chain[chain] \subseteq Block
    BY TreeAssumption DEF IInv, TypeOK
  <2> QED BY <2>1, <1>2 DEF IInv, TypeOK, StoreDisconnected
<1>4. JobInv'
  BY <1>2 DEF IInv, JobInv, StoreDisconnected, Free
<1>5. PoolInv'
  BY <1>2 DEF IInv, PoolInv, StoreDisconnected, Free, Applies
<1> QED BY <1>3, <1>4, <1>5 DEF IInv

LEMMA RemoveActiveStep ==
    ASSUME IInv, RemoveActive
    PROVE  IInv'
<1>1. job' = [job EXCEPT !.step = "revalidate", !.rest = pool] /\ job \in Job
  BY DEF IInv, TypeOK, RemoveActive
<1>2. /\ job' \in Job /\ job'.step = "revalidate"
      /\ job'.from = job.from /\ job'.before = job.before
      /\ job'.kept = job.kept /\ job'.rest = pool
  BY <1>1 DEF IInv, TypeOK, Job
<1>3. TypeOK'
  BY <1>2 DEF IInv, TypeOK, RemoveActive
<1>4. JobInv'
  BY <1>2 DEF IInv, TypeOK, JobInv, RemoveActive, Free, Work
<1>5. PoolInv'
  <2>1. Applies(<<>>, chain) /\ <<>> \o pool = pool
    BY EmptyApplies, ConcatEmptySeq DEF IInv, TypeOK
  <2>2. job.kept = <<>> /\ pool = job.before
    BY DEF IInv, JobInv, RemoveActive
  <2>3. ToSet(<<>>) = {}
    BY DEF ToSet
  <2>4. faults = 0 => Applies(job.before, job.from)
    BY DEF IInv, PoolInv, RemoveActive, Free
  <2> QED BY <1>2, <2>1, <2>2, <2>3, <2>4 DEF PoolInv, RemoveActive, Free, Applies
<1> QED BY <1>3, <1>4, <1>5 DEF IInv

LEMMA ActivateIfMoreWorkStep ==
    ASSUME IInv, ActivateIfMoreWork
    PROVE  IInv' /\ (chain' # chain => Work(chain') > Work(chain))
<1> DEFINE tip == candidate[job.session].tip
<1>1. /\ job \in Job /\ job.step = "activate" /\ tip \in Block
      /\ chain = job.from /\ pool = job.before /\ job.kept = <<>>
      /\ candidate[job.session] \in Candidate
      /\ Chain[tip] \subseteq Block
  <2>1. candidate[job.session] \in Candidate /\ job.step = "activate"
    BY DEF IInv, JobInv, ActivateIfMoreWork
  <2>2. tip \in Block
    BY <2>1 DEF Candidate
  <2> QED BY <2>1, <2>2, TreeAssumption DEF IInv, TypeOK, JobInv
<1>2. CASE Work(tip) > Work(chain)
  <2>1. /\ chain' = tip /\ reached' = reached \cup Chain[tip]
        /\ job' = [job EXCEPT !.step = "remove"]
    BY <1>2 DEF ActivateIfMoreWork
  <2>2. /\ job' \in Job /\ job'.step = "remove" /\ job'.from = job.from
        /\ job'.before = job.before /\ job'.kept = job.kept
    BY <1>1, <2>1 DEF Job
  <2>3. TypeOK'
    BY <1>1, <2>1, <2>2 DEF IInv, TypeOK, ActivateIfMoreWork
  <2>4. JobInv'
    BY <1>1, <1>2, <2>1, <2>2 DEF IInv, JobInv, ActivateIfMoreWork, Free, Work
  <2>5. PoolInv'
    BY <1>1, <2>1, <2>2 DEF IInv, PoolInv, ActivateIfMoreWork, Free, Applies
  <2>6. Work(chain') > Work(chain)
    BY <1>2, <2>1 DEF Work
  <2> QED BY <2>3, <2>4, <2>5, <2>6 DEF IInv
<1>3. CASE ~(Work(tip) > Work(chain))
  <2>1. /\ chain' = chain /\ reached' = reached /\ pool' = pool
        /\ job' = [job EXCEPT !.step = "revalidate", !.rest = pool]
    BY <1>3 DEF ActivateIfMoreWork
  <2>2. /\ job' \in Job /\ job'.step = "revalidate" /\ job'.from = job.from
        /\ job'.before = job.before /\ job'.kept = job.kept /\ job'.rest = pool
    BY <1>1, <2>1 DEF IInv, TypeOK, Job
  <2>3. TypeOK'
    BY <2>1, <2>2 DEF IInv, TypeOK, ActivateIfMoreWork
  <2>4. JobInv'
    BY <1>1, <2>1, <2>2 DEF IInv, JobInv, ActivateIfMoreWork, Free
  <2>5. PoolInv'
    <3>1. Applies(<<>>, chain) /\ <<>> \o pool = pool
      BY EmptyApplies, ConcatEmptySeq DEF IInv, TypeOK
    <3>2. ToSet(<<>>) = {}
      BY DEF ToSet
    <3>3. faults = 0 => Applies(job.before, job.from)
      BY <1>1 DEF IInv, PoolInv, Free
    <3> QED BY <1>1, <2>1, <2>2, <3>1, <3>2, <3>3 DEF PoolInv, ActivateIfMoreWork, Free, Applies
  <2> QED BY <2>1, <2>3, <2>4, <2>5 DEF IInv
<1> QED BY <1>2, <1>3

\* One round of the loop of revalidate: what is retained applies, and if the chain
\* has not changed, everything is retained.
LEMMA RevalidateStep ==
    ASSUME IInv, Revalidate
    PROVE  IInv'
<1> DEFINE t == Head(job.rest)
           keep == t \notin Confirmed(chain) /\ Spendable(t, History[chain] \o job.kept)
           kept == IF keep THEN Append(job.kept, t) ELSE job.kept
<1>1. /\ job \in Job /\ job.step = "revalidate" /\ job.rest # <<>>
      /\ job.rest \in Seq(Tx) /\ job.kept \in Seq(Tx) /\ chain \in Block
      /\ job.before \in Seq(Tx) /\ job.from \in Block
  BY JobFields DEF IInv, TypeOK, Revalidate
<1>2. t \in ToSet(job.rest) /\ t \in Tx /\ Tail(job.rest) \in Seq(Tx)
      /\ ToSet(Tail(job.rest)) \subseteq ToSet(job.rest)
  BY <1>1, TailFacts
<1>3. kept \in Seq(Tx) /\ ToSet(kept) \subseteq ToSet(job.kept) \cup {t}
  BY <1>1, <1>2, AppendFacts
<1>4. job' = [job EXCEPT !.rest = Tail(job.rest), !.kept = kept]
  BY DEF Revalidate
<1> HIDE DEF kept
<1>5. /\ job' \in Job /\ job'.step = "revalidate" /\ job'.from = job.from
      /\ job'.before = job.before /\ job'.kept = kept /\ job'.rest = Tail(job.rest)
  BY <1>1, <1>2, <1>3, <1>4 DEF Job
<1>6. TypeOK'
  BY <1>5 DEF IInv, TypeOK, Revalidate
<1>7. JobInv'
  BY <1>1, <1>5 DEF IInv, JobInv, Revalidate, Free, Work
<1>8. PoolInv'
  <2> SUFFICES ASSUME faults = 0 PROVE PoolInv'
    BY DEF PoolInv, Revalidate
  <2>1. /\ Applies(job.before, job.from) /\ Applies(job.kept, chain)
        /\ ToSet(job.kept) \cup ToSet(job.rest) \subseteq ToSet(job.before)
        /\ chain = job.from => job.kept \o job.rest = job.before
    BY <1>1 DEF IInv, PoolInv, Free
  <2>2. Applies(kept, chain)
    BY <1>1, <1>2, <2>1, AddApplies DEF kept
  <2>3. ToSet(kept) \cup ToSet(Tail(job.rest)) \subseteq ToSet(job.before)
    BY <1>2, <1>3, <2>1
  <2>4. ASSUME chain = job.from PROVE kept \o Tail(job.rest) = job.before
    <3>1. Applies(job.kept \o job.rest, chain)
      BY <2>1, <2>4
    <3>2. keep /\ Append(job.kept, t) \o Tail(job.rest) = job.kept \o job.rest
      BY <1>1, <3>1, NextApplies
    <3>3. kept = Append(job.kept, t)
      BY <3>2 DEF kept
    <3> QED BY <2>1, <2>4, <3>2, <3>3
  <2> QED BY <1>5, <2>1, <2>2, <2>3, <2>4 DEF PoolInv, Revalidate, Free, Applies
<1> QED BY <1>6, <1>7, <1>8 DEF IInv

LEMMA SaveRetainedStep ==
    ASSUME IInv, SaveRetained
    PROVE  IInv'
<1>1. /\ job \in Job /\ job.step = "revalidate" /\ job.rest = <<>>
      /\ job.kept \in Seq(Tx) /\ chain \in Block /\ job.from \in Block
  BY JobFields DEF IInv, TypeOK, SaveRetained
<1>2. Lost(job.from, chain) \in Seq(Tx) /\ ToSet(Lost(job.from, chain)) \subseteq Confirmed(job.from)
  BY <1>1, LostFacts
<1>3. job' = [job EXCEPT !.step = "return", !.rest = Lost(job.from, chain)]
  BY DEF SaveRetained
<1>4. /\ job' \in Job /\ job'.step = "return" /\ job'.from = job.from
      /\ job'.before = job.before /\ job'.rest = Lost(job.from, chain)
  BY <1>1, <1>2, <1>3 DEF Job
<1>5. TypeOK'
  BY <1>1, <1>4 DEF IInv, TypeOK, SaveRetained
<1>6. JobInv'
  BY <1>1, <1>2, <1>4 DEF IInv, JobInv, SaveRetained, Free, Work, Confirmed
<1>7. PoolInv'
  <2>1. job.kept \o <<>> = job.kept
    BY <1>1, ConcatEmptySeq
  <2> QED BY <1>1, <1>4, <2>1 DEF IInv, PoolInv, SaveRetained, Free, Applies, Confirmed
<1> QED BY <1>5, <1>6, <1>7 DEF IInv

\* TestnetMempool::add on behalf of activate_candidate: a transaction that is
\* added is one that the new chain does not confirm.
LEMMA ReturnTransactionStep ==
    ASSUME IInv, ReturnTransaction
    PROVE  IInv'
<1> DEFINE t == Head(job.rest)
           add == Accepts(t, job.kept)
<1>1. /\ job \in Job /\ job.step = "return" /\ job.rest # <<>>
      /\ job.rest \in Seq(Tx) /\ job.kept \in Seq(Tx) /\ pool \in Seq(Tx) /\ chain \in Block
  BY JobFields DEF IInv, TypeOK, ReturnTransaction
<1>2. t \in ToSet(job.rest) /\ t \in Tx /\ Tail(job.rest) \in Seq(Tx)
      /\ ToSet(Tail(job.rest)) \subseteq ToSet(job.rest)
  BY <1>1, TailFacts
<1>3. /\ add => /\ pool' = Append(job.kept, t)
                /\ job' = [job EXCEPT !.rest = Tail(job.rest), !.kept = Append(job.kept, t)]
      /\ ~add => pool' = pool /\ job' = [job EXCEPT !.rest = Tail(job.rest)]
  BY DEF ReturnTransaction
<1>4. Append(job.kept, t) \in Seq(Tx) /\ ToSet(Append(job.kept, t)) = ToSet(job.kept) \cup {t}
  BY <1>1, <1>2, AppendFacts
<1>5. t \in Confirmed(job.from)
  BY <1>1, <1>2 DEF IInv, JobInv
<1>6. add => t \notin Confirmed(chain) /\ Spendable(t, History[chain] \o job.kept)
  BY DEF Accepts
<1> HIDE DEF add
<1>7. /\ job' \in Job /\ job'.step = "return" /\ job'.from = job.from
      /\ job'.before = job.before /\ job'.rest = Tail(job.rest)
      /\ job'.kept = IF add THEN Append(job.kept, t) ELSE job.kept
  BY <1>1, <1>2, <1>3, <1>4 DEF Job
<1>8. TypeOK'
  BY <1>1, <1>3, <1>4, <1>7 DEF IInv, TypeOK, ReturnTransaction
<1>9. JobInv'
  BY <1>1, <1>2, <1>7 DEF IInv, JobInv, ReturnTransaction, Free, Work, Confirmed
<1>10. PoolInv'
  <2> SUFFICES ASSUME faults = 0 PROVE PoolInv'
    BY DEF PoolInv, ReturnTransaction
  <2>1. /\ Applies(job.before, job.from) /\ Applies(pool, chain) /\ pool = job.kept
        /\ ToSet(pool) \subseteq ToSet(job.before) \cup (Confirmed(job.from) \ Confirmed(chain))
        /\ chain = job.from => pool = job.before
    BY <1>1 DEF IInv, PoolInv, Free
  <2>2. CASE add
    <3>1. Applies(pool', chain)
      BY <1>1, <1>2, <1>3, <1>6, <2>1, <2>2, AddApplies
    <3>2. ToSet(pool') \subseteq ToSet(job.before) \cup (Confirmed(job.from) \ Confirmed(chain))
      BY <1>3, <1>4, <1>5, <1>6, <2>1, <2>2
    <3>3. chain # job.from
      BY <1>5, <1>6, <2>2
    <3>4. pool' = job'.kept
      BY <1>3, <1>7, <2>2
    <3> QED BY <1>7, <2>1, <3>1, <3>2, <3>3, <3>4 DEF PoolInv, ReturnTransaction, Free, Applies, Confirmed
  <2>3. CASE ~add
    <3>1. pool' = pool /\ job'.kept = job.kept
      BY <1>3, <1>7, <2>3
    <3> QED BY <1>7, <2>1, <3>1 DEF PoolInv, ReturnTransaction, Free, Applies, Confirmed
  <2> QED BY <2>2, <2>3
<1> QED BY <1>8, <1>9, <1>10 DEF IInv

\* The save of add throws, and the loop goes on.
LEMMA ReturnNotSavedStep ==
    ASSUME IInv, ReturnNotSaved
    PROVE  IInv'
<1> DEFINE t == Head(job.rest)
<1>1. /\ job \in Job /\ job.step = "return" /\ job.rest # <<>>
      /\ job.rest \in Seq(Tx) /\ job.kept \in Seq(Tx) /\ chain \in Block
  BY JobFields DEF IInv, TypeOK, ReturnNotSaved
<1>2. t \in Tx /\ Tail(job.rest) \in Seq(Tx) /\ ToSet(Tail(job.rest)) \subseteq ToSet(job.rest)
  BY <1>1, TailFacts
<1>3. job' = [job EXCEPT !.rest = Tail(job.rest), !.kept = Append(job.kept, t)]
  BY DEF ReturnNotSaved
<1>4. Append(job.kept, t) \in Seq(Tx)
  BY <1>1, <1>2, AppendFacts
<1>5. /\ job' \in Job /\ job'.step = "return" /\ job'.from = job.from
      /\ job'.before = job.before /\ job'.rest = Tail(job.rest)
  BY <1>1, <1>2, <1>3, <1>4 DEF Job
<1>6. faults' = faults + 1 /\ faults' \in 0..MaxFaults /\ faults' # 0
  BY FaultAssumption DEF IInv, TypeOK, ReturnNotSaved
<1>7. TypeOK'
  BY <1>5, <1>6 DEF IInv, TypeOK, ReturnNotSaved
<1>8. JobInv'
  BY <1>1, <1>2, <1>5 DEF IInv, JobInv, ReturnNotSaved, Free, Work, Confirmed
<1>9. PoolInv'
  BY <1>6 DEF PoolInv
<1> QED BY <1>7, <1>8, <1>9 DEF IInv

LEMMA FinishJobStep ==
    ASSUME IInv, FinishJob
    PROVE  IInv'
<1>1. TypeOK'
  <2>1. candidate' \in [Session -> Candidate \cup {None}]
    BY DEF IInv, TypeOK, FinishJob
  <2>2. job' \in Job
    BY TreeAssumption, EmptySeq DEF FinishJob, Idle, Job
  <2> QED BY <2>1, <2>2 DEF IInv, TypeOK, FinishJob
<1>2. JobInv'
  BY DEF JobInv, FinishJob, Idle, Free
<1>3. PoolInv'
  BY DEF IInv, PoolInv, FinishJob, Idle, Free, Applies
<1> QED BY <1>1, <1>2, <1>3 DEF IInv

\* The end of the process and a failed save end the handler wherever it is; only
\* the types survive.
LEMMA FaultStep ==
    ASSUME IInv, Restart \/ SaveFails
    PROVE  IInv'
<1>1. /\ job' = Idle /\ faults' = faults + 1 /\ faults' <= MaxFaults
      /\ chain' = chain /\ pool' = pool /\ side' = side /\ reached' = reached
      /\ candidate' \in [Session -> Candidate \cup {None}]
  BY FaultAssumption DEF IInv, TypeOK, Restart, SaveFails
<1>2. TypeOK'
  <2>1. job' \in Job
    BY <1>1, TreeAssumption, EmptySeq DEF Idle, Job
  <2> QED BY <1>1, <2>1, FaultAssumption DEF IInv, TypeOK
<1>3. JobInv'
  BY <1>1 DEF JobInv, Idle, Free
<1>4. PoolInv'
  BY <1>1, FaultAssumption DEF IInv, TypeOK, PoolInv
<1> QED BY <1>2, <1>3, <1>4 DEF IInv

\* A step that changes nothing.
LEMMA StutterStep ==
    ASSUME IInv, UNCHANGED vars
    PROVE  IInv'
<1>1. TypeOK'
  BY DEF IInv, TypeOK, vars
<1>2. JobInv' /\ PoolInv'
  BY SessionKeepsJob DEF IInv, JobInv, vars
<1> QED BY <1>1, <1>2 DEF IInv

LEMMA NextIInv ==
    ASSUME IInv, [Next]_vars
    PROVE  IInv'
<1>1. ASSUME NEW t \in Tx, AddTransaction(t) PROVE IInv'
  BY <1>1, AddTransactionStep
<1>2. ASSUME NEW b \in Block, StoreSideBlock(b) \/ ConnectBlock(b) \/ Generate(b)
      PROVE  IInv'
  BY <1>2, SideStoreStep, ConnectBlockStep, GenerateStep
<1>3. ASSUME NEW s \in Session, SessionStep(s) PROVE IInv'
  BY <1>3, ReceiveHeadersStep, ActivateCandidateStep, DisconnectStep, StartCandidateStep,
     ReceiveCandidateBlockStep DEF SessionStep
<1>4. CASE JobStep
  BY <1>4, ClearPoolStep, StoreDisconnectedStep, ActivateIfMoreWorkStep, RemoveActiveStep,
     RevalidateStep, SaveRetainedStep, ReturnTransactionStep, ReturnNotSavedStep,
     FinishJobStep DEF JobStep
<1>5. CASE Restart \/ SaveFails
  BY <1>5, FaultStep
<1>6. CASE UNCHANGED vars
  BY <1>6, StutterStep
<1> QED BY <1>1, <1>2, <1>3, <1>4, <1>5, <1>6 DEF Next

-----------------------------------------------------------------------------
(* What follows from the invariant.                                        *)

\* The invariant holds of every behaviour, with any number of sessions, blocks,
\* transactions, restarts and failed saves.
THEOREM Inductive == Spec => []IInv
<1>1. Init => IInv
  BY InitIInv
<1>2. IInv /\ [Next]_vars => IInv'
  BY NextIInv
<1> QED BY <1>1, <1>2, PTL DEF Spec

\* The files and the memory of the node have the shapes the code gives them.
THEOREM TypeCorrect == Spec => []TypeOK
<1>1. IInv => TypeOK
  BY DEF IInv
<1> QED BY <1>1, Inductive, PTL

\* As long as no save fails and the process does not die, the mempool applies to
\* the active chain whenever data_mutex is free: generate, the wallet and
\* TestnetMempool::add never meet a mempool that they cannot apply.
THEOREM PoolStaysValid == Spec => []PoolStays
<1>1. IInv => PoolStays
  BY DEF IInv, PoolInv, PoolStays, PoolApplies
<1> QED BY <1>1, Inductive, PTL

\* activate_if_more_work, append_blocks and generate replace the active chain by
\* one with strictly more work only, whatever else happens, faults included.
THEOREM WorkOnlyGrows == Spec => WorkGrows
<1>1. ASSUME IInv, [Next]_vars PROVE [Work(chain') > Work(chain)]_chain
  <2>1. ASSUME NEW b \in Block, ConnectBlock(b) PROVE Work(chain') > Work(chain)
    <3>1. Work(b) > Work(chain) /\ chain' = b
      BY <1>1, <2>1, ExtendsHasMoreWork DEF IInv, TypeOK, ConnectBlock
    <3> QED BY <3>1 DEF Work
  <2>2. ASSUME NEW b \in Block, Generate(b) PROVE Work(chain') > Work(chain)
    <3>1. Work(b) > Work(chain) /\ chain' = b
      BY <1>1, <2>2, GenerateStep DEF Generate
    <3> QED BY <3>1 DEF Work
  <2>3. CASE ActivateIfMoreWork
    BY <1>1, <2>3, ActivateIfMoreWorkStep
  <2>4. ASSUME NEW s \in Session, SessionStep(s) PROVE chain' = chain
    BY <2>4 DEF SessionStep, ReceiveHeaders, ActivateCandidate, Disconnect, StartCandidate,
       ReceiveCandidateBlock
  <2>5. ASSUME NEW b \in Block, StoreSideBlock(b) PROVE chain' = chain
    BY <2>5 DEF StoreSideBlock
  <2>6. ASSUME NEW t \in Tx, AddTransaction(t) PROVE chain' = chain
    BY <2>6 DEF AddTransaction
  <2>7. CASE ClearPool \/ StoreDisconnected \/ RemoveActive \/ Revalidate \/ SaveRetained
               \/ ReturnTransaction \/ ReturnNotSaved \/ FinishJob
    BY <2>7 DEF ClearPool, StoreDisconnected, RemoveActive, Revalidate, SaveRetained,
       ReturnTransaction, ReturnNotSaved, FinishJob
  <2>8. CASE Restart \/ SaveFails \/ UNCHANGED vars
    BY <2>8 DEF Restart, SaveFails, vars
  <2> QED BY <1>1, <2>1, <2>2, <2>3, <2>4, <2>5, <2>6, <2>7, <2>8 DEF Next, JobStep
<1> QED BY <1>1, Inductive, PTL DEF Spec, WorkGrows

-----------------------------------------------------------------------------
(* Between handlers and without faults, the node's data is the Ledger.     *)

\* Ledger speaks of blocks and transactions in the same words.
LEMMA SameWords ==
    /\ \A b : Abstract!Work(b) = Work(b)
    /\ \A s : Abstract!ToSet(s) = ToSet(s)
    /\ \A p, b : Abstract!Applies(p, b) <=> Applies(p, b)
    /\ \A b : Abstract!Confirmed(b) = Confirmed(b)
<1>1. \A b : Abstract!Work(b) = Work(b)
  BY DEF Abstract!Work, Work, Abstract!Cardinality, Cardinality
<1>2. \A s : Abstract!ToSet(s) = ToSet(s)
  BY DEF Abstract!ToSet, ToSet
<1>3. \A t, s : Abstract!Spendable(t, s) <=> Spendable(t, s)
  BY DEF Abstract!Spendable, Spendable, Abstract!After, After, Abstract!ToSet, ToSet
<1>4. \A s : Abstract!Valid(s) <=> Valid(s)
  BY <1>3 DEF Abstract!Valid, Valid
<1>5. \A p, b : Abstract!Applies(p, b) <=> Applies(p, b)
  BY <1>4 DEF Abstract!Applies, Applies
<1>6. \A b : Abstract!Confirmed(b) = Confirmed(b)
  BY <1>2 DEF Abstract!Confirmed, Confirmed
<1> QED BY <1>1, <1>2, <1>5, <1>6

\* What a handler has done when it returns is a step of the ledger.
LEMMA AdvanceStep ==
    ASSUME NEW b \in Block, Work(b) > Work(LedgerTip), LedgerTip' = b,
           LedgerPool' \in Seq(Tx), Applies(LedgerPool', b),
           ToSet(LedgerPool') \subseteq
               ToSet(LedgerPool) \cup (Confirmed(LedgerTip) \ Confirmed(b))
    PROVE  Abstract!Next
BY SameWords DEF Abstract!Next, Abstract!Advance

LEMMA NextLedger ==
    ASSUME IInv, IInv', faults = 0, faults' = 0, [Next]_vars
    PROVE  [Abstract!Next]_<<LedgerTip, LedgerPool>>
<1> DEFINE Same == LedgerTip' = LedgerTip /\ LedgerPool' = LedgerPool
<1>1. ASSUME NEW t \in Tx, AddTransaction(t) PROVE Abstract!Next
  <2>1. /\ t \notin Confirmed(chain) /\ pool' = Append(pool, t)
        /\ LedgerTip = chain /\ LedgerTip' = chain
        /\ LedgerPool = pool /\ LedgerPool' = pool'
    BY <1>1 DEF AddTransaction, Accepts, LedgerTip, LedgerPool, Free
  <2>2. Applies(pool', chain)
    <3>1. Applies(pool', chain')
      BY <1>1 DEF IInv, PoolInv, AddTransaction, Free
    <3> QED BY <1>1, <3>1 DEF AddTransaction, Applies
  <2>3. Abstract!Submit(t)
    BY <2>1, <2>2, SameWords DEF Abstract!Submit
  <2> QED BY <2>3 DEF Abstract!Next
<1>2. ASSUME NEW b \in Block, StoreSideBlock(b) PROVE Same
  BY <1>2 DEF StoreSideBlock, LedgerTip, LedgerPool, Free
<1>3. ASSUME NEW b \in Block, ConnectBlock(b) \/ Generate(b) PROVE Same
  BY <1>3 DEF ConnectBlock, Generate, Start, LedgerTip, LedgerPool, Free
<1>4. ASSUME NEW s \in Session, SessionStep(s) PROVE Same
  BY <1>4 DEF SessionStep, ReceiveHeaders, ActivateCandidate, Disconnect, StartCandidate,
     ReceiveCandidateBlock, Start, LedgerTip, LedgerPool, Free
<1>5. CASE ClearPool
  <2>1. /\ LedgerTip = job.from /\ LedgerTip' = chain /\ LedgerPool' = <<>>
        /\ Work(chain) > Work(job.from) /\ chain \in Block
    BY <1>5 DEF IInv, TypeOK, JobInv, ClearPool, LedgerTip, LedgerPool, Free, Idle
  <2>2. ToSet(<<>>) = {} /\ Applies(<<>>, chain) /\ <<>> \in Seq(Tx)
    BY <2>1, EmptyApplies, EmptySeq DEF ToSet
  <2> QED BY <2>1, <2>2, AdvanceStep
<1>6. CASE \/ StoreDisconnected \/ ActivateIfMoreWork \/ RemoveActive \/ Revalidate
           \/ SaveRetained \/ ReturnTransaction \/ ReturnNotSaved
  <2>1. ~Free /\ ~Free' /\ job'.from = job.from /\ job'.before = job.before
    BY <1>6 DEF IInv, TypeOK, Job, Free, StoreDisconnected, ActivateIfMoreWork, RemoveActive,
       Revalidate, SaveRetained, ReturnTransaction, ReturnNotSaved
  <2> QED BY <2>1 DEF LedgerTip, LedgerPool
<1>7. CASE FinishJob
  <2>1. /\ LedgerTip = job.from /\ LedgerTip' = chain
        /\ LedgerPool = job.before /\ LedgerPool' = pool
        /\ chain \in Block /\ pool \in Seq(Tx)
    BY <1>7 DEF IInv, TypeOK, FinishJob, LedgerTip, LedgerPool, Free, Idle
  <2>2. /\ Applies(pool, chain)
        /\ ToSet(pool) \subseteq ToSet(job.before) \cup (Confirmed(job.from) \ Confirmed(chain))
        /\ chain = job.from => pool = job.before
        /\ chain # job.from => Work(chain) > Work(job.from)
    BY <1>7 DEF IInv, PoolInv, JobInv, FinishJob
  <2>3. CASE chain = job.from
    BY <2>1, <2>2, <2>3
  <2>4. CASE chain # job.from
    <3>1. Abstract!Next
      BY <2>1, <2>2, <2>4, AdvanceStep
    <3> QED BY <3>1
  <2> QED BY <2>3, <2>4
<1>8. CASE Restart \/ SaveFails
  BY <1>8, FaultAssumption DEF Restart, SaveFails
<1>9. CASE UNCHANGED vars
  BY <1>9 DEF vars, LedgerTip, LedgerPool, Free
<1> QED BY <1>1, <1>2, <1>3, <1>4, <1>5, <1>6, <1>7, <1>8, <1>9 DEF Next, JobStep

\* Faults are counted, and the count never falls.
LEMMA FaultsCounted ==
    ASSUME TypeOK, [Next]_vars, faults' = 0
    PROVE  faults = 0
<1>1. faults \in Nat
  BY FaultAssumption DEF TypeOK
<1>2. CASE Restart \/ SaveFails \/ ReturnNotSaved
  BY <1>1, <1>2 DEF Restart, SaveFails, ReturnNotSaved
<1>3. CASE UNCHANGED vars
  BY <1>3 DEF vars
<1>4. ASSUME NEW s \in Session, SessionStep(s) PROVE faults' = faults
  BY <1>4 DEF SessionStep, ReceiveHeaders, ActivateCandidate, Disconnect, StartCandidate,
     ReceiveCandidateBlock
<1>5. CASE JobStep /\ ~ReturnNotSaved
  BY <1>5 DEF JobStep, ClearPool, StoreDisconnected, ActivateIfMoreWork, RemoveActive,
     Revalidate, SaveRetained, ReturnTransaction, FinishJob
<1>6. ASSUME NEW b \in Block, StoreSideBlock(b) \/ ConnectBlock(b) \/ Generate(b)
      PROVE  faults' = faults
  BY <1>6 DEF StoreSideBlock, ConnectBlock, Generate
<1>7. ASSUME NEW t \in Tx, AddTransaction(t) PROVE faults' = faults
  BY <1>7 DEF AddTransaction
<1> QED BY <1>2, <1>3, <1>4, <1>5, <1>6, <1>7 DEF Next

\* NodeData implements Ledger until the first fault: whoever looks at the data
\* between two handlers sees a chain and a mempool that were replaced together, by
\* valid ones.
THEOREM LedgerImplemented == Spec => LedgerSpec
<1>1. Init => Abstract!Init
  BY DEF Init, Abstract!Init, LedgerTip, LedgerPool, Free, Idle
<1>2. IInv /\ IInv' /\ [Next]_vars =>
        [faults' = 0 => Abstract!Next]_<<LedgerTip, LedgerPool>>
  <2> SUFFICES ASSUME IInv, IInv', [Next]_vars, faults' = 0
               PROVE  [Abstract!Next]_<<LedgerTip, LedgerPool>>
    OBVIOUS
  <2>1. faults = 0
    BY FaultsCounted DEF IInv
  <2> QED BY <2>1, NextLedger
<1> QED BY <1>1, <1>2, Inductive, PTL DEF Spec, LedgerSpec

-----------------------------------------------------------------------------
(* With a single session, no block that has been active is lost.           *)

\* The blocks of a chain up to the height of one of them are its ancestors.
LEMMA BelowFork ==
    ASSUME NEW a \in Block, NEW fork \in Chain[a], NEW b \in Chain[a], ~(Work(b) > Work(fork))
    PROVE  b \in Chain[fork]
<1>1. fork \in Block /\ b \in Block /\ b \in Chain[b]
  BY TreeAssumption
<1>2. b \in Chain[fork] \/ fork \in Chain[b]
  BY TreeAssumption
<1>3. CASE fork \in Chain[b]
  <2>1. Chain[fork] \subseteq Chain[b]
    BY <1>1, <1>3, TreeAssumption
  <2>2. Chain[fork] = Chain[b]
    BY <1>1, <2>1, WorkFacts
  <2> QED BY <1>1, <2>2
<1> QED BY <1>2, <1>3

\* A step that keeps the chain, and of which the side store and the candidates
\* that matter are kept as well.
LEMMA SameChainRetains ==
    ASSUME RetainInv, chain' = chain, reached' = reached,
           side \subseteq side' \cup Chain[chain],
           \A s \in Session : Current(s)' =>
              /\ Current(s)
              /\ \/ candidate'[s] = candidate[s]
                 \/ /\ candidate'[s].base = candidate[s].base
                    /\ candidate'[s].tip = candidate[s].tip
                    /\ candidate'[s].fork = candidate[s].fork
                    /\ candidate'[s].phase = "headers" <=> candidate[s].phase = "headers"
              /\ job'.step = "activate" => job.step = "activate" /\ side \subseteq side'
    PROVE  RetainInv'
<1>1. DisconnectedRetained'
  BY DEF RetainInv, DisconnectedRetained
<1>2. BaseInv'
  <2> SUFFICES ASSUME NEW s \in Session, Current(s)'
               PROVE  /\ candidate'[s].base \in Chain[chain]
                      /\ candidate'[s].phase # "headers" =>
                           candidate'[s].fork \in Chain[candidate'[s].base] \cap Chain[candidate'[s].tip]
                      /\ job'.step = "activate" =>
                           {b \in Chain[chain] : Work(b) > Work(candidate'[s].fork)} \subseteq side'
    BY DEF BaseInv, Work
  <2>1. /\ candidate'[s].base = candidate[s].base
        /\ candidate'[s].tip = candidate[s].tip
        /\ candidate'[s].fork = candidate[s].fork
        /\ candidate'[s].phase = "headers" <=> candidate[s].phase = "headers"
    OBVIOUS
  <2>2. Current(s) /\ (job'.step = "activate" => job.step = "activate" /\ side \subseteq side')
    OBVIOUS
  <2> QED BY <2>1, <2>2 DEF RetainInv, BaseInv
<1> QED BY <1>1, <1>2 DEF RetainInv

\* A chain that is extended keeps all its blocks.
LEMMA LongerChainRetains ==
    ASSUME IInv, RetainInv, NEW b \in Block, Chain[chain] \subseteq Chain[b], chain' = b,
           reached' \subseteq reached \cup Chain[b], side' = side, candidate' = candidate,
           Free, job'.step # "activate", job'.step # "branches"
    PROVE  RetainInv'
<1>1. DisconnectedRetained'
  BY DEF RetainInv, DisconnectedRetained
<1>2. BaseInv'
  BY DEF RetainInv, BaseInv, Current, Free, Work
<1> QED BY <1>1, <1>2 DEF RetainInv

LEMMA StartCandidateRetains ==
    ASSUME IInv, RetainInv, NEW s \in Session, NEW b \in Block, StartCandidate(s, b)
    PROVE  RetainInv'
<1>1. DisconnectedRetained'
  BY DEF RetainInv, DisconnectedRetained, StartCandidate
<1>2. chain \in Chain[chain]
  BY TreeAssumption DEF IInv, TypeOK
<1>3. ASSUME NEW r \in Session, r # s PROVE candidate'[r] = candidate[r]
  BY <1>3 DEF IInv, TypeOK, StartCandidate
<1>4. /\ candidate'[s].base = chain /\ candidate'[s].phase = "headers"
      /\ chain' = chain /\ job' = job /\ side' = side /\ job.step = "idle"
  BY DEF IInv, TypeOK, StartCandidate, Free
<1>5. BaseInv'
  BY <1>2, <1>3, <1>4 DEF RetainInv, BaseInv, Current, Work
<1> QED BY <1>1, <1>5 DEF RetainInv

LEMMA ReceiveHeadersRetains ==
    ASSUME IInv, RetainInv, NEW s \in Session, ReceiveHeaders(s)
    PROVE  RetainInv'
<1> DEFINE c == candidate[s]
<1>1. DisconnectedRetained'
  BY DEF RetainInv, DisconnectedRetained, ReceiveHeaders
<1>2. c \in Candidate /\ c.base \in Block /\ c.tip \in Block /\ c # None /\ c.phase = "headers"
  BY DEF IInv, TypeOK, ReceiveHeaders, Candidate
<1>3. ASSUME NEW r \in Session, r # s PROVE candidate'[r] = candidate[r]
  BY <1>3 DEF IInv, TypeOK, ReceiveHeaders
<1>4. /\ candidate'[s].base = c.base /\ candidate'[s].tip = c.tip
      /\ candidate'[s].fork = Fork(c.base, c.tip)
      /\ chain' = chain /\ job' = job /\ side' = side /\ job.step = "idle"
  BY <1>2 DEF IInv, TypeOK, ReceiveHeaders, Free, Candidate
<1>5. Fork(c.base, c.tip) \in Chain[c.base] \cap Chain[c.tip]
  BY <1>2, ForkFacts
<1>6. c.base \in Chain[chain]
  BY <1>2 DEF RetainInv, BaseInv, Current
<1>7. BaseInv'
  BY <1>3, <1>4, <1>5, <1>6 DEF RetainInv, BaseInv, Current, Work
<1> QED BY <1>1, <1>7 DEF RetainInv

\* put_many: with one session, the candidate that is activated is the only one.
LEMMA StoreDisconnectedRetains ==
    ASSUME IInv, RetainInv, NEW one, Session = {one}, StoreDisconnected
    PROVE  RetainInv'
<1>1. /\ job.session = one /\ one \in Session /\ job.step = "branches"
      /\ candidate' = candidate /\ chain' = chain /\ reached' = reached
      /\ side' = side \cup {b \in Chain[chain] : Work(b) > Work(candidate[one].fork)}
  BY DEF IInv, JobInv, StoreDisconnected
<1>2. DisconnectedRetained'
  BY <1>1 DEF RetainInv, DisconnectedRetained
<1>3. ASSUME Current(one)' PROVE Current(one)
  BY <1>1, <1>3 DEF Current
<1>4. BaseInv'
  <2> SUFFICES ASSUME Current(one)'
               PROVE  /\ candidate[one].base \in Chain[chain]
                      /\ candidate[one].phase # "headers" =>
                           candidate[one].fork \in Chain[candidate[one].base] \cap Chain[candidate[one].tip]
                      /\ {b \in Chain[chain] : Work(b) > Work(candidate[one].fork)} \subseteq side'
    BY <1>1 DEF BaseInv, Work
  <2> QED BY <1>1, <1>3 DEF RetainInv, BaseInv
<1> QED BY <1>2, <1>4 DEF RetainInv

\* activate_if_more_work: the blocks of the old chain are in the side store, or
\* they are below the fork and therefore on the new chain.
LEMMA ActivateRetains ==
    ASSUME IInv, RetainInv, NEW one, Session = {one}, ActivateIfMoreWork
    PROVE  RetainInv'
<1> DEFINE c == candidate[one]
<1>1. /\ job.session = one /\ one \in Session /\ job.step = "activate" /\ chain \in Block
      /\ c \in Candidate /\ c # None /\ c.phase = "activating"
      /\ candidate' = candidate /\ side' = side
  <2>1. job.step = "activate" /\ candidate' = candidate /\ side' = side
    BY DEF ActivateIfMoreWork
  <2>2. job.session \in Session /\ candidate[job.session] \in Candidate
        /\ candidate[job.session].phase = "activating"
    BY <2>1 DEF IInv, JobInv
  <2>3. candidate[one] # None
    BY <2>2, NoneAssumption
  <2> QED BY <2>1, <2>2, <2>3 DEF IInv, TypeOK
<1>2. job'.step \in {"remove", "revalidate"}
  BY DEF IInv, TypeOK, Job, ActivateIfMoreWork
<1>3. /\ c.base \in Chain[chain] /\ c.fork \in Chain[c.base] \cap Chain[c.tip]
      /\ {b \in Chain[chain] : Work(b) > Work(c.fork)} \subseteq side
  BY <1>1 DEF RetainInv, BaseInv, Current
<1>4. Chain[c.fork] \subseteq Chain[c.tip] /\ c.fork \in Chain[chain]
  <2>1. c.base \in Block /\ c.tip \in Block
    BY <1>1 DEF Candidate
  <2> QED BY <1>1, <1>3, <2>1, TreeAssumption
<1>5. Chain[chain] \subseteq Chain[c.tip] \cup side
  BY <1>1, <1>3, <1>4, BelowFork
<1>6. DisconnectedRetained'
  <2>1. \/ chain' = chain /\ reached' = reached
        \/ chain' = c.tip /\ reached' = reached \cup Chain[c.tip]
    BY <1>1 DEF ActivateIfMoreWork
  <2> QED BY <2>1, <1>1, <1>5 DEF RetainInv, DisconnectedRetained
<1>7. BaseInv'
  BY <1>1, <1>2 DEF BaseInv, Current
<1> QED BY <1>6, <1>7 DEF RetainInv

LEMMA SessionRetains ==
    ASSUME IInv, RetainInv, NEW s \in Session, Session = {s},
           ActivateCandidate(s) \/ Disconnect(s) \/ \E b \in Block : ReceiveCandidateBlock(s, b)
    PROVE  RetainInv'
<1>1. CASE ActivateCandidate(s)
  <2>1. /\ chain' = chain /\ reached' = reached /\ side' = side
        /\ job.step = "idle" /\ job'.step = "branches"
        /\ candidate[s] # None /\ candidate[s].phase = "bodies"
    BY <1>1 DEF ActivateCandidate, Start, Free
  <2>2. \A r \in Session : r # s => candidate'[r] = candidate[r]
    BY <1>1 DEF IInv, TypeOK, ActivateCandidate
  <2>3. candidate[s] \in Candidate /\ candidate'[s] = [candidate[s] EXCEPT !.phase = "activating"]
    BY <1>1 DEF IInv, TypeOK, ActivateCandidate
  <2>4. /\ candidate'[s].base = candidate[s].base /\ candidate'[s].tip = candidate[s].tip
        /\ candidate'[s].fork = candidate[s].fork /\ candidate'[s].phase = "activating"
    BY <2>3 DEF Candidate
  <2>5. \A r \in Session : Current(r)' => Current(r)
    BY <2>1, <2>2 DEF Current
  <2> QED BY <2>1, <2>2, <2>4, <2>5, SameChainRetains
<1>2. CASE Disconnect(s)
  <2>1. /\ chain' = chain /\ reached' = reached /\ side' = side /\ job' = job
        /\ candidate'[s] = None
        /\ \A r \in Session : r # s => candidate'[r] = candidate[r]
    BY <1>2 DEF IInv, TypeOK, Disconnect
  <2>2. \A r \in Session : Current(r)' => Current(r) /\ candidate'[r] = candidate[r]
    BY <2>1 DEF Current
  <2> QED BY <2>1, <2>2, SameChainRetains
<1>3. ASSUME NEW b \in Block, ReceiveCandidateBlock(s, b) PROVE RetainInv'
  <2>1. /\ chain' = chain /\ reached' = reached /\ side \subseteq side' /\ job' = job
        /\ \A r \in Session : r # s => candidate'[r] = candidate[r]
        /\ candidate[s] \in Candidate /\ candidate[s] # None
        /\ candidate'[s] = [candidate[s] EXCEPT !.pending = @ \ {b}]
    BY <1>3 DEF IInv, TypeOK, ReceiveCandidateBlock, Pending
  <2>2. /\ candidate'[s].base = candidate[s].base /\ candidate'[s].tip = candidate[s].tip
        /\ candidate'[s].fork = candidate[s].fork /\ candidate'[s].phase = candidate[s].phase
    BY <2>1 DEF Candidate
  <2>3. \A r \in Session : Current(r)' => Current(r)
    BY <2>1, <2>2 DEF Current
  <2> QED BY <2>1, <2>2, <2>3, SameChainRetains
<1> QED BY <1>1, <1>2, <1>3

LEMMA JobRetains ==
    ASSUME IInv, RetainInv,
           \/ ClearPool \/ RemoveActive \/ Revalidate \/ SaveRetained \/ ReturnTransaction
           \/ ReturnNotSaved \/ FinishJob \/ Restart \/ SaveFails
    PROVE  RetainInv'
<1>1. chain' = chain /\ reached' = reached /\ side \subseteq side' \cup Chain[chain]
  BY DEF ClearPool, RemoveActive, Revalidate, SaveRetained, ReturnTransaction,
     ReturnNotSaved, FinishJob, Restart, SaveFails
<1>2. job'.step \notin {"branches", "activate"}
  <2>1. CASE RemoveActive \/ SaveRetained
    BY <2>1 DEF IInv, TypeOK, Job, RemoveActive, SaveRetained
  <2>2. CASE Revalidate \/ ReturnTransaction \/ ReturnNotSaved
    <3>1. job'.step = job.step
      BY <2>2 DEF IInv, TypeOK, Job, Revalidate, ReturnTransaction, ReturnNotSaved
    <3> QED BY <2>2, <3>1 DEF Revalidate, ReturnTransaction, ReturnNotSaved
  <2>3. CASE ClearPool \/ FinishJob \/ Restart \/ SaveFails
    BY <2>3 DEF ClearPool, FinishJob, Restart, SaveFails, Idle
  <2> QED BY <2>1, <2>2, <2>3
<1>3. \A s \in Session : candidate'[s] = None \/ candidate'[s] = candidate[s]
  BY DEF IInv, TypeOK, ClearPool, RemoveActive, Revalidate, SaveRetained, ReturnTransaction,
     ReturnNotSaved, FinishJob, Restart, SaveFails
<1>4. \A s \in Session : Current(s)' => Current(s) /\ candidate'[s] = candidate[s]
  BY <1>2, <1>3 DEF Current
<1> QED BY <1>1, <1>2, <1>4, SameChainRetains

LEMMA NextRetains ==
    ASSUME IInv, RetainInv, NEW one, Session = {one}, [Next]_vars
    PROVE  RetainInv'
<1>1. ASSUME NEW t \in Tx, AddTransaction(t) PROVE RetainInv'
  <2>1. UNCHANGED <<chain, side, candidate, job, reached>>
    BY <1>1 DEF AddTransaction
  <2> QED BY <2>1 DEF RetainInv, DisconnectedRetained, BaseInv, Current, Work
<1>2. ASSUME NEW b \in Block, StoreSideBlock(b) PROVE RetainInv'
  BY <1>2, SameChainRetains DEF StoreSideBlock, Current
<1>3. ASSUME NEW b \in Block, ConnectBlock(b) PROVE RetainInv'
  <2>1. /\ Chain[chain] \subseteq Chain[b] /\ chain' = b /\ side' = side
        /\ reached' = reached \cup {b} /\ b \in Chain[b]
        /\ candidate' = candidate /\ Free /\ job'.step = "remove"
    BY <1>3, TreeAssumption DEF ConnectBlock, Extends, Start
  <2> QED BY <2>1, LongerChainRetains
<1>4. ASSUME NEW b \in Block, Generate(b) PROVE RetainInv'
  <2>1. /\ Chain[chain] \subseteq Chain[b] /\ chain' = b /\ side' = side
        /\ reached' = reached \cup Chain[b]
        /\ candidate' = candidate /\ Free /\ job'.step = "clear"
    BY <1>4, TreeAssumption DEF Generate, Start
  <2> QED BY <2>1, LongerChainRetains
<1>5. ASSUME NEW s \in Session, SessionStep(s) PROVE RetainInv'
  <2>1. Session = {s}
    OBVIOUS
  <2> QED BY <1>5, <2>1, ReceiveHeadersRetains, StartCandidateRetains, SessionRetains
          DEF SessionStep
<1>6. CASE StoreDisconnected
  BY <1>6, StoreDisconnectedRetains
<1>7. CASE ActivateIfMoreWork
  BY <1>7, ActivateRetains
<1>8. CASE \/ ClearPool \/ RemoveActive \/ Revalidate \/ SaveRetained \/ ReturnTransaction
           \/ ReturnNotSaved \/ FinishJob \/ Restart \/ SaveFails
  BY <1>8, JobRetains
<1>9. CASE UNCHANGED vars
  BY <1>9 DEF vars, RetainInv, DisconnectedRetained, BaseInv, Current, Work
<1> QED BY <1>1, <1>2, <1>3, <1>4, <1>5, <1>6, <1>7, <1>8, <1>9 DEF Next, JobStep

\* A node with one session never forgets a block that it once had on its active
\* chain, whatever fails and whenever it is restarted.  (With two sessions it
\* does: fork heights go stale.)
THEOREM NothingForgotten ==
    ASSUME NEW one, Session = {one}
    PROVE  Spec => []DisconnectedRetained
<1>1. Init => RetainInv
  BY TreeAssumption DEF Init, RetainInv, DisconnectedRetained, BaseInv, Current
<1>2. IInv /\ RetainInv /\ [Next]_vars => RetainInv'
  BY NextRetains
<1>3. RetainInv => DisconnectedRetained
  BY DEF RetainInv
<1> QED BY <1>1, <1>2, <1>3, Inductive, PTL DEF Spec

-----------------------------------------------------------------------------
(* What becomes of the transactions, whatever fails.                       *)

\* Whether a transaction applies depends on the set of those before it.
LEMMA SpendableAfter ==
    ASSUME NEW b \in Block, NEW p \in Seq(Tx), NEW t \in Tx
    PROVE  Spendable(t, History[b] \o p) <=>
             /\ \A c \in Spends[t] : c \in Funds \/ \E v \in Confirmed(b) \cup ToSet(p) : c \in Creates[v]
             /\ \A c \in Spends[t] : \A v \in Confirmed(b) \cup ToSet(p) : c \notin Spends[v]
<1>1. ToSet(History[b] \o p) = Confirmed(b) \cup ToSet(p)
  BY HistoryAssumption, ConcatFacts DEF Confirmed
<1> QED BY <1>1 DEF Spendable, After

\* In a sequence that is valid, what a transaction spends comes from the funds or
\* from a transaction before it, and no transaction occurs twice.
LEMMA ValidSource ==
    ASSUME NEW s \in Seq(Tx), Valid(s), NEW i \in DOMAIN s
    PROVE  /\ \A c \in Spends[s[i]] : c \in Funds \/ \E j \in 1..(i - 1) : c \in Creates[s[j]]
           /\ \A j \in 1..(i - 1) : s[j] # s[i]
<1> DEFINE before == SubSeq(s, 1, i - 1)
<1>1. /\ DOMAIN s = 1..Len(s) /\ Len(s) \in Nat /\ i \in 1..Len(s)
      /\ \A j \in 1..Len(s) : s[j] \in Tx
  BY LenProperties, ElementOfSeq
<1>2. /\ before \in Seq(Tx) /\ Len(before) = i - 1
      /\ \A j \in 1..(i - 1) : before[j] = s[j]
  <2>1. 1 \in Int /\ i - 1 \in Int /\ \A j \in 1..(i - 1) : s[j] \in Tx
    BY <1>1
  <2>2. /\ before \in Seq(Tx)
        /\ Len(before) = IF 1 <= i - 1 THEN (i - 1) - 1 + 1 ELSE 0
        /\ \A j \in 1..((i - 1) - 1 + 1) : before[j] = s[1 + j - 1]
    BY <2>1, SubSeqProperties
  <2>3. Len(before) = i - 1
    BY <1>1, <2>2
  <2>4. \A j \in 1..(i - 1) : before[j] = s[j]
    <3> TAKE j \in 1..(i - 1)
    <3>1. j \in 1..((i - 1) - 1 + 1) /\ 1 + j - 1 = j
      BY <1>1
    <3> QED BY <3>1, <2>2
  <2> QED BY <2>2, <2>3, <2>4
<1> HIDE DEF before
<1>3. ToSet(before) = {s[j] : j \in 1..(i - 1)}
  <2>1. DOMAIN before = 1..(i - 1)
    BY <1>2, LenProperties
  <2> QED BY <1>2, <2>1 DEF ToSet
<1>4. Spendable(s[i], before)
  BY DEF Valid, before
<1>5. s[i] \notin ToSet(before)
  BY <1>1, <1>2, <1>4, AppliesOnce
<1>6. \A c \in Spends[s[i]] : c \in Funds \/ \E v \in ToSet(before) : c \in Creates[v]
  BY <1>4 DEF Spendable, After
<1> QED BY <1>3, <1>5, <1>6

\* A valid sequence is ordered, and so is a mempool that applies.
LEMMA ValidOrdered ==
    ASSUME NEW s \in Seq(Tx), Valid(s)
    PROVE  Ordered(s)
<1> SUFFICES ASSUME NEW i \in DOMAIN s, NEW j \in DOMAIN s, i <= j
             PROVE  Spends[s[i]] \cap Creates[s[j]] = {}
  BY DEF Ordered
<1>1. /\ DOMAIN s = 1..Len(s) /\ Len(s) \in Nat
      /\ \A k \in 1..Len(s) : s[k] \in Tx
  BY LenProperties, ElementOfSeq
<1> SUFFICES ASSUME NEW c \in Spends[s[i]], c \in Creates[s[j]] PROVE FALSE
  OBVIOUS
<1>2. c \notin Funds
  BY <1>1, CoinAssumption
<1>3. PICK k \in 1..(i - 1) : c \in Creates[s[k]]
  BY <1>2, ValidSource
<1>4. k \in 1..Len(s) /\ k \in 1..(j - 1)
  BY <1>1
<1>5. s[k] = s[j]
  BY <1>1, <1>3, <1>4, CoinAssumption
<1>6. s[k] # s[j]
  BY <1>4, ValidSource
<1> QED BY <1>5, <1>6

LEMMA AppliesOrdered ==
    ASSUME NEW b \in Block, NEW p \in Seq(Tx), Applies(p, b)
    PROVE  Ordered(p)
<1> DEFINE h == History[b]
           n == Len(h)
<1>1. h \in Seq(Tx) /\ n \in Nat
  BY HistoryAssumption, LenProperties
<1>2. /\ h \o p \in Seq(Tx) /\ Len(h \o p) = n + Len(p)
      /\ \A i \in 1..Len(p) : (h \o p)[n + i] = p[i]
  BY <1>1, ConcatFacts
<1>3. DOMAIN (h \o p) = 1..(n + Len(p)) /\ DOMAIN p = 1..Len(p) /\ Len(p) \in Nat
  BY <1>2, LenProperties
<1>4. Ordered(h \o p)
  BY <1>2, ValidOrdered DEF Applies
<1> HIDE DEF h, n
<1> SUFFICES ASSUME NEW i \in 1..Len(p), NEW j \in 1..Len(p), i <= j
             PROVE  Spends[p[i]] \cap Creates[p[j]] = {}
  BY <1>3 DEF Ordered
<1>5. n + i \in 1..(n + Len(p)) /\ n + j \in 1..(n + Len(p)) /\ n + i <= n + j
  BY <1>1, <1>3
<1>6. Spends[(h \o p)[n + i]] \cap Creates[(h \o p)[n + j]] = {}
  BY <1>3, <1>4, <1>5 DEF Ordered
<1> QED BY <1>2, <1>6

\* What is settled stays settled while the mempool grows by transactions that do
\* not create what it would spend: an input that was missing is still missing.
LEMMA StaysSettled ==
    ASSUME chain \in Block, NEW p \in Seq(Tx), NEW t \in Tx, NEW u \in Tx,
           Settled(t, p), Spends[t] \cap Creates[u] = {}
    PROVE  Settled(t, Append(p, u))
<1>1. Append(p, u) \in Seq(Tx) /\ ToSet(Append(p, u)) = ToSet(p) \cup {u}
  BY AppendFacts
<1>2. CASE t \in Confirmed(chain) \cup ToSet(p)
  BY <1>1, <1>2 DEF Settled
<1>3. CASE ~Spendable(t, History[chain] \o p)
  <2> SUFFICES ASSUME Spendable(t, History[chain] \o Append(p, u)) PROVE FALSE
    BY DEF Settled
  <2>1. /\ \A c \in Spends[t] : c \in Funds \/ \E v \in Confirmed(chain) \cup ToSet(p) \cup {u} : c \in Creates[v]
        /\ \A c \in Spends[t] : \A v \in Confirmed(chain) \cup ToSet(p) \cup {u} : c \notin Spends[v]
    <3>1. Confirmed(chain) \cup ToSet(Append(p, u)) = Confirmed(chain) \cup ToSet(p) \cup {u}
      BY <1>1
    <3> QED BY <1>1, <3>1, SpendableAfter
  <2>2. Spendable(t, History[chain] \o p)
    <3>1. \A c \in Spends[t] : c \in Funds \/ \E v \in Confirmed(chain) \cup ToSet(p) : c \in Creates[v]
      BY <2>1
    <3>2. \A c \in Spends[t] : \A v \in Confirmed(chain) \cup ToSet(p) : c \notin Spends[v]
      BY <2>1
    <3> QED BY <3>1, <3>2, SpendableAfter
  <2> QED BY <1>3, <2>2
<1> QED BY <1>2, <1>3 DEF Settled

\* A transaction that was looked at is settled: it has been added, or refused.
LEMMA LookedAt ==
    ASSUME chain \in Block, NEW p \in Seq(Tx), NEW t \in Tx, NEW q,
           q = IF t \notin Confirmed(chain) /\ t \notin ToSet(p) /\ Spendable(t, History[chain] \o p)
               THEN Append(p, t) ELSE p
    PROVE  Settled(t, q)
BY AppendFacts DEF Settled

\* A loop that has all of s before it has nothing behind it.
LEMMA NothingPassed ==
    ASSUME NEW s \in Seq(Tx), NEW p
    PROVE  Passed(s, s, p)
<1>1. Len(s) \in Nat /\ SubSeq(s, 1, Len(s)) = s
  BY LenProperties, SubSeqFull
<1>2. 1 \in 1..(Len(s) + 1) /\ 1..(1 - 1) = {}
  BY <1>1
<1> QED BY <1>1, <1>2 DEF Passed

\* A loop that has come to its end has settled everything.
LEMMA AllPassed ==
    ASSUME NEW s \in Seq(Tx), NEW p, Passed(s, <<>>, p)
    PROVE  \A t \in ToSet(s) : Settled(t, p)
<1>1. PICK k \in 1..(Len(s) + 1) :
        /\ <<>> = SubSeq(s, k, Len(s))
        /\ \A i \in 1..(k - 1) : Settled(s[i], p)
  BY DEF Passed
<1>2. DOMAIN s = 1..Len(s) /\ Len(s) \in Nat /\ \A i \in 1..Len(s) : s[i] \in Tx
  BY LenProperties, ElementOfSeq
<1>3. k = Len(s) + 1
  <2>1. Len(SubSeq(s, k, Len(s))) = IF k <= Len(s) THEN Len(s) - k + 1 ELSE 0
    BY <1>2, SubSeqProperties
  <2>2. Len(SubSeq(s, k, Len(s))) = 0
    BY <1>1, EmptySeq
  <2>3. k \in Nat /\ k <= Len(s) + 1
    BY <1>2
  <2>4. ~(k <= Len(s))
    <3> SUFFICES ASSUME k <= Len(s) PROVE FALSE
      OBVIOUS
    <3>1. Len(s) - k + 1 = 0
      BY <2>1, <2>2
    <3> QED BY <1>2, <2>3, <3>1
  <2> QED BY <1>2, <2>3, <2>4
<1>4. 1..(k - 1) = DOMAIN s
  BY <1>2, <1>3
<1> QED BY <1>1, <1>4 DEF ToSet

\* One round of a loop over an ordered sequence.
LEMMA PassNext ==
    ASSUME chain \in Block, NEW s \in Seq(Tx), Ordered(s), NEW p \in Seq(Tx),
           NEW rest \in Seq(Tx), rest # <<>>, Passed(s, rest, p),
           NEW q, q = p \/ q = Append(p, Head(rest)), Settled(Head(rest), q)
    PROVE  Passed(s, Tail(rest), q)
<1>1. PICK k \in 1..(Len(s) + 1) :
        /\ rest = SubSeq(s, k, Len(s))
        /\ \A i \in 1..(k - 1) : Settled(s[i], p)
  BY DEF Passed
<1>2. DOMAIN s = 1..Len(s) /\ Len(s) \in Nat /\ \A i \in 1..Len(s) : s[i] \in Tx
  BY LenProperties, ElementOfSeq
<1>3. /\ Len(rest) = IF k <= Len(s) THEN Len(s) - k + 1 ELSE 0
      /\ \A i \in 1..(Len(s) - k + 1) : rest[i] = s[k + i - 1]
  BY <1>1, <1>2, SubSeqProperties
<1>4. /\ Len(rest) \in Nat /\ Len(rest) > 0 /\ Head(rest) = rest[1] /\ Head(rest) \in Tx
      /\ Tail(rest) \in Seq(Tx) /\ Len(Tail(rest)) = Len(rest) - 1
      /\ \A i \in 1..Len(Tail(rest)) : Tail(rest)[i] = rest[i + 1]
  BY HeadTailProperties, LenProperties, EmptySeq
<1>5. k \in 1..Len(s) /\ Len(rest) = Len(s) - k + 1
  BY <1>2, <1>3, <1>4
<1>6. Head(rest) = s[k]
  <2>1. 1 \in 1..(Len(s) - k + 1) /\ k + 1 - 1 = k
    BY <1>2, <1>5
  <2> QED BY <2>1, <1>3, <1>4
<1>7. Tail(rest) = SubSeq(s, k + 1, Len(s))
  <2> DEFINE u == SubSeq(s, k + 1, Len(s))
  <2>1. \A i \in (k + 1)..Len(s) : s[i] \in Tx
    BY <1>2, <1>5
  <2>2. /\ u \in Seq(Tx)
        /\ Len(u) = IF k + 1 <= Len(s) THEN Len(s) - (k + 1) + 1 ELSE 0
        /\ \A i \in 1..(Len(s) - (k + 1) + 1) : u[i] = s[k + 1 + i - 1]
    BY <1>2, <1>5, <2>1, SubSeqProperties
  <2> HIDE DEF u
  <2>3. Len(u) = Len(Tail(rest)) /\ Len(u) = Len(s) - k
    <3>1. k \in Nat /\ Len(s) \in Nat /\ k <= Len(s)
      BY <1>2, <1>5
    <3>2. Len(u) = Len(s) - k
      <4>1. CASE k + 1 <= Len(s)
        <5>1. Len(u) = Len(s) - (k + 1) + 1
          BY <2>2, <4>1
        <5> QED BY <1>2, <3>1, <5>1
      <4>2. CASE ~(k + 1 <= Len(s))
        <5>1. Len(u) = 0
          BY <2>2, <4>2
        <5>2. k = Len(s)
          BY <3>1, <4>2
        <5> QED BY <1>2, <5>1, <5>2
      <4> QED BY <4>1, <4>2
    <3>3. Len(Tail(rest)) = Len(s) - k
      BY <1>2, <1>4, <1>5, <3>1
    <3> QED BY <3>2, <3>3
  <2>4. \A i \in 1..Len(u) : u[i] = Tail(rest)[i]
    <3> TAKE i \in 1..Len(u)
    <3>1. i \in Nat /\ i \in 1..Len(Tail(rest)) /\ i \in 1..(Len(s) - (k + 1) + 1)
      <4>1. k \in Nat /\ Len(s) \in Nat /\ i \in 1..(Len(s) - k)
        BY <1>2, <1>5, <2>3
      <4>2. Len(s) - (k + 1) + 1 = Len(s) - k
        BY <4>1
      <4> QED BY <4>1, <4>2, <2>3
    <3>2. i + 1 \in 1..(Len(s) - k + 1) /\ k + (i + 1) - 1 = k + 1 + i - 1
      BY <1>2, <1>5, <3>1
    <3>3. Tail(rest)[i] = s[k + (i + 1) - 1]
      BY <1>3, <1>4, <3>1, <3>2
    <3>4. u[i] = s[k + 1 + i - 1]
      BY <2>2, <3>1
    <3> QED BY <3>2, <3>3, <3>4
  <2>5. u = Tail(rest)
    BY <1>4, <2>2, <2>3, <2>4, SeqEqual
  <2> QED BY <2>5 DEF u
<1>8. \A i \in 1..((k + 1) - 1) : Settled(s[i], q)
  <2> SUFFICES ASSUME NEW i \in 1..k PROVE Settled(s[i], q)
    BY <1>5
  <2>1. CASE i = k
    BY <2>1, <1>6
  <2>2. CASE i # k
    <3>1. i \in 1..(k - 1) /\ i \in 1..Len(s) /\ i <= k
      BY <2>2, <1>2, <1>5
    <3>2. Settled(s[i], p) /\ s[i] \in Tx
      BY <3>1, <1>1, <1>2
    <3>3. Spends[s[i]] \cap Creates[Head(rest)] = {}
      BY <3>1, <1>2, <1>5, <1>6 DEF Ordered
    <3> QED BY <3>2, <3>3, <1>4, StaysSettled
  <2> QED BY <2>1, <2>2
<1>9. k + 1 \in 1..(Len(s) + 1)
  BY <1>2, <1>5
<1> QED BY <1>7, <1>8, <1>9 DEF Passed

\* Everything that leaves the chain, the mempool and the handler at work alone.
LEMMA KeepsLoop ==
    ASSUME LoopInv, UNCHANGED <<chain, pool, job, faults>>
    PROVE  LoopInv'
BY DEF LoopInv, Ordered, Passed, Settled, RightlyDropped, Orphaned, Saved, Applies, Confirmed, Free

LEMMA AddLoop ==
    ASSUME IInv, LoopInv, NEW t \in Tx, AddTransaction(t)
    PROVE  LoopInv'
<1>1. Applies(Append(pool, t), chain) /\ Append(pool, t) \in Seq(Tx) /\ chain \in Block
  BY AddApplies, AppendFacts DEF IInv, TypeOK, AddTransaction, Accepts
<1>2. Ordered(Append(pool, t))
  BY <1>1, AppliesOrdered
<1>3. Ordered(pool')
  BY <1>2 DEF AddTransaction
<1>4. job'.step = "idle"
  BY DEF AddTransaction, Free
<1> QED BY <1>3, <1>4 DEF LoopInv, Ordered, Free

\* The handler begins with the mempool as it is, or goes on to a step without a loop.
LEMMA OutsideLoop ==
    ASSUME LoopInv, pool' = pool,
           job'.step \in {"branches", "activate", "remove", "clear"},
           job'.before = pool \/ (~Free /\ job'.before = job.before)
    PROVE  LoopInv'
<1>1. Ordered(pool') /\ Ordered(job'.before)
  BY DEF LoopInv
<1> QED BY <1>1 DEF LoopInv, Ordered

\* The handler has ended, and the mempool is in order.
LEMMA AfterLoop ==
    ASSUME job' = Idle, Ordered(pool')
    PROVE  LoopInv'
BY DEF LoopInv, Ordered, Idle, Free

\* revalidate begins.
LEMMA RevalidateBegins ==
    ASSUME IInv, LoopInv, ~Free, UNCHANGED <<chain, pool>>,
           pool = job.before, job.kept = <<>>,
           job' = [job EXCEPT !.step = "revalidate", !.rest = pool]
    PROVE  LoopInv'
<1>1. /\ job'.step = "revalidate" /\ job'.before = pool /\ job'.rest = pool
      /\ job'.kept = <<>>
  BY DEF IInv, TypeOK, Job
<1>2. pool \in Seq(Tx) /\ chain \in Block
  BY DEF IInv, TypeOK
<1>3. Applies(<<>>, chain)
  BY <1>2, EmptyApplies
<1>4. Passed(pool, pool, <<>>)
  BY <1>2, NothingPassed
<1>5. Applies(job'.kept, chain')
  BY <1>1, <1>3
<1>6. Passed(job.before, job.rest, job.kept)'
  BY <1>1, <1>4 DEF Passed, Settled, Confirmed
<1>7. Ordered(pool) /\ Ordered(pool')
  BY DEF LoopInv
<1> QED BY <1>1, <1>5, <1>6, <1>7 DEF LoopInv, Ordered, Applies

\* A round of revalidate.
LEMMA RevalidateLoop ==
    ASSUME IInv, LoopInv, Revalidate
    PROVE  LoopInv'
<1> DEFINE t == Head(job.rest)
           keep == t \notin Confirmed(chain) /\ Spendable(t, History[chain] \o job.kept)
           kept == IF keep THEN Append(job.kept, t) ELSE job.kept
<1>1. /\ job \in Job /\ job.step = "revalidate" /\ job.rest # <<>>
      /\ job.rest \in Seq(Tx) /\ job.kept \in Seq(Tx) /\ chain \in Block
      /\ job.before \in Seq(Tx) /\ ~Free
  BY JobFields DEF IInv, TypeOK, Revalidate, Free
<1>2. t \in Tx
  BY <1>1, TailFacts
<1>3. /\ job'.step = "revalidate" /\ job'.before = job.before
      /\ job'.kept = kept /\ job'.rest = Tail(job.rest)
  BY <1>1 DEF Revalidate, Job
<1>4. chain' = chain /\ pool' = pool
  BY DEF Revalidate
<1>5. Applies(job.kept, chain) /\ Ordered(job.before) /\ Ordered(pool)
      /\ Passed(job.before, job.rest, job.kept)
  BY <1>1 DEF LoopInv
<1>6. Applies(kept, chain)
  BY <1>1, <1>2, <1>5, AddApplies
<1>7. t \in ToSet(job.kept) => ~Spendable(t, History[chain] \o job.kept)
  <2>1. History[chain] \in Seq(Tx) /\ ToSet(History[chain] \o job.kept) = ToSet(History[chain]) \cup ToSet(job.kept)
        /\ History[chain] \o job.kept \in Seq(Tx)
    BY <1>1, HistoryAssumption, ConcatFacts
  <2> QED BY <1>2, <2>1, AppliesOnce
<1>8. kept = IF t \notin Confirmed(chain) /\ t \notin ToSet(job.kept)
                /\ Spendable(t, History[chain] \o job.kept)
             THEN Append(job.kept, t) ELSE job.kept
  BY <1>7
<1>9. kept = job.kept \/ kept = Append(job.kept, t)
  OBVIOUS
<1> HIDE DEF kept, keep
<1>10. Settled(t, kept)
  BY <1>1, <1>2, <1>8, LookedAt
<1>11. Passed(job.before, Tail(job.rest), kept)
  BY <1>1, <1>5, <1>9, <1>10, PassNext
<1>12. Passed(job.before, job.rest, job.kept)'
  BY <1>3, <1>4, <1>11 DEF Passed, Settled, Confirmed
<1>13. Applies(job.kept, chain)'
  BY <1>3, <1>4, <1>6 DEF Applies
<1>14. Ordered(job.before)' /\ Ordered(pool)'
  BY <1>3, <1>4, <1>5 DEF Ordered
<1> QED BY <1>3, <1>12, <1>13, <1>14 DEF LoopInv

\* revalidate has looked at everything, and its result becomes the mempool.  What
\* the two chains share is confirmed; the rest of the old one is the next loop.
LEMMA SaveRetainedLoop ==
    ASSUME IInv, LoopInv, SaveRetained
    PROVE  LoopInv'
<1> DEFINE f == Fork(job.from, chain)
           h == History[job.from]
           n == Len(History[f])
<1>1. /\ job \in Job /\ job.step = "revalidate" /\ job.rest = <<>>
      /\ job.kept \in Seq(Tx) /\ chain \in Block /\ job.from \in Block
      /\ job.before \in Seq(Tx) /\ ~Free
  BY JobFields DEF IInv, TypeOK, SaveRetained, Free
<1>2. /\ job'.step = "return" /\ job'.from = job.from /\ job'.before = job.before
      /\ job'.rest = Lost(job.from, chain) /\ job'.kept = job.kept
  BY <1>1 DEF SaveRetained, Job
<1>3. pool' = job.kept /\ chain' = chain
  BY DEF SaveRetained
<1>4. Applies(job.kept, chain) /\ Ordered(job.before) /\ Ordered(job.kept)
  BY <1>1, AppliesOrdered DEF LoopInv
<1>5. \A t \in ToSet(job.before) : Settled(t, job.kept)
  BY <1>1, AllPassed DEF LoopInv
<1>6. f \in Chain[job.from] /\ f \in Chain[chain]
  BY <1>1, ForkFacts
<1>7. /\ h \in Seq(Tx) /\ Len(h) \in Nat /\ n \in Nat /\ n <= Len(h)
      /\ History[f] = SubSeq(h, 1, n) /\ History[f] \in Seq(Tx) /\ f \in Block
  <2>1. f \in Block
    BY <1>1, ForkFacts
  <2>2. h \in Seq(Tx) /\ History[f] \in Seq(Tx)
    BY <1>1, <2>1, HistoryAssumption
  <2>3. n <= Len(h) /\ History[f] = SubSeq(h, 1, n)
    BY <1>1, <1>6, HistoryAssumption
  <2> QED BY <2>1, <2>2, <2>3, LenProperties
<1>8. Confirmed(f) \subseteq Confirmed(chain)
  <2> DEFINE g == History[chain]
  <2>1. g \in Seq(Tx) /\ n <= Len(g) /\ History[f] = SubSeq(g, 1, n)
    BY <1>1, <1>6, HistoryAssumption
  <2>2. DOMAIN g = 1..Len(g) /\ Len(g) \in Nat /\ DOMAIN History[f] = 1..n
    BY <1>7, <2>1, LenProperties
  <2> HIDE DEF g, n
  <2>3. \A i \in 1..n : SubSeq(g, 1, n)[i] = g[i] /\ i \in 1..Len(g)
    BY <1>7, <2>1, <2>2
  <2> QED BY <2>1, <2>2, <2>3 DEF Confirmed, ToSet, g
<1>9. Passed(h, Lost(job.from, chain), job.kept)
  <2>1. DOMAIN History[f] = 1..n
    BY <1>7, LenProperties
  <2> HIDE DEF n, h
  <2>2. \A i \in 1..n : History[f][i] = h[i]
    BY <1>7
  <2>3. \A i \in 1..((n + 1) - 1) : Settled(h[i], job.kept)
    <3> SUFFICES ASSUME NEW i \in 1..n PROVE Settled(h[i], job.kept)
      BY <1>7
    <3>1. h[i] \in Confirmed(f)
      BY <2>1, <2>2 DEF Confirmed, ToSet
    <3> QED BY <1>8, <3>1 DEF Settled
  <2>4. n + 1 \in 1..(Len(h) + 1)
    BY <1>7
  <2>5. Lost(job.from, chain) = SubSeq(h, n + 1, Len(h))
    BY DEF Lost, h, n
  <2> QED BY <2>3, <2>4, <2>5 DEF Passed
<1>10. Passed(History[job.from], job.rest, job.kept)'
  BY <1>2, <1>3, <1>9 DEF Passed, Settled, Confirmed, h
<1>11. RightlyDropped(pool)' /\ RightlyDropped(job.kept)'
  BY <1>2, <1>3, <1>5 DEF RightlyDropped, Settled, Confirmed
<1>12. Applies(job.kept, chain)' /\ Ordered(pool)' /\ Ordered(job.before)'
  BY <1>2, <1>3, <1>4 DEF Applies, Ordered
<1>13. Saved'
  <2>1. faults' = faults /\ faults \in Nat
    BY FaultAssumption DEF IInv, TypeOK, SaveRetained
  <2>2. Len(job.kept) \in Nat /\ SubSeq(job.kept, 1, Len(job.kept)) = job.kept
    BY <1>1, LenProperties, SubSeqFull
  <2> QED BY <1>2, <1>3, <2>1, <2>2 DEF Saved
<1> QED BY <1>2, <1>10, <1>11, <1>12, <1>13 DEF LoopInv

\* A mempool p that has grown by transaction t, which was disconnected: a dropped
\* transaction whose missing input comes back with t is an orphan.
LEMMA DroppedGrows ==
    ASSUME IInv, RightlyDropped(job.kept), NEW t \in Tx, t \in Confirmed(job.from),
           t \notin Confirmed(chain)
    PROVE  RightlyDropped(Append(job.kept, t))
<1> DEFINE more == Append(job.kept, t)
           gone == (Confirmed(job.from) \cup (ToSet(job.before) \ ToSet(job.kept))) \ Confirmed(chain)
           left == (Confirmed(job.from) \cup (ToSet(job.before) \ ToSet(more))) \ Confirmed(chain)
<1>1. chain \in Block /\ job.kept \in Seq(Tx) /\ job.before \in Seq(Tx)
  BY JobFields DEF IInv, TypeOK
<1>2. \A x \in ToSet(job.before) : x \in Tx
  <2>1. DOMAIN job.before = 1..Len(job.before) /\ \A i \in 1..Len(job.before) : job.before[i] \in Tx
    BY <1>1, LenProperties, ElementOfSeq
  <2> QED BY <2>1 DEF ToSet
<1>3. ToSet(more) = ToSet(job.kept) \cup {t}
  BY <1>1, AppendFacts
<1> HIDE DEF more
<1>4. gone \subseteq left /\ t \in left
  <2>1. t \in left
    OBVIOUS
  <2>2. gone \subseteq left \cup {t}
    BY <1>3
  <2> QED BY <2>1, <2>2
<1>5. ASSUME NEW x \in ToSet(job.before)
      PROVE  Settled(x, more) \/ \E u \in left : Spends[x] \cap Creates[u] # {}
  <2>1. CASE Orphaned(x, job.kept)
    <3>1. \E u \in gone : Spends[x] \cap Creates[u] # {}
      BY <2>1 DEF Orphaned
    <3> HIDE DEF gone, left
    <3> QED BY <3>1, <1>4
  <2>2. CASE Settled(x, job.kept) /\ Spends[x] \cap Creates[t] = {}
    <3>1. Settled(x, Append(job.kept, t))
      BY <2>2, <1>1, <1>2, StaysSettled
    <3> QED BY <3>1 DEF more
  <2>3. CASE Spends[x] \cap Creates[t] # {}
    <3> HIDE DEF left
    <3> QED BY <2>3, <1>4
  <2> QED BY <2>1, <2>2, <2>3 DEF RightlyDropped
<1>6. RightlyDropped(more)
  BY <1>5 DEF RightlyDropped, Orphaned
<1> QED BY <1>6 DEF more

\* What a round of the return does to the handler's mempool, saved or not.
LEMMA ReturnRound ==
    ASSUME IInv, LoopInv, job.step = "return", job.rest # <<>>, NEW more,
           more = IF Accepts(Head(job.rest), job.kept)
                  THEN Append(job.kept, Head(job.rest)) ELSE job.kept
    PROVE  /\ Applies(more, chain) /\ Ordered(more)
           /\ Passed(History[job.from], Tail(job.rest), more)
           /\ RightlyDropped(more)
<1> DEFINE t == Head(job.rest)
           add == Accepts(t, job.kept)
<1>1. /\ job.rest \in Seq(Tx) /\ job.kept \in Seq(Tx) /\ chain \in Block
      /\ job.before \in Seq(Tx) /\ job.from \in Block /\ ~Free
  BY JobFields DEF IInv, TypeOK, Free
<1>2. t \in Tx /\ t \in Confirmed(job.from)
  <2>1. t \in Tx /\ t \in ToSet(job.rest)
    BY <1>1, TailFacts
  <2> QED BY <2>1 DEF IInv, JobInv
<1>3. /\ Applies(job.kept, chain) /\ Passed(History[job.from], job.rest, job.kept)
      /\ RightlyDropped(job.kept)
  BY DEF LoopInv
<1>4. History[job.from] \in Seq(Tx) /\ Valid(History[job.from])
  BY <1>1, HistoryAssumption
<1>5. /\ more = IF t \notin Confirmed(chain) /\ t \notin ToSet(job.kept)
                   /\ Spendable(t, History[chain] \o job.kept)
                THEN Append(job.kept, t) ELSE job.kept
      /\ more = job.kept \/ more = Append(job.kept, t)
      /\ add => more = Append(job.kept, t)
      /\ ~add => more = job.kept
      /\ add => t \notin Confirmed(chain)
      /\ add => Spendable(t, History[chain] \o job.kept)
  BY <1>3 DEF Accepts
<1> HIDE DEF add, t
<1>6. Applies(more, chain)
  <2>1. CASE add
    BY <2>1, <1>1, <1>2, <1>3, <1>5, AddApplies
  <2>2. CASE ~add
    BY <2>2, <1>3, <1>5
  <2> QED BY <2>1, <2>2
<1>7. Ordered(more)
  <2>1. more \in Seq(Tx)
    <3>1. Append(job.kept, t) \in Seq(Tx)
      BY <1>1, <1>2, AppendFacts
    <3> QED BY <1>1, <1>5, <3>1
  <2> QED BY <1>1, <1>6, <2>1, AppliesOrdered
<1>8. Passed(History[job.from], Tail(job.rest), more)
  <2>1. Settled(t, more)
    BY <1>1, <1>2, <1>5, LookedAt
  <2>2. Ordered(History[job.from])
    BY <1>4, ValidOrdered
  <2>3. Settled(Head(job.rest), more) /\ (more = job.kept \/ more = Append(job.kept, Head(job.rest)))
    BY <1>5, <2>1 DEF t
  <2> QED BY <1>1, <1>3, <1>4, <2>2, <2>3, PassNext
<1>9. RightlyDropped(more)
  <2>1. CASE add
    BY <2>1, <1>2, <1>3, <1>5, DroppedGrows
  <2>2. CASE ~add
    BY <2>2, <1>3, <1>5
  <2> QED BY <2>1, <2>2
<1> QED BY <1>6, <1>7, <1>8, <1>9

\* A round of the return, with its save.
LEMMA ReturnLoop ==
    ASSUME IInv, LoopInv, ReturnTransaction
    PROVE  LoopInv'
<1> DEFINE add == Accepts(Head(job.rest), job.kept)
           more == IF add THEN Append(job.kept, Head(job.rest)) ELSE job.kept
<1>1. /\ job \in Job /\ job.step = "return" /\ job.rest # <<>> /\ job.rest \in Seq(Tx)
      /\ job.kept \in Seq(Tx) /\ chain' = chain /\ faults' = faults /\ ~Free
  BY JobFields DEF IInv, TypeOK, ReturnTransaction, Free
<1>2. /\ Applies(more, chain) /\ Ordered(more) /\ RightlyDropped(more)
      /\ Passed(History[job.from], Tail(job.rest), more)
  BY <1>1, ReturnRound
<1>3. more \in Seq(Tx)
  <2>1. Append(job.kept, Head(job.rest)) \in Seq(Tx)
    BY <1>1, TailFacts, AppendFacts
  <2> QED BY <1>1, <2>1
<1>4. /\ add => /\ pool' = more
                /\ job' = [job EXCEPT !.rest = Tail(job.rest), !.kept = more]
      /\ ~add => pool' = pool /\ more = job.kept /\ job' = [job EXCEPT !.rest = Tail(job.rest)]
  BY DEF ReturnTransaction
<1> HIDE DEF add, more
<1>5. /\ job'.step = "return" /\ job'.before = job.before /\ job'.from = job.from
      /\ job'.rest = Tail(job.rest) /\ job'.kept = more
  BY <1>1, <1>4 DEF Job
<1>6. Ordered(pool) /\ RightlyDropped(pool) /\ Saved /\ Ordered(job.before)
  BY <1>1 DEF LoopInv
<1>7. Ordered(pool') /\ RightlyDropped(pool')
  BY <1>2, <1>4, <1>6
<1>8. Saved'
  <2>1. CASE add
    <3>1. Len(more) \in Nat /\ SubSeq(more, 1, Len(more)) = more /\ faults \in Nat
      BY <1>3, LenProperties, SubSeqFull, FaultAssumption DEF IInv, TypeOK
    <3> QED BY <1>1, <1>4, <1>5, <2>1, <3>1 DEF Saved
  <2>2. CASE ~add
    BY <1>1, <1>4, <1>5, <1>6, <2>2 DEF Saved
  <2> QED BY <2>1, <2>2
<1>9. Passed(History[job.from], job.rest, job.kept)'
  BY <1>1, <1>2, <1>5 DEF Passed, Settled, Confirmed
<1>10. RightlyDropped(job.kept)' /\ RightlyDropped(pool)'
  BY <1>1, <1>2, <1>5, <1>7 DEF RightlyDropped, Settled, Orphaned, Confirmed
<1>11. Applies(job.kept, chain)' /\ Ordered(pool)' /\ Ordered(job.before)'
  BY <1>1, <1>2, <1>5, <1>6, <1>7 DEF Applies, Ordered
<1> QED BY <1>5, <1>8, <1>9, <1>10, <1>11 DEF LoopInv

\* A round of the return whose save throws: the file falls behind by one more.
LEMMA NotSavedLoop ==
    ASSUME IInv, LoopInv, ReturnNotSaved
    PROVE  LoopInv'
<1> DEFINE t == Head(job.rest)
           more == Append(job.kept, t)
<1>1. /\ job \in Job /\ job.step = "return" /\ job.rest # <<>> /\ job.rest \in Seq(Tx)
      /\ job.kept \in Seq(Tx) /\ pool \in Seq(Tx) /\ chain' = chain /\ pool' = pool
      /\ faults \in Nat /\ faults' = faults + 1 /\ ~Free
  BY JobFields, FaultAssumption DEF IInv, TypeOK, ReturnNotSaved, Free
<1>2. t \in Tx
  BY <1>1, TailFacts
<1>3. /\ Applies(more, chain) /\ RightlyDropped(more)
      /\ Passed(History[job.from], Tail(job.rest), more)
  <2>1. Accepts(Head(job.rest), job.kept)
    BY DEF ReturnNotSaved
  <2> QED BY <1>1, <2>1, ReturnRound
<1>4. job' = [job EXCEPT !.rest = Tail(job.rest), !.kept = more]
  BY DEF ReturnNotSaved
<1>5. /\ Len(more) = Len(job.kept) + 1 /\ \A i \in 1..Len(job.kept) : more[i] = job.kept[i]
      /\ Len(job.kept) \in Nat /\ Len(pool) \in Nat /\ more \in Seq(Tx)
  BY <1>1, <1>2, AppendFacts, LenProperties
<1> HIDE DEF more, t
<1>6. /\ job'.step = "return" /\ job'.before = job.before /\ job'.from = job.from
      /\ job'.rest = Tail(job.rest) /\ job'.kept = more
  BY <1>1, <1>4 DEF Job
<1>7. Ordered(pool) /\ RightlyDropped(pool) /\ Saved /\ Ordered(job.before)
  BY <1>1 DEF LoopInv
<1>8. Saved'
  <2>1. Len(pool) <= Len(more) /\ Len(more) <= Len(pool) + faults'
    BY <1>1, <1>5, <1>7 DEF Saved
  <2>2. SubSeq(more, 1, Len(pool)) = SubSeq(job.kept, 1, Len(pool))
    <3>1. Len(pool) <= Len(job.kept)
      BY <1>7 DEF Saved
    <3> QED BY <1>1, <1>5, <3>1, Z3
  <2> QED BY <1>1, <1>6, <1>7, <2>1, <2>2 DEF Saved
<1>9. Passed(History[job.from], job.rest, job.kept)'
  BY <1>1, <1>3, <1>6 DEF Passed, Settled, Confirmed
<1>10. RightlyDropped(job.kept)' /\ RightlyDropped(pool)'
  BY <1>1, <1>3, <1>6, <1>7 DEF RightlyDropped, Settled, Orphaned, Confirmed
<1>11. Applies(job.kept, chain)' /\ Ordered(pool)' /\ Ordered(job.before)'
  BY <1>1, <1>3, <1>6, <1>7 DEF Applies, Ordered
<1> QED BY <1>6, <1>8, <1>9, <1>10, <1>11 DEF LoopInv

LEMMA NextLoop ==
    ASSUME IInv, LoopInv, [Next]_vars
    PROVE  LoopInv'
<1>1. job \in Job
  BY DEF IInv, TypeOK
<1>2. ASSUME NEW t \in Tx, AddTransaction(t) PROVE LoopInv'
  BY <1>2, AddLoop
<1>3. ASSUME NEW b \in Block, StoreSideBlock(b) PROVE LoopInv'
  BY <1>3, KeepsLoop DEF StoreSideBlock
<1>4. ASSUME NEW b \in Block, ConnectBlock(b) \/ Generate(b) PROVE LoopInv'
  BY <1>4, OutsideLoop DEF ConnectBlock, Generate, Start
<1>5. ASSUME NEW s \in Session, SessionStep(s) PROVE LoopInv'
  <2>1. CASE ActivateCandidate(s)
    BY <2>1, OutsideLoop DEF ActivateCandidate, Start
  <2>2. CASE ReceiveHeaders(s) \/ Disconnect(s)
    BY <2>2, KeepsLoop DEF ReceiveHeaders, Disconnect
  <2>3. ASSUME NEW b \in Block, StartCandidate(s, b) \/ ReceiveCandidateBlock(s, b)
        PROVE  LoopInv'
    BY <2>3, KeepsLoop DEF StartCandidate, ReceiveCandidateBlock
  <2> QED BY <1>5, <2>1, <2>2, <2>3 DEF SessionStep
<1>6. CASE ClearPool
  <2>1. job' = Idle /\ pool' = <<>>
    BY <1>6 DEF ClearPool
  <2>2. Ordered(<<>>)
    BY DEF Ordered
  <2> QED BY <2>1, <2>2, AfterLoop DEF Ordered
<1>7. CASE StoreDisconnected
  <2>1. pool' = pool /\ job'.step = "activate" /\ job'.before = job.before /\ ~Free
    BY <1>1, <1>7 DEF StoreDisconnected, Job, Free
  <2> QED BY <2>1, OutsideLoop
<1>8. CASE ActivateIfMoreWork
  <2> DEFINE tip == candidate[job.session].tip
  <2>1. ~Free /\ pool' = pool /\ pool = job.before /\ job.kept = <<>>
    BY <1>8 DEF ActivateIfMoreWork, IInv, JobInv, Free
  <2>2. CASE Work(tip) > Work(chain)
    <3>1. job' = [job EXCEPT !.step = "remove"]
      BY <1>8, <2>2 DEF ActivateIfMoreWork
    <3>2. job'.step = "remove" /\ job'.before = job.before
      BY <1>1, <3>1 DEF Job
    <3> QED BY <2>1, <3>2, OutsideLoop
  <2>3. CASE ~(Work(tip) > Work(chain))
    <3>1. chain' = chain /\ job' = [job EXCEPT !.step = "revalidate", !.rest = pool]
      BY <1>8, <2>3 DEF ActivateIfMoreWork
    <3> QED BY <2>1, <3>1, RevalidateBegins
  <2> QED BY <2>2, <2>3
<1>9. CASE RemoveActive
  <2>1. /\ ~Free /\ UNCHANGED <<chain, pool>> /\ pool = job.before /\ job.kept = <<>>
        /\ job' = [job EXCEPT !.step = "revalidate", !.rest = pool]
    BY <1>9 DEF RemoveActive, IInv, JobInv, Free
  <2> QED BY <2>1, RevalidateBegins
<1>10. CASE FinishJob \/ Restart \/ SaveFails
  <2>1. job' = Idle /\ pool' = pool
    BY <1>10 DEF FinishJob, Restart, SaveFails
  <2>2. Ordered(pool')
    BY <2>1 DEF LoopInv
  <2> QED BY <2>1, <2>2, AfterLoop
<1>11. CASE UNCHANGED vars
  BY <1>11, KeepsLoop DEF vars
<1> QED BY <1>2, <1>3, <1>4, <1>5, <1>6, <1>7, <1>8, <1>9, <1>10, <1>11,
        RevalidateLoop, SaveRetainedLoop, ReturnLoop, NotSavedLoop DEF Next, JobStep

\* What the loops of revalidate and activate_candidate have behind them is settled,
\* in every behaviour.
THEOREM LoopsSettle == Spec => []LoopInv
<1>1. Init => LoopInv
  BY DEF Init, LoopInv, Ordered, Idle, Free
<1>2. IInv /\ LoopInv /\ [Next]_vars => LoopInv'
  BY NextLoop
<1> QED BY <1>1, <1>2, Inductive, PTL DEF Spec

\* When the activation of a chain ends, each transaction of a disconnected block is
\* confirmed, cannot be added, or is in the mempool of the handler; of that mempool the
\* file lacks at most as many transactions, from its end, as saves have failed.
THEOREM NothingLostOnActivation == Spec => []DisconnectedReturned
<1>1. IInv /\ LoopInv => DisconnectedReturned
  <2> SUFFICES ASSUME IInv, LoopInv, job.step = "return", job.rest = <<>>
               PROVE  /\ \A t \in ToSet(History[job.from]) : Settled(t, job.kept)
                      /\ Saved
    BY DEF DisconnectedReturned, Confirmed
  <2>1. /\ job.from \in Block /\ job.kept \in Seq(Tx)
        /\ History[job.from] \in Seq(Tx)
    BY JobFields, HistoryAssumption DEF IInv, TypeOK
  <2>2. Passed(History[job.from], <<>>, job.kept) /\ Saved
    BY DEF LoopInv
  <2> QED BY <2>1, <2>2, AllPassed
<1> QED BY <1>1, Inductive, LoopsSettle, PTL

\* A handler drops nothing from the mempool that still applies, but for the children of
\* what was disconnected or dropped.
THEOREM OnlyInvalidDropped == Spec => []DropsOnlyInvalid
<1>1. LoopInv => DropsOnlyInvalid
  BY DEF LoopInv, DropsOnlyInvalid
<1> QED BY <1>1, LoopsSettle, PTL
=============================================================================
