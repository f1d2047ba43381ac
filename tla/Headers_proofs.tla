---------------------------- MODULE Headers_proofs ----------------------------
(***************************************************************************)
(* What the protocols between two nodes rely on: facts about chains, about *)
(* what a request for headers is answered with, and about sequences of     *)
(* messages.  For any tree of blocks, any locators and any limit.          *)
(***************************************************************************)
EXTENDS Headers, SequencesExt, SequenceTheorems, FiniteSetTheorems, WellFoundedInduction, TLAPS

-----------------------------------------------------------------------------
(* Chains.                                                                 *)

\* A set of natural numbers that is not empty has a least element.
LEMMA LeastExists ==
    ASSUME NEW S \in SUBSET Nat, S # {}
    PROVE  \E m \in S : \A n \in S : m <= n
<1>1. PICK m \in S : \A n \in S : <<n, m>> \notin OpToRel(<, Nat)
  BY WFMin, NatLessThanWellFounded
<1>2. \A n \in S : m <= n
  <2> TAKE n \in S
  <2>1. <<n, m>> \notin {ss \in Nat \X Nat : ss[1] < ss[2]}
    BY <1>1 DEF OpToRel
  <2> QED BY <2>1
<1> QED BY <1>2

\* Work is a natural number, and grows along a chain.
LEMMA WorkFacts ==
    ASSUME NEW a \in Block, NEW b \in Block
    PROVE  /\ Work(a) \in Nat
           /\ Chain[a] \subseteq Chain[b] => Work(a) <= Work(b)
           /\ Chain[a] \subseteq Chain[b] /\ Work(a) = Work(b) => Chain[a] = Chain[b]
<1>1. IsFiniteSet(Chain[a]) /\ IsFiniteSet(Chain[b])
  BY FiniteChains
<1>2. Cardinality(Chain[a]) \in Nat
  BY <1>1, FS_CardinalityType
<1>3. Chain[a] \subseteq Chain[b] =>
        /\ Cardinality(Chain[a]) <= Cardinality(Chain[b])
        /\ Cardinality(Chain[b]) = Cardinality(Chain[a]) => Chain[b] = Chain[a]
  BY <1>1, FS_Subset
<1> QED BY <1>2, <1>3 DEF Work

\* The blocks of a chain, and the chains below them.
LEMMA ChainFacts ==
    ASSUME NEW b \in Block
    PROVE  /\ Chain[b] \subseteq Block /\ b \in Chain[b] /\ Genesis \in Chain[b] /\ Genesis \in Block
           /\ \A a \in Chain[b] : Chain[a] \subseteq Chain[b] /\ Work(a) <= Work(b)
<1>1. /\ Chain[b] \subseteq Block /\ b \in Chain[b] /\ Genesis \in Chain[b] /\ Genesis \in Block
      /\ \A a \in Chain[b] : Chain[a] \subseteq Chain[b]
  BY TreeAssumption
<1> QED BY <1>1, WorkFacts

\* Of two blocks of a chain, the one with less work is below the other.
LEMMA BelowOnChain ==
    ASSUME NEW b \in Block, NEW a \in Chain[b], NEW c \in Chain[b], Work(a) <= Work(c)
    PROVE  a \in Chain[c]
<1>1. a \in Block /\ c \in Block /\ a \in Chain[a]
  BY ChainFacts
<1>2. CASE c \in Chain[a]
  <2>1. Chain[c] \subseteq Chain[a] /\ Work(c) <= Work(a)
    BY <1>1, <1>2, ChainFacts
  <2>2. Work(a) = Work(c)
    BY <1>1, <2>1, WorkFacts
  <2> QED BY <1>1, <2>1, <2>2, WorkFacts
<1> QED BY <1>2, TreeAssumption

\* A set of blocks of one chain has a highest block.
LEMMA HighestFacts ==
    ASSUME NEW b \in Block, NEW S \in SUBSET Chain[b], S # {}
    PROVE  /\ Highest(S) \in S
           /\ \A c \in S : Work(c) <= Work(Highest(S))
<1> DEFINE D == {Work(b) - Work(c) : c \in S}
<1>1. \A c \in S : c \in Block /\ Work(c) \in Nat /\ Work(b) - Work(c) \in Nat
  BY ChainFacts, WorkFacts
<1>2. D \in SUBSET Nat /\ D # {}
  BY <1>1
<1> HIDE DEF D
<1>3. PICK m \in D : \A n \in D : m <= n
  BY <1>2, LeastExists
<1>4. PICK h \in S : m = Work(b) - Work(h)
  BY <1>3 DEF D
<1>5. \A c \in S : Work(c) <= Work(h)
  <2> TAKE c \in S
  <2>1. Work(b) - Work(h) <= Work(b) - Work(c)
    BY <1>3, <1>4 DEF D
  <2> QED BY <2>1, <1>1, WorkFacts
<1> QED BY <1>5 DEF Highest

-----------------------------------------------------------------------------
(* Requests for headers and their answers.                                 *)

\* The headers that answer a request begin at a block the requester named, or at
\* genesis, and they are a piece of the chain of the node that answers.
LEMMA AnswerFacts ==
    ASSUME NEW b \in Block, NEW locator \in SUBSET Block
    PROVE  LET from == ForkOf(locator, b)
               to == LastHeader(from, b)
           IN  /\ from \in Chain[b] /\ from \in locator \cup {Genesis}
               /\ to \in Chain[b] /\ from \in Chain[to]
               /\ from \in Block /\ to \in Block
<1> DEFINE from == ForkOf(locator, b)
           known == (locator \cup {Genesis}) \cap Chain[b]
           reach == {c \in Chain[b] : Work(c) <= Work(from) + MaxHeaders}
           to == LastHeader(from, b)
<1>1. known \in SUBSET Chain[b] /\ known # {}
  BY ChainFacts
<1>2. from \in known
  BY <1>1, HighestFacts DEF ForkOf
<1>3. from \in Block /\ Work(from) \in Nat
  BY <1>2, ChainFacts, WorkFacts
<1>4. reach \in SUBSET Chain[b] /\ from \in reach
  BY <1>2, <1>3, LocatorAssumption
<1>5. to \in reach /\ Work(from) <= Work(to)
  BY <1>4, HighestFacts DEF LastHeader
<1>6. from \in Chain[to]
  BY <1>2, <1>5, BelowOnChain
<1> QED BY <1>2, <1>3, <1>5, <1>6, ChainFacts

-----------------------------------------------------------------------------
(* Messages.                                                               *)

\* A list of the members of a finite set has each of them.
LEMMA OrderFacts ==
    ASSUME NEW S, IsFiniteSet(S), NEW order \in SetToSeqs(S)
    PROVE  /\ order \in Seq(S)
           /\ \A b \in S : \E i \in DOMAIN order : order[i] = b
<1> DEFINE D == 1 .. Cardinality(S)
<1>1. order \in [D -> S] /\ \A i, j \in D : i # j => order[i] # order[j]
  BY DEF SetToSeqs
<1>2. Cardinality(S) \in Nat /\ IsFiniteSet(D) /\ Cardinality(D) = Cardinality(S)
  BY FS_CardinalityType, FS_Interval
<1>3. order \in Injection(D, S)
  BY <1>1 DEF Injection, IsInjective
<1>4. order \in Surjection(D, S)
  BY <1>2, <1>3, FS_Injection
<1>5. order \in Seq(S)
  BY <1>1, <1>2, SeqDef
<1>6. \A b \in S : \E i \in D : order[i] = b
  BY <1>4 DEF Surjection
<1> QED BY <1>1, <1>5, <1>6

\* The places of a sequence of messages that hold one of a type.
Places(s, type) == {i \in DOMAIN s : s[i].type = type}
Count(s, type) == Cardinality(Places(s, type))

LEMMA PlacesFinite ==
    ASSUME NEW M, NEW s \in Seq(M), NEW type
    PROVE  IsFiniteSet(Places(s, type)) /\ Count(s, type) \in Nat
<1>1. Len(s) \in Nat /\ DOMAIN s = 1 .. Len(s)
  BY LenProperties
<1>2. IsFiniteSet(1 .. Len(s))
  BY <1>1, FS_Interval
<1>3. Places(s, type) \in SUBSET (1 .. Len(s))
  BY <1>1 DEF Places
<1>4. IsFiniteSet(Places(s, type))
  BY <1>2, <1>3, FS_Subset
<1> QED BY <1>4, FS_CardinalityType DEF Count

\* What is taken from the head is counted no longer.
LEMMA CountTail ==
    ASSUME NEW M, NEW s \in Seq(M), s # <<>>, NEW type
    PROVE  Count(Tail(s), type) = Count(s, type) - (IF Head(s).type = type THEN 1 ELSE 0)
<1> DEFINE P == Places(s, type)
           T == Places(Tail(s), type)
           f == [i \in T |-> i + 1]
<1>1. /\ Len(s) \in Nat \ {0} /\ DOMAIN s = 1 .. Len(s) /\ Head(s) = s[1]
      /\ Tail(s) \in Seq(M) /\ Len(Tail(s)) = Len(s) - 1 /\ DOMAIN Tail(s) = 1 .. Len(Tail(s))
      /\ \A i \in 1 .. Len(Tail(s)) : Tail(s)[i] = s[i + 1]
  BY EmptySeq, LenProperties, HeadTailProperties
<1>2. IsFiniteSet(P) /\ IsFiniteSet(T) /\ Cardinality(P) \in Nat
  BY <1>1, PlacesFinite DEF Count
<1>3. f \in Bijection(T, P \ {1})
  <2>1. f \in [T -> P \ {1}]
    BY <1>1 DEF Places
  <2>2. \A i, j \in T : f[i] = f[j] => i = j
    BY <1>1 DEF Places
  <2>3. \A k \in P \ {1} : k - 1 \in T /\ f[k - 1] = k
    BY <1>1 DEF Places
  <2> HIDE DEF f
  <2> QED BY <2>1, <2>2, <2>3 DEF Bijection, Injection, Surjection, IsInjective
<1>4. Cardinality(P \ {1}) = Cardinality(T)
  BY <1>2, <1>3, FS_Bijection DEF ExistsBijection
<1>5. Cardinality(P \ {1}) = IF 1 \in P THEN Cardinality(P) - 1 ELSE Cardinality(P)
  BY <1>2, FS_RemoveElement
<1>6. 1 \in P <=> Head(s).type = type
  BY <1>1 DEF Places
<1> QED BY <1>2, <1>4, <1>5, <1>6 DEF Count

\* What is sent is counted with what is on its way.
LEMMA CountConcat ==
    ASSUME NEW M, NEW s \in Seq(M), NEW u \in Seq(M), NEW type
    PROVE  Count(s \o u, type) = Count(s, type) + Count(u, type)
<1> DEFINE P == Places(s, type)
           U == Places(u, type)
           W == Places(s \o u, type)
           f == [i \in U |-> i + Len(s)]
<1>1. /\ Len(s) \in Nat /\ DOMAIN s = 1 .. Len(s)
      /\ Len(u) \in Nat /\ DOMAIN u = 1 .. Len(u)
      /\ s \o u \in Seq(M) /\ Len(s \o u) = Len(s) + Len(u) /\ DOMAIN (s \o u) = 1 .. (Len(s) + Len(u))
      /\ \A i \in 1 .. (Len(s) + Len(u)) : (s \o u)[i] = IF i <= Len(s) THEN s[i] ELSE u[i - Len(s)]
  BY LenProperties, ConcatProperties
<1>2. IsFiniteSet(P) /\ IsFiniteSet(U) /\ IsFiniteSet(W)
      /\ Cardinality(P) \in Nat /\ Cardinality(U) \in Nat
  BY <1>1, PlacesFinite DEF Count
<1>3. P \subseteq W
  BY <1>1 DEF Places
<1>4. f \in Bijection(U, W \ P)
  <2>1. f \in [U -> W \ P]
    BY <1>1 DEF Places
  <2>2. \A i, j \in U : f[i] = f[j] => i = j
    BY <1>1 DEF Places
  <2>3. \A k \in W \ P : k - Len(s) \in U /\ f[k - Len(s)] = k
    BY <1>1 DEF Places
  <2> HIDE DEF f
  <2> QED BY <2>1, <2>2, <2>3 DEF Bijection, Injection, Surjection, IsInjective
<1>5. Cardinality(W \ P) = Cardinality(U)
  BY <1>2, <1>4, FS_Bijection DEF ExistsBijection
<1>6. Cardinality(W \ P) = Cardinality(W) - Cardinality(P)
  <2>1. W \cap P = P
    BY <1>3
  <2> QED BY <1>2, <2>1, FS_Difference
<1>7. Cardinality(W) \in Nat
  BY <1>2, FS_CardinalityType
<1> QED BY <1>2, <1>5, <1>6, <1>7 DEF Count

\* Short sequences.
LEMMA CountShort ==
    ASSUME NEW type
    PROVE  /\ Count(<<>>, type) = 0
           /\ \A m : Count(<<m>>, type) = IF m.type = type THEN 1 ELSE 0
<1>1. Places(<<>>, type) = {}
  BY DEF Places
<1>2. ASSUME NEW m PROVE Places(<<m>>, type) = IF m.type = type THEN {1} ELSE {}
  BY DEF Places
<1> QED BY <1>1, <1>2, FS_EmptySet, FS_Singleton DEF Count
=============================================================================
