---------------------------- MODULE Wallet_proofs ----------------------------
(***************************************************************************)
(* The invariants of Wallet, for any threads, seeds, lookahead and index   *)
(* limit.  What makes HandedOutOnce inductive is where the keys handed out *)
(* lie: below the next index on the disk, and below the one the holder is  *)
(* about to answer with.                                                   *)
(***************************************************************************)
EXTENDS Wallet, TLAPS

HdKey == [seed: Seed, index: Nat]

\* The keys handed out belong to the wallet on the disk.
GivenInv ==
  \A i \in DOMAIN given :
    \/ given[i] = LegacyKey /\ (IF wallet = None THEN legacy
                                                 ELSE wallet.legacyKey)
    \/ /\ given[i] \in HdKey
       /\ wallet # None
       /\ given[i].seed = wallet.seed
       /\ given[i].index < wallet.receive

\* No file is more than one index past the limit, and none that is gets loaded.
LimitInv ==
  /\ wallet # None => wallet.receive <= MaxIndex + 1
  /\ step = "loaded" => mem.receive <= MaxIndex
  /\ step = "save" => mem.receive <= MaxIndex + 1

\* The holder's wallet is the one on the disk, one key ahead while it saves.
HolderInv ==
  /\ step = "loaded" => wallet # None /\ mem = wallet
  /\ step = "save" =>
       /\ answer = [seed |-> mem.seed, index |-> mem.receive - 1]
       /\ IF wallet = None
            THEN mem.legacyKey = legacy
            ELSE mem = [wallet EXCEPT !.receive = @ + 1]
  /\ step = "saved" =>
       /\ wallet = mem
       /\ answer = [seed |-> mem.seed, index |-> mem.receive - 1]
       /\ \A i \in DOMAIN given : given[i] # answer

IInv == TypeOK /\ HandedOutOnce /\ GivenInv /\ HolderInv /\ LimitInv

-----------------------------------------------------------------------------
LEMMA InitIInv == Init => IInv
<1> USE DEF IInv, TypeOK, HandedOutOnce, GivenInv, HolderInv, LimitInv, Init, Key,
            Wallet, Actor, HdKey
<1>1. CASE legacy
  <2>1. ASSUME Init PROVE given = <<LegacyKey>>
    BY <1>1, <2>1
  <2>2. <<LegacyKey>> \in Seq(Key) /\ DOMAIN <<LegacyKey>> = {1}
    OBVIOUS
  <2>3. ASSUME Init PROVE IInv
    BY <1>1, <2>1, <2>2, <2>3, NoneAssumption
  <2> QED BY <2>3
<1>2. CASE ~legacy
  <2>1. <<>> \in Seq(Key) /\ DOMAIN <<>> = {}
    OBVIOUS
  <2> QED BY <1>2, <2>1, NoneAssumption
<1> QED BY <1>1, <1>2

\* A command starts from a wallet that no file holds yet.
LEMMA CommandIInv ==
  ASSUME IInv, NEW w \in Wallet, w.receive = 1, w.legacyKey = legacy,
         wallet = None, Command(w)
  PROVE  IInv'
<1> USE DEF IInv, TypeOK, HandedOutOnce, GivenInv, HolderInv, LimitInv, Command, Key,
            Actor, HdKey
<1>1. mem' = w /\ answer' = [seed |-> w.seed, index |-> w.receive - 1]
  OBVIOUS
<1>2. w.seed \in Seed /\ answer' \in Key
  BY <1>1 DEF Wallet
<1>3. TypeOK'
  BY <1>1, <1>2, NoneAssumption DEF Wallet
<1>4. HolderInv'
  BY <1>1, NoneAssumption
<1>5. HandedOutOnce' /\ GivenInv'
  OBVIOUS
<1>6. LimitInv'
  BY <1>1, IndexAssumption DEF LimitInv
<1> QED BY <1>3, <1>4, <1>5, <1>6

LEMMA LoadIInv == ASSUME IInv, NEW t \in Thread, Load(t) PROVE IInv'
<1>1. TypeOK' /\ HandedOutOnce' /\ GivenInv' /\ HolderInv'
  BY NoneAssumption DEF IInv, TypeOK, HandedOutOnce, GivenInv, HolderInv, Load,
     Key, Wallet, Actor, HdKey
<1>2. LimitInv'
  BY DEF IInv, LimitInv, Load, Loads
<1> QED BY <1>1, <1>2 DEF IInv

LEMMA GetNewAddressIInv == ASSUME IInv, GetNewAddress PROVE IInv'
<1> USE DEF IInv, TypeOK, HandedOutOnce, GivenInv, HolderInv, LimitInv, GetNewAddress,
            Key, Wallet, Actor, HdKey
<1>1. wallet \in Wallet /\ mem = wallet
  BY NoneAssumption
<1>2. mem' = [wallet EXCEPT !.receive = @ + 1] /\ mem' \in Wallet
  BY <1>1
<1>3. /\ answer' = [seed |-> wallet.seed, index |-> wallet.receive]
      /\ answer' = [seed |-> mem'.seed, index |-> mem'.receive - 1]
      /\ answer' \in Key
  BY <1>1, <1>2
<1>4. TypeOK'
  BY <1>1, <1>2, <1>3, NoneAssumption
<1>5. HolderInv'
  BY <1>1, <1>2, <1>3, NoneAssumption
<1>6. HandedOutOnce' /\ GivenInv'
  OBVIOUS
<1>7. LimitInv'
  <2>1. mem.receive \in Nat /\ mem.receive <= MaxIndex /\ mem'.receive = mem.receive + 1
    BY <1>1, <1>2 DEF LimitInv
  <2> QED BY <2>1, IndexAssumption DEF LimitInv
<1> QED BY <1>4, <1>5, <1>6, <1>7

LEMMA ReplaceFileIInv == ASSUME IInv, ReplaceFile PROVE IInv'
<1> USE DEF IInv, TypeOK, HandedOutOnce, GivenInv, HolderInv, LimitInv, ReplaceFile,
            Key, Wallet, Actor, HdKey
<1>1. mem \in Wallet /\ wallet' = mem /\ mem # None
  BY NoneAssumption
<1>2. CASE wallet = None
  <2>1. \A i \in DOMAIN given : given[i] = LegacyKey /\ legacy
    BY <1>2
  <2>2. mem.legacyKey = legacy
    BY <1>2
  <2>3. GivenInv'
    BY <1>1, <2>1, <2>2
  <2>4. \A i \in DOMAIN given : given[i] # answer
    BY <1>1, <2>1, NoneAssumption
  <2> QED BY <1>1, <2>3, <2>4
<1>3. CASE wallet # None
  <2>1. /\ wallet \in Wallet
        /\ mem.seed = wallet.seed
        /\ mem.receive = wallet.receive + 1
        /\ mem.legacyKey = wallet.legacyKey
    BY <1>3
  <2>2. GivenInv'
    BY <1>1, <1>3, <2>1
  <2>3. answer = [seed |-> wallet.seed, index |-> wallet.receive]
    BY <2>1, <1>3
  <2>4. \A i \in DOMAIN given : given[i] # answer
    BY <1>3, <2>1, <2>3, NoneAssumption
  <2> QED BY <1>1, <2>2, <2>4
<1> QED BY <1>2, <1>3

LEMMA AnswerIInv == ASSUME IInv, Answer PROVE IInv'
<1> USE DEF IInv, Answer, Release
<1>1. /\ given \in Seq(Key) /\ answer \in HdKey /\ wallet \in Wallet
      /\ answer.seed = wallet.seed /\ answer.index = wallet.receive - 1
      /\ wallet.receive \in Nat /\ wallet # None
  BY NoneAssumption DEF TypeOK, HolderInv, Key, Wallet, HdKey
<1>2. /\ given' \in Seq(Key)
      /\ DOMAIN given' = DOMAIN given \cup {Len(given) + 1}
      /\ \A i \in DOMAIN given : given'[i] = given[i]
      /\ given'[Len(given) + 1] = answer
  BY <1>1 DEF Key, HdKey
<1>3. \A i \in DOMAIN given : given[i] # answer
  BY DEF HolderInv
<1>4. TypeOK'
  BY <1>1, <1>2 DEF TypeOK
<1>5. HandedOutOnce'
  BY <1>1, <1>2, <1>3 DEF HandedOutOnce
<1>6. GivenInv'
  BY <1>1, <1>2 DEF GivenInv
<1>7. HolderInv' /\ LimitInv'
  BY DEF HolderInv, LimitInv
<1> QED BY <1>4, <1>5, <1>6, <1>7

LEMMA ReleaseIInv ==
  ASSUME IInv, Release, UNCHANGED <<wallet, legacy, given>> PROVE IInv'
BY DEF IInv, TypeOK, HandedOutOnce, GivenInv, HolderInv, LimitInv, Release

LEMMA NextIInv == ASSUME IInv, [Next]_vars PROVE IInv'
<1>1. ASSUME NEW s \in Seed, Create(s) \/ Import(s) PROVE IInv'
  <2>1. wallet = None /\ legacy = FALSE /\ Command(NewWallet(s, FALSE))
    BY <1>1 DEF Create, Import, Exists, IInv, TypeOK
  <2>2. /\ NewWallet(s, FALSE) \in Wallet
        /\ NewWallet(s, FALSE).receive = 1 /\ NewWallet(s, FALSE).legacyKey = FALSE
    BY DEF NewWallet, Wallet
  <2> QED BY <2>1, <2>2, CommandIInv
<1>2. ASSUME NEW s \in Seed, UpgradeLegacy(s) PROVE IInv'
  <2> DEFINE w == NewWallet(s, TRUE)
  <2>1. wallet = None /\ legacy = TRUE /\ Command(w)
    BY <1>2 DEF UpgradeLegacy, IInv, TypeOK
  <2>2. w \in Wallet /\ w.receive = 1 /\ w.legacyKey = TRUE
    BY DEF NewWallet, Wallet
  <2> HIDE DEF w
  <2> QED BY <2>1, <2>2, CommandIInv
<1>3. ASSUME NEW t \in Thread, Load(t) PROVE IInv'
  BY <1>3, LoadIInv
<1>4. CASE GetNewAddress
  BY <1>4, GetNewAddressIInv
<1>5. CASE ReplaceFile
  BY <1>5, ReplaceFileIInv
<1>6. CASE Answer
  BY <1>6, AnswerIInv
<1>7. CASE SaveFails \/ RestrictPermissionsFails \/ Die
  BY <1>7, ReleaseIInv DEF SaveFails, RestrictPermissionsFails, Die
<1>8. CASE UNCHANGED vars
  BY <1>8 DEF vars, IInv, TypeOK, HandedOutOnce, GivenInv, HolderInv, LimitInv
<1> QED BY <1>1, <1>2, <1>3, <1>4, <1>5, <1>6, <1>7, <1>8 DEF Next

\* Every reachable state is typed.  (hd_wallet_backend.cpp)
THEOREM TypeCorrect == Spec => []TypeOK
<1>1. IInv => TypeOK
  BY DEF IInv
<1> QED BY <1>1, InitIInv, NextIInv, PTL DEF Spec

\* Whatever save fails and whoever dies, no key is shown to two callers:
\* get_new_address saves the index before it answers
\* (hd_wallet_backend.cpp:192-200).
THEOREM NoKeyTwice == Spec => []HandedOutOnce
<1>1. IInv => HandedOutOnce
  BY DEF IInv
<1> QED BY <1>1, InitIInv, NextIInv, PTL DEF Spec

\* Every key handed out is owned by the wallet the next load finds, the key of a
\* legacy wallet included, until the last index is spent: then the file still has the
\* seed of them all, and load refuses it (hd_wallet_backend.cpp:57, 90, 211-233).
THEOREM NoKeyLost == Spec => []KeysKept
<1>1. IInv => KeysKept
  <2> SUFFICES ASSUME IInv PROVE KeysKept
    OBVIOUS
  <2>1. ASSUME wallet = None, NEW i \in DOMAIN given
        PROVE  given[i] \in {k \in {LegacyKey} : legacy}
    BY <2>1 DEF IInv, GivenInv
  <2>2. ASSUME wallet # None, NEW i \in DOMAIN given
        PROVE  given[i] \in OwnedKeys(wallet)
    <3> USE DEF OwnedKeys
    <3>1. CASE given[i] = LegacyKey
      BY <2>2, <3>1, NoneAssumption DEF IInv, GivenInv, HdKey
    <3>2. CASE given[i] # LegacyKey
      <4>1. /\ given[i] \in HdKey /\ wallet \in Wallet
            /\ given[i].seed = wallet.seed /\ given[i].index < wallet.receive
        BY <2>2, <3>2 DEF IInv, GivenInv, TypeOK
      <4>2. given[i] = [seed |-> wallet.seed, index |-> given[i].index]
        BY <4>1 DEF HdKey
      <4>3. given[i].index \in 0 .. (wallet.receive + Lookahead - 1)
        BY <4>1, IndexAssumption DEF HdKey, Wallet
      <4> QED BY <4>1, <4>2, <4>3
    <3> QED BY <3>1, <3>2
  <2>3. ASSUME Spent PROVE wallet.receive = MaxIndex + 1
    <3>1. wallet \in Wallet /\ wallet.receive > MaxIndex
      BY <2>3, IndexAssumption DEF Spent, Loads, IInv, TypeOK, Wallet
    <3> QED BY <2>3, <3>1, IndexAssumption DEF Spent, IInv, LimitInv, Wallet
  <2> QED BY <2>1, <2>2, <2>3 DEF KeysKept, KeysOnDisk, Spent
<1> QED BY <1>1, InitIInv, NextIInv, PTL DEF Spec
=============================================================================
