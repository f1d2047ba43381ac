------------------------------- MODULE Wallet -------------------------------
(***************************************************************************)
(* The wallet file (hd_wallet_backend.cpp) and the calls that change it.   *)
(* wallet-create, wallet-import and wallet-upgrade are commands of         *)
(* binarycoind (main.cpp); getnewaddress is a call of the running node,    *)
(* which loads the wallet anew for every call and holds data_mutex from    *)
(* the load to the answer (rpc_commands.cpp:378).  No command is used      *)
(* while a call of the node is under way (README.md:369).                  *)
(*                                                                         *)
(* A key is a record of its seed and its index on the receive branch.      *)
(* Nothing advances the change branch: every payment's change goes to its  *)
(* key 0, which is owned with every seed, and is left out.  Next indices   *)
(* are as in the file; a process may die between any two steps.            *)
(***************************************************************************)
EXTENDS Integers, Sequences

CONSTANTS
  Thread,      \* handler threads of the RPC server
  Seed,        \* entropies generate_entropy256 may return
  None,        \* no file, no holder
  LegacyKey,   \* the key of wallet-v1.dat
  Lookahead,   \* LOOKAHEAD: keys owned beyond the next index (20)
  MaxIndex     \* the largest index load() accepts (1'000'000)

ASSUME IndexAssumption == Lookahead \in Nat /\ MaxIndex \in Nat \ {0}
ASSUME NoneAssumption ==
  /\ None \notin Thread \cup {"cli"}
  /\ None \notin [seed: Seed, receive: Nat \ {0}, legacyKey: BOOLEAN]
  /\ None \notin [seed: Seed, index: Nat] \cup {LegacyKey}
  /\ LegacyKey \notin [seed: Seed, index: Nat]

VARIABLES
  wallet,   \* wallet-v2.dat: None or what save_hd last put there
  legacy,   \* wallet-v1.dat exists
  mutex,    \* who holds the wallet: a thread (data_mutex), "cli" or None
  step,     \* where the holder is: "idle", "loaded", "save" or "saved"
  mem,      \* the holder's HdWalletBackend
  answer,   \* the key the holder is going to answer with
  given     \* the keys handed out so far, oldest first

vars == <<wallet, legacy, mutex, step, mem, answer, given>>

Key == [seed: Seed, index: Nat] \cup {LegacyKey}
Wallet == [seed: Seed, receive: Nat \ {0}, legacyKey: BOOLEAN]
Actor == Thread \cup {"cli"}

TypeOK ==
  /\ wallet \in Wallet \cup {None}
  /\ legacy \in BOOLEAN
  /\ mutex \in Actor \cup {None}
  /\ step \in {"idle", "loaded", "save", "saved"}
  /\ mem \in Wallet \cup {None}
  /\ answer \in Key \cup {None}
  /\ given \in Seq(Key)
  /\ (step = "idle") = (mutex = None)
  /\ step \in {"save", "saved"} => mem # None /\ answer # None

\* Mutant: the old format is not looked for.
ExistsNew == wallet # None

\* exists: a file of either format.
Exists == wallet # None \/ legacy

\* set_hd_entropy: index 0 is the address shown at once.
NewWallet(s, l) == [seed |-> s, receive |-> 1, legacyKey |-> l]

\* parse_u32_field refuses a larger index when the file is loaded.
Loads(w) == w.receive <= MaxIndex

\* rebuild_owned_cache
OwnedKeys(w) ==
  {[seed |-> w.seed, index |-> i] : i \in 0 .. (w.receive + Lookahead - 1)}
    \cup {k \in {LegacyKey} : w.legacyKey}

\* The new file has an index that load() refuses.
Spent == wallet # None /\ ~Loads(wallet)

\* The keys of the wallet after load(): the new file hides the old one, also when it
\* is refused.
KeysOnDisk ==
  IF wallet = None THEN {k \in {LegacyKey} : legacy}
  ELSE IF Spent THEN {} ELSE OwnedKeys(wallet)

Init ==
  /\ wallet = None
  /\ legacy \in BOOLEAN
  /\ mutex = None
  /\ step = "idle"
  /\ mem = None
  /\ answer = None
  /\ given = IF legacy THEN <<LegacyKey>> ELSE <<>>

-----------------------------------------------------------------------------
\* A command sets up the wallet it is going to save.
Command(w) ==
  /\ mutex = None
  /\ mutex' = "cli"
  /\ step' = "save"
  /\ mem' = w
  /\ answer' = [seed |-> w.seed, index |-> 0]
  /\ UNCHANGED <<wallet, legacy, given>>

Create(s) == ~Exists /\ Command(NewWallet(s, FALSE))

Import(s) == ~Exists /\ Command(NewWallet(s, FALSE))

UpgradeLegacy(s) ==
  /\ wallet = None
  /\ legacy
  /\ Command(NewWallet(s, TRUE))

\* A call of the node takes data_mutex and loads the wallet.
Load(t) ==
  /\ mutex = None
  /\ wallet # None /\ Loads(wallet)
  /\ mutex' = t
  /\ step' = "loaded"
  /\ mem' = wallet
  /\ UNCHANGED <<wallet, legacy, answer, given>>

\* get_new_address, up to its call of save_hd.
GetNewAddress ==
  /\ step = "loaded"
  /\ answer' = [seed |-> mem.seed, index |-> mem.receive]
  /\ mem' = [mem EXCEPT !.receive = @ + 1]
  /\ step' = "save"
  /\ UNCHANGED <<wallet, legacy, mutex, given>>

\* save_hd: the temporary file is written and takes the wallet's place.
ReplaceFile ==
  /\ step = "save"
  /\ wallet' = mem
  /\ step' = "saved"
  /\ UNCHANGED <<legacy, mutex, mem, answer, given>>

\* The wallet object is gone, with what it had not saved.
Release ==
  /\ mutex' = None
  /\ step' = "idle"
  /\ mem' = None
  /\ answer' = None

\* restrict_permissions succeeded: the key is shown to the caller.
Answer ==
  /\ step = "saved"
  /\ given' = Append(given, answer)
  /\ Release
  /\ UNCHANGED <<wallet, legacy>>

\* Mutant: the failure of the save is not noticed.
SaveFailsUnseen ==
  /\ step = "save"
  /\ given' = Append(given, answer)
  /\ Release
  /\ UNCHANGED <<wallet, legacy>>

\* The temporary file cannot be created, written or moved.
SaveFails ==
  /\ step = "save"
  /\ Release
  /\ UNCHANGED <<wallet, legacy, given>>

\* The wallet is in place, and the exception takes the answer away.
RestrictPermissionsFails ==
  /\ step = "saved"
  /\ Release
  /\ UNCHANGED <<wallet, legacy, given>>

\* The process is killed.
Die ==
  /\ step # "idle"
  /\ Release
  /\ UNCHANGED <<wallet, legacy, given>>

Next ==
  \/ \E s \in Seed : Create(s) \/ Import(s) \/ UpgradeLegacy(s)
  \/ \E t \in Thread : Load(t)
  \/ GetNewAddress \/ ReplaceFile \/ Answer
  \/ SaveFails \/ RestrictPermissionsFails \/ Die

Spec == Init /\ [][Next]_vars

-----------------------------------------------------------------------------
\* No key is handed out twice, whatever save fails and whoever dies: the
\* next index is on the disk before the key it passed is shown
\* (hd_wallet_backend.cpp:192-200).
HandedOutOnce ==
  \A i, j \in DOMAIN given : given[i] = given[j] => i = j

\* Money sent to any key ever handed out stays in reach: the wallet that load()
\* finds owns it, the key of the old format included, and no command puts
\* another wallet in its place (hd_wallet_backend.cpp:69, 77, 83, 90).  It ends
\* with the last index: the call that hands out the key of MaxIndex leaves a file
\* that load() refuses (hd_wallet_backend.cpp:57, 195), and no earlier one does.
\* The keys are still those of the seed in that file.
KeysKept ==
  IF Spent
    THEN wallet.receive = MaxIndex + 1 /\ \A i \in DOMAIN given : given[i] \in OwnedKeys(wallet)
    ELSE \A i \in DOMAIN given : given[i] \in KeysOnDisk
=============================================================================
