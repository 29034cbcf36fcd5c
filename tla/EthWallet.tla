------------------------------ MODULE EthWallet ------------------------------
(***************************************************************************)
(* projects/web3/eth_wallet.  Every run of the host program opens a        *)
(* session and gives one command to the TA, which opens the database of    *)
(* wallets, works on it and answers.  The TA is not single-instance: when  *)
(* two hosts run at a time, two instances work on the same storage, each   *)
(* with the key list it read when it opened the database (SecureDb has     *)
(* the details).  A wallet is its id and its entropy, and what it derives  *)
(* or signs is modelled by the entropy it was made from.                   *)
(***************************************************************************)
EXTENDS Integers, FiniteSets

CONSTANTS Hosts,     \* runs of the host program that may overlap
          MaxWallets,
          Parallel   \* may they really overlap?

(* What the theorems assume of the constants. *)
WalletsAssumption == MaxWallets \in Nat /\ Parallel \in BOOLEAN

VARIABLES objects,   \* storage: the entropy kept for every id, or 0
          list,      \* storage: the key list
          host,      \* the command of every host and how far it is
          used,      \* ids given to a wallet so far
          known,     \* ids a host was told of
          removed,   \* ids whose removal was confirmed
          signed     \* addresses and signatures delivered

walletVars == <<objects, list, host, used, known, removed, signed>>

WalletIds == 1 .. MaxWallets

(* The entropy Wallet::new draws for the wallet, never 0.                  *)
Entropy(id) == 100 + id

IdleHost == [pc |-> "idle", cmd |-> "none", id |-> 0, entropy |-> 0, keys |-> {}, gone |-> {}]

WalletInit ==
  /\ objects = [id \in WalletIds |-> 0] /\ list = {} /\ host = [h \in Hosts |-> IdleHost]
  /\ used = 0 /\ known = {} /\ removed = {} /\ signed = {}

HostGoes(h, r) == host' = [host EXCEPT ![h] = r]

(* The commands of the host program; derive_address counts as a signature. *)
Commands == {"create", "remove", "sign"}

(* main and invoke_command of the host: a command with the id of a wallet, *)
(* or create_wallet, whose Wallet::new draws a new id and its entropy.     *)
(* gone is history: the wallets removed before this command.               *)
Start(h, cmd, id) ==
  /\ host[h].pc = "idle"
  /\ Parallel \/ \A g \in Hosts : host[g].pc = "idle"
  /\ IF cmd = "create" THEN id = used + 1 /\ used' = id ELSE id \in known /\ used' = used
  /\ HostGoes(h, [pc |-> "open", cmd |-> cmd, id |-> id, keys |-> {}, gone |-> removed,
            entropy |-> IF cmd = "create" THEN Entropy(id) ELSE 0])
  /\ UNCHANGED <<objects, list, known, removed, signed>>

(* An error of any call, a panic or a crash: what is stored stays, the     *)
(* host gets an error.  The message is written if it fits.                 *)
Fail(h) == /\ host[h].pc # "idle"
           /\ HostGoes(h, IdleHost)
           /\ UNCHANGED <<objects, list, used, known, removed, signed>>

(* SecureStorageClient::open.                                              *)
Open(h) == /\ host[h].pc = "open"
           /\ HostGoes(h, [host[h] EXCEPT !.pc = "work", !.keys = list])
           /\ UNCHANGED <<objects, list, used, known, removed, signed>>

(* create_wallet: the object of the wallet.                                *)
PutWallet(h) ==
  /\ host[h].pc = "work" /\ host[h].cmd = "create"
  /\ objects' = [objects EXCEPT ![host[h].id] = host[h].entropy]
  /\ HostGoes(h, [host[h] EXCEPT !.pc = "list", !.keys = @ \union {host[h].id}])
  /\ UNCHANGED <<list, used, known, removed, signed>>

(* remove_wallet: the object, if the id is listed and the object there.    *)
DeleteWallet(h) ==
  /\ host[h].pc = "work" /\ host[h].cmd = "remove" /\ host[h].id \in host[h].keys
  /\ objects[host[h].id] # 0
  /\ objects' = [objects EXCEPT ![host[h].id] = 0]
  /\ HostGoes(h, [host[h] EXCEPT !.pc = "list", !.keys = @ \ {host[h].id}])
  /\ UNCHANGED <<list, used, known, removed, signed>>

(* The second write of put and delete_entry.                               *)
StoreKeyList(h) ==
  /\ host[h].pc = "list"
  /\ list' = host[h].keys
  /\ HostGoes(h, [host[h] EXCEPT !.pc = "reply"])
  /\ UNCHANGED <<objects, used, known, removed, signed>>

(* What the mnemonic, the seed, the derived keys, the address and the      *)
(* signature all come from: the entropy of the wallet as it was loaded.    *)
MadeFrom(wallet) == wallet

(* derive_address and sign_transaction: the wallet is loaded, if it is     *)
(* listed and stored, and used.                                            *)
UseWallet(h) ==
  /\ host[h].pc = "work" /\ host[h].cmd = "sign" /\ host[h].id \in host[h].keys
  /\ objects[host[h].id] # 0
  /\ HostGoes(h, [host[h] EXCEPT !.pc = "reply", !.entropy = MadeFrom(objects[host[h].id])])
  /\ UNCHANGED <<objects, list, used, known, removed, signed>>

(* invoke_command of the TA answers Ok and the host gives the output out;  *)
(* the wallet is dropped.                                                  *)
Reply(h) ==
  /\ host[h].pc = "reply"
  /\ known' = IF host[h].cmd = "create" THEN known \union {host[h].id} ELSE known
  /\ removed' = IF host[h].cmd = "remove" THEN removed \union {host[h].id} ELSE removed
  /\ signed' = IF host[h].cmd = "sign"
               THEN signed \union {[id |-> host[h].id, by |-> host[h].entropy, gone |-> host[h].gone]}
               ELSE signed
  /\ HostGoes(h, IdleHost)
  /\ UNCHANGED <<objects, list, used>>

WalletNext ==
  \E h \in Hosts :
    \/ \E cmd \in Commands, id \in WalletIds : Start(h, cmd, id)
    \/ Fail(h) \/ Open(h) \/ PutWallet(h) \/ DeleteWallet(h) \/ StoreKeyList(h)
    \/ UseWallet(h) \/ Reply(h)

WalletSpec == WalletInit /\ [][WalletNext]_walletVars

(* Every address and signature comes from the entropy of the wallet that   *)
(* was asked for, although the wallet is zeroed when it is dropped and     *)
(* other instances write to the storage.                                   *)
SignedByOwn == \A s \in signed : s.by = Entropy(s.id)

(* Once remove_wallet has succeeded, the entropy is erased and a command   *)
(* that starts later cannot use the wallet, even when another instance     *)
(* writes back a key list that still names it.                             *)
RemovedIsGone ==
  /\ \A id \in removed : objects[id] = 0
  /\ \A s \in signed : s.id \notin s.gone
=============================================================================
