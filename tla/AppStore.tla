------------------------------ MODULE AppStore ------------------------------
(***************************************************************************)
(* The records the application store keeps of one application, in memory   *)
(* and on disk (system/aether-store/src/store.rs, fs.rs, registry.rs).     *)
(*                                                                         *)
(* Calls come one at a time.  A write truncates the file it replaces, so   *)
(* one that fails or is cut off by a crash leaves the old file or an       *)
(* unreadable one.  A package is named by the attempt that brought it.     *)
(***************************************************************************)
EXTENDS Integers, Sequences

CONSTANTS Publishers,
          MaxInstalls   \* bound on the installs attempted

VARIABLES trust,        \* {} not loaded, or {S}: S is the set of trusted publishers
          trust_file,   \* {} unreadable, or {S}
          store_files,  \* name -> the package whose file it is
          installed,    \* name -> the package in the entry in memory
          payload,      \* the package whose payload is cached
          persisting,   \* the package an install is writing
          written_files,\* how many of its files are written
          attempts,
          receipts,     \* history: the packages whose install has returned Ok
          removed,      \* history: the packages that were uninstalled
          launched      \* history: what was handed to the launcher

storeVars == <<trust, trust_file, store_files, installed, payload, persisting, written_files,
               attempts, receipts, removed, launched>>

Packages == [number : 1..MaxInstalls, publisher : Publishers]

\* A file or an entry that is not there, or that cannot be read.
NoPackage == [number |-> 0, publisher |-> "nobody"]

(* Mutant: the receipt is written before the files it vouches for. *)
ReceiptFirst == <<"install", "manifest", "consent">>

\* The files of an install, in the order persist_install writes them.
PersistOrder == <<"manifest", "consent", "install">>

RecordFiles == {"manifest", "consent", "install"}

NoEntry == [f \in RecordFiles |-> NoPackage]

\* An entry is taken only when all three of its files can be read; one that
\* cannot be is passed over.
rehydrate_installs(fs) == IF \E f \in RecordFiles : fs[f] = NoPackage THEN NoEntry ELSE fs

StoreInit == /\ trust = {{}} /\ trust_file = {{}}
             /\ store_files = NoEntry /\ installed = NoEntry
             /\ payload = NoPackage
             /\ persisting = NoPackage /\ written_files = 0
             /\ attempts = 0
             /\ receipts = {} /\ removed = {} /\ launched = {}

Idle == persisting = NoPackage

set_trust(S) == /\ Idle
                /\ trust_file' = {S}
                /\ trust' = {S}
                /\ UNCHANGED <<store_files, installed, payload, persisting, written_files,
                               attempts, receipts, removed, launched>>

set_trust_fails == /\ Idle
                   /\ trust_file' \in {trust_file, {}}
                   /\ UNCHANGED <<trust, store_files, installed, payload, persisting,
                                  written_files, attempts, receipts, removed, launched>>

\* install_signed up to the writes.
install_signed(p) ==
    /\ Idle
    /\ attempts < MaxInstalls
    /\ \E S \in trust : p \in S
    /\ installed = NoEntry
    /\ attempts' = attempts + 1
    /\ persisting' = [number |-> attempts', publisher |-> p]
    /\ written_files' = 0
    /\ UNCHANGED <<trust, trust_file, store_files, installed, payload, receipts, removed,
                   launched>>

File == PersistOrder[written_files + 1]

\* persist_install: one file after the other; after the last one the install
\* caches the payload, enters the application and returns.
persist_install ==
    /\ ~ Idle
    /\ store_files' = [store_files EXCEPT ![File] = persisting]
    /\ IF written_files + 1 < Len(PersistOrder)
       THEN /\ written_files' = written_files + 1
            /\ UNCHANGED <<installed, payload, persisting, receipts>>
       ELSE /\ payload' = persisting
            /\ installed' = [f \in RecordFiles |-> persisting]
            /\ receipts' = receipts \union {persisting}
            /\ persisting' = NoPackage
            /\ written_files' = 0
    /\ UNCHANGED <<trust, trust_file, attempts, removed, launched>>

persist_fails ==
    /\ ~ Idle
    /\ store_files' \in {store_files, [store_files EXCEPT ![File] = NoPackage]}
    /\ persisting' = NoPackage
    /\ written_files' = 0
    /\ UNCHANGED <<trust, trust_file, installed, payload, attempts, receipts, removed, launched>>

\* launch, when the launcher takes the application.
store_launch ==
    /\ Idle
    /\ installed # NoEntry
    /\ payload # NoPackage
    /\ installed["consent"].publisher = installed["manifest"].publisher
    /\ launched' = launched \union {[entry |-> installed, payload |-> payload]}
    /\ UNCHANGED <<trust, trust_file, store_files, installed, payload, persisting,
                   written_files, attempts, receipts, removed>>

\* Takes the application out of memory only: the files stay where they are.
uninstall == /\ Idle
             /\ installed # NoEntry
             /\ installed' = NoEntry
             /\ payload' = NoPackage
             /\ removed' = removed \union {installed["install"]}
             /\ UNCHANGED <<trust, trust_file, store_files, persisting, written_files, attempts,
                            receipts, launched>>

\* The process ends, at any point, and Store::new runs on what is on disk.
restart_store ==
    /\ store_files' \in {store_files}
            \union (IF Idle THEN {} ELSE {[store_files EXCEPT ![File] = NoPackage]})
    /\ trust' = trust_file
    /\ installed' = rehydrate_installs(store_files')
    /\ payload' = NoPackage
    /\ persisting' = NoPackage
    /\ written_files' = 0
    /\ UNCHANGED <<trust_file, attempts, receipts, removed, launched>>

StoreNext == \/ \E S \in SUBSET Publishers : set_trust(S)
             \/ set_trust_fails
             \/ \E p \in Publishers : install_signed(p)
             \/ persist_install
             \/ persist_fails
             \/ store_launch
             \/ uninstall
             \/ restart_store

StoreSpec == StoreInit /\ [][StoreNext]_storeVars

-----------------------------------------------------------------------------
(* Through failed writes, crashes, uninstalls and installs of the same      *)
(* application again: what the store lists as installed is what a restart   *)
(* would find on disk, where a record that cannot be read counts as none    *)
(* and stops nothing; its receipt is that of an install that has returned   *)
(* Ok; and a launch hands over a manifest, a consent record, a receipt and  *)
(* a payload that all come from one such install.                           *)
StoreIsTrue ==
    /\ installed # NoEntry => /\ installed = rehydrate_installs(store_files)
                              /\ installed["install"] \in receipts
    /\ \A l \in launched : /\ l.payload \in receipts
                           /\ l.entry = [f \in RecordFiles |-> l.payload]

(* An uninstalled package stays uninstalled (store.rs:548-551, "the install *)
(* record is removed"; fs.rs:11-12, the record is marked Uninstalled): the  *)
(* store never lists a package again that was uninstalled.  The code leaves *)
(* the record on disk as it is, and the next start takes it up again.       *)
UninstalledStaysGone == installed["install"] \notin removed
=============================================================================
