--------------------------- MODULE ControlDaemon ---------------------------
(***************************************************************************)
(* The control daemon's loop (aether-system-core/src/main.rs): one         *)
(* connection at a time, one request line after the other, each through    *)
(* the policy gate (policy.rs) to its handler and into the audit log. The  *)
(* handlers of this module are those of services and of the log; what a    *)
(* service request does inside the manager is ServiceManager's subject.    *)
(***************************************************************************)
EXTENDS AuditChain, FiniteSets

CONSTANTS
    Managed,       \* services of the manager
    Times,          \* readings of the wall clock, and now_ms parameters
    MaxRecords      \* bound on the entries recorded

ASSUME DaemonAssumption == Times \subseteq Nat /\ Times # {} /\ MaxRecords \in Nat

VARIABLES
    conn,           \* the connection being served: "none" or "open"
    stop_requested, \* a shutdown line was read on it
    shutting_down,  \* the loop has ended
    running,        \* services the manager has running
    chain,          \* the audit log's entries
    hist,           \* history: <<timestamp, what>> of everything recorded
    broken          \* history: an eviction left the chain without its head

cdVars == <<conn, stop_requested, shutting_down, running, chain, hist, broken>>

(* One command of every class the gate and the audit tell apart: read-only  *)
(* capabilities, changing ones, introspection, services, the log itself.    *)
Commands == {"file.read", "file.delete", "app.launch", "network.status", "system.shutdown",
             "shutdown", "start", "stop", "audit.verify", "audit.prune"}

Trust == {"Trusted", "Untrusted"}

CdInit ==
    /\ conn = "none"
    /\ stop_requested = FALSE
    /\ shutting_down = FALSE
    /\ running = Managed
    /\ chain = <<>>
    /\ hist = <<>>
    /\ broken = FALSE

(* command_to_capability: the risk of a gated command. *)
Risk(command) ==
    CASE command \in {"file.read", "network.status"} -> "Low"
      [] command = "file.delete" -> "High"
      [] command \in {"shutdown", "system.shutdown"} -> "Critical"
      [] OTHER -> "Ungated"

Allowed(command, trust) == trust = "Trusted" /\ Risk(command) \in {"Low", "Ungated"}

(* is_capability in dispatch: the prefixes that are audited. *)
IsCapability(command) == command \in {"file.read", "file.delete", "app.launch", "system.shutdown"}

(* record_audit, with a reading of the clock: the log after it, with the    *)
(* history of what was recorded.                                            *)
record_audit(log, ts, what) ==
    [chain |-> Record(log.chain, ts, what),
     hist |-> Append(log.hist, <<ts, what>>),
     broken |-> log.broken \/ Evicts(log.chain)]

Connect ==
    /\ ~shutting_down /\ conn = "none"
    /\ conn' = "open"
    /\ UNCHANGED <<stop_requested, shutting_down, running, chain, hist, broken>>

(* The policy gate records a refusal, at some reading of the clock. *)
gate(log, allowed) ==
    IF allowed THEN {log} ELSE {record_audit(log, ts, "denied") : ts \in Times}

(* After the gate and the handler a capability is recorded with its result: *)
(* that of an allowed one is its handler's.                                 *)
audited(log, command, allowed) ==
    LET results == IF allowed THEN {"success", "failure"} ELSE {"failure"} IN
    IF IsCapability(command)
    THEN {record_audit(log, ts, result) : ts \in Times, result \in results} ELSE {log}

Audit(command, allowed) ==
    \E gated \in gate([chain |-> chain, hist |-> hist, broken |-> broken], allowed) :
        \E after \in audited(gated, command, allowed) :
            /\ Len(after.hist) <= MaxRecords
            /\ chain' = after.chain /\ hist' = after.hist /\ broken' = after.broken

(* A handler that the gate lets through. *)
HandleServices(command) ==
    /\ command \in {"start", "stop"}
    /\ running' \in SUBSET Managed
    /\ UNCHANGED <<chain, hist, broken>>

HandlePrune(command) ==
    /\ command = "audit.prune"
    /\ \E now \in Times :
          /\ chain' = Prune(chain, now)
          /\ broken' = (broken /\ chain' = chain /\ chain # <<>>)
    /\ UNCHANGED <<running, hist>>

HandleOther(command) ==
    /\ command \notin {"start", "stop", "audit.prune"}
    /\ Audit(command, TRUE)
    /\ UNCHANGED running

(* dispatch of one request line. A shutdown line counts when it is read;    *)
(* the answer is written afterwards, and a failed write ends the connection. *)
Request(command, trust) ==
    /\ conn = "open"
    /\ stop_requested' = (stop_requested \/ command = "shutdown")
    /\ IF Allowed(command, trust)
       THEN HandleServices(command) \/ HandlePrune(command) \/ HandleOther(command)
       ELSE Audit(command, FALSE) /\ UNCHANGED running
    /\ UNCHANGED <<conn, shutting_down>>

(* Mutant: the services are left as the last requests made them. *)
DisconnectStopsNothing ==
    /\ conn = "open"
    /\ conn' = "none"
    /\ stop_requested' = FALSE
    /\ shutting_down' = stop_requested
    /\ UNCHANGED <<running, chain, hist, broken>>

(* The connection ends: the peer closes it, a read or a write fails. Only   *)
(* now a shutdown takes effect.                                             *)
Disconnect ==
    /\ conn = "open"
    /\ conn' = "none"
    /\ stop_requested' = FALSE
    /\ shutting_down' = stop_requested
    /\ running' = IF stop_requested THEN {} ELSE running
    /\ UNCHANGED <<chain, hist, broken>>

CdNext ==
    \/ Connect \/ Disconnect
    \/ \E command \in Commands, trust \in Trust : Request(command, trust)

CdSpec == CdInit /\ [][CdNext]_cdVars

-----------------------------------------------------------------------------
(* audit.verify reports a fault exactly when record has evicted an entry    *)
(* since the chain was last written anew: prune_older_than repairs it, and  *)
(* nothing else breaks it. The doc of record has it that an eviction leaves *)
(* the index "the chain expects".                                           *)
VerifyTellsEviction == Verifies(chain) <=> ~broken

(* Whatever mixture of evictions and prunings, the log is within its cap    *)
(* and the tail of what was recorded, in order, without holes, as record's  *)
(* and prune's docs say.                                                    *)
LogIsRecentHistory ==
    /\ Len(chain) <= MaxEntries /\ Len(chain) <= Len(hist)
    /\ \A i \in DOMAIN chain :
          <<chain[i].ts, chain[i].what>> = hist[Len(hist) - Len(chain) + i]

(* What prune_older_than leaves of a log: everything from the first entry   *)
(* that is young enough, and every entry before that one is past the age.   *)
CutAtFirstYoung(log, kept, now) ==
    /\ \A i \in 1..(Len(log) - Len(kept)) : log[i].ts + MaxAge < now
    /\ kept # <<>> => kept[1].ts + MaxAge >= now

(* Pruning, the only step that changes the log without recording anything,  *)
(* cuts it right before its first young entry, whatever order the clock's   *)
(* readings came in. That is what the code and its test                     *)
(* prune_drops_expired_and_rewrites_head do; the doc of prune_older_than    *)
(* says that an expired head empties the log, young entries and all.        *)
PruneCutsAtFirstYoung ==
    [][hist' = hist /\ chain' # chain =>
         \E now \in Times : CutAtFirstYoung(chain, chain', now)]_cdVars

(* When the loop has ended every service is stopped, whatever the requests  *)
(* after the shutdown line on its connection started again.                 *)
EndedMeansStopped == shutting_down => running = {}
=============================================================================
