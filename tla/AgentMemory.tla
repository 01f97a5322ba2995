----------------------------- MODULE AgentMemory -----------------------------
(***************************************************************************)
(* What the agent daemon remembers across restarts: three surfaces         *)
(* (conversation, working memory, recent audit entries) that agent.memory. *)
(* flush writes and agent.memory.load reads back                           *)
(* (services/aether-agentd/src/lib.rs), through the file store             *)
(* (agent/aether-agent-runtime/src/memory_store.rs).                       *)
(*                                                                         *)
(* The content of a surface is a number; 0 is the default after a start.   *)
(* Requests are serialised by the daemon's mutex, so what interleaves with *)
(* the steps of a flush is an I/O error or the end of the process.         *)
(***************************************************************************)
EXTENDS Integers, Sequences

CONSTANT MaxContent     \* bound on the distinct contents of a surface

VARIABLES memory,       \* surface -> content
          files,        \* surface -> content of <name>, Missing or Torn
          tmps,         \* surface -> content of <name>.tmp, Missing or Torn
          flushing,     \* <<>>, or <<surface, step>> of the flush under way
          written       \* surface -> content the last successful save reported

memVars == <<memory, files, tmps, flushing, written>>

Surfaces == <<"conversation", "working", "audit_recent">>
Names == {Surfaces[k] : k \in 1..3}
Missing == -1
Torn == -2

MemInit == /\ memory = [s \in Names |-> 0]
           /\ files = [s \in Names |-> Missing]
           /\ tmps = [s \in Names |-> Missing]
           /\ flushing = <<>>
           /\ written = [s \in Names |-> Missing]

\* A turn of the conversation, memory.set or memory.delete, an audit record.
Remember(s, content) ==
    /\ flushing = <<>>
    /\ memory' = [memory EXCEPT ![s] = content]
    /\ UNCHANGED <<files, tmps, flushing, written>>

-----------------------------------------------------------------------------
(* agent.memory.flush *)

\* The step after surface k is done, saved or failed: each fails on its own.
next_surface(k) == IF k = 3 THEN <<>> ELSE <<k + 1, "write">>

FlushBegin == /\ flushing = <<>>
              /\ flushing' = <<1, "write">>
              /\ UNCHANGED <<memory, files, tmps, written>>

(* Mutant: the file itself is written. *)
SaveInPlace(k) ==
    /\ flushing = <<k, "write">>
    /\ files' = [files EXCEPT ![Surfaces[k]] = memory[Surfaces[k]]]
    /\ tmps' = [tmps EXCEPT ![Surfaces[k]] = memory[Surfaces[k]]]
    /\ flushing' = <<k, "rename">>
    /\ UNCHANGED <<memory, written>>

\* save: the whole content goes to the temporary file, ...
SaveWrite(k) ==
    /\ flushing = <<k, "write">>
    /\ tmps' = [tmps EXCEPT ![Surfaces[k]] = memory[Surfaces[k]]]
    /\ flushing' = <<k, "rename">>
    /\ UNCHANGED <<memory, files, written>>

\* ... unless it is too large, or the write stops half way.
SaveWriteFails(k, left) ==
    /\ flushing = <<k, "write">>
    /\ tmps' = [tmps EXCEPT ![Surfaces[k]] = left]
    /\ flushing' = next_surface(k)
    /\ UNCHANGED <<memory, files, written>>

\* The rename replaces the old file by the new one.
SaveRename(k) ==
    /\ flushing = <<k, "rename">>
    /\ files' = [files EXCEPT ![Surfaces[k]] = tmps[Surfaces[k]]]
    /\ tmps' = [tmps EXCEPT ![Surfaces[k]] = Missing]
    /\ written' = [written EXCEPT ![Surfaces[k]] = memory[Surfaces[k]]]
    /\ flushing' = next_surface(k)
    /\ UNCHANGED memory

\* It fails; removing the temporary file may fail as well.
SaveRenameFails(k, removed) ==
    /\ flushing = <<k, "rename">>
    /\ tmps' = IF removed THEN [tmps EXCEPT ![Surfaces[k]] = Missing] ELSE tmps
    /\ flushing' = next_surface(k)
    /\ UNCHANGED <<memory, files, written>>

-----------------------------------------------------------------------------
(* The end of the process, and agent.memory.load *)

\* The daemon starts again with the defaults; a write under way is cut off.
Crash ==
    /\ memory' = [s \in Names |-> 0]
    /\ tmps' = IF flushing # <<>> /\ flushing[2] = "write"
               THEN [tmps EXCEPT ![Surfaces[flushing[1]]] = Torn] ELSE tmps
    /\ flushing' = <<>>
    /\ UNCHANGED <<files, written>>

\* What decoding a file gives: a torn one is corrupt and changes nothing.
decoded(s) == IF files[s] \in {Missing, Torn} THEN memory[s] ELSE files[s]

\* Each surface is replaced by its file; those in unread could not be read.
load_persisted(unread) ==
    /\ flushing = <<>>
    /\ memory' = [s \in Names |-> IF s \in unread THEN memory[s] ELSE decoded(s)]
    /\ UNCHANGED <<files, tmps, flushing, written>>

MemNext == \/ \E s \in Names, content \in 1..MaxContent : Remember(s, content)
           \/ FlushBegin
           \/ \E k \in 1..3 :
                 \/ SaveWrite(k)
                 \/ \E left \in {tmps[Surfaces[k]], Torn} : SaveWriteFails(k, left)
                 \/ SaveRename(k)
                 \/ \E removed \in BOOLEAN : SaveRenameFails(k, removed)
           \/ Crash
           \/ \E unread \in SUBSET Names : load_persisted(unread)

MemSpec == MemInit /\ [][MemNext]_memVars

-----------------------------------------------------------------------------
(* A save that was reported as written stays readable: at every moment, in  *)
(* the middle of a later flush, after I/O errors in it and after a crash at *)
(* any of its steps, each surface's file is exactly what the last           *)
(* successful save of that surface wrote, so a load gives that back.        *)
LastSaveIsReadable == \A s \in Names : files[s] = written[s]
=============================================================================
