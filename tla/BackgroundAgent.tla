--------------------------- MODULE BackgroundAgent ---------------------------
(***************************************************************************)
(* One tick of the background agent (agent/aether-background-agent/src/    *)
(* lib.rs): events go into the diagnostic report (system/aether-           *)
(* diagnostics/src/lib.rs) or start workflows (system/aether-automation),  *)
(* and each symptom with a recipe (system/aether-recovery) is planned.     *)
(*                                                                         *)
(* Time is counted in half minutes; the hours and minutes of the day are   *)
(* one number, and a day has DayMinutes of them.  A workflow is due in     *)
(* minute 0 of the day.  The host's clock may be set back.                 *)
(***************************************************************************)
EXTENDS Integers, Sequences

CONSTANTS LogLimit,     \* signals the report keeps (256 in the code)
          DayMinutes,   \* minutes in a day
          MaxNow        \* bound on the clock

ASSUME BackgroundAssumption ==
    LogLimit \in Nat \ {0} /\ DayMinutes \in Nat \ {0, 1} /\ MaxNow \in Nat

VARIABLES signals,      \* the signal log of the report, oldest first
          symptoms,     \* the symptoms of the last evaluation
          planned_symptoms,
          last_fired,   \* when the workflow last fired, Never before
          clock,        \* the host's clock
          set_back,     \* history: the clock has been set back
          due,          \* history: minutes in which a tick found it due
          firings,      \* history: minute -> firings by the time of day
          plans         \* history: symptom -> recovery plans surfaced

bgVars == <<signals, symptoms, planned_symptoms, last_fired, clock, set_back,
            due, firings, plans>>

Never == -1
Minutes == 0..(MaxNow \div 2)
minute(t) == t \div 2
due_at(t) == minute(t) % DayMinutes = 0

\* Two threshold rules of the default table and its correlation rule, which
\* looks at cpu.load and not at service.down; each has a recipe.
Tags == {"cpu.load", "service.down"}
symptom_of == [t \in Tags |-> IF t = "cpu.load" THEN "cpu_overload" ELSE "service_down"]
SymptomIds == {"cpu_overload", "service_down", "system_unstable"}
recipes == SymptomIds

\* A value is low, alarming (over 0.5) or high, over the threshold of its rule
\* as well; that of service.down is 0.5 itself.
Signals == [tag : {"cpu.load"}, value : {"low", "alarming", "high"}]
             \union [tag : {"service.down"}, value : {"low", "high"}]
is_alarming(signal) == signal.value # "low"

\* Only the oldest signal with the rule's tag is compared with the threshold.
above_threshold(log, tag) ==
    \E i \in DOMAIN log : /\ log[i].tag = tag /\ log[i].value = "high"
                          /\ \A j \in 1..(i - 1) : log[j].tag # tag

any_alarming(log, tags) == \E i \in DOMAIN log : log[i].tag \in tags /\ is_alarming(log[i])

evaluate(log) == {symptom_of[t] : t \in {u \in Tags : above_threshold(log, u)}}
                   \union (IF any_alarming(log, {"cpu.load"}) THEN {"system_unstable"} ELSE {})

ingest(log, s) ==
    LET grown == Append(log, s)
    IN  SubSeq(grown, Len(grown) - (IF Len(grown) > LogLimit THEN LogLimit ELSE Len(grown)) + 1,
               Len(grown))

\* An event: a signal, a tick of the clock, or a workflow started by hand.
Events == [kind : {"SignalUpdate"}, signal : Signals]
            \union {[kind |-> "TimeTick"], [kind |-> "WorkflowTrigger"]}

(* Mutant: the time of the firing is not kept. *)
FireAndForget(s) ==
    IF ~ due_at(clock) \/ (s.last # Never /\ clock < s.last + 2) THEN s
    ELSE [s EXCEPT !.fired = @ + 1]

\* Fires unless it did so less than 60 s ago; a clock behind the last firing
\* counts as no time at all.
plan_time_triggers(s) ==
    IF ~ due_at(clock) \/ (s.last # Never /\ clock < s.last + 2) THEN s
    ELSE [s EXCEPT !.last = clock, !.fired = @ + 1]

handle(s, e) ==
    CASE e.kind = "SignalUpdate" -> [s EXCEPT !.log = ingest(@, e.signal)]
      [] e.kind = "TimeTick" -> plan_time_triggers(s)
      [] e.kind = "WorkflowTrigger" -> s

\* The symptoms with a recipe that were never planned before.
new_plans(found) == (found \intersect recipes) \ planned_symptoms

BgInit == /\ signals = <<>>
          /\ symptoms = {}
          /\ planned_symptoms = {}
          /\ last_fired = Never
          /\ clock = 0
          /\ set_back = FALSE
          /\ due = {}
          /\ firings = [m \in Minutes |-> 0]
          /\ plans = [s \in SymptomIds |-> 0]

\* The log, the last firing and the firings of this tick once the events are
\* handled one by one.
after_events(events) ==
    LET handled[n \in 0..Len(events)] ==
            IF n = 0 THEN [log |-> signals, last |-> last_fired, fired |-> 0]
            ELSE handle(handled[n - 1], events[n])
    IN  handled[Len(events)]

tick(events) ==
    LET after == after_events(events)
        found == evaluate(after.log)
        ticked == \E i \in DOMAIN events : events[i].kind = "TimeTick"
    IN  /\ signals' = after.log
        /\ symptoms' = found
        /\ planned_symptoms' = planned_symptoms \union new_plans(found)
        /\ plans' = [s \in SymptomIds |-> plans[s] + IF s \in new_plans(found) THEN 1 ELSE 0]
        /\ last_fired' = after.last
        /\ firings' = [firings EXCEPT ![minute(clock)] = @ + after.fired]
        /\ due' = IF ticked /\ due_at(clock) THEN due \union {minute(clock)} ELSE due
        /\ UNCHANGED <<clock, set_back>>

\* The host's clock goes on, or is set to an earlier time.
ClockAdvances == /\ clock < MaxNow
                 /\ clock' = clock + 1
                 /\ UNCHANGED <<signals, symptoms, planned_symptoms, last_fired, set_back,
                                due, firings, plans>>

ClockSetBack(t) == /\ t < clock
                   /\ clock' = t
                   /\ set_back' = TRUE
                   /\ UNCHANGED <<signals, symptoms, planned_symptoms, last_fired, due,
                                  firings, plans>>

\* A host that hands over up to two events a tick.
BgNext == \/ \E events \in UNION {[1..n -> Events] : n \in 0..2} : tick(events)
          \/ ClockAdvances
          \/ \E t \in 0..MaxNow : ClockSetBack(t)

BgSpec == BgInit /\ [][BgNext]_bgVars

-----------------------------------------------------------------------------
(* A workflow bound to a time of day fires once in its minute: never twice, *)
(* however many ticks fall into the minute and however the clock is set     *)
(* back, and always when a tick falls into it unless the clock was set      *)
(* back.  A recovery is surfaced once for each symptom found, in the very   *)
(* tick that finds it first.                                                *)
ActsOnce ==
    /\ \A m \in Minutes : /\ firings[m] <= 1
                          /\ ~ set_back => firings[m] = (IF m \in due THEN 1 ELSE 0)
    /\ \A s \in recipes : plans[s] <= 1 /\ (s \in symptoms => plans[s] = 1)
=============================================================================
