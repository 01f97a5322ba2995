------------------------------ MODULE Platform ------------------------------
(***************************************************************************)
(* Nine parts of the platform that share no state, side by side.  The      *)
(* variable part says which of them a behaviour is about; the others keep  *)
(* their initial values, so the states add up instead of multiplying.      *)
(***************************************************************************)
EXTENDS AgentMemory, PlanExecution, Devices, RemoteDelivery, Supervision, BackgroundAgent,
        AppStore, VoiceSession, AgentDaemon

VARIABLE part           \* the part this behaviour is about

vars == <<part, memVars, planVars, devVars, remoteVars, supVars, bgVars, storeVars, voiceVars,
          adVars>>

Parts == {"memory", "plan", "devices", "remote", "supervision", "background", "store", "voice",
          "agentd"}

\* A part that is not looked at starts in one of its initial states.
Init == /\ part \in Parts
        /\ MemInit
        /\ DevInit
        /\ BgInit
        /\ StoreInit
        /\ VoiceInit
        /\ AdInit
        /\ PlanInit /\ (part # "plan" => plan = <<"AppList">> /\ ctx)
        /\ RemoteInit /\ (part # "remote" => grant = {})
        /\ SupInit /\ (part # "supervision" => policy = "Never" /\ limit = 0)

Next ==
    \/ /\ part = "memory" /\ MemNext
       /\ UNCHANGED <<part, planVars, devVars, remoteVars, supVars, bgVars, storeVars,
                      voiceVars, adVars>>
    \/ /\ part = "plan" /\ PlanNext
       /\ UNCHANGED <<part, memVars, devVars, remoteVars, supVars, bgVars, storeVars,
                      voiceVars, adVars>>
    \/ /\ part = "devices" /\ DevNext
       /\ UNCHANGED <<part, memVars, planVars, remoteVars, supVars, bgVars, storeVars,
                      voiceVars, adVars>>
    \/ /\ part = "remote" /\ RemoteNext
       /\ UNCHANGED <<part, memVars, planVars, devVars, supVars, bgVars, storeVars, voiceVars,
                      adVars>>
    \/ /\ part = "supervision" /\ SupNext
       /\ UNCHANGED <<part, memVars, planVars, devVars, remoteVars, bgVars, storeVars,
                      voiceVars, adVars>>
    \/ /\ part = "background" /\ BgNext
       /\ UNCHANGED <<part, memVars, planVars, devVars, remoteVars, supVars, storeVars,
                      voiceVars, adVars>>
    \/ /\ part = "store" /\ StoreNext
       /\ UNCHANGED <<part, memVars, planVars, devVars, remoteVars, supVars, bgVars,
                      voiceVars, adVars>>
    \/ /\ part = "voice" /\ VoiceNext
       /\ UNCHANGED <<part, memVars, planVars, devVars, remoteVars, supVars, bgVars,
                      storeVars, adVars>>
    \/ /\ part = "agentd" /\ AdNext
       /\ UNCHANGED <<part, memVars, planVars, devVars, remoteVars, supVars, bgVars,
                      storeVars, voiceVars>>

Spec == Init /\ [][Next]_vars
=============================================================================
