------------------------------ MODULE MCControl ------------------------------
(* The parts with promises of progress: the tier queue, config.yaml and its   *)
(* snapshot, and the quotas and keys with their file.  They share no state,   *)
(* so a behaviour follows one of them, the one "focus" names, while the       *)
(* others stay as they began.                                                 *)
EXTENDS TierQueue, ConfigStore, Quota

VARIABLE focus

ControlInit == Init /\ ConfigInit /\ QuotaInit /\ focus \in {"queue", "config", "quota"}

\* The queue always has a step to take; the other parts may come to rest.
ControlNext ==
  /\ UNCHANGED focus
  /\ \/ focus = "queue" /\ Next /\ UNCHANGED <<cfgVars, quotaVars>>
     \/ focus = "config" /\ ConfigNext /\ UNCHANGED <<vars, quotaVars>>
     \/ focus = "quota" /\ QuotaNext /\ UNCHANGED <<vars, cfgVars>>
     \/ focus # "queue" /\ UNCHANGED <<vars, cfgVars, quotaVars>>

ControlSpec ==
  /\ ControlInit /\ [][ControlNext]_<<focus, vars, cfgVars, quotaVars>>
  /\ Fairness /\ ConfigFairness /\ WF_cfgVars(focus = "config" /\ Boot) /\ QuotaFairness
=============================================================================
