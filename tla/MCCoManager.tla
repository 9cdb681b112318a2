---------------------------- MODULE MCCoManager ----------------------------
(* Model values for CoManager.  There are two envs and one coroutine, and    *)
(* everything is still to come; or two of each, and the envs are there, or   *)
(* clean-up has just begun.                                                  *)
EXTENDS CoManager

CONSTANTS e1, e2, c1, c2

OneCoroutine ==
    /\ life = [e \in Env |-> "none"]
    /\ state = [e \in Env |-> "created"]
    /\ ctx = [c \in Ctx |-> IF c = c1 THEN "new" ELSE "gone"]
    /\ kept = {} /\ exclusive = {} /\ scheduled = {} /\ normal = {}
    /\ at = [c \in Ctx |-> Nowhere]
    /\ cleanUp = FALSE /\ cleaner = "start"

(* Users have created both envs, one to keep for themselves or not, and one  *)
(* coroutine, which runs there.                                              *)
TwoEnvs ==
    /\ life = [e \in Env |-> "runs"]
    /\ state = [e \in Env |-> IF e = e1 THEN "busy" ELSE "idle"]
    /\ ctx = [c \in Ctx |-> IF c = c1 THEN "new" ELSE "running"]
    /\ kept \in {{}, {e1}} /\ exclusive = kept /\ scheduled = {e1} /\ normal = {e1, e2}
    /\ at = [c \in Ctx |-> IF c = c1 THEN Nowhere ELSE e1]
    /\ cleanUp = FALSE /\ cleaner = "wait"

(* A user's create_env has tested clean_up__ and not inserted e1 yet; e2     *)
(* runs c2 and has been stopped.                                             *)
Leaving ==
    /\ life = [e \in Env |-> IF e = e1 THEN "started" ELSE "runs"]
    /\ state = [e \in Env |-> IF e = e1 THEN "idle" ELSE "destroying"]
    /\ ctx = [c \in Ctx |-> IF c = c1 THEN "new" ELSE "running"]
    /\ kept = {e1} /\ exclusive = {e1} /\ scheduled = {e2} /\ normal = {e2}
    /\ at = [c \in Ctx |-> IF c = c1 THEN Nowhere ELSE e2]
    /\ cleanUp = TRUE /\ cleaner \in {"start", "woken"}

MCInit ==
    /\ signalled = {} /\ expired = {} /\ arrived = {} /\ late = {}
    /\ monitor = "sleep" /\ double = FALSE /\ redundant = {}
    /\ OneCoroutine \/ TwoEnvs \/ Leaving

MCSpec == MCInit /\ [][ManagerNext]_managerVars /\ ManagerFairness
=============================================================================
