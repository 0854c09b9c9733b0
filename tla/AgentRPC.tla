------------------------------- MODULE AgentRPC -------------------------------
(***************************************************************************)
(* What run_script() of src/common/lib/vm.py promises its caller, whatever *)
(* happens to the VM, to its agent and to the other clients:               *)
(*   - the script of a request is started at most once;                    *)
(*   - success is reported only for a script that ran to its end and       *)
(*     exited with status 0;                                               *)
(*   - once an answer is reported the script is not running and will not   *)
(*     start any more, so that the caller may go on, or try again.         *)
(***************************************************************************)
CONSTANT Requests

VARIABLES script,   \* what has happened to the script of a request
          answer    \* what its caller has been told

vars == <<script, answer>>

TypeOK ==
  /\ script \in [Requests -> {"new", "running", "zero", "nonzero", "lost"}]
  /\ answer \in [Requests -> {"none", "success", "failure"}]

Init == /\ script = [r \in Requests |-> "new"]
        /\ answer = [r \in Requests |-> "none"]

Start(r) ==
  /\ script[r] = "new" /\ answer[r] = "none"
  /\ script' = [script EXCEPT ![r] = "running"]
  /\ UNCHANGED answer

Finish(r) ==
  /\ script[r] = "running"
  /\ \E status \in {"zero", "nonzero"} : script' = [script EXCEPT ![r] = status]
  /\ UNCHANGED answer

\* The VM goes down; a running script goes with it.
Lose(r) ==
  /\ script[r] = "running"
  /\ script' = [script EXCEPT ![r] = "lost"]
  /\ UNCHANGED answer

Succeed(r) ==
  /\ script[r] = "zero" /\ answer[r] = "none"
  /\ answer' = [answer EXCEPT ![r] = "success"]
  /\ UNCHANGED script

Fail(r) ==
  /\ script[r] # "running" /\ answer[r] = "none"
  /\ answer' = [answer EXCEPT ![r] = "failure"]
  /\ UNCHANGED script

Next == \E r \in Requests : Start(r) \/ Finish(r) \/ Lose(r) \/ Succeed(r) \/ Fail(r)

Spec == Init /\ [][Next]_vars
=============================================================================
