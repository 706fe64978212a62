---------------------------- MODULE QueueContract ----------------------------
(***************************************************************************)
(* What a caller of QueueManager may rely on, without list, dictionary,    *)
(* Future or consumer task: each request is executed at most once and      *)
(* alone, and a call is answered only by its own completed execution.      *)
(* Calls may be refused, withdrawn or dropped at any time, which does not  *)
(* undo an execution; an execution may be cut short.                       *)
(***************************************************************************)
CONSTANT Requests

VARIABLES call,  \* what the caller has seen so far
          ran    \* what became of the execution

cvars == <<call, ran>>

CTypeOK ==
  /\ call \in [Requests -> {"new", "open", "returned", "raised", "unavailable",
                            "cancelled", "dropped"}]
  /\ ran \in [Requests -> {"no", "running", "ok", "exception", "aborted"}]

CInit == /\ call = [r \in Requests |-> "new"]
         /\ ran = [r \in Requests |-> "no"]

Submit(r) == /\ call[r] = "new"
             /\ call' = [call EXCEPT ![r] = "open"]
             /\ UNCHANGED ran

\* Executions never overlap, and start from a request never executed before whose
\* caller did not go down with the process.
Begin(r) == /\ call[r] \notin {"new", "dropped"}
            /\ ran[r] = "no"
            /\ \A q \in Requests : ran[q] # "running"
            /\ ran' = [ran EXCEPT ![r] = "running"]
            /\ UNCHANGED call

End(r) == /\ ran[r] = "running"
          /\ \E outcome \in {"ok", "exception", "aborted"} :
               ran' = [ran EXCEPT ![r] = outcome]
          /\ UNCHANGED call

Answer(r) == /\ call[r] = "open"
             /\ \/ ran[r] = "ok" /\ call' = [call EXCEPT ![r] = "returned"]
                \/ ran[r] = "exception" /\ call' = [call EXCEPT ![r] = "raised"]
             /\ UNCHANGED ran

GiveUp(r) == /\ call[r] = "open"
             /\ \E why \in {"unavailable", "cancelled"} :
                  call' = [call EXCEPT ![r] = why]
             /\ UNCHANGED ran

\* The connector dies: open calls are dropped, an execution is cut short.
Die == /\ call' = [r \in Requests |-> IF call[r] = "open" THEN "dropped" ELSE call[r]]
       /\ ran' = [r \in Requests |-> IF ran[r] = "running" THEN "aborted" ELSE ran[r]]

CNext == \/ \E r \in Requests : Submit(r) \/ Begin(r) \/ End(r) \/ Answer(r) \/ GiveUp(r)
         \/ Die

CSpec == CInit /\ [][CNext]_cvars
=============================================================================
