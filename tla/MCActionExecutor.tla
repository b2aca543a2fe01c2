--------------------------- MODULE MCActionExecutor ---------------------------
(* Small instances of ActionExecutor for TLC. *)
EXTENDS ActionExecutor, TLC

CONSTANTS u1, r1, pid1, pid7

\* A process of a user's and one of root's, either of which may take over
\* the other's pid.
Processes == {u1, r1}

\* Switched off, one action allowlisted, both allowlisted.
Settings ==
  {[enabled |-> FALSE, allowlist |-> {"kill_process", "renice_process"}],
   [enabled |-> TRUE, allowlist |-> {"renice_process"}],
   [enabled |-> TRUE, allowlist |-> {"kill_process", "renice_process"}]}

Granted(action, pid, nice) ==
  [action |-> action, pid |-> pid, nice |-> nice, mode |-> "real",
   approvedFor |-> action, approval |-> "approved", confirmReal |-> TRUE]

Kill == Granted("kill_process", pid7, 0)
Renice == Granted("renice_process", pid7, 1)

\* The granted requests, and what is left when one gate is not passed.
Requests ==
  {Kill, Renice, Granted("inspect_process", pid7, 0), Granted("other", pid7, 0)}
  \cup {[r EXCEPT !.confirmReal = FALSE] : r \in {Kill, Renice}}
  \cup {[r EXCEPT !.mode = "dry_run"] : r \in {Kill, Renice}}
  \cup {[Kill EXCEPT !.pid = i] : i \in {pid1, NoPid}}
  \cup {[Renice EXCEPT !.nice = 20], [Renice EXCEPT !.approvedFor = "kill_process"],
        [Kill EXCEPT !.approval = "executed"], [Kill EXCEPT !.approval = "pending"]}
=============================================================================
