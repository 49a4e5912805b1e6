----------------------------- MODULE JobControl -----------------------------
(***************************************************************************)
(* What job control promises of each job, whatever signals arrive: the     *)
(* table at the head of src/shlab/shlab/tsh.c (lines 26-35), completed by  *)
(* what the SIGCHLD handler does to a background job that stops itself.    *)
(* Module Shell implements this specification (Shell!RefinesJobControl).   *)
(***************************************************************************)
CONSTANT Pids

VARIABLE job     \* job[p]: how the shell runs p, "none" when p is no job

Status == {"none", "FG", "BG", "ST"}

TypeOK == job \in [Pids -> Status]

Init == job = [p \in Pids |-> "none"]

(* The terminal belongs to at most one job.                                *)
TerminalFree == \A p \in Pids : job[p] # "FG"

Become(p, from, to) == job[p] \in from /\ job' = [job EXCEPT ![p] = to]

LaunchFG(p)   == TerminalFree /\ Become(p, {"none"}, "FG")
LaunchBG(p)   == Become(p, {"none"}, "BG")
Foreground(p) == TerminalFree /\ Become(p, {"BG", "ST"}, "FG")
Background(p) == Become(p, {"ST"}, "BG")
Suspend(p)    == Become(p, {"FG", "BG"}, "ST")
Finish(p)     == Become(p, {"FG", "BG", "ST"}, "none")

Next == \E p \in Pids : \/ LaunchFG(p) \/ LaunchBG(p) \/ Foreground(p)
                        \/ Background(p) \/ Suspend(p) \/ Finish(p)

Spec == Init /\ [][Next]_job

(* Two jobs are never in the foreground together.                          *)
OneForeground == \A p, q \in Pids : job[p] = "FG" /\ job[q] = "FG" => p = q
=============================================================================
