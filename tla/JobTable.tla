------------------------------ MODULE JobTable ------------------------------
(***************************************************************************)
(* The job list of the tiny shell (src/shlab/shlab/tsh.c, jobs[MAXJOBS])   *)
(* and the helper routines that search it.  A slot is free when its pid is *)
(* 0; every search returns the lowest slot that fits.  The routines that   *)
(* change the list are relations between the table before and after, so    *)
(* that they can be conjuncts of an action.                                *)
(***************************************************************************)
EXTENDS Naturals

CONSTANTS MAXJOBS,     \* length of the job list
          Pids         \* process identifiers fork() may return

ASSUME JobTableAssumption == MAXJOBS \in Nat \ {0} /\ 0 \notin Pids

Slots == 1 .. MAXJOBS

JobStates == {"UNDEF", "FG", "BG", "ST"}

Job == [pid : Pids \cup {0}, jid : Nat, state : JobStates]

(* clearjob: what a slot is reset to; cmdline is not modelled.             *)
Cleared == [pid |-> 0, jid |-> 0, state |-> "UNDEF"]

initjobs == [s \in Slots |-> Cleared]

-----------------------------------------------------------------------------
(* Searches: all of them scan from slot 1 upwards.                         *)

Lowest(S, s) == s \in S /\ \A t \in S : s <= t

(* Mutant: the scan for a free slot stops one short.                       *)
freeSlots_OffByOne(tbl) == {s \in Slots : s # MAXJOBS /\ tbl[s].pid = 0}

freeSlots(tbl)      == {s \in Slots : tbl[s].pid = 0}
slotsOfPid(tbl, p)  == {s \in Slots : p # 0 /\ tbl[s].pid = p}
slotsOfJid(tbl, j)  == {s \in Slots : j # 0 /\ tbl[s].jid = j}
slotsIn(tbl, state) == {s \in Slots : tbl[s].state = state}

(* Mutant: any job that is not stopped counts as the foreground job.       *)
fgpid_NotStopped(tbl, r) ==
    \/ slotsIn(tbl, "FG") \cup slotsIn(tbl, "BG") = {} /\ r = 0
    \/ \E s \in slotsIn(tbl, "FG") \cup slotsIn(tbl, "BG") : r = tbl[s].pid

(* fgpid(tbl) returns r: the pid of the lowest slot marked FG, or 0.       *)
fgpid(tbl, r) ==
    \/ slotsIn(tbl, "FG") = {} /\ r = 0
    \/ \E s \in slotsIn(tbl, "FG") : Lowest(slotsIn(tbl, "FG"), s) /\ r = tbl[s].pid

(* maxjid(tbl) returns m: the largest jid in the table, 0 for an empty one. *)
maxjid(tbl, m) ==
    /\ m = 0 \/ \E s \in Slots : tbl[s].jid = m
    /\ \A s \in Slots : tbl[s].jid <= m

jidsOf(tbl) == {0} \cup {tbl[s].jid : s \in Slots}

-----------------------------------------------------------------------------
(* Updates.                                                                *)

(* Mutant: the counter runs the other way.                                 *)
bumpjid_Down(n) == IF n + 1 > MAXJOBS THEN 1 ELSE n - 1

(* nextjid++ and its wrap at the end of addjob.                            *)
bumpjid(n) == IF n + 1 > MAXJOBS THEN 1 ELSE n + 1

(* deletejob(tbl, p), for a p that is in the table.                        *)
deletejob(tbl, p, tbl2, next2) ==
    \E s \in slotsOfPid(tbl, p) :
        /\ Lowest(slotsOfPid(tbl, p), s)
        /\ tbl2 = [tbl EXCEPT ![s] = Cleared]
        /\ \E m \in jidsOf(tbl2) : maxjid(tbl2, m) /\ next2 = m + 1

=============================================================================
