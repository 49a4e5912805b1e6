------------------------------- MODULE Shell -------------------------------
(***************************************************************************)
(* The tiny shell, src/shlab/shlab/tsh.c: the read/eval loop (one thread), *)
(* the signal handlers that interrupt it and one another, and the part of  *)
(* the kernel they talk to: children, process groups, waitpid, kill and    *)
(* one pending bit per signal.                                             *)
(*                                                                         *)
(* The shell has one stack.  A handler that is delivered is pushed on it   *)
(* as a frame; only the top frame runs, and main only when there is none.  *)
(* A step is a stretch of code between two accesses to what a handler, a   *)
(* child or main can change meanwhile.                                     *)
(***************************************************************************)
EXTENDS JobTable, Sequences, FiniteSets

CONSTANTS MaxJid,     \* bound on nextjid, which the code lets grow for ever
          Keys        \* signals the user sends the shell from the terminal

(* A pid is a pid_t: there are finitely many.                              *)
ASSUME ShellAssumption ==
    /\ MaxJid \in Nat
    /\ Keys \subseteq {"INT", "TSTP", "QUIT"}
    /\ IsFiniteSet(Pids)

VARIABLES
    main,        \* the main thread: where it is and its locals
    stack,       \* frames of the interrupted and running handlers, top last
    jobs,        \* jobs[MAXJOBS]
    nextjid,     \* next job ID to allocate
    pending,     \* signals pending for the shell: one bit each
    chldBlocked, \* SIGCHLD is in the shell's signal mask
    proc         \* kernel: what the child with each pid is doing

vars == <<main, stack, jobs, nextjid, pending, chldBlocked, proc>>

-----------------------------------------------------------------------------
(* The kernel's view of a child:                                           *)
(*   none     no such child: never forked, or reaped                       *)
(*   forked   still in the shell's process group, with its handlers        *)
(*   grouped  in its own process group, execve not done: handlers remain   *)
(*   running  executing the program                                        *)
(*   halted   stopped, and waitpid has not reported it yet                 *)
(*   stopped  stopped and reported                                         *)
(*   exited, killed   a zombie                                             *)

ProcStates == {"none", "forked", "grouped", "running", "halted", "stopped",
               "exited", "killed"}

Waitable == {p \in Pids : proc[p] \in {"halted", "exited", "killed"}}

Handled == {"CHLD", "INT", "TSTP"}    \* SIGQUIT only ends the shell

Frame == [sig : Handled, pc : {"start", "act"}, pid : Pids \cup {0},
          why : {"none", "halted", "exited", "killed"}]

MainPC == {"prompt", "addpid", "addstate", "unblock", "print", "lookup",
           "check", "write", "cont", "waitfg", "exited",
           "segv_blank", "segv_print", "segv_bgfg"}

Crashed == {"segv_blank", "segv_print", "segv_bgfg"}

Main == [pc : MainPC, op : {"fg", "bg"}, pid : Pids \cup {0}, jid : Nat,
         slot : Slots \cup {0}]

AtPrompt == [pc |-> "prompt", op |-> "fg", pid |-> 0, jid |-> 0, slot |-> 0]

TypeOK ==
    /\ main \in Main
    /\ main.pc \in {"addstate", "check", "write", "cont"} => main.slot \in Slots
    /\ stack \in Seq(Frame)
    /\ jobs \in [Slots -> Job]
    /\ nextjid \in Nat
    /\ pending \subseteq Handled
    /\ chldBlocked \in BOOLEAN
    /\ proc \in [Pids -> ProcStates]

Init ==
    /\ main = AtPrompt
    /\ stack = <<>>
    /\ jobs = initjobs
    /\ nextjid = 1
    /\ pending = {}
    /\ chldBlocked = FALSE
    /\ proc = [p \in Pids |-> "none"]

-----------------------------------------------------------------------------
(* Who runs.                                                               *)

Alive == main.pc \notin Crashed \cup {"exited"}

MainAt(pc) == Alive /\ stack = <<>> /\ main.pc = pc

Top == stack[Len(stack)]
Return == stack' = SubSeq(stack, 1, Len(stack) - 1)
Handling(sig) == \E i \in DOMAIN stack : stack[i].sig = sig
HandlerAt(sig, pc) == Alive /\ stack # <<>> /\ Top.sig = sig /\ Top.pc = pc

GoTo(pc) == main' = [main EXCEPT !.pc = pc]

-----------------------------------------------------------------------------
(* The kernel's side of a child: what it does of itself, and kill(-p, sig), *)
(* which finds nobody when no process group p exists.                      *)

Becomes(p, from, to) == proc[p] \in from /\ proc' = [proc EXCEPT ![p] = to]

ChildMoves(p, from, to) ==
    /\ Alive
    /\ Becomes(p, from, to)
    /\ UNCHANGED <<main, stack, jobs, nextjid, pending, chldBlocked>>

ChildEvent(p, from, to) ==
    /\ Alive
    /\ Becomes(p, from, to)
    /\ pending' = pending \cup {"CHLD"}
    /\ UNCHANGED <<main, stack, jobs, nextjid, chldBlocked>>

ChildSetpgid(p) == ChildMoves(p, {"forked"}, "grouped")
ChildExecs(p)   == ChildMoves(p, {"grouped"}, "running")
ChildExits(p)   == ChildEvent(p, {"grouped", "running"}, "exited")
ChildKilled(p)  == ChildEvent(p, {"running"}, "killed")
ChildStops(p)   == ChildEvent(p, {"running"}, "halted")

(* SIGTSTP finds the handler the child inherited until execve; SIGCONT     *)
(* withdraws the report of a stop.  All three notify the shell.            *)
Kill(p, from, to) ==
    IF p \in Pids /\ proc[p] \in from
    THEN proc' = [proc EXCEPT ![p] = to] /\ pending' = pending \cup {"CHLD"}
    ELSE UNCHANGED <<proc, pending>>

SendKILL(p) == Kill(p, {"grouped", "running", "halted", "stopped"}, "killed")
SendTSTP(p) == Kill(p, {"running"}, "halted")
SendCONT(p) == Kill(p, {"halted", "stopped"}, "running")

-----------------------------------------------------------------------------
(* eval: a command line that is not a built-in.  p is the child's pid.     *)

(* Mutant: SIGCHLD is not blocked before fork.                             *)
Fork_Unblocked(p, how) ==
    /\ MainAt("prompt")
    /\ nextjid <= MaxJid
    /\ proc[p] = "none"
    /\ proc' = [proc EXCEPT ![p] = "forked"]
    /\ main' = [AtPrompt EXCEPT !.pc = "addpid", !.op = how, !.pid = p]
    /\ UNCHANGED <<stack, jobs, nextjid, pending, chldBlocked>>

Fork(p, how) ==
    /\ MainAt("prompt")
    /\ nextjid <= MaxJid
    /\ proc[p] = "none"
    /\ chldBlocked' = TRUE
    /\ proc' = [proc EXCEPT ![p] = "forked"]
    /\ main' = [AtPrompt EXCEPT !.pc = "addpid", !.op = how, !.pid = p]
    /\ UNCHANGED <<stack, jobs, nextjid, pending>>

(* fork() fails: eval returns without unblocking SIGCHLD.                  *)
ForkFails ==
    /\ MainAt("prompt")
    /\ chldBlocked' = TRUE
    /\ UNCHANGED <<main, stack, jobs, nextjid, pending, proc>>

(* addjob, first store: the slot's pid; or the list is full.               *)
AddPid ==
    /\ MainAt("addpid")
    /\ IF freeSlots(jobs) = {}
       THEN GoTo("unblock") /\ UNCHANGED jobs
       ELSE \E s \in freeSlots(jobs) :
               /\ Lowest(freeSlots(jobs), s)
               /\ jobs' = [jobs EXCEPT ![s].pid = main.pid]
               /\ main' = [main EXCEPT !.pc = "addstate", !.slot = s]
    /\ UNCHANGED <<stack, nextjid, pending, chldBlocked, proc>>

(* Mutant: bg marks the job it resumes like fg does.                       *)
StateOf_SameForBg(op) == "FG"

StateOf(op) == IF op = "fg" THEN "FG" ELSE "BG"

(* addjob, the rest: state and jid.                                        *)
AddState ==
    /\ MainAt("addstate")
    /\ jobs' = [jobs EXCEPT ![main.slot].state = StateOf(main.op),
                            ![main.slot].jid = nextjid]
    /\ nextjid' = bumpjid(nextjid)
    /\ GoTo("unblock")
    /\ UNCHANGED <<stack, pending, chldBlocked, proc>>

(* Mutant: a foreground launch waits before it unblocks SIGCHLD.           *)
Unblock_BackgroundOnly ==
    /\ MainAt("unblock")
    /\ chldBlocked' = (main.op = "fg")
    /\ GoTo(IF main.op = "fg" THEN "waitfg" ELSE "print")
    /\ UNCHANGED <<stack, jobs, nextjid, pending, proc>>

Unblock ==
    /\ MainAt("unblock")
    /\ chldBlocked' = FALSE
    /\ GoTo(IF main.op = "fg" THEN "waitfg" ELSE "print")
    /\ UNCHANGED <<stack, jobs, nextjid, pending, proc>>

(* printf("[%d] (%d) %s", getjobpid(jobs, pid)->jid, ...)                  *)
PrintLaunched ==
    /\ MainAt("print")
    /\ IF slotsOfPid(jobs, main.pid) = {} THEN GoTo("segv_print") ELSE main' = AtPrompt
    /\ UNCHANGED <<stack, jobs, nextjid, pending, chldBlocked, proc>>

(* waitfg: it polls until pid is no longer the foreground job.             *)
IsForeground(p) ==
    \E s \in slotsOfPid(jobs, p) : Lowest(slotsOfPid(jobs, p), s) /\ jobs[s].state = "FG"

(* Mutant: waitfg sleeps once instead of polling.                          *)
WaitfgReturns_Once ==
    /\ MainAt("waitfg")
    /\ main' = AtPrompt
    /\ UNCHANGED <<stack, jobs, nextjid, pending, chldBlocked, proc>>

WaitfgReturns ==
    /\ MainAt("waitfg")
    /\ ~ IsForeground(main.pid)
    /\ main' = AtPrompt
    /\ UNCHANGED <<stack, jobs, nextjid, pending, chldBlocked, proc>>

-----------------------------------------------------------------------------
(* The built-ins.  jobs, and a bg or fg without a usable argument, change  *)
(* nothing.  A line without a word leaves argv[0] NULL.                    *)

BlankLine ==
    /\ MainAt("prompt")
    /\ GoTo("segv_blank")
    /\ UNCHANGED <<stack, jobs, nextjid, pending, chldBlocked, proc>>

Quit ==
    /\ MainAt("prompt")
    /\ GoTo("exited")
    /\ UNCHANGED <<stack, jobs, nextjid, pending, chldBlocked, proc>>

(* do_bgfg, first lookup: by %jid, or by pid, which leaves jid at 0.       *)
BgfgJid(how, jid) ==
    /\ MainAt("prompt")
    /\ slotsOfJid(jobs, jid) # {}
    /\ main' = [AtPrompt EXCEPT !.pc = "lookup", !.op = how, !.jid = jid]
    /\ UNCHANGED <<stack, jobs, nextjid, pending, chldBlocked, proc>>

BgfgPid(how, p) ==
    /\ MainAt("prompt")
    /\ slotsOfPid(jobs, p) # {}
    /\ main' = [AtPrompt EXCEPT !.pc = "lookup", !.op = how]
    /\ UNCHANGED <<stack, jobs, nextjid, pending, chldBlocked, proc>>

(* The second lookup, by jid in every case; its result is dereferenced.    *)
BgfgLookup ==
    /\ MainAt("lookup")
    /\ IF slotsOfJid(jobs, main.jid) = {}
       THEN GoTo("segv_bgfg")
       ELSE \E s \in slotsOfJid(jobs, main.jid) :
               /\ Lowest(slotsOfJid(jobs, main.jid), s)
               /\ main' = [main EXCEPT !.pc = "check", !.slot = s]
    /\ UNCHANGED <<stack, jobs, nextjid, pending, chldBlocked, proc>>

(* bg wants a stopped job, fg one that is not in the foreground.           *)
Acceptable(state) == IF main.op = "bg" THEN state = "ST" ELSE state # "FG"

BgfgCheck ==
    /\ MainAt("check")
    /\ IF Acceptable(jobs[main.slot].state) THEN GoTo("write") ELSE main' = AtPrompt
    /\ UNCHANGED <<stack, jobs, nextjid, pending, chldBlocked, proc>>

BgfgWrite ==
    /\ MainAt("write")
    /\ jobs' = [jobs EXCEPT ![main.slot].state = StateOf(main.op)]
    /\ GoTo("cont")
    /\ UNCHANGED <<stack, nextjid, pending, chldBlocked, proc>>

(* Mutant: the job is marked and never continued.                          *)
BgfgCont_NoSignal ==
    /\ MainAt("cont")
    /\ main' = IF main.op = "bg" THEN AtPrompt
               ELSE [AtPrompt EXCEPT !.pc = "waitfg", !.pid = jobs[main.slot].pid]
    /\ UNCHANGED <<stack, jobs, nextjid, pending, chldBlocked, proc>>

(* kill(-pid, SIGCONT), and for fg the call of waitfg(pid): if the job is  *)
(* reaped between the two reads of stopped->pid, waitfg returns either way. *)
BgfgCont ==
    /\ MainAt("cont")
    /\ SendCONT(jobs[main.slot].pid)
    /\ main' = IF main.op = "bg" THEN AtPrompt
               ELSE [AtPrompt EXCEPT !.pc = "waitfg", !.pid = jobs[main.slot].pid]
    /\ UNCHANGED <<stack, jobs, nextjid, chldBlocked>>

-----------------------------------------------------------------------------
(* Signals.  The keyboard and the kernel set a pending bit; a handler runs *)
(* when its signal is pending, is not in the mask and it is not already on *)
(* the stack (sigaction blocks a signal in its own handler only).          *)

Keyboard(sig) ==
    /\ Alive
    /\ pending' = pending \cup {sig}
    /\ UNCHANGED <<main, stack, jobs, nextjid, chldBlocked, proc>>

Deliver(sig) ==
    /\ Alive
    /\ sig \in pending
    /\ ~ Handling(sig)
    /\ sig = "CHLD" => ~ chldBlocked
    /\ pending' = pending \ {sig}
    /\ stack' = Append(stack, [sig |-> sig, pc |-> "start", pid |-> 0, why |-> "none"])
    /\ UNCHANGED <<main, jobs, nextjid, chldBlocked, proc>>

(* sigquit_handler: exit(1), whatever was interrupted.                     *)
SigQuit ==
    /\ Alive
    /\ "QUIT" \in Keys
    /\ GoTo("exited")
    /\ UNCHANGED <<stack, jobs, nextjid, pending, chldBlocked, proc>>

(* waitpid(-1, &status, WNOHANG | WUNTRACED) finds nothing, or takes one   *)
(* child: a zombie is gone, a stop is reported once.                       *)
SigchldNothing ==
    /\ HandlerAt("CHLD", "start")
    /\ Waitable = {}
    /\ Return
    /\ UNCHANGED <<main, jobs, nextjid, pending, chldBlocked, proc>>

Collected(p) == IF proc[p] = "halted" THEN "stopped" ELSE "none"

SigchldWaitpid(p) ==
    /\ HandlerAt("CHLD", "start")
    /\ p \in Waitable
    /\ proc' = [proc EXCEPT ![p] = Collected(p)]
    /\ stack' = [stack EXCEPT ![Len(stack)] =
                    [sig |-> "CHLD", pc |-> "act", pid |-> p, why |-> proc[p]]]
    /\ UNCHANGED <<main, jobs, nextjid, pending, chldBlocked>>

markstopped(p) ==
    \E s \in slotsOfPid(jobs, p) :
        /\ Lowest(slotsOfPid(jobs, p), s)
        /\ jobs' = [jobs EXCEPT ![s].state = "ST"]

(* Mutant: only a normal exit unlists the job.                             *)
SigchldUpdate_ExitedOnly ==
    /\ HandlerAt("CHLD", "act")
    /\ IF slotsOfPid(jobs, Top.pid) = {} \/ Top.why = "killed"
       THEN UNCHANGED <<jobs, nextjid>>
       ELSE IF Top.why = "halted"
            THEN markstopped(Top.pid) /\ UNCHANGED nextjid
            ELSE deletejob(jobs, Top.pid, jobs', nextjid')
    /\ Return
    /\ UNCHANGED <<main, pending, chldBlocked, proc>>

(* The rest of sigchld_handler; a child that is not in the list is ignored. *)
SigchldUpdate ==
    /\ HandlerAt("CHLD", "act")
    /\ IF slotsOfPid(jobs, Top.pid) = {}
       THEN UNCHANGED <<jobs, nextjid>>
       ELSE IF Top.why = "halted"
            THEN markstopped(Top.pid) /\ UNCHANGED nextjid
            ELSE deletejob(jobs, Top.pid, jobs', nextjid')
    /\ Return
    /\ UNCHANGED <<main, pending, chldBlocked, proc>>

(* sigint_handler and sigtstp_handler: fgpid, then kill.                   *)
SigkeyFind(sig) ==
    /\ HandlerAt(sig, "start")
    /\ \E p \in Pids \cup {0} :
          /\ fgpid(jobs, p)
          /\ IF p = 0 THEN Return
             ELSE stack' = [stack EXCEPT ![Len(stack)] =
                               [sig |-> sig, pc |-> "act", pid |-> p, why |-> "none"]]
    /\ UNCHANGED <<main, jobs, nextjid, pending, chldBlocked, proc>>

(* Mutant: ctrl-c is caught and not sent along.                            *)
SigintKill_Swallowed ==
    /\ HandlerAt("INT", "act")
    /\ Return
    /\ UNCHANGED <<main, jobs, nextjid, pending, chldBlocked, proc>>

SigintKill ==
    /\ HandlerAt("INT", "act")
    /\ SendKILL(Top.pid)
    /\ Return
    /\ UNCHANGED <<main, jobs, nextjid, chldBlocked>>

SigtstpKill ==
    /\ HandlerAt("TSTP", "act")
    /\ SendTSTP(Top.pid)
    /\ Return
    /\ UNCHANGED <<main, jobs, nextjid, chldBlocked>>

-----------------------------------------------------------------------------
(* Next-state relation and fairness.                                       *)

Child == \E p \in Pids : \/ ChildSetpgid(p) \/ ChildExecs(p) \/ ChildExits(p)
                         \/ ChildKilled(p) \/ ChildStops(p)

User ==
    \/ \E how \in {"fg", "bg"} :
          \/ \E p \in Pids : Fork(p, how) \/ BgfgPid(how, p)
          \/ \E jid \in jidsOf(jobs) : BgfgJid(how, jid)
    \/ ForkFails \/ BlankLine \/ Quit \/ SigQuit
    \/ \E sig \in Keys \cap Handled : Keyboard(sig)

MainStep == \/ AddPid \/ AddState \/ Unblock \/ PrintLaunched \/ WaitfgReturns
            \/ BgfgLookup \/ BgfgCheck \/ BgfgWrite \/ BgfgCont

ChldStep == SigchldNothing \/ (\E p \in Pids : SigchldWaitpid(p)) \/ SigchldUpdate
IntStep  == SigkeyFind("INT") \/ SigintKill
TstpStep == SigkeyFind("TSTP") \/ SigtstpKill

Delivery == \E sig \in Handled : Deliver(sig)

Next == Child \/ User \/ MainStep \/ ChldStep \/ IntStep \/ TstpStep \/ Delivery

Spec == Init /\ [][Next]_vars

(* The shell is scheduled: main and each handler get on, however many keys *)
(* the user presses (strong, because each press may interrupt them once    *)
(* more), and a pending signal is delivered (strong for SIGCHLD, which     *)
(* eval blocks again and again).  Nothing makes a program end, or the user *)
(* type.                                                                   *)
Fairness ==
    /\ SF_vars(MainStep)
    /\ SF_vars(ChldStep) /\ SF_vars(IntStep) /\ SF_vars(TstpStep)
    /\ SF_vars(Deliver("CHLD")) /\ WF_vars(Deliver("INT")) /\ WF_vars(Deliver("TSTP"))
    /\ \A p \in Pids : WF_vars(ChildSetpgid(p)) /\ WF_vars(ChildExecs(p))

FairSpec == Spec /\ Fairness

-----------------------------------------------------------------------------
(* Safety.                                                                 *)

Listed(p) == slotsOfPid(jobs, p) # {}

(* Frame i of sigchld_handler has a child's report and not yet acted on it. *)
Collecting(i) == stack[i].sig = "CHLD" /\ stack[i].pc = "act"

Reaping(p) == \E i \in DOMAIN stack : /\ Collecting(i) /\ stack[i].pid = p
                                      /\ stack[i].why # "halted"

(* The slot addjob is filling: its pid is stored, its state and jid not.   *)
Filling(s) == jobs[s].pid # 0 /\ jobs[s].jid = 0

(* No process is in the job list twice (addjob and deletejob).             *)
ListedOnce == \A s, t \in Slots : jobs[s].pid # 0 /\ jobs[s].pid = jobs[t].pid => s = t

(* A listed process is a child the shell has not reaped, except while      *)
(* sigchld_handler is about to unlist it: why SIGCHLD is blocked before    *)
(* fork (eval), so that no job is deleted before it is added.              *)
JobsAreChildren ==
    \A s \in Slots : jobs[s].pid # 0 => proc[jobs[s].pid] # "none" \/ Reaping(jobs[s].pid)

(* Unless there are more children than slots, a child that is not reaped   *)
(* is in the list, from the end of eval's addjob on.                       *)
ChildrenAreJobs ==
    Alive /\ Cardinality(Pids) <= MAXJOBS =>
        \A p \in Pids : proc[p] # "none" => Listed(p) \/ (main.pc = "addpid" /\ main.pid = p)

(* The shell itself waits for the job it shows in the foreground (eval,    *)
(* do_bgfg, waitfg): the prompt never comes back beside a foreground job.  *)
ForegroundOwnsShell ==
    Alive => \A s \in Slots : jobs[s].pid # 0 /\ jobs[s].state = "FG" /\ ~ Filling(s) =>
        \/ main.pc \in {"unblock", "waitfg"} /\ main.pid = jobs[s].pid
        \/ main.pc = "cont" /\ main.slot = s

(* A stop that waitpid reported is shown, or being undone by bg or fg: the *)
(* shell never believes that a job runs which it knows has stopped.        *)
StopsAreListed ==
    Alive => \A s \in Slots :
        \/ jobs[s].pid = 0
        \/ proc[jobs[s].pid] # "stopped"
        \/ jobs[s].state = "ST"
        \/ main.pc = "cont" /\ main.slot = s
        \/ \E i \in DOMAIN stack : Collecting(i) /\ stack[i].pid = jobs[s].pid

(* ctrl-c and ctrl-z never hit a job that the list shows in the background, *)
(* although the handlers look the job up before they signal it and may be  *)
(* interrupted in between.  (A job that addjob adds in a slot with a       *)
(* leftover FG mark is shown in the background only once that is stored.)  *)
KeysSpareBackground ==
    \A i \in DOMAIN stack : stack[i].sig \in {"INT", "TSTP"} =>
        \A s \in Slots : jobs[s].pid # 0 /\ jobs[s].pid = stack[i].pid => jobs[s].state # "BG"

(* The job list, read as the state of each listed process, implements the  *)
(* job control of module JobControl.                                       *)
Shown(p) ==
    IF \E s \in Slots : jobs[s].pid = p /\ ~ Filling(s)
    THEN jobs[CHOOSE s \in Slots : jobs[s].pid = p].state
    ELSE "none"

JC == INSTANCE JobControl WITH job <- [p \in Pids |-> Shown(p)]

RefinesJobControl == JC!Spec

-----------------------------------------------------------------------------
(* What makes the safety properties inductive (module ShellProof).         *)

(* A frame past its first step holds what that step found; the process a   *)
(* frame has reaped is gone, since no fork happens below a handler.        *)
FramesHold ==
    \A i \in DOMAIN stack : Collecting(i) =>
        /\ stack[i].pid \in Pids
        /\ stack[i].why \in {"halted", "exited", "killed"}
        /\ stack[i].why # "halted" => proc[stack[i].pid] = "none"

(* While eval adds a child, SIGCHLD is blocked and not being handled, so   *)
(* the child has not been collected, and its slot is the only one unnamed. *)
LaunchShielded ==
    main.pc \in {"addpid", "addstate"} =>
        /\ chldBlocked
        /\ ~ Handling("CHLD")
        /\ main.pid \in Pids
        /\ proc[main.pid] \notin {"none", "stopped"}
        /\ main.pc = "addpid" => ~ Listed(main.pid)
        /\ main.pc = "addstate" => /\ jobs[main.slot].pid = main.pid
                                   /\ jobs[main.slot].jid = 0

SlotsNamed ==
    /\ nextjid # 0
    /\ \A s \in Slots : /\ jobs[s].pid = 0 => jobs[s].jid = 0
                        /\ jobs[s].jid # 0 => jobs[s].state # "UNDEF"
                        /\ Alive /\ Filling(s) => main.pc = "addstate" /\ main.slot = s

(* ForegroundOwnsShell, naming the command that made the job foreground.   *)
ForegroundOwnsLaunch ==
    Alive => \A s \in Slots : jobs[s].pid # 0 /\ jobs[s].state = "FG" /\ ~ Filling(s) =>
        \/ main.pc \in {"unblock", "waitfg"} /\ main.op = "fg" /\ main.pid = jobs[s].pid
        \/ main.pc = "cont" /\ main.op = "fg" /\ main.slot = s

IndInv ==
    /\ TypeOK /\ FramesHold /\ LaunchShielded /\ SlotsNamed
    /\ ListedOnce /\ JobsAreChildren /\ ForegroundOwnsLaunch
    /\ StopsAreListed /\ KeysSpareBackground

-----------------------------------------------------------------------------
(* Liveness.                                                               *)

WaitingFor(p) == main.pc = "waitfg" /\ main.pid = p

(* Every eval that blocked SIGCHLD unblocked it: no fork has failed.       *)
Unmasked == main.pc = "prompt" => ~ chldBlocked

(* At most one child has something to report.                              *)
OneReport == \A p, q \in Waitable : p = q

(* waitfg returns once its job has ended or stopped, when reports do not   *)
(* pile up: sigchld_handler collects one child for each signal it gets.    *)
WaitfgEnds ==
    [](OneReport /\ Unmasked) =>
        \A p \in Pids : (WaitingFor(p) /\ proc[p] \notin {"forked", "grouped", "running"})
                        ~> ~ WaitingFor(p)

(* The list has no leftover FG mark in a free slot.                        *)
NoGhost == \A s \in Slots : jobs[s].pid = 0 => jobs[s].state # "FG"

RunsForeground(p) == WaitingFor(p) /\ IsForeground(p) /\ proc[p] \in {"grouped", "running"}

(* ctrl-c makes waitfg return: sigint_handler kills the foreground job,    *)
(* sigchld_handler collects it, and main sees that the mark is gone.  As   *)
(* long as reports do not pile up and the list has no leftover FG mark.    *)
CtrlCEndsWait ==
    [](OneReport /\ Unmasked /\ NoGhost) =>
        \A p \in Pids : ("INT" \in pending /\ RunsForeground(p)) ~> ~ WaitingFor(p)

-----------------------------------------------------------------------------
(* What a comment of tsh.c says, and the code does not do.                *)

(* "Return PID of current foreground job, 0 if no such job" (fgpid).       *)
FgpidFindsForeground ==
    fgpid(jobs, 0) => \A s \in Slots : jobs[s].pid # 0 => jobs[s].state # "FG"

=============================================================================
