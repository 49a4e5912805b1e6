----------------------------- MODULE ShellProof -----------------------------
(***************************************************************************)
(* Proofs about the tiny shell, for every length of the job list, every    *)
(* set of pids and every bound on the job identifiers.                     *)
(***************************************************************************)
EXTENDS Shell, SequenceTheorems, FiniteSetTheorems, TLAPS

-----------------------------------------------------------------------------
(* The frame stack: what Return, Append and a change of the top leave.     *)

(* A stack that is not empty has a frame on top.                           *)
LEMMA TopIsFrame ==
    ASSUME stack \in Seq(Frame), stack # <<>>
    PROVE  /\ Len(stack) \in Nat \ {0}
           /\ Len(stack) \in DOMAIN stack
           /\ Top \in Frame
BY DEF Top

(* Return leaves the frames below the top as they were.                    *)
LEMMA ReturnType ==
    ASSUME stack \in Seq(Frame), stack # <<>>, Return
    PROVE  /\ stack' \in Seq(Frame)
           /\ Len(stack') = Len(stack) - 1
           /\ \A i \in 1 .. Len(stack) - 1 : stack'[i] = stack[i]
<1>1. /\ Len(stack) \in Nat \ {0}
      /\ \A i \in 1 .. Len(stack) - 1 : stack[i] \in Frame
  OBVIOUS
<1> DEFINE n == Len(stack) - 1
<1>2. /\ n \in Nat /\ 1 \in Int /\ n \in Int
      /\ \A i \in 1 .. n : stack[i] \in Frame
  BY <1>1
<1>3. /\ SubSeq(stack, 1, n) \in Seq(Frame)
      /\ Len(SubSeq(stack, 1, n)) = IF 1 <= n THEN n - 1 + 1 ELSE 0
      /\ \A i \in 1 .. n - 1 + 1 : SubSeq(stack, 1, n)[i] = stack[1 + i - 1]
  BY <1>2, SubSeqProperties
<1>4. stack' = SubSeq(stack, 1, n)
  BY DEF Return
<1> HIDE DEF n
<1>5. Len(stack') = n /\ \A i \in 1 .. n : stack'[i] = stack[i]
  BY <1>2, <1>3, <1>4
<1> QED BY <1>3, <1>4, <1>5 DEF n

(* A change of the top frame leaves the others.                            *)
LEMMA ReplaceType ==
    ASSUME stack \in Seq(Frame), stack # <<>>, NEW f \in Frame,
           stack' = [stack EXCEPT ![Len(stack)] = f]
    PROVE  /\ stack' \in Seq(Frame)
           /\ Len(stack') = Len(stack)
           /\ stack'[Len(stack)] = f
           /\ \A i \in 1 .. Len(stack) - 1 : stack'[i] = stack[i]
OBVIOUS

(* A new frame leaves the others.                                          *)
LEMMA AppendType ==
    ASSUME stack \in Seq(Frame), NEW f \in Frame, stack' = Append(stack, f)
    PROVE  /\ stack' \in Seq(Frame)
           /\ Len(stack') = Len(stack) + 1
           /\ stack'[Len(stack) + 1] = f
           /\ \A i \in 1 .. Len(stack) : stack'[i] = stack[i]
OBVIOUS

-----------------------------------------------------------------------------
(* TypeOK: the shell's variables keep their types in every behaviour.      *)

(* The shell starts with values of the right types.                        *)
LEMMA TypeInit == Init => TypeOK
<1> SUFFICES ASSUME Init PROVE TypeOK
  OBVIOUS
<1>1. main \in Main /\ main.pc = "prompt"
  BY DEF Init, Main, MainPC, AtPrompt
<1>2. stack \in Seq(Frame)
  BY DEF Init
<1>3. jobs \in [Slots -> Job]
  BY DEF Init, initjobs, Cleared, Job, JobStates
<1>4. nextjid \in Nat /\ pending \subseteq Handled /\ chldBlocked \in BOOLEAN
  BY DEF Init
<1>5. proc \in [Pids -> ProcStates]
  BY DEF Init, ProcStates
<1> QED BY <1>1, <1>2, <1>3, <1>4, <1>5 DEF TypeOK

(* GoTo changes where main is and none of its locals.                      *)
LEMMA GoToType ==
    ASSUME main \in Main, NEW pc \in MainPC, GoTo(pc)
    PROVE  /\ main' \in Main
           /\ main'.pc = pc
           /\ main'.op = main.op
           /\ main'.pid = main.pid
           /\ main'.jid = main.jid
           /\ main'.slot = main.slot
BY DEF GoTo, Main

(* A slot may hold any job.                                                *)
LEMMA JobChange ==
    ASSUME jobs \in [Slots -> Job], NEW s \in Slots, NEW j \in Job
    PROVE  [jobs EXCEPT ![s] = j] \in [Slots -> Job]
OBVIOUS

(* A store to one job's state.                                             *)
LEMMA StateChange ==
    ASSUME jobs \in [Slots -> Job], NEW s \in Slots, NEW st \in JobStates,
           jobs' = [jobs EXCEPT ![s].state = st]
    PROVE  /\ jobs' \in [Slots -> Job]
           /\ jobs'[s].pid = jobs[s].pid /\ jobs'[s].jid = jobs[s].jid /\ jobs'[s].state = st
           /\ \A t \in Slots \ {s} : jobs'[t] = jobs[t]
<1> DEFINE j == [jobs[s] EXCEPT !.state = st]
<1>1. j \in Job /\ j.pid = jobs[s].pid /\ j.jid = jobs[s].jid /\ j.state = st
  BY DEF Job
<1>2. jobs' = [jobs EXCEPT ![s] = j]
  OBVIOUS
<1> HIDE DEF j
<1> QED BY <1>1, <1>2

(* The stores with which addjob completes a slot.                          *)
LEMMA FillChange ==
    ASSUME jobs \in [Slots -> Job], NEW s \in Slots, NEW st \in JobStates, NEW n \in Nat,
           jobs' = [jobs EXCEPT ![s].state = st, ![s].jid = n]
    PROVE  /\ jobs' \in [Slots -> Job]
           /\ jobs'[s].pid = jobs[s].pid /\ jobs'[s].jid = n /\ jobs'[s].state = st
           /\ \A t \in Slots \ {s} : jobs'[t] = jobs[t]
<1> DEFINE j == [jobs[s] EXCEPT !.state = st]
           k == [j EXCEPT !.jid = n]
<1>1. j \in Job /\ j.pid = jobs[s].pid /\ j.state = st
  BY DEF Job
<1>2. k \in Job /\ k.pid = j.pid /\ k.jid = n /\ k.state = j.state
  <2> HIDE DEF j
  <2> QED BY <1>1 DEF Job
<1>3. jobs' = [jobs EXCEPT ![s] = k]
  OBVIOUS
<1> HIDE DEF j, k
<1> QED BY <1>1, <1>2, <1>3, ZenonT(40)

(* The store with which addjob claims a slot.                              *)
LEMMA PidChange ==
    ASSUME jobs \in [Slots -> Job], NEW s \in Slots, NEW p \in Pids \cup {0},
           jobs' = [jobs EXCEPT ![s].pid = p]
    PROVE  /\ jobs' \in [Slots -> Job]
           /\ jobs'[s].pid = p /\ jobs'[s].jid = jobs[s].jid /\ jobs'[s].state = jobs[s].state
           /\ \A t \in Slots \ {s} : jobs'[t] = jobs[t]
<1> DEFINE j == [jobs[s] EXCEPT !.pid = p]
<1>1. j \in Job /\ j.pid = p /\ j.jid = jobs[s].jid /\ j.state = jobs[s].state
  BY DEF Job
<1>2. jobs' = [jobs EXCEPT ![s] = j]
  OBVIOUS
<1> HIDE DEF j
<1> QED BY <1>1, <1>2

(* deletejob leaves a job list and a job ID.                               *)
LEMMA DeleteType ==
    ASSUME jobs \in [Slots -> Job], NEW p, deletejob(jobs, p, jobs', nextjid')
    PROVE  jobs' \in [Slots -> Job] /\ nextjid' \in Nat
<1>1. PICK s \in slotsOfPid(jobs, p), m \in jidsOf(jobs') :
         jobs' = [jobs EXCEPT ![s] = Cleared] /\ nextjid' = m + 1
  BY DEF deletejob
<1>2. s \in Slots /\ Cleared \in Job
  BY <1>1 DEF Cleared, Job, JobStates, slotsOfPid
<1>3. jobs' \in [Slots -> Job]
  BY <1>1, <1>2
<1>4. jidsOf(jobs') \subseteq Nat
  BY <1>3 DEF jidsOf, Job
<1>5. m \in Nat
  BY <1>1, <1>4
<1>6. nextjid' = m + 1
  BY <1>1
<1>7. nextjid' \in Nat
  BY <1>5, <1>6
<1> QED BY <1>3, <1>7

(* A record of main's locals set afresh.                                   *)
LEMMA MainValue ==
    ASSUME NEW pc \in MainPC, NEW op \in {"fg", "bg"}, NEW pid \in Pids \cup {0},
           NEW jid \in Nat
    PROVE  /\ [AtPrompt EXCEPT !.pc = pc, !.op = op, !.pid = pid] \in Main
           /\ [AtPrompt EXCEPT !.pc = pc, !.op = op, !.jid = jid] \in Main
           /\ [AtPrompt EXCEPT !.pc = pc, !.op = op] \in Main
           /\ [AtPrompt EXCEPT !.pc = pc, !.pid = pid] \in Main
           /\ AtPrompt \in Main
BY ZenonT(40) DEF AtPrompt, Main, MainPC

(* Every step of the shell keeps the types.                                *)
LEMMA TypeNext == TypeOK /\ [Next]_vars => TypeOK'
<1> SUFFICES ASSUME TypeOK, [Next]_vars PROVE TypeOK'
  OBVIOUS
<1> USE JobTableAssumption DEF TypeOK, Main, MainPC, AtPrompt, GoTo
<1>1. ASSUME NEW p \in Pids, NEW from, NEW to \in ProcStates, ChildMoves(p, from, to)
      PROVE  TypeOK'
  BY <1>1 DEF ChildMoves, Becomes
<1>2. ASSUME NEW p \in Pids, NEW from, NEW to \in ProcStates, ChildEvent(p, from, to)
      PROVE  TypeOK'
  BY <1>2 DEF ChildEvent, Becomes, Handled
<1>3. ASSUME Child PROVE TypeOK'
  BY <1>1, <1>2, <1>3 DEF Child, ChildSetpgid, ChildExecs, ChildExits, ChildKilled,
     ChildStops, ProcStates
<1>4. ASSUME NEW p, NEW from, NEW to \in ProcStates, Kill(p, from, to)
      PROVE  proc' \in [Pids -> ProcStates] /\ pending' \subseteq Handled
  BY <1>4, ZenonT(40) DEF Kill, Handled
<1>5. ASSUME User PROVE TypeOK'
  <2>1. ASSUME NEW p \in Pids, NEW how \in {"fg", "bg"}, Fork(p, how) PROVE TypeOK'
    BY <2>1 DEF Fork, ProcStates
  <2>2. ASSUME NEW p \in Pids, NEW how \in {"fg", "bg"}, BgfgPid(how, p) PROVE TypeOK'
    BY <2>2 DEF BgfgPid
  <2>3. ASSUME NEW jid \in jidsOf(jobs), NEW how \in {"fg", "bg"}, BgfgJid(how, jid)
        PROVE  TypeOK'
    <3>1. jid \in Nat
      BY DEF jidsOf, Job
    <3> QED BY <2>3, <3>1 DEF BgfgJid
  <2>4. ASSUME ForkFails \/ BlankLine \/ Quit \/ SigQuit PROVE TypeOK'
    BY <2>4 DEF ForkFails, BlankLine, Quit, SigQuit
  <2>5. ASSUME NEW sig \in Keys \cap Handled, Keyboard(sig) PROVE TypeOK'
    BY <2>5 DEF Keyboard
  <2> QED BY <1>5, <2>1, <2>2, <2>3, <2>4, <2>5 DEF User
<1>6. ASSUME MainStep PROVE TypeOK'
  <2>1. ASSUME AddPid PROVE TypeOK'
    <3>1. CASE freeSlots(jobs) = {}
      BY <2>1, <3>1 DEF AddPid
    <3>2. CASE freeSlots(jobs) # {}
      <4>1. PICK s \in freeSlots(jobs) :
               /\ jobs' = [jobs EXCEPT ![s].pid = main.pid]
               /\ main' = [main EXCEPT !.pc = "addstate", !.slot = s]
        BY <2>1, <3>2 DEF AddPid
      <4>2. s \in Slots
        BY DEF freeSlots
      <4>3. jobs' \in [Slots -> Job]
        BY <4>1, <4>2, PidChange
      <4>4. main' \in Main /\ main'.slot = s
        BY <4>1, <4>2
      <4> QED BY <2>1, <4>2, <4>3, <4>4 DEF AddPid
    <3> QED BY <3>1, <3>2
  <2>2. ASSUME AddState PROVE TypeOK'
    <3>1. main.slot \in Slots
      BY <2>2 DEF AddState, MainAt
    <3>2. StateOf(main.op) \in JobStates
      BY DEF StateOf, JobStates
    <3>3. jobs' \in [Slots -> Job]
      BY <2>2, <3>1, <3>2, FillChange DEF AddState
    <3> QED BY <2>2, <3>3 DEF AddState, bumpjid
  <2>3. ASSUME Unblock \/ PrintLaunched \/ WaitfgReturns \/ BgfgCheck PROVE TypeOK'
    <3>1. ASSUME Unblock PROVE TypeOK'
      BY <3>1 DEF Unblock
    <3>2. ASSUME PrintLaunched PROVE TypeOK'
      BY <3>2 DEF PrintLaunched
    <3>3. ASSUME WaitfgReturns PROVE TypeOK'
      BY <3>3 DEF WaitfgReturns
    <3>4. ASSUME BgfgCheck PROVE TypeOK'
      BY <3>4 DEF BgfgCheck, MainAt
    <3> QED BY <2>3, <3>1, <3>2, <3>3, <3>4
  <2>4. ASSUME BgfgLookup PROVE TypeOK'
    <3>1. CASE slotsOfJid(jobs, main.jid) = {}
      BY <2>4, <3>1 DEF BgfgLookup
    <3>2. CASE slotsOfJid(jobs, main.jid) # {}
      <4>1. PICK s \in slotsOfJid(jobs, main.jid) :
               main' = [main EXCEPT !.pc = "check", !.slot = s]
        BY <2>4, <3>2 DEF BgfgLookup
      <4>2. s \in Slots
        BY DEF slotsOfJid
      <4>3. main' \in Main /\ main'.slot = s
        BY <4>1, <4>2
      <4> QED BY <2>4, <4>2, <4>3 DEF BgfgLookup
    <3> QED BY <3>1, <3>2
  <2>5. ASSUME BgfgWrite PROVE TypeOK'
    <3>1. main.slot \in Slots
      BY <2>5 DEF BgfgWrite, MainAt
    <3>2. StateOf(main.op) \in JobStates
      BY DEF StateOf, JobStates
    <3>3. jobs' \in [Slots -> Job]
      BY <2>5, <3>1, <3>2, StateChange DEF BgfgWrite
    <3> QED BY <2>5, <3>3 DEF BgfgWrite
  <2>6. ASSUME BgfgCont PROVE TypeOK'
    <3>1. main.slot \in Slots /\ jobs[main.slot].pid \in Pids \cup {0}
      BY <2>6 DEF BgfgCont, MainAt, Job
    <3>2. main' \in Main /\ main'.pc \in {"prompt", "waitfg"}
      BY <2>6, <3>1 DEF BgfgCont
    <3>3. proc' \in [Pids -> ProcStates] /\ pending' \subseteq Handled
      BY <2>6, <1>4 DEF BgfgCont, SendCONT, ProcStates
    <3> QED BY <2>6, <3>2, <3>3 DEF BgfgCont
  <2> QED BY <1>6, <2>1, <2>2, <2>3, <2>4, <2>5, <2>6 DEF MainStep
<1>7. ASSUME ChldStep PROVE TypeOK'
  <2>1. ASSUME SigchldNothing PROVE TypeOK'
    BY <2>1, ReturnType DEF SigchldNothing, HandlerAt
  <2>2. ASSUME NEW p \in Pids, SigchldWaitpid(p) PROVE TypeOK'
    BY <2>2, ReplaceType DEF SigchldWaitpid, HandlerAt, Collected, ProcStates, Waitable, Frame, Handled
  <2>3. ASSUME SigchldUpdate PROVE TypeOK'
    <3>1. ASSUME NEW p, markstopped(p) PROVE jobs' \in [Slots -> Job]
      <4>1. PICK s \in Slots : jobs' = [jobs EXCEPT ![s].state = "ST"]
        BY <3>1 DEF markstopped, slotsOfPid
      <4> QED BY <4>1, StateChange DEF JobStates
    <3>2. jobs' \in [Slots -> Job] /\ nextjid' \in Nat
      BY <2>3, <3>1, DeleteType DEF SigchldUpdate
    <3> QED BY <2>3, <3>2, ReturnType DEF SigchldUpdate, HandlerAt
  <2> QED BY <1>7, <2>1, <2>2, <2>3 DEF ChldStep
<1>8. ASSUME IntStep \/ TstpStep PROVE TypeOK'
  <2>1. ASSUME NEW sig \in Handled, SigkeyFind(sig) PROVE TypeOK'
    BY <2>1, ReturnType, ReplaceType DEF SigkeyFind, HandlerAt, Frame
  <2>2. ASSUME SigintKill PROVE TypeOK'
    BY <2>2, <1>4, ReturnType DEF SigintKill, SendKILL, HandlerAt, ProcStates
  <2>3. ASSUME SigtstpKill PROVE TypeOK'
    BY <2>3, <1>4, ReturnType DEF SigtstpKill, SendTSTP, HandlerAt, ProcStates
  <2> QED BY <1>8, <2>1, <2>2, <2>3 DEF IntStep, TstpStep, Handled
<1>9. ASSUME NEW sig \in Handled, Deliver(sig) PROVE TypeOK'
  BY <1>9, AppendType DEF Deliver, Frame
<1>10. ASSUME UNCHANGED vars PROVE TypeOK'
  BY <1>10 DEF vars
<1> QED BY <1>3, <1>5, <1>6, <1>7, <1>8, <1>9, <1>10 DEF Next, Delivery

(* Every reachable state of the shell is of its type.                      *)
THEOREM TypeCorrect == Spec => []TypeOK
BY TypeInit, TypeNext, PTL DEF Spec

-----------------------------------------------------------------------------
(* IndInv is inductive.  The steps are grouped by what they touch.         *)

(* The shell starts with an empty list and no child.                       *)
LEMMA IndInit == Init => IndInv
<1> SUFFICES ASSUME Init PROVE IndInv
  OBVIOUS
<1>1. TypeOK
  BY TypeInit
<1>2. DOMAIN stack = {}
  BY DEF Init
<1>3. \A s \in Slots : jobs[s].pid = 0 /\ jobs[s].jid = 0
  BY DEF Init, initjobs, Cleared
<1>4. main.pc = "prompt" /\ nextjid = 1
  BY DEF Init, AtPrompt
<1> QED BY <1>1, <1>2, <1>3, <1>4
        DEF IndInv, FramesHold, LaunchShielded, SlotsNamed, ListedOnce, JobsAreChildren,
            ForegroundOwnsLaunch, StopsAreListed, KeysSpareBackground, Filling

(* Steps of main that leave the list, the stack and the children alone,    *)
(* and neither start a launch nor take a foreground job from its command.  *)
LEMMA IndMainOnly ==
    ASSUME IndInv, TypeOK', UNCHANGED <<stack, jobs, nextjid, proc>>,
           Alive' => main'.pc \notin {"addpid", "addstate"},
           Alive' => main.pc \notin {"addpid", "addstate", "cont"},
           Alive' => Alive,
           Alive' /\ main.pc \in {"unblock", "waitfg"} =>
              \/ main'.pc \in {"unblock", "waitfg"} /\ main'.op = main.op /\ main'.pid = main.pid
              \/ ~ (main.op = "fg" /\ IsForeground(main.pid))
    PROVE  IndInv'
<1>1. FramesHold'
  BY DEF IndInv, FramesHold, Collecting
<1>2. LaunchShielded'
  BY DEF LaunchShielded, Crashed, Alive
<1>3. SlotsNamed'
  BY DEF IndInv, SlotsNamed, Filling
<1>4. ListedOnce'
  BY DEF IndInv, ListedOnce
<1>5. JobsAreChildren'
  BY DEF IndInv, JobsAreChildren, Reaping, Collecting
<1>6. ForegroundOwnsLaunch'
  <2> SUFFICES ASSUME Alive', NEW s \in Slots, jobs[s].pid # 0, jobs[s].state = "FG", ~ Filling(s)
               PROVE  main'.pc \in {"unblock", "waitfg"} /\ main'.op = "fg" /\ main'.pid = jobs[s].pid
    BY DEF ForegroundOwnsLaunch, Filling
  <2>1. main.pc \in {"unblock", "waitfg"} /\ main.op = "fg" /\ main.pid = jobs[s].pid
    BY DEF IndInv, ForegroundOwnsLaunch
  <2>2. IsForeground(main.pid)
    BY <2>1 DEF IndInv, ListedOnce, IsForeground, slotsOfPid, Lowest, Slots
  <2> QED BY <2>1, <2>2
<1>7. StopsAreListed'
  BY DEF IndInv, StopsAreListed, Collecting
<1>8. KeysSpareBackground'
  BY DEF IndInv, KeysSpareBackground, Filling
<1> QED BY <1>1, <1>2, <1>3, <1>4, <1>5, <1>6, <1>7, <1>8 DEF IndInv

(* Steps of children and handlers that leave main and the list alone: no   *)
(* child appears, is reaped or has a stop reported, no collected report is *)
(* dropped, and a new frame holds nothing the invariant forbids.           *)
LEMMA IndListKept ==
    ASSUME IndInv, TypeOK', UNCHANGED <<main, jobs, nextjid, chldBlocked>>,
           \A p \in Pids : /\ proc'[p] = "none" <=> proc[p] = "none"
                           /\ proc'[p] = "stopped" => proc[p] = "stopped",
           \A i \in DOMAIN stack : Collecting(i) => \E j \in DOMAIN stack' : stack'[j] = stack[i],
           \A j \in DOMAIN stack' :
              \/ \E i \in DOMAIN stack : stack'[j] = stack[i]
              \/ /\ stack'[j].sig = "CHLD" => stack'[j].pc = "start" /\ ~ chldBlocked
                 /\ stack'[j].sig \in {"INT", "TSTP"} =>
                       \A s \in Slots : jobs[s].pid # 0 /\ jobs[s].pid = stack'[j].pid
                                        => jobs[s].state # "BG"
    PROVE  IndInv'
<1>1. FramesHold'
  BY DEF IndInv, FramesHold, Collecting
<1>2. LaunchShielded'
  BY DEF IndInv, LaunchShielded, Handling, Listed, slotsOfPid
<1>3. SlotsNamed'
  BY DEF IndInv, SlotsNamed, Filling, Alive
<1>4. ListedOnce'
  BY DEF IndInv, ListedOnce
<1>5. JobsAreChildren'
  <2> SUFFICES ASSUME NEW s \in Slots, jobs[s].pid # 0
               PROVE  proc'[jobs[s].pid] # "none" \/ Reaping(jobs[s].pid)'
    BY DEF JobsAreChildren
  <2>1. jobs[s].pid \in Pids
    BY DEF IndInv, TypeOK, Job
  <2>2. CASE proc[jobs[s].pid] # "none"
    BY <2>1, <2>2
  <2>3. CASE Reaping(jobs[s].pid)
    BY <2>3 DEF Reaping, Collecting
  <2> QED BY <2>2, <2>3 DEF IndInv, JobsAreChildren
<1>6. ForegroundOwnsLaunch'
  BY DEF IndInv, ForegroundOwnsLaunch, Filling, Alive
<1>7. StopsAreListed'
  <2> SUFFICES ASSUME Alive, NEW s \in Slots, jobs[s].pid # 0, proc'[jobs[s].pid] = "stopped",
                      jobs[s].state # "ST", ~ (main.pc = "cont" /\ main.slot = s)
               PROVE  \E i \in DOMAIN stack' : /\ stack'[i].sig = "CHLD" /\ stack'[i].pc = "act"
                                               /\ stack'[i].pid = jobs[s].pid
    BY DEF StopsAreListed, Alive, Collecting
  <2>1. proc[jobs[s].pid] = "stopped"
    BY DEF IndInv, TypeOK, Job
  <2>2. PICK i \in DOMAIN stack : Collecting(i) /\ stack[i].pid = jobs[s].pid
    BY <2>1 DEF IndInv, StopsAreListed
  <2> QED BY <2>2 DEF Collecting
<1>8. KeysSpareBackground'
  BY DEF IndInv, KeysSpareBackground, Filling
<1> QED BY <1>1, <1>2, <1>3, <1>4, <1>5, <1>6, <1>7, <1>8 DEF IndInv

(* eval's fork: the child is new and SIGCHLD is blocked.                   *)
LEMMA IndFork ==
    ASSUME IndInv, TypeOK', NEW p \in Pids, NEW how \in {"fg", "bg"}, Fork(p, how)
    PROVE  IndInv'
<1>1. /\ main' \in Main /\ main'.pc = "addpid" /\ main'.pid = p
      /\ stack = <<>> /\ stack' = <<>> /\ jobs' = jobs /\ nextjid' = nextjid
      /\ chldBlocked' /\ proc[p] = "none" /\ proc' = [proc EXCEPT ![p] = "forked"]
      /\ Alive /\ Alive' /\ main.pc = "prompt"
  BY DEF Fork, MainAt, Alive, TypeOK, AtPrompt, Crashed
<1>2. proc'[p] = "forked" /\ \A q \in Pids \ {p} : proc'[q] = proc[q]
  BY <1>1 DEF IndInv, TypeOK
<1>3. \A s \in Slots : jobs[s].pid \in Pids \cup {0} /\ jobs[s].pid # p
  BY <1>1, JobTableAssumption DEF IndInv, TypeOK, Job, JobsAreChildren, Reaping
<1>4. LaunchShielded'
  BY <1>1, <1>2, <1>3 DEF LaunchShielded, Handling, Listed, slotsOfPid
<1>5. SlotsNamed'
  BY <1>1 DEF IndInv, SlotsNamed, Filling
<1>6. JobsAreChildren'
  BY <1>1, <1>2, <1>3 DEF IndInv, JobsAreChildren, Reaping
<1>7. ForegroundOwnsLaunch'
  BY <1>1 DEF IndInv, ForegroundOwnsLaunch, Filling
<1>8. StopsAreListed'
  BY <1>1, <1>2, <1>3 DEF IndInv, StopsAreListed
<1> QED BY <1>1, <1>4, <1>5, <1>6, <1>7, <1>8
        DEF IndInv, FramesHold, ListedOnce, KeysSpareBackground

(* addjob's first store: the child was not listed.                         *)
LEMMA IndAddPid == ASSUME IndInv, TypeOK', AddPid PROVE IndInv'
<1>1. /\ stack = <<>> /\ stack' = <<>> /\ nextjid' = nextjid /\ chldBlocked' = chldBlocked
      /\ proc' = proc /\ Alive /\ main.pc = "addpid"
  BY DEF AddPid, MainAt
<1>2. /\ main.pid \in Pids /\ ~ Listed(main.pid) /\ proc[main.pid] \notin {"none", "stopped"}
      /\ chldBlocked
  BY <1>1 DEF IndInv, LaunchShielded
<1>3. CASE freeSlots(jobs) = {}
  <2>1. jobs' = jobs /\ main'.pc = "unblock" /\ Alive'
    BY <1>1, <1>3 DEF AddPid, GoTo, IndInv, TypeOK, Main, Alive, Crashed
  <2> QED BY <1>1, <2>1 DEF IndInv, FramesHold, LaunchShielded, SlotsNamed, ListedOnce, JobsAreChildren,
          ForegroundOwnsLaunch, StopsAreListed, KeysSpareBackground, Filling, Reaping
<1>4. CASE freeSlots(jobs) # {}
  <2>1. PICK s \in Slots : /\ jobs[s].pid = 0
                           /\ jobs' = [jobs EXCEPT ![s].pid = main.pid]
                           /\ main' = [main EXCEPT !.pc = "addstate", !.slot = s]
    BY <1>4 DEF AddPid, freeSlots
  <2>2. /\ jobs'[s].pid = main.pid /\ jobs'[s].jid = 0
        /\ \A t \in Slots \ {s} : jobs'[t] = jobs[t]
    BY <2>1, <1>2, PidChange DEF IndInv, TypeOK, SlotsNamed
  <2>3. main'.pc = "addstate" /\ main'.slot = s /\ main'.pid = main.pid /\ Alive'
    BY <2>1 DEF IndInv, TypeOK, Main, Alive, Crashed
  <2>4. main.pid # 0 /\ \A t \in Slots : jobs[t].pid # main.pid
    BY <1>2, JobTableAssumption DEF Listed, slotsOfPid
  <2>5. LaunchShielded'
    BY <1>1, <1>2, <2>2, <2>3 DEF LaunchShielded, Handling
  <2>6. SlotsNamed'
    BY <1>1, <2>2, <2>3, <2>4 DEF IndInv, SlotsNamed, Filling
  <2>7. ListedOnce' /\ JobsAreChildren'
    BY <1>1, <1>2, <2>2, <2>4 DEF IndInv, ListedOnce, JobsAreChildren, Reaping
  <2>8. ForegroundOwnsLaunch'
    BY <1>1, <2>2, <2>3 DEF IndInv, ForegroundOwnsLaunch, Filling
  <2>9. StopsAreListed'
    BY <1>1, <1>2, <2>2, <2>3 DEF IndInv, StopsAreListed
  <2> QED BY <1>1, <2>5, <2>6, <2>7, <2>8, <2>9 DEF IndInv, FramesHold, KeysSpareBackground
<1> QED BY <1>3, <1>4

(* What addjob's last stores do to the list.                               *)
LEMMA AddStateEffect ==
    ASSUME IndInv, AddState
    PROVE  /\ main.slot \in Slots /\ main.pid \in Pids /\ Alive /\ main.pc = "addstate"
           /\ proc[main.pid] \notin {"none", "stopped"}
           /\ nextjid \in Nat \ {0} /\ nextjid' \in Nat \ {0}
           /\ StateOf(main.op) \in {"FG", "BG"}
           /\ StateOf(main.op) = "FG" <=> main.op = "fg"
           /\ jobs[main.slot].pid = main.pid /\ jobs[main.slot].jid = 0
           /\ jobs'[main.slot].pid = main.pid
           /\ jobs'[main.slot].jid = nextjid
           /\ jobs'[main.slot].state = StateOf(main.op)
           /\ \A t \in Slots \ {main.slot} : jobs'[t] = jobs[t]
<1> DEFINE s == main.slot
<1>1. /\ Alive /\ main.pc = "addstate" /\ s \in Slots
      /\ nextjid \in Nat \ {0} /\ nextjid' \in Nat \ {0}
  BY DEF AddState, MainAt, IndInv, TypeOK, SlotsNamed, bumpjid
<1>2. /\ StateOf(main.op) \in JobStates \cap {"FG", "BG"}
      /\ StateOf(main.op) = "FG" <=> main.op = "fg"
  BY DEF StateOf, JobStates, IndInv, TypeOK, Main
<1>3. /\ main.pid \in Pids /\ proc[main.pid] \notin {"none", "stopped"}
      /\ jobs[s].pid = main.pid /\ jobs[s].jid = 0
  BY <1>1 DEF IndInv, LaunchShielded
<1>4. /\ jobs'[s].pid = main.pid /\ jobs'[s].jid = nextjid /\ jobs'[s].state = StateOf(main.op)
      /\ \A t \in Slots \ {s} : jobs'[t] = jobs[t]
  BY <1>1, <1>2, <1>3, FillChange, ZenonT(40) DEF AddState, IndInv, TypeOK
<1> QED BY <1>1, <1>2, <1>3, <1>4

(* addjob's last stores: the job has its state and its jid.                *)
LEMMA IndAddState == ASSUME IndInv, TypeOK', AddState PROVE IndInv'
<1> DEFINE s == main.slot
<1>1. /\ stack = <<>> /\ stack' = <<>> /\ chldBlocked' = chldBlocked /\ proc' = proc
  BY DEF AddState, MainAt
<1>2. /\ s \in Slots /\ main.pid \in Pids /\ Alive /\ main.pc = "addstate"
      /\ nextjid \in Nat \ {0} /\ nextjid' \in Nat \ {0}
      /\ StateOf(main.op) \in {"FG", "BG"}
      /\ StateOf(main.op) = "FG" <=> main.op = "fg"
  BY AddStateEffect
<1>3. /\ proc[main.pid] \notin {"none", "stopped"} /\ jobs[s].pid = main.pid
  BY AddStateEffect
<1>4. /\ jobs'[s].pid = main.pid /\ jobs'[s].jid = nextjid /\ jobs'[s].state = StateOf(main.op)
      /\ \A t \in Slots \ {s} : jobs'[t] = jobs[t]
  BY AddStateEffect
<1>5. main'.pc = "unblock" /\ main'.op = main.op /\ main'.pid = main.pid /\ Alive'
  BY DEF AddState, GoTo, IndInv, TypeOK, Main, Alive, Crashed
<1>6. main.pid # 0
  BY <1>2, JobTableAssumption
<1> HIDE DEF s
<1>7. LaunchShielded'
  BY <1>5 DEF LaunchShielded
<1>8. SlotsNamed'
  BY <1>1, <1>2, <1>4, <1>6 DEF IndInv, SlotsNamed, Filling, s
<1>9. ListedOnce' /\ JobsAreChildren'
  BY <1>1, <1>2, <1>3, <1>4 DEF IndInv, ListedOnce, JobsAreChildren, Reaping
<1>10. ForegroundOwnsLaunch'
  BY <1>1, <1>2, <1>4, <1>5 DEF IndInv, ForegroundOwnsLaunch, Filling
<1>11. StopsAreListed'
  BY <1>1, <1>2, <1>3, <1>4, <1>5 DEF IndInv, StopsAreListed
<1> QED BY <1>1, <1>7, <1>8, <1>9, <1>10, <1>11 DEF IndInv, FramesHold, KeysSpareBackground

(* do_bgfg marks a job that is acceptable, or whose slot has changed.      *)
LEMMA IndBgfgWrite == ASSUME IndInv, TypeOK', BgfgWrite PROVE IndInv'
<1> DEFINE s == main.slot
<1>1. /\ stack = <<>> /\ stack' = <<>> /\ chldBlocked' = chldBlocked /\ nextjid' = nextjid
      /\ proc' = proc /\ Alive /\ main.pc = "write" /\ s \in Slots
  BY DEF BgfgWrite, MainAt, IndInv, TypeOK
<1>2. /\ StateOf(main.op) \in JobStates \ {"UNDEF", "ST"}
      /\ StateOf(main.op) = "FG" <=> main.op = "fg"
  BY DEF StateOf, JobStates, IndInv, TypeOK, Main
<1>3. /\ jobs'[s].pid = jobs[s].pid /\ jobs'[s].jid = jobs[s].jid
      /\ jobs'[s].state = StateOf(main.op)
      /\ \A t \in Slots \ {s} : jobs'[t] = jobs[t]
  BY <1>1, <1>2, StateChange DEF BgfgWrite, IndInv, TypeOK
<1>4. main'.pc = "cont" /\ main'.op = main.op /\ main'.slot = s /\ Alive'
  BY DEF BgfgWrite, GoTo, IndInv, TypeOK, Main, Alive, Crashed
<1> HIDE DEF s
<1>5. LaunchShielded'
  BY <1>4 DEF LaunchShielded
<1>6. SlotsNamed'
  BY <1>1, <1>2, <1>3 DEF IndInv, SlotsNamed, Filling
<1>7. ListedOnce' /\ JobsAreChildren'
  BY <1>1, <1>3 DEF IndInv, ListedOnce, JobsAreChildren, Reaping
<1>8. ForegroundOwnsLaunch'
  BY <1>1, <1>2, <1>3, <1>4 DEF IndInv, ForegroundOwnsLaunch, Filling
<1>9. StopsAreListed'
  BY <1>1, <1>3, <1>4 DEF IndInv, StopsAreListed
<1> QED BY <1>1, <1>5, <1>6, <1>7, <1>8, <1>9 DEF IndInv, FramesHold, KeysSpareBackground

(* do_bgfg continues the job it has marked.                                *)
LEMMA IndBgfgCont == ASSUME IndInv, TypeOK', BgfgCont PROVE IndInv'
<1> DEFINE s == main.slot
<1>1. /\ stack = <<>> /\ stack' = <<>> /\ chldBlocked' = chldBlocked /\ nextjid' = nextjid
      /\ jobs' = jobs /\ Alive /\ main.pc = "cont" /\ s \in Slots
  BY DEF BgfgCont, MainAt, IndInv, TypeOK
<1>2. /\ main.op = "bg" => main'.pc = "prompt"
      /\ main.op = "fg" => main'.pc = "waitfg" /\ main'.op = "fg" /\ main'.pid = jobs[s].pid
      /\ Alive'
  BY DEF BgfgCont, IndInv, TypeOK, Main, AtPrompt, Alive, Crashed
<1>3. \A p \in Pids : /\ proc'[p] = "none" <=> proc[p] = "none"
                      /\ proc'[p] = "stopped" => proc[p] = "stopped" /\ p # jobs[s].pid
  BY DEF BgfgCont, SendCONT, Kill, IndInv, TypeOK
<1>4. main.op \in {"fg", "bg"} /\ \A t \in Slots : jobs[t].pid # 0 => jobs[t].pid \in Pids
  BY DEF IndInv, TypeOK, Main, Job
<1> HIDE DEF s
<1>5. LaunchShielded'
  BY <1>2, <1>4 DEF LaunchShielded
<1>6. SlotsNamed'
  BY <1>1 DEF IndInv, SlotsNamed, Filling
<1>7. ListedOnce' /\ JobsAreChildren'
  BY <1>1, <1>3, <1>4 DEF IndInv, ListedOnce, JobsAreChildren, Reaping
<1>8. ForegroundOwnsLaunch'
  BY <1>1, <1>2, <1>4 DEF IndInv, ForegroundOwnsLaunch, Filling, s
<1>9. StopsAreListed'
  BY <1>1, <1>3, <1>4 DEF IndInv, StopsAreListed, s
<1> QED BY <1>1, <1>5, <1>6, <1>7, <1>8, <1>9 DEF IndInv, FramesHold, KeysSpareBackground

(* waitpid takes a report, and the frame holds it until it is acted on.    *)
LEMMA IndWaitpid == ASSUME IndInv, TypeOK', NEW p \in Pids, SigchldWaitpid(p) PROVE IndInv'
<1> DEFINE n == Len(stack)
           f == [sig |-> "CHLD", pc |-> "act", pid |-> p, why |-> proc[p]]
<1>1. /\ UNCHANGED <<main, jobs, nextjid, chldBlocked>> /\ Alive /\ stack # <<>>
      /\ Top.sig = "CHLD" /\ Top.pc = "start" /\ proc[p] \in {"halted", "exited", "killed"}
      /\ stack \in Seq(Frame)
  BY DEF SigchldWaitpid, HandlerAt, Waitable, IndInv, TypeOK
<1>2. /\ proc[p] = "halted" => proc'[p] = "stopped"
      /\ proc[p] # "halted" => proc'[p] = "none"
      /\ \A q \in Pids \ {p} : proc'[q] = proc[q]
  BY DEF SigchldWaitpid, Collected, IndInv, TypeOK
<1>3. f \in Frame /\ f.sig = "CHLD" /\ f.pc = "act" /\ f.pid = p /\ f.why = proc[p]
  BY <1>1 DEF Frame, Handled
<1>4. /\ n \in Nat \ {0} /\ DOMAIN stack = 1 .. n /\ DOMAIN stack' = 1 .. n
      /\ stack'[n] = f /\ \A i \in 1 .. n - 1 : stack'[i] = stack[i]
      /\ stack[n].sig = "CHLD" /\ stack[n].pc = "start"
  <2> HIDE DEF f
  <2> QED BY <1>1, <1>3, ReplaceType DEF SigchldWaitpid, Top, f
<1> HIDE DEF n, f
<1>5. /\ \A i \in DOMAIN stack : Collecting(i) => i \in 1 .. n - 1
      /\ \A i \in DOMAIN stack' : i = n \/ i \in 1 .. n - 1
  BY <1>4 DEF Collecting
<1>6. FramesHold'
  BY <1>1, <1>2, <1>3, <1>4, <1>5 DEF IndInv, FramesHold, Collecting
<1>7. LaunchShielded'
  BY <1>1, <1>4 DEF IndInv, LaunchShielded, Handling
<1>8. SlotsNamed' /\ ListedOnce' /\ ForegroundOwnsLaunch'
  BY <1>1 DEF IndInv, SlotsNamed, ListedOnce, ForegroundOwnsLaunch, Filling, Alive
<1>9. JobsAreChildren'
  <2> SUFFICES ASSUME NEW s \in Slots, jobs[s].pid # 0, proc'[jobs[s].pid] = "none"
               PROVE  \E i \in DOMAIN stack' : /\ stack'[i].sig = "CHLD" /\ stack'[i].pc = "act"
                                               /\ stack'[i].pid = jobs[s].pid
                                               /\ stack'[i].why # "halted"
    BY <1>1 DEF JobsAreChildren, Reaping, Collecting
  <2>1. jobs[s].pid \in Pids
    BY DEF IndInv, TypeOK, Job
  <2>2. CASE jobs[s].pid = p
    <3>1. proc[p] # "halted"
      BY <1>2, <2>2
    <3> QED BY <3>1, <2>2, <1>3, <1>4
  <2>3. CASE jobs[s].pid # p
    <3>1. Reaping(jobs[s].pid)
      BY <2>1, <2>3, <1>2 DEF IndInv, JobsAreChildren
    <3> QED BY <3>1, <1>4, <1>5 DEF Reaping, Collecting
  <2> QED BY <2>2, <2>3
<1>10. StopsAreListed'
  <2> SUFFICES ASSUME NEW s \in Slots, jobs[s].pid # 0, proc'[jobs[s].pid] = "stopped",
                      jobs[s].state # "ST", ~ (main.pc = "cont" /\ main.slot = s)
               PROVE  \E i \in DOMAIN stack' : /\ stack'[i].sig = "CHLD" /\ stack'[i].pc = "act"
                                               /\ stack'[i].pid = jobs[s].pid
    BY <1>1 DEF StopsAreListed, Alive, Collecting
  <2>1. jobs[s].pid \in Pids
    BY DEF IndInv, TypeOK, Job
  <2>2. CASE jobs[s].pid = p
    BY <2>2, <1>3, <1>4
  <2>3. CASE jobs[s].pid # p
    <3>1. PICK i \in DOMAIN stack : Collecting(i) /\ stack[i].pid = jobs[s].pid
      BY <1>1, <1>2, <2>1, <2>3 DEF IndInv, StopsAreListed
    <3> QED BY <3>1, <1>4, <1>5 DEF Collecting
  <2> QED BY <2>2, <2>3
<1>11. KeysSpareBackground'
  BY <1>1, <1>3, <1>4, <1>5 DEF IndInv, KeysSpareBackground, Filling
<1> QED BY <1>6, <1>7, <1>8, <1>9, <1>10, <1>11 DEF IndInv

(* The list after sigchld_handler: every slot is as it was, or its job is  *)
(* marked stopped, or it is free; and p, if it has ended, is in none.      *)
LEMMA UpdateEffect ==
    ASSUME IndInv, SigchldUpdate
    PROVE  /\ nextjid' # 0
           /\ \A t \in Slots :
                 \/ jobs'[t] = jobs[t] /\ jobs[t].pid # Top.pid
                 \/ /\ Top.why = "halted" /\ jobs[t].pid = Top.pid
                    /\ jobs'[t].pid = jobs[t].pid /\ jobs'[t].jid = jobs[t].jid
                    /\ jobs'[t].state = "ST"
                 \/ jobs'[t] = Cleared
<1> DEFINE p == Top.pid
<1>1. /\ jobs \in [Slots -> Job] /\ nextjid # 0 /\ ListedOnce /\ p \in Pids
  <2>1. Len(stack) \in DOMAIN stack /\ Collecting(Len(stack))
    BY TopIsFrame DEF IndInv, TypeOK, SigchldUpdate, HandlerAt, Collecting, Top
  <2> QED BY <2>1 DEF IndInv, TypeOK, SlotsNamed, FramesHold, Top
<1>2. p # 0
  BY <1>1, JobTableAssumption
<1> HIDE DEF p
<1>3. CASE slotsOfPid(jobs, p) = {}
  BY <1>1, <1>2, <1>3 DEF SigchldUpdate, slotsOfPid, p
<1>4. CASE slotsOfPid(jobs, p) # {} /\ Top.why = "halted"
  <2>1. PICK s \in Slots : /\ jobs[s].pid = p /\ jobs' = [jobs EXCEPT ![s].state = "ST"]
    BY <1>4 DEF SigchldUpdate, markstopped, slotsOfPid, p
  <2>2. /\ jobs'[s].pid = p /\ jobs'[s].jid = jobs[s].jid /\ jobs'[s].state = "ST"
        /\ \A t \in Slots \ {s} : jobs'[t] = jobs[t] /\ jobs[t].pid # p
    BY <1>1, <1>2, <2>1, StateChange DEF JobStates, ListedOnce
  <2>3. nextjid' = nextjid
    BY <1>4 DEF SigchldUpdate, p
  <2> QED BY <1>1, <1>4, <2>1, <2>2, <2>3 DEF p
<1>5. CASE slotsOfPid(jobs, p) # {} /\ Top.why # "halted"
  <2>1. deletejob(jobs, p, jobs', nextjid')
    BY <1>5 DEF SigchldUpdate, p
  <2>2. PICK s \in slotsOfPid(jobs, p), m \in jidsOf(jobs') :
           jobs' = [jobs EXCEPT ![s] = Cleared] /\ nextjid' = m + 1
    BY <2>1 DEF deletejob
  <2>3. s \in Slots /\ jobs[s].pid = p
    BY DEF slotsOfPid
  <2>4. \A t \in Slots \ {s} : jobs'[t] = jobs[t] /\ jobs[t].pid # p
    BY <1>1, <1>2, <2>2, <2>3 DEF ListedOnce
  <2>5. jobs'[s] = Cleared
    BY <1>1, <2>2, <2>3
  <2>6. jobs' \in [Slots -> Job]
    BY <1>1, <2>1, DeleteType
  <2>7. jidsOf(jobs') \subseteq Nat
    BY <2>6 DEF jidsOf, Job
  <2>8. m \in Nat
    BY <2>7
  <2>9. nextjid' # 0
    BY <2>2, <2>8
  <2> QED BY <2>4, <2>5, <2>9 DEF p
<1> QED BY <1>3, <1>4, <1>5

(* The handler acts on its report: the job is marked or unlisted.          *)
LEMMA IndUpdate == ASSUME IndInv, TypeOK', SigchldUpdate PROVE IndInv'
<1> DEFINE n == Len(stack)
           p == Top.pid
<1>1. /\ UNCHANGED <<main, chldBlocked, proc>> /\ Alive /\ stack # <<>>
      /\ stack \in Seq(Frame) /\ Return
  BY DEF SigchldUpdate, HandlerAt, IndInv, TypeOK
<1>2. /\ n \in Nat \ {0} /\ DOMAIN stack = 1 .. n /\ DOMAIN stack' = 1 .. n - 1
      /\ \A i \in 1 .. n - 1 : stack'[i] = stack[i]
  BY <1>1, ReturnType
<1>3. Collecting(n) /\ stack[n].pid = p /\ stack[n].why = Top.why /\ n \in DOMAIN stack
  BY <1>2 DEF SigchldUpdate, HandlerAt, Collecting, Top
<1>4. p \in Pids /\ p # 0
  BY <1>3, JobTableAssumption DEF IndInv, FramesHold
<1>5. /\ nextjid' # 0
      /\ \A t \in Slots :
            \/ jobs'[t] = jobs[t] /\ jobs[t].pid # p
            \/ /\ Top.why = "halted" /\ jobs[t].pid = p
               /\ jobs'[t].pid = p /\ jobs'[t].jid = jobs[t].jid /\ jobs'[t].state = "ST"
            \/ jobs'[t].pid = 0 /\ jobs'[t].jid = 0 /\ jobs'[t].state = "UNDEF"
  BY UpdateEffect DEF Cleared
<1> HIDE DEF n, p
<1>6. main.pc \notin {"addpid", "addstate"}
  BY <1>3 DEF IndInv, LaunchShielded, Handling, Collecting
<1>7. FramesHold'
  BY <1>1, <1>2 DEF IndInv, FramesHold, Collecting
<1>8. LaunchShielded'
  BY <1>1, <1>6 DEF LaunchShielded
<1>9. SlotsNamed'
  BY <1>1, <1>5 DEF IndInv, SlotsNamed, Filling, Alive
<1>10. ListedOnce'
  BY <1>5 DEF IndInv, ListedOnce
<1>11. JobsAreChildren'
  <2> SUFFICES ASSUME NEW s \in Slots, jobs'[s].pid # 0, proc[jobs'[s].pid] = "none"
               PROVE  \E i \in DOMAIN stack' : /\ stack'[i].sig = "CHLD" /\ stack'[i].pc = "act"
                                               /\ stack'[i].pid = jobs'[s].pid
                                               /\ stack'[i].why # "halted"
    BY <1>1 DEF JobsAreChildren, Reaping, Collecting
  <2>1. jobs'[s].pid = jobs[s].pid /\ (jobs[s].pid # p \/ Top.why = "halted")
    BY <1>5
  <2>2. PICK i \in DOMAIN stack : /\ Collecting(i) /\ stack[i].pid = jobs[s].pid
                                  /\ stack[i].why # "halted"
    BY <2>1 DEF IndInv, JobsAreChildren, Reaping
  <2>3. i # n
    BY <1>3, <2>1, <2>2
  <2> QED BY <1>2, <2>1, <2>2, <2>3 DEF Collecting
<1>12. ForegroundOwnsLaunch'
  BY <1>1, <1>5 DEF IndInv, ForegroundOwnsLaunch, Filling, Alive
<1>13. StopsAreListed'
  <2> SUFFICES ASSUME NEW s \in Slots, jobs'[s].pid # 0, proc[jobs'[s].pid] = "stopped",
                      jobs'[s].state # "ST", ~ (main.pc = "cont" /\ main.slot = s)
               PROVE  \E i \in DOMAIN stack' : /\ stack'[i].sig = "CHLD" /\ stack'[i].pc = "act"
                                               /\ stack'[i].pid = jobs'[s].pid
    BY <1>1 DEF StopsAreListed, Alive, Collecting
  <2>1. jobs'[s] = jobs[s] /\ jobs[s].pid # p
    BY <1>5
  <2>2. PICK i \in DOMAIN stack : Collecting(i) /\ stack[i].pid = jobs[s].pid
    BY <1>1, <2>1 DEF IndInv, StopsAreListed
  <2>3. i # n
    BY <1>3, <2>1, <2>2
  <2> QED BY <1>2, <2>1, <2>2, <2>3 DEF Collecting
<1>14. KeysSpareBackground'
  BY <1>1, <1>2, <1>5 DEF IndInv, KeysSpareBackground, Filling
<1> QED BY <1>7, <1>8, <1>9, <1>10, <1>11, <1>12, <1>13, <1>14 DEF IndInv

(* kill neither creates nor reaps a child, nor reports its stop.           *)
LEMMA KillEffect ==
    ASSUME TypeOK, NEW k, NEW from, NEW to \in ProcStates \ {"none", "stopped"},
           "none" \notin from, Kill(k, from, to)
    PROVE  \A p \in Pids : /\ proc'[p] = "none" <=> proc[p] = "none"
                           /\ proc'[p] = "stopped" => proc[p] = "stopped"
BY DEF Kill, TypeOK

(* The top frame returns: all others stay.                                 *)
LEMMA PopEffect ==
    ASSUME IndInv, stack # <<>>, Return, ~ Collecting(Len(stack))
    PROVE  /\ \A i \in DOMAIN stack : Collecting(i) => \E j \in DOMAIN stack' : stack'[j] = stack[i]
           /\ \A j \in DOMAIN stack' : \E i \in DOMAIN stack : stack'[j] = stack[i]
<1> DEFINE n == Len(stack)
<1>1. /\ n \in Nat \ {0} /\ DOMAIN stack = 1 .. n /\ DOMAIN stack' = 1 .. n - 1
      /\ \A i \in 1 .. n - 1 : stack'[i] = stack[i]
  BY ReturnType DEF IndInv, TypeOK
<1> HIDE DEF n
<1>2. \A i \in DOMAIN stack : Collecting(i) => i \in 1 .. n - 1
  BY <1>1 DEF n
<1> QED BY <1>1, <1>2

(* fgpid in the handler of a key: no background job is found.              *)
LEMMA IndSigkeyFind ==
    ASSUME IndInv, TypeOK', NEW sig \in {"INT", "TSTP"}, SigkeyFind(sig) PROVE IndInv'
<1> DEFINE n == Len(stack)
<1>1. /\ UNCHANGED <<main, jobs, nextjid, chldBlocked, proc>> /\ stack # <<>>
      /\ stack \in Seq(Frame) /\ n \in Nat \ {0} /\ stack[n].sig = sig /\ ~ Collecting(n)
  BY DEF SigkeyFind, HandlerAt, IndInv, TypeOK, Top, Collecting
<1>2. CASE Return
  BY <1>1, <1>2, PopEffect, IndListKept
<1>3. CASE ~ Return
  <2>1. PICK p \in Pids : /\ fgpid(jobs, p)
                          /\ p # 0
                          /\ stack' = [stack EXCEPT ![n] =
                                [sig |-> sig, pc |-> "act", pid |-> p, why |-> "none"]]
    BY <1>3 DEF SigkeyFind
  <2> DEFINE f == [sig |-> sig, pc |-> "act", pid |-> p, why |-> "none"]
  <2>2. f \in Frame /\ f.sig = sig /\ f.pid = p
    BY DEF Frame, Handled
  <2> HIDE DEF f
  <2>3. /\ DOMAIN stack = 1 .. n /\ DOMAIN stack' = 1 .. n /\ stack'[n] = f
        /\ \A i \in 1 .. n - 1 : stack'[i] = stack[i]
    BY <1>1, <2>1, <2>2, ReplaceType DEF f
  <2>4. PICK s \in Slots : jobs[s].state = "FG" /\ jobs[s].pid = p
    BY <2>1 DEF fgpid, slotsIn
  <2>5. \A t \in Slots : jobs[t].pid = p => jobs[t].state = "FG"
    BY <2>1, <2>4 DEF IndInv, ListedOnce
  <2> HIDE DEF n
  <2>6. \A i \in DOMAIN stack : Collecting(i) => \E j \in DOMAIN stack' : stack'[j] = stack[i]
    <3>1. \A i \in DOMAIN stack : Collecting(i) => i \in 1 .. n - 1
      BY <1>1, <2>3
    <3> QED BY <1>1, <2>3, <3>1
  <2>7. \A j \in DOMAIN stack' : j = n \/ \E i \in DOMAIN stack : stack'[j] = stack[i]
    BY <1>1, <2>3
  <2>8. stack'[n].sig = sig /\ \A t \in Slots : jobs[t].pid = stack'[n].pid => jobs[t].state # "BG"
    BY <2>2, <2>3, <2>5
  <2> QED BY <1>1, <2>6, <2>7, <2>8, IndListKept
<1> QED BY <1>2, <1>3

(* A handler starts on top of whatever it interrupts.                      *)
LEMMA IndDeliver ==
    ASSUME IndInv, TypeOK', NEW sig \in Handled, Deliver(sig) PROVE IndInv'
<1> DEFINE f == [sig |-> sig, pc |-> "start", pid |-> 0, why |-> "none"]
           n == Len(stack)
<1>1. f \in Frame /\ f.sig = sig /\ f.pc = "start" /\ f.pid = 0
  BY DEF Frame
<1>2. /\ UNCHANGED <<main, jobs, nextjid, chldBlocked, proc>> /\ stack \in Seq(Frame)
      /\ sig = "CHLD" => ~ chldBlocked
      /\ stack' = Append(stack, f)
  BY DEF Deliver, IndInv, TypeOK
<1> HIDE DEF f
<1>3. /\ n \in Nat /\ DOMAIN stack = 1 .. n /\ DOMAIN stack' = 1 .. n + 1 /\ stack'[n + 1] = f
      /\ \A i \in 1 .. n : stack'[i] = stack[i]
  BY <1>1, <1>2, AppendType
<1> HIDE DEF n
<1>4. /\ \A i \in DOMAIN stack : stack'[i] = stack[i] /\ i \in DOMAIN stack'
      /\ \A j \in DOMAIN stack' : j = n + 1 \/ j \in DOMAIN stack
  BY <1>3
<1> QED BY <1>1, <1>2, <1>3, <1>4, IndListKept

(* Every step of the shell keeps the invariant.                            *)
LEMMA IndNext == IndInv /\ [Next]_vars => IndInv'
<1> SUFFICES ASSUME IndInv, [Next]_vars PROVE IndInv'
  OBVIOUS
<1>1. TypeOK /\ TypeOK'
  BY TypeNext DEF IndInv
<1>2. ASSUME NEW p \in Pids, NEW from, NEW to \in ProcStates \ {"none", "stopped"},
             "none" \notin from, ChildMoves(p, from, to) \/ ChildEvent(p, from, to)
      PROVE  IndInv'
  BY <1>1, <1>2, IndListKept DEF ChildMoves, ChildEvent, Becomes, TypeOK
<1>3. CASE Child
  BY <1>2, <1>3 DEF Child, ChildSetpgid, ChildExecs, ChildExits, ChildKilled, ChildStops, ProcStates
<1>4. CASE User
  <2>1. ASSUME NEW p \in Pids, NEW how \in {"fg", "bg"}, BgfgPid(how, p) PROVE IndInv'
    BY <1>1, <2>1, IndMainOnly DEF BgfgPid, MainAt, AtPrompt
  <2>2. ASSUME NEW jid, NEW how \in {"fg", "bg"}, BgfgJid(how, jid) PROVE IndInv'
    BY <1>1, <2>2, IndMainOnly DEF BgfgJid, MainAt, AtPrompt
  <2>3. ASSUME BlankLine \/ Quit \/ SigQuit PROVE IndInv'
    <3>1. ~ Alive' /\ UNCHANGED <<stack, jobs, nextjid, proc>>
      BY <1>1, <2>3 DEF BlankLine, Quit, SigQuit, GoTo, TypeOK, Main, Alive, Crashed
    <3> QED BY <1>1, <3>1, IndMainOnly
  <2>4. ASSUME ForkFails PROVE IndInv'
    BY <1>1, <2>4, IndMainOnly DEF ForkFails, MainAt, Alive
  <2>5. ASSUME NEW sig, Keyboard(sig) PROVE IndInv'
    BY <1>1, <2>5, IndListKept DEF Keyboard
  <2> QED BY <1>1, <1>4, <2>1, <2>2, <2>3, <2>4, <2>5, IndFork DEF User
<1>5. CASE MainStep
  <2>1. ASSUME Unblock PROVE IndInv'
    BY <1>1, <2>1, IndMainOnly DEF Unblock, MainAt, GoTo, TypeOK, Main
  <2>2. ASSUME PrintLaunched PROVE IndInv'
    BY <1>1, <2>2, IndMainOnly DEF PrintLaunched, MainAt, GoTo, TypeOK, Main, AtPrompt, Crashed, Alive
  <2>3. ASSUME WaitfgReturns PROVE IndInv'
    BY <1>1, <2>3, IndMainOnly DEF WaitfgReturns, MainAt, AtPrompt
  <2>4. ASSUME BgfgLookup PROVE IndInv'
    <3>1. /\ main.pc = "lookup" /\ main'.pc \in {"check", "segv_bgfg"} /\ Alive
          /\ UNCHANGED <<stack, jobs, nextjid, proc>>
      BY <1>1, <2>4 DEF BgfgLookup, MainAt, GoTo, TypeOK, Main
    <3> QED BY <1>1, <3>1, IndMainOnly
  <2>5. ASSUME BgfgCheck PROVE IndInv'
    BY <1>1, <2>5, IndMainOnly DEF BgfgCheck, MainAt, GoTo, TypeOK, Main, AtPrompt
  <2> QED BY <1>1, <1>5, <2>1, <2>2, <2>3, <2>4, <2>5, IndAddPid, IndAddState, IndBgfgWrite,
             IndBgfgCont DEF MainStep
<1>6. CASE ChldStep
  <2>1. ASSUME SigchldNothing PROVE IndInv'
    <3>1. /\ UNCHANGED <<main, jobs, nextjid, chldBlocked, proc>> /\ stack # <<>> /\ Return
          /\ ~ Collecting(Len(stack))
      BY <2>1 DEF SigchldNothing, HandlerAt, Top, Collecting
    <3> QED BY <1>1, <3>1, PopEffect, IndListKept
  <2> QED BY <1>1, <1>6, <2>1, IndWaitpid, IndUpdate DEF ChldStep
<1>7. ASSUME NEW k, NEW from, NEW to \in ProcStates \ {"none", "stopped"}, "none" \notin from,
             Kill(k, from, to), UNCHANGED <<main, jobs, nextjid, chldBlocked>>, Return,
             stack # <<>>, Top.sig # "CHLD"
      PROVE  IndInv'
  <2>1. ~ Collecting(Len(stack))
    BY <1>7 DEF Collecting, Top
  <2> QED BY <1>1, <1>7, <2>1, KillEffect, PopEffect, IndListKept
<1>8. CASE IntStep
  BY <1>1, <1>7, <1>8, IndSigkeyFind DEF IntStep, SigintKill, SendKILL, HandlerAt, ProcStates
<1>9. CASE TstpStep
  BY <1>1, <1>7, <1>9, IndSigkeyFind DEF TstpStep, SigtstpKill, SendTSTP, HandlerAt, ProcStates
<1>10. CASE Delivery
  BY <1>1, <1>10, IndDeliver DEF Delivery
<1>11. CASE UNCHANGED vars
  BY <1>1, <1>11, IndListKept DEF vars
<1> QED BY <1>3, <1>4, <1>5, <1>6, <1>8, <1>9, <1>10, <1>11 DEF Next

(* In every behaviour of the shell the strengthened invariant holds.       *)
THEOREM Inductive == Spec => []IndInv
BY IndInit, IndNext, PTL DEF Spec

(* No process has two slots: addjob never adds one that is listed still.   *)
THEOREM ListUnique == Spec => []ListedOnce
<1>1. IndInv => ListedOnce
  BY DEF IndInv
<1> QED BY <1>1, Inductive, PTL

(* A listed process is a child that is not reaped, or being unlisted:      *)
(* addjob never follows the deletejob of its own job.                      *)
THEOREM ListFaithful == Spec => []JobsAreChildren
<1>1. IndInv => JobsAreChildren
  BY DEF IndInv
<1> QED BY <1>1, Inductive, PTL

(* The prompt never returns beside a foreground job: main waits for it.    *)
THEOREM ForegroundOwned == Spec => []ForegroundOwnsShell
<1>1. IndInv => ForegroundOwnsShell
  BY DEF IndInv, ForegroundOwnsLaunch, ForegroundOwnsShell
<1> QED BY <1>1, Inductive, PTL

(* A job whose stop was reported is shown stopped, or being resumed.       *)
THEOREM StopsListed == Spec => []StopsAreListed
<1>1. IndInv => StopsAreListed
  BY DEF IndInv
<1> QED BY <1>1, Inductive, PTL

(* ctrl-c and ctrl-z are never aimed at a job listed in the background.    *)
THEOREM BackgroundSpared == Spec => []KeysSpareBackground
<1>1. IndInv => KeysSpareBackground
  BY DEF IndInv
<1> QED BY <1>1, Inductive, PTL

-----------------------------------------------------------------------------
(* ChildrenAreJobs: from fork to the collection of its end a child is       *)
(* listed, but for the moment eval takes to add it.                        *)

(* Pigeonhole: with no more children than slots, and none of them listed   *)
(* twice, a child that is not listed finds a free slot.                    *)
LEMMA RoomForChild ==
    ASSUME TypeOK, ListedOnce, Cardinality(Pids) <= MAXJOBS, NEW p \in Pids, ~ Listed(p)
    PROVE  freeSlots(jobs) # {}
<1> SUFFICES ASSUME \A s \in Slots : jobs[s].pid # 0 PROVE FALSE
  BY DEF freeSlots
<1> DEFINE Others == Pids \ {p}
           f == [s \in Slots |-> jobs[s].pid]
<1>1. p # 0 /\ \A s \in Slots : jobs[s].pid \in Others
  BY JobTableAssumption DEF TypeOK, Job, Listed, slotsOfPid
<1>2. f \in Injection(Slots, Others)
  BY <1>1 DEF Injection, IsInjective, ListedOnce
<1>3. /\ Cardinality(Pids) \in Nat /\ IsFiniteSet(Others)
      /\ Cardinality(Others) = Cardinality(Pids) - 1
  BY ShellAssumption, FS_CardinalityType, FS_RemoveElement
<1>4. Cardinality(Slots) <= Cardinality(Others)
  <2> HIDE DEF f, Others
  <2> QED BY <1>2, <1>3, FS_Injection
<1>5. Cardinality(Slots) = MAXJOBS
  BY JobTableAssumption, FS_Interval DEF Slots
<1> QED BY <1>3, <1>4, <1>5, JobTableAssumption

(* Nothing but fork makes a process, and only in front of addjob.          *)
LEMMA OnlyForkCreates ==
    ASSUME [Next]_vars, NEW p \in Pids, TypeOK, proc'[p] # "none"
    PROVE  \/ proc[p] # "none"
           \/ UNCHANGED jobs /\ main'.pc = "addpid" /\ main'.pid = p
<1> DEFINE Goal == \/ proc[p] # "none"
                   \/ UNCHANGED jobs /\ main'.pc = "addpid" /\ main'.pid = p
<1> SUFFICES Goal
  OBVIOUS
<1>1. ASSUME NEW q, NEW from, NEW to, "none" \notin from, Becomes(q, from, to) PROVE Goal
  BY <1>1 DEF Becomes, TypeOK
<1>2. ASSUME NEW q, NEW from, NEW to, "none" \notin from, Kill(q, from, to) PROVE Goal
  BY <1>2 DEF Kill, TypeOK
<1>3. ASSUME NEW q \in Pids, NEW how, Fork(q, how) PROVE Goal
  BY <1>3 DEF Fork, TypeOK, AtPrompt
<1>4. ASSUME NEW q, SigchldWaitpid(q) PROVE Goal
  BY <1>4 DEF SigchldWaitpid, Waitable, TypeOK
<1>5. CASE UNCHANGED proc
  BY <1>5
<1> HIDE DEF Goal
<1>6. CASE Child
  BY <1>1, <1>6 DEF Child, ChildSetpgid, ChildExecs, ChildExits, ChildKilled, ChildStops,
     ChildMoves, ChildEvent
<1>7. CASE User
  BY <1>3, <1>5, <1>7 DEF User, BgfgPid, BgfgJid, ForkFails, BlankLine, Quit, SigQuit, Keyboard
<1>8. CASE MainStep
  BY <1>2, <1>5, <1>8 DEF MainStep, AddPid, AddState, Unblock, PrintLaunched, WaitfgReturns,
     BgfgLookup, BgfgCheck, BgfgWrite, BgfgCont, SendCONT
<1>9. CASE ChldStep
  BY <1>4, <1>5, <1>9 DEF ChldStep, SigchldNothing, SigchldUpdate
<1>10. CASE IntStep \/ TstpStep
  BY <1>2, <1>5, <1>10 DEF IntStep, TstpStep, SigkeyFind, SigintKill, SigtstpKill, SendKILL,
     SendTSTP
<1>11. CASE Delivery \/ UNCHANGED vars
  BY <1>5, <1>11 DEF Delivery, Deliver, vars
<1> QED BY <1>6, <1>7, <1>8, <1>9, <1>10, <1>11 DEF Next

(* The four steps that may change the job list.                            *)
LEMMA ListChanges ==
    ASSUME [Next]_vars, ~ AddPid, ~ AddState, ~ BgfgWrite, ~ SigchldUpdate
    PROVE  UNCHANGED jobs
BY DEF Next, Child, ChildSetpgid, ChildExecs, ChildExits, ChildKilled, ChildStops,
   ChildMoves, ChildEvent, User, Fork, BgfgPid, BgfgJid, ForkFails, BlankLine, Quit, SigQuit,
   Keyboard, MainStep, Unblock, PrintLaunched, WaitfgReturns, BgfgLookup, BgfgCheck, BgfgCont,
   ChldStep, SigchldNothing, SigchldWaitpid, IntStep, TstpStep, SigkeyFind, SigintKill,
   SigtstpKill, Delivery, Deliver, vars

(* deletejob follows the end of its process, so a child stays listed.      *)
LEMMA ListedStays ==
    ASSUME IndInv, IndInv', [Next]_vars, NEW p \in Pids, proc[p] # "none", Listed(p)
    PROVE  Listed(p)'
<1>1. p # 0 /\ TypeOK /\ ListedOnce
  BY JobTableAssumption DEF IndInv
<1>2. PICK s \in Slots : jobs[s].pid = p
  BY DEF Listed, slotsOfPid
<1> SUFFICES jobs'[s].pid = p
  BY <1>1 DEF Listed, slotsOfPid
<1>3. CASE AddPid
  <2>1. CASE freeSlots(jobs) = {}
    BY <1>2, <1>3, <2>1 DEF AddPid
  <2>2. CASE freeSlots(jobs) # {}
    <3>1. PICK t \in Slots : jobs[t].pid = 0 /\ jobs' = [jobs EXCEPT ![t].pid = main.pid]
      BY <1>3, <2>2 DEF AddPid, freeSlots
    <3> QED BY <1>1, <1>2, <3>1 DEF TypeOK
  <2> QED BY <2>1, <2>2
<1>4. CASE AddState
  BY <1>2, <1>4, AddStateEffect
<1>5. CASE BgfgWrite
  <2>1. main.slot \in Slots /\ StateOf(main.op) \in JobStates
    BY <1>1, <1>5 DEF BgfgWrite, MainAt, TypeOK, StateOf, JobStates
  <2> QED BY <1>1, <1>2, <1>5, <2>1, StateChange DEF BgfgWrite, TypeOK
<1>6. CASE SigchldUpdate
  <2>1. Len(stack) \in DOMAIN stack /\ Collecting(Len(stack))
    BY <1>1, <1>6, TopIsFrame DEF TypeOK, SigchldUpdate, HandlerAt, Collecting, Top
  <2>2. Top.pid = p => Top.why = "halted"
    BY <2>1 DEF IndInv, FramesHold, Top
  <2>3. CASE slotsOfPid(jobs, Top.pid) = {}
    BY <1>2, <1>6, <2>3 DEF SigchldUpdate
  <2>4. CASE slotsOfPid(jobs, Top.pid) # {} /\ Top.why = "halted"
    <3>1. PICK t \in Slots : jobs' = [jobs EXCEPT ![t].state = "ST"]
      BY <1>6, <2>4 DEF SigchldUpdate, markstopped, slotsOfPid
    <3> QED BY <1>1, <1>2, <3>1, StateChange DEF TypeOK, JobStates
  <2>5. CASE slotsOfPid(jobs, Top.pid) # {} /\ Top.why # "halted"
    <3>1. PICK t \in Slots : jobs[t].pid = Top.pid /\ jobs' = [jobs EXCEPT ![t] = Cleared]
      BY <1>6, <2>5 DEF SigchldUpdate, deletejob, slotsOfPid
    <3>2. t # s
      BY <1>2, <2>2, <2>5, <3>1
    <3> QED BY <1>1, <1>2, <3>1, <3>2 DEF TypeOK
  <2> QED BY <2>3, <2>4, <2>5
<1>7. CASE UNCHANGED jobs
  BY <1>2, <1>7
<1> QED BY <1>3, <1>4, <1>5, <1>6, <1>7, ListChanges

(* Until addjob has run, eval is where it was, or the shell is gone.       *)
LEMMA LaunchStays ==
    ASSUME TypeOK, [Next]_vars, main.pc = "addpid", Alive', ~ AddPid
    PROVE  main' = main
BY DEF Next, Child, ChildSetpgid, ChildExecs, ChildExits, ChildKilled, ChildStops,
   ChildMoves, ChildEvent, User, Fork, BgfgPid, BgfgJid, ForkFails, BlankLine, Quit, SigQuit,
   Keyboard, MainStep, AddState, Unblock, PrintLaunched, WaitfgReturns, BgfgLookup, BgfgCheck,
   BgfgWrite, BgfgCont, ChldStep, SigchldNothing, SigchldWaitpid, SigchldUpdate, IntStep,
   TstpStep, SigkeyFind, SigintKill, SigtstpKill, Delivery, Deliver, vars, MainAt, GoTo, Alive,
   TypeOK, Main, Crashed

(* Nothing revives a shell that has ended.                                 *)
LEMMA AliveBefore ==
    ASSUME TypeOK, [Next]_vars, Alive'
    PROVE  Alive
BY DEF Next, Child, ChildSetpgid, ChildExecs, ChildExits, ChildKilled, ChildStops,
   ChildMoves, ChildEvent, User, Fork, BgfgPid, BgfgJid, ForkFails, BlankLine, Quit, SigQuit,
   Keyboard, MainStep, AddPid, AddState, Unblock, PrintLaunched, WaitfgReturns, BgfgLookup,
   BgfgCheck, BgfgWrite, BgfgCont, ChldStep, SigchldNothing, SigchldWaitpid, SigchldUpdate,
   IntStep, TstpStep, SigkeyFind, SigintKill, SigtstpKill, Delivery, Deliver, vars, MainAt,
   HandlerAt, Alive

(* Every step keeps the children in the list.                              *)
LEMMA ChildrenNext ==
    ASSUME IndInv, IndInv', ChildrenAreJobs, [Next]_vars
    PROVE  ChildrenAreJobs'
<1> SUFFICES ASSUME Alive', Cardinality(Pids) <= MAXJOBS, NEW p \in Pids, proc'[p] # "none"
             PROVE  Listed(p)' \/ (main'.pc = "addpid" /\ main'.pid = p)
  BY DEF ChildrenAreJobs
<1>1. TypeOK /\ ListedOnce /\ p # 0
  BY JobTableAssumption DEF IndInv
<1>2. Alive
  BY <1>1, AliveBefore
<1>3. CASE proc[p] = "none"
  BY <1>1, <1>3, OnlyForkCreates
<1>4. CASE proc[p] # "none" /\ Listed(p)
  BY <1>4, ListedStays
<1>5. CASE proc[p] # "none" /\ ~ Listed(p)
  <2>1. main.pc = "addpid" /\ main.pid = p
    BY <1>2, <1>5 DEF ChildrenAreJobs
  <2>2. CASE AddPid
    <3>1. freeSlots(jobs) # {}
      BY <1>1, <1>5, RoomForChild
    <3>2. PICK s \in Slots : jobs' = [jobs EXCEPT ![s].pid = main.pid]
      BY <2>2, <3>1 DEF AddPid, freeSlots
    <3>3. jobs'[s].pid = p
      BY <1>1, <2>1, <3>2, PidChange DEF TypeOK
    <3> QED BY <1>1, <3>3 DEF Listed, slotsOfPid
  <2>3. CASE ~ AddPid
    BY <1>1, <2>1, <2>3, LaunchStays
  <2> QED BY <2>2, <2>3
<1> QED BY <1>3, <1>4, <1>5

(* A running or unreaped child is in the job list, from the end of eval's  *)
(* addjob on, as long as there are no more children than slots.            *)
THEOREM ChildrenListed == Spec => []ChildrenAreJobs
<1>1. Init => ChildrenAreJobs
  BY DEF Init, ChildrenAreJobs
<1>2. IndInv /\ IndInv' /\ ChildrenAreJobs /\ [Next]_vars => ChildrenAreJobs'
  BY ChildrenNext
<1> QED BY <1>1, <1>2, Inductive, PTL DEF Spec

-----------------------------------------------------------------------------
(* The shell implements JobControl: each step that changes what the list   *)
(* shows is one step of that module, and every other step is a stutter.    *)

(* What the list shows of a process that has a slot.                       *)
LEMMA ShownListed ==
    ASSUME ListedOnce, NEW s \in Slots, NEW p, p # 0, jobs[s].pid = p
    PROVE  Shown(p) = IF jobs[s].jid = 0 THEN "none" ELSE jobs[s].state
<1>1. \A t \in Slots : jobs[t].pid = p => t = s
  BY DEF ListedOnce
<1>2. (CHOOSE t \in Slots : jobs[t].pid = p) = s
  BY <1>1
<1> QED BY <1>1, <1>2 DEF Shown, Filling

(* The same after a step.                                                  *)
LEMMA ShownListedNext ==
    ASSUME ListedOnce', NEW s \in Slots, NEW p, p # 0, jobs'[s].pid = p
    PROVE  Shown(p)' = IF jobs'[s].jid = 0 THEN "none" ELSE jobs'[s].state
<1>1. \A t \in Slots : jobs'[t].pid = p => t = s
  BY DEF ListedOnce
<1>2. (CHOOSE t \in Slots : jobs'[t].pid = p) = s
  BY <1>1
<1> QED BY <1>1, <1>2 DEF Shown, Filling

(* The list shows nothing of a process without a slot.                     *)
LEMMA ShownUnlisted ==
    ASSUME NEW p, \A s \in Slots : jobs[s].pid # p
    PROVE  Shown(p) = "none"
BY DEF Shown

ShownNow == [p \in Pids |-> Shown(p)]

(* A list whose slots show the same shows the same of each process.        *)
LEMMA ShownKept ==
    ASSUME ListedOnce, ListedOnce', TypeOK, TypeOK',
           \A s \in Slots :
              \/ jobs'[s] = jobs[s]
              \/ jobs[s].pid = 0 /\ jobs'[s].pid = 0
              \/ jobs[s].pid = 0 /\ jobs'[s].jid = 0 /\ ~ Listed(jobs'[s].pid)
              \/ jobs'[s].pid = jobs[s].pid /\ jobs'[s].jid = jobs[s].jid
                 /\ (jobs[s].jid = 0 \/ jobs'[s].state = jobs[s].state)
    PROVE  ShownNow' = ShownNow
<1> SUFFICES ASSUME NEW p \in Pids PROVE Shown(p)' = Shown(p)
  BY DEF ShownNow
<1>0. p # 0
  BY JobTableAssumption
<1>1. CASE \E s \in Slots : jobs[s].pid = p
  <2>1. PICK s \in Slots : jobs[s].pid = p
    BY <1>1
  <2>2. /\ jobs'[s].pid = p /\ jobs'[s].jid = jobs[s].jid
        /\ jobs[s].jid = 0 \/ jobs'[s].state = jobs[s].state
    BY <2>1, <1>0
  <2>3. Shown(p) = IF jobs[s].jid = 0 THEN "none" ELSE jobs[s].state
    BY <2>1, <1>0, ShownListed
  <2>4. Shown(p)' = IF jobs'[s].jid = 0 THEN "none" ELSE jobs'[s].state
    BY <2>2, <1>0, ShownListedNext
  <2> QED BY <2>2, <2>3, <2>4
<1>2. CASE \A s \in Slots : jobs[s].pid # p
  <2>1. Shown(p) = "none"
    BY <1>2, ShownUnlisted
  <2>2. Shown(p)' = "none"
    BY <1>0, <1>2 DEF Shown, Filling
  <2> QED BY <2>1, <2>2
<1> QED BY <1>1, <1>2

(* One slot changes under the process p it holds: only p shows differently. *)
LEMMA ShownChanged ==
    ASSUME ListedOnce, ListedOnce', NEW s \in Slots, NEW p \in Pids, jobs[s].pid = p,
           jobs'[s].pid \in {p, 0},
           \A t \in Slots \ {s} : jobs'[t] = jobs[t]
    PROVE  /\ ShownNow[p] = IF jobs[s].jid = 0 THEN "none" ELSE jobs[s].state
           /\ ShownNow' = [ShownNow EXCEPT ![p] =
                 IF jobs'[s].pid = 0 \/ jobs'[s].jid = 0 THEN "none" ELSE jobs'[s].state]
<1>0. 0 \notin Pids
  BY JobTableAssumption
<1>1. ShownNow[p] = IF jobs[s].jid = 0 THEN "none" ELSE jobs[s].state
  BY <1>0, ShownListed DEF ShownNow
<1>2. Shown(p)' = IF jobs'[s].pid = 0 \/ jobs'[s].jid = 0 THEN "none" ELSE jobs'[s].state
  <2>1. CASE jobs'[s].pid = p
    BY <1>0, <2>1, ShownListedNext
  <2>2. CASE jobs'[s].pid = 0
    <3>1. \A t \in Slots : jobs'[t].pid # p
      BY <1>0, <2>2 DEF ListedOnce
    <3> QED BY <3>1, <2>2 DEF Shown
  <2> QED BY <2>1, <2>2
<1>3. ASSUME NEW q \in Pids, q # p PROVE Shown(q)' = Shown(q)
  <2>1. CASE \E t \in Slots : jobs[t].pid = q
    <3>1. PICK t \in Slots : jobs[t].pid = q /\ t # s
      BY <1>3, <2>1
    <3>2. jobs'[t] = jobs[t]
      BY <3>1
    <3> QED BY <1>0, <1>3, <3>1, <3>2, ShownListed, ShownListedNext
  <2>2. CASE \A t \in Slots : jobs[t].pid # q
    <3>1. \A t \in Slots : jobs'[t].pid # q
      BY <1>0, <1>3, <2>2
    <3> QED BY <2>2, <3>1 DEF Shown
  <2> QED BY <2>1, <2>2
<1> QED BY <1>1, <1>2, <1>3 DEF ShownNow

(* When main waits for nothing, no job is shown in the foreground.         *)
LEMMA NoForeground ==
    ASSUME IndInv, Alive, main.pc \notin {"unblock", "waitfg", "cont"}
    PROVE  \A q \in Pids : ShownNow[q] # "FG"
<1> SUFFICES ASSUME NEW q \in Pids, Shown(q) = "FG" PROVE FALSE
  BY DEF ShownNow
<1>1. PICK s \in Slots : jobs[s].pid = q
  BY DEF Shown
<1>2. q # 0
  BY JobTableAssumption
<1>3. jobs[s].jid # 0 /\ jobs[s].state = "FG"
  BY <1>1, <1>2, ShownListed DEF IndInv
<1> QED BY <1>1, <1>2, <1>3 DEF IndInv, ForegroundOwnsLaunch, Filling

(* Each step is a step of JobControl, or changes nothing it shows.         *)
LEMMA RefinesStep ==
    ASSUME IndInv, IndInv', [Next]_vars
    PROVE  [JC!Next]_ShownNow
<1> DEFINE Goal == JC!Next \/ ShownNow' = ShownNow
<1> SUFFICES Goal
  OBVIOUS
<1>1. ListedOnce /\ ListedOnce' /\ TypeOK /\ TypeOK'
  BY DEF IndInv
<1>2. ASSUME UNCHANGED jobs PROVE Goal
  BY <1>1, <1>2, ShownKept
<1>3. CASE AddPid
  <2>1. main.pid \in Pids /\ ~ Listed(main.pid)
    BY <1>3 DEF AddPid, MainAt, IndInv, LaunchShielded
  <2>2. CASE freeSlots(jobs) = {}
    BY <1>2, <1>3, <2>2 DEF AddPid
  <2>3. CASE freeSlots(jobs) # {}
    <3>1. PICK s \in Slots : /\ jobs[s].pid = 0
                             /\ jobs' = [jobs EXCEPT ![s].pid = main.pid]
      BY <1>3, <2>3 DEF AddPid, freeSlots
    <3>2. /\ jobs'[s].pid = main.pid /\ jobs'[s].jid = 0
          /\ \A t \in Slots \ {s} : jobs'[t] = jobs[t]
      BY <3>1, <2>1, <1>1, PidChange DEF IndInv, TypeOK, SlotsNamed
    <3> QED BY <1>1, <2>1, <3>1, <3>2, ShownKept
  <2> QED BY <2>2, <2>3
<1>4. CASE AddState
  <2> DEFINE s == main.slot
             p == main.pid
  <2>1. /\ s \in Slots /\ p \in Pids /\ jobs[s].pid = p /\ Alive /\ main.pc = "addstate"
        /\ nextjid # 0 /\ jobs[s].jid = 0 /\ StateOf(main.op) \in {"FG", "BG"}
    BY <1>4, AddStateEffect
  <2>3. /\ jobs'[s].pid = p /\ jobs'[s].jid = nextjid /\ jobs'[s].state = StateOf(main.op)
        /\ \A t \in Slots \ {s} : jobs'[t] = jobs[t]
    BY <1>4, AddStateEffect
  <2> HIDE DEF s, p
  <2>4. ShownNow' = [ShownNow EXCEPT ![p] = StateOf(main.op)]
    BY <1>1, <2>1, <2>3, ShownChanged, JobTableAssumption
  <2>5. \A q \in Pids : ShownNow[q] # "FG"
    BY <2>1, NoForeground
  <2>6. ShownNow[p] = "none"
    BY <1>1, <2>1, <2>3, ShownChanged
  <2>7. JC!LaunchFG(p) \/ JC!LaunchBG(p)
    BY <2>1, <2>4, <2>5, <2>6 DEF JC!LaunchFG, JC!LaunchBG, JC!TerminalFree, JC!Become,
       ShownNow
  <2> QED BY <2>1, <2>7 DEF JC!Next
<1>5. CASE BgfgWrite
  <2> DEFINE s == main.slot
             p == jobs[s].pid
  <2>1. /\ s \in Slots /\ Alive /\ main.pc = "write" /\ main.op \in {"fg", "bg"}
    BY <1>5 DEF BgfgWrite, MainAt, IndInv, TypeOK, Main
  <2>2. StateOf(main.op) \in JobStates
    BY DEF StateOf, JobStates
  <2>3. /\ jobs'[s].pid = p /\ jobs'[s].jid = jobs[s].jid /\ jobs'[s].state = StateOf(main.op)
        /\ \A t \in Slots \ {s} : jobs'[t] = jobs[t]
    BY <1>1, <1>5, <2>1, <2>2, StateChange DEF BgfgWrite, TypeOK
  <2> HIDE DEF s
  <2>4. CASE p = 0
    BY <1>1, <2>1, <2>3, <2>4, ShownKept
  <2>5. CASE p # 0
    <3>1. p \in Pids /\ jobs[s].state \in {"BG", "ST"} /\ jobs[s].jid # 0
      BY <2>1, <2>5, <1>1 DEF IndInv, TypeOK, Job, JobStates, SlotsNamed, Filling,
         ForegroundOwnsLaunch
    <3>2. /\ ShownNow[p] = jobs[s].state
          /\ ShownNow' = [ShownNow EXCEPT ![p] = StateOf(main.op)]
      BY <1>1, <2>1, <2>3, <2>5, <3>1, ShownChanged
    <3>3. \A q \in Pids : ShownNow[q] # "FG"
      BY <2>1, NoForeground
    <3> HIDE DEF p
    <3>4. CASE main.op = "fg"
      <4>1. JC!Foreground(p)
        BY <3>1, <3>2, <3>3, <3>4 DEF JC!Foreground, JC!TerminalFree, JC!Become, StateOf, ShownNow
      <4> QED BY <3>1, <4>1 DEF JC!Next
    <3>5. CASE main.op = "bg" /\ jobs[s].state = "ST"
      <4>1. JC!Background(p)
        BY <3>1, <3>2, <3>5 DEF JC!Background, JC!Become, StateOf, ShownNow
      <4> QED BY <3>1, <4>1 DEF JC!Next
    <3>6. CASE main.op = "bg" /\ jobs[s].state = "BG"
      BY <3>1, <3>2, <3>6 DEF StateOf, ShownNow
    <3> QED BY <2>1, <3>1, <3>4, <3>5, <3>6
  <2> QED BY <2>4, <2>5
<1>6. CASE SigchldUpdate
  <2> DEFINE p == Top.pid
  <2>1. Len(stack) \in DOMAIN stack /\ Collecting(Len(stack)) /\ Alive
    BY <1>1, <1>6, TopIsFrame DEF TypeOK, SigchldUpdate, HandlerAt, Collecting, Top
  <2>2. p \in Pids /\ p # 0
    BY <2>1, JobTableAssumption DEF IndInv, FramesHold, Top
  <2>3. \A t \in Slots :
           \/ jobs'[t] = jobs[t] /\ jobs[t].pid # p
           \/ /\ jobs[t].pid = p /\ jobs'[t].pid = p /\ jobs'[t].jid = jobs[t].jid
              /\ jobs'[t].state = "ST"
           \/ jobs'[t] = Cleared
    BY <1>6, UpdateEffect
  <2> HIDE DEF p
  <2>4. CASE \A t \in Slots : jobs[t].pid # p
    <3>1. \A t \in Slots : jobs'[t] = jobs[t] \/ (jobs[t].pid = 0 /\ jobs'[t].pid = 0)
      BY <1>6, <2>4 DEF SigchldUpdate, slotsOfPid, p
    <3> QED BY <1>1, <3>1, ShownKept
  <2>5. CASE \E s \in Slots : jobs[s].pid = p
    <3>1. PICK s \in Slots : jobs[s].pid = p
      BY <2>5
    <3>2. jobs[s].jid # 0
      BY <2>1, <2>2, <3>1 DEF IndInv, SlotsNamed, Filling, LaunchShielded, Handling, Collecting
    <3>3. jobs[s].state \in {"FG", "BG", "ST"}
      BY <1>1, <3>1, <3>2 DEF IndInv, TypeOK, Job, JobStates, SlotsNamed
    <3>4. \A t \in Slots \ {s} : jobs'[t] = jobs[t]
      <4>1. CASE slotsOfPid(jobs, p) # {} /\ Top.why = "halted"
        <5>1. PICK t \in Slots : jobs[t].pid = p /\ jobs' = [jobs EXCEPT ![t].state = "ST"]
          BY <1>6, <4>1 DEF SigchldUpdate, markstopped, slotsOfPid, p
        <5>2. t = s
          BY <1>1, <2>2, <3>1, <5>1 DEF ListedOnce
        <5> QED BY <1>1, <5>1, <5>2, StateChange DEF TypeOK, JobStates
      <4>2. CASE slotsOfPid(jobs, p) # {} /\ Top.why # "halted"
        <5>1. deletejob(jobs, p, jobs', nextjid')
          BY <1>6, <4>2 DEF SigchldUpdate, p
        <5>2. PICK t \in slotsOfPid(jobs, p) : jobs' = [jobs EXCEPT ![t] = Cleared]
          BY <5>1 DEF deletejob
        <5>3. t = s
          BY <1>1, <2>2, <3>1 DEF ListedOnce, slotsOfPid
        <5> QED BY <1>1, <5>2, <5>3 DEF TypeOK
      <4> QED BY <2>2, <3>1, <4>1, <4>2 DEF slotsOfPid
    <3>5. jobs'[s].pid = 0 \/ (jobs'[s].pid = p /\ jobs'[s].jid = jobs[s].jid /\ jobs'[s].state = "ST")
      BY <2>3, <3>1 DEF Cleared
    <3>6. ShownNow[p] = jobs[s].state
      BY <1>1, <2>2, <3>1, <3>2, <3>4, <3>5, ShownChanged
    <3>7. CASE jobs'[s].pid = 0
      <4>1. ShownNow' = [ShownNow EXCEPT ![p] = "none"]
        BY <1>1, <2>2, <3>1, <3>4, <3>7, ShownChanged
      <4>2. JC!Finish(p)
        BY <2>2, <3>3, <3>6, <4>1 DEF JC!Finish, JC!Become, ShownNow
      <4> QED BY <2>2, <4>2 DEF JC!Next
    <3>8. CASE jobs'[s].pid = p /\ jobs'[s].jid = jobs[s].jid /\ jobs'[s].state = "ST"
      <4>1. ShownNow' = [ShownNow EXCEPT ![p] = "ST"]
        BY <1>1, <2>2, <3>1, <3>2, <3>4, <3>8, ShownChanged
      <4>2. CASE jobs[s].state = "ST"
        BY <2>2, <3>6, <4>1, <4>2 DEF ShownNow
      <4>3. CASE jobs[s].state # "ST"
        <5>1. JC!Suspend(p)
          BY <2>2, <3>3, <3>6, <4>1, <4>3 DEF JC!Suspend, JC!Become, ShownNow
        <5> QED BY <2>2, <5>1 DEF JC!Next
      <4> QED BY <4>2, <4>3
    <3> QED BY <3>5, <3>7, <3>8
  <2> QED BY <2>4, <2>5
<1> QED BY <1>2, <1>3, <1>4, <1>5, <1>6, ListChanges

(* Whatever the interleaving, the job list shows job control as JobControl *)
(* promises it: one foreground job, and only that module's transitions.    *)
THEOREM Refinement == Spec => RefinesJobControl
<1>1. Init => JC!Init
  <2> SUFFICES ASSUME Init PROVE \A p \in Pids : Shown(p) = "none"
    BY DEF JC!Init
  <2>1. \A s \in Slots : jobs[s].pid = 0
    BY DEF Init, initjobs, Cleared
  <2> QED BY <2>1, JobTableAssumption DEF Shown
<1>2. IndInv /\ IndInv' /\ [Next]_vars => [JC!Next]_ShownNow
  BY RefinesStep
<1> QED BY <1>1, <1>2, Inductive, PTL DEF Spec, JC!Spec, RefinesJobControl, ShownNow

=============================================================================
