-------------------------------- MODULE Command --------------------------------
(***************************************************************************)
(* runCommand, which runs every command that the provider uses, and its    *)
(* callers sysutils_exec and the ephemeral resource of that name.  The     *)
(* command is a child in a process group of its own, and may start one     *)
(* process in the background.  Two goroutines report that the output has   *)
(* ended and that the child has exited; the caller selects among these, a  *)
(* timeout, a cancelled context, and a delay that output may stay open     *)
(* after the child.  A configuration is [argv, destroy, timeout, fail]: a  *)
(* change of argv replaces the resource; a state is the configuration with *)
(* the result of the run.                                                  *)
(***************************************************************************)
EXTENDS Lifecycle, TLAPS

CONSTANTS Cap,           \* max_output_bytes, in writes
          MaxWrites      \* bound on writes of the command

Options ==
    {o \in [argv : 1..2, destroy : BOOLEAN, timeout : BOOLEAN, fail : BOOLEAN] :
       /\ o.timeout \/ (o.fail /\ o.destroy)
       /\ o.destroy \/ o.fail
       /\ o.argv = 2 => o.destroy /\ o.timeout /\ o.fail}

VARIABLES proc,          \* the child, and the one in the background: none, runs, doomed or gone
          holds,         \* who has the output open
          escaped,       \* the one in the background has left the group (setsid)
          status,        \* how the child exited
          reaped, reused,      \* the child is reaped; its process ID is another's
          written, copied,     \* output, and what of it is read
          outputDone, childExited, \* the channels are closed
          sawOutput, sawExit,  \* the caller has received from them
          deadline, grace,     \* the two timers: none, runs or over
          cancelled, killed, stuck,
          opened         \* what the ephemeral resource was given last

processes == <<proc, holds, escaped, status, written>>
channels == <<copied, outputDone, childExited>>
waiting == <<sawOutput, sawExit, grace, killed, stuck>>
vars == <<lifecycle, processes, reaped, reused, channels, waiting, deadline, cancelled, opened>>

Processes == {"child", "background"}
Alive(p) == proc[p] \in {"runs", "doomed"}
InGroup(p) == p = "child" \/ ~escaped

Init ==
    /\ LifecycleInit /\ opened = Null
    /\ proc = [p \in Processes |-> "none"] /\ holds = {} /\ escaped = FALSE /\ status = Null
    /\ reaped = FALSE /\ reused = FALSE /\ written = 0 /\ copied = 0
    /\ outputDone = FALSE /\ childExited = FALSE /\ sawOutput = FALSE /\ sawExit = FALSE
    /\ deadline = "none" /\ grace = "none" /\ cancelled = FALSE /\ killed = FALSE /\ stuck = FALSE

Configure ==
    /\ Configured(Options)
    /\ UNCHANGED <<processes, reaped, reused, channels, waiting, deadline, cancelled, opened>>
-------------------------------------------------------------------------------
\* A command begins, with its output open, unless it cannot be started.
Start(c) ==
    /\ proc' = [proc EXCEPT !["child"] = "runs"] /\ holds' = {"child"}
    /\ deadline' = IF c.timeout THEN "runs" ELSE "none"
    /\ UNCHANGED <<escaped, status, written, reaped, reused, channels, waiting, cancelled>>
    /\ opened' = Null
\* runCommand has returned.  (What it has left running is not followed.)
Returned ==
    /\ proc' = [p \in Processes |-> "none"] /\ holds' = {} /\ escaped' = FALSE /\ status' = Null
    /\ reaped' = FALSE /\ reused' = FALSE /\ written' = 0 /\ copied' = 0
    /\ outputDone' = FALSE /\ childExited' = FALSE /\ sawOutput' = FALSE /\ sawExit' = FALSE
    /\ deadline' = "none" /\ grace' = "none" /\ cancelled' = FALSE /\ killed' = FALSE /\ stuck' = FALSE
NotStarted == UNCHANGED <<processes, reaped, reused, channels, waiting, deadline, cancelled, opened>>
Runs(o, p) ==
    \/ Begin(o, "wait", p, FALSE) /\ Start(p)
    \/ faults < MaxFaults /\ Begin(o, "missing", p, FALSE) /\ NotStarted

Replaced == config # Null /\ state # Null /\ config.argv # state.asked.argv
BeginCreate == state = Null /\ config # Null /\ Runs("create", config)
\* Only the timeout and the command to destroy with: nothing runs.
Update ==
    /\ Idle /\ state # Null /\ config # Null /\ config # state.asked /\ ~Replaced
    /\ state' = [state EXCEPT !.asked = config] /\ done' = TRUE
    /\ UNCHANGED <<config, tainted, running, raced, lost, bounds>> /\ NotStarted
BeginDelete ==
    /\ state # Null /\ (config = Null \/ Replaced) /\ state.asked.destroy
    /\ Runs("delete", state.asked)
Forget ==
    /\ Idle /\ state # Null /\ (config = Null \/ Replaced) /\ ~state.asked.destroy
    /\ Succeeded(Null) /\ NotStarted
\* The ephemeral resource always has a timeout.  (It is a resource of its own,
\* followed as long as there is no state of the other.)
Open == state = Null /\ config # Null /\ Runs("open", [config EXCEPT !.timeout = TRUE])
-------------------------------------------------------------------------------
(* The command. *)

Unseen == UNCHANGED <<lifecycle, reaped, reused, channels, waiting, deadline, cancelled, opened>>

Fork ==
    /\ proc["child"] = "runs" /\ proc["background"] = "none"
    /\ proc' = [proc EXCEPT !["background"] = "runs"] /\ escaped' \in BOOLEAN
    /\ holds' \in {holds} \cup {holds \cup {"background"} : p \in holds}
    /\ UNCHANGED <<status, written>> /\ Unseen
Write(p) ==
    /\ proc[p] = "runs" /\ p \in holds /\ written < MaxWrites /\ written' = written + 1
    /\ UNCHANGED <<proc, holds, escaped, status>> /\ Unseen
CloseOutput(p) ==
    /\ proc[p] = "runs" /\ p \in holds /\ holds' = holds \ {p}
    /\ UNCHANGED <<proc, escaped, status, written>> /\ Unseen
Exits(p, how) ==
    /\ proc' = [proc EXCEPT ![p] = "gone"] /\ holds' = holds \ {p}
    /\ status' = IF p = "child" THEN how ELSE status
    /\ UNCHANGED <<escaped, written>> /\ Unseen
Exit(p) == proc[p] = "runs" /\ \E how \in {"zero", "nonzero"} : Exits(p, how)
Dies(p) == proc[p] = "doomed" /\ Exits(p, "killed")

\* A process ID is free when its process is reaped and nobody is in its group.
Reuse ==
    /\ reaped /\ ~reused /\ ~\E p \in Processes : Alive(p) /\ InGroup(p)
    /\ reused' = TRUE
    /\ UNCHANGED <<lifecycle, processes, reaped, channels, waiting, deadline, cancelled, opened>>
-------------------------------------------------------------------------------
(* The goroutines and the timers. *)

Copy ==
    /\ ~Idle /\ ~outputDone /\ copied < written /\ copied' = copied + 1
    /\ UNCHANGED <<lifecycle, processes, reaped, reused, outputDone, childExited, waiting, deadline, cancelled, opened>>
OutputEnds ==
    /\ ~Idle /\ ~outputDone /\ copied = written /\ holds = {} /\ outputDone' = TRUE
    /\ UNCHANGED <<lifecycle, processes, reaped, reused, copied, childExited, waiting, deadline, cancelled, opened>>
\* A bug: the child is reaped as soon as it has exited, as os/exec does it.
ChildExitsReaped ==
    /\ ~Idle /\ ~childExited /\ proc["child"] = "gone" /\ childExited' = TRUE /\ reaped' = TRUE
    /\ UNCHANGED <<lifecycle, processes, reused, copied, outputDone, waiting, deadline, cancelled, opened>>
\* waitExitedNoReap
ChildExits ==
    /\ ~Idle /\ ~childExited /\ proc["child"] = "gone" /\ childExited' = TRUE
    /\ UNCHANGED <<lifecycle, processes, reaped, reused, copied, outputDone, waiting, deadline, cancelled, opened>>

DeadlinePasses ==
    /\ ~Idle /\ deadline = "runs" /\ deadline' = "over"
    /\ UNCHANGED <<lifecycle, processes, reaped, reused, channels, waiting, cancelled, opened>>
GracePasses ==
    /\ ~Idle /\ grace = "runs" /\ grace' = "over"
    /\ UNCHANGED <<lifecycle, processes, reaped, reused, channels, sawOutput, sawExit, killed, stuck, deadline, cancelled, opened>>
\* Terraform is interrupted.
Cancel ==
    /\ ~Idle /\ ~cancelled /\ faults < MaxFaults /\ cancelled' = TRUE /\ faults' = faults + 1
    /\ UNCHANGED <<resource, running, done, raced, lost, configs, foreign>>
    /\ UNCHANGED <<processes, reaped, reused, channels, waiting, deadline, opened>>
-------------------------------------------------------------------------------
(* The caller. *)

Quiet == UNCHANGED <<processes, reaped, reused, copied, childExited, deadline, cancelled, opened>>
Wait == pc = "wait" /\ ~(sawOutput /\ sawExit)

SeeOutput ==
    /\ Wait /\ outputDone /\ ~sawOutput /\ sawOutput' = TRUE
    /\ Goto("wait") /\ UNCHANGED <<outputDone, sawExit, grace, killed, stuck>> /\ Quiet
SeeExit ==
    /\ Wait /\ childExited /\ ~sawExit /\ sawExit' = TRUE
    /\ grace' = IF sawOutput THEN grace ELSE "runs"
    /\ Goto("wait") /\ UNCHANGED <<outputDone, sawOutput, killed, stuck>> /\ Quiet
GiveUp ==
    /\ Wait /\ grace = "over" /\ stuck' = TRUE
    /\ Goto("close") /\ UNCHANGED <<outputDone, sawOutput, sawExit, grace, killed>> /\ Quiet

\* A bug: only the child is killed.
SignalledChild == [proc EXCEPT !["child"] = IF @ = "runs" THEN "doomed" ELSE @]
Signalled == [p \in Processes |-> IF proc[p] = "runs" /\ InGroup(p) THEN "doomed" ELSE proc[p]]

\* What completed just as the deadline passed is not killed.
Expired == Wait /\ (deadline = "over" \/ cancelled)
Complete ==
    /\ Expired /\ outputDone /\ childExited
    /\ Goto("close") /\ UNCHANGED <<outputDone, waiting>> /\ Quiet
KillGroup ==
    /\ Expired /\ ~(outputDone /\ childExited) /\ killed' = TRUE /\ proc' = Signalled
    /\ Goto("drain") /\ UNCHANGED <<sawOutput, sawExit, grace, stuck>>
    /\ UNCHANGED <<holds, escaped, status, written, reaped, reused, channels, deadline, cancelled, opened>>
\* The processes of the group are those of another user.
KillRefused ==
    /\ Expired /\ ~(outputDone /\ childExited) /\ faults < MaxFaults /\ faults' = faults + 1
    /\ pc' = "missing" /\ UNCHANGED <<resource, op, plan, done, raced, lost, configs, foreign>>
    /\ outputDone' = TRUE /\ UNCHANGED waiting /\ Quiet

\* A process that has left the group may keep the output open.
\* A bug: the output is waited for.
DrainedFully ==
    /\ pc = "drain" /\ outputDone
    /\ Goto("close") /\ UNCHANGED <<outputDone, waiting>> /\ Quiet
Drained ==
    /\ pc = "drain"
    /\ Goto("close") /\ UNCHANGED <<outputDone, waiting>> /\ Quiet

\* A bug: the command is done when the child is.
FinishedEarly == pc = "close" \/ (pc = "wait" /\ sawExit)
Finished == pc = "close" \/ (pc = "wait" /\ sawOutput /\ sawExit)
\* The readers end when their pipes are closed.
CloseRead ==
    /\ Finished /\ outputDone' = TRUE
    /\ Goto("reap") /\ UNCHANGED waiting /\ Quiet
Reap ==
    /\ pc = "reap" /\ proc["child"] = "gone" /\ reaped' = TRUE
    /\ Goto("end") /\ UNCHANGED <<processes, reused, channels, waiting, deadline, cancelled, opened>>
-------------------------------------------------------------------------------
(* The callers. *)

Outcome ==
    CASE killed /\ cancelled -> "interrupted" [] killed /\ ~cancelled -> "timed out"
      [] ~killed /\ stuck -> "stuck" [] OTHER -> status
Output == [shown |-> IF copied > Cap THEN Cap ELSE copied, total |-> copied]
Truncated == Output.total > Output.shown
Accepted == Outcome = "zero" \/ (Outcome = "nonzero" /\ ~plan.fail)

Result == [asked |-> plan, status |-> Outcome]
Succeeds ==
    /\ pc = "end" /\ Accepted
    /\ \/ op = "create" /\ Succeeded(Result) /\ UNCHANGED opened
       \/ op = "delete" /\ Succeeded(Null) /\ UNCHANGED opened
       \/ op = "open" /\ ~Truncated /\ Succeeded(state) /\ opened' = Output
    /\ Returned
Fails ==
    /\ \/ pc = "end" /\ (~Accepted \/ (op = "open" /\ Truncated))
       \/ pc = "missing"
    /\ Failed(Null) /\ UNCHANGED opened /\ Returned
Kill == Killed /\ UNCHANGED opened /\ Returned

Caller ==
    \/ SeeOutput \/ SeeExit \/ GiveUp \/ Complete \/ KillGroup \/ KillRefused
    \/ Drained \/ CloseRead \/ Reap \/ Succeeds \/ Fails
Next ==
    \/ Configure \/ BeginCreate \/ Update \/ BeginDelete \/ Forget \/ Open
    \/ Fork \/ Reuse \/ \E p \in Processes : Write(p) \/ CloseOutput(p) \/ Exit(p) \/ Dies(p)
    \/ Copy \/ OutputEnds \/ ChildExits \/ DeadlinePasses \/ GracePasses \/ Cancel
    \/ Caller \/ Kill

\* The Go runtime runs what is ready, timers go off, and who got a SIGKILL
\* dies.  Nothing is said of how long a command runs or holds its output.
Fairness ==
    /\ WF_vars(Caller) /\ WF_vars(Copy) /\ WF_vars(OutputEnds) /\ WF_vars(ChildExits)
    /\ WF_vars(DeadlinePasses) /\ WF_vars(GracePasses) /\ \A p \in Processes : WF_vars(Dies(p))
Spec == Init /\ [][Next]_vars /\ Fairness
-------------------------------------------------------------------------------
\* Who kills, kills the group: the number is not another's by now, and when
\* the caller learns of a timeout or an interruption nobody in the group goes
\* on, whether the child or a process that it had started before it exited.
GroupKilled ==
    /\ (pc = "wait" /\ ~killed) => ~reused
    /\ (pc = "end" /\ Outcome \in {"timed out", "interrupted"}) =>
         \A p \in Processes : proc[p] = "runs" => ~InGroup(p)

\* What is recorded or handed out is the result of a run that came to its end
\* by itself: everybody closed the output, all of which was read, and the exit
\* status is one that the configuration allows.  A state is only given up
\* after such a run of the command to destroy with.
Truthful ==
    [][LET own == /\ status \in {"zero", "nonzero"} /\ (status = "nonzero" => ~plan.fail)
                  /\ holds = {} /\ copied = written
       IN  /\ (op = "create" /\ state' # state) => own /\ state'.status = status
           /\ opened' \notin {opened, Null} => own /\ opened'.shown = written
           /\ (state # Null /\ state' = Null /\ state.asked.destroy) => own]_vars

\* With a timeout, when Terraform is interrupted, and once the child has
\* exited, an operation ends, whoever keeps the output open.
Returns ==
    (~Idle /\ (deadline # "none" \/ cancelled \/ proc["child"] = "gone")) ~> Idle
-------------------------------------------------------------------------------
(* A proof of GroupKilled, for any output and any number of faults.        *)

\* The child is reaped last, only a reaped process's number is another's, and
\* nobody joins the group once it is killed, as the child is doomed with it.
GroupInv ==
    /\ proc \in [Processes -> {"none", "runs", "doomed", "gone"}]
    /\ proc["child"] = "gone" => status \in {"zero", "nonzero", "killed"}
    /\ reused => reaped
    /\ reaped => pc = "end"
    /\ pc = "end" => proc["child"] = "gone"
    /\ Idle => ~killed
    /\ killed => \A p \in Processes : proc[p] = "runs" => ~InGroup(p)

LEMMA GroupInit == Init => GroupInv
BY DEF Init, LifecycleInit, GroupInv, Processes, Idle

\* What happens outside of runCommand, its start and its end.
LEMMA GroupAround ==
  ASSUME GroupInv,
         Configure \/ BeginCreate \/ Update \/ BeginDelete \/ Forget \/ Open
           \/ Succeeds \/ Fails \/ Kill
  PROVE  GroupInv'
<1> USE DEF GroupInv, Processes, Idle, InGroup
<1>a. ASSUME NotStarted, killed' = killed, pc' = pc \/ (pc = "idle" /\ pc' # "end") PROVE GroupInv'
  BY <1>a DEF NotStarted, processes, waiting
<1>b. ASSUME NEW o, NEW c, Runs(o, c) PROVE GroupInv'
  <2>1. CASE Begin(o, "wait", c, FALSE) /\ Start(c)
    BY <2>1 DEF Begin, Start, channels, waiting
  <2>2. CASE Begin(o, "missing", c, FALSE) /\ NotStarted
    BY <2>2, <1>a DEF Begin, NotStarted, waiting
  <2>. QED BY <1>b, <2>1, <2>2 DEF Runs
<1>c. ASSUME Returned, pc' = "idle" PROVE GroupInv'
  BY <1>c DEF Returned
<1>1. CASE Configure
  BY <1>1, <1>a DEF Configure, Configured, running, NotStarted, waiting
<1>2. CASE BeginCreate \/ BeginDelete \/ Open
  BY <1>2, <1>b DEF BeginCreate, BeginDelete, Open
<1>3. CASE Update
  BY <1>3, <1>a DEF Update, running, NotStarted, waiting
<1>4. CASE Forget
  BY <1>4, <1>a DEF Forget, Succeeded, NotStarted, waiting
<1>5. CASE Succeeds \/ Fails \/ Kill
  BY <1>5, <1>c DEF Succeeds, Fails, Kill, Succeeded, Failed, Killed
<1>. QED BY <1>1, <1>2, <1>3, <1>4, <1>5

\* The command and the kernel.
LEMMA GroupCommand ==
  ASSUME GroupInv, NEW p \in Processes,
         Fork \/ Write(p) \/ CloseOutput(p) \/ Exit(p) \/ Dies(p) \/ Reuse
  PROVE  GroupInv'
<1> USE DEF GroupInv, Processes, Idle, InGroup, Unseen, lifecycle, running, channels, waiting
<1>1. CASE Fork
  BY <1>1 DEF Fork
<1>2. CASE Write(p) \/ CloseOutput(p)
  BY <1>2 DEF Write, CloseOutput
<1>3. CASE Exit(p) \/ Dies(p)
  BY <1>3 DEF Exit, Dies, Exits
<1>4. CASE Reuse
  BY <1>4 DEF Reuse, processes
<1>. QED BY <1>1, <1>2, <1>3, <1>4

\* The goroutines, the timers and the caller.
LEMMA GroupCaller ==
  ASSUME GroupInv,
         Copy \/ OutputEnds \/ ChildExits \/ DeadlinePasses \/ GracePasses \/ Cancel
           \/ SeeOutput \/ SeeExit \/ GiveUp \/ Complete \/ KillGroup \/ KillRefused
           \/ Drained \/ CloseRead \/ Reap
  PROVE  GroupInv'
<1> USE DEF GroupInv, Processes, Idle, InGroup, processes, waiting
<1>1. CASE Copy \/ OutputEnds \/ ChildExits \/ DeadlinePasses \/ GracePasses
  BY <1>1 DEF Copy, OutputEnds, ChildExits, DeadlinePasses, GracePasses, lifecycle, running
<1>2. CASE Cancel
  BY <1>2 DEF Cancel, running
<1>3. CASE SeeOutput \/ SeeExit \/ GiveUp
  BY <1>3 DEF SeeOutput, SeeExit, GiveUp, Goto, Wait, Quiet
<1>4. CASE KillGroup
  <2>1. proc' = Signalled /\ pc = "wait" /\ pc' = "drain"
    BY <1>4 DEF KillGroup, Goto, Expired, Wait
  <2>2. UNCHANGED <<escaped, status, reaped, reused>>
    BY <1>4 DEF KillGroup
  <2>. QED BY <2>1, <2>2 DEF Signalled
<1>5. CASE Complete \/ KillRefused \/ Drained \/ CloseRead
  BY <1>5 DEF Complete, KillRefused, Drained, CloseRead, Finished, Goto, Expired, Wait, Quiet
<1>6. CASE Reap
  BY <1>6 DEF Reap, Goto
<1>. QED BY <1>1, <1>2, <1>3, <1>4, <1>5, <1>6

LEMMA GroupStep == GroupInv /\ [Next]_vars => GroupInv'
<1> SUFFICES ASSUME GroupInv, [Next]_vars PROVE GroupInv'
  OBVIOUS
<1>1. CASE Next
  BY <1>1, GroupAround, GroupCommand, GroupCaller DEF Next, Caller, Processes
<1>2. CASE UNCHANGED vars
  BY <1>2 DEF vars, lifecycle, running, processes, waiting, GroupInv, Idle, InGroup
<1>. QED BY <1>1, <1>2

\* Whatever the command does and whoever interrupts it, the group is killed as
\* a whole and before its number can be another's.
THEOREM GroupIsKilled == Spec => []GroupKilled
<1>1. GroupInv => GroupKilled
  <2> SUFFICES ASSUME GroupInv PROVE GroupKilled
    OBVIOUS
  <2>1. pc = "end" /\ Outcome \in {"timed out", "interrupted"} => killed
    BY DEF GroupInv, Outcome
  <2>. QED BY <2>1 DEF GroupInv, GroupKilled
<1>. QED BY <1>1, GroupInit, GroupStep, PTL DEF Spec
-------------------------------------------------------------------------------
(* A proof of Truthful, for any number of writes and any limit of output.  *)

Configurations == [argv : 1..2, destroy : BOOLEAN, timeout : BOOLEAN, fail : BOOLEAN]
Outcomes == {"zero", "nonzero", "killed", "timed out", "interrupted", "stuck"}
Results == [asked : Configurations, status : Outcomes]

ASSUME CommandAssumption ==
    /\ Cap \in Nat /\ MaxWrites \in Nat
    /\ Null \notin Configurations \cup Results

TruthTypes ==
    /\ config \in Configurations \cup {Null} /\ state \in Results \cup {Null}
    /\ IF Idle THEN op = "none" ELSE plan \in Configurations
    /\ proc \in [Processes -> {"none", "runs", "doomed", "gone"}] /\ holds \subseteq Processes
    /\ written \in Nat /\ copied \in Nat

\* The output is all read and nobody can write any more.
AllRead == holds = {} /\ copied = written

\* As long as the caller waits, or drains, the channels are closed by their
\* goroutines only, and it is closed by itself when it is done without a kill
\* and without a delay that has passed.
TruthInv ==
    /\ TruthTypes
    /\ proc["child"] = "gone" => status \in {"zero", "nonzero", "killed"}
    /\ Idle => ~(outputDone \/ childExited \/ sawOutput \/ sawExit)
    /\ sawOutput => outputDone
    /\ sawExit => childExited
    /\ childExited => proc["child"] = "gone"
    /\ pc \in {"wait", "drain"} /\ outputDone => AllRead
    /\ pc \in {"close", "reap", "end"} /\ ~killed /\ ~stuck => AllRead /\ proc["child"] = "gone"
    /\ pc = "drain" => killed

LEMMA TruthInit == Init => TruthInv
BY CommandAssumption DEF Init, LifecycleInit, TruthInv, TruthTypes, Processes, Idle, AllRead

\* Nothing runs when an operation begins, ends or does without a command.
LEMMA TruthAround ==
  ASSUME TruthInv,
         Configure \/ BeginCreate \/ Update \/ BeginDelete \/ Forget \/ Open
           \/ Succeeds \/ Fails \/ Kill
  PROVE  TruthInv'
<1> USE CommandAssumption DEF TruthInv, TruthTypes, Processes, Idle, AllRead
<1>a. ASSUME NotStarted, Idle, pc' \in {"idle", "missing"},
             config' \in Configurations \cup {Null}, state' \in Results \cup {Null},
             IF Idle' THEN op' = "none" ELSE plan' \in Configurations
      PROVE  TruthInv'
  BY <1>a DEF NotStarted, processes, channels, waiting
<1>b. ASSUME NEW o, NEW c \in Configurations, Runs(o, c) PROVE TruthInv'
  <2>1. CASE Begin(o, "wait", c, FALSE) /\ Start(c)
    BY <2>1 DEF Begin, Start, channels, waiting, resource
  <2>2. CASE Begin(o, "missing", c, FALSE) /\ NotStarted
    BY <2>2, <1>a DEF Begin, resource
  <2>. QED BY <1>b, <2>1, <2>2 DEF Runs
<1>c. ASSUME Returned, pc' = "idle", op' = "none", config' = config, state' \in Results \cup {Null}
      PROVE  TruthInv'
  BY <1>c DEF Returned
<1>1. CASE Configure
  <2>1. config' \in Configurations \cup {Null}
    BY <1>1 DEF Configure, Configured, Options, Configurations
  <2>. QED BY <1>1, <2>1, <1>a DEF Configure, Configured, running, NotStarted
<1>2. CASE BeginCreate
  BY <1>2, <1>b DEF BeginCreate
<1>3. CASE BeginDelete
  BY <1>3, <1>b DEF BeginDelete, Results
<1>4. CASE Open
  <2>1. [config EXCEPT !.timeout = TRUE] \in Configurations
    BY <1>4 DEF Open, Configurations
  <2>. QED BY <1>4, <2>1, <1>b DEF Open
<1>5. CASE Update
  <2>1. [state EXCEPT !.asked = config] \in Results
    BY <1>5 DEF Update, Results
  <2>. QED BY <1>5, <2>1, <1>a DEF Update, running
<1>6. CASE Forget
  BY <1>6, <1>a DEF Forget, Succeeded
<1>7. CASE Succeeds
  <2>1. Accepted => Result \in Results
    BY <1>7 DEF Succeeds, Accepted, Result, Results, Outcomes
  <2>. QED BY <1>7, <2>1, <1>c DEF Succeeds, Succeeded
<1>8. CASE Fails \/ Kill
  BY <1>8, <1>c DEF Fails, Kill, Failed, Killed, resource
<1>. QED BY <1>1, <1>2, <1>3, <1>4, <1>5, <1>6, <1>7, <1>8

\* Who has closed the output does not write, whoever else is started.
LEMMA TruthCommand ==
  ASSUME TruthInv, NEW p \in Processes,
         Fork \/ Write(p) \/ CloseOutput(p) \/ Exit(p) \/ Dies(p) \/ Reuse
  PROVE  TruthInv'
<1> USE DEF TruthInv, TruthTypes, Processes, Idle, AllRead, Unseen, lifecycle, resource, running,
            channels, waiting
<1>1. CASE Fork
  BY <1>1 DEF Fork
<1>2. CASE Write(p)
  <2>1. TruthTypes'
    BY <1>2 DEF Write
  <2>2. TruthInv'
    BY <1>2, <2>1 DEF Write
  <2>. QED BY <2>2
<1>5. CASE CloseOutput(p)
  <2>1. holds' \subseteq holds
    BY <1>5 DEF CloseOutput
  <2>2. TruthTypes'
    BY <1>5, <2>1 DEF CloseOutput
  <2> QED BY <1>5, <2>1, <2>2 DEF CloseOutput
<1>3. CASE Exit(p) \/ Dies(p)
  <2>1. PICK how \in {"zero", "nonzero", "killed"} : Exits(p, how)
    BY <1>3 DEF Exit, Dies
  <2>2. TruthTypes'
    BY <2>1 DEF Exits
  <2> QED BY <1>3, <2>1, <2>2 DEF Exits, Exit, Dies
<1>4. CASE Reuse
  BY <1>4 DEF Reuse, processes
<1>. QED BY <1>1, <1>2, <1>3, <1>4, <1>5

LEMMA TruthCaller ==
  ASSUME TruthInv,
         Copy \/ OutputEnds \/ ChildExits \/ DeadlinePasses \/ GracePasses \/ Cancel
           \/ SeeOutput \/ SeeExit \/ GiveUp \/ Complete \/ KillGroup \/ KillRefused
           \/ Drained \/ CloseRead \/ Reap
  PROVE  TruthInv'
<1> USE DEF TruthInv, TruthTypes, Processes, Idle, AllRead, processes, resource
<1>t. ASSUME UNCHANGED <<resource, op, plan, proc, holds, written>>, copied' \in Nat,
             pc # "idle", pc' # "idle"
      PROVE  TruthTypes'
  BY <1>t
<1>1. CASE Copy
  <2>1. TruthTypes'
    BY <1>1, <1>t DEF Copy, lifecycle, running
  <2>. QED BY <1>1, <2>1 DEF Copy, lifecycle, running, waiting
<1>2. CASE OutputEnds \/ ChildExits
  <2>1. TruthTypes'
    BY <1>2, <1>t DEF OutputEnds, ChildExits, lifecycle, running
  <2>. QED BY <1>2, <2>1 DEF OutputEnds, ChildExits, lifecycle, running, waiting
<1>3. CASE DeadlinePasses \/ GracePasses \/ Cancel
  <2>1. TruthTypes'
    BY <1>3, <1>t DEF DeadlinePasses, GracePasses, Cancel, lifecycle, running, channels
  <2>2. UNCHANGED <<pc, proc, status, holds, written, channels, sawOutput, sawExit, killed, stuck>>
    BY <1>3 DEF DeadlinePasses, GracePasses, Cancel, lifecycle, running, waiting
  <2>. QED BY <2>1, <2>2 DEF channels
<1>4. CASE SeeOutput \/ SeeExit \/ GiveUp
  <2>1. TruthTypes'
    BY <1>4, <1>t DEF SeeOutput, SeeExit, GiveUp, Goto, Wait, Quiet
  <2>2. CASE SeeOutput
    BY <2>1, <2>2 DEF SeeOutput, Goto, Wait, Quiet
  <2>3. CASE SeeExit
    BY <2>1, <2>3 DEF SeeExit, Goto, Wait, Quiet
  <2>4. CASE GiveUp
    BY <2>1, <2>4 DEF GiveUp, Goto, Wait, Quiet
  <2>. QED BY <1>4, <2>2, <2>3, <2>4
<1>5. CASE KillGroup
  <2>1. proc' \in [Processes -> {"none", "runs", "doomed", "gone"}]
    BY <1>5 DEF KillGroup, Signalled
  <2>2. proc["child"] = "gone" <=> proc'["child"] = "gone"
    BY <1>5 DEF KillGroup, Signalled
  <2>. QED BY <1>5, <2>1, <2>2 DEF KillGroup, Goto, Expired, Wait, channels
<1>6. CASE Complete
  BY <1>6 DEF Complete, Goto, Expired, Wait, Quiet, waiting
<1>7. CASE KillRefused
  BY <1>7 DEF KillRefused, Expired, Wait, Quiet, waiting
<1>8. CASE Drained
  <2>1. TruthTypes'
    BY <1>8, <1>t DEF Drained, Goto, Quiet
  <2>. QED BY <1>8, <2>1 DEF Drained, Goto, Quiet, waiting
<1>9. CASE CloseRead
  <2>1. TruthTypes'
    BY <1>9, <1>t DEF CloseRead, Finished, Goto, Quiet
  <2>. QED BY <1>9, <2>1 DEF CloseRead, Finished, Goto, Quiet, waiting
<1>10. CASE Reap
  BY <1>10 DEF Reap, Goto, waiting, channels
<1>. QED BY <1>1, <1>2, <1>3, <1>4, <1>5, <1>6, <1>7, <1>8, <1>9, <1>10

\* The result on its way to the state is that of the run, and all of it.
THEOREM TruthInvariant == Spec => []TruthInv
<1>1. TruthInv /\ [Next]_vars => TruthInv'
  <2> SUFFICES ASSUME TruthInv, [Next]_vars PROVE TruthInv'
    OBVIOUS
  <2>1. CASE Next
    BY <2>1, TruthAround, TruthCommand, TruthCaller DEF Next, Caller, Processes
  <2>2. CASE UNCHANGED vars
    BY <2>2 DEF vars, lifecycle, resource, running, processes, waiting, channels, TruthInv, TruthTypes,
                Idle, AllRead
  <2>. QED BY <2>1, <2>2
<1>. QED BY <1>1, TruthInit, PTL DEF Spec

\* What an operation that ends well has seen.
LEMMA AcceptedIsOwn ==
  ASSUME TruthInv, pc = "end", Accepted
  PROVE  /\ status \in {"zero", "nonzero"} /\ (status = "nonzero" => ~plan.fail) /\ AllRead
         /\ Outcome = status
BY DEF TruthInv, TruthTypes, Accepted, Outcome

\* A state is recorded or given up, and output is handed out, only after a run
\* that came to its end by itself with a status that the configuration allows.
THEOREM RunsAreTruthful == Spec => Truthful
<1> DEFINE Own == /\ status \in {"zero", "nonzero"} /\ (status = "nonzero" => ~plan.fail)
                  /\ holds = {} /\ copied = written
           Told == /\ (op = "create" /\ state' # state) => Own /\ state'.status = status
                   /\ opened' \notin {opened, Null} => Own /\ opened'.shown = written
                   /\ (state # Null /\ state' = Null /\ state.asked.destroy) => Own
<1>1. TruthInv /\ [Next]_vars => Told
  <2> SUFFICES ASSUME TruthInv, [Next]_vars PROVE Told
    OBVIOUS
  <2>1. ASSUME state' = state, opened' = opened \/ opened' = Null PROVE Told
    BY <2>1
  <2>2. CASE Succeeds
    <3>1. Own /\ Outcome = status
      BY <2>2, AcceptedIsOwn DEF Succeeds, AllRead
    <3>2. CASE op = "create"
      <4>1. state' = Result /\ opened' = opened
        BY <2>2, <3>2 DEF Succeeds, Succeeded
      <4>2. plan \in Configurations
        BY <2>2 DEF Succeeds, TruthInv, TruthTypes, Idle
      <4>3. Result \in Results /\ Result.status = Outcome
        BY <4>2, <3>1 DEF Result, Results, Outcomes
      <4>. QED BY <3>1, <4>1, <4>3, CommandAssumption
    <3>3. CASE op = "delete"
      BY <2>2, <3>1, <3>3 DEF Succeeds
    <3>4. CASE op = "open"
      <4>1. opened' = Output /\ ~Truncated /\ state' = state
        BY <2>2, <3>4 DEF Succeeds, Succeeded
      <4>2. Output.shown = copied
        BY <4>1, CommandAssumption DEF Output, Truncated, TruthInv, TruthTypes
      <4>. QED BY <3>1, <3>4, <4>1, <4>2
    <3>. QED BY <2>2, <3>2, <3>3, <3>4 DEF Succeeds
  <2>3. CASE Update
    <3>1. op = "none" /\ state' # Null
      BY <2>3, CommandAssumption DEF Update, Results, TruthInv, TruthTypes
    <3>. QED BY <2>3, <3>1 DEF Update, NotStarted
  <2>4. CASE Forget
    BY <2>4 DEF Forget, NotStarted, Succeeded, TruthInv, TruthTypes
  <2>5. CASE Configure \/ BeginCreate \/ BeginDelete \/ Open \/ Fails \/ Kill
    BY <2>5, <2>1 DEF Configure, Configured, BeginCreate, BeginDelete, Open, Runs, Begin, Start, NotStarted,
      Fails, Failed, Kill, Killed, resource
  <2>6. ASSUME NEW p \in Processes, Fork \/ Write(p) \/ CloseOutput(p) \/ Exit(p) \/ Dies(p) \/ Reuse PROVE Told
    BY <2>6, <2>1 DEF Fork, Write, CloseOutput, Exit, Dies, Exits, Reuse, Unseen, lifecycle, resource
  <2>7. CASE Copy \/ OutputEnds \/ ChildExits \/ DeadlinePasses \/ GracePasses \/ Cancel
    BY <2>7, <2>1 DEF Copy, OutputEnds, ChildExits, DeadlinePasses, GracePasses, Cancel, lifecycle, resource
  <2>8. CASE SeeOutput \/ SeeExit \/ GiveUp \/ Complete \/ KillGroup \/ KillRefused \/ Drained \/ CloseRead \/ Reap
    BY <2>8, <2>1 DEF SeeOutput, SeeExit, GiveUp, Complete, KillGroup, KillRefused, Drained, CloseRead, Reap,
      Goto, Quiet, resource
  <2>9. CASE UNCHANGED vars
    BY <2>9, <2>1 DEF vars, lifecycle, resource
  <2>. QED BY <2>2, <2>3, <2>4, <2>5, <2>6, <2>7, <2>8, <2>9 DEF Next, Caller, Processes
<1>. QED BY <1>1, TruthInvariant, PTL DEF Spec, Truthful
===============================================================================
