------------------------------ MODULE Lifecycle ------------------------------
(***************************************************************************)
(* What Terraform does with the state of one resource, whatever the        *)
(* resource is.  The configuration changes; an apply creates, updates or   *)
(* deletes; a Create that reports an error leaves a state only if it set   *)
(* one, and what it left is tainted, so that the next apply deletes it; an *)
(* Update that fails keeps the state it was given, or the one it set; a    *)
(* killed provider saves nothing.                                          *)
(***************************************************************************)
EXTENDS Naturals

CONSTANTS Null,
          MaxConfigs,    \* bound on changes of the configuration
          MaxForeign,    \* bound on changes of the host by others
          MaxFaults      \* bound on failed calls and killed providers

VARIABLES config,        \* the configuration, or Null
          state,         \* Terraform's state, or Null
          tainted,       \* the state is that of a failed Create
          pc, op,        \* the step and the operation that is running
          plan,          \* what the operation was asked for, or Null
          done,          \* the last operation ended well, nothing happened since
          raced,         \* others changed the host since the operation's plan
          lost,          \* a provider was killed: what it did is unrecorded
          configs, foreign, faults

resource == <<config, state, tainted>>
running == <<pc, op, plan>>
bounds == <<configs, foreign, faults>>
lifecycle == <<resource, running, done, raced, lost, bounds>>

Idle == pc = "idle"

LifecycleInit ==
    /\ config = Null /\ state = Null /\ tainted = FALSE
    /\ pc = "idle" /\ op = "none" /\ plan = Null
    /\ done = FALSE /\ raced = FALSE /\ lost = FALSE
    /\ configs = 0 /\ foreign = 0 /\ faults = 0

\* The configuration becomes one of Options, or the resource is taken out.
Configured(Options) ==
    /\ Idle /\ configs < MaxConfigs /\ configs' = configs + 1
    /\ \E c \in Options \cup {Null} : c # config /\ config' = c
    /\ done' = FALSE
    /\ UNCHANGED <<state, tainted, running, raced, lost, foreign, faults>>

\* A refresh or an import put s into the state.
Refreshed(s) ==
    /\ Idle /\ state' = s /\ tainted' = (tainted /\ s # Null)
    /\ done' = (done /\ state # Null)
    /\ UNCHANGED <<config, running, raced, lost, bounds>>

\* Operation o begins at step s; late says that the host differs from what
\* the plan was made from.
Begin(o, s, p, late) ==
    /\ Idle /\ op' = o /\ pc' = s /\ plan' = p
    /\ done' = FALSE /\ raced' = late
    /\ UNCHANGED <<resource, lost, bounds>>

Goto(s) ==
    /\ pc' = s
    /\ UNCHANGED <<resource, op, plan, done, raced, lost, bounds>>

\* The operation returns without an error, with s in the state.
Succeeded(s) ==
    /\ state' = s /\ tainted' = FALSE /\ done' = ~raced
    /\ pc' = "idle" /\ op' = "none" /\ plan' = Null
    /\ UNCHANGED <<config, raced, lost, bounds>>

\* The operation returns an error; it had set s, or set nothing (Null).
Failed(s) ==
    /\ state' = IF s = Null THEN state ELSE s
    /\ tainted' = (tainted \/ (op = "create" /\ s # Null))
    /\ pc' = "idle" /\ op' = "none" /\ plan' = Null /\ done' = FALSE
    /\ UNCHANGED <<config, raced, lost, bounds>>

\* A call of the operation fails: it returns an error after setting s.
Faulted(s) ==
    /\ ~Idle /\ faults < MaxFaults /\ faults' = faults + 1
    /\ state' = IF s = Null THEN state ELSE s
    /\ tainted' = (tainted \/ (op = "create" /\ s # Null))
    /\ pc' = "idle" /\ op' = "none" /\ plan' = Null /\ done' = FALSE
    /\ UNCHANGED <<config, raced, lost, configs, foreign>>

\* The provider is killed, or Terraform loses the connection to it.
Killed ==
    /\ ~Idle /\ faults < MaxFaults /\ faults' = faults + 1
    /\ pc' = "idle" /\ op' = "none" /\ plan' = Null
    /\ done' = FALSE /\ lost' = TRUE
    /\ UNCHANGED <<resource, raced, configs, foreign>>

\* Others change the host.
Intrusion ==
    /\ foreign < MaxForeign /\ foreign' = foreign + 1
    /\ done' = FALSE /\ raced' = TRUE
    /\ UNCHANGED <<resource, running, lost, configs, faults>>
==============================================================================
