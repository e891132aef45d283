--------------------------- MODULE SandboxLaunch ---------------------------
(***************************************************************************)
(* LinuxLauncher::launch composed of its two halves: LaunchPolicy, from    *)
(* the operator's file to an engine configuration, and EngineSpawn, from   *)
(* that configuration to running user code.  The engine is also used       *)
(* directly (Sandbox::spawn, and the keeper of an ID-map namespace): then  *)
(* the launch is one of Configs and the daemon never starts.               *)
(***************************************************************************)
EXTENDS EngineSpawn, LaunchPolicy

VARIABLE
    asked   \* the request whose launch the engine performs

launchVars == <<vars, policyVars, asked>>

NoRequest == [command |-> None]

NoLaunch == [kind |-> "spawn", identity |-> "Host", pid |-> FALSE, mount |-> FALSE,
             views |-> FALSE, landlock |-> FALSE, seccomp |-> FALSE, cgroup |-> "none"]

(* The engine configuration of a launch: always Landlock, never a seccomp  *)
(* filter, always the sandbox's shared process domain; ID-mapped views for *)
(* an isolated one.                                                        *)
engine_config(p) ==
    [kind |-> "spawn", identity |-> engine_identity(p), pid |-> FALSE,
     mount |-> "mount" \in engine_namespaces(p), views |-> engine_identity(p) = "Isolated",
     landlock |-> TRUE, seccomp |-> FALSE, cgroup |-> "shared"]

StartLaunch ==
    /\ daemon = "up" /\ pc = "waiting"
    /\ \E q \in Requests :
          /\ Verdict(q) = "start"
          /\ asked' = q
    /\ cfg' = engine_config(policy)
    /\ pc' = "prepare"
    /\ verdict' = "start" /\ scope' = domain_scope
    /\ UNCHANGED <<proc, map, pipes, dir, result, handle, raw, host, abi, daemon, policy,
                   start, changes>>

(* The engine returned a child: the launch is published with its waiter,   *)
(* or the PTY's descriptors or the waiter thread cannot be had and the     *)
(* child is dropped with the error.                                        *)
FinishLaunch ==
    /\ daemon = "up" /\ verdict = "start" /\ handle.at = "held"
    /\ \/ verdict' = "running" /\ UNCHANGED vars
       \/ verdict' = "failed" /\ Teardown
    /\ UNCHANGED <<raw, host, abi, daemon, policy, scope, start, changes, asked>>

Daemon ==
    /\ pc = "waiting"
    /\ Boot \/ reconcile_startup_resources \/ RefusedLaunch \/ Change
    /\ UNCHANGED <<vars, asked>>

(* Before it is published nobody else holds the child.                     *)
EngineNext ==
    /\ Engine \/ (verdict # "start" /\ Holder)
    /\ UNCHANGED <<policyVars, asked>>

LaunchInit ==
    /\ asked = NoRequest
    /\ \/ Init /\ daemon = None /\ raw = NoRequest /\ abi = 0
          /\ present = {} /\ target = <<>> /\ delegated = FALSE
          /\ policy = NoPolicy /\ scope = "unresolved" /\ start = NoStart
          /\ verdict = Absent /\ changes = 0
       \/ /\ PolicyInit
          /\ cfg = NoLaunch /\ pc = "waiting" /\ result = None /\ dir = FALSE
          /\ proc = [p \in Procs |-> NoProc]
          /\ map = Unmapped
          /\ ready = FALSE /\ installed = FALSE /\ status = <<>>
          /\ control = None /\ exitrec = None
          /\ handle = [at |-> None, status |-> None]

LaunchNext == Daemon \/ StartLaunch \/ FinishLaunch \/ EngineNext

LaunchSpec == LaunchInit /\ [][LaunchNext]_launchVars

(* The threads and processes of the launch run: the owner thread, the      *)
(* child in its setup, the supervisor.  Nothing is assumed of the program, *)
(* of the handle's holder, of the domain's owner or of the host's files.   *)
LaunchFairSpec ==
    /\ LaunchSpec
    /\ WF_launchVars(Owner /\ UNCHANGED <<policyVars, asked>>)
    /\ WF_launchVars(DirectStep /\ UNCHANGED <<policyVars, asked>>)
    /\ \A p \in {"direct", "user"} :
          WF_launchVars(ChildStep(p) /\ UNCHANGED <<policyVars, asked>>)
    /\ WF_launchVars(Supervisor /\ UNCHANGED <<policyVars, asked>>)

-----------------------------------------------------------------------------
(* Properties                                                              *)

(* What the operator wrote is in force when the sandbox's code runs: every *)
(* process of it is under Landlock, whose rules name nothing that was not  *)
(* there when the daemon started, but for the sandbox's own directories    *)
(* and the null device, whatever has appeared since; networking disabled   *)
(* by default, by a kernel that can and in a namespace the daemon may      *)
(* create; and the variables shbox manages carrying its values, whatever   *)
(* the operator's and the request's environment hold.                      *)
OperatorPolicyInForce ==
    daemon = "up" /\ (\E p \in Procs : proc[p].st = "run") =>
        /\ \A p \in Procs : proc[p].st = "run" => "Landlock" \in proc[p].has
        /\ \A r \in Rules(policy) :
              /\ r[1] \in start.paths \cup {Workspace, Temp, "null"}
              /\ "write" \in r[2] => r[1] \in {Workspace, Temp, "null"}
        /\ raw.network # "outbound" =>
              /\ "net" \in Handled(policy) /\ abi >= 4
              /\ "network" \in engine_namespaces(policy) /\ cfg.identity # "Host"
        /\ \A n \in {"HOME", "PWD", "SHELL", "TMPDIR"} : environment_for(policy, asked)[n] = "shbox"
        /\ asked.pty => environment_for(policy, asked)["TERM"] = "request"

(* A launch that fails after the engine succeeded leaves its program dead, *)
(* and whatever the program forked meanwhile inside the sandbox's domain,  *)
(* where the domain's owner reaches it.                                    *)
FailedLaunchContained ==
    verdict = "failed" /\ handle.at = "dropped" =>
        /\ ~Alive(User)
        /\ \A p \in Procs : Alive(p) => proc[p].cg

(* Every launch the engine was asked for returns: no failure, death or     *)
(* helper outcome leaves the owner thread, which serves every launch of    *)
(* the daemon, waiting on a pipe.                                          *)
LaunchReturns == pc = "prepare" ~> pc = "idle"

=============================================================================
