---------------------------- MODULE LaunchPolicy ----------------------------
(***************************************************************************)
(* From the operator's config.toml to the engine configuration of one      *)
(* launch: crates/shbox/src/config.rs (load_snapshot, build and its        *)
(* validators), account.rs (the shell), platform/policy.rs (the snapshot   *)
(* SandboxLaunchPolicy and what each launch derives from it),              *)
(* platform/linux.rs (LinuxLauncher::new, launch), and in the engine       *)
(* validate.rs and linux/landlock.rs.                                      *)
(*                                                                         *)
(* The snapshot is taken once, at start; the host lives on: between the    *)
(* start and a launch paths come and go, a symbolic link is turned to      *)
(* another target, and the cgroup parent is delegated or withdrawn.  A     *)
(* path is a name with its set of ancestors; a link also has a target.  A  *)
(* string the validators refuse for its shape is one bad word.             *)
(***************************************************************************)
EXTENDS Integers, Sequences, Functions, TLC

CONSTANTS
    Raws,              \* config files and command lines to start with
    Requests,          \* launch requests to try
    HostPaths,         \* absolute paths
    Ancestors,         \* each path with what contains it
    Links,             \* each path with what it may resolve to: itself, unless a link
    Programs,          \* the regular files that the daemon's user may execute
    CURATED_READ,      \* CURATED_READ_PATHS of class SystemData or TerminalDevice
    CURATED_EXECUTE,   \* CURATED_READ_PATHS of class ExecutableRuntime
    Roots,             \* the data root, the state root and the config directory
    LoginShell,        \* the passwd shell
    Abis,              \* Landlock ABIs of the kernels to try, 0 for none or no cgroup v2
    Volatile,          \* paths that come and go
    MaxChanges         \* bound on such changes

VARIABLES
    raw,       \* the operator's input
    present,   \* the directory entries there are
    target,    \* what each path resolves to
    delegated, \* the cgroup parent is writable, empty and has the controllers
    abi,       \* the kernel's Landlock ABI
    daemon,    \* "boot", "up", "unavailable" or "refused"
    policy,    \* the SandboxLaunchPolicy
    scope,     \* the launcher's domain_scope: "unresolved", "ok" or "failed"
    start,     \* history: what resolved at start, and to what
    verdict,   \* what became of the last launch request
    changes

host == <<present, target, delegated>>
policyVars == <<raw, host, abi, daemon, policy, scope, start, verdict, changes>>

Unset == -1
Absent == "absent"
NoList == <<Absent>>
Workspace == "workspace"
Temp == "temp"
CURATED_WRITE_PATHS == {"null"}

ASSUME PolicyAssumption ==
    /\ Ancestors \in [HostPaths -> SUBSET HostPaths]
    /\ Links \in [HostPaths -> SUBSET HostPaths \ {{}}]
    /\ \A p \in HostPaths : p \in Ancestors[p] /\ \A q \in Links[p] : Links[q] = {q}
    /\ CURATED_READ \cup CURATED_EXECUTE \cup Roots \cup Volatile \cup Programs \subseteq HostPaths
    /\ {Workspace, Temp} \cup CURATED_WRITE_PATHS \subseteq HostPaths
    /\ Abis \subseteq Nat /\ MaxChanges \in Nat

(* Path::exists and fs::canonicalize: links are followed, and every        *)
(* component must be there.                                                *)
exists(p) == Ancestors[p] \cup Ancestors[target[p]] \subseteq present
canonical(p) == IF exists(p) THEN target[p] ELSE p

-----------------------------------------------------------------------------
(* config.rs                                                               *)

(* load_snapshot: a missing file is the defaults, and --listen stands in   *)
(* for an absent listen; parse_file refuses an unsafe or unreadable file.  *)
FileUsable(r) == r.file \in {"missing", "good"}

Listen(r) ==
    IF r.listen # NoList THEN r.listen ELSE IF r.cli # NoList THEN r.cli ELSE <<"tcp">>

(* ListenEndpoint::from_str (endpoint.rs): the two schemes of the build.   *)
from_str(e) == e \in {"tcp", "ws"}

validate_listen(l) == l # <<>> /\ IsInjective(l) /\ \A e \in Range(l) : from_str(e)

validate_word(w, words) == w \in words \cup {Absent}

(* Absolute, and without the NUL of the path "nul".                        *)
validate_configured_path(p) == p \in HostPaths \cup {Absent}

(* Absolute, and no more.                                                  *)
validate_cgroup_parent(p) == p \in HostPaths \cup {Absent, "nul"}

(* Each read path exists, is inside no root of shbox that exists, and is   *)
(* named once in canonical form.                                           *)
validate_read_paths(s) ==
    /\ \A i \in DOMAIN s : s[i] \in HostPaths /\ exists(s[i])
    /\ \A i \in DOMAIN s : {r \in Roots : exists(r)} \cap Ancestors[canonical(s[i])] = {}
    /\ \A i, j \in DOMAIN s : canonical(s[i]) = canonical(s[j]) => i = j

RESERVED_ENV_NAMES == {"HOME", "PWD", "SHELL", "TMPDIR", "TERM"}

validate_sandbox_env(names) == names \cap (RESERVED_ENV_NAMES \cup {"bad"}) = {}

PeriodWide(p) == p \in 999 .. 1000000

PeriodAllowed(p) == p \in 1000 .. 1000000

validate_resources(r) ==
    /\ 0 \notin {r.memory, r.swap, r.pids, r.quota}
    /\ r.period # Unset => PeriodAllowed(r.period) /\ r.quota # Unset

build(r) ==
    /\ validate_listen(Listen(r))
    /\ validate_word(r.log_level, {"info", "debug"})
    /\ validate_word(r.network, {"disabled", "outbound"})
    /\ validate_configured_path(r.shell)
    /\ validate_read_paths(r.read_paths)
    /\ validate_sandbox_env(r.env)
    /\ validate_resources(r)
    /\ validate_cgroup_parent(r.cgroup_parent)
    /\ validate_word(r.identity, {"host", "isolated"})

Network(r) == IF r.network = Absent THEN "disabled" ELSE r.network
Identity(r) == IF r.identity = Absent THEN "host" ELSE r.identity

-----------------------------------------------------------------------------
(* account.rs and platform/policy.rs: the snapshot                         *)

(* validate_executable: a regular file with X_OK, links followed.          *)
validate_executable(p) == exists(p) /\ canonical(p) \in Programs

sandbox_shell(r) == IF r.shell = Absent THEN LoginShell ELSE r.shell

(* The shell's directory is granted with the shell.                        *)
Parent(p) == CHOOSE q \in Ancestors[p] \ {p} :
                \A a \in Ancestors[p] \ {p} : a \in Ancestors[q]

canonicalize_paths(S) == {canonical(p) : p \in S}

canonicalize_existing_paths(S) == {canonical(p) : p \in {q \in S : exists(q)}}

from_config(r) ==
    [shell |-> sandbox_shell(r), network |-> Network(r), identity |-> Identity(r),
     read_only |-> canonicalize_existing_paths(CURATED_READ \cup Range(r.read_paths)),
     execute |-> canonicalize_existing_paths(
                    CURATED_EXECUTE \cup {sandbox_shell(r), Parent(sandbox_shell(r))}),
     env |-> r.env, cgroup_parent |-> r.cgroup_parent,
     resources |-> [memory |-> r.memory, swap |-> r.swap, pids |-> r.pids, quota |-> r.quota,
                    period |-> r.period]]

NoPolicy == [network |-> Absent]

(* LinuxLauncher::new refuses a kernel that cannot enforce the policy.     *)
Enforceable(p) == abi > 0 /\ (p.network = "disabled" => abi >= 4)

host_shell == LoginShell

(* The shells are validated before the snapshot is taken.  Without a usable*)
(* adapter the daemon still comes up, with the launcher that refuses every *)
(* launch.                                                                 *)
Boot ==
    /\ daemon = "boot"
    /\ IF /\ FileUsable(raw) /\ build(raw)
          /\ validate_executable(sandbox_shell(raw)) /\ validate_executable(host_shell)
       THEN /\ daemon' = IF Enforceable(from_config(raw)) THEN "up" ELSE "unavailable"
            /\ policy' = from_config(raw)
            /\ start' = [paths |-> {p \in HostPaths : exists(p)}, target |-> target]
       ELSE daemon' = "refused" /\ UNCHANGED <<policy, start>>
    /\ UNCHANGED <<raw, host, abi, scope, verdict, changes>>

(* domain_scope: resolved once, by the reconciliation at start or by the   *)
(* first launch, and the same answer ever after.                           *)
domain_scope ==
    IF scope # "unresolved" THEN scope
    ELSE IF delegated /\ policy.cgroup_parent # "nul" THEN "ok" ELSE "failed"

reconcile_startup_resources ==
    /\ daemon = "up" /\ scope' = domain_scope
    /\ UNCHANGED <<raw, host, abi, daemon, policy, start, verdict, changes>>

-----------------------------------------------------------------------------
(* platform/policy.rs: one launch                                          *)

(* The tiers of try_engine_config_with_identity.                           *)
read_write(p) == CURATED_WRITE_PATHS \cup {Workspace, Temp}
read_only(p) == p.read_only \ CURATED_WRITE_PATHS

engine_network(p) == IF p.network = "disabled" THEN "Disabled" ELSE "Unrestricted"

engine_namespaces(p) ==
    (IF p.network = "disabled" THEN {"network"} ELSE {})
    \cup (IF p.identity = "isolated" THEN {"mount"} ELSE {})

engine_identity(p) ==
    IF p.identity = "isolated" THEN "Isolated"
    ELSE IF p.network = "disabled" THEN "CallerMappedRoot" ELSE "Host"

(* A period goes with a quota, and has a default.                          *)
engine_resources(p) ==
    [p.resources EXCEPT !.period = IF p.resources.quota = Unset THEN Unset
                                   ELSE IF @ = Unset THEN 100000 ELSE @]

(* environment_for_with_overrides: a later entry replaces an earlier one.  *)
(* (The operator's entries are appended to the managed ones without that;  *)
(* validate_sandbox_env keeps the two apart.)                              *)
Entry(name, value) == name :> value

environment_for(p, q) ==
    (IF q.pty THEN Entry("TERM", "request") ELSE <<>>)
    @@ Entry("TMPDIR", "shbox")
    @@ (IF q.peer THEN Entry("SSH_CONNECTION", "shbox") ELSE <<>>)
    @@ [n \in p.env |-> "operator"]
    @@ [n \in {"HOME", "PWD", "SHELL"} |-> "shbox"]

validate_request_identity(p, q) == q.lease <=> p.identity = "isolated"

validated_shell_command(q) == q.command \in {"shell", "exec"}

-----------------------------------------------------------------------------
(* The engine: validate.rs, landlock.rs                                    *)

(* Both sides are canonicalised anew at each launch.                       *)
covered_by(path, grants) == \E g \in grants : canonical(g) \in Ancestors[canonical(path)]

(* Only paths that resolve are checked for coverage.                       *)
validate_filesystem(p) ==
    /\ exists(p.shell) => covered_by(p.shell, read_write(p) \cup p.execute)
    /\ exists(Workspace) =>
          covered_by(Workspace, read_only(p) \cup read_write(p) \cup p.execute)

engine_validate_resources(s) ==
    /\ s.quota # Unset => s.quota # 0 /\ s.period \in 1000 .. 1000000
    /\ s.memory # 0 /\ s.pids # 0

validate_identity(p) == engine_identity(p) = "Isolated" => "mount" \in engine_namespaces(p)

validate(p) ==
    validate_filesystem(p) /\ engine_validate_resources(engine_resources(p)) /\ validate_identity(p)

(* landlock::prepare opens every rule path; network control needs ABI 4.   *)
Rules(p) ==
    (read_only(p) \X {{"read"}}) \cup (read_write(p) \X {{"read", "execute", "write"}})
    \cup (p.execute \X {{"read", "execute"}})

Opens(p) == \A r \in Rules(p) : exists(r[1])

Handled(p) == {"fs"} \cup (IF engine_network(p) = "Disabled" THEN {"net"} ELSE {})

-----------------------------------------------------------------------------

(* What LinuxLauncher::launch checks before it asks for the domain.        *)
Addressed(q) == validate_request_identity(policy, q) /\ exists(Workspace)

Verdict(q) ==
    IF ~Addressed(q) THEN "refused"
    ELSE IF domain_scope = "failed" THEN "unscoped"
    ELSE IF ~validated_shell_command(q) THEN "refused"
    ELSE IF ~validate(policy) THEN "invalid"
    ELSE IF abi = 0 \/ ("net" \in Handled(policy) /\ abi < 4) THEN "unsupported"
    ELSE IF ~Opens(policy) THEN "unopened"
    ELSE "start"

(* A request that ends before the engine clones.  Also with nothing to     *)
(* object to, the domain or its ID-map namespace may not be created, the   *)
(* mounts not be prepared or the PTY not be allocated.                     *)
RefusedLaunch ==
    /\ \/ /\ daemon = "up"
          /\ \E q \in Requests :
                /\ scope' = IF Addressed(q) THEN domain_scope ELSE scope
                /\ \/ Verdict(q) # "start" /\ verdict' = Verdict(q)
                   \/ Addressed(q) /\ domain_scope = "ok" /\ verdict' = "failed"
       \/ daemon = "unavailable" /\ verdict' = "refused" /\ UNCHANGED scope
    /\ UNCHANGED <<raw, host, abi, daemon, policy, start, changes>>

(* A path of the host appears or disappears, a link is turned, the cgroup  *)
(* parent is delegated or withdrawn.                                       *)
Change ==
    /\ changes < MaxChanges
    /\ \/ /\ \E p \in Volatile :
                present' = IF p \in present THEN present \ {p} ELSE present \cup {p}
          /\ UNCHANGED <<target, delegated>>
       \/ /\ \E p \in HostPaths : \E q \in Links[p] \ {target[p]} :
                target' = [target EXCEPT ![p] = q]
          /\ UNCHANGED <<present, delegated>>
       \/ delegated' = ~delegated /\ UNCHANGED <<present, target>>
    /\ changes' = changes + 1
    /\ verdict' = Absent
    /\ UNCHANGED <<raw, abi, daemon, policy, scope, start>>

NoStart == [paths |-> {}, target |-> <<>>]

PolicyInit ==
    /\ raw \in Raws /\ abi \in Abis
    /\ present \in {HostPaths} \cup {HostPaths \ {p} : p \in Volatile}
    /\ target = [p \in HostPaths |-> CHOOSE q \in Links[p] : TRUE]
    /\ delegated \in BOOLEAN
    /\ daemon = "boot" /\ policy = NoPolicy /\ scope = "unresolved" /\ start = NoStart
    /\ verdict = Absent /\ changes = 0

-----------------------------------------------------------------------------
(* Properties                                                              *)

(* What the daemon started with stays launchable until the host changes    *)
(* under it.  The validators of config.rs and LinuxLauncher::new leave     *)
(* nothing for the engine's to refuse in the configuration itself; its     *)
(* coverage check refuses only a shell that now resolves elsewhere than at *)
(* start, and a rule's path fails to open only when something that was     *)
(* there at start is gone.  A cgroup parent that was refused is not part   *)
(* of the promise: it is proven when first used, not at start.             *)
StartedMeansLaunchable ==
    /\ verdict # "unsupported"
    /\ verdict = "invalid" => target[policy.shell] # start.target[policy.shell]
    /\ verdict = "unopened" => \E p \in start.paths : ~exists(p)

=============================================================================
