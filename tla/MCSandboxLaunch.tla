-------------------------- MODULE MCSandboxLaunch --------------------------
(* Launches by the daemon for config files that differ from a plain one in *)
(* one or two fields, and direct launches of each shape: the three         *)
(* identities with and without a PID namespace, and the keeper.            *)
EXTENDS SandboxLaunch

Launch(identity, pid, cgroup) ==
    [kind |-> "spawn", identity |-> identity, pid |-> pid, mount |-> identity # "Host",
     views |-> identity = "Isolated", landlock |-> TRUE, seccomp |-> identity # "Host",
     cgroup |-> cgroup]

Launches ==
    {Launch(i, p, g) : i \in {"Host", "CallerMappedRoot", "Isolated"}, p \in BOOLEAN,
                       g \in {"own", "shared"}}
    \cup {[Launch("Isolated", FALSE, "none") EXCEPT !.kind = "keeper"]}

Plain == [file |-> "good", listen |-> NoList, cli |-> NoList, log_level |-> Absent,
          network |-> Absent, identity |-> Absent, shell |-> Absent, read_paths |-> <<>>,
          env |-> {}, memory |-> Unset, swap |-> Unset, pids |-> Unset, quota |-> Unset,
          period |-> Unset, cgroup_parent |-> Absent]

Files ==
    {[Plain EXCEPT !.network = n, !.identity = i, !.read_paths = r] :
        n \in {Absent, "outbound"}, i \in {Absent, "isolated"}, r \in {<<>>, <<"tools">>}}
    \cup {[Plain EXCEPT !.quota = q, !.period = p] :
        q \in {Unset, 0, 1}, p \in {Unset, 0, 999, 1000, 1000000, 1000001}}
    \cup {[Plain EXCEPT !.memory = m, !.swap = w, !.pids = k] :
        m \in {Unset, 0, 1}, w \in {Unset, 0}, k \in {Unset, 0, 1}}
    \cup {[Plain EXCEPT !.listen = l, !.cli = c] :
        l \in {NoList, <<>>, <<"tcp", "ws">>, <<"ws", "ws">>, <<"wss">>},
        c \in {NoList, <<"ws">>}}
    \cup {[Plain EXCEPT !.file = f] : f \in {"missing", "unsafe", "unreadable"}}
    \cup {[Plain EXCEPT !.read_paths = r, !.shell = s] :
        r \in {<<"tools", "link">>, <<"data">>, <<"relative">>, <<"gone">>},
        s \in {Absent, "tools", "relative"}}
    \cup {[Plain EXCEPT !.env = e, !.shell = s] :
        e \in {{}, {"LANG"}, {"SSH_CONNECTION"}, {"HOME"}, {"TERM"}, {"bad"}},
        s \in {Absent, "zsh"}}
    \cup {[Plain EXCEPT !.network = "bad"], [Plain EXCEPT !.identity = "bad"],
          [Plain EXCEPT !.log_level = "bad"], [Plain EXCEPT !.cgroup_parent = "relative"],
          [Plain EXCEPT !.cgroup_parent = "nul"], [Plain EXCEPT !.shell = "nul"],
          [Plain EXCEPT !.shell = "mysh"],
          [Plain EXCEPT !.shell = "mysh", !.network = "outbound", !.read_paths = <<"tools">>]}

Ask(command, pty, peer) ==
    {[command |-> command, pty |-> pty, lease |-> l, peer |-> peer] : l \in BOOLEAN}

Asks == Ask("shell", TRUE, TRUE) \cup Ask("exec", FALSE, TRUE) \cup Ask("exec", FALSE, FALSE)
        \cup Ask("large", FALSE, TRUE)

Host == {"/", "usr", "sh", "tools", "zsh", "link", "opt", "mysh", "hosts", "data", "workspace",
         "temp", "null"}

HostAncestors ==
    [p \in Host |-> {p, "/"} \cup (IF p \in {"sh"} THEN {"usr"} ELSE {})
                    \cup (IF p = "zsh" THEN {"tools"} ELSE {})
                    \cup (IF p = "mysh" THEN {"opt"} ELSE {})
                    \cup (IF p \in {"workspace", "temp"} THEN {"data"} ELSE {})]

HostLinks ==
    [p \in Host |-> CASE p = "link" -> {"tools"} [] p = "mysh" -> {"sh", "zsh"} [] OTHER -> {p}]

=============================================================================
