---------------------------- MODULE EngineSpawn ----------------------------
(***************************************************************************)
(* One launch by the Linux engine (crates/shbox-sandbox/src/linux/mod.rs,  *)
(* child.rs, caps.rs, clone3.rs): the spawn-owner thread prepares and      *)
(* clones, the child walks a fixed chain of setup stages and executes the  *)
(* program, and the SandboxChild handle waits for it or tears it down.     *)
(* Three processes can exist:                                              *)
(*   direct  what clone3 returned: the program itself, or PID 1 of a new   *)
(*           PID namespace, or the keeper of an ID-map namespace;          *)
(*   user    PID 2, the program, when there is a PID namespace;            *)
(*   desc    a process the program forks.                                  *)
(* The chain of each process is a sequence of stages, and every stage may  *)
(* fail.  The descriptors that carry the protocol are modelled: the status *)
(* pipe with its writers, the two pipes of the mapping barrier, the        *)
(* supervisor's control socket and its exit pipe.                          *)
(*                                                                         *)
(* What the kernel demands of a stage is in Permitted, what it does when a *)
(* process dies is in Dies.                                                *)
(***************************************************************************)
EXTENDS Naturals, Sequences

CONSTANTS
    Configs,     \* launches to try
    DomainKill   \* whether the domain's owner may write cgroup.kill meanwhile

(* SandboxConfig as far as the launch depends on it, and whether the       *)
(* launch is create_mount_idmap_user_namespace's keeper instead.           *)
ConfigType ==
    [kind : {"spawn", "keeper"}, identity : {"Host", "CallerMappedRoot", "Isolated"},
     pid : BOOLEAN, mount : BOOLEAN, views : BOOLEAN, landlock : BOOLEAN,
     seccomp : BOOLEAN, cgroup : {"none", "own", "shared"}]

ASSUME EngineAssumption ==
    /\ \A c \in Configs :
          /\ c \in ConfigType
          /\ c.identity = "Isolated" /\ c.kind = "spawn" => c.mount
          /\ c.mount => c.identity # "Host"
          /\ c.views => c.mount
          /\ c.kind = "keeper" => c.identity = "Isolated" /\ ~c.pid /\ c.cgroup = "none"
    /\ DomainKill \in BOOLEAN

VARIABLES
    cfg,         \* the launch
    pc,          \* the owner thread: what it does next
    proc,        \* the processes
    map,         \* the child's user namespace: uid_map, gid_map, setgroups
    ready,       \* MAP_READY is in its pipe
    installed,   \* MAP_INSTALLED is in its pipe
    status,      \* records in the status pipe
    control,     \* the supervisor's control socket
    exitrec,     \* the record in the supervisor's exit pipe
    dir,         \* the directory of a one-shot cgroup exists
    result,      \* what the launch returned
    handle       \* the SandboxChild: [at, status]

vars == <<cfg, pc, proc, map, ready, installed, status, control, exitrec, dir,
          result, handle>>

owner == <<pc, result, dir>>
pipes == <<ready, installed, status, control, exitrec>>

Procs == {"direct", "user", "desc"}
None == "none"

NoProc == [st |-> None, at |-> 0, has |-> {}, cg |-> FALSE, report |-> FALSE, exit |-> None]
Unmapped == [uid |-> None, gid |-> None, setgroups |-> "allow"]

Alive(p) == proc[p].st \in {"setup", "run", "loop"}

(* The process that executes the program.                                  *)
User == IF cfg.pid THEN "user" ELSE "direct"

-----------------------------------------------------------------------------
(* The setup chains                                                        *)

When(b, s) == IF b THEN s ELSE <<>>

(* transition_to_runtime_identity                                          *)
Transition(c) == When(c.identity = "Isolated",
    <<"SetGid", "GroupClear", "SetUid", "Securebits", "NoNewPrivs", "Capabilities">>)

(* child_entry up to the PID-namespace split: parent death, identity,      *)
(* mounts.                                                                 *)
Bootstrap(c) ==
    <<"ParentDeath">>
    \o When(c.identity = "CallerMappedRoot", <<"UserNamespace">>)
    \o When(c.identity = "Isolated", <<"Announce", "Barrier">>)
    \o When(c.mount, <<"MountPropagation">>)
    \o When(c.views, <<"MountReadOnly", "MountAttach">>)

(* child_entry from the identity transition on: the process that execs.    *)
UserChain(c) ==
    Transition(c) \o <<"Session", "NoNewPrivs", "Capabilities">>
    \o When(c.landlock, <<"Landlock">>) \o When(c.seccomp, <<"Seccomp">>)
    \o <<"FdHygiene", "Exec">>

(* enter_pid_namespace_user_process in PID 1, after its nested clone.      *)
SupervisorChain(c) ==
    Transition(c) \o <<"NoNewPrivs", "Capabilities">> \o When(c.landlock, <<"Landlock">>)
    \o <<"CloseReport", "Loop">>

Chain(p) ==
    CASE p = "user"            -> <<"ParentDeath">> \o UserChain(cfg)
      [] cfg.kind = "keeper"   -> <<"ParentDeath", "Announce", "Barrier", "Pause">>
      [] cfg.pid               -> Bootstrap(cfg) \o <<"Split">> \o SupervisorChain(cfg)
      [] OTHER                 -> Bootstrap(cfg) \o UserChain(cfg)

Stage(p) == Chain(p)[proc[p].at]

(* The kernel's conditions: namespace capabilities for the mounts, the IDs,*)
(* the groups and the securebits; setgroups not denied; mapped IDs;        *)
(* no_new_privs before Landlock and seccomp; the daemon's own account for  *)
(* cloning into its cgroup.                                                *)
Permitted(p, s) ==
    /\ s \in {"MountPropagation", "MountReadOnly", "MountAttach", "SetGid", "GroupClear",
              "SetUid", "Securebits"} => "Capabilities" \notin proc[p].has
    /\ s = "GroupClear" => map.setgroups = "allow"
    /\ s = "SetGid" => map.gid # None
    /\ s = "SetUid" => map.uid # None
    /\ s \in {"Landlock", "Seccomp"} => "NoNewPrivs" \in proc[p].has
    /\ s = "Split" /\ cfg.cgroup # "none" => "SetUid" \notin proc[p].has

-----------------------------------------------------------------------------
(* Death                                                                   *)

(* SIGKILL or exit of the processes in K with status e.  When PID 1 of a   *)
(* namespace dies, the kernel kills and reaps the rest of the namespace    *)
(* first.  An orphan is reaped by whoever adopts it, a child waits as a    *)
(* zombie.  Every descriptor of a dead process is closed.                  *)
Dies(K, e) ==
    [p \in Procs |->
        IF p \in K /\ Alive(p)
        THEN [proc[p] EXCEPT !.st = IF p = "desc" THEN "gone" ELSE "zombie",
                             !.cg = FALSE, !.report = FALSE, !.exit = e]
        ELSE IF cfg.pid /\ "direct" \in K \ {p} /\ proc[p].st \notin {None, "gone"}
        THEN [proc[p] EXCEPT !.st = "gone", !.cg = FALSE, !.report = FALSE,
                             !.exit = IF Alive(p) THEN "killed" ELSE @]
        ELSE proc[p]]

Reaped(ps) == [ps EXCEPT !["direct"].st = "gone"]

Members(ps) == {p \in Procs : ps[p].cg}

(* Cgroup::drop: removes an empty directory, never kills.                  *)
DropCgroup(ps) == IF cfg.cgroup = "own" /\ Members(ps) = {} THEN FALSE ELSE dir

(* child_fail: one record into the status pipe, then _exit.  The keeper    *)
(* has no status pipe and just exits.                                      *)
child_fail(p, s) ==
    /\ proc' = Dies({p}, "failed")
    /\ status' = IF cfg.kind = "keeper" THEN status ELSE Append(status, s)
    /\ UNCHANGED <<cfg, owner, map, ready, installed, control, exitrec, handle>>

-----------------------------------------------------------------------------
(* The child side                                                          *)

Passed(p, s) == [proc EXCEPT ![p].at = @ + 1, ![p].has = @ \cup {s}]

Fails(p) ==
    /\ proc[p].st = "setup"
    /\ Stage(p) \notin {"Barrier", "CloseReport", "Loop", "Pause"}
    /\ child_fail(p, Stage(p))

(* A stage that only changes the process itself.                           *)
Passes(p, stages) ==
    /\ proc[p].st = "setup"
    /\ Stage(p) \in stages
    /\ Permitted(p, Stage(p))
    /\ proc' = Passed(p, Stage(p))
    /\ UNCHANGED <<cfg, owner, map, pipes, handle>>

(* PR_SET_PDEATHSIG, then the check that the parent has not died before it.*)
ParentDeath(p) == Passes(p, {"ParentDeath"})

(* The private mount tree, its read-only remount and the two idmapped      *)
(* views.                                                                  *)
Mounts(p) == Passes(p, {"MountPropagation", "MountReadOnly", "MountAttach"})

Credentials(p) == Passes(p, {"SetGid", "GroupClear", "SetUid", "Securebits"})

(* The standard streams, the session and the working directory.            *)
Session(p) == Passes(p, {"Session"})

drop_capabilities(p) == Passes(p, {"Capabilities"})

Confines(p) == Passes(p, {"NoNewPrivs", "Landlock", "Seccomp"})

FdHygiene(p) == Passes(p, {"FdHygiene"})

(* CallerMappedRoot: setgroups denied, then both maps, all by the child.   *)
UserNamespace ==
    /\ proc["direct"].st = "setup" /\ Stage("direct") = "UserNamespace"
    /\ map' = [uid |-> "self", gid |-> "self", setgroups |-> "deny"]
    /\ proc' = Passed("direct", "UserNamespace")
    /\ UNCHANGED <<cfg, owner, pipes, handle>>

Announce ==
    /\ proc["direct"].st = "setup" /\ Stage("direct") = "Announce"
    /\ ready' = TRUE
    /\ proc' = Passed("direct", "Announce")
    /\ UNCHANGED <<cfg, owner, map, installed, status, control, exitrec, handle>>

(* read_one blocks until the byte arrives.  The child holds a copy of the  *)
(* write end itself, so the parent's closing it is not end of file: a      *)
(* child whose parent gave up is killed here.                              *)
Barrier ==
    /\ proc["direct"].st = "setup" /\ Stage("direct") = "Barrier"
    /\ installed
    /\ proc' = Passed("direct", "Barrier")
    /\ UNCHANGED <<cfg, owner, map, pipes, handle>>

(* The nested clone3 into the domain's cgroup: PID 2 starts with what      *)
(* PID 1 has set up and with its own copy of the status pipe.              *)
Split ==
    /\ proc["direct"].st = "setup" /\ Stage("direct") = "Split"
    /\ Permitted("direct", "Split")
    /\ proc' = [Passed("direct", "Split") EXCEPT
                  !["user"] = [st |-> "setup", at |-> 1, has |-> proc["direct"].has,
                               cg |-> cfg.cgroup # "none", report |-> TRUE, exit |-> None]]
    /\ UNCHANGED <<cfg, owner, map, pipes, handle>>

(* execve closes the guard copy of the status pipe.                        *)
Exec(p) ==
    /\ proc[p].st = "setup" /\ Stage(p) = "Exec"
    /\ proc' = [proc EXCEPT ![p].st = "run", ![p].report = FALSE]
    /\ UNCHANGED <<cfg, owner, map, pipes, handle>>

(* PID 1 closes its copy and enters supervisor_loop; the keeper pauses.    *)
CloseReport ==
    /\ proc["direct"].st = "setup" /\ Stage("direct") = "CloseReport"
    /\ proc' = [Passed("direct", "CloseReport") EXCEPT !["direct"].report = FALSE]
    /\ UNCHANGED <<cfg, owner, map, pipes, handle>>

Settle ==
    /\ proc["direct"].st = "setup" /\ Stage("direct") \in {"Loop", "Pause"}
    /\ proc' = [proc EXCEPT !["direct"].st = "loop"]
    /\ UNCHANGED <<cfg, owner, map, pipes, handle>>

ChildStep(p) ==
    \/ ParentDeath(p) \/ Mounts(p) \/ Credentials(p) \/ Session(p)
    \/ drop_capabilities(p) \/ Confines(p) \/ FdHygiene(p) \/ Exec(p) \/ Fails(p)

DirectStep == UserNamespace \/ Announce \/ Barrier \/ Split \/ CloseReport \/ Settle

-----------------------------------------------------------------------------
(* PID 1's supervisor_loop                                                 *)

Supervises == cfg.pid /\ proc["direct"].st = "loop"

(* reap_nonblocking found the main child: finish_supervisor kills what is  *)
(* left, reaps it, writes the exit record and exits.                       *)
SupervisorFinish ==
    /\ Supervises
    /\ proc["user"].st = "zombie"
    /\ exitrec' = proc["user"].exit
    /\ proc' = Dies({"direct"}, "done")
    /\ UNCHANGED <<cfg, owner, map, ready, installed, status, control, handle>>

(* abort_supervisor: the parent's end is closed.                           *)
SupervisorAbort ==
    /\ Supervises
    /\ control = "closed"
    /\ proc' = Dies({"direct"}, "failed")
    /\ UNCHANGED <<cfg, owner, map, pipes, handle>>

(* A control packet asks for a signal to PID 2 or its group.               *)
SupervisorSignal ==
    /\ Supervises
    /\ control = "kill"
    /\ control' = "open"
    /\ proc' = Dies({"user"}, "killed")
    /\ UNCHANGED <<cfg, owner, map, ready, installed, status, exitrec, handle>>

Supervisor == SupervisorFinish \/ SupervisorAbort \/ SupervisorSignal

-----------------------------------------------------------------------------
(* The owner thread: spawn, spawn_with_cgroup_on_owner                     *)

Returns(r) == pc' = "idle" /\ result' = r

(* LinuxBackend::spawn makes a one-shot cgroup when limits need one; then  *)
(* Landlock, seccomp, stdio, the pipes, the parent's pidfd and the child   *)
(* setup are prepared.  Any of it may fail before a child exists.          *)
Prepare ==
    /\ pc = "prepare"
    /\ \/ /\ dir' = (cfg.cgroup = "own")
          /\ control' = IF cfg.pid THEN "open" ELSE None
          /\ pc' = "clone" /\ UNCHANGED result
       \/ /\ Returns("err") /\ UNCHANGED <<dir, control>>
    /\ UNCHANGED <<cfg, proc, map, ready, installed, status, exitrec, handle>>

(* clone3: CLONE_INTO_CGROUP for the direct child only without a PID       *)
(* namespace.  The parent then drops its copies of the child's ends.       *)
Clone ==
    /\ pc = "clone"
    /\ \/ /\ proc' = [proc EXCEPT !["direct"] =
                        [st |-> "setup", at |-> 1, has |-> {},
                         cg |-> cfg.cgroup # "none" /\ ~cfg.pid,
                         report |-> cfg.kind = "spawn", exit |-> None]]
          /\ pc' = IF cfg.identity = "Isolated" THEN "ready" ELSE "status"
          /\ UNCHANGED <<result, dir>>
       \/ /\ Returns("err")
          /\ dir' = DropCgroup(proc)
          /\ UNCHANGED proc
    /\ UNCHANGED <<cfg, map, pipes, handle>>

(* The readiness pipe is at its end once the child, its only writer after  *)
(* the parent dropped its copy, is dead.                                   *)
ReadyEofHeldOpen == FALSE

ReadyEof == ~ready /\ ~Alive("direct")

(* install_isolated_maps: MAP_READY, or end of file from a dead child.     *)
AwaitReady ==
    /\ pc = "ready"
    /\ \/ ready /\ pc' = "map"
       \/ ReadyEof /\ pc' = "reap"
    /\ UNCHANGED <<cfg, proc, map, pipes, dir, result, handle>>

(* The mapper seam: one helper for the uid_map, one for the gid_map.  A    *)
(* helper may fail, and one that succeeds may have written anything.       *)
MapInstall ==
    /\ pc = "map"
    /\ \/ /\ Alive("direct")
          /\ \E u, g \in {"exact", "other"}, s \in {"allow", "deny"} :
                map' = [uid |-> u, gid |-> g, setgroups |-> s]
          /\ pc' = "verify"
       \/ /\ map' \in {map, [map EXCEPT !.uid = "exact"]}
          /\ pc' = "reap"
    /\ UNCHANGED <<cfg, proc, pipes, dir, result, handle>>

(* expect_map_entry twice and expect_proc_entry: the maps read back.       *)
VerifiedUid == map.uid = "exact" /\ map.setgroups = "allow"

Verified == map.uid = "exact" /\ map.gid = "exact" /\ map.setgroups = "allow"

MapVerify ==
    /\ pc = "verify"
    /\ pc' = IF Verified /\ Alive("direct") THEN "release" ELSE "reap"
    /\ UNCHANGED <<cfg, proc, map, pipes, dir, result, handle>>

(* MAP_INSTALLED; a dead reader is EPIPE.  The keeper's parent goes on to  *)
(* open its namespace, a launch to read the status pipe.                   *)
Release ==
    /\ pc = "release"
    /\ IF Alive("direct")
       THEN /\ installed' = TRUE
            /\ pc' = IF cfg.kind = "keeper" THEN "open" ELSE "status"
       ELSE pc' = "reap" /\ UNCHANGED installed
    /\ UNCHANGED <<cfg, proc, map, ready, status, control, exitrec, dir, result, handle>>

OpenNamespace ==
    /\ pc = "open"
    /\ \/ Alive("direct") /\ pc' = "keep"
       \/ pc' = "reap"
    /\ UNCHANGED <<cfg, proc, map, pipes, dir, result, handle>>

(* read_child_failure: a record is failure, end of file without one is     *)
(* success.  (A read of the parent's own pipe is taken not to fail.)       *)
Outcome ==
    CASE status # <<>>                                    -> "Failed"
      [] status = <<>> /\ \A p \in Procs : ~proc[p].report -> "Clean"
      [] OTHER                                            -> "blocked"

ReadStatus ==
    /\ pc = "status"
    /\ \/ Outcome = "Failed" /\ pc' = "reap" /\ UNCHANGED <<result, handle>>
       \/ /\ Outcome = "Clean"
          /\ Returns("ok")
          /\ handle' = [at |-> "held", status |-> None]
    /\ UNCHANGED <<cfg, proc, map, pipes, dir>>

(* kill_and_reap, then the cgroup reference is dropped and the launch      *)
(* returns; all of the parent's descriptors close with it.                 *)
KilledNotReaped == Dies({"direct"}, "killed")

Killed == Reaped(Dies({"direct"}, "killed"))

Reap ==
    /\ pc \in {"reap", "keep"}
    /\ proc' = Killed
    /\ dir' = DropCgroup(proc')
    /\ control' = IF cfg.pid THEN "closed" ELSE control
    /\ Returns(IF pc = "keep" THEN "ok" ELSE "err")
    /\ UNCHANGED <<cfg, map, ready, installed, status, exitrec, handle>>

Owner == Prepare \/ Clone \/ AwaitReady \/ MapInstall \/ MapVerify \/ Release
         \/ OpenNamespace \/ ReadStatus \/ Reap

-----------------------------------------------------------------------------
(* The handle: SandboxChild and LinuxChild                                 *)

(* What wait reports: the direct child's status, or the supervisor's exit  *)
(* record, whose absence is an error.                                      *)
WaitedDirect == proc["direct"].exit

Waited == IF cfg.pid THEN exitrec ELSE proc["direct"].exit

(* wait, and try_wait once the child has exited.  A completed wait runs    *)
(* teardown, which finds the child no longer running: it drops the cgroup  *)
(* reference and closes the channels.  An error leaves the handle as it is.*)
Wait ==
    /\ handle.at = "held" /\ proc["direct"].st = "zombie"
    /\ proc' = Reaped(proc)
    /\ IF Waited = None
       THEN UNCHANGED <<handle, dir, control>>
       ELSE /\ handle' = [at |-> "waited", status |-> Waited]
            /\ dir' = DropCgroup(proc')
            /\ control' = IF cfg.pid THEN "closed" ELSE control
    /\ UNCHANGED <<cfg, pc, map, ready, installed, status, exitrec, result>>

(* signal and signal_process_group with SIGKILL: through the supervisor,   *)
(* or at the process.                                                      *)
Signal ==
    /\ handle.at = "held"
    /\ IF cfg.pid
       THEN control = "open" /\ control' = "kill" /\ UNCHANGED proc
       ELSE proc' = Dies({"direct"}, "killed") /\ UNCHANGED control
    /\ UNCHANGED <<cfg, owner, map, ready, installed, status, exitrec, handle>>

(* Drop without a wait: SIGKILL to PID 1 or to the group, a bounded reap   *)
(* that may give up, cgroup.kill for a one-shot cgroup only.               *)
TornDownMembers == IF cfg.cgroup = "own" THEN Members(proc) ELSE {}

TornDown == IF cfg.cgroup = "own" THEN {"direct"} \cup Members(proc) ELSE {"direct"}

Teardown ==
    /\ handle.at = "held"
    /\ \/ proc' = [Dies(TornDown, "killed") EXCEPT !["direct"].st = "gone"]
       \/ proc["direct"].st # "gone" /\ proc' = Dies(TornDown, "killed")
    /\ dir' = DropCgroup(proc')
    /\ control' = IF cfg.pid THEN "closed" ELSE control
    /\ handle' = [handle EXCEPT !.at = "dropped"]
    /\ UNCHANGED <<cfg, pc, map, ready, installed, status, exitrec, result>>

Holder == Wait \/ Signal \/ Teardown

-----------------------------------------------------------------------------
(* The program, and the owner of a shared process domain                   *)

Fork ==
    /\ proc[User].st = "run" /\ proc["desc"].st = None
    /\ proc' = [proc EXCEPT !["desc"] = [proc[User] EXCEPT !.at = 0]]
    /\ UNCHANGED <<cfg, owner, map, pipes, handle>>

Exit ==
    /\ \E p \in {User, "desc"} : proc[p].st = "run" /\ proc' = Dies({p}, "own")
    /\ UNCHANGED <<cfg, owner, map, pipes, handle>>

KillAll ==
    /\ DomainKill /\ cfg.cgroup = "shared" /\ Members(proc) # {}
    /\ proc' = Dies(Members(proc), "killed")
    /\ UNCHANGED <<cfg, owner, map, pipes, handle>>

Environment == Fork \/ Exit \/ KillAll

-----------------------------------------------------------------------------

Init ==
    /\ cfg \in Configs
    /\ pc = "prepare" /\ result = None /\ dir = FALSE
    /\ proc = [p \in Procs |-> NoProc]
    /\ map = Unmapped
    /\ ready = FALSE /\ installed = FALSE /\ status = <<>>
    /\ control = None /\ exitrec = None
    /\ handle = [at |-> None, status |-> None]

Engine == Owner \/ DirectStep \/ (\E p \in {"direct", "user"} : ChildStep(p))
          \/ Supervisor \/ Environment

Next == Engine \/ Holder

Spec == Init /\ [][Next]_vars

-----------------------------------------------------------------------------
(* Properties                                                              *)

Required(c) ==
    {"NoNewPrivs", "Capabilities", "FdHygiene"}
    \cup (IF c.identity = "Isolated" THEN {"SetGid", "GroupClear", "SetUid", "Securebits"} ELSE {})
    \cup (IF c.identity = "CallerMappedRoot" THEN {"UserNamespace"} ELSE {})
    \cup (IF c.mount THEN {"MountPropagation"} ELSE {})
    \cup (IF c.views THEN {"MountReadOnly", "MountAttach"} ELSE {})
    \cup (IF c.landlock THEN {"Landlock"} ELSE {})
    \cup (IF c.seccomp THEN {"Seccomp"} ELSE {})

(* Code of the sandbox - the program and what it forks - runs only with    *)
(* every requested mechanism in place, inside its cgroup, and for an       *)
(* isolated launch under exactly the leased UID and GID with the daemon's  *)
(* groups cleared, whatever fails, whoever dies and whatever the mapping   *)
(* helpers wrote.                                                          *)
UserCodeConfined ==
    \A p \in Procs : proc[p].st = "run" =>
        /\ Required(cfg) \subseteq proc[p].has
        /\ cfg.identity = "Isolated" =>
              map = [uid |-> "exact", gid |-> "exact", setgroups |-> "allow"]
        /\ cfg.cgroup # "none" => proc[p].cg

(* A launch that returned an error left no process behind, not even a      *)
(* zombie, and no one-shot cgroup; the keeper of an ID-map namespace is    *)
(* gone whether the call succeeded or not.                                 *)
ErrorLeavesNothing ==
    pc = "idle" /\ (result = "err" \/ cfg.kind = "keeper") =>
        /\ \A p \in Procs : proc[p].st \in {None, "gone"}
        /\ ~dir

(* A completed wait reports how the program itself ended, not PID 1; and   *)
(* after it nothing of a PID namespace is left running.                    *)
WaitReportsTheProgram ==
    handle.at = "waited" =>
        /\ handle.status = proc[User].exit
        /\ cfg.pid => \A p \in Procs : proc[p].st \in {None, "gone"}

=============================================================================
