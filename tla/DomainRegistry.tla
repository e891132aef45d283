--------------------------- MODULE DomainRegistry ---------------------------
(***************************************************************************)
(* The per-sandbox process-domain registry of the Linux launcher           *)
(* (platform/linux.rs).  A slot follows one sandbox's cgroup domain        *)
(* through Creating, Active, Deleting and CleanupPending while launches    *)
(* join it, waiters leave it, and deletion or daemon shutdown tear it down.*)
(*                                                                         *)
(* One action is one critical section of `slots`, or one blocking step     *)
(* the code takes with that lock released.  A generation is named by its   *)
(* number; 0 is Rust's None.  The slot's `generation` field is never read  *)
(* by the code and is left out, and its `identity` is the identity of the  *)
(* generation it holds.                                                    *)
(***************************************************************************)
EXTENDS Naturals, FiniteSets

CONSTANTS Sandboxes,    \* sandbox ids
          Launches,     \* threads inside LinuxLauncher::launch, with their waiters
          Deleters,     \* threads inside release_sandbox_resources for a delete
          Shutdown,     \* the thread inside shutdown_sandbox_resources
          Identities,   \* subordinate identities a launch request may carry
          MaxGen,       \* bound: generations created
          Faults,       \* operations that may fail in this instance
          Signals       \* termination signals the daemon may receive

AllFaults == {"create", "dupfd", "kill", "observe", "rmdir", "temp", "timeout"}

Gens == 1 .. MaxGen
Releasers == Deleters \union {Shutdown}
Detached == "detached"   \* the detached descendants of a domain, as one member
Members == Launches \union {Detached}

ASSUME RegistryAssumption ==
    /\ MaxGen \in Nat
    /\ Faults \subseteq AllFaults
    /\ Signals \subseteq {"first", "second"}
    /\ Shutdown \notin Deleters
    /\ IsFiniteSet(Launches) /\ Detached \notin Launches

VARIABLES slots,            \* DomainRegistry.slots
          next_generation,  \* DomainRegistry.next_generation
          accepting,        \* DomainRegistry.accepting
          gens,             \* each generation's cgroup, runtime temp and identity
          members,          \* cgroup membership of each generation
          launch,           \* per launch: program counter, request, generation
          release,          \* per releaser: program counter, target, pieces taken
          todo,             \* sandbox ids the shutdown thread has still to release
          first_error,      \* whether the shutdown thread has recorded an error
          stopped           \* shutdown passes begun so far

shutdownVars == <<todo, first_error, stopped>>
vars == <<slots, next_generation, accepting, gens, members, launch, release, shutdownVars>>

-----------------------------------------------------------------------------
(* Slot states. *)
Absent == [tag |-> "absent"]
Creating == [tag |-> "Creating"]
Active(n, d, t) == [tag |-> "Active", in_flight |-> n, domain |-> d, temp |-> t]
Deleting(n, d, t) == [tag |-> "Deleting", in_flight |-> n, domain |-> d, temp |-> t]
CleanupPending(t) == [tag |-> "CleanupPending", temp |-> t]

SetSlot(s, v) == slots' = [slots EXCEPT ![s] = v]

(* The kernel's view of a domain. *)
populatedByChildren(g) == \E m \in Launches : members[g][m] # "none"
populated(g) == \E m \in Members : members[g][m] # "none"

(* cgroup.kill: every current member is sent SIGKILL; a process spawned      *)
(* into the domain afterwards is not affected.                               *)
kill_all(g) ==
    [members EXCEPT ![g] = [m \in Members |->
        IF members[g][m] = "alive" THEN "dying" ELSE members[g][m]]]

Init ==
    /\ slots = [s \in Sandboxes |-> Absent]
    /\ next_generation = 1
    /\ accepting = TRUE
    /\ gens = [g \in Gens |-> [cgroup |-> "none"]]
    /\ members = [g \in Gens |-> [m \in Members |-> "none"]]
    /\ launch = [l \in Launches |-> [pc |-> "idle"]]
    /\ release = [r \in Releasers |-> [pc |-> "idle"]]
    /\ todo = {}
    /\ first_error = FALSE
    /\ stopped = {}

-----------------------------------------------------------------------------
(* A launch: process_domain, create_generation, spawn, wait_process.         *)

GoLaunch(l, v) == launch' = [launch EXCEPT ![l] = v]
FailLaunch(l) == GoLaunch(l, [pc |-> "idle"])
At(l, pc) == launch[l].pc = pc
Request(l, pc, g) == [launch[l] EXCEPT !.pc = pc, !.gen = g]

(* The manager hands the launcher a request for a sandbox with the identity  *)
(* its handle was given.                                                     *)
LaunchBegin(l) ==
    /\ At(l, "idle")
    /\ \E s \in Sandboxes, i \in Identities :
         GoLaunch(l, [pc |-> "join", sandbox |-> s, identity |-> i, gen |-> 0])
    /\ UNCHANGED <<slots, next_generation, accepting, gens, members, release, shutdownVars>>

(* Bound: every creation under way can still be given a number.              *)
Room == next_generation + Cardinality({k \in Launches : launch[k].pc \in {"clean", "create"}})
          <= MaxGen

(* Join::StartCreating / CleanPending: publish the Creating marker.  The     *)
(* latter takes the pending temp tree out of the slot to remove it unlocked. *)
JoinCreate(l) ==
    LET s == launch[l].sandbox IN
    /\ At(l, "join") /\ accepting /\ Room
    /\ \/ /\ slots[s].tag = "absent"
          /\ GoLaunch(l, Request(l, "create", 0))
       \/ /\ slots[s].tag = "CleanupPending"
          /\ GoLaunch(l, Request(l, "clean", slots[s].temp))
    /\ SetSlot(s, Creating)
    /\ UNCHANGED <<next_generation, accepting, gens, members, release, shutdownVars>>

(* Join::Joined: register one in-flight launch, unless duplicating the       *)
(* generation's mount ID-map namespace fails.                                *)
SameIdentity(slot, l) == gens[slot.domain].identity = launch[l].identity

JoinActive(l) ==
    LET s == launch[l].sandbox
        slot == slots[s]
    IN
    /\ At(l, "join") /\ accepting
    /\ slot.tag = "Active"
    /\ SameIdentity(slot, l)
    /\ \/ /\ SetSlot(s, [slot EXCEPT !.in_flight = @ + 1])
          /\ GoLaunch(l, Request(l, "leased", slot.domain))
       \/ /\ "dupfd" \in Faults
          /\ FailLaunch(l)
          /\ UNCHANGED slots
    /\ UNCHANGED <<next_generation, accepting, gens, members, release, shutdownVars>>

(* Every early return of process_domain that leaves the registry alone:      *)
(* shutting down, identity mismatch, deletion in progress, or a wait on a    *)
(* Creating marker that ran out of time.                                     *)
JoinRefused(l) ==
    LET slot == slots[launch[l].sandbox] IN
    /\ At(l, "join")
    /\ \/ ~accepting
       \/ slot.tag = "Active" /\ ~SameIdentity(slot, l)
       \/ slot.tag = "Deleting"
       \/ slot.tag = "Creating" /\ "timeout" \in Faults
    /\ FailLaunch(l)
    /\ UNCHANGED <<slots, next_generation, accepting, gens, members, release, shutdownVars>>

(* The unlocked retry of a pending temp cleanup, and the re-lock after it.   *)
CleanPending(l) ==
    LET s == launch[l].sandbox
        t == launch[l].gen
    IN
    /\ At(l, "clean")
    /\ \/ /\ gens' = [gens EXCEPT ![t].temp = FALSE]
          /\ GoLaunch(l, Request(l, IF slots[s].tag = "Creating" THEN "create" ELSE "join", 0))
          /\ UNCHANGED slots
       \/ /\ "temp" \in Faults
          /\ SetSlot(s, CleanupPending(t))
          /\ FailLaunch(l)
          /\ UNCHANGED gens
    /\ UNCHANGED <<next_generation, accepting, members, release, shutdownVars>>

(* create_generation, without the lock: the domain scope, a number, a temp   *)
(* tree, a cgroup and (isolated) a user namespace.  A failure undoes what    *)
(* was made, best effort: rmdir or temp removal may fail and leave a remnant *)
(* for the next startup sweep.                                               *)
create_generation(l) ==
    /\ At(l, "create")
    /\ \/ /\ next_generation' = next_generation + 1
          /\ \/ /\ gens' = [gens EXCEPT ![next_generation] =
                      [cgroup |-> "present", temp |-> TRUE,
                       sandbox |-> launch[l].sandbox, identity |-> launch[l].identity]]
                /\ GoLaunch(l, Request(l, "publish", next_generation))
             \/ /\ "create" \in Faults
                /\ \E cgroup \in {"removed"} \union (IF "rmdir" \in Faults THEN {"present"} ELSE {}),
                      temp \in {FALSE} \union (IF "temp" \in Faults THEN {TRUE} ELSE {}) :
                     gens' = [gens EXCEPT ![next_generation] =
                       [cgroup |-> cgroup, temp |-> temp,
                        sandbox |-> launch[l].sandbox, identity |-> launch[l].identity]]
                /\ GoLaunch(l, Request(l, "publish", 0))
       \/ /\ "create" \in Faults
          /\ GoLaunch(l, Request(l, "publish", 0))
          /\ UNCHANGED <<next_generation, gens>>
    /\ UNCHANGED <<slots, accepting, members, release, shutdownVars>>

(* Back under the lock after create_generation.  A failed creation retracts  *)
(* the marker.  A successful one publishes Active with one launch in flight; *)
(* when the namespace cannot then be duplicated the function returns before  *)
(* a DomainLease exists.  A slot taken by a competing transition makes the   *)
(* creator discard its own generation.                                       *)
MarkerKept(s) == slots[s]
MarkerRetracted(s) == IF slots[s].tag = "Creating" THEN Absent ELSE slots[s]

Publish(l) ==
    LET s == launch[l].sandbox
        g == launch[l].gen
    IN
    /\ At(l, "publish")
    /\ \/ /\ g = 0
          /\ SetSlot(s, MarkerRetracted(s))
          /\ FailLaunch(l)
          /\ UNCHANGED gens
       \/ /\ g # 0
          /\ slots[s].tag \in {"Creating", "absent"}
          /\ SetSlot(s, Active(1, g, g))
          /\ \/ GoLaunch(l, Request(l, "leased", g))
             \/ "dupfd" \in Faults /\ FailLaunch(l)
          /\ UNCHANGED gens
       \/ /\ g # 0
          /\ slots[s].tag \notin {"Creating", "absent"}
          /\ gens' = [gens EXCEPT ![g].cgroup = "removed", ![g].temp = FALSE]
          /\ FailLaunch(l)
          /\ UNCHANGED slots
    /\ UNCHANGED <<next_generation, accepting, members, release, shutdownVars>>

(* The engine spawns the launch's direct child into the domain's cgroup.     *)
Spawn(l) ==
    /\ At(l, "leased")
    /\ gens[launch[l].gen].cgroup = "present"
    /\ GoLaunch(l, Request(l, "running", launch[l].gen))
    /\ members' = [members EXCEPT ![launch[l].gen][l] = "alive"]
    /\ UNCHANGED <<slots, next_generation, accepting, gens, release, shutdownVars>>

(* A running child leaves a detached descendant behind.                      *)
Fork(l) ==
    /\ At(l, "running")
    /\ members[launch[l].gen][l] = "alive"
    /\ members' = [members EXCEPT ![launch[l].gen][Detached] = "alive"]
    /\ UNCHANGED <<slots, next_generation, accepting, gens, launch, release, shutdownVars>>

(* A member exits, of its own accord or because it was killed.               *)
Exit(g, m) ==
    /\ members[g][m] # "none"
    /\ members' = [members EXCEPT ![g][m] = "none"]
    /\ UNCHANGED <<slots, next_generation, accepting, gens, launch, release, shutdownVars>>

KeptTemp(slot) == CleanupPending(slot.temp)

(* The outcomes of launch_finished on an Active slot whose count reached     *)
(* zero with no member left: the cgroup cannot be observed or removed and    *)
(* the slot stays; the temp tree cannot be removed and the slot keeps it;    *)
(* or the slot retires.                                                      *)
Retire(s, slot) ==
    \/ /\ Faults \cap {"observe", "rmdir"} # {}
       /\ SetSlot(s, slot) /\ UNCHANGED gens
    \/ /\ "temp" \in Faults
       /\ SetSlot(s, KeptTemp(slot))
       /\ gens' = [gens EXCEPT ![slot.domain].cgroup = "removed"]
    \/ /\ SetSlot(s, Absent)
       /\ gens' = [gens EXCEPT ![slot.domain].cgroup = "removed",
                               ![slot.domain].temp = FALSE]

(* Dropping the DomainLease: when the launch fails before its child runs, or *)
(* when the waiter has reaped the child.                                     *)
launch_finished(l) ==
    LET s == launch[l].sandbox
        slot == slots[s]
        less == [slot EXCEPT !.in_flight = IF @ = 0 THEN 0 ELSE @ - 1]
    IN
    /\ \/ At(l, "leased")
       \/ At(l, "running") /\ members[launch[l].gen][l] = "none"
    /\ FailLaunch(l)
    /\ \/ /\ slot.tag = "Active"
          /\ IF less.in_flight = 0 /\ ~populated(slot.domain)
             THEN Retire(s, less)
             ELSE SetSlot(s, less) /\ UNCHANGED gens
       \/ /\ slot.tag = "Deleting"
          /\ SetSlot(s, less) /\ UNCHANGED gens
       \/ /\ slot.tag \notin {"Active", "Deleting"}
          /\ UNCHANGED <<slots, gens>>
    /\ UNCHANGED <<next_generation, accepting, members, release, shutdownVars>>

-----------------------------------------------------------------------------
(* release_sandbox_resources, called by a delete or by the shutdown thread.  *)

GoRelease(r, v) == release' = [release EXCEPT ![r] = v]
In(r, pc) == release[r].pc = pc
Idle(r) == release[r].pc \in {"idle", "ok", "err"}
Call(s) == [pc |-> "wait", sandbox |-> s, domain |-> 0, temp |-> 0]
(* The shutdown loop remembers that some release failed.                     *)
Return(r, result) ==
    /\ GoRelease(r, [pc |-> result, sandbox |-> release[r].sandbox])
    /\ first_error' = (first_error \/ (r = Shutdown /\ result = "err"))
    /\ UNCHANGED <<todo, stopped>>

(* The manager's lifecycle lock admits one delete per sandbox.               *)
DeleteBegin(d) ==
    /\ d \in Deleters /\ Idle(d)
    /\ \E s \in Sandboxes :
         /\ \A e \in Deleters : ~Idle(e) => release[e].sandbox # s
         /\ GoRelease(d, Call(s))
    /\ UNCHANGED <<slots, next_generation, accepting, gens, members, launch, shutdownVars>>

(* Phase::Absent, and the waits on Creating or on the launch barrier that    *)
(* ran out of time.                                                          *)
ReleaseReturnOk(r) ==
    /\ In(r, "wait")
    /\ \/ slots[release[r].sandbox].tag = "absent"
       \/ "timeout" \in Faults /\ slots[release[r].sandbox].tag \in {"Creating", "Deleting"}
    /\ Return(r, "ok")
    /\ UNCHANGED <<slots, next_generation, accepting, gens, members, launch>>

ReleaseReturn(r) ==
    LET slot == slots[release[r].sandbox] IN
    /\ In(r, "wait")
    /\ \/ slot.tag = "absent" /\ Return(r, "ok")
       \/ /\ "timeout" \in Faults
          /\ slot.tag = "Creating" \/ (slot.tag = "Deleting" /\ slot.in_flight > 0)
          /\ Return(r, "err")
    /\ UNCHANGED <<slots, next_generation, accepting, gens, members, launch>>

(* Phase::MarkDeleting: kill first, then reject new launches; a failed kill  *)
(* restores the Active slot.                                                 *)
MarkDeleting(r) ==
    LET s == release[r].sandbox
        slot == slots[s]
    IN
    /\ In(r, "wait") /\ slot.tag = "Active"
    /\ \/ /\ members' = kill_all(slot.domain)
          /\ SetSlot(s, Deleting(slot.in_flight, slot.domain, slot.temp))
          /\ UNCHANGED <<release, shutdownVars>>
       \/ /\ "kill" \in Faults
          /\ Return(r, "err")
          /\ UNCHANGED <<slots, members>>
    /\ UNCHANGED <<next_generation, accepting, gens, launch>>

(* Phase::TakeOver: the barrier drained; move the pieces out of the slot.    *)
DrainedAlways(slot) == TRUE
Drained(slot) == slot.in_flight = 0

TakeOver(r) ==
    LET s == release[r].sandbox
        slot == slots[s]
    IN
    /\ In(r, "wait") /\ slot.tag = "Deleting" /\ Drained(slot)
    /\ GoRelease(r, [release[r] EXCEPT !.pc = IF slot.domain = 0 THEN "temp" ELSE "kill",
                                       !.domain = slot.domain, !.temp = slot.temp])
    /\ SetSlot(s, Deleting(0, 0, 0))
    /\ UNCHANGED <<next_generation, accepting, gens, members, launch, shutdownVars>>

(* Phase::FinishPendingCleanup: the marker goes up, the tree is removed      *)
(* unlocked, and the slot goes away or gets the tree back.                   *)
FinishPendingBegin(r) ==
    LET s == release[r].sandbox IN
    /\ In(r, "wait") /\ slots[s].tag = "CleanupPending"
    /\ GoRelease(r, [release[r] EXCEPT !.pc = "pending", !.temp = slots[s].temp])
    /\ SetSlot(s, Creating)
    /\ UNCHANGED <<next_generation, accepting, gens, members, launch, shutdownVars>>

FinishPendingEnd(r) ==
    LET s == release[r].sandbox
        t == release[r].temp
    IN
    /\ In(r, "pending")
    /\ \/ /\ gens' = [gens EXCEPT ![t].temp = FALSE]
          /\ SetSlot(s, IF slots[s].tag = "Creating" THEN Absent ELSE slots[s])
          /\ Return(r, "ok")
       \/ /\ "temp" \in Faults
          /\ SetSlot(s, IF slots[s].tag = "Creating" THEN CleanupPending(t) ELSE slots[s])
          /\ Return(r, "err")
          /\ UNCHANGED gens
    /\ UNCHANGED <<next_generation, accepting, members, launch>>

(* The teardown closure, outside the lock: kill, wait until empty, remove    *)
(* the cgroup, then the temp tree.                                           *)
TeardownKill(r) ==
    /\ In(r, "kill")
    /\ \/ /\ members' = kill_all(release[r].domain)
          /\ GoRelease(r, [release[r] EXCEPT !.pc = "empty"])
       \/ /\ "kill" \in Faults
          /\ GoRelease(r, [release[r] EXCEPT !.pc = "restore"])
          /\ UNCHANGED members
    /\ UNCHANGED <<slots, next_generation, accepting, gens, launch, shutdownVars>>

Empty(r) == ~populated(release[r].domain)

TeardownRemove(r) ==
    /\ In(r, "empty")
    /\ \/ /\ Empty(r)
          /\ gens' = [gens EXCEPT ![release[r].domain].cgroup = "removed"]
          /\ GoRelease(r, [release[r] EXCEPT !.pc = "temp", !.domain = 0])
       \/ /\ Faults \cap {"timeout", "observe", "rmdir"} # {}
          /\ GoRelease(r, [release[r] EXCEPT !.pc = "restore"])
          /\ UNCHANGED gens
    /\ UNCHANGED <<slots, next_generation, accepting, members, launch, shutdownVars>>

TeardownTemp(r) ==
    LET t == release[r].temp IN
    /\ In(r, "temp")
    /\ \/ /\ gens' = IF t = 0 THEN gens ELSE [gens EXCEPT ![t].temp = FALSE]
          /\ GoRelease(r, [release[r] EXCEPT !.pc = "remove", !.temp = 0])
       \/ /\ t # 0 /\ "temp" \in Faults
          /\ GoRelease(r, [release[r] EXCEPT !.pc = "restore"])
          /\ UNCHANGED gens
    /\ UNCHANGED <<slots, next_generation, accepting, members, launch, shutdownVars>>

(* Back under the lock: remove the slot whatever it now is, or put back the  *)
(* pieces that still exist so that the caller can retry.                     *)
Restored(r) == Deleting(0, release[r].domain, release[r].temp)

ReleaseEnd(r) ==
    LET s == release[r].sandbox IN
    /\ \/ In(r, "remove") /\ SetSlot(s, Absent) /\ Return(r, "ok")
       \/ In(r, "restore") /\ SetSlot(s, Restored(r)) /\ Return(r, "err")
    /\ UNCHANGED <<next_generation, accepting, gens, members, launch>>

-----------------------------------------------------------------------------
(* shutdown_sandbox_resources and force_shutdown_sandbox_resources.          *)

Live == {s \in Sandboxes : slots[s].tag = "Active"}

(* Mark every Active slot Deleting and kill its domain; a kill that fails    *)
(* does not stop the others.                                                 *)
MarkAllDeleting(killed) ==
    /\ slots' = [s \in Sandboxes |->
         IF s \in Live THEN Deleting(slots[s].in_flight, slots[s].domain, slots[s].temp)
         ELSE slots[s]]
    /\ members' = [g \in Gens |-> IF \E s \in killed : slots[s].domain = g
                                  THEN kill_all(g)[g] ELSE members[g]]
Killable == IF "kill" \in Faults THEN SUBSET Live ELSE {Live}

StopAccepting ==
    /\ "first" \in Signals \ stopped
    /\ accepting' = FALSE
    /\ stopped' = stopped \union {"first"}
    /\ GoRelease(Shutdown, [pc |-> "stop"])
    /\ UNCHANGED <<slots, next_generation, gens, members, launch, todo, first_error>>

RunningOnly == Live
Present == {s \in Sandboxes : slots[s].tag # "absent"}

ShutdownSnapshot ==
    /\ In(Shutdown, "stop")
    /\ todo' = Present
    /\ \E killed \in Killable :
         MarkAllDeleting(killed) /\ first_error' = (killed # Live)
    /\ GoRelease(Shutdown, [pc |-> "next"])
    /\ UNCHANGED <<next_generation, accepting, gens, launch, stopped>>

ShutdownNext ==
    /\ release[Shutdown].pc \in {"next", "ok", "err"}
    /\ \E s \in todo :
         /\ todo' = todo \ {s}
         /\ GoRelease(Shutdown, Call(s))
    /\ UNCHANGED <<slots, next_generation, accepting, gens, members, launch, first_error, stopped>>

(* The second signal arrives while the first shutdown is still at work.      *)
ForceShutdown ==
    /\ "second" \in Signals \ stopped /\ "first" \in stopped
    /\ stopped' = stopped \union {"second"}
    /\ \E killed \in Killable : MarkAllDeleting(killed)
    /\ UNCHANGED <<next_generation, accepting, gens, launch, release, todo, first_error>>

-----------------------------------------------------------------------------
LaunchStep(l) ==
    \/ LaunchBegin(l) \/ JoinCreate(l) \/ JoinActive(l) \/ JoinRefused(l)
    \/ CleanPending(l) \/ create_generation(l) \/ Publish(l)
    \/ Spawn(l) \/ Fork(l) \/ launch_finished(l)

ReleaseStep(r) ==
    \/ ReleaseReturn(r) \/ MarkDeleting(r) \/ TakeOver(r)
    \/ FinishPendingBegin(r) \/ FinishPendingEnd(r)
    \/ TeardownKill(r) \/ TeardownRemove(r) \/ TeardownTemp(r) \/ ReleaseEnd(r)

Next ==
    \/ \E l \in Launches : LaunchStep(l)
    \/ \E g \in Gens, m \in Members : Exit(g, m)
    \/ \E d \in Deleters : DeleteBegin(d)
    \/ \E r \in Releasers : ReleaseStep(r)
    \/ StopAccepting \/ ShutdownSnapshot \/ ShutdownNext \/ ForceShutdown

Spec == Init /\ [][Next]_vars

(* A thread that is inside the launcher keeps running: it resolves the       *)
(* marker it published and finishes the teardown it took over.  A process    *)
(* that was sent SIGKILL dies, and any other process may run for ever.  No   *)
(* request, signal or voluntary exit is ever owed.                           *)
Fairness ==
    /\ \A l \in Launches :
         WF_vars(\/ JoinCreate(l) \/ JoinActive(l) \/ JoinRefused(l) \/ CleanPending(l)
                 \/ create_generation(l) \/ Publish(l) \/ Spawn(l) \/ launch_finished(l))
    /\ \A r \in Releasers : WF_vars(ReleaseStep(r))
    /\ \A g \in Gens, m \in Members : WF_vars(members[g][m] = "dying" /\ Exit(g, m))

FairSpec == Spec /\ Fairness

-----------------------------------------------------------------------------
(* Properties. *)

HasMembers(g) == \E m \in Members : members[g][m] # "none"
Leases(s) == {l \in Launches : launch[l].pc \in {"leased", "running"} /\ launch[l].sandbox = s}
Holds(r, g) == release[r].pc \in {"kill", "empty", "restore"} /\ release[r].domain = g

(* The lease of a launch protects what it runs in: the in-flight barrier     *)
(* counts every outstanding DomainLease of its sandbox (launch_finished and  *)
(* the WaitBarrier phase), so that neither a deletion nor an empty cleanup   *)
(* passes while a launch or its waiter still holds one; and the domain was   *)
(* created for the launch's own sandbox under its own subordinate identity   *)
(* (Join::IdentityMismatch).                                                 *)
LeasesProtect ==
    /\ \A s \in Sandboxes :
         Cardinality(Leases(s)) <=
            IF slots[s].tag \in {"Active", "Deleting"} THEN slots[s].in_flight ELSE 0
    /\ \A l \in Launches : launch[l].pc \in {"leased", "running"} =>
         /\ gens[launch[l].gen].sandbox = launch[l].sandbox
         /\ gens[launch[l].gen].identity = launch[l].identity

(* A domain that still has members is owned, by the sandbox's slot or by the *)
(* releaser that took it over, and so is the runtime TMPDIR its processes    *)
(* use (the retention rule stated on DomainSlot::Active): no error path of   *)
(* create, launch or release drops the last reference to running processes.  *)
(* It is the only populated domain of its sandbox: a new generation is       *)
(* created only after the previous one emptied.                              *)
PopulatedDomainIsOwned ==
    \A g \in Gens : HasMembers(g) =>
        /\ \/ LET slot == slots[gens[g].sandbox]
              IN slot.tag \in {"Active", "Deleting"} /\ slot.domain = g
           \/ \E r \in Releasers : Holds(r, g)
        /\ gens[g].temp
        /\ \A h \in Gens : HasMembers(h) /\ gens[h].sandbox = gens[g].sandbox => h = g

(* When release_sandbox_resources reports success, no process of the sandbox *)
(* is left, so its caller may remove the workspace and free the identity.    *)
ReleaseMeansGone ==
    [][\A r \in Releasers, s \in Sandboxes :
         ~Idle(r) /\ In(r, "ok")' /\ release'[r].sandbox = s =>
            \A g \in Gens : HasMembers(g) => gens[g].sandbox # s]_vars

(* After a shutdown that recorded no error no sandbox process is left and    *)
(* none can appear: creators caught by the snapshot were waited for, later   *)
(* launches were refused.                                                    *)
ShutdownMeansGone ==
    (release[Shutdown].pc \in {"next", "ok"} /\ todo = {} /\ ~first_error) =>
        /\ \A s \in Sandboxes : slots[s] = Absent
        /\ \A g \in Gens : ~HasMembers(g)

(* A Creating marker is always resolved by whoever published it, so launches *)
(* and deletions that wait on it are not stuck on a dead creator.            *)
CreatingResolves ==
    \A s \in Sandboxes : slots[s].tag = "Creating" ~> slots[s].tag # "Creating"
=============================================================================
