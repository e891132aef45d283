------------------------------- MODULE Daemon -------------------------------
(***************************************************************************)
(* The life of a daemon process: the bootstrap and the signal loop of      *)
(* main.rs, the advisory locks of lockfile.rs, the host key of hostkey.rs, *)
(* and the server of server.rs with its connection slots, its handshake    *)
(* supervision and the registry of host tasks.                             *)
(*                                                                         *)
(* Several daemons are started on the same data and state roots; any of    *)
(* them may fail, be killed or be restarted.  The locks let one serve at a *)
(* time, so the variables of the server belong to the daemon that serves.  *)
(***************************************************************************)
EXTENDS Naturals, FiniteSets

CONSTANTS
  Daemons,                         \* daemon processes on the same roots
  Conns,                           \* transport connections
  max_connections,                 \* Caps
  max_unauthenticated_connections  \* Caps

VARIABLES
  lock,       \* the holder of registry.lock and of the state lock
  hostkey,    \* the host key on disk, by its author
  dm,         \* the daemons: where run() is, its key, its reconciliation thread
  serve,      \* where SshServer::serve is
  closed,     \* HostTaskRegistry::closed
  tasks,      \* the entries of the host task registry
  joining,    \* the join handles join_all has drained and awaits
  conn,       \* connections: handler, slot and host bridge
  total,      \* Limiter::total
  unauth      \* Limiter::unauthenticated

Nobody == "nobody"
Operator == "operator"
Roles == {"registry", "state"}   \* LockRole

ASSUME DaemonAssumption ==
  /\ IsFiniteSet(Conns)
  /\ max_connections \in Nat /\ max_unauthenticated_connections \in Nat
  /\ Nobody \notin Daemons /\ Operator \notin Daemons

server == <<serve, closed, tasks, joining, conn, total, unauth>>
vars == <<lock, hostkey, dm, server>>

Off == [pc |-> "off", key |-> Nobody, recon |-> "none", signals |-> 0]
NoConn == [pc |-> "none", slot |-> FALSE, principal |-> FALSE, told |-> FALSE,
           host |-> "none", live |-> FALSE, busy |-> FALSE]

Init ==
  /\ lock = [r \in Roles |-> Nobody]
  /\ hostkey = Nobody
  /\ dm = [d \in Daemons |-> Off]
  /\ serve = "off"
  /\ closed = FALSE
  /\ tasks = {} /\ joining = {}
  /\ conn = [c \in Conns |-> NoConn]
  /\ total = 0 /\ unauth = 0

At(d, pc) == dm[d].pc = pc
Goto(d, pc) == dm' = [dm EXCEPT ![d].pc = pc]

-----------------------------------------------------------------------------
(* Bootstrap, in the order of run().                                       *)

Start(d) ==
  /\ At(d, "off")
  /\ Goto(d, "registry")
  /\ UNCHANGED <<lock, hostkey, server>>

\* LockFile::acquire does not wait: the lock is free or the start fails.
Acquire(d, role, from, to) ==
  /\ At(d, from)
  /\ lock[role] = Nobody
  /\ lock' = [lock EXCEPT ![role] = d]
  /\ Goto(d, to)
  /\ UNCHANGED <<hostkey, server>>

\* Dropping Locks unlocks both; a partial acquisition drops what it has.
UnlockedFiles(d) == [r \in Roles |-> Nobody]
Unlocked(d) == [r \in Roles |-> IF lock[r] = d THEN Nobody ELSE lock[r]]

\* Every step of the bootstrap can fail; the error path drops the locks.
Fail(d) ==
  /\ dm[d].pc \in {"registry", "state", "config", "load", "link", "reload",
                   "reconcile", "bind"}
  /\ lock' = Unlocked(d)
  /\ dm' = [dm EXCEPT ![d] = Off]
  /\ UNCHANGED <<hostkey, server>>

\* Configuration, account and key sources are read and found usable.
Configured(d) ==
  /\ At(d, "config")
  /\ Goto(d, "load")
  /\ UNCHANGED <<lock, hostkey, server>>

\* HostKey::load; a missing key is written to a temporary file and synced.
LoadKey(d) ==
  /\ At(d, "load")
  /\ IF hostkey = Nobody
     THEN Goto(d, "link")
     ELSE dm' = [dm EXCEPT ![d].pc = "reconcile", ![d].key = hostkey]
  /\ UNCHANGED <<lock, hostkey, server>>

\* hard_link creates and never replaces; a key that came first is used.
PublishedReplacing(d) == d
Published(d) == IF hostkey = Nobody THEN d ELSE hostkey

CreateKey(d) ==
  /\ At(d, "link")
  /\ hostkey' = Published(d)
  /\ Goto(d, "reload")
  /\ UNCHANGED <<lock, server>>

ReloadKey(d) ==
  /\ At(d, "reload")
  /\ dm' = [dm EXCEPT ![d].pc = "reconcile", ![d].key = hostkey]
  /\ UNCHANGED <<lock, hostkey, server>>

\* The manager opens: without an admin key it reconciles here, with one a
\* thread does so once the server runs.
Open(d) ==
  /\ At(d, "reconcile")
  /\ \E managed \in BOOLEAN :
       dm' = [dm EXCEPT ![d].pc = "bind", ![d].recon = IF managed THEN "later" ELSE "none"]
  /\ UNCHANGED <<lock, hostkey, server>>

\* bind_all bound every endpoint; the serve task and the thread start.
Serve(d) ==
  /\ At(d, "bind")
  /\ dm' = [dm EXCEPT ![d].pc = "serving",
                      ![d].recon = IF @ = "later" THEN "running" ELSE "none"]
  /\ serve' = "accepting"
  /\ closed' = FALSE
  /\ UNCHANGED <<lock, hostkey, tasks, joining, conn, total, unauth>>

Reconciled(d) ==
  /\ dm[d].recon = "running"
  /\ dm' = [dm EXCEPT ![d].recon = "none"]
  /\ UNCHANGED <<lock, hostkey, server>>

-----------------------------------------------------------------------------
(* Connections: admission, handshake, supervision.                         *)

accept(c) ==
  /\ serve = "accepting"
  /\ conn[c].pc = "none"
  /\ conn' = [conn EXCEPT ![c].pc = "accepted"]
  /\ UNCHANGED <<lock, hostkey, dm, serve, closed, tasks, joining, total, unauth>>

\* Limiter::admit takes the two counters one after the other and gives the
\* first one back when the second is full.
admit_total(c) ==
  /\ conn[c].pc = "accepted"
  /\ IF serve = "accepting" /\ total < max_connections
     THEN conn' = [conn EXCEPT ![c].pc = "total"] /\ total' = total + 1
     ELSE conn' = [conn EXCEPT ![c] = NoConn] /\ UNCHANGED total
  /\ UNCHANGED <<lock, hostkey, dm, serve, closed, tasks, joining, unauth>>

admit_unauthenticated(c) ==
  /\ conn[c].pc = "total"
  /\ IF unauth < max_unauthenticated_connections
     THEN /\ conn' = [conn EXCEPT ![c].pc = "session", ![c].slot = TRUE]
          /\ unauth' = unauth + 1
          /\ UNCHANGED total
     ELSE /\ conn' = [conn EXCEPT ![c] = NoConn]
          /\ total' = total - 1
          /\ UNCHANGED unauth
  /\ UNCHANGED <<lock, hostkey, dm, serve, closed, tasks, joining>>

\* auth_publickey of the handler: LimiterSlot::authenticated swaps the flag
\* of the slot, so that the bucket is left once.
ReleasedOnce(c) == IF conn[c].slot THEN unauth - 1 ELSE unauth

authenticate(c) ==
  /\ conn[c].pc \in {"session", "loose"}
  /\ conn' = [conn EXCEPT ![c].slot = FALSE, ![c].principal = TRUE]
  /\ unauth' = ReleasedOnce(c)
  /\ UNCHANGED <<lock, hostkey, dm, serve, closed, tasks, joining, total>>

\* The supervising task learns of the authentication.
notified(c) ==
  /\ conn[c].pc = "session" /\ conn[c].principal /\ ~conn[c].told
  /\ conn' = [conn EXCEPT ![c].told = TRUE]
  /\ UNCHANGED <<lock, hostkey, dm, serve, closed, tasks, joining, total, unauth>>

\* The handshake deadline.  Reached before the notification was taken, it
\* ends the supervision of a connection that has authenticated.  Any other is
\* disconnected and given two seconds, after which its session may still run.
deadline(c) ==
  /\ conn[c].pc = "session" /\ ~conn[c].told
  /\ \E to \in {"loose", "gone"} :
       /\ conn[c].principal => to = "loose"
       /\ conn' = [conn EXCEPT ![c].pc = to]
  /\ UNCHANGED <<lock, hostkey, dm, serve, closed, tasks, joining, total, unauth>>

\* The session ends, or the shutdown disconnects it.
session_ends(c) ==
  /\ conn[c].pc \in {"session", "loose"}
  /\ conn[c].host # "spawning"
  /\ conn' = [conn EXCEPT ![c].pc = "gone"]
  /\ UNCHANGED <<lock, hostkey, dm, serve, closed, tasks, joining, total, unauth>>


abandon(c) ==
  /\ serve \notin {"off", "accepting"}
  /\ conn[c].pc = "session"
  /\ conn' = [conn EXCEPT ![c].pc = "loose"]
  /\ UNCHANGED <<lock, hostkey, dm, serve, closed, tasks, joining, total, unauth>>

\* The last owner of the connection state goes: its slot is dropped.
DropSlotAlways(c) == unauth - 1
DropSlot(c) == ReleasedOnce(c)

drop_connection(c) ==
  /\ conn[c].pc = "gone" /\ conn[c].host = "none"
  /\ conn' = [conn EXCEPT ![c] = NoConn]
  /\ unauth' = DropSlot(c)
  /\ total' = total - 1
  /\ UNCHANGED <<lock, hostkey, dm, serve, closed, tasks, joining>>

-----------------------------------------------------------------------------
(* Host tasks.                                                             *)

host_request(c) ==
  /\ conn[c].pc \in {"session", "loose"} /\ conn[c].principal
  /\ conn[c].host = "none"
  /\ conn' = [conn EXCEPT ![c].host = "spawning", ![c].live = TRUE]
  /\ UNCHANGED <<lock, hostkey, dm, serve, closed, tasks, joining, total, unauth>>

\* HostTaskRegistry::track refuses once closed; the caller then kills the
\* process and runs the bridge itself.
RefusesNever == FALSE
Refuses == closed

track(c) ==
  /\ conn[c].host = "spawning"
  /\ IF Refuses
     THEN /\ conn' = [conn EXCEPT ![c].host = "inline", ![c].live = FALSE]
          /\ UNCHANGED tasks
     ELSE /\ conn' = [conn EXCEPT ![c].host = "tracked"]
          /\ tasks' = tasks \cup {c}
  /\ UNCHANGED <<lock, hostkey, dm, serve, closed, joining, total, unauth>>

\* The bridge leaves its select for a write to the process or a send to the
\* session, and is back once the other side has taken the bytes or is gone.
host_waits(c) ==
  /\ conn[c].host = "tracked" /\ ~conn[c].busy
  /\ conn' = [conn EXCEPT ![c].busy = TRUE]
  /\ UNCHANGED <<lock, hostkey, dm, serve, closed, tasks, joining, total, unauth>>

host_resumes(c) ==
  /\ conn[c].busy
  /\ conn' = [conn EXCEPT ![c].busy = FALSE]
  /\ UNCHANGED <<lock, hostkey, dm, serve, closed, tasks, joining, total, unauth>>

\* The process ends by itself or by the teardown of its bridge.
host_exits(c) ==
  /\ conn[c].host = "tracked" /\ conn[c].live
  /\ conn' = [conn EXCEPT ![c].live = FALSE]
  /\ UNCHANGED <<lock, hostkey, dm, serve, closed, tasks, joining, total, unauth>>

\* The bridge returns, and its guard removes the registry entry.
complete(c) ==
  /\ conn[c].host \in {"tracked", "inline"} /\ ~conn[c].live /\ ~conn[c].busy
  /\ conn' = [conn EXCEPT ![c].host = "none"]
  /\ tasks' = tasks \ {c}
  /\ joining' = joining \ {c}
  /\ UNCHANGED <<lock, hostkey, dm, serve, closed, total, unauth>>

-----------------------------------------------------------------------------
(* Shutdown: the signal loop of run() and the end of serve.                *)

Shutting(d) == dm[d].signals > 0

signal(d) ==
  /\ dm[d].pc \in {"serving", "joining"}
  /\ dm[d].signals < 2
  /\ dm' = [dm EXCEPT ![d].signals = @ + 1]
  /\ UNCHANGED <<lock, hostkey, server>>

\* serve sees the watch change: no more accepts, no more tracked tasks; then
\* the manager stops the sandbox processes.
StopAccepting(d) ==
  /\ At(d, "serving") /\ Shutting(d)
  /\ serve = "accepting"
  /\ serve' = "closed"
  /\ closed' = TRUE
  /\ UNCHANGED <<lock, hostkey, dm, tasks, joining, conn, total, unauth>>

\* The listener tasks have joined their connection tasks; join_all drains the
\* registry and awaits what it drained, until it drains nothing.
Supervised == {c \in Conns : conn[c].pc \in {"accepted", "total", "session"}}

Drain ==
  /\ serve = "closed"
  /\ Supervised = {}
  /\ joining = {}
  /\ joining' = tasks
  /\ tasks' = {}
  /\ serve' = IF tasks = {} THEN "done" ELSE "closed"
  /\ UNCHANGED <<lock, hostkey, dm, closed, conn, total, unauth>>

\* The daemons whose server is up.
Owning == {"serving", "joining", "forced"}

\* run() returns: the runtime drops its tasks with their connections.
Dropped ==
  /\ serve' = "off" /\ closed' = FALSE
  /\ tasks' = {} /\ joining' = {}
  /\ conn' = [c \in Conns |-> NoConn]
  /\ total' = 0 /\ unauth' = 0

\* The normal end: join the reconciliation thread, then drop the locks.
Served(d) ==
  /\ At(d, "serving")
  /\ serve = "done"
  /\ Goto(d, "joining")
  /\ UNCHANGED <<lock, hostkey, server>>

Joined(d) ==
  /\ At(d, "joining")
  /\ dm[d].recon = "none"
  /\ lock' = Unlocked(d)
  /\ Goto(d, "exit")
  /\ Dropped
  /\ UNCHANGED hostkey

\* force_stop kills the groups of the entries the registry holds.
Forced == {c \in Conns : c \in tasks}

\* The second signal: force_stop_host_tasks, force_shutdown_runtime, then the
\* serve task is aborted.
ForceStop(d) ==
  /\ At(d, "serving") /\ dm[d].signals = 2
  /\ conn' = [c \in Conns |-> IF c \in Forced THEN [conn[c] EXCEPT !.live = FALSE] ELSE conn[c]]
  /\ closed' = TRUE
  /\ serve' = "done"
  /\ Goto(d, "forced")
  /\ UNCHANGED <<lock, hostkey, tasks, joining, total, unauth>>

\* The reconciliation thread is left to itself and the locks are dropped.
Released(d) ==
  /\ At(d, "forced")
  /\ lock' = Unlocked(d)
  /\ Goto(d, "exit")
  /\ Dropped
  /\ UNCHANGED hostkey

\* The process ends, by itself or killed: the kernel drops its locks, its
\* threads and its tasks are gone, and so are its children.
End(d) ==
  /\ dm[d].pc # "off"
  /\ lock' = Unlocked(d)
  /\ dm' = [dm EXCEPT ![d] = Off]
  /\ IF dm[d].pc \in Owning THEN Dropped ELSE UNCHANGED server
  /\ UNCHANGED hostkey

\* The operator installs a host key where there is none.
InstallKey ==
  /\ hostkey = Nobody
  /\ hostkey' = Operator
  /\ UNCHANGED <<lock, dm, server>>

-----------------------------------------------------------------------------
Boot(d) ==
  \/ Acquire(d, "registry", "registry", "state")
  \/ Acquire(d, "state", "state", "config")
  \/ Configured(d) \/ LoadKey(d) \/ CreateKey(d) \/ ReloadKey(d) \/ Open(d) \/ Serve(d)

Stop(d) == StopAccepting(d) \/ Served(d) \/ Joined(d) \/ ForceStop(d) \/ Released(d)

Connection(c) ==
  \/ accept(c) \/ admit_total(c) \/ admit_unauthenticated(c) \/ authenticate(c)
  \/ notified(c) \/ deadline(c) \/ session_ends(c) \/ abandon(c) \/ drop_connection(c)
  \/ host_request(c) \/ track(c) \/ host_waits(c) \/ host_resumes(c) \/ host_exits(c)
  \/ complete(c)

Next ==
  \/ \E d \in Daemons :
       \/ Start(d) \/ Boot(d) \/ Fail(d) \/ Reconciled(d) \/ signal(d) \/ Stop(d) \/ End(d)
  \/ \E c \in Conns : Connection(c)
  \/ Drain
  \/ InstallKey

Spec == Init /\ [][Next]_vars

\* What the shutdown relies on: the signal loop and the serve task run, the
\* accepted connections are looked at, a session is given up after its two
\* seconds, the reconciliation ends, and a host bridge that comes back to its
\* select often enough takes the branch of the shutdown, which tears its
\* process down, and then returns.  Nothing is assumed of a bridge inside a
\* write or a send, of clients, of sessions left to themselves, or of host
\* processes before the shutdown.
Fairness ==
  /\ WF_vars(Drain)
  /\ \A d \in Daemons : WF_vars(Stop(d)) /\ WF_vars(Reconciled(d))
  /\ \A c \in Conns :
       /\ WF_vars(admit_total(c)) /\ WF_vars(admit_unauthenticated(c)) /\ WF_vars(abandon(c))
       /\ WF_vars(track(c))
       /\ SF_vars(closed /\ ~conn[c].busy /\ host_exits(c)) /\ SF_vars(complete(c))

FairSpec == Spec /\ Fairness

-----------------------------------------------------------------------------
(* Properties.                                                             *)

\* From the second lock to the drop of both.
Locked == Owning \cup {"config", "load", "link", "reload", "reconcile", "bind"}

\* At most one daemon is past the acquisition of the locks until it drops
\* them, whatever starts, fails, is killed or is restarted around it: a start
\* that does not get a lock gives back only what it took (Locks::acquire).
LocksExclusive ==
  \A d, e \in Daemons : dm[d].pc \in Locked /\ dm[e].pc \in Locked => d = e

\* A host key that is in place is never replaced: not by a daemon that found
\* none and generated one, not after a crash (HostKey::create).
KeyStable == [][hostkey # Nobody => hostkey' = hostkey]_vars

\* The two counters of Limiter count exactly the connections that hold a slot
\* and those of them that have not authenticated, within the caps, whatever
\* the order of authentication, deadline, disconnect and bridge end.
CountersExact ==
  /\ total = Cardinality({c \in Conns : conn[c].pc \notin {"none", "accepted"}})
  /\ unauth = Cardinality({c \in Conns : conn[c].slot})
  /\ total <= max_connections
  /\ unauth <= max_unauthenticated_connections

\* When serve returns after a first signal no host bridge is left that the
\* registry accepted, even one whose session outlived its supervision: close,
\* track and join_all leave no gap.
HostsJoined ==
  \A d \in Daemons : \A c \in Conns : At(d, "joining") => conn[c].host # "tracked"

\* What force_stop_host_tasks says of itself: no tracked host process runs on
\* after it.
ForceStopEndsHosts ==
  \A d \in Daemons : \A c \in Conns :
    At(d, "forced") /\ conn[c].host = "tracked" => ~conn[c].live

Ended(d) == dm[d].pc \in {"exit", "off"}


=============================================================================
