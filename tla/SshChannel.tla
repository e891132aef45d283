----------------------------- MODULE SshChannel -----------------------------
(***************************************************************************)
(* One session channel of an SSH connection: the request callbacks of      *)
(* ssh/mod.rs, the registry entry and the mailbox of ssh/channel.rs, the   *)
(* bridge task that ties the channel to a host or a sandbox process, the   *)
(* process handles of ssh/host.rs and platform/linux.rs, and the window    *)
(* arithmetic of platform/terminal.rs.                                     *)
(*                                                                         *)
(* The callbacks of one connection take the handler as &mut self, so they  *)
(* exclude one another: `call` is the one in progress.  The bridge, its    *)
(* pumps, the waiter of the process and the process itself run beside it.  *)
(* A chunk of output is counted, not represented; a window is a pair of    *)
(* dimensions, of which 0 means "not given".                               *)
(***************************************************************************)
EXTENDS Naturals, Sequences, FiniteSets

CONSTANTS
  MAILBOX_CAPACITY,     \* client events a channel may have queued
  OUTPUT_QUEUE_CHUNKS,  \* output chunks between the pumps and the bridge
  DEFAULT_SIZE,         \* the 24x80 fallback, a pair
  MAX_DIM,              \* u16::MAX
  Windows,              \* the windows a client asks for, pairs of Nat
  MaxRequests,          \* bound: requests a client sends after opening
  MaxChunks             \* bound: chunks a process writes

ASSUME ChannelAssumption ==
  /\ MAILBOX_CAPACITY \in Nat /\ OUTPUT_QUEUE_CHUNKS \in Nat
  /\ MAX_DIM \in Nat \ {0}
  /\ DEFAULT_SIZE \in [1..2 -> Nat] /\ Windows \subseteq [1..2 -> Nat]
  /\ MaxRequests \in Nat /\ MaxChunks \in Nat

VARIABLES
  route,     \* where the selector of the connection leads: host or sandbox
  link,      \* the transport: up, lost, or gone once the handler is dropped
  shutdown,  \* the watch every host bridge observes; closes the task registry
  call,      \* the point at which the callback in progress awaits, or "none"
  reg,       \* the ChannelState of the registry
  box,       \* the mailbox, oldest event first
  proc,      \* the process behind the channel
  br,        \* the bridge task
  wire,      \* what the daemon has sent on the channel
  client     \* what the client has done: requests left, closed

vars == <<route, link, shutdown, call, reg, box, proc, br, wire, client>>

None == <<>>
Streams == {"out", "err"}
NoState == [open |-> FALSE, started |-> FALSE, pty |-> None, rev |-> 0]
NoProcess ==
  [started |-> FALSE, live |-> FALSE, kids |-> "none", size |-> None, input |-> 0, stdin |-> FALSE,
   pipe |-> [s \in Streams |-> 0], made |-> [s \in Streams |-> 0],
   master |-> FALSE, exit |-> FALSE]
NoBridge ==
  [pc |-> "none", eof |-> FALSE, applied |-> 0, exit |-> FALSE, queue |-> <<>>,
   pumps |-> {}, drained |-> FALSE]

Init ==
  /\ route \in {"host", "sandbox"}
  /\ link = "up"
  /\ shutdown = FALSE
  /\ call = "none"
  /\ reg = NoState
  /\ box = <<>>
  /\ proc = NoProcess
  /\ br = NoBridge
  /\ wire = [opened |-> FALSE, sent |-> [s \in Streams |-> 0],
             exit |-> "none", closed |-> FALSE]
  /\ client = [left |-> MaxRequests, closed |-> FALSE]

-----------------------------------------------------------------------------
(* Windows.                                                                *)

clamp_dimension(n) == IF n > MAX_DIM THEN MAX_DIM ELSE n

\* The TIOCGWINSZ / TIOCSWINSZ pair on the master.
apply_window_size(size, w) ==
  IF w = <<0, 0>> THEN size
  ELSE [i \in 1..2 |-> IF w[i] # 0 THEN clamp_dimension(w[i])
                       ELSE IF size[i] = 0 THEN DEFAULT_SIZE[i] ELSE size[i]]

\* PtyRequest::window_size for a host process, PtyPair::open for a sandbox.
initial_size(w) ==
  IF route = "host"
  THEN [i \in 1..2 |-> IF w[i] = 0 THEN DEFAULT_SIZE[i] ELSE clamp_dimension(w[i])]
  ELSE apply_window_size(<<0, 0>>, w)

\* Whether the adapter accepts a resize: HostProcess keeps its lifecycle
\* duplicate, LinuxProcessControl gives it up when the child is reaped.
resizable(w) == w = <<0, 0>> \/ route = "host" \/ proc.master

\* ChannelRegistry::update_window: the state and the revision it returns.
update_windowLate(w) ==
  [pty |-> [i \in 1..2 |-> IF w[i] # 0 THEN w[i] ELSE reg.pty[i]],
   rev |-> IF w = <<0, 0>> THEN reg.rev ELSE reg.rev + 1,
   returned |-> reg.rev]

update_window(w) ==
  [pty |-> [i \in 1..2 |-> IF w[i] # 0 THEN w[i] ELSE reg.pty[i]],
   rev |-> IF w = <<0, 0>> THEN reg.rev ELSE reg.rev + 1,
   returned |-> IF w = <<0, 0>> THEN reg.rev ELSE reg.rev + 1]

-----------------------------------------------------------------------------
(* Callbacks.  Each runs when the handler is free and uses up one request. *)

CallbackOf(last) ==
  /\ call = "none"
  /\ link = "up"
  /\ wire.opened
  /\ client.left > 0 /\ ~client.closed
  /\ client' = [left |-> client.left - 1, closed |-> last]

Callback == CallbackOf(FALSE)

\* The messages finish_failed puts on the channel, ending it.
finish_failed == [wire EXCEPT !.exit = "255", !.closed = TRUE]

\* try_send: the mailbox has a sender, a receiver and room.
Sendable == reg.open /\ Len(box) < MAILBOX_CAPACITY

Removed == reg' = NoState

channel_open_session ==
  /\ call = "none" /\ link = "up" /\ ~wire.opened
  /\ reg' = [NoState EXCEPT !.open = TRUE]
  /\ wire' = [wire EXCEPT !.opened = TRUE]
  /\ UNCHANGED <<route, link, shutdown, call, box, proc, br, client>>

pty_request(w) ==
  /\ Callback
  /\ reg.open /\ ~reg.started /\ reg.pty = None
  /\ reg' = [reg EXCEPT !.pty = w]
  /\ UNCHANGED <<route, link, shutdown, call, box, proc, br, wire>>

\* The mailbox that cannot take the event drops the channel: only that wakes
\* a bridge which would never learn of the new size.
window_change_request(w) ==
  /\ Callback
  /\ reg.open /\ reg.pty # None
  /\ LET u == update_window(w) IN
     IF w = <<0, 0>> THEN UNCHANGED <<reg, box>>
     ELSE IF Sendable
     THEN /\ reg' = [reg EXCEPT !.pty = u.pty, !.rev = u.rev]
          /\ box' = Append(box, [type |-> "window", size |-> w, rev |-> u.returned])
     ELSE Removed /\ UNCHANGED box
  /\ UNCHANGED <<route, link, shutdown, call, proc, br, wire>>

\* data and channel_eof: an event that does not fit closes the channel.
input(type) ==
  /\ Callback
  /\ IF Sendable
     THEN /\ box' = Append(box, [type |-> type])
          /\ UNCHANGED <<reg, wire>>
     ELSE /\ Removed
          /\ wire' = [wire EXCEPT !.closed = TRUE]
          /\ UNCHANGED box
  /\ UNCHANGED <<route, link, shutdown, call, proc, br>>

\* signal: one that does not fit is refused, and the channel lives on.
signal ==
  /\ Callback
  /\ Sendable
  /\ box' = Append(box, [type |-> "signal"])
  /\ UNCHANGED <<route, link, shutdown, call, reg, proc, br, wire>>

channel_closeQueued ==
  /\ CallbackOf(TRUE)
  /\ IF reg.started
     THEN IF Sendable THEN box' = Append(box, [type |-> "close"]) /\ UNCHANGED reg
                      ELSE UNCHANGED <<reg, box>>
     ELSE Removed /\ UNCHANGED box
  /\ UNCHANGED <<route, link, shutdown, call, proc, br, wire>>

channel_close ==
  /\ CallbackOf(TRUE)
  /\ IF reg.started
     THEN IF Sendable THEN box' = Append(box, [type |-> "close"]) /\ UNCHANGED reg
                      ELSE Removed /\ UNCHANGED box
     ELSE Removed /\ UNCHANGED box
  /\ UNCHANGED <<route, link, shutdown, call, proc, br, wire>>

\* list and delete: a channel with a PTY, or one whose operation has started,
\* is refused, and complete_management ends the channel in every case.
management ==
  /\ Callback
  /\ reg.open
  /\ wire' = [wire EXCEPT !.exit = "management", !.closed = TRUE]
  /\ Removed
  /\ UNCHANGED <<route, link, shutdown, call, box, proc, br>>

\* shell and exec: claim the channel, then await the spawn.  A host process
\* needs one of the slots that all connections share.
start_operation ==
  /\ Callback
  /\ reg.open /\ ~reg.started
  /\ \/ /\ reg' = [reg EXCEPT !.started = TRUE]
        /\ call' = "spawn"
        /\ UNCHANGED wire
     \/ /\ route = "host"
        /\ wire' = finish_failed
        /\ Removed
        /\ UNCHANGED call
  /\ UNCHANGED <<route, link, shutdown, box, proc, br>>

-----------------------------------------------------------------------------
(* The rest of the callback that starts the operation.                     *)

\* spawn_host_process or the manager's launch returns.
Spawned ==
  /\ call = "spawn"
  /\ \/ /\ wire' = finish_failed
        /\ Removed
        /\ call' = "none"
        /\ UNCHANGED proc
     \/ /\ proc' = [NoProcess EXCEPT
                      !.started = TRUE, !.live = TRUE, !.stdin = TRUE, !.master = (reg.pty # None),
                      !.size = IF reg.pty = None THEN None ELSE initial_size(reg.pty)]
        /\ call' = "publish"
        /\ UNCHANGED <<reg, wire>>
  /\ UNCHANGED <<route, link, shutdown, box, br, client>>

\* SIGKILL to the process group of the direct child.
KilledGroup == [proc EXCEPT !.live = FALSE, !.kids = IF @ = "group" THEN "none" ELSE @]

\* The pumps a bridge starts: both pipes, or the merged terminal stream.
Pumps == IF reg.pty = None THEN Streams ELSE {"out"}

\* synchronize_window, the reply, and the hand-over to a bridge task.  The
\* task registry that shutdown closed refuses the bridge, which then runs
\* inside the callback, its process killed first.
Publish ==
  /\ call = "publish"
  /\ IF reg.pty # None /\ ~resizable(reg.pty)
     THEN call' = "cleanup" /\ UNCHANGED <<proc, br, wire>>
     ELSE \/ /\ link = "lost"
             /\ call' = "cleanup"
             /\ UNCHANGED <<proc, br, wire>>
          \/ LET size == IF reg.pty = None THEN None ELSE apply_window_size(proc.size, reg.pty)
                 refused == route = "host" /\ shutdown
             IN /\ proc' = [(IF refused THEN KilledGroup ELSE proc) EXCEPT !.size = size]
                /\ br' = [NoBridge EXCEPT !.pc = "select", !.pumps = Pumps,
                                          !.applied = IF reg.pty = None THEN 0 ELSE reg.rev]
                /\ UNCHANGED wire
                /\ call' = IF refused THEN "inline" ELSE "none"
  /\ UNCHANGED <<route, link, shutdown, reg, box, client>>

\* wait_for_process_cleanup and terminate_host_process: SIGTERM first, then
\* SIGKILL after a grace period; then the channel ends as a failed one.
CleanupKill ==
  /\ call = "cleanup" /\ ~proc.exit
  /\ proc' = KilledGroup
  /\ call' = "killed"
  /\ UNCHANGED <<route, link, shutdown, reg, box, br, wire, client>>

CleanupEnd ==
  /\ \/ call = "cleanup" /\ proc.exit
     \/ call = "killed"
  /\ wire' = IF link = "up" THEN finish_failed ELSE wire
  /\ Removed
  /\ call' = "none"
  /\ UNCHANGED <<route, link, shutdown, box, proc, br, client>>

InlineEnd ==
  /\ call = "inline" /\ br.pc = "done"
  /\ call' = "none"
  /\ UNCHANGED <<route, link, shutdown, reg, box, proc, br, wire, client>>

-----------------------------------------------------------------------------
(* The bridge: run_host_process and run_sandbox_process.                   *)

\* The test at the end of each round of the select loop.
FinishedByExit(b) == b.exit
Finished(b) == b.exit /\ b.drained
Round(b) == [b EXCEPT !.pc = IF Finished(b) THEN "completed" ELSE "select"]
Aborts == br' = [br EXCEPT !.pc = "aborted"]

Event ==
  /\ br.pc = "select"
  /\ box # <<>>
  /\ box' = Tail(box)
  /\ LET e == Head(box) IN
     CASE e.type = "data" ->
            br' = (IF br.eof \/ ~proc.stdin THEN br ELSE [br EXCEPT !.pc = "write"])
            /\ UNCHANGED proc
       [] e.type = "eof" ->
            br' = [br EXCEPT !.eof = TRUE] /\ proc' = [proc EXCEPT !.stdin = FALSE]
       [] e.type = "close" -> Aborts /\ UNCHANGED proc
       [] e.type = "signal" -> UNCHANGED <<br, proc>>
       [] e.type = "window" ->
            IF e.rev <= br.applied THEN UNCHANGED <<br, proc>>
            ELSE IF resizable(e.size)
            THEN /\ br' = [br EXCEPT !.applied = e.rev]
                 /\ proc' = [proc EXCEPT !.size = apply_window_size(@, e.size)]
            ELSE Aborts /\ UNCHANGED proc
  /\ UNCHANGED <<route, link, shutdown, call, reg, wire, client>>

\* The write of client data ends: the child has room for it, or no reader
\* is left.  Until then the bridge is in the write and selects nothing.
Written ==
  /\ br.pc = "write"
  /\ \/ /\ proc.input = 0 /\ (proc.live \/ proc.kids # "none")
        /\ proc' = [proc EXCEPT !.input = 1]
        /\ br' = [br EXCEPT !.pc = "select"]
     \/ /\ ~proc.live /\ proc.kids = "none"
        /\ Aborts /\ UNCHANGED proc
  /\ UNCHANGED <<route, link, shutdown, call, reg, box, wire, client>>

\* The sender is gone, or a host bridge sees the shutdown.
Woken ==
  /\ br.pc = "select"
  /\ \/ box = <<>> /\ ~reg.open
     \/ route = "host" /\ shutdown
  /\ Aborts
  /\ UNCHANGED <<route, link, shutdown, call, reg, box, proc, wire, client>>

\* The next chunk is taken for the client; a failed one ends the bridge.
\* The chunk in hand stays the first of br.queue until it is sent.
Output ==
  /\ br.pc = "select" /\ ~br.drained
  /\ br.queue # <<>>
  /\ br' = [br EXCEPT !.pc = IF Head(br.queue) = "failed" THEN "aborted" ELSE "send"]
  /\ UNCHANGED <<route, link, shutdown, call, reg, box, proc, wire, client>>

\* The session takes the chunk, when it likes: until then the bridge is in
\* the send and selects nothing.
Sent ==
  /\ br.pc = "send" /\ link # "gone"
  /\ br' = [br EXCEPT !.pc = "select", !.queue = Tail(@)]
  /\ wire' = [wire EXCEPT !.sent[Head(br.queue)] = @ + 1]
  /\ UNCHANGED <<route, link, shutdown, call, reg, box, proc, client>>

\* A send to a session that is over fails and ends the bridge.
SendFails ==
  /\ br.pc = "send" /\ link = "gone"
  /\ Aborts
  /\ UNCHANGED <<route, link, shutdown, call, reg, box, proc, wire, client>>

OutputDone ==
  /\ br.pc = "select" /\ ~br.drained
  /\ br.queue = <<>> /\ br.pumps = {}
  /\ br' = Round([br EXCEPT !.drained = TRUE])
  /\ UNCHANGED <<route, link, shutdown, call, reg, box, proc, wire, client>>

ExitKnown ==
  /\ br.pc = "select" /\ ~br.exit
  /\ proc.exit
  /\ br' = Round([br EXCEPT !.exit = TRUE])
  /\ UNCHANGED <<route, link, shutdown, call, reg, box, proc, wire, client>>

\* EOF, exit and close, in this order, then the entry leaves the registry.
Complete ==
  /\ br.pc = "completed"
  /\ br' = [br EXCEPT !.pc = "done"]
  /\ wire' = [wire EXCEPT !.exit = "status", !.closed = TRUE]
  /\ Removed
  /\ box' = <<>>
  /\ UNCHANGED <<route, link, shutdown, call, proc, client>>

\* Teardown of a host process: close its input, SIGTERM to the group, one
\* grace period, SIGKILL to the group, another one, and end.
HostTerm ==
  /\ br.pc = "aborted" /\ route = "host"
  /\ br' = [br EXCEPT !.pc = "term", !.pumps = {}, !.queue = <<>>]
  /\ proc' = [proc EXCEPT !.stdin = FALSE]
  /\ UNCHANGED <<route, link, shutdown, call, reg, box, wire, client>>

ForcedNever == proc
Forced == KilledGroup

HostKill ==
  /\ br.pc = "term" /\ ~proc.exit
  /\ proc' = Forced
  /\ br' = [br EXCEPT !.pc = "kill"]
  /\ UNCHANGED <<route, link, shutdown, call, reg, box, wire, client>>

HostEnd ==
  /\ \/ br.pc = "term" /\ proc.exit
     \/ br.pc = "kill"
  /\ br' = [br EXCEPT !.pc = "done"]
  /\ wire' = [wire EXCEPT !.closed = TRUE]
  /\ Removed
  /\ box' = <<>>
  /\ UNCHANGED <<route, link, shutdown, call, proc, client>>

\* The transport of a sandbox process is detached and the process left alone.
Detach ==
  /\ br.pc = "aborted" /\ route = "sandbox"
  /\ br' = [br EXCEPT !.pc = "done", !.pumps = {}, !.queue = <<>>]
  /\ proc' = [proc EXCEPT !.stdin = FALSE, !.master = FALSE]
  /\ wire' = [wire EXCEPT !.closed = TRUE]
  /\ Removed
  /\ box' = <<>>
  /\ UNCHANGED <<route, link, shutdown, call, client>>

Bridge ==
  \/ Event \/ Written \/ Woken \/ Output \/ SendFails \/ OutputDone \/ ExitKnown
  \/ Complete \/ HostTerm \/ HostKill \/ HostEnd \/ Detach

-----------------------------------------------------------------------------
(* Pumps and waiter.                                                       *)

Writers == proc.live \/ proc.kids # "none"

\* The chunk the bridge has in hand no longer takes a place in the queue.
Room == Len(br.queue) < OUTPUT_QUEUE_CHUNKS + (IF br.pc = "send" THEN 1 ELSE 0)

Pump(s) ==
  /\ s \in br.pumps
  /\ br.pc \in {"select", "write", "send"}
  /\ \/ /\ proc.pipe[s] > 0 /\ Room
        /\ proc' = [proc EXCEPT !.pipe[s] = @ - 1]
        /\ br' = [br EXCEPT !.queue = Append(@, s)]
     \/ /\ proc.pipe[s] = 0 /\ ~Writers
        /\ br' = [br EXCEPT !.pumps = @ \ {s}]
        /\ UNCHANGED proc
  /\ UNCHANGED <<route, link, shutdown, call, reg, box, wire, client>>

\* A read that fails is passed on as the last chunk of its stream.
PumpFails(s) ==
  /\ s \in br.pumps
  /\ br.pc \in {"select", "write", "send"}
  /\ Room
  /\ br' = [br EXCEPT !.pumps = @ \ {s}, !.queue = Append(@, "failed")]
  /\ UNCHANGED <<route, link, shutdown, call, reg, box, proc, wire, client>>

\* The direct child is reaped.  The host waiter then kills what is left of
\* its group; the sandbox waiter gives up the PTY master it kept.
Reap ==
  /\ proc.started /\ ~proc.live /\ ~proc.exit
  /\ proc' = IF route = "host" THEN [KilledGroup EXCEPT !.exit = TRUE]
                               ELSE [proc EXCEPT !.exit = TRUE, !.master = FALSE]
  /\ UNCHANGED <<route, link, shutdown, call, reg, box, br, wire, client>>

-----------------------------------------------------------------------------
(* The process and the world: no fairness is assumed of either.            *)

Program ==
  /\ Writers /\ br.pc # "done"
  /\ \/ \E s \in Streams :
          /\ proc.made["out"] + proc.made["err"] < MaxChunks
          /\ s = "err" => proc.size = None
          /\ proc' = [proc EXCEPT !.made[s] = @ + 1, !.pipe[s] = @ + 1]
     \/ proc.input = 1 /\ proc' = [proc EXCEPT !.input = 0]
     \/ proc.live /\ proc' = [proc EXCEPT !.live = FALSE]
     \/ \E k \in {"group", "away"} :
          proc.live /\ proc.kids = "none" /\ proc' = [proc EXCEPT !.kids = k]
     \/ proc.kids # "none" /\ proc' = [proc EXCEPT !.kids = "none"]
  /\ UNCHANGED <<route, link, shutdown, call, reg, box, br, wire, client>>

Lose ==
  /\ link = "up"
  /\ link' = "lost"
  /\ UNCHANGED <<route, shutdown, call, reg, box, proc, br, wire, client>>

\* The handler is dropped: the registry is cleared and its senders with it.
DropHandler ==
  /\ link = "lost" /\ call = "none"
  /\ link' = "gone"
  /\ Removed
  /\ UNCHANGED <<route, shutdown, call, box, proc, br, wire, client>>

\* Sandbox bridges do not watch the shutdown: the manager ends their processes.
Shutdown ==
  /\ ~shutdown /\ route = "host"
  /\ shutdown' = TRUE
  /\ UNCHANGED <<route, link, call, reg, box, proc, br, wire, client>>

-----------------------------------------------------------------------------
Request ==
  \/ channel_open_session \/ signal \/ channel_close \/ management \/ start_operation
  \/ \E w \in Windows : pty_request(w) \/ window_change_request(w)
  \/ \E t \in {"data", "eof"} : input(t)

Starting == Spawned \/ Publish \/ CleanupKill \/ CleanupEnd \/ InlineEnd

Next ==
  \/ Request \/ Starting \/ Bridge \/ Sent \/ Reap \/ DropHandler
  \/ \E s \in Streams : Pump(s) \/ PumpFails(s)
  \/ Program \/ Lose \/ Shutdown

Spec == Init /\ [][Next]_vars

\* The runtime polls every ready task, timers fire, and the waiter of a dead
\* child returns.  The client, the process and the transport owe nothing, and
\* neither does the session: it may never take a chunk.
FairSpec ==
  /\ Spec
  /\ WF_vars(Bridge) /\ WF_vars(Starting) /\ WF_vars(Reap) /\ WF_vars(DropHandler)
  /\ \A s \in Streams : WF_vars(Pump(s))

-----------------------------------------------------------------------------
\* An exit status ends the stream: when the bridge sends it, every chunk that
\* the process and its descendants wrote to their pipes or terminal has been
\* sent before it (run_host_process and run_sandbox_process wait for both the
\* exit and the end of every pump).
ExitAfterOutput ==
  wire.exit = "status" => wire.sent = proc.made

\* A host process always has an owner that will stop it: while the direct
\* child or a member of its process group is alive, the callback that spawned
\* it or its bridge is still at work, and so is its host-process slot.
HostProcessOwned ==
  route = "host" /\ (proc.live \/ proc.kids = "group") =>
    \/ call \in {"publish", "cleanup"}
    \/ br.pc \in {"select", "write", "send", "completed", "aborted", "term"}

\* No resize is lost, whether it came before the launch or to a running
\* bridge: once the mailbox is empty, the terminal has the size the
\* client last asked for in every dimension it gave (the revisions of
\* update_window, synchronize_window and the bridges).
WindowInForce ==
  br.pc = "select" /\ box = <<>> /\ reg.open /\ reg.pty # None =>
    \A i \in 1..2 : reg.pty[i] # 0 => proc.size[i] = clamp_dimension(reg.pty[i])

\* The end of a channel reaches its bridge: after the client closed the
\* channel, after the connection is gone, and for a host process after the
\* shutdown began, the bridge ends, unless it stays for ever in one write to
\* a process that does not read or in one send to a session that is stalled
\* but not over, where it selects nothing.
TornDown ==
  client.closed \/ link = "gone" \/ (route = "host" /\ shutdown)
Stalled == br.pc = "write" \/ (br.pc = "send" /\ link # "gone")
TeardownEnds ==
  (br.pc # "none" /\ TornDown) ~> (br.pc = "done" \/ []Stalled)

=============================================================================
