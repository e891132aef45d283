---------------------------- MODULE IdmapBroker ----------------------------
(***************************************************************************)
(* The ID-map mount broker of crates/shbox/src/platform/idmap_broker.rs:   *)
(* launches of the daemon (create_idmapped_mounts) ask the socket-         *)
(* activated broker for two detached mounts that translate the daemon's    *)
(* files to the IDs leased to a sandbox.  The broker's main loop accepts,  *)
(* takes one of MAX_HANDLER_THREADS permits and starts a handler thread;   *)
(* the handler receives with a timeout, checks, mounts and answers.        *)
(*                                                                         *)
(* A message is a record; its descriptors are the sources they stand for.  *)
(* A directory may lose its privacy or its place under the configured root *)
(* at any moment, a launch may die with the daemon, and the broker may     *)
(* exit: the listener is the service manager's, so connections that were   *)
(* not yet accepted survive to the next broker.                            *)
(***************************************************************************)
EXTENDS Naturals, FiniteSets

CONSTANTS
    Clients,               \* launches of the daemon, one request each
    Daemon,                \* the daemon's UID and GID
    Lease,                 \* the UID and GID leased to each launch's sandbox
    Initial,               \* the user namespace the broker itself runs in
    MAX_HANDLER_THREADS,
    MaxExits,              \* bound on broker exits, failed starts included
    MaxChanges             \* bound on changed source directories

Ids == [uid : Nat, gid : Nat]

ASSUME BrokerAssumption ==
    /\ IsFiniteSet(Clients)
    /\ Daemon \in Ids
    /\ Lease \in [Clients -> Ids]
    /\ MAX_HANDLER_THREADS \in Nat \ {0}
    /\ MaxExits \in Nat
    /\ MaxChanges \in Nat

VARIABLES
    launch,   \* the launch: what create_idmapped_mounts does next, or its result
    views,    \* the mounts a launch was handed
    conn,     \* its connection
    sent,     \* a request waits in the connection
    reply,    \* the response in the connection
    userns,   \* what its mount user namespace maps the daemon's IDs to, or Initial
    source,   \* its two source directories
    main,     \* the broker's accept loop and the client it holds
    active,   \* permits taken
    hand,     \* what each client's handler thread does next
    exits     \* broker exits so far

broker_vars == <<launch, views, conn, sent, reply, userns, source, main, active, hand, exits>>

launches == <<launch, views>>
world == <<userns, source>>
broker == <<main, active, hand>>

Dirs == {"workspace", "runtime"}
Nil == "none"

NoReply == [status |-> Nil, mounts |-> {}]
Reply(s, m) == [status |-> s, mounts |-> m]

(* A detached mount: of which launch's directory, owned by which IDs.      *)
View(c, d) == [of |-> c, dir |-> d, ids |-> userns[c]]

Returned == {"ok", "err", "dead"}

-----------------------------------------------------------------------------
(* create_idmapped_mounts                                                  *)

Connect(c) ==
    /\ launch[c] = "connect"
    /\ \/ launch' = [launch EXCEPT ![c] = "send"] /\ conn' = [conn EXCEPT ![c] = "backlog"]
       \/ launch' = [launch EXCEPT ![c] = "err"] /\ UNCHANGED conn
    /\ UNCHANGED <<views, sent, reply, world, broker, exits>>

(* A closed peer is EPIPE, which MSG_NOSIGNAL turns into an error.         *)
Send(c) ==
    /\ launch[c] = "send"
    /\ IF conn[c] = "closed"
       THEN launch' = [launch EXCEPT ![c] = "err"] /\ UNCHANGED sent
       ELSE launch' = [launch EXCEPT ![c] = "receive"] /\ sent' = [sent EXCEPT ![c] = TRUE]
    /\ UNCHANGED <<views, conn, reply, world, broker, exits>>

(* receive_message has no timeout on this side; end of file does not       *)
(* decode, and a status other than OK or a wrong number of descriptors is  *)
(* an error.                                                               *)
AcceptedReply(r) == r.status = "OK" /\ Cardinality(r.mounts) = 2

Receive(c) ==
    /\ launch[c] = "receive"
    /\ reply[c] # NoReply \/ conn[c] = "closed"
    /\ launch' = [launch EXCEPT ![c] = IF AcceptedReply(reply[c]) THEN "ok" ELSE "err"]
    /\ views' = [views EXCEPT ![c] = IF AcceptedReply(reply[c]) THEN reply[c].mounts ELSE {}]
    /\ reply' = [reply EXCEPT ![c] = NoReply]
    /\ conn' = [conn EXCEPT ![c] = "closed"]
    /\ UNCHANGED <<sent, world, broker, exits>>

(* The daemon dies with all its launches: their sockets close.             *)
DaemonDies ==
    /\ \E c \in Clients : launch[c] \notin Returned
    /\ launch' = [c \in Clients |-> IF launch[c] \in Returned THEN launch[c] ELSE "dead"]
    /\ UNCHANGED <<views, conn, sent, reply, world, broker, exits>>

Launch(c) == Connect(c) \/ Send(c) \/ Receive(c)

-----------------------------------------------------------------------------
(* run_from_systemd                                                        *)

(* A connection in the backlog starts a broker.  It checks that it runs as *)
(* root with the one listener and pins the two configured roots, which     *)
(* must be directories nobody else can write; otherwise it exits.          *)
PinsRoots == main' = [main EXCEPT !.at = "accept"] /\ UNCHANGED exits

run_from_systemd ==
    /\ main.at = "down"
    /\ \E c \in Clients : conn[c] = "backlog"
    /\ \/ PinsRoots
       \/ exits < MaxExits /\ exits' = exits + 1 /\ UNCHANGED main
    /\ UNCHANGED <<launches, conn, sent, reply, world, active, hand>>

-----------------------------------------------------------------------------
(* serve                                                                   *)

Accept ==
    /\ main.at = "accept"
    /\ \E c \in Clients :
          /\ conn[c] = "backlog"
          /\ conn' = [conn EXCEPT ![c] = "accepted"]
          /\ main' = [at |-> "acquire", client |-> c]
    /\ UNCHANGED <<launches, sent, reply, world, active, hand, exits>>

(* HandlerSemaphore::acquire blocks the accept loop, not the client.       *)
HasPermitOneMore == active <= MAX_HANDLER_THREADS

HasPermit == active < MAX_HANDLER_THREADS

Acquire ==
    /\ main.at = "acquire" /\ HasPermit
    /\ active' = active + 1
    /\ main' = [main EXCEPT !.at = "spawn"]
    /\ UNCHANGED <<launches, conn, sent, reply, world, hand, exits>>

(* A handler thread that cannot be started drops the closure, and with it  *)
(* the permit and the client.                                              *)
PermitLost == active

PermitDropped == active - 1

SpawnHandler ==
    /\ main.at = "spawn"
    /\ LET c == main.client IN
       \/ hand' = [hand EXCEPT ![c] = "receive"] /\ UNCHANGED <<active, conn>>
       \/ active' = PermitDropped /\ conn' = [conn EXCEPT ![c] = "closed"] /\ UNCHANGED hand
    /\ main' = [at |-> "accept", client |-> Nil]
    /\ UNCHANGED <<launches, sent, reply, world, exits>>

Serve == run_from_systemd \/ Accept \/ Acquire \/ SpawnHandler

-----------------------------------------------------------------------------
(* handle_client                                                           *)

(* The handler ends: its permit is released and the connection closed,     *)
(* with r as the last message if the client still reads.                   *)
Ends(c, r) ==
    /\ hand' = [hand EXCEPT ![c] = Nil]
    /\ active' = PermitDropped
    /\ conn' = [conn EXCEPT ![c] = "closed"]
    /\ reply' = [reply EXCEPT ![c] = IF launch[c] = "receive" THEN r ELSE NoReply]

(* The request, or the receive timeout, or the end of a dead client's      *)
(* socket: without a request nothing is answered.                          *)
ReceiveRequest(c) ==
    /\ hand[c] = "receive"
    /\ \/ /\ sent[c]
          /\ hand' = [hand EXCEPT ![c] = "check"] /\ UNCHANGED <<active, conn, reply>>
       \/ ~sent[c] /\ Ends(c, NoReply)
    /\ UNCHANGED <<launches, sent, world, main, exits>>

(* is_user_namespace_fd: the mount user namespace is not the broker's own. *)
is_user_namespace_fd(c) == userns[c] # Initial

(* validate_source_fd: a private directory of the daemon that is still the *)
(* entry of its name beneath the broker's pinned root.                     *)
validate_source_fd(c, d) == source[c][d] = "private"

(* Neither leased ID is root's or the daemon's.                            *)
Foreign(ids) == ids.uid \notin {0, Daemon.uid} /\ ids.gid \notin {0, Daemon.gid}

(* The checks in their order.  The peer credentials are the daemon's, the  *)
(* descriptor count is the client's three.                                 *)
Verdict(c) ==
    IF Daemon.uid = 0 THEN "UNAUTHORIZED"
    ELSE IF ~Foreign(Lease[c]) THEN "INVALID_REQUEST"
    ELSE IF ~is_user_namespace_fd(c) \/ \E d \in Dirs : ~validate_source_fd(c, d)
    THEN "SOURCE_REJECTED"
    ELSE "OK"

Check(c) ==
    /\ hand[c] = "check"
    /\ IF Verdict(c) = "OK"
       THEN hand' = [hand EXCEPT ![c] = "mount"] /\ UNCHANGED <<active, conn, reply>>
       ELSE Ends(c, Reply(Verdict(c), {}))
    /\ UNCHANGED <<launches, sent, world, main, exits>>

(* validate_mapped_root: the root of the detached mount shows the leased   *)
(* UID and the leased GID.                                                 *)
Shows(ids, leased) == ids.uid = leased.uid /\ ids.gid = leased.gid

MappedRootUid(c) == userns[c].uid = Lease[c].uid

MappedRoot(c) == Shows(userns[c], Lease[c])

(* create_mounts: open_tree and mount_setattr may be refused; a mount made *)
(* before the failing one is closed with the call.                         *)
CreateMounts(c) ==
    /\ hand[c] = "mount"
    /\ \/ MappedRoot(c) /\ Ends(c, Reply("OK", {View(c, d) : d \in Dirs}))
       \/ Ends(c, Reply("MOUNT_UNSUPPORTED", {}))
    /\ UNCHANGED <<launches, sent, world, main, exits>>

Handler(c) == ReceiveRequest(c) \/ Check(c) \/ CreateMounts(c)

-----------------------------------------------------------------------------
(* The world                                                               *)

(* Another actor changes a source directory: its mode, or its place.  The  *)
(* mounts are made from the checked descriptors, so a later change is one  *)
(* of no directory the handler looks at.                                   *)
Disturb ==
    /\ Cardinality({e \in Clients \X Dirs : source[e[1]][e[2]] # "private"}) < MaxChanges
    /\ \E c \in Clients, d \in Dirs :
          /\ source[c][d] = "private" /\ launch[c] \notin Returned /\ hand[c] # "mount"
          /\ source' = [source EXCEPT ![c][d] = "changed"]
    /\ UNCHANGED <<launches, conn, sent, reply, userns, broker, exits>>

(* accept4 failed for good, or the broker was killed: every accepted       *)
(* connection closes, the backlog waits for the next broker.               *)
Exit ==
    /\ main.at # "down" /\ exits < MaxExits
    /\ exits' = exits + 1
    /\ main' = [at |-> "down", client |-> Nil]
    /\ active' = 0
    /\ hand' = [c \in Clients |-> Nil]
    /\ conn' = [c \in Clients |-> IF conn[c] = "accepted" THEN "closed" ELSE conn[c]]
    /\ UNCHANGED <<launches, sent, reply, world>>

-----------------------------------------------------------------------------

(* At most one launch has a mount user namespace that does not map the     *)
(* daemon's UID, its GID or either to the leased one.                      *)
Mapped(c) == [uid : {Daemon.uid, Lease[c].uid}, gid : {Daemon.gid, Lease[c].gid}]

BrokerInit ==
    /\ launch = [c \in Clients |-> "connect"]
    /\ views = [c \in Clients |-> {}]
    /\ conn = [c \in Clients |-> Nil]
    /\ sent = [c \in Clients |-> FALSE]
    /\ reply = [c \in Clients |-> NoReply]
    /\ \E c \in Clients : \E n \in {Initial} \union Mapped(c) :
          userns = [Lease EXCEPT ![c] = n]
    /\ source = [c \in Clients |-> [d \in Dirs |-> "private"]]
    /\ main = [at |-> "down", client |-> Nil]
    /\ active = 0
    /\ hand = [c \in Clients |-> Nil]
    /\ exits = 0

BrokerNext ==
    \/ \E c \in Clients : Launch(c) \/ Handler(c)
    \/ Serve \/ Disturb \/ Exit \/ DaemonDies

BrokerSpec == BrokerInit /\ [][BrokerNext]_broker_vars

(* The broker's threads and the launches run; the service manager starts a *)
(* broker again after an exit.                                             *)
BrokerFairness ==
    /\ WF_broker_vars(Serve)
    /\ \A c \in Clients : WF_broker_vars(Launch(c)) /\ WF_broker_vars(Handler(c))

FairBrokerSpec == BrokerSpec /\ BrokerFairness

-----------------------------------------------------------------------------
(* Properties                                                              *)

(* A launch that got mounts got both of its own directories, translated to *)
(* the UID and the GID leased to it, neither of them root's or the         *)
(* daemon's, however its user namespace was mapped and whatever the other  *)
(* launches and the broker did.                                            *)
ViewsMatchLease ==
    \A c \in Clients : launch[c] = "ok" =>
        /\ {<<v.of, v.dir>> : v \in views[c]} = {c} \X Dirs
        /\ \A v \in views[c] : Shows(v.ids, Lease[c]) /\ Foreign(v.ids)

(* The permits taken are the handler threads alive, plus the one the main  *)
(* loop is about to hand over, and never more than the bound: none is lost *)
(* on a timeout, a dead client, a refused request or a thread that could   *)
(* not start.                                                              *)
PermitsExact ==
    /\ active = Cardinality({c \in Clients : hand[c] # Nil})
                + (IF main.at = "spawn" THEN 1 ELSE 0)
    /\ active <= MAX_HANDLER_THREADS

(* A launch never waits for the broker for ever, although the client sets  *)
(* no timeout: with every permit taken, with the main loop waiting, and    *)
(* when the broker exits while it holds the request.                       *)
MountCallsReturn == <>(\A c \in Clients : launch[c] \in Returned)

=============================================================================
