-------------------------- MODULE SshChannelProofs --------------------------
(***************************************************************************)
(* For every capacity of the mailbox and of the output queue, any number   *)
(* of requests and any output: no host process is without an owner, the    *)
(* exit status comes after all output, and no resize is lost.              *)
(*                                                                         *)
(* LifeInv follows the process from the callback to the bridge and to its  *)
(* end, OutInv every chunk from the pipe to the client, and PtyInv and     *)
(* WinInv every resize from the registry to the terminal.                  *)
(***************************************************************************)
EXTENDS SshChannel, FiniteSetTheorems, TLAPS

USE SMTT(30), ZenonT(40)

Pair   == [1..2 -> Nat]
Sizes  == {None} \cup Pair
Plain  == {"data", "eof", "close", "signal"}
Events == [type : Plain] \cup [type : {"window"}, size : Pair, rev : Nat]
Chunks == Streams \cup {"failed"}
Ended  == {"aborted", "term", "kill", "done"}
Points == {"none", "select", "write", "send", "completed"} \cup Ended

RegType  == [open : BOOLEAN, started : BOOLEAN, pty : Sizes, rev : Nat]
ProcType == [started : BOOLEAN, live : BOOLEAN, kids : {"none", "group", "away"}, size : Sizes,
             input : {0, 1}, stdin : BOOLEAN, pipe : [Streams -> Nat], made : [Streams -> Nat],
             master : BOOLEAN, exit : BOOLEAN]
BrType   == [pc : Points, eof : BOOLEAN, applied : Nat, exit : BOOLEAN, queue : Seq(Chunks),
             pumps : SUBSET Streams, drained : BOOLEAN]
WireType == [opened : BOOLEAN, sent : [Streams -> Nat],
             exit : {"none", "255", "management", "status"}, closed : BOOLEAN]

TypeInv ==
  /\ route \in {"host", "sandbox"}
  /\ call \in {"none", "spawn", "publish", "cleanup", "killed", "inline"}
  /\ reg \in RegType /\ box \in Seq(Events) /\ proc \in ProcType /\ br \in BrType /\ wire \in WireType

\* What SIGKILL to the process group leaves.
Gone == ~proc.live /\ proc.kids # "group"

\* A channel is opened once and starts one process; the callback that starts
\* it keeps it until a bridge has it, and a bridge until it is gone.
LifeInv ==
  /\ ~wire.opened => ~reg.open /\ ~proc.started /\ call = "none" /\ box = <<>>
  /\ proc.started /\ reg.open => reg.started
  /\ call \in {"spawn", "publish"} => reg.open /\ reg.started
  /\ call = "spawn" => ~proc.started
  /\ call \in {"publish", "cleanup", "killed"} => proc.started /\ br.pc = "none"
  /\ call = "inline" => br.pc # "none"
  /\ ~proc.started => proc = NoProcess /\ br.pc = "none"
  /\ br.pc = "none" => br = NoBridge
  /\ br.exit => proc.exit
  /\ br.pc = "completed" => br.exit /\ br.drained
  /\ route = "host" /\ proc.exit => Gone
  /\ call = "killed" => Gone
  /\ route = "host" /\ br.pc \in {"kill", "done"} => Gone
  /\ route = "host" /\ br.pc = "none" /\ call = "none" => Gone

Count(q, s) == Cardinality({k \in 1..Len(q) : q[k] = s})
Failing == \E k \in 1..Len(br.queue) : br.queue[k] = "failed"

\* A pump leaves when nobody can write to its empty pipe any more, or when it
\* leaves a failed chunk behind; a terminal has no second stream.
Exhausted(s) ==
  \/ proc.pipe[s] = 0 /\ ~Writers
  \/ Failing
  \/ s = "err" /\ proc.size # None

\* Until the bridge gives up, every chunk written is sent, queued or still in
\* its pipe.
OutInv ==
  /\ proc.size # None => proc.made["err"] = 0
  /\ br.pc \notin Ended =>
       \A s \in Streams : proc.made[s] = wire.sent[s] + proc.pipe[s] + Count(br.queue, s)
  /\ br.pc \notin Ended \cup {"none"} => \A s \in Streams \ br.pumps : Exhausted(s)
  /\ br.drained => br.queue = <<>> /\ br.pumps = {}
  /\ br.pc = "send" => br.queue # <<>> /\ Head(br.queue) # "failed"
  /\ wire.exit = "status" => br.pc = "done" /\ wire.sent = proc.made

Window(k) == box[k].type = "window"
Pending(k, i) == Window(k) /\ box[k].rev > br.applied /\ box[k].size[i] # 0
LastPending(k, i) == Pending(k, i) /\ \A j \in 1..Len(box) : j > k => ~Pending(j, i)

\* Resizes are for terminals, and a process has one when its channel has.
PtyInv ==
  /\ \A k \in 1..Len(box) : Window(k) => /\ reg.open => reg.pty # None
                                         /\ proc.started => proc.size # None
  /\ proc.started /\ reg.open => (reg.pty = None <=> proc.size = None)

\* The revisions in the mailbox increase up to that of the channel.  The last
\* resize not applied yet that gives a dimension gives it the channel's value;
\* when there is none, the terminal has it.
WinInv ==
  /\ \A j, k \in 1..Len(box) : j < k /\ Window(j) /\ Window(k) => box[j].rev < box[k].rev
  /\ reg.open => /\ br.applied <= reg.rev
                 /\ \A k \in 1..Len(box) : Window(k) => box[k].rev <= reg.rev
  /\ reg.open /\ reg.pty # None /\ br.pc \in {"select", "write", "send"} =>
       \A i \in 1..2 : reg.pty[i] # 0 =>
         \/ /\ \A k \in 1..Len(box) : ~Pending(k, i)
            /\ proc.size[i] = clamp_dimension(reg.pty[i])
         \/ \E k \in 1..Len(box) : LastPending(k, i) /\ box[k].size[i] = reg.pty[i]

Inv == TypeInv /\ LifeInv /\ OutInv /\ PtyInv /\ WinInv

-----------------------------------------------------------------------------
(* Values.                                                                 *)

\* Pairs are not None, and the blank pair is one.
LEMMA PairFacts ==
  /\ None \in Sizes /\ Pair \subseteq Sizes
  /\ \A w \in Pair : w # None
  /\ <<0, 0>> \in Pair
<1>1. <<0, 0>> \in Pair
  BY DEF Pair
<1>2. \A w \in Pair : w # None
  BY DEF None, Pair
<1> QED
  BY Zenon, <1>1, <1>2 DEF Sizes

\* apply_window_size and window_size compute pairs: a given dimension becomes
\* its clamped value, one not given stays when the terminal has it.
LEMMA ComputedSizes ==
  ASSUME NEW size \in Pair, NEW w \in Pair
  PROVE  /\ apply_window_size(size, w) \in Pair
         /\ initial_size(w) \in Pair
         /\ \A i \in 1..2 : w[i] # 0 => apply_window_size(size, w)[i] = clamp_dimension(w[i])
         /\ \A i \in 1..2 : w[i] = 0 /\ size[i] # 0 => apply_window_size(size, w)[i] = size[i]
<1> USE DEF Pair
<1>1. \A n \in Nat : clamp_dimension(n) \in Nat
  BY Zenon, ChannelAssumption DEF ChannelAssumption, clamp_dimension
<1>2. ASSUME NEW z \in Pair PROVE apply_window_size(z, w) \in Pair
  BY Zenon, <1>1, ChannelAssumption DEF apply_window_size, ChannelAssumption
<1>3. initial_size(w) \in Pair
  BY Zenon, <1>1, <1>2, PairFacts, ChannelAssumption DEF initial_size, ChannelAssumption
<1>4. w = <<0, 0>> => w[1] = 0 /\ w[2] = 0
  OBVIOUS
<1>5. ASSUME NEW i \in 1..2, w[i] # 0
      PROVE  apply_window_size(size, w)[i] = clamp_dimension(w[i])
  BY <1>4, <1>5 DEF apply_window_size
<1>6. ASSUME NEW i \in 1..2, w[i] = 0, size[i] # 0
      PROVE  apply_window_size(size, w)[i] = size[i]
  BY Zenon, <1>6 DEF apply_window_size
<1> QED
  BY Zenon, <1>2, <1>3, <1>5, <1>6

\* A clamped dimension is zero only when it was.
LEMMA ClampNonzero == \A n \in Nat : n # 0 => clamp_dimension(n) # 0 /\ clamp_dimension(n) \in Nat
  BY Zenon, ChannelAssumption DEF ChannelAssumption, clamp_dimension

\* The empty values.
LEMMA Blank ==
  /\ NoState \in RegType /\ ~NoState.open
  /\ NoProcess \in ProcType /\ ~NoProcess.started /\ ~NoProcess.live /\ NoProcess.kids = "none"
  /\ NoProcess.size = None /\ ~NoProcess.exit
  /\ NoProcess.made = [s \in Streams |-> 0] /\ NoProcess.pipe = [s \in Streams |-> 0]
  /\ NoBridge \in BrType /\ NoBridge.pc = "none" /\ ~NoBridge.exit /\ ~NoBridge.drained
  /\ NoBridge.queue = <<>> /\ NoBridge.pumps = {} /\ NoBridge.applied = 0
<1>1. NoState \in RegType /\ ~NoState.open
  BY Zenon, PairFacts DEF NoState, RegType
<1>2. NoProcess \in ProcType
  BY Zenon, PairFacts DEF NoProcess, ProcType
<1>3. NoBridge \in BrType
  BY DEF NoBridge, BrType, Points
<1> QED
  BY Zenon, <1>1, <1>2, <1>3 DEF NoProcess, NoBridge

\* An empty queue holds no chunk.
LEMMA CountEmpty == \A s : Count(<<>>, s) = 0
<1>1. \A s : {k \in 1..Len(<<>>) : <<>>[k] = s} = {}
  OBVIOUS
<1> QED
  BY Zenon, <1>1, FS_EmptySet DEF Count

\* The chunks of a stream in a queue are a number.
LEMMA CountFinite ==
  ASSUME NEW q \in Seq(Chunks), NEW s
  PROVE  IsFiniteSet({k \in 1..Len(q) : q[k] = s}) /\ Count(q, s) \in Nat
<1>1. IsFiniteSet(1..Len(q))
  BY FS_Interval
<1>2. IsFiniteSet({k \in 1..Len(q) : q[k] = s})
  BY Zenon, <1>1, FS_Subset
<1> QED
  BY Zenon, <1>2, FS_CardinalityType DEF Count

\* A chunk put in counts once more.
LEMMA CountAppend ==
  ASSUME NEW q \in Seq(Chunks), NEW x \in Chunks, NEW s
  PROVE  Count(Append(q, x), s) = IF x = s THEN Count(q, s) + 1 ELSE Count(q, s)
<1> DEFINE S == {k \in 1..Len(q) : q[k] = s}
           T == {k \in 1..Len(Append(q, x)) : Append(q, x)[k] = s}
<1>1. Len(Append(q, x)) = Len(q) + 1 /\ Append(q, x)[Len(q) + 1] = x
      /\ \A k \in 1..Len(q) : Append(q, x)[k] = q[k]
  OBVIOUS
<1>2. Len(q) \in Nat
  OBVIOUS
<1>3. T = IF x = s THEN S \cup {Len(q) + 1} ELSE S
  BY <1>1, <1>2
<1>4. Len(q) + 1 \notin S
  BY <1>2
<1>5. IsFiniteSet(S) /\ Cardinality(S) = Count(q, s) /\ Cardinality(T) = Count(Append(q, x), s)
  BY Zenon, CountFinite DEF Count
<1> HIDE DEF S, T
<1>6. Cardinality(S \cup {Len(q) + 1}) = Cardinality(S) + 1
  BY Zenon, <1>4, <1>5, FS_AddElement
<1> QED
  BY Zenon, <1>3, <1>5, <1>6

\* The chunk taken out counts once less.
LEMMA CountTail ==
  ASSUME NEW q \in Seq(Chunks), q # <<>>, NEW s
  PROVE  Count(q, s) = IF Head(q) = s THEN Count(Tail(q), s) + 1 ELSE Count(Tail(q), s)
<1> DEFINE S == {k \in 1..Len(Tail(q)) : Tail(q)[k] = s}
           T == {k \in 2..Len(q) : q[k] = s}
           f == [k \in S |-> k + 1]
<1>1. /\ Len(q) \in Nat \ {0} /\ Len(Tail(q)) = Len(q) - 1 /\ Tail(q) \in Seq(Chunks)
      /\ \A k \in 1..Len(Tail(q)) : Tail(q)[k] = q[k + 1]
  OBVIOUS
<1>2. IsFiniteSet(S) /\ Cardinality(S) = Count(Tail(q), s)
  BY Zenon, <1>1, CountFinite DEF Count
<1>3. f \in [S -> T]
  BY <1>1
<1>4. \A j, k \in S : f[j] = f[k] => j = k
  BY <1>1
<1>5. ASSUME NEW t \in T PROVE \E k \in S : f[k] = t
  <2>1. t - 1 \in S /\ f[t - 1] = t
    BY <1>1
  <2> QED
    BY Zenon, <2>1
<1>6. f \in Bijection(S, T)
  BY Zenon, <1>3, <1>4, <1>5, Zenon DEF Bijection, Injection, Surjection, IsInjective
<1>7. IsFiniteSet(T) /\ Cardinality(T) = Cardinality(S)
  BY ZenonT(40), <1>2, <1>6, FS_Bijection DEF ExistsBijection
<1>8. {k \in 1..Len(q) : q[k] = s} = IF Head(q) = s THEN T \cup {1} ELSE T
  BY <1>1
<1>9. 1 \notin T
  OBVIOUS
<1> HIDE DEF S, T, f
<1>10. Cardinality(T \cup {1}) = Cardinality(T) + 1
  BY Zenon, <1>7, <1>9, FS_AddElement
<1> QED
  BY Zenon, <1>2, <1>7, <1>8, <1>10 DEF Count

-----------------------------------------------------------------------------
(* What most steps leave alone.                                            *)

\* Neither the output on its way nor the end of the bridge is disturbed.
LEMMA OutFrame ==
  ASSUME OutInv,
         proc'.made = proc.made, proc'.pipe = proc.pipe, proc'.size = None <=> proc.size = None,
         proc'.live => proc.live, proc'.kids # "none" => proc.kids # "none",
         wire'.sent = wire.sent, wire'.exit = "status" => wire.exit = "status",
         br'.drained = br.drained,
         \/ br'.queue = br.queue /\ br'.pumps = br.pumps
         \/ br'.queue = <<>> /\ br'.pumps = {} /\ br'.pc \in Ended,
         \/ br'.pc = br.pc
         \/ br'.pc \in Ended /\ br.pc # "done"
         \/ br.pc \in {"select", "write"} /\ br'.pc \in {"select", "write", "completed"}
  PROVE  OutInv'
<1>1. wire.exit = "status" => br'.pc = "done"
  BY Zenon DEF OutInv
<1>2. ASSUME br'.pc \notin Ended
      PROVE  br.pc \notin Ended /\ br'.queue = br.queue /\ br'.pumps = br.pumps
             /\ (br'.pc = "none" => br.pc = "none") /\ (br.pc = "none" => br'.pc = "none")
  BY Zenon, <1>2 DEF Ended
<1>3. ASSUME br'.queue = br.queue, NEW s \in Streams, Exhausted(s) PROVE Exhausted(s)'
  BY Zenon, <1>3 DEF Exhausted, Writers, Failing
<1>4. br'.pc \notin Ended \cup {"none"} => \A s \in Streams \ br'.pumps : Exhausted(s)'
  BY Zenon, <1>2, <1>3 DEF OutInv
<1>5. br'.pc = "send" => br'.queue # <<>> /\ Head(br'.queue) # "failed"
  <2> SUFFICES ASSUME br'.pc = "send" PROVE br'.queue # <<>> /\ Head(br'.queue) # "failed"
    OBVIOUS
  <2>1. br.pc = "send" /\ br'.queue = br.queue
    BY Zenon DEF Ended
  <2> QED
    BY Zenon, <2>1 DEF OutInv
<1> QED
  BY Zenon, <1>1, <1>2, <1>4, <1>5 DEF OutInv

\* Neither the mailbox nor the terminal is disturbed, or the channel is gone.
LEMMA WinFrame ==
  ASSUME PtyInv, WinInv,
         \/ box' = box /\ reg' = reg
         \/ box' \in {box, <<>>} /\ ~reg'.open,
         br'.applied = br.applied, proc'.size = proc.size, proc'.started = proc.started,
         br'.pc \in {"select", "write", "send"} => br.pc \in {"select", "write", "send"}
  PROVE  PtyInv' /\ WinInv'
<1>1. PtyInv'
  BY DEF PtyInv, Window
<1>2. CASE ~reg'.open
  BY <1>1, <1>2 DEF WinInv, Window
<1>3. CASE reg' = reg /\ box' = box
  BY ZenonT(40), <1>1, <1>3 DEF WinInv, Window, Pending, LastPending
<1> QED
  BY Zenon, <1>1, <1>2, <1>3

\* An event that is not a resize joins the mailbox.
LEMMA PlainAppended ==
  ASSUME TypeInv, PtyInv, WinInv, NEW t \in Plain, box' = Append(box, [type |-> t]),
         UNCHANGED <<reg, br, proc>>
  PROVE  box' \in Seq(Events) /\ PtyInv' /\ WinInv'
<1> DEFINE e == [type |-> t]
<1>1. box \in Seq(Events) /\ e \in Events /\ e.type # "window"
  BY Zenon DEF TypeInv, Events, Plain
<1> HIDE DEF e
<1>2. /\ box' = Append(box, e) /\ box' \in Seq(Events) /\ Len(box') = Len(box) + 1
      /\ \A k \in 1..Len(box) : box'[k] = box[k]
      /\ box'[Len(box) + 1] = e
  BY <1>1 DEF e
<1>3. /\ Len(box) \in Nat
      /\ \A k \in 1..Len(box') : Window(k)' => k \in 1..Len(box) /\ Window(k)
      /\ \A k \in 1..Len(box) : k \in 1..Len(box')
  BY <1>1, <1>2 DEF Window
<1>4. PtyInv'
  BY Zenon, <1>2, <1>3 DEF PtyInv
<1>5. \A i \in 1..2 : \A k \in 1..Len(box') : Pending(k, i)' <=> k \in 1..Len(box) /\ Pending(k, i)
  BY Zenon, <1>1, <1>2, <1>3 DEF Pending, Window
<1>6. \A i \in 1..2 : \A k \in 1..Len(box) : LastPending(k, i) => LastPending(k, i)'
  BY Zenon, <1>3, <1>5 DEF LastPending
<1>7. WinInv'
  <2>1. \A j, k \in 1..Len(box') : j < k /\ Window(j)' /\ Window(k)' => box'[j].rev < box'[k].rev
    BY Zenon, <1>2, <1>3 DEF WinInv
  <2>2. reg'.open => /\ br'.applied <= reg'.rev
                     /\ \A k \in 1..Len(box') : Window(k)' => box'[k].rev <= reg'.rev
    BY Zenon, <1>2, <1>3 DEF WinInv
  <2>3. ASSUME reg'.open, reg'.pty # None, br'.pc \in {"select", "write", "send"}, NEW i \in 1..2, reg'.pty[i] # 0
        PROVE  \/ /\ \A k \in 1..Len(box') : ~Pending(k, i)'
                  /\ proc'.size[i] = clamp_dimension(reg'.pty[i])
               \/ \E k \in 1..Len(box') : LastPending(k, i)' /\ box'[k].size[i] = reg'.pty[i]
    BY Zenon, <1>2, <1>3, <1>5, <1>6, <2>3 DEF WinInv
  <2> QED
    BY Zenon, <2>1, <2>2, <2>3 DEF WinInv
<1> QED
  BY Zenon, <1>2, <1>4, <1>7

-----------------------------------------------------------------------------
(* The callbacks, and the end of the one that starts the operation.        *)

\* A callback that leaves the process and the bridge alone.
LEMMA CallbackFrame ==
  ASSUME Inv, UNCHANGED <<proc, br>>, wire'.sent = wire.sent,
         wire'.exit = "status" => wire.exit = "status"
  PROVE  OutInv'
  BY Zenon, OutFrame DEF Inv

\* Removed: the registry forgets the channel.
LEMMA RemovedFacts == ASSUME Removed PROVE reg' \in RegType /\ ~reg'.open
  BY Zenon, Blank DEF Removed

\* The channel opens: no process, no event.
LEMMA OpenStep == ASSUME Inv, channel_open_session PROVE Inv'
<1>1. /\ call = "none" /\ ~wire.opened /\ reg' = [NoState EXCEPT !.open = TRUE]
      /\ wire' = [wire EXCEPT !.opened = TRUE] /\ UNCHANGED <<route, call, box, proc, br>>
  BY Zenon DEF channel_open_session
<1>2. reg' \in RegType /\ reg'.open
  BY Zenon, <1>1, Blank DEF NoState, RegType
<1>3. wire' \in WireType /\ wire'.sent = wire.sent /\ wire'.opened
      /\ (wire'.exit = "status" => wire.exit = "status")
  BY Zenon, <1>1 DEF Inv, TypeInv, WireType
<1>4. ~proc.started /\ box = <<>> /\ br = NoBridge
  BY Zenon, <1>1 DEF Inv, LifeInv
<1>5. TypeInv' /\ LifeInv'
  BY Zenon, <1>1, <1>2, <1>3, <1>4 DEF Inv, TypeInv, LifeInv, Gone
<1>6. PtyInv' /\ WinInv'
  <2>1. br'.applied = 0 /\ br'.pc = "none" /\ reg'.rev \in Nat /\ Len(box') = 0
    BY Zenon, <1>1, <1>2, <1>4, Blank DEF RegType
  <2> QED
    BY <1>1, <1>4, <2>1 DEF PtyInv, WinInv
<1> QED
  BY Zenon, <1>1, <1>3, <1>5, <1>6, CallbackFrame DEF Inv

\* The channel gets a terminal size before anything has started.
LEMMA PtyStep == ASSUME Inv, NEW w \in Windows, pty_request(w) PROVE Inv'
<1>1. /\ call = "none" /\ reg.open /\ ~reg.started /\ reg.pty = None
      /\ reg' = [reg EXCEPT !.pty = w] /\ UNCHANGED <<route, call, box, proc, br, wire>>
  BY Zenon DEF pty_request, Callback, CallbackOf
<1>2. w \in Pair /\ w # None /\ w \in Sizes
  BY Zenon, PairFacts, ChannelAssumption DEF ChannelAssumption, Pair
<1>3. reg' \in RegType /\ reg'.open /\ reg'.started = reg.started /\ reg'.rev = reg.rev /\ reg'.pty = w
  BY Zenon, <1>1, <1>2 DEF Inv, TypeInv, RegType
<1>4. ~proc.started /\ br.pc = "none" /\ \A k \in 1..Len(box) : ~Window(k)
  BY Zenon, <1>1 DEF Inv, LifeInv, PtyInv
<1>5. TypeInv' /\ LifeInv'
  BY Zenon, <1>1, <1>3, <1>4 DEF Inv, TypeInv, LifeInv, Gone
<1>6. PtyInv' /\ WinInv'
  BY Zenon, <1>1, <1>3, <1>4 DEF Inv, PtyInv, WinInv, Window
<1> QED
  BY Zenon, <1>1, <1>5, <1>6, CallbackFrame DEF Inv

\* Steps that only forget the channel, answer it, or put a plain event in.
LEMMA PlainStep ==
  ASSUME Inv, signal \/ channel_close \/ management \/ DropHandler \/ Lose \/ Shutdown
              \/ \E t \in {"data", "eof"} : input(t)
  PROVE  Inv'
<1>1. /\ UNCHANGED <<route, call, proc, br>>
      /\ call \notin {"spawn", "publish"} \/ UNCHANGED <<reg, box, wire>>
      /\ \/ wire' = wire
         \/ wire' = [wire EXCEPT !.closed = TRUE]
         \/ wire' = [wire EXCEPT !.exit = "management", !.closed = TRUE]
      /\ \/ reg' = reg /\ box' = box
         \/ Removed /\ box' = box
         \/ reg' = reg /\ reg.open /\ \E t \in Plain : box' = Append(box, [type |-> t])
  BY Zenon DEF signal, channel_close, management, DropHandler, Lose, Shutdown, input, Callback, CallbackOf,
         Sendable, Plain
<1>2. wire' \in WireType /\ wire'.sent = wire.sent /\ (wire'.exit = "status" => wire.exit = "status")
      /\ wire'.opened = wire.opened
  BY Zenon, <1>1 DEF Inv, TypeInv, WireType
<1>3. OutInv'
  BY Zenon, <1>1, <1>2, CallbackFrame
<1>4. reg' \in RegType /\ (reg' = reg \/ ~reg'.open)
  BY Zenon, <1>1, RemovedFacts DEF Inv, TypeInv
<1>5. box' \in Seq(Events) /\ PtyInv' /\ WinInv'
  <2>1. CASE box' = box
    <3>1. /\ br'.applied = br.applied /\ br'.pc = br.pc
          /\ proc'.size = proc.size /\ proc'.started = proc.started
      BY Zenon, <1>1
    <3>2. PtyInv' /\ WinInv'
      BY Zenon, <1>4, <2>1, <3>1, WinFrame DEF Inv
    <3> QED
      BY Zenon, <2>1, <3>2 DEF Inv, TypeInv
  <2>2. CASE reg' = reg /\ \E t \in Plain : box' = Append(box, [type |-> t])
    BY Zenon, <1>1, <2>2, PlainAppended DEF Inv
  <2> QED
    BY Zenon, <1>1, <2>1, <2>2
<1>6. wire.opened \/ box' = box
  BY Zenon, <1>1 DEF Inv, LifeInv
<1>7. LifeInv'
  BY Zenon, <1>1, <1>2, <1>4, <1>6 DEF Inv, LifeInv, Gone
<1> QED
  BY Zenon, <1>1, <1>2, <1>3, <1>4, <1>5, <1>7 DEF Inv, TypeInv

\* A resize takes the next revision and is the last one pending in the
\* dimensions it gives; in the others nothing changes.
LEMMA WindowStep == ASSUME Inv, NEW w \in Windows, window_change_request(w) PROVE Inv'
<1>1. /\ call = "none" /\ reg.open /\ reg.pty # None /\ UNCHANGED <<route, call, proc, br, wire>>
  BY Zenon DEF window_change_request, Callback, CallbackOf
<1>2. reg \in RegType /\ box \in Seq(Events) /\ w \in Pair /\ reg.pty \in Pair /\ reg.rev \in Nat
  BY Zenon, <1>1, ChannelAssumption DEF Inv, TypeInv, RegType, Sizes, Pair, ChannelAssumption
<1>3. OutInv'
  BY Zenon, <1>1, CallbackFrame
<1>4. CASE UNCHANGED <<reg, box>>
  <2>1. PtyInv' /\ WinInv'
    BY Zenon, <1>1, <1>4, WinFrame DEF Inv
  <2> QED
    BY Zenon, <1>1, <1>3, <1>4, <2>1 DEF Inv, TypeInv, LifeInv, Gone
<1>5. CASE Removed /\ box' = box
  <2>1. reg' \in RegType /\ ~reg'.open
    BY Zenon, <1>5, RemovedFacts
  <2>2. PtyInv' /\ WinInv'
    BY Zenon, <1>1, <1>5, <2>1, WinFrame DEF Inv
  <2> QED
    BY Zenon, <1>1, <1>3, <1>5, <2>1, <2>2 DEF Inv, TypeInv, LifeInv, Gone
<1>6. CASE w # <<0, 0>> /\ Sendable
  <2> DEFINE pty == [i \in 1..2 |-> IF w[i] # 0 THEN w[i] ELSE reg.pty[i]]
             rev == reg.rev + 1
             e == [type |-> "window", size |-> w, rev |-> rev]
  <2>1. reg' = [reg EXCEPT !.pty = pty, !.rev = rev] /\ box' = Append(box, e)
    BY Zenon, <1>6 DEF window_change_request, update_window
  <2>2. pty \in Pair /\ pty # None /\ pty \in Sizes /\ rev \in Nat
    BY <1>2, PairFacts DEF Pair
  <2>3. /\ reg' \in RegType /\ reg'.open /\ reg'.started = reg.started
        /\ reg'.pty = pty /\ reg'.rev = rev
    BY Zenon, <1>1, <1>2, <2>1, <2>2 DEF RegType
  <2>4. e \in Events /\ e.type = "window" /\ e.size = w /\ e.rev = rev
    BY Zenon, <1>2, <2>2 DEF Events
  <2>5. \A i \in 1..2 : pty[i] = IF w[i] # 0 THEN w[i] ELSE reg.pty[i]
    OBVIOUS
  <2> HIDE DEF pty, e
  <2>6. box' \in Seq(Events)
    BY <1>2, <2>1, <2>4
  <2>12. PICK n \in 1..Len(box') :
          /\ \A k \in 1..Len(box') : k \in 1..Len(box) \/ k = n
          /\ \A k \in 1..Len(box) : k < n /\ k \in 1..Len(box')
          /\ box'[n] = e /\ \A k \in 1..Len(box) : box'[k] = box[k]
    <3>1. /\ Len(box) + 1 \in 1..Len(box')
          /\ \A k \in 1..Len(box') : k \in 1..Len(box) \/ k = Len(box) + 1
          /\ \A k \in 1..Len(box) : k < Len(box) + 1 /\ k \in 1..Len(box')
          /\ box'[Len(box) + 1] = e /\ \A k \in 1..Len(box) : box'[k] = box[k]
      BY <1>2, <2>1, <2>4
    <3> QED
      BY Zenon, <3>1
  <2>7. PtyInv'
    <3>1. proc'.started => proc'.size # None
      BY Zenon, <1>1 DEF Inv, PtyInv
    <3> QED
      BY Zenon, <1>1, <2>2, <2>3, <2>12, <3>1 DEF Inv, PtyInv, Window
  <2>8. /\ br.applied <= reg.rev /\ br.applied \in Nat
        /\ \A k \in 1..Len(box) : Window(k) => box[k].rev <= reg.rev /\ box[k].rev \in Nat
    <3>1. \A k \in 1..Len(box) : box[k] \in Events
      BY <1>2
    <3> QED
      BY Zenon, <1>1, <3>1 DEF Inv, TypeInv, BrType, WinInv, Window, Events, Plain
  <2>9. /\ \A k \in 1..Len(box) : Window(k)' <=> Window(k)
        /\ \A i \in 1..2 : \A k \in 1..Len(box) : Pending(k, i)' <=> Pending(k, i)
        /\ \A i \in 1..2 : Pending(n, i)' <=> w[i] # 0
    <3>1. \A k \in 1..Len(box) : Window(k)' <=> Window(k)
      BY Zenon, <2>12 DEF Window
    <3>2. \A i \in 1..2 : \A k \in 1..Len(box) : Pending(k, i)' <=> Pending(k, i)
      BY Zenon, <1>1, <2>12, <3>1 DEF Pending
    <3>3. rev > br.applied
      BY <1>2, <2>8
    <3>4. \A i \in 1..2 : Pending(n, i)' <=> w[i] # 0
      BY Zenon, <1>1, <2>4, <2>12, <3>3 DEF Window, Pending
    <3> QED
      BY Zenon, <3>1, <3>2, <3>4
  <2>10. WinInv'
    <3>1. \A j, k \in 1..Len(box') : j < k /\ Window(j)' /\ Window(k)' => box'[j].rev < box'[k].rev
      <4> SUFFICES ASSUME NEW j \in 1..Len(box'), NEW k \in 1..Len(box'), j < k, Window(j)', Window(k)'
                   PROVE  box'[j].rev < box'[k].rev
        OBVIOUS
      <4>1. j \in 1..Len(box) /\ Window(j) /\ box'[j] = box[j]
        BY <2>9, <2>12
      <4>2. CASE k = n
        BY <1>2, <2>4, <2>8, <2>12, <4>1, <4>2
      <4>3. CASE k \in 1..Len(box)
        BY Zenon, <2>9, <2>12, <4>1, <4>3 DEF Inv, WinInv
      <4> QED
        BY Zenon, <2>12, <4>2, <4>3
    <3>2. /\ br'.applied <= reg'.rev
          /\ \A k \in 1..Len(box') : Window(k)' => box'[k].rev <= reg'.rev
      <4>1. br'.applied <= reg'.rev
        BY <1>1, <1>2, <2>3, <2>8
      <4>2. ASSUME NEW k \in 1..Len(box'), Window(k)' PROVE box'[k].rev <= reg'.rev
        <5>1. CASE k = n
          BY <1>2, <2>3, <2>4, <2>12, <5>1
        <5>2. CASE k \in 1..Len(box)
          BY <1>2, <2>3, <2>8, <2>9, <2>12, <4>2, <5>2
        <5> QED
          BY Zenon, <2>12, <5>1, <5>2
      <4> QED
        BY Zenon, <4>1, <4>2
    <3>3. ASSUME br'.pc \in {"select", "write", "send"}, NEW i \in 1..2, reg'.pty[i] # 0
          PROVE  \/ /\ \A k \in 1..Len(box') : ~Pending(k, i)'
                    /\ proc'.size[i] = clamp_dimension(reg'.pty[i])
                 \/ \E k \in 1..Len(box') : LastPending(k, i)' /\ box'[k].size[i] = reg'.pty[i]
      <4>1. CASE w[i] # 0
        <5>1. LastPending(n, i)'
          BY <2>12, <2>9, <4>1 DEF LastPending
        <5> QED
          BY Zenon, <2>3, <2>4, <2>5, <2>12, <4>1, <5>1
      <4>2. CASE w[i] = 0
        <5>1. \A k \in 1..Len(box) : LastPending(k, i) => LastPending(k, i)'
          BY Zenon, <2>12, <2>9, <4>2 DEF LastPending
        <5>2. reg'.pty[i] = reg.pty[i]
          BY Zenon, <2>3, <2>5, <4>2
        <5> QED
          BY <1>1, <2>12, <2>9, <3>3, <4>2, <5>1, <5>2 DEF Inv, WinInv
      <4> QED
        BY Zenon, <4>1, <4>2
    <3> QED
      BY Zenon, <3>1, <3>2, <3>3 DEF WinInv
  <2>11. wire.opened
    BY Zenon, <1>1 DEF Inv, LifeInv
  <2> QED
    BY Zenon, <1>1, <1>3, <2>3, <2>6, <2>7, <2>10, <2>11 DEF Inv, TypeInv, LifeInv, Gone
<1> QED
  BY Zenon, <1>4, <1>5, <1>6 DEF window_change_request

\* Steps of the callback that starts the operation, but for the launch and the
\* hand-over: they forget the channel or claim it, and may kill the process.
LEMMA StartingStep ==
  ASSUME Inv, start_operation \/ CleanupEnd \/ InlineEnd
  PROVE  Inv'
<1>1. /\ UNCHANGED <<route, box, proc, br>>
      /\ wire' = wire \/ wire' = finish_failed
      /\ \/ /\ call = "none" /\ call' = "spawn" /\ reg.open /\ ~reg.started
            /\ reg' = [reg EXCEPT !.started = TRUE]
         \/ call = "none" /\ call' = "none" /\ Removed
         \/ call = "cleanup" /\ proc.exit /\ call' = "none" /\ Removed
         \/ call = "killed" /\ call' = "none" /\ Removed
         \/ call = "inline" /\ br.pc = "done" /\ call' = "none" /\ reg' = reg
  BY Zenon DEF start_operation, CleanupEnd, InlineEnd, Callback, CallbackOf
<1>2. wire' \in WireType /\ wire'.sent = wire.sent /\ (wire'.exit = "status" => wire.exit = "status")
      /\ wire'.opened = wire.opened
  BY Zenon, <1>1 DEF Inv, TypeInv, WireType, finish_failed
<1>3. /\ reg' \in RegType
      /\ \/ reg' = reg \/ ~reg'.open
         \/ /\ call = "none" /\ call' = "spawn" /\ reg.open /\ ~reg.started /\ reg'.open /\ reg'.started
            /\ reg'.pty = reg.pty /\ reg'.rev = reg.rev
  BY Zenon, <1>1, RemovedFacts DEF Inv, TypeInv, RegType
<1>4. OutInv'
  BY Zenon, <1>1, <1>2, CallbackFrame
<1>5. PtyInv' /\ WinInv'
  <2>1. CASE reg' = reg \/ ~reg'.open
    BY Zenon, <1>1, <2>1, WinFrame DEF Inv
  <2>2. CASE reg.open /\ reg'.open /\ reg'.pty = reg.pty /\ reg'.rev = reg.rev
    BY <1>1, <2>2 DEF Inv, PtyInv, WinInv, Window, Pending, LastPending
  <2> QED
    BY Zenon, <1>3, <2>1, <2>2
<1>6. LifeInv'
  <2>1. CASE call' = "spawn"
    <3>1. call = "none" /\ reg.open /\ ~reg.started /\ reg' = [reg EXCEPT !.started = TRUE]
      BY Zenon, <1>1, <2>1
    <3>2. reg'.started /\ reg'.open
      BY Zenon, <3>1 DEF Inv, TypeInv, RegType
    <3>3. ~proc.started /\ wire.opened /\ br.pc = "none"
      BY Zenon, <3>1 DEF Inv, LifeInv
    <3> QED
      BY Zenon, <1>1, <1>2, <2>1, <3>2, <3>3 DEF Inv, LifeInv, Gone
  <2>2. CASE call' = "none" /\ ~reg'.open
    BY Zenon, <1>1, <1>2, <2>2 DEF Inv, LifeInv, Gone
  <2>3. CASE call' = "none" /\ reg' = reg /\ call = "inline"
    BY Zenon, <1>1, <1>2, <2>3 DEF Inv, LifeInv, Gone
  <2> QED
    BY Zenon, <1>1, <2>1, <2>2, <2>3, RemovedFacts
<1> QED
  BY Zenon, <1>1, <1>2, <1>3, <1>4, <1>5, <1>6 DEF Inv, TypeInv

\* SIGKILL to the group changes who is alive and nothing else.
LEMMA KilledFacts ==
  ASSUME proc \in ProcType
  PROVE  /\ KilledGroup \in ProcType /\ ~KilledGroup.live /\ KilledGroup.kids # "group"
         /\ KilledGroup.kids # "none" => proc.kids # "none"
         /\ KilledGroup.started = proc.started /\ KilledGroup.exit = proc.exit
         /\ KilledGroup.size = proc.size /\ KilledGroup.made = proc.made
         /\ KilledGroup.pipe = proc.pipe /\ KilledGroup.master = proc.master
  BY Zenon DEF KilledGroup, ProcType

\* The launch returns: a process without output, with a terminal of a size
\* when the channel asked for one.
LEMMA SpawnedStep == ASSUME Inv, Spawned PROVE Inv'
<1>1. /\ call = "spawn" /\ ~proc.started /\ reg.open /\ reg.started /\ br.pc = "none"
      /\ proc = NoProcess /\ br = NoBridge /\ UNCHANGED <<route, box, br>> /\ wire.opened
  BY Zenon DEF Inv, LifeInv, Spawned
<1>2. CASE wire' = finish_failed /\ Removed /\ call' = "none" /\ proc' = proc
  <2>1. wire' \in WireType /\ wire'.sent = wire.sent /\ (wire'.exit = "status" => wire.exit = "status")
        /\ wire'.opened = wire.opened
    BY Zenon, <1>2 DEF Inv, TypeInv, WireType, finish_failed
  <2>2. reg' \in RegType /\ ~reg'.open
    BY Zenon, <1>2, RemovedFacts
  <2>3. OutInv'
    BY Zenon, <1>1, <1>2, <2>1, CallbackFrame
  <2>4. PtyInv' /\ WinInv'
    BY Zenon, <1>1, <1>2, <2>2, WinFrame DEF Inv
  <2> QED
    BY Zenon, <1>1, <1>2, <2>1, <2>2, <2>3, <2>4, Blank DEF Inv, TypeInv, LifeInv, Gone
<1>3. CASE call' = "publish" /\ UNCHANGED <<reg, wire>>
  <2> DEFINE z == IF reg.pty = None THEN None ELSE initial_size(reg.pty)
  <2>1. proc' = [NoProcess EXCEPT !.started = TRUE, !.live = TRUE, !.stdin = TRUE,
                                  !.master = (reg.pty # None), !.size = z]
    BY Zenon, <1>3 DEF Spawned
  <2>2. z \in Sizes /\ (reg.pty = None <=> z = None)
    <3>1. CASE reg.pty = None
      BY Zenon, <3>1, PairFacts
    <3>2. CASE reg.pty # None
      <4>1. reg.pty \in Pair
        BY Zenon, <3>2 DEF Inv, TypeInv, RegType, Sizes
      <4>2. z \in Pair
        BY Zenon, <3>2, <4>1, ComputedSizes
      <4> QED
        BY Zenon, <3>2, <4>2, PairFacts
    <3> QED
      BY Zenon, <3>1, <3>2
  <2> HIDE DEF z
  <2>3. /\ proc' \in ProcType /\ proc'.started /\ proc'.live /\ proc'.kids = "none" /\ ~proc'.exit
        /\ proc'.size = z /\ proc'.made = NoProcess.made /\ proc'.pipe = NoProcess.pipe
    BY ZenonT(40), <2>1, <2>2, Blank DEF NoProcess, ProcType
  <2>4. OutInv'
    BY <1>1, <1>3, <2>3, Blank DEF Inv, OutInv, Streams
  <2>5. PtyInv' /\ WinInv'
    BY Zenon, <1>1, <1>3, <2>2, <2>3 DEF Inv, PtyInv, WinInv, Window
  <2>6. LifeInv'
    BY Zenon, <1>1, <1>3, <2>3, Blank DEF Inv, LifeInv, Gone
  <2> QED
    BY Zenon, <1>1, <1>3, <2>3, <2>4, <2>5, <2>6 DEF Inv, TypeInv
<1> QED
  BY Zenon, <1>2, <1>3 DEF Spawned

\* The hand-over.  synchronize_window gives the terminal the size of the
\* channel's latest request, and its revision makes the queued ones stale.
LEMMA PublishStep == ASSUME Inv, Publish PROVE Inv'
<1>1. /\ call = "publish" /\ reg.open /\ reg.started /\ br.pc = "none" /\ br = NoBridge /\ wire.opened
      /\ proc.started /\ UNCHANGED <<route, reg, box>>
  BY Zenon DEF Inv, LifeInv, Publish
<1>2. CASE call' = "cleanup" /\ UNCHANGED <<proc, br, wire>>
  <2>1. OutInv' /\ PtyInv' /\ WinInv'
    BY Zenon, <1>1, <1>2, CallbackFrame, WinFrame DEF Inv
  <2> QED
    BY Zenon, <1>1, <1>2, <2>1 DEF Inv, TypeInv, LifeInv, Gone
<1>3. CASE call' # "cleanup"
  <2> DEFINE size == IF reg.pty = None THEN None ELSE apply_window_size(proc.size, reg.pty)
             refused == route = "host" /\ shutdown
             P == IF refused THEN KilledGroup ELSE proc
             applied == IF reg.pty = None THEN 0 ELSE reg.rev
  <2>1. /\ proc' = [P EXCEPT !.size = size]
        /\ br' = [NoBridge EXCEPT !.pc = "select", !.pumps = Pumps, !.applied = applied]
        /\ wire' = wire /\ call' = IF refused THEN "inline" ELSE "none"
    BY Zenon, <1>1, <1>3 DEF Publish
  <2>2. /\ P \in ProcType /\ (P.live => proc.live) /\ (P.kids # "none" => proc.kids # "none")
        /\ (Gone => ~P.live /\ P.kids # "group")
        /\ P.started = proc.started /\ P.exit = proc.exit
        /\ P.made = proc.made /\ P.pipe = proc.pipe
    BY Zenon, KilledFacts DEF Inv, TypeInv, Gone
  <2>3. /\ reg.pty # None => reg.pty \in Pair /\ proc.size \in Pair
        /\ reg.pty # None => size \in Pair /\ size # None
        /\ reg.pty # None => \A i \in 1..2 : reg.pty[i] # 0 => size[i] = clamp_dimension(reg.pty[i])
    <3>1. reg.pty # None => reg.pty \in Pair /\ proc.size \in Pair
      BY Zenon, <1>1 DEF Inv, TypeInv, RegType, ProcType, Sizes, PtyInv
    <3> QED
      BY <3>1, ComputedSizes, PairFacts
  <2>4. size \in Sizes /\ (size = None <=> reg.pty = None)
    BY Zenon, <2>3, PairFacts
  <2>5. applied \in Nat /\ applied <= reg.rev
    BY DEF Inv, TypeInv, RegType
  <2>6. Pumps \in SUBSET Streams /\ "out" \in Pumps /\ (reg.pty = None => "err" \in Pumps)
    BY Zenon DEF Pumps, Streams
  <2> HIDE DEF size, P
  <2>7. /\ proc' \in ProcType /\ proc'.size = size /\ proc'.live = P.live /\ proc'.kids = P.kids
        /\ proc'.started = P.started /\ proc'.exit = P.exit /\ proc'.made = P.made /\ proc'.pipe = P.pipe
    BY Zenon, <2>1, <2>2, <2>4 DEF ProcType
  <2>8. /\ br' \in BrType /\ br'.pc = "select" /\ br'.pumps = Pumps /\ br'.applied = applied
        /\ ~br'.exit /\ ~br'.drained /\ br'.queue = <<>>
    BY Zenon, <2>1, <2>5, <2>6, Blank DEF NoBridge, BrType, Points
  <2>9. OutInv'
    <3>1. br.queue = <<>> /\ br'.pc \notin Ended /\ br.pc \notin Ended
      BY Zenon, <1>1, <2>8, Blank DEF Ended
    <3>2. \A s \in Streams : proc'.made[s] = wire'.sent[s] + proc'.pipe[s] + Count(br'.queue, s)
      BY <2>1, <2>2, <2>7, <2>8, <3>1 DEF Inv, OutInv
    <3>3. ASSUME NEW s \in Streams \ br'.pumps PROVE Exhausted(s)'
      BY Zenon, <2>4, <2>6, <2>7, <2>8, <3>3 DEF Exhausted, Streams
    <3>4. proc'.size # None => proc'.made["err"] = 0
      BY Zenon, <1>1, <2>2, <2>4, <2>7 DEF Inv, OutInv, PtyInv
    <3>5. wire'.exit # "status"
      BY Zenon, <1>1, <2>1 DEF Inv, OutInv
    <3> QED
      BY Zenon, <2>8, <3>1, <3>2, <3>3, <3>4, <3>5 DEF OutInv
  <2>10. PtyInv'
    BY Zenon, <1>1, <2>2, <2>4, <2>7 DEF Inv, PtyInv, Window
  <2>11. WinInv'
    <3>1. \A k \in 1..Len(box) : Window(k) => box[k].rev <= reg.rev /\ box[k].rev \in Nat
      <4>1. \A k \in 1..Len(box) : box[k] \in Events
        BY DEF Inv, TypeInv
      <4> QED
        BY Zenon, <1>1, <4>1 DEF Inv, WinInv, Window, Events, Plain
    <3>2. reg.pty # None => \A i \in 1..2 : \A k \in 1..Len(box) : ~Pending(k, i)'
      BY <1>1, <2>5, <2>8, <3>1 DEF Pending, Window, Inv, TypeInv, RegType
    <3>3. \A j, k \in 1..Len(box') : j < k /\ Window(j)' /\ Window(k)' => box'[j].rev < box'[k].rev
      BY Zenon, <1>1 DEF Inv, WinInv, Window
    <3>4. br'.applied <= reg'.rev /\ \A k \in 1..Len(box') : Window(k)' => box'[k].rev <= reg'.rev
      BY Zenon, <1>1, <2>5, <2>8, <3>1 DEF Window
    <3> QED
      BY Zenon, <1>1, <2>3, <2>7, <3>2, <3>3, <3>4 DEF WinInv
  <2>12. LifeInv'
    BY Zenon, <1>1, <2>1, <2>2, <2>7, <2>8 DEF Inv, LifeInv, Gone
  <2> QED
    BY Zenon, <1>1, <2>1, <2>7, <2>8, <2>9, <2>10, <2>11, <2>12 DEF Inv, TypeInv
<1> QED
  BY Zenon, <1>2, <1>3 DEF Publish

\* The process is killed, by the cleanup of a failed start or by its bridge, or
\* its end is known: nothing is written that was not.
LEMMA KillStep ==
  ASSUME Inv, CleanupKill \/ HostKill \/ Reap
  PROVE  Inv'
<1>1. proc \in ProcType /\ br \in BrType
  BY Zenon DEF Inv, TypeInv
<1>2. /\ UNCHANGED <<route, reg, box, wire>>
      /\ \/ call = "cleanup" /\ call' = "killed" /\ br' = br /\ proc' = KilledGroup
         \/ br.pc = "term" /\ br' = [br EXCEPT !.pc = "kill"] /\ call' = call /\ proc' = KilledGroup
         \/ /\ proc.started /\ ~proc.live /\ ~proc.exit /\ call' = call /\ br' = br
            /\ proc' = IF route = "host" THEN [KilledGroup EXCEPT !.exit = TRUE]
                       ELSE [proc EXCEPT !.exit = TRUE, !.master = FALSE]
  BY Zenon DEF CleanupKill, HostKill, Forced, Reap
<1>3. /\ proc' \in ProcType /\ ~proc'.live /\ (proc'.kids # "none" => proc.kids # "none")
      /\ proc'.started = proc.started /\ (proc.exit => proc'.exit) /\ proc'.size = proc.size
      /\ proc'.made = proc.made /\ proc'.pipe = proc.pipe
      /\ (route = "host" \/ call' = "killed" \/ Gone => proc'.kids # "group")
  <2> DEFINE K == KilledGroup
  <2>1. /\ K \in ProcType /\ ~K.live /\ K.kids # "group" /\ (K.kids # "none" => proc.kids # "none")
        /\ K.started = proc.started /\ K.exit = proc.exit /\ K.size = proc.size /\ K.made = proc.made
        /\ K.pipe = proc.pipe
    BY Zenon, <1>1, KilledFacts
  <2> HIDE DEF K
  <2>2. CASE proc' = K
    BY Zenon, <2>1, <2>2
  <2>3. CASE proc' = [K EXCEPT !.exit = TRUE]
    BY Zenon, <2>1, <2>3 DEF ProcType
  <2>4. CASE /\ ~proc.live /\ proc' = [proc EXCEPT !.exit = TRUE, !.master = FALSE]
             /\ route # "host" /\ call' = call
    <3>1. call = "killed" => Gone
      BY Zenon DEF Inv, LifeInv
    <3> QED
      BY Zenon, <1>1, <2>4, <3>1 DEF ProcType, Gone
  <2> QED
    BY Zenon, <1>2, <2>2, <2>3, <2>4 DEF K
<1>4. /\ br' \in BrType /\ br'.exit = br.exit /\ br'.drained = br.drained /\ br'.queue = br.queue
      /\ br'.pumps = br.pumps /\ br'.applied = br.applied
      /\ \/ br' = br
         \/ br.pc = "term" /\ br'.pc = "kill" /\ call' = call
  BY Zenon, <1>1, <1>2 DEF BrType, Points, Ended
<1>5. OutInv' /\ PtyInv' /\ WinInv'
  BY Zenon, <1>2, <1>3, <1>4, OutFrame, WinFrame DEF Inv, Ended
<1>6. LifeInv'
  <2>1. CASE br' = br /\ call' = call
    <3>1. proc.started
      BY Zenon, <1>2, <2>1 DEF Inv, LifeInv
    <3> QED
      BY Zenon, <1>2, <1>3, <2>1, <3>1 DEF Inv, LifeInv, Gone
  <2>2. CASE call = "cleanup" /\ call' = "killed" /\ br' = br
    BY Zenon, <1>2, <1>3, <2>2 DEF Inv, LifeInv, Gone
  <2>3. CASE br.pc = "term" /\ br'.pc = "kill" /\ call' = call
    BY Zenon, <1>2, <1>3, <1>4, <2>3 DEF Inv, LifeInv, Gone
  <2> QED
    BY Zenon, <1>2, <1>4, <2>1, <2>2, <2>3
<1> QED
  BY Zenon, <1>2, <1>3, <1>4, <1>5, <1>6 DEF Inv, TypeInv


-----------------------------------------------------------------------------
(* The bridge.                                                             *)

\* A bridge that exists has a process, and is not the callback's any more.
LEMMA BridgeUp ==
  ASSUME Inv, br.pc # "none"
  PROVE  /\ proc.started /\ wire.opened /\ call \notin {"spawn", "publish", "cleanup", "killed"}
         /\ proc \in ProcType /\ br \in BrType /\ wire \in WireType
  BY Zenon DEF Inv, LifeInv, TypeInv

\* The teardown drops the pumps and what they had queued.
LEMMA Emptied ==
  ASSUME br \in BrType, NEW p \in Points, br' = [br EXCEPT !.pc = p, !.pumps = {}, !.queue = <<>>]
  PROVE  /\ br' \in BrType /\ br'.pc = p /\ br'.pumps = {} /\ br'.queue = <<>>
         /\ br'.applied = br.applied /\ br'.exit = br.exit /\ br'.drained = br.drained
<1> DEFINE q == <<>>
<1>1. q \in Seq(Chunks) /\ br' = [br EXCEPT !.pc = p, !.pumps = {}, !.queue = q]
  OBVIOUS
<1> HIDE DEF q
<1>2. br'.queue = q /\ br' \in BrType /\ br'.pc = p /\ br'.pumps = {}
  BY Zenon, <1>1 DEF BrType
<1> QED
  BY Zenon, <1>1, <1>2 DEF BrType, q

\* The end of a write, and the steps from giving up to the end of the teardown.
LEMMA TeardownStep ==
  ASSUME Inv, Written \/ Woken \/ SendFails \/ HostTerm \/ HostEnd \/ Detach
  PROVE  Inv'
<1>1. br.pc # "none"
  BY Zenon DEF Written, Woken, SendFails, HostTerm, HostEnd, Detach
<1>2. /\ proc.started /\ wire.opened /\ call \notin {"spawn", "publish", "cleanup", "killed"}
      /\ proc \in ProcType /\ br \in BrType /\ wire \in WireType
  BY Zenon, <1>1, BridgeUp
<1>3. /\ UNCHANGED <<route, call>>
      /\ wire' = wire \/ wire' = [wire EXCEPT !.closed = TRUE]
      /\ \/ box' = box /\ reg' = reg
         \/ box' = <<>> /\ Removed
  BY Zenon DEF Written, Woken, SendFails, HostTerm, HostEnd, Detach
<1>4. /\ wire' \in WireType /\ wire'.sent = wire.sent /\ wire'.exit = wire.exit
      /\ wire'.opened = wire.opened
  BY Zenon, <1>2, <1>3 DEF WireType
<1>5. reg' \in RegType /\ (reg' = reg \/ ~reg'.open)
  BY Zenon, <1>3, RemovedFacts DEF Inv, TypeInv
<1>6. /\ proc' \in ProcType /\ proc'.started = proc.started /\ proc'.live = proc.live
      /\ proc'.kids = proc.kids /\ proc'.size = proc.size /\ proc'.made = proc.made
      /\ proc'.pipe = proc.pipe /\ proc'.exit = proc.exit
  <2>1. \/ proc' = proc \/ proc' = [proc EXCEPT !.input = 1] \/ proc' = [proc EXCEPT !.stdin = FALSE]
        \/ proc' = [proc EXCEPT !.stdin = FALSE, !.master = FALSE]
    BY Zenon DEF Written, Woken, SendFails, HostTerm, HostEnd, Detach
  <2>2. CASE proc' = [proc EXCEPT !.input = 1]
    BY Zenon, <1>2, <2>2 DEF ProcType
  <2>3. CASE proc' = [proc EXCEPT !.stdin = FALSE]
    BY Zenon, <1>2, <2>3 DEF ProcType
  <2>4. CASE proc' = [proc EXCEPT !.stdin = FALSE, !.master = FALSE]
    BY Zenon, <1>2, <2>4 DEF ProcType
  <2> QED
    BY Zenon, <1>2, <2>1, <2>2, <2>3, <2>4
<1>7. /\ br' \in BrType /\ br'.applied = br.applied /\ br'.exit = br.exit /\ br'.drained = br.drained
      /\ \/ br'.queue = br.queue /\ br'.pumps = br.pumps
         \/ br'.queue = <<>> /\ br'.pumps = {} /\ br'.pc \in Ended
      /\ \/ br.pc = "write" /\ br'.pc = "select"
         \/ br.pc # "done" /\ br'.pc \in {"aborted", "term"}
         \/ br.pc \in {"aborted", "term", "kill"} /\ br'.pc = "done"
  <2>1. CASE br.pc = "write" /\ br' = [br EXCEPT !.pc = "select"]
    BY Zenon, <1>2, <2>1 DEF BrType, Points
  <2>2. CASE br.pc \in {"write", "select", "send"} /\ br' = [br EXCEPT !.pc = "aborted"]
    BY Zenon, <1>2, <2>2 DEF BrType, Points, Ended
  <2>3. CASE br.pc = "aborted" /\ br' = [br EXCEPT !.pc = "term", !.pumps = {}, !.queue = <<>>]
    BY Zenon, <1>2, <2>3, Emptied DEF Points, Ended
  <2>4. CASE br.pc \in {"term", "kill"} /\ br' = [br EXCEPT !.pc = "done"]
    BY Zenon, <1>2, <2>4 DEF BrType, Points, Ended
  <2>5. CASE br.pc = "aborted" /\ br' = [br EXCEPT !.pc = "done", !.pumps = {}, !.queue = <<>>]
    BY Zenon, <1>2, <2>5, Emptied DEF Points, Ended
  <2> QED
    BY Zenon, <2>1, <2>2, <2>3, <2>4, <2>5 DEF Written, Woken, SendFails, HostTerm, HostEnd, Detach, Aborts
<1>8. OutInv'
  BY Zenon, <1>4, <1>6, <1>7, OutFrame DEF Inv, Ended
<1>9. PtyInv' /\ WinInv'
  BY Zenon, <1>3, <1>5, <1>6, <1>7, RemovedFacts, WinFrame DEF Inv
<1>10. route = "host" /\ br'.pc = "done" => Gone
  BY Zenon, <1>1, <1>7 DEF Written, Woken, SendFails, HostTerm, HostEnd, Detach, Aborts, BrType, Inv, TypeInv, LifeInv
<1>11. LifeInv'
  BY Zenon, <1>1, <1>2, <1>3, <1>4, <1>5, <1>6, <1>7, <1>10 DEF Inv, LifeInv, Gone
<1>12. box' \in Seq(Events)
  <2>1. box \in Seq(Events) /\ <<>> \in Seq(Events)
    BY DEF Inv, TypeInv
  <2> QED
    BY Zenon, <1>3, <2>1
<1> QED
  BY Zenon, <1>3, <1>4, <1>5, <1>6, <1>7, <1>8, <1>9, <1>11, <1>12 DEF Inv, TypeInv

\* The exit status goes out after both ends: nothing is queued, no pump is left,
\* and nobody can write any more, so what was written was sent.
LEMMA CompleteStep == ASSUME Inv, Complete PROVE Inv'
<1>1. /\ br.pc = "completed" /\ br' = [br EXCEPT !.pc = "done"] /\ Removed /\ box' = <<>>
      /\ wire' = [wire EXCEPT !.exit = "status", !.closed = TRUE] /\ UNCHANGED <<route, call, proc>>
  BY Zenon DEF Complete
<1>2. /\ proc.started /\ wire.opened /\ call \notin {"spawn", "publish", "cleanup", "killed"}
      /\ proc \in ProcType /\ br \in BrType /\ wire \in WireType
  BY Zenon, <1>1, BridgeUp
<1>3. wire' \in WireType /\ wire'.sent = wire.sent /\ wire'.opened = wire.opened
  BY Zenon, <1>1, <1>2 DEF WireType
<1>4. /\ br' \in BrType /\ br'.pc = "done" /\ br'.applied = br.applied /\ br'.exit = br.exit
      /\ br'.drained = br.drained /\ br'.queue = br.queue /\ br'.pumps = br.pumps
  BY Zenon, <1>1, <1>2 DEF BrType, Points, Ended
<1>5. reg' \in RegType /\ ~reg'.open
  BY Zenon, <1>1, RemovedFacts
<1>6. br.exit /\ br.drained /\ proc.exit
  BY Zenon, <1>1 DEF Inv, LifeInv
<1>7. wire.sent = proc.made
  <2>1. br.queue = <<>> /\ br.pumps = {} /\ ~Failing
    BY <1>6 DEF Inv, OutInv, Failing
  <2>2. \A s \in Streams : /\ proc.made[s] = wire.sent[s] + proc.pipe[s]
                           /\ wire.sent[s] \in Nat /\ proc.pipe[s] \in Nat /\ proc.made[s] \in Nat
    <3>1. \A s \in Streams : /\ wire.sent[s] \in Nat /\ proc.pipe[s] \in Nat /\ proc.made[s] \in Nat
                             /\ proc.made[s] = wire.sent[s] + proc.pipe[s] + Count(br.queue, s)
      BY Zenon, <1>1, <1>2 DEF Inv, OutInv, ProcType, WireType, Ended
    <3> QED
      BY <2>1, <3>1, CountEmpty
  <2>3. \A s \in Streams : proc.pipe[s] = 0 \/ (s = "err" /\ proc.made[s] = 0)
    BY Zenon, <1>1, <2>1 DEF Inv, OutInv, Exhausted, Ended
  <2>4. \A s \in Streams : wire.sent[s] = proc.made[s]
    BY <2>2, <2>3
  <2> QED
    BY <1>2, <2>4 DEF WireType, ProcType
<1>8. OutInv'
  BY Zenon, <1>1, <1>3, <1>4, <1>6, <1>7 DEF Inv, OutInv, Ended
<1>9. PtyInv' /\ WinInv'
  BY Zenon, <1>1, <1>4, <1>5, WinFrame DEF Inv
<1>10. LifeInv'
  BY Zenon, <1>1, <1>2, <1>3, <1>4, <1>5, <1>6 DEF Inv, LifeInv, Gone
<1> QED
  BY <1>1, <1>3, <1>4, <1>5, <1>8, <1>9, <1>10 DEF Inv, TypeInv

\* A chunk is taken in hand, or a failed one ends the bridge.
LEMMA OutputStep == ASSUME Inv, Output PROVE Inv'
<1>1. br.pc = "select" /\ ~br.drained /\ br.queue # <<>> /\ UNCHANGED <<route, call, reg, box, proc, wire>>
  BY Zenon DEF Output
<1>2. /\ proc.started /\ wire.opened /\ call \notin {"spawn", "publish", "cleanup", "killed"}
      /\ proc \in ProcType /\ br \in BrType /\ wire \in WireType
  BY Zenon, <1>1, BridgeUp
<1>3. /\ br' \in BrType /\ br'.applied = br.applied /\ br'.exit = br.exit
      /\ br'.drained = br.drained /\ br'.queue = br.queue /\ br'.pumps = br.pumps
      /\ \/ br'.pc = "aborted"
         \/ br'.pc = "send" /\ Head(br.queue) # "failed"
  <2>1. CASE br' = [br EXCEPT !.pc = "aborted"]
    BY Zenon, <1>2, <2>1 DEF BrType, Points, Ended
  <2>2. CASE br' = [br EXCEPT !.pc = "send"] /\ Head(br.queue) # "failed"
    BY Zenon, <1>2, <2>2 DEF BrType, Points
  <2> QED
    BY Zenon, <2>1, <2>2 DEF Output
<1>4. OutInv'
  <2>1. \A s \in Streams : Exhausted(s) => Exhausted(s)'
    BY Zenon, <1>1, <1>3 DEF Exhausted, Writers, Failing
  <2> QED
    BY Zenon, <1>1, <1>3, <2>1 DEF Inv, OutInv, Ended
<1>5. PtyInv' /\ WinInv'
  BY Zenon, <1>1, <1>3, WinFrame DEF Inv
<1> QED
  BY Zenon, <1>1, <1>2, <1>3, <1>4, <1>5 DEF Inv, TypeInv, LifeInv, Gone

\* The chunk in hand goes from the queue to the client.
LEMMA SentStep == ASSUME Inv, Sent PROVE Inv'
<1> DEFINE q == br.queue
           h == Head(br.queue)
           t == Tail(br.queue)
<1>1. br.pc = "send" /\ br.queue # <<>> /\ h # "failed" /\ UNCHANGED <<route, call, reg, box, proc>>
  BY Zenon DEF Sent, Inv, OutInv
<1>2. /\ proc.started /\ wire.opened /\ call \notin {"spawn", "publish", "cleanup", "killed"}
      /\ proc \in ProcType /\ br \in BrType /\ wire \in WireType
  BY Zenon, <1>1, BridgeUp
<1>3. /\ q \in Seq(Chunks) /\ q # <<>> /\ h \in Streams /\ t \in Seq(Chunks) /\ q[1] = h
      /\ Len(t) = Len(q) - 1 /\ Len(q) \in Nat /\ \A k \in 1..Len(t) : t[k] = q[k + 1]
  BY <1>1, <1>2 DEF BrType, Chunks
<1>4. br' = [br EXCEPT !.pc = "select", !.queue = t] /\ wire' = [wire EXCEPT !.sent[h] = @ + 1] /\ h # "failed"
  BY Zenon, <1>1 DEF Sent
<1>5. \A s \in Streams : Count(q, s) = IF h = s THEN Count(t, s) + 1 ELSE Count(t, s)
  BY Zenon, <1>3, CountTail
<1>6. \A s \in Streams : Count(t, s) \in Nat
  BY Zenon, <1>3, CountFinite
<1>7. Failing => \E k \in 1..Len(t) : t[k] = "failed"
  <2> SUFFICES ASSUME NEW k \in 1..Len(q), q[k] = "failed" PROVE \E j \in 1..Len(t) : t[j] = "failed"
    BY Zenon DEF Failing
  <2>1. k # 1 /\ k - 1 \in 1..Len(t) /\ t[k - 1] = q[k]
    BY <1>3, <1>4
  <2> QED
    BY Zenon, <2>1
<1> HIDE DEF q, h, t
<1>8. /\ br' \in BrType /\ br'.pc = "select" /\ br'.applied = br.applied /\ br'.exit = br.exit
      /\ br'.drained = br.drained /\ br'.queue = t /\ br'.pumps = br.pumps
  BY Zenon, <1>2, <1>3, <1>4 DEF BrType, Points
<1>9. /\ wire' \in WireType /\ wire'.exit = wire.exit /\ wire'.opened = wire.opened
      /\ wire'.sent = [wire.sent EXCEPT ![h] = @ + 1]
  <2> DEFINE z == [wire.sent EXCEPT ![h] = @ + 1]
  <2>1. z \in [Streams -> Nat] /\ wire' = [wire EXCEPT !.sent = z]
    BY <1>2, <1>3, <1>4 DEF WireType
  <2> HIDE DEF z
  <2>2. wire' \in WireType /\ wire'.exit = wire.exit /\ wire'.opened = wire.opened /\ wire'.sent = z
    BY Zenon, <1>2, <2>1 DEF WireType
  <2> QED
    BY Zenon, <2>2 DEF z
<1>10. \A s \in Streams : proc.made[s] = wire'.sent[s] + proc.pipe[s] + Count(t, s)
  <2>1. \A s \in Streams : /\ wire.sent[s] \in Nat /\ proc.pipe[s] \in Nat /\ proc.made[s] \in Nat
                           /\ wire'.sent[s] = IF h = s THEN wire.sent[s] + 1 ELSE wire.sent[s]
    BY <1>2, <1>3, <1>9 DEF WireType, ProcType
  <2>2. \A s \in Streams : proc.made[s] = wire.sent[s] + proc.pipe[s] + Count(q, s)
    BY Zenon, <1>1 DEF Inv, OutInv, Ended, q
  <2> QED
    BY <1>5, <1>6, <2>1, <2>2
<1>11. \A s \in Streams \ br'.pumps : Exhausted(s)'
  <2>1. \A s \in Streams \ br.pumps : Exhausted(s)
    BY Zenon, <1>1 DEF Inv, OutInv, Ended
  <2>2. Failing => Failing'
    BY Zenon, <1>7, <1>8 DEF Failing
  <2> QED
    BY Zenon, <1>1, <1>8, <2>1, <2>2 DEF Exhausted, Writers
<1>12. OutInv'
  BY Zenon, <1>1, <1>8, <1>9, <1>10, <1>11 DEF Inv, OutInv
<1>13. PtyInv' /\ WinInv'
  BY Zenon, <1>1, <1>8, WinFrame DEF Inv
<1>14. LifeInv'
  BY Zenon, <1>1, <1>2, <1>8, <1>9 DEF Inv, LifeInv, Gone
<1> QED
  BY Zenon, <1>1, <1>8, <1>9, <1>12, <1>13, <1>14 DEF Inv, TypeInv

\* The bridge learns of one of the two ends, and completes with the second.
LEMMA RoundStep == ASSUME Inv, OutputDone \/ ExitKnown PROVE Inv'
<1>1. br.pc = "select" /\ UNCHANGED <<route, call, reg, box, proc, wire>>
  BY Zenon DEF OutputDone, ExitKnown
<1>2. /\ proc.started /\ wire.opened /\ call \notin {"spawn", "publish", "cleanup", "killed"}
      /\ proc \in ProcType /\ br \in BrType /\ wire \in WireType
  BY Zenon, <1>1, BridgeUp
<1>3. /\ br' \in BrType /\ br'.applied = br.applied /\ br'.queue = br.queue /\ br'.pumps = br.pumps
      /\ br'.pc \in {"select", "completed"} /\ (br'.pc = "completed" => br'.exit /\ br'.drained)
      /\ (br'.exit => br.exit \/ proc.exit)
      /\ (br'.drained => br.drained \/ (br.queue = <<>> /\ br.pumps = {}))
  <2>1. CASE OutputDone
    <3> DEFINE b == [br EXCEPT !.drained = TRUE]
    <3>1. /\ b \in BrType /\ b.applied = br.applied /\ b.queue = br.queue /\ b.pumps = br.pumps
          /\ b.exit = br.exit /\ b.drained
      BY Zenon, <1>2 DEF BrType
    <3>2. br' = Round(b) /\ br.queue = <<>> /\ br.pumps = {}
      BY Zenon, <2>1 DEF OutputDone
    <3> HIDE DEF b
    <3> QED
      BY Zenon, <3>1, <3>2 DEF Round, Finished, BrType, Points
  <2>2. CASE ExitKnown
    <3> DEFINE b == [br EXCEPT !.exit = TRUE]
    <3>1. /\ b \in BrType /\ b.applied = br.applied /\ b.queue = br.queue /\ b.pumps = br.pumps
          /\ b.exit /\ b.drained = br.drained
      BY Zenon, <1>2 DEF BrType
    <3>2. br' = Round(b) /\ proc.exit
      BY Zenon, <2>2 DEF ExitKnown
    <3> HIDE DEF b
    <3> QED
      BY Zenon, <3>1, <3>2 DEF Round, Finished, BrType, Points
  <2> QED
    BY Zenon, <2>1, <2>2
<1>4. OutInv'
  <2>1. \A s \in Streams : Exhausted(s)' <=> Exhausted(s)
    BY Zenon, <1>1, <1>3 DEF Exhausted, Writers, Failing
  <2> QED
    BY Zenon, <1>1, <1>3, <2>1 DEF Inv, OutInv, Ended
<1>5. PtyInv' /\ WinInv'
  BY Zenon, <1>1, <1>3, WinFrame DEF Inv
<1>6. LifeInv'
  BY Zenon, <1>1, <1>2, <1>3 DEF Inv, LifeInv, Gone
<1> QED
  BY Zenon, <1>1, <1>3, <1>4, <1>5, <1>6 DEF Inv, TypeInv

-----------------------------------------------------------------------------
(* The pumps and the process.                                              *)

\* A pump moves a chunk from its pipe to the queue, leaves, or fails.
LEMMA PumpStep == ASSUME Inv, NEW s \in Streams, Pump(s) \/ PumpFails(s) PROVE Inv'
<1>1. br.pc \in {"select", "write", "send"} /\ s \in br.pumps /\ UNCHANGED <<route, call, reg, box, wire>>
  BY Zenon DEF Pump, PumpFails
<1>2. /\ proc.started /\ wire.opened /\ call \notin {"spawn", "publish", "cleanup", "killed"}
      /\ proc \in ProcType /\ br \in BrType /\ wire \in WireType
  BY Zenon, <1>1, BridgeUp
<1>3. /\ br.queue \in Seq(Chunks) /\ Len(br.queue) \in Nat /\ ~br.drained
      /\ s \in Chunks /\ "failed" \in Chunks /\ s # "failed" /\ br.pc \notin Ended
  BY <1>1, <1>2 DEF BrType, Chunks, Streams, Inv, OutInv, Ended
<1>4. \A r \in Streams : /\ wire.sent[r] \in Nat /\ proc.pipe[r] \in Nat /\ Count(br.queue, r) \in Nat
                         /\ proc.made[r] = wire.sent[r] + proc.pipe[r] + Count(br.queue, r)
  BY Zenon, <1>2, <1>3, CountFinite DEF Inv, OutInv, ProcType, WireType
<1>5. \A r \in Streams \ br.pumps : Exhausted(r)
  BY Zenon, <1>1, <1>3 DEF Inv, OutInv
<1>6. ASSUME NEW x \in Chunks, br'.queue = Append(br.queue, x)
      PROVE  /\ br'.queue \in Seq(Chunks) /\ (Failing \/ x = "failed" => Failing')
             /\ br.queue # <<>> => br'.queue # <<>> /\ Head(br'.queue) = Head(br.queue)
             /\ \A r \in Streams : Count(br'.queue, r) = Count(br.queue, r) + (IF x = r THEN 1 ELSE 0)
  <2>1. /\ br'.queue \in Seq(Chunks) /\ Len(br'.queue) = Len(br.queue) + 1
        /\ br'.queue[Len(br.queue) + 1] = x /\ \A k \in 1..Len(br.queue) : br'.queue[k] = br.queue[k]
    BY <1>3, <1>6
  <2>2. Failing \/ x = "failed" => Failing'
    BY <1>3, <2>1 DEF Failing
  <2>3. \A r \in Streams : Count(br'.queue, r) = IF x = r THEN Count(br.queue, r) + 1 ELSE Count(br.queue, r)
    BY <1>3, <1>6, CountAppend
  <2>4. br.queue # <<>> => br'.queue # <<>> /\ Head(br'.queue) = Head(br.queue)
    BY <1>3, <1>6
  <2> QED
    BY <1>4, <2>1, <2>2, <2>3, <2>4
<1>7. ASSUME /\ br' \in BrType /\ br'.pc = br.pc /\ br'.applied = br.applied /\ br'.exit = br.exit
             /\ br'.drained = br.drained,
             /\ proc' \in ProcType /\ proc'.started = proc.started /\ proc'.live = proc.live
             /\ proc'.kids = proc.kids /\ proc'.size = proc.size /\ proc'.exit = proc.exit
             /\ proc'.made = proc.made,
             \A r \in Streams : proc.made[r] = wire.sent[r] + proc'.pipe[r] + Count(br'.queue, r),
             \A r \in Streams \ br'.pumps : Exhausted(r)',
             br.queue # <<>> => br'.queue # <<>> /\ Head(br'.queue) = Head(br.queue)
      PROVE  Inv'
  <2>1. OutInv'
    BY Zenon, <1>1, <1>3, <1>7 DEF Inv, OutInv
  <2>2. PtyInv' /\ WinInv'
    BY Zenon, <1>1, <1>7, WinFrame DEF Inv
  <2>3. LifeInv'
    BY Zenon, <1>1, <1>2, <1>7 DEF Inv, LifeInv, Gone
  <2> QED
    BY Zenon, <1>1, <1>7, <2>1, <2>2, <2>3 DEF Inv, TypeInv
<1>8. CASE proc.pipe[s] > 0 /\ proc' = [proc EXCEPT !.pipe[s] = @ - 1]
           /\ br' = [br EXCEPT !.queue = Append(@, s)]
  <2> DEFINE q == Append(br.queue, s)
             p == [proc.pipe EXCEPT ![s] = @ - 1]
  <2>1. /\ q \in Seq(Chunks) /\ p \in [Streams -> Nat]
        /\ br' = [br EXCEPT !.queue = q] /\ proc' = [proc EXCEPT !.pipe = p]
        /\ \A r \in Streams : p[r] = IF r = s THEN proc.pipe[r] - 1 ELSE proc.pipe[r]
    BY <1>2, <1>3, <1>8 DEF ProcType
  <2> HIDE DEF p, q
  <2>2. /\ br' \in BrType /\ br'.pc = br.pc /\ br'.applied = br.applied /\ br'.exit = br.exit
        /\ br'.drained = br.drained /\ br'.queue = q /\ br'.pumps = br.pumps
    BY Zenon, <1>2, <2>1 DEF BrType
  <2>3. /\ proc' \in ProcType /\ proc'.started = proc.started /\ proc'.live = proc.live
        /\ proc'.kids = proc.kids /\ proc'.size = proc.size /\ proc'.exit = proc.exit
        /\ proc'.made = proc.made /\ proc'.pipe = p
    BY Zenon, <1>2, <2>1 DEF ProcType
  <2>4. /\ Failing => Failing'
        /\ br.queue # <<>> => br'.queue # <<>> /\ Head(br'.queue) = Head(br.queue)
        /\ \A r \in Streams : Count(br'.queue, r) = Count(br.queue, r) + (IF s = r THEN 1 ELSE 0)
    BY Zenon, <1>3, <1>6, <2>2 DEF q
  <2>5. \A r \in Streams : proc.made[r] = wire.sent[r] + proc'.pipe[r] + Count(br'.queue, r)
    <3> SUFFICES ASSUME NEW r \in Streams
                 PROVE  proc.made[r] = wire.sent[r] + proc'.pipe[r] + Count(br'.queue, r)
      OBVIOUS
    <3>1. /\ wire.sent[r] \in Nat /\ proc.pipe[r] \in Nat /\ Count(br.queue, r) \in Nat
          /\ proc.made[r] = wire.sent[r] + proc.pipe[r] + Count(br.queue, r)
      BY Zenon, <1>4
    <3>2. Count(br'.queue, r) = Count(br.queue, r) + (IF s = r THEN 1 ELSE 0)
      BY Zenon, <2>4
    <3>3. proc'.pipe[r] = IF r = s THEN proc.pipe[r] - 1 ELSE proc.pipe[r]
      BY Zenon, <2>1, <2>3
    <3> QED
      BY <3>1, <3>2, <3>3
  <2>6. \A r \in Streams \ br'.pumps : Exhausted(r)'
    BY Zenon, <1>1, <1>5, <2>1, <2>2, <2>3, <2>4 DEF Exhausted, Writers
  <2> QED
    BY Zenon, <1>7, <2>2, <2>3, <2>4, <2>5, <2>6
<1>9. CASE proc.pipe[s] = 0 /\ ~Writers /\ br' = [br EXCEPT !.pumps = @ \ {s}] /\ proc' = proc
  <2>1. /\ br' \in BrType /\ br'.pc = br.pc /\ br'.applied = br.applied /\ br'.exit = br.exit
        /\ br'.drained = br.drained /\ br'.queue = br.queue /\ br'.pumps = br.pumps \ {s}
    BY Zenon, <1>2, <1>9 DEF BrType
  <2>2. \A r \in Streams \ br'.pumps : Exhausted(r)'
    BY Zenon, <1>5, <1>9, <2>1 DEF Exhausted, Writers, Failing
  <2> QED
    BY Zenon, <1>2, <1>4, <1>7, <1>9, <2>1, <2>2
<1>10. CASE br' = [br EXCEPT !.pumps = @ \ {s}, !.queue = Append(@, "failed")] /\ proc' = proc
  <2> DEFINE q == Append(br.queue, "failed")
  <2>1. q \in Seq(Chunks) /\ br' = [br EXCEPT !.pumps = @ \ {s}, !.queue = q]
    BY <1>3, <1>10
  <2> HIDE DEF q
  <2>2. /\ br' \in BrType /\ br'.pc = br.pc /\ br'.applied = br.applied /\ br'.exit = br.exit
        /\ br'.drained = br.drained /\ br'.queue = q /\ br'.pumps = br.pumps \ {s}
    BY Zenon, <1>2, <2>1 DEF BrType
  <2>3. /\ Failing' /\ \A r \in Streams : Count(br'.queue, r) = Count(br.queue, r)
        /\ br.queue # <<>> => br'.queue # <<>> /\ Head(br'.queue) = Head(br.queue)
    <3>1. /\ Failing' /\ (br.queue # <<>> => br'.queue # <<>> /\ Head(br'.queue) = Head(br.queue))
          /\ \A r \in Streams : Count(br'.queue, r) = Count(br.queue, r) + (IF "failed" = r THEN 1 ELSE 0)
      BY Zenon, <1>3, <1>6, <2>2 DEF q
    <3> QED
      BY <1>4, <3>1 DEF Streams
  <2>4. \A r \in Streams \ br'.pumps : Exhausted(r)'
    BY Zenon, <2>3 DEF Exhausted
  <2> QED
    BY Zenon, <1>2, <1>4, <1>7, <1>10, <2>2, <2>3, <2>4
<1> QED
  BY Zenon, <1>8, <1>9, <1>10 DEF Pump, PumpFails

\* The process writes, reads, forks and ends; only a bridge that is at work or
\* torn down, or the callback, has a process that can write.
LEMMA ProgramStep == ASSUME Inv, Program PROVE Inv'
<1>1. Writers /\ br.pc # "done" /\ UNCHANGED <<route, call, reg, box, br, wire>> /\ proc \in ProcType
  BY Zenon DEF Program, Inv, TypeInv
<1>2. proc.started
  BY Zenon, <1>1, Blank DEF Inv, LifeInv, Writers
<1>3. CASE \/ proc' = [proc EXCEPT !.input = 0]
           \/ proc.live /\ proc' = [proc EXCEPT !.live = FALSE]
           \/ proc' = [proc EXCEPT !.kids = "none"]
           \/ \E k \in {"group", "away"} : proc.live /\ proc' = [proc EXCEPT !.kids = k]
  <2>1. /\ proc' \in ProcType /\ proc'.started = proc.started /\ (proc'.live => proc.live)
        /\ (proc.live \/ (proc'.kids # "none" => proc.kids # "none"))
        /\ (Gone => ~proc'.live /\ proc'.kids # "group") /\ proc'.size = proc.size
        /\ proc'.exit = proc.exit /\ proc'.made = proc.made /\ proc'.pipe = proc.pipe
    BY Zenon, <1>1, <1>3 DEF ProcType, Gone
  <2>2. OutInv'
    <3>1. \A s \in Streams : Exhausted(s) => Exhausted(s)'
      BY Zenon, <1>1, <2>1 DEF Exhausted, Writers, Failing
    <3> QED
      BY Zenon, <1>1, <2>1, <3>1 DEF Inv, OutInv
  <2>3. PtyInv' /\ WinInv'
    BY Zenon, <1>1, <2>1, WinFrame DEF Inv
  <2>4. LifeInv'
    BY Zenon, <1>1, <1>2, <2>1 DEF Inv, LifeInv, Gone
  <2> QED
    BY Zenon, <1>1, <2>1, <2>2, <2>3, <2>4 DEF Inv, TypeInv
<1>4. CASE \E s \in Streams : /\ s = "err" => proc.size = None
                              /\ proc' = [proc EXCEPT !.made[s] = @ + 1, !.pipe[s] = @ + 1]
  <2>1. PICK s \in Streams : /\ s = "err" => proc.size = None
                             /\ proc' = [proc EXCEPT !.made[s] = @ + 1, !.pipe[s] = @ + 1]
    BY Zenon, <1>4
  <2> DEFINE m == [proc.made EXCEPT ![s] = @ + 1]
             p == [proc.pipe EXCEPT ![s] = @ + 1]
  <2>2. /\ m \in [Streams -> Nat] /\ p \in [Streams -> Nat] /\ proc' = [proc EXCEPT !.made = m, !.pipe = p]
        /\ \A r \in Streams : /\ m[r] = IF r = s THEN proc.made[r] + 1 ELSE proc.made[r]
                              /\ p[r] = IF r = s THEN proc.pipe[r] + 1 ELSE proc.pipe[r]
                              /\ proc.made[r] \in Nat /\ proc.pipe[r] \in Nat
    BY <1>1, <2>1 DEF ProcType
  <2> HIDE DEF m, p
  <2>3. /\ proc' \in ProcType /\ proc'.started = proc.started /\ proc'.live = proc.live
        /\ proc'.kids = proc.kids /\ proc'.size = proc.size /\ proc'.exit = proc.exit
        /\ proc'.made = m /\ proc'.pipe = p
    BY Zenon, <1>1, <2>2 DEF ProcType
  <2>4. \A r \in Streams : wire.sent[r] \in Nat /\ Count(br.queue, r) \in Nat
    BY Zenon, CountFinite DEF Inv, TypeInv, WireType, BrType
  <2>5. br.pc \notin Ended =>
          \A r \in Streams : m[r] = wire.sent[r] + p[r] + Count(br.queue, r)
    <3> SUFFICES ASSUME br.pc \notin Ended, NEW r \in Streams
                 PROVE  m[r] = wire.sent[r] + p[r] + Count(br.queue, r)
      OBVIOUS
    <3>1. proc.made[r] = wire.sent[r] + proc.pipe[r] + Count(br.queue, r)
      BY Zenon DEF Inv, OutInv
    <3>2. wire.sent[r] \in Nat /\ proc.pipe[r] \in Nat /\ Count(br.queue, r) \in Nat
      BY Zenon, <2>2, <2>4
    <3> QED
      BY <2>2, <3>1, <3>2
  <2>6. \A r \in Streams : Exhausted(r) => Exhausted(r)'
    BY Zenon, <1>1, <2>3 DEF Exhausted, Writers, Failing
  <2>7. proc.size # None => m["err"] = 0
    BY Zenon, <2>1, <2>2 DEF Inv, OutInv, Streams
  <2>8. OutInv'
    BY Zenon, <1>1, <2>3, <2>5, <2>6, <2>7 DEF Inv, OutInv
  <2>9. PtyInv' /\ WinInv'
    BY Zenon, <1>1, <2>3, WinFrame DEF Inv
  <2>10. LifeInv'
    BY Zenon, <1>1, <1>2, <2>3 DEF Inv, LifeInv, Gone
  <2> QED
    BY Zenon, <1>1, <2>3, <2>8, <2>9, <2>10 DEF Inv, TypeInv
<1> QED
  BY Zenon, <1>3, <1>4 DEF Program

-----------------------------------------------------------------------------
(* The mailbox.                                                            *)

\* Every event of the mailbox is the next one of the longer mailbox before.
LEMMA Shifted ==
  ASSUME TypeInv, box # <<>>, box' = Tail(box)
  PROVE  /\ box' \in Seq(Events) /\ Head(box) = box[1] /\ 1 \in 1..Len(box) /\ Len(box) \in Nat
         /\ \A k \in 1..Len(box') : k + 1 \in 1..Len(box) /\ box'[k] = box[k + 1]
         /\ \A k \in 1..Len(box) : k = 1 \/ k - 1 \in 1..Len(box')
<1>1. box \in Seq(Events) /\ box # <<>>
  BY Zenon DEF TypeInv
<1>2. box' \in Seq(Events) /\ Len(box') = Len(box) - 1 /\ Len(box) \in Nat /\ Len(box) >= 1
  BY <1>1
<1>3. \A k \in 1..Len(box') : box'[k] = box[k + 1]
  BY <1>1
<1> QED
  BY <1>1, <1>2, <1>3

\* What is known of the events behind the first one stays known of them; the
\* first one was no pending resize, or the terminal has taken it.
LEMMA Taken ==
  ASSUME TypeInv, PtyInv, WinInv, box # <<>>, box' = Tail(box), UNCHANGED reg,
         proc'.started = proc.started, proc'.size = None <=> proc.size = None,
         br'.pc \in {"select", "write", "send"} => br.pc \in {"select", "write", "send"},
         br'.applied \in Nat,
         \/ br'.applied = br.applied /\ proc'.size = proc.size /\ \A i \in 1..2 : ~Pending(1, i)
         \/ br'.pc \notin {"select", "write", "send"} /\ br'.applied = br.applied
         \/ /\ Window(1) /\ br.applied < box[1].rev /\ br'.applied = box[1].rev
            /\ \A i \in 1..2 :
                 /\ box[1].size[i] # 0 => proc'.size[i] = clamp_dimension(box[1].size[i])
                 /\ box[1].size[i] = 0 /\ proc.size[i] # 0 => proc'.size[i] = proc.size[i]
  PROVE  PtyInv' /\ WinInv'
<1>1. /\ box' \in Seq(Events) /\ Head(box) = box[1] /\ 1 \in 1..Len(box) /\ Len(box) \in Nat
      /\ \A k \in 1..Len(box') : k + 1 \in 1..Len(box) /\ box'[k] = box[k + 1]
      /\ \A k \in 1..Len(box) : k = 1 \/ k - 1 \in 1..Len(box')
  BY Zenon, Shifted
<1>2. /\ \A k \in 1..Len(box') : k \in Nat /\ k >= 1
      /\ \A k \in 1..Len(box) : k \in Nat /\ k >= 1
  BY <1>1
<1>3. \A k \in 1..Len(box') : Window(k)' <=> Window(k + 1)
  BY Zenon, <1>1 DEF Window
<1>4. PtyInv'
  BY Zenon, <1>1, <1>3 DEF PtyInv
<1>5. /\ br.applied \in Nat /\ (reg.open /\ reg.pty # None => reg.pty \in Pair)
      /\ \A k \in 1..Len(box) : Window(k) => box[k].rev \in Nat
  <2>1. \A k \in 1..Len(box) : box[k] \in Events
    BY DEF TypeInv
  <2> QED
    BY Zenon, <2>1 DEF TypeInv, BrType, RegType, Sizes, Window, Events, Plain
<1>6. \A j, k \in 1..Len(box') : j < k /\ Window(j)' /\ Window(k)' => box'[j].rev < box'[k].rev
  <2> SUFFICES ASSUME NEW j \in 1..Len(box'), NEW k \in 1..Len(box'), j < k, Window(j)', Window(k)'
               PROVE  box'[j].rev < box'[k].rev
    OBVIOUS
  <2>1. j + 1 \in 1..Len(box) /\ k + 1 \in 1..Len(box) /\ j + 1 < k + 1 /\ Window(j + 1) /\ Window(k + 1)
    BY <1>1, <1>2, <1>3
  <2> QED
    BY Zenon, <1>1, <2>1 DEF WinInv
<1>7. reg'.open => /\ br'.applied <= reg'.rev
                   /\ \A k \in 1..Len(box') : Window(k)' => box'[k].rev <= reg'.rev
  BY Zenon, <1>1, <1>3 DEF WinInv
\* A resize behind the first one is as pending as it was.
<1>8. ASSUME br'.pc \in {"select", "write", "send"}
      PROVE  \A i \in 1..2 : \A k \in 1..Len(box') : Pending(k, i)' <=> Pending(k + 1, i)
  <2> SUFFICES ASSUME NEW i \in 1..2, NEW k \in 1..Len(box') PROVE Pending(k, i)' <=> Pending(k + 1, i)
    OBVIOUS
  <2>1. CASE br'.applied = br.applied
    BY Zenon, <1>1, <1>3, <2>1 DEF Pending
  <2>2. CASE Window(1) /\ br.applied < box[1].rev /\ br'.applied = box[1].rev
    <3>1. Window(k + 1) => box[1].rev < box[k + 1].rev /\ box[k + 1].rev \in Nat /\ box[1].rev \in Nat
      <4>1. k + 1 \in 1..Len(box) /\ 1 \in 1..Len(box) /\ 1 < k + 1
        BY <1>1, <1>2
      <4> QED
        BY Zenon, <1>5, <2>2, <4>1 DEF WinInv
    <3>2. Window(k + 1) => box[k + 1].rev > br.applied /\ box[k + 1].rev > br'.applied
      <4>1. br.applied \in Nat /\ br.applied < box[1].rev /\ br'.applied = box[1].rev
        BY Zenon, <1>5, <2>2
      <4> QED
        BY <3>1, <4>1
    <3>3. (Window(k)' <=> Window(k + 1)) /\ box'[k] = box[k + 1]
      BY Zenon, <1>1, <1>3
    <3> QED
      BY Zenon, <3>2, <3>3 DEF Pending
  <2> QED
    BY Zenon, <1>8, <2>1, <2>2
<1>9. ASSUME br'.pc \in {"select", "write", "send"}, NEW i \in 1..2, NEW k \in 1..Len(box), k # 1, LastPending(k, i)
      PROVE  k - 1 \in 1..Len(box') /\ LastPending(k - 1, i)' /\ box'[k - 1] = box[k]
  <2>1. k - 1 \in 1..Len(box') /\ (k - 1) + 1 = k
    BY <1>1, <1>2, <1>9
  <2>2. box'[k - 1] = box[k] /\ Pending(k - 1, i)'
    <3>1. Pending((k - 1) + 1, i)
      BY Zenon, <1>9, <2>1 DEF LastPending
    <3>2. Pending(k - 1, i)'
      BY Zenon, <1>8, <1>9, <2>1, <3>1
    <3>3. box'[k - 1] = box[(k - 1) + 1]
      BY Zenon, <1>1, <2>1
    <3> QED
      BY Zenon, <2>1, <3>2, <3>3
  <2>3. ASSUME NEW j \in 1..Len(box'), j > k - 1 PROVE ~Pending(j, i)'
    <3>1. j + 1 \in 1..Len(box) /\ j + 1 > k
      BY <1>1, <1>2, <2>3
    <3>2. ~Pending(j + 1, i)
      BY Zenon, <1>9, <3>1 DEF LastPending
    <3> QED
      BY Zenon, <1>8, <1>9, <3>2
  <2> QED
    BY Zenon, <2>1, <2>2, <2>3 DEF LastPending
<1>10. ASSUME reg'.open, reg'.pty # None, br'.pc \in {"select", "write", "send"}, NEW i \in 1..2, reg'.pty[i] # 0
       PROVE  \/ /\ \A k \in 1..Len(box') : ~Pending(k, i)'
                 /\ proc'.size[i] = clamp_dimension(reg'.pty[i])
              \/ \E k \in 1..Len(box') : LastPending(k, i)' /\ box'[k].size[i] = reg'.pty[i]
  <2>1. CASE \E k \in 1..Len(box) : k # 1 /\ LastPending(k, i) /\ box[k].size[i] = reg.pty[i]
    <3>1. PICK k \in 1..Len(box) : k # 1 /\ LastPending(k, i) /\ box[k].size[i] = reg.pty[i]
      BY Zenon, <2>1
    <3>2. k - 1 \in 1..Len(box') /\ LastPending(k - 1, i)' /\ box'[k - 1] = box[k]
      BY Zenon, <1>9, <1>10, <3>1
    <3> QED
      BY Zenon, <3>1, <3>2
  <2>2. CASE LastPending(1, i) /\ box[1].size[i] = reg.pty[i]
    <3>1. \A k \in 1..Len(box') : ~Pending(k, i)'
      <4> SUFFICES ASSUME NEW k \in 1..Len(box') PROVE ~Pending(k + 1, i)
        BY Zenon, <1>8, <1>10
      <4>1. k + 1 \in 1..Len(box) /\ k + 1 > 1
        BY <1>1, <1>2
      <4> QED
        BY Zenon, <2>2, <4>1 DEF LastPending
    <3>2. Pending(1, i) /\ box[1].size[i] # 0
      BY Zenon, <2>2 DEF LastPending, Pending
    <3>3. proc'.size[i] = clamp_dimension(box[1].size[i])
      BY Zenon, <1>10, <3>2
    <3> QED
      BY Zenon, <2>2, <3>1, <3>3
  <2>3. CASE (\A k \in 1..Len(box) : ~Pending(k, i)) /\ proc.size[i] = clamp_dimension(reg.pty[i])
    <3>1. \A k \in 1..Len(box') : ~Pending(k, i)'
      BY Zenon, <1>1, <1>8, <1>10, <2>3
    <3>2. proc.size[i] # 0
      BY Zenon, <1>5, <1>10, <2>3, ClampNonzero DEF Pair
    <3>3. ~Pending(1, i)
      BY Zenon, <1>1, <2>3
    <3>4. proc'.size[i] = proc.size[i]
      <4>1. CASE Window(1) /\ br.applied < box[1].rev /\ br'.applied = box[1].rev
        <5>1. box[1].size[i] = 0 /\ br'.applied # br.applied
          BY <1>1, <1>5, <3>3, <4>1 DEF Pending
        <5> QED
          BY Zenon, <1>10, <3>2, <5>1
      <4>2. CASE br'.applied = br.applied /\ proc'.size = proc.size
        BY Zenon, <4>2
      <4> QED
        BY Zenon, <1>10, <4>1, <4>2
    <3> QED
      BY Zenon, <2>3, <3>1, <3>4
  <2> QED
    BY Zenon, <1>10, <2>1, <2>2, <2>3 DEF WinInv
<1> QED
  BY Zenon, <1>4, <1>6, <1>7, <1>10 DEF WinInv

\* The bridge takes the next event.
LEMMA EventStep == ASSUME Inv, Event PROVE Inv'
<1> DEFINE e == box[1]
<1>1. /\ br.pc = "select" /\ box # <<>> /\ box' = Tail(box) /\ UNCHANGED <<route, call, reg, wire>>
  BY Zenon DEF Event
<1>2. /\ proc.started /\ wire.opened /\ call \notin {"spawn", "publish", "cleanup", "killed"}
      /\ proc \in ProcType /\ br \in BrType /\ wire \in WireType
  BY Zenon, <1>1, BridgeUp
<1>3. box' \in Seq(Events) /\ Head(box) = e /\ e \in Events
  BY <1>1, Shifted DEF Inv, TypeInv
<1>4. ASSUME br' \in BrType, proc' \in ProcType, proc'.started = proc.started, proc'.live = proc.live,
             proc'.kids = proc.kids, proc'.exit = proc.exit, proc'.made = proc.made, proc'.pipe = proc.pipe,
             proc'.size = None <=> proc.size = None,
             br'.pc \in {"select", "write", "aborted"}, br'.drained = br.drained, br'.queue = br.queue,
             br'.pumps = br.pumps, br'.exit = br.exit, PtyInv', WinInv'
      PROVE  Inv'
  <2>1. OutInv'
    BY Zenon, <1>1, <1>4, OutFrame DEF Inv, Ended
  <2>2. LifeInv'
    BY Zenon, <1>1, <1>2, <1>4 DEF Inv, LifeInv, Gone
  <2> QED
    BY Zenon, <1>1, <1>3, <1>4, <2>1, <2>2 DEF Inv, TypeInv
<1>5. CASE \/ UNCHANGED <<br, proc>> /\ (e.type = "window" => e.rev <= br.applied)
           \/ br' = [br EXCEPT !.pc = "write"] /\ UNCHANGED proc /\ e.type # "window"
           \/ br' = [br EXCEPT !.eof = TRUE] /\ proc' = [proc EXCEPT !.stdin = FALSE] /\ e.type # "window"
  <2>1. /\ br' \in BrType /\ br'.pc \in {"select", "write"} /\ br'.applied = br.applied /\ br'.exit = br.exit
        /\ br'.drained = br.drained /\ br'.queue = br.queue /\ br'.pumps = br.pumps
    BY Zenon, <1>1, <1>2, <1>5 DEF BrType, Points
  <2>2. /\ proc' \in ProcType /\ proc'.started = proc.started /\ proc'.live = proc.live
        /\ proc'.kids = proc.kids /\ proc'.size = proc.size /\ proc'.exit = proc.exit
        /\ proc'.made = proc.made /\ proc'.pipe = proc.pipe
    BY Zenon, <1>2, <1>5 DEF ProcType
  <2>3. br'.applied \in Nat /\ \A i \in 1..2 : ~Pending(1, i)
    <3>1. br.applied \in Nat /\ (e.type = "window" => e.rev \in Nat /\ e.rev <= br.applied)
      BY Zenon, <1>2, <1>3, <1>5 DEF BrType, Events, Plain
    <3> QED
      BY <2>1, <3>1 DEF Pending, Window
  <2>4. PtyInv' /\ WinInv'
    BY Zenon, <1>1, <2>1, <2>2, <2>3, Taken DEF Inv
  <2> QED
    BY Zenon, <1>4, <2>1, <2>2, <2>4
<1>6. CASE Aborts /\ UNCHANGED proc
  <2>1. /\ br' \in BrType /\ br'.pc = "aborted" /\ br'.applied = br.applied /\ br'.exit = br.exit
        /\ br'.drained = br.drained /\ br'.queue = br.queue /\ br'.pumps = br.pumps /\ br'.applied \in Nat
    BY Zenon, <1>2, <1>6 DEF Aborts, BrType, Points, Ended
  <2>2. PtyInv' /\ WinInv'
    BY Zenon, <1>1, <1>6, <2>1, Taken DEF Inv
  <2> QED
    BY Zenon, <1>2, <1>4, <1>6, <2>1, <2>2
<1>7. CASE /\ e.type = "window" /\ ~(e.rev <= br.applied) /\ br' = [br EXCEPT !.applied = e.rev]
           /\ proc' = [proc EXCEPT !.size = apply_window_size(@, e.size)]
  <2> DEFINE z == apply_window_size(proc.size, e.size)
  <2>1. e.rev \in Nat /\ e.size \in Pair /\ Window(1) /\ br.applied \in Nat /\ br.applied < e.rev
    BY <1>2, <1>3, <1>7 DEF Events, Plain, Window, BrType
  <2>2. proc.size \in Pair /\ proc.size # None
    <3>1. 1 \in 1..Len(box)
      BY Zenon, <1>1, Shifted DEF Inv
    <3> QED
      BY Zenon, <1>2, <2>1, <3>1 DEF Inv, PtyInv, ProcType, Sizes
  <2>3. z \in Pair /\ z # None /\ z \in Sizes
    BY Zenon, <2>1, <2>2, ComputedSizes, PairFacts
  <2>4. \A i \in 1..2 : /\ e.size[i] # 0 => z[i] = clamp_dimension(e.size[i])
                        /\ e.size[i] = 0 /\ proc.size[i] # 0 => z[i] = proc.size[i]
    BY ZenonT(40), <2>1, <2>2, ComputedSizes
  <2>5. proc' = [proc EXCEPT !.size = z]
    BY Zenon, <1>7
  <2> HIDE DEF z
  <2>6. /\ br' \in BrType /\ br'.pc = br.pc /\ br'.applied = e.rev /\ br'.exit = br.exit
        /\ br'.drained = br.drained /\ br'.queue = br.queue /\ br'.pumps = br.pumps
    BY Zenon, <1>2, <1>7, <2>1 DEF BrType
  <2>7. /\ proc' \in ProcType /\ proc'.started = proc.started /\ proc'.live = proc.live
        /\ proc'.kids = proc.kids /\ proc'.size = z /\ proc'.exit = proc.exit
        /\ proc'.made = proc.made /\ proc'.pipe = proc.pipe
    BY Zenon, <1>2, <2>3, <2>5 DEF ProcType
  <2>8. PtyInv' /\ WinInv'
    BY Zenon, <1>1, <2>1, <2>2, <2>3, <2>4, <2>6, <2>7, Taken DEF Inv
  <2> QED
    BY Zenon, <1>1, <1>4, <2>2, <2>3, <2>6, <2>7, <2>8
<1>8. e.type \in {"data", "eof", "close", "signal", "window"}
  BY Zenon, <1>3 DEF Events, Plain
<1> HIDE DEF e
<1>9. CASE e.type = "data"
  BY Zenon, <1>3, <1>5, <1>9 DEF Event
<1>10. CASE e.type = "eof"
  BY Zenon, <1>3, <1>5, <1>10 DEF Event
<1>11. CASE e.type = "close"
  BY Zenon, <1>3, <1>6, <1>11 DEF Event
<1>12. CASE e.type = "signal"
  BY Zenon, <1>3, <1>5, <1>12 DEF Event
<1>13. CASE e.type = "window"
  BY Zenon, <1>3, <1>5, <1>6, <1>7, <1>13 DEF Event
<1> QED
  BY Zenon, <1>8, <1>9, <1>10, <1>11, <1>12, <1>13

-----------------------------------------------------------------------------
(* The invariant and what it implies.                                      *)

\* A connection begins without a channel.
LEMMA InitInv == ASSUME Init PROVE Inv
<1>1. /\ reg = NoState /\ proc = NoProcess /\ br = NoBridge /\ box = <<>> /\ call = "none"
      /\ route \in {"host", "sandbox"}
      /\ wire = [opened |-> FALSE, sent |-> [s \in Streams |-> 0], exit |-> "none", closed |-> FALSE]
  BY Zenon DEF Init
<1>2. wire \in WireType /\ ~wire.opened /\ wire.exit = "none" /\ wire.sent = [s \in Streams |-> 0]
  BY Zenon, <1>1 DEF WireType
<1>3. box \in Seq(Events) /\ Len(box) = 0
  BY <1>1
<1>4. TypeInv
  BY Zenon, <1>1, <1>2, <1>3, Blank DEF TypeInv
<1>5. LifeInv
  BY Zenon, <1>1, <1>2, Blank DEF LifeInv, Gone
<1>6. OutInv
  <2>1. /\ proc.size = None /\ br.pc = "none" /\ br.queue = <<>> /\ ~br.drained /\ br.pumps = {}
        /\ \A s \in Streams : proc.made[s] = 0 /\ proc.pipe[s] = 0 /\ wire.sent[s] = 0 /\ Count(br.queue, s) = 0
    BY Zenon, <1>1, <1>2, Blank, CountEmpty
  <2> QED
    BY <1>2, <2>1 DEF OutInv
<1>7. PtyInv /\ WinInv
  <2>1. ~reg.open /\ ~proc.started /\ \A k \in 1..Len(box) : FALSE
    BY <1>1, <1>3, Blank
  <2> QED
    BY Zenon, <2>1 DEF PtyInv, WinInv
<1> QED
  BY Zenon, <1>4, <1>5, <1>6, <1>7 DEF Inv

\* A step that changes nothing.
LEMMA Stutter == ASSUME Inv, UNCHANGED vars PROVE Inv'
<1>1. UNCHANGED <<route, call, reg, box, proc, br, wire>>
  BY Zenon DEF vars
<1>2. OutInv'
  BY Zenon, <1>1, OutFrame DEF Inv
<1>3. PtyInv' /\ WinInv'
  BY Zenon, <1>1, WinFrame DEF Inv
<1> QED
  BY Zenon, <1>1, <1>2, <1>3 DEF Inv, TypeInv, LifeInv, Gone

\* Inv is inductive.
LEMMA Inductive == Inv /\ [Next]_vars => Inv'
<1> SUFFICES ASSUME Inv, [Next]_vars PROVE Inv'
  OBVIOUS
<1>1. CASE Request
  BY Zenon, <1>1, OpenStep, PlainStep, StartingStep, PtyStep, WindowStep DEF Request
<1>2. CASE Starting
  BY Zenon, <1>2, SpawnedStep, PublishStep, KillStep, StartingStep DEF Starting
<1>3. CASE Bridge
  BY Zenon, <1>3, EventStep, TeardownStep, OutputStep, RoundStep, CompleteStep, KillStep DEF Bridge
<1>4. CASE Reap \/ DropHandler \/ Lose \/ Shutdown
  BY Zenon, <1>4, KillStep, PlainStep
<1>5. CASE \E s \in Streams : Pump(s) \/ PumpFails(s)
  BY Zenon, <1>5, PumpStep
<1>6. CASE Program
  BY Zenon, <1>6, ProgramStep
<1>7. CASE Sent
  BY Zenon, <1>7, SentStep
<1>8. CASE UNCHANGED vars
  BY Zenon, <1>8, Stutter
<1> QED
  BY Zenon, <1>1, <1>2, <1>3, <1>4, <1>5, <1>6, <1>7, <1>8 DEF Next

\* Every reachable state of a channel satisfies Inv.
THEOREM ChannelInvariant == Spec => []Inv
  BY InitInv, Inductive, PTL DEF Spec

\* The exit status ends the output: whatever the sizes of the mailbox and of
\* the output queue, and whoever else writes to the pipes of the process, all
\* that was written has been sent when the status is (the end of both select
\* loops in bridge.rs).
THEOREM StatusLast == Spec => []ExitAfterOutput
<1>1. Inv => ExitAfterOutput
  BY Zenon DEF Inv, OutInv, ExitAfterOutput
<1> QED
  BY <1>1, ChannelInvariant, PTL

\* No member of the process group of a host process is alive without the
\* callback or the bridge that will stop it (start_host_operation and
\* run_host_process).
THEOREM NoOrphan == Spec => []HostProcessOwned
<1>1. Inv => HostProcessOwned
  <2> SUFFICES ASSUME Inv, route = "host", ~Gone PROVE HostProcessOwned
    BY Zenon DEF HostProcessOwned, Gone
  <2>1. br.pc \in Points /\ call \in {"none", "spawn", "publish", "cleanup", "killed", "inline"}
    BY Zenon DEF Inv, TypeInv, BrType
  <2>2. proc.started
    BY Zenon, Blank DEF Inv, LifeInv, Gone
  <2> QED
    BY Zenon, <2>1, <2>2 DEF Inv, LifeInv, Points, Ended, HostProcessOwned
<1> QED
  BY <1>1, ChannelInvariant, PTL

\* However the requests of the client, the launch and the bridge interleave,
\* a bridge with an empty mailbox has given the terminal the last size the
\* client asked for (update_window, synchronize_window, apply_window_event).
THEOREM SizeFollows == Spec => []WindowInForce
<1>1. Inv => WindowInForce
  <2> SUFFICES ASSUME Inv, br.pc = "select", box = <<>>, reg.open, reg.pty # None,
                      NEW i \in 1..2, reg.pty[i] # 0
               PROVE  proc.size[i] = clamp_dimension(reg.pty[i])
    BY Zenon DEF WindowInForce
  <2>1. \A k \in 1..Len(box) : FALSE
    OBVIOUS
  <2> QED
    BY Zenon, <2>1 DEF Inv, WinInv
<1> QED
  BY <1>1, ChannelInvariant, PTL

=============================================================================
