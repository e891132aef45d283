-------------------------- MODULE DelegationCache --------------------------
(***************************************************************************)
(* The process-lifetime cache of the daemon account's subordinate-ID       *)
(* delegation (sandbox/subid/delegation.rs).  Threads that claim or check  *)
(* a lease query it while an administrator edits the files the answer      *)
(* comes from.  A query reads the generation of three files, runs the      *)
(* getsubids helper for uids and then for gids, and reads the generation   *)
(* again; the mutex of the cache is held only to compare and to publish.   *)
(*                                                                         *)
(* A file is its version; what a helper run reports is the version of the  *)
(* ranges it read under the version of nsswitch.conf it was directed by.   *)
(* A present file's length and mtime tell its versions apart: Restores     *)
(* says whether an administrator may put an earlier file back with its old *)
(* mtime.                                                                  *)
(***************************************************************************)
EXTENDS Naturals, Sequences

CONSTANTS
    Threads,     \* launch and claim threads
    None,
    Restores,    \* whether an edit may bring back an earlier version
    HelperFails, \* whether a getsubids run may fail
    MaxEdits     \* bound on edits

VARIABLES
    version,     \* the three files on disk
    edits,
    cached,      \* the mutex-protected Option<CachedDelegation>
    pc,
    reading,     \* the generation a thread is reading, file by file
    generation,  \* the generation read first
    after,       \* the generation read after the first query
    result,      \* what the helper runs reported
    during       \* ghost: the file versions since the query began

vars == <<version, edits, cached, pc, reading, generation, after, result, during>>

Files     == <<"subuid", "subgid", "nsswitch">>
FileNames == {"subuid", "subgid", "nsswitch"}
Versions  == 0 .. MaxEdits

(* query_for_account when nothing changes under it: both range lists.      *)
Delegated(v) == [uid |-> <<v["nsswitch"], v["subuid"]>>, gid |-> <<v["nsswitch"], v["subgid"]>>]
NoResult     == Delegated([f \in FileNames |-> 0])
NoGeneration == [f \in FileNames |-> 0]

Reads == {"generation", "after", "final"}

StartReading == [next |-> 1, seen |-> NoGeneration]

Init ==
    /\ version = NoGeneration
    /\ edits = 0
    /\ cached = None
    /\ pc = [t \in Threads |-> "idle"]
    /\ reading = [t \in Threads |-> StartReading]
    /\ generation = [t \in Threads |-> NoGeneration]
    /\ after = [t \in Threads |-> NoGeneration]
    /\ result = [t \in Threads |-> NoResult]
    /\ during = [t \in Threads |-> {}]

Goto(t, where) == pc' = [pc EXCEPT ![t] = where]
locals == <<reading, generation, after, result>>

-----------------------------------------------------------------------------
Edit(f) ==
    /\ edits < MaxEdits
    /\ edits' = edits + 1
    /\ \E v \in Versions :
         /\ v # version[f]
         /\ Restores => v <= edits + 1
         /\ ~Restores => v = edits + 1
         /\ version' = [version EXCEPT ![f] = v]
    /\ during' = [t \in Threads |->
                    IF pc[t] \in {"idle", "returned"} THEN during[t] ELSE during[t] \cup {version'}]
    /\ UNCHANGED <<cached, pc, locals>>

Begin(t) ==
    /\ pc[t] = "idle"
    /\ Goto(t, "generation")
    /\ during' = [during EXCEPT ![t] = {version}]
    /\ UNCHANGED <<version, edits, cached, locals>>

(* DelegationGeneration::current: one stat per file, in this order.        *)
StatNext(t) ==
    /\ pc[t] \in Reads
    /\ reading[t].next <= Len(Files)
    /\ LET f == Files[reading[t].next] IN
         reading' = [reading EXCEPT ![t].next = @ + 1, ![t].seen[f] = version[f]]
    /\ UNCHANGED <<version, edits, cached, pc, generation, after, result, during>>

ReadDone(t, which, next) ==
    /\ pc[t] = which
    /\ reading[t].next > Len(Files)
    /\ reading' = [reading EXCEPT ![t] = StartReading]
    /\ Goto(t, next)

FirstGeneration(t) ==
    /\ ReadDone(t, "generation", "compare")
    /\ generation' = [generation EXCEPT ![t] = reading[t].seen]
    /\ UNCHANGED <<version, edits, cached, after, result, during>>

(* The warm path: a cached entry of the generation just read is returned.  *)
CompareStale(t) ==
    /\ pc[t] = "compare"
    /\ IF cached # None
       THEN result' = [result EXCEPT ![t] = cached.delegation] /\ Goto(t, "returned")
       ELSE Goto(t, "uid") /\ UNCHANGED result
    /\ UNCHANGED <<version, edits, cached, reading, generation, after, during>>

Compare(t) ==
    /\ pc[t] = "compare"
    /\ IF cached # None /\ cached.generation = generation[t]
       THEN result' = [result EXCEPT ![t] = cached.delegation] /\ Goto(t, "returned")
       ELSE Goto(t, "uid") /\ UNCHANGED result
    /\ UNCHANGED <<version, edits, cached, reading, generation, after, during>>

(* run_getsubids and parse_getsubids_output: a missing or failing helper   *)
(* and a malformed line end the query with an error.                       *)
Run(t, at, kind, next) ==
    /\ pc[t] = at
    /\ \/ /\ result' = [result EXCEPT ![t][kind] = Delegated(version)[kind]]
          /\ Goto(t, next)
       \/ HelperFails /\ Goto(t, "failed") /\ UNCHANGED result
    /\ UNCHANGED <<version, edits, cached, reading, generation, after, during>>

query_for_account(t) ==
    \/ Run(t, "uid", "uid", "gid") \/ Run(t, "gid", "gid", "after")
    \/ Run(t, "retry_uid", "uid", "retry_gid") \/ Run(t, "retry_gid", "gid", "final")

(* The second generation differs: query once more.                         *)
SecondGenerationIgnored(t) ==
    /\ ReadDone(t, "after", "publish")
    /\ after' = [after EXCEPT ![t] = reading[t].seen]
    /\ UNCHANGED <<version, edits, cached, generation, result, during>>

SecondGeneration(t) ==
    /\ ReadDone(t, "after",
                IF reading[t].seen = generation[t] THEN "publish" ELSE "retry_uid")
    /\ after' = [after EXCEPT ![t] = reading[t].seen]
    /\ UNCHANGED <<version, edits, cached, generation, result, during>>

(* The third generation must be the second: otherwise GenerationChanged.   *)
FinalGeneration(t) ==
    /\ ReadDone(t, "final",
                IF reading[t].seen = after[t] THEN "republish" ELSE "failed")
    /\ UNCHANGED <<version, edits, cached, generation, after, result, during>>

(* publish: an entry of the same generation is kept.                       *)
Publish(t) ==
    /\ pc[t] \in {"publish", "republish"}
    /\ LET gen == IF pc[t] = "publish" THEN generation[t] ELSE after[t] IN
         cached' = IF cached # None /\ cached.generation = gen THEN cached
                   ELSE [generation |-> gen, delegation |-> result[t]]
    /\ Goto(t, "returned")
    /\ UNCHANGED <<version, edits, locals, during>>

(* The caller goes on with result[t], or with the error.                   *)
Return(t) ==
    /\ pc[t] \in {"returned", "failed"}
    /\ Goto(t, "idle")
    /\ reading' = [reading EXCEPT ![t] = StartReading]
    /\ generation' = [generation EXCEPT ![t] = NoGeneration]
    /\ after' = [after EXCEPT ![t] = NoGeneration]
    /\ result' = [result EXCEPT ![t] = NoResult]
    /\ during' = [during EXCEPT ![t] = {}]
    /\ UNCHANGED <<version, edits, cached>>

query_with_generation(t) ==
    Begin(t) \/ StatNext(t) \/ FirstGeneration(t) \/ Compare(t) \/ query_for_account(t)
        \/ SecondGeneration(t) \/ FinalGeneration(t) \/ Publish(t) \/ Return(t)

Next == (\E f \in FileNames : Edit(f)) \/ \E t \in Threads : query_with_generation(t)

Spec == Init /\ [][Next]_vars

-----------------------------------------------------------------------------
(* What is cached under a generation is what that generation delegates:    *)
(* "A configuration edit racing the query must not publish a snapshot      *)
(* under the wrong generation" (delegation.rs, query_with_generation).     *)
CacheExact ==
    cached # None => cached.delegation = Delegated(cached.generation)

(* A query that succeeds returns the uid and gid ranges of one and the     *)
(* same moment of the query, never the uids of before an edit with the     *)
(* gids of after it, whether it came from the cache or from the helper.    *)
OneMoment ==
    \A t \in Threads :
        pc[t] = "returned" => \E v \in during[t] : result[t] = Delegated(v)
=============================================================================
