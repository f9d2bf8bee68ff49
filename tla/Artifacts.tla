------------------------------ MODULE Artifacts ------------------------------
(***************************************************************************)
(* ArtifactStore: bytes are published under their digest by writing a      *)
(* temporary file, syncing it, linking it to its name and syncing the      *)
(* shard directory.  Several writers, crashes of the daemon and power      *)
(* failures interleave.  A digest is a model value and its bytes are       *)
(* written in two parts.                                                   *)
(***************************************************************************)
EXTENDS Naturals

CONSTANTS
  Writers,     \* concurrent calls of put
  Digests,     \* digests of the contents that are put
  Shard,       \* Digests -> shard directories
  MaxFailures  \* power failures (model bound)

VARIABLES
  pc, want,     \* where each put is, and the digest of its bytes
  temp,         \* parts of each writer's temporary file
  synced,       \* whether the temporary file was synced
  dirs,         \* shard directories that exist: volatile or durable
  names,        \* digests with a name: volatile or durable
  parts,        \* parts of the content under each name
  safe,         \* digests whose content is on the disk
  acked,        \* history: digests for which put returned Ok
  failures

vars == <<pc, want, temp, synced, dirs, names, parts, safe, acked, failures>>

Shards == {Shard[d] : d \in Digests}
Whole == 2

Init ==
  /\ pc = [w \in Writers |-> "idle"]
  /\ want \in [Writers -> Digests]
  /\ temp = [w \in Writers |-> 0] /\ synced = [w \in Writers |-> FALSE]
  /\ dirs = [s \in Shards |-> "none"]
  /\ names = [d \in Digests |-> "none"]
  /\ parts = [d \in Digests |-> 0] /\ safe = {}
  /\ acked = {} /\ failures = 0

Goto(w, to) == pc' = [pc EXCEPT ![w] = to]
Disk == <<dirs, names, parts, safe>>

(* destination.exists(): a name is there already.                          *)
Lookup(w, d) ==
  /\ pc[w] = "idle"
  /\ want' = [want EXCEPT ![w] = d]
  /\ Goto(w, IF names[d] = "none" THEN "mkdir" ELSE "verify")
  /\ UNCHANGED <<temp, synced, Disk, acked, failures>>

CreateDirAll(w) ==
  /\ pc[w] = "mkdir"
  /\ dirs' = [dirs EXCEPT ![Shard[want[w]]] = IF @ = "none" THEN "volatile" ELSE @]
  /\ temp' = [temp EXCEPT ![w] = 0] /\ synced' = [synced EXCEPT ![w] = FALSE]
  /\ Goto(w, "write")
  /\ UNCHANGED <<want, names, parts, safe, acked, failures>>

WriteAll(w) ==
  /\ pc[w] = "write" /\ temp[w] < Whole
  /\ temp' = [temp EXCEPT ![w] = @ + 1]
  /\ UNCHANGED <<pc, want, synced, Disk, acked, failures>>

SkipSync(w) ==
  /\ pc[w] = "write" /\ temp[w] = Whole
  /\ Goto(w, "persist")
  /\ UNCHANGED <<want, temp, synced, Disk, acked, failures>>
SyncAll(w) ==
  /\ pc[w] = "write" /\ temp[w] = Whole
  /\ synced' = [synced EXCEPT ![w] = TRUE]
  /\ Goto(w, "persist")
  /\ UNCHANGED <<want, temp, Disk, acked, failures>>

(* persist_noclobber: the first writer's file gets the name.               *)
PersistNoclobber(w) ==
  LET d == want[w]
  IN /\ pc[w] = "persist"
     /\ IF names[d] # "none"
        THEN Goto(w, "verify") /\ UNCHANGED <<names, parts, safe>>
        ELSE /\ names' = [names EXCEPT ![d] = "volatile"]
             /\ parts' = [parts EXCEPT ![d] = temp[w]]
             /\ safe' = IF synced[w] THEN safe \union {d} ELSE safe \ {d}
             /\ Goto(w, "sync")
     /\ UNCHANGED <<want, temp, synced, dirs, acked, failures>>

(* sync_directory(parent): the names in the shard, not the shard's own.    *)
SyncDirectory(w) ==
  /\ pc[w] = "sync"
  /\ names' = [d \in Digests |->
       IF Shard[d] = Shard[want[w]] /\ names[d] # "none" THEN "durable"
       ELSE names[d]]
  /\ Goto(w, "ok")
  /\ UNCHANGED <<want, temp, synced, dirs, parts, safe, acked, failures>>

(* verify: hash what is there.                                             *)
Verify(w) ==
  /\ pc[w] = "verify"
  /\ Goto(w, IF names[want[w]] # "none" /\ parts[want[w]] = Whole
             THEN "ok" ELSE "error")
  /\ UNCHANGED <<want, temp, synced, Disk, acked, failures>>

Error(w) ==
  /\ pc[w] \in {"mkdir", "write", "persist", "sync"}
  /\ Goto(w, "error")
  /\ UNCHANGED <<want, temp, synced, Disk, acked, failures>>

Return(w) ==
  /\ pc[w] \in {"ok", "error"}
  /\ acked' = IF pc[w] = "ok" THEN acked \union {want[w]} ELSE acked
  /\ Goto(w, "idle")
  /\ UNCHANGED <<want, temp, synced, Disk, failures>>

(* The daemon crashes; the disk is not affected.                           *)
Crash ==
  /\ \E w \in Writers : pc[w] # "idle"
  /\ pc' = [w \in Writers |-> "idle"]
  /\ UNCHANGED <<want, temp, synced, Disk, acked, failures>>

(* A power failure: what was not synced may be lost, names and contents.   *)
PowerFailure ==
  /\ failures < MaxFailures
  /\ failures' = failures + 1
  /\ pc' = [w \in Writers |-> "idle"]
  /\ \E S \in SUBSET {s \in Shards : dirs[s] = "volatile"},
        N \in SUBSET {d \in Digests : names[d] = "volatile"},
        P \in SUBSET (Digests \ safe) :
       LET lost(d) == dirs[Shard[d]] = "none" \/ Shard[d] \in S \/ d \in N
       IN /\ dirs' = [s \in Shards |->
               IF s \in S \/ dirs[s] = "none" THEN "none" ELSE "durable"]
          /\ names' = [d \in Digests |->
               IF lost(d) \/ names[d] = "none" THEN "none" ELSE "durable"]
          /\ parts' = [d \in Digests |->
               IF lost(d) THEN 0 ELSE IF d \in P THEN parts[d] \div 2 ELSE parts[d]]
          /\ safe' = {d \in Digests : ~lost(d) /\ names[d] # "none"}
  /\ UNCHANGED <<want, temp, synced, acked>>

Put(w) ==
  \/ \E d \in Digests : Lookup(w, d)
  \/ CreateDirAll(w) \/ WriteAll(w) \/ SyncAll(w) \/ PersistNoclobber(w)
  \/ SyncDirectory(w) \/ Verify(w) \/ Error(w) \/ Return(w)

Next == (\E w \in Writers : Put(w)) \/ Crash \/ PowerFailure

Spec == Init /\ [][Next]_vars

-----------------------------------------------------------------------------
(* A name never leads to a part of its content: not to one of another      *)
(* writer still at work, not after a crash, not after a power failure      *)
(* (put: sync_all before persist_noclobber).                               *)
NamedIsWhole == \A d \in Digests : names[d] # "none" => parts[d] = Whole

(* While the power stays on, what put acknowledged can be read, whichever  *)
(* writer published it and whoever crashed (put, read, verify).            *)
AckedIsReadable == failures = 0 => \A d \in acked : names[d] # "none"

(* What the store knows it can return whole, among concurrent puts, errors *)
(* and crashes.                                                            *)
StoredIsWhole == NamedIsWhole /\ AckedIsReadable

=============================================================================
