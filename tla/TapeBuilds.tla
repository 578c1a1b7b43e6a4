----------------------------- MODULE TapeBuilds -----------------------------
(***************************************************************************)
(* The single flight around factor-tape builds: SimulationManager's        *)
(* tape_for, build_tape, cached_tape and cache_tape, and the tape half of  *)
(* evict.                                                                  *)
(*                                                                         *)
(* A caller that misses the cache takes the builds lock.  If the map has   *)
(* an entry for the simulation it subscribes to that entry's broadcast     *)
(* channel and waits; otherwise it inserts an entry, becomes the owner and *)
(* starts the build on the blocking pool.  The blocking task files the     *)
(* tape in the cache itself; the owner, when it resumes, removes the entry *)
(* and broadcasts the outcome.                                             *)
(*                                                                         *)
(* A client disconnect drops the caller's future at an await, that is,     *)
(* while it waits or while it owns a build.  The blocking task cannot be   *)
(* cancelled and runs on, detached.                                        *)
(*                                                                         *)
(* The map owns the only sender of a channel and the sender leaves the map *)
(* just before it sends, so a receiver never sees its channel closed: the  *)
(* Err(_) branch of the wait, which would build again, is unreachable and  *)
(* has no action here.                                                     *)
(***************************************************************************)
EXTENDS Naturals, SequencesExt

CONSTANTS Sims,      \* simulations whose tapes are asked for
          Callers,   \* requests that can be inside tape_for at once
          MaxTapes,  \* max_cached_tapes
          NoSim      \* a caller slot that is not in use

ASSUME TapeAssumption ==
    /\ MaxTapes \in Nat \ {0}
    /\ NoSim \notin Sims
    /\ IsFiniteSet(Callers)

VARIABLES
    tapes,     \* the cached tapes, least recently used first
    builds,    \* the simulations with an entry in the builds map
    pc,        \* pc[c]: where caller c is
    sim,       \* sim[c]: the simulation c asks for
    task,      \* task[c]: the blocking task c awaits
    inbox,     \* inbox[c]: what c's subscription has received
    detached   \* detached[s]: running tasks of s whose awaiter is gone

vars == <<tapes, builds, pc, sim, task, inbox, detached>>

TypeOK ==
    /\ tapes \in Seq(Sims)
    /\ Len(tapes) <= MaxTapes
    /\ \A i, j \in 1 .. Len(tapes) : tapes[i] = tapes[j] => i = j
    /\ builds \in SUBSET Sims
    /\ pc \in [Callers -> {"idle", "join", "wait", "build", "done"}]
    /\ sim \in [Callers -> Sims \cup {NoSim}]
    /\ task \in [Callers -> {"none", "running", "tape", "error"}]
    /\ inbox \in [Callers -> {"none", "tape", "error"}]
    /\ detached \in [Sims -> Nat]

-----------------------------------------------------------------------------
(* The bounded tape cache                                                  *)

Cached(s) == \E i \in 1 .. Len(tapes) : tapes[i] = s

\* No simulation has two tapes in the cache.
Without(seq, s) == RemoveFirst(seq, s)

\* cached_tape on a hit: the entry becomes the most recently used.
Touched(s) == Append(Without(tapes, s), s)

\* The n most recently used of a sequence of tapes.
MostRecent(seq, n) ==
    IF Len(seq) <= n THEN seq ELSE SubSeq(seq, Len(seq) - n + 1, Len(seq))

\* Bug: the surplus is cut off after the insert, from the recent end.
FiledThenCut(s) ==
    LET all == Append(Without(tapes, s), s)
    IN  IF Len(all) <= MaxTapes THEN all ELSE SubSeq(all, 1, MaxTapes)

\* cache_tape: the id's old entry goes, then the least recently used down to
\* capacity - 1, then the new tape comes in as the most recent.
Filed(s) == Append(MostRecent(Without(tapes, s), MaxTapes - 1), s)

-----------------------------------------------------------------------------
Init ==
    /\ tapes = <<>>
    /\ builds = {}
    /\ pc = [c \in Callers |-> "idle"]
    /\ sim = [c \in Callers |-> NoSim]
    /\ task = [c \in Callers |-> "none"]
    /\ inbox = [c \in Callers |-> "none"]
    /\ detached = [s \in Sims |-> 0]

\* tape_for's cache lookup: a hit answers at once.
Ask(c, s) ==
    /\ pc[c] = "idle"
    /\ sim' = [sim EXCEPT ![c] = s]
    /\ \/ /\ Cached(s)
          /\ tapes' = Touched(s)
          /\ pc' = [pc EXCEPT ![c] = "done"]
       \/ /\ ~Cached(s)
          /\ pc' = [pc EXCEPT ![c] = "join"]
          /\ UNCHANGED tapes
    /\ UNCHANGED <<builds, task, inbox, detached>>

\* The decision under the builds lock: there is an entry, so subscribe to it ...
Subscribe(c) ==
    /\ pc[c] = "join"
    /\ sim[c] \in builds
    /\ pc' = [pc EXCEPT ![c] = "wait"]
    /\ UNCHANGED <<tapes, builds, sim, task, inbox, detached>>

\* ... or there is none, so insert one and start the build.
Own(c) ==
    /\ pc[c] = "join"
    /\ sim[c] \notin builds
    /\ builds' = builds \cup {sim[c]}
    /\ pc' = [pc EXCEPT ![c] = "build"]
    /\ task' = [task EXCEPT ![c] = "running"]
    /\ UNCHANGED <<tapes, sim, inbox, detached>>

\* The blocking task of owner c ends: a built tape is filed there and then.
TaskEnds(c) ==
    /\ task[c] = "running"
    /\ \/ /\ task' = [task EXCEPT ![c] = "tape"]
          /\ tapes' = Filed(sim[c])
       \/ /\ task' = [task EXCEPT ![c] = "error"]
          /\ UNCHANGED tapes
    /\ UNCHANGED <<builds, pc, sim, inbox, detached>>

\* So does the task of an owner that is gone; nobody learns its outcome.
DetachedTaskEnds(s) ==
    /\ detached[s] > 0
    /\ detached' = [detached EXCEPT ![s] = @ - 1]
    /\ \/ tapes' = Filed(s)
       \/ UNCHANGED tapes
    /\ UNCHANGED <<builds, pc, sim, task, inbox>>

Subscribers(s) == {c \in Callers : pc[c] = "wait" /\ sim[c] = s /\ inbox[c] = "none"}

\* Bug: the entry goes but nobody is told.
PublishWithoutSend(c) ==
    /\ pc[c] = "build"
    /\ task[c] \in {"tape", "error"}
    /\ builds' = builds \ {sim[c]}
    /\ pc' = [pc EXCEPT ![c] = "done"]
    /\ task' = [task EXCEPT ![c] = "none"]
    /\ UNCHANGED <<tapes, sim, inbox, detached>>

\* Bug: the entry of a finished build stays in the map.
PublishKeepingEntry(c) ==
    /\ pc[c] = "build"
    /\ task[c] \in {"tape", "error"}
    /\ inbox' = [q \in Callers |-> IF q \in Subscribers(sim[c]) THEN task[c] ELSE inbox[q]]
    /\ pc' = [pc EXCEPT ![c] = "done"]
    /\ task' = [task EXCEPT ![c] = "none"]
    /\ UNCHANGED <<tapes, builds, sim, detached>>

\* The owner resumes: it removes its entry and broadcasts the outcome.
Publish(c) ==
    /\ pc[c] = "build"
    /\ task[c] \in {"tape", "error"}
    /\ builds' = builds \ {sim[c]}
    /\ inbox' = [q \in Callers |-> IF q \in Subscribers(sim[c]) THEN task[c] ELSE inbox[q]]
    /\ pc' = [pc EXCEPT ![c] = "done"]
    /\ task' = [task EXCEPT ![c] = "none"]
    /\ UNCHANGED <<tapes, sim, detached>>

\* A waiter receives what its owner published.
Receive(c) ==
    /\ pc[c] = "wait"
    /\ inbox[c] # "none"
    /\ pc' = [pc EXCEPT ![c] = "done"]
    /\ inbox' = [inbox EXCEPT ![c] = "none"]
    /\ UNCHANGED <<tapes, builds, sim, task, detached>>

\* The caller has its tape, or its error, and moves on.
Return(c) ==
    /\ pc[c] = "done"
    /\ pc' = [pc EXCEPT ![c] = "idle"]
    /\ sim' = [sim EXCEPT ![c] = NoSim]
    /\ UNCHANGED <<tapes, builds, task, inbox, detached>>

\* Bug: a drop guard gives up the entry while the blocking task runs on.
CancelGivingUpEntry(c) ==
    /\ pc[c] \in {"wait", "build"}
    /\ pc' = [pc EXCEPT ![c] = "idle"]
    /\ sim' = [sim EXCEPT ![c] = NoSim]
    /\ task' = [task EXCEPT ![c] = "none"]
    /\ inbox' = [inbox EXCEPT ![c] = "none"]
    /\ detached' = IF task[c] = "running"
                   THEN [detached EXCEPT ![sim[c]] = @ + 1] ELSE detached
    /\ builds' = IF pc[c] = "build" THEN builds \ {sim[c]} ELSE builds
    /\ UNCHANGED tapes

\* The client disconnects and the future is dropped at its await.  Nothing in
\* tape_for runs on drop, so an owner's entry stays in the builds map.
Cancel(c) ==
    /\ pc[c] \in {"wait", "build"}
    /\ pc' = [pc EXCEPT ![c] = "idle"]
    /\ sim' = [sim EXCEPT ![c] = NoSim]
    /\ task' = [task EXCEPT ![c] = "none"]
    /\ inbox' = [inbox EXCEPT ![c] = "none"]
    /\ detached' = IF task[c] = "running"
                   THEN [detached EXCEPT ![sim[c]] = @ + 1] ELSE detached
    /\ UNCHANGED <<tapes, builds>>

\* The simulation completed, or was deleted or reaped: its tape is dropped.
Evict(s) ==
    /\ Cached(s)
    /\ tapes' = Without(tapes, s)
    /\ UNCHANGED <<builds, pc, sim, task, inbox, detached>>

\* What the runtime does for a caller once it is inside tape_for.
CallerStep(c) == Subscribe(c) \/ Own(c) \/ TaskEnds(c) \/ Publish(c) \/ Receive(c)

Next ==
    \/ \E c \in Callers, s \in Sims : Ask(c, s)
    \/ \E c \in Callers : CallerStep(c) \/ Return(c) \/ Cancel(c)
    \/ \E s \in Sims : DetachedTaskEnds(s) \/ Evict(s)

\* Futures that are not dropped are polled, and blocking tasks end.
Fairness ==
    /\ \A c \in Callers : WF_vars(CallerStep(c))
    /\ \A s \in Sims : WF_vars(DetachedTaskEnds(s))

Spec == Init /\ [][Next]_vars /\ Fairness

-----------------------------------------------------------------------------
(* Properties                                                              *)

Building(s) == {c \in Callers : sim[c] = s /\ task[c] = "running"}

\* The types, and single flight: a simulation never has two builds running at once, not even
\* when the owner of one was dropped while its task ran on.
OneBuildAtATime ==
    /\ TypeOK
    /\ \A s \in Sims : Cardinality(Building(s)) + detached[s] <= 1

\* Publishing removes the entry and answers every subscriber in one step, so a
\* caller left waiting always has a channel that can still deliver.
WaiterHasEntry ==
    \A c \in Callers : (pc[c] = "wait" /\ inbox[c] = "none") => sim[c] \in builds

\* An entry whose owner is gone: nobody will ever remove it.
Orphaned(s) == s \in builds /\ \A c \in Callers : ~(pc[c] = "build" /\ sim[c] = s)

\* An entry outlives its owner in one way only: the owner's client disconnects.
\* A build that ends, well or badly, always takes its entry with it.
OnlyADisconnectOrphans ==
    [][\A s \in Sims : (~Orphaned(s) /\ Orphaned(s)') =>
          \E c \in Callers : sim[c] = s /\ pc[c] = "build" /\ pc'[c] = "idle"]_vars

\* A tape that is filed is never its own victim, and costs no other tape its
\* place while there is room.
FilingKeepsTheNewTape ==
    [][\A c \in Callers : (task[c] = "running" /\ task'[c] = "tape") =>
          /\ Cached(sim[c])'
          /\ Len(tapes) < MaxTapes => \A s \in Sims : Cached(s) => Cached(s)']_vars

\* Every caller that entered tape_for comes out of it, unless the build it
\* joined has lost its owner.
CallersAreAnswered ==
    \A c \in Callers : (pc[c] \in {"join", "wait", "build"})
        ~> (pc[c] \in {"idle", "done"} \/ Orphaned(sim[c]))

-----------------------------------------------------------------------------
(* What a comment says and the code does not do                            *)

\* A caller waiting on somebody else's build does not hang: it is answered, or
\* it builds the tape itself.
WaitersDoNotHang == \A c \in Callers : (pc[c] = "wait") ~> (pc[c] # "wait")
=============================================================================
