------------------------------- MODULE Redis -------------------------------
(***************************************************************************)
(* What the stores use of a Redis server: its clock and keys that expire.  *)
(* A script runs as one step, and so does a single command.  The server is *)
(* external; this is RedisClient's view of it.                             *)
(***************************************************************************)
EXTENDS Naturals

CONSTANTS TicksPerSecond,  \* how finely time is told below a second
          MaxTime,         \* bounds the clock
          MaxVersion,      \* bounds the revisions
          Absent           \* no key

ASSUME RedisAssumption ==
    /\ TicksPerSecond \in Nat \ {0}
    /\ MaxTime \in Nat
    /\ MaxVersion \in Nat
    /\ Absent \notin Nat \cup [value : Nat, expires : Nat]

VARIABLE now

\* SET key value EX seconds
SetEx(value, seconds) == [value |-> value, expires |-> now + seconds * TicksPerSecond]

\* The seconds of TIME.
Seconds(t) == t \div TicksPerSecond

\* What is left of a key at time t.
Surviving(key, t) == IF key # Absent /\ key.expires <= t THEN Absent ELSE key

\* The keys whose time to live is some number of seconds.
Keys(seconds) ==
    {Absent} \cup [value : 0 .. MaxVersion,
                   expires : now + 1 .. now + seconds * TicksPerSecond]
=============================================================================
