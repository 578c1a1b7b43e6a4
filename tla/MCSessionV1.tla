---------------------------- MODULE MCSessionV1 -----------------------------
(***************************************************************************)
(* Instances of SessionV1 for TLC.  A session is created or replaced with  *)
(* one generated or one historical set of parameters; a PATCH changes the  *)
(* steps, the seed or the method.                                          *)
(***************************************************************************)
EXTENDS SessionV1, TLC

CONSTANTS p1, p2, r1, r2

\* Symbol 1 trades at every tick, symbol 2 in bursts.
Rows(symbol, ticks) == {[symbol |-> symbol, at |-> t, close |-> 10 * symbol + t] : t \in ticks}

GrowingTables ==
    <<Rows(1, 0 .. 6) \cup Rows(2, {1, 2, 4, 7}), Rows(1, 0 .. 8) \cup Rows(2, {1, 2, 4, 7, 8, 9})>>

Ticks == [day |-> 2]

\* The draws of seed 1 are the first and the last choice, those of seed 2 the last
\* and the first.
FirstOrLast(seed, k, n) == IF seed = k THEN 0 ELSE n

Generated == [source |-> "generated", prices |-> <<>>, symbol |-> NoSymbol]

Historical == [source |-> "historical", prices |-> <<>>, symbol |-> NoSymbol]

OfTwoSteps(method) == {[steps |-> 2, seed |-> 1, method |-> method]}

EitherMethod == OfTwoSteps(Historical) \cup {[steps |-> 1, seed |-> 2, method |-> Generated]}

NewSteps == [NoChange EXCEPT !.steps = 1]
NewSeed == [NoChange EXCEPT !.seed = 2]
NewMethod == [NoChange EXCEPT !.method = Historical]
MoreSteps == [NoChange EXCEPT !.steps = 2]

Load(width, puts, patches, expected, updates, tables) ==
    [width |-> width, puts |-> puts, patches |-> patches,
     expected |-> expected, updates |-> updates, tables |-> tables]

\* Two requests that race, or one at a time with every kind of update while the
\* table grows.
RacingOrAlone ==
    {Load(2, OfTwoSteps(Generated), {NewSteps}, {NoStep}, 1, 1),
     Load(1, EitherMethod, {NewSteps, MoreSteps, NewSeed, NewMethod}, {1, NoStep}, 2, 2)}

RacingPatches == {Load(2, OfTwoSteps(Generated), {NewSteps, NewSeed}, {NoStep}, 2, 1)}

RacingReplicas == {Load(2, OfTwoSteps(Generated), {NewSeed}, {NoStep}, 2, 1)}

Drifting == {Load(2, OfTwoSteps(Historical), {}, {NoStep}, 0, 2)}

OneReplica == r1 :> p1 @@ r2 :> p1
TwoReplicas == r1 :> p1 @@ r2 :> p2

ASSUME SeriesAreSelected

Interchangeable == Permutations(Requests)
=============================================================================
