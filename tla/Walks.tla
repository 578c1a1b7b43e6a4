------------------------------- MODULE Walks --------------------------------
(***************************************************************************)
(* The walks of domain/walker.rs: how each kernel turns the samples of one *)
(* seeded stream into prices and, for the stochastic-volatility models,    *)
(* volatilities.                                                           *)
(*                                                                         *)
(* A point of a walk is a record: its price and volatility, the level that *)
(* the next move starts from, what else the kernel carries from move to    *)
(* move, and how many samples it has drawn.                                *)
(***************************************************************************)
EXTENDS Decimals

CONSTANT Samples     \* Samples[seed][k]: the k-th sample of the seed's stream

\* The walker hands out one sample after the other, as a standard normal or as
\* a uniform one in [0, 1); all of its clones draw from the same stream.
Normal(seed, k) == Samples[seed][k].normal

Uniform(seed, k) == Samples[seed][k].uniform

Walk(level, vol, memory, drawn) ==
    [price |-> level, vol |-> vol, level |-> level, memory |-> memory, drawn |-> drawn]

Moved(w, level, price, vol, memory, drawn) ==
    [price |-> price, vol |-> vol, level |-> level, memory |-> memory,
     drawn |-> w.drawn + drawn]

\* size points: the first one is given, each later one is a move.
Walked(Move(_), begin, size) ==
    LET point[n \in Nat] == IF n <= 1 THEN begin ELSE Move(point[n - 1])
    IN  [path  |-> [i \in 1..size |-> point[i].price],
         vols  |-> [i \in 1..size |-> point[i].vol],
         drawn |-> point[size].drawn]

\* One step of an Ornstein-Uhlenbeck process.  The pull is towards the mean from
\* below only: mu.sub_or_zero(x).
Reverted(x, mean, speed, vol, dt, z) ==
    NotNegative(x + Mul(Mul(speed, NotNegative(mean - x)), dt) + Mul(vol, Mul(z, Root(dt))))

OuMove(seed, mean, speed, vol, dt, w) ==
    LET x == Reverted(w.level, mean, speed, vol, dt, Normal(seed, w.drawn + 1))
    IN  Moved(w, x, x, vol, <<>>, 1)

OuProcess(seed, x0, mean, speed, vol, dt, size) ==
    Walked(LAMBDA w : OuMove(seed, mean, speed, vol, dt, w), Walk(x0, vol, <<>>, 0), size)

\* The diffusion is scaled by the starting price; the level itself may go negative.
BrownianMove(m, seed, price, w) ==
    LET z == Normal(seed, w.drawn + 1)
        x == w.level + Mul(m.drift, m.dt)
             + Mul(Mul(Mul(m.volatility, price), Root(m.dt)), z)
    IN  Moved(w, x, NotNegative(x), m.volatility, <<>>, 1)

Brownian(m, seed, price, size) ==
    Walked(LAMBDA w : BrownianMove(m, seed, price, w),
           Walk(price, m.volatility, <<>>, 0), size)

GeometricMove(m, seed, w) ==
    LET z == Normal(seed, w.drawn + 1)
        x == Mul(w.level, Exp(Mul(m.drift, m.dt) + Mul(Mul(z, m.volatility), Root(m.dt))))
    IN  Moved(w, x, x, m.volatility, <<>>, 1)

GeometricBrownian(m, seed, price, size) ==
    Walked(LAMBDA w : GeometricMove(m, seed, w), Walk(price, m.volatility, <<>>, 0), size)

\* The memory is the previous log return, which an autocorrelation adds in.
LogReturnsMove(m, seed, w) ==
    LET z      == Normal(seed, w.drawn + 1)
        fresh  == Mul(m.drift, m.dt) + Mul(Mul(z, m.volatility), Root(m.dt))
        return == fresh + Mul(m.autocorrelation, w.memory)
        x      == Mul(w.level, Exp(return))
    IN  Moved(w, x, x, m.volatility, return, 1)

LogReturns(m, seed, price, size) ==
    Walked(LAMBDA w : LogReturnsMove(m, seed, w), Walk(price, m.volatility, 0, 0), size)

MeanReverting(m, seed, price, size) ==
    OuProcess(seed, price, m.mean, m.speed, Mul(m.volatility, m.mean), m.dt, size)

\* Bug: whether a step jumps is drawn for all steps before the first one; the
\* memory is the number of the move.
JumpsDrawnFirst(m, seed, price, size) ==
    Walked(LAMBDA w :
               LET z     == Normal(seed, w.drawn + 1)
                   jumps == Uniform(seed, w.memory) < Mul(m.intensity, m.dt)
                   x     == NotNegative(w.level + Mul(m.drift, m.dt)
                                + Mul(Mul(Mul(m.volatility, w.level), Root(m.dt)), z)
                                + (IF jumps THEN m.jump_mean ELSE 0))
               IN  Moved(w, x, x, m.volatility, w.memory + 1, 1),
           Walk(price, m.volatility, 1, size - 1), size)

\* A normal sample for the diffusion, a uniform one for whether the step jumps,
\* and if it does a normal one for the size of the jump.
JumpDiffusionMove(m, seed, w) ==
    LET z     == Normal(seed, w.drawn + 1)
        jumps == Uniform(seed, w.drawn + 2) < Mul(m.intensity, m.dt)
        jump  == IF jumps THEN m.jump_mean + Mul(Normal(seed, w.drawn + 3), m.jump_volatility)
                 ELSE 0
        x     == NotNegative(w.level + Mul(m.drift, m.dt)
                     + Mul(Mul(Mul(m.volatility, w.level), Root(m.dt)), z) + jump)
    IN  Moved(w, x, x, m.volatility, <<>>, IF jumps THEN 3 ELSE 2)

JumpDiffusion(m, seed, price, size) ==
    Walked(LAMBDA w : JumpDiffusionMove(m, seed, w), Walk(price, m.volatility, <<>>, 0), size)

\* The memory is the variance and the last squared shock.
GarchMove(m, seed, w) ==
    LET omega == Mul(Mul(m.volatility, m.volatility), One - m.alpha - m.beta)
        var   == omega + Mul(m.alpha, w.memory[2]) + Mul(m.beta, w.memory[1])
        eps   == Mul(Mul(Normal(seed, w.drawn + 1), Root(var)), Root(m.dt))
        x     == Mul(w.level, Exp(Mul(m.drift, m.dt) + eps))
    IN  Moved(w, x, x, Root(var), <<var, Mul(eps, eps)>>, 1)

Garch(m, seed, price, size) ==
    Walked(LAMBDA w : GarchMove(m, seed, w),
           Walk(price, m.volatility, <<Mul(m.volatility, m.volatility), 0>>, 0), size)

\* The memory is the variance; the move uses the mean of the old and the new one,
\* and reports the new one.
HestonMove(m, seed, w) ==
    LET z1  == Normal(seed, w.drawn + 1)
        z2  == Mul(m.rho, z1)
               + Mul(Root(One - Mul(m.rho, m.rho)), Normal(seed, w.drawn + 2))
        var == NotNegative(w.memory + Mul(Mul(m.kappa, m.theta - w.memory), m.dt)
                   + Mul(Mul(Mul(m.xi, Root(w.memory)), z2), Root(m.dt)))
        x   == Mul(w.level, Exp(Mul(m.drift, m.dt)
                   + Mul(Mul(Root((w.memory + var) \div 2), z1), Root(m.dt))))
    IN  Moved(w, x, x, Root(var), var, 2)

Heston(m, seed, price, size) ==
    Walked(LAMBDA w : HestonMove(m, seed, w),
           Walk(price, m.volatility, Mul(m.volatility, m.volatility), 0), size)

\* The memory is the number of the move, which has its volatility in `vols'.
CustomMove(m, seed, vols, w) ==
    LET vol == vols[w.memory]
        z   == Normal(seed, w.drawn + 1)
        x   == w.level + Mul(m.drift, m.dt) + Mul(Mul(z, Mul(vol, w.level)), Root(m.dt))
    IN  Moved(w, x, NotNegative(x), vol, w.memory + 1, 1)

\* The whole volatility path is drawn before the first move, so where the moves'
\* samples begin depends on the size.
Custom(m, seed, price, size) ==
    LET vols == OuProcess(seed, m.volatility, m.vol_mean, m.vol_speed, m.vov, m.dt, size)
    IN  Walked(LAMBDA w : CustomMove(m, seed, vols.path, w),
               Walk(price, m.volatility, 1, vols.drawn), size)

\* The memory is the regime.  Every move draws twice, the first time for whether
\* the regime changes.
TelegraphMove(m, seed, w) ==
    LET lambda == IF w.memory = 1 THEN m.lambda_down ELSE m.lambda_up
        z      == Normal(seed, w.drawn + 1)
        sample == ((IF z < 0 THEN -z ELSE z) + One) \div 2
        regime == IF sample < One - Exp(-Mul(lambda, m.dt)) THEN -w.memory ELSE w.memory
        vol    == Mul(m.volatility, IF regime = 1 THEN m.multiplier_up
                                                  ELSE m.multiplier_down)
        x      == Mul(w.level, Exp(Mul(m.drift, m.dt)
                      + Mul(Mul(vol, Root(m.dt)), Normal(seed, w.drawn + 2))))
    IN  Moved(w, x, x, vol, regime, 2)

\* The first regime is drawn.
Telegraph(m, seed, price, size) ==
    Walked(LAMBDA w : TelegraphMove(m, seed, w),
           Walk(price, m.volatility, IF Normal(seed, 1) < 0 THEN 1 ELSE -1, 1), size)

\* A historical walk replays its series and draws nothing.
Historical(m, size) == [path |-> SubSeq(m.prices, 1, size), vols |-> <<>>, drawn |-> 0]

\* The parameters a kernel itself refuses.
KernelRefuses(m, size) ==
    \/ m.kind = "JumpDiffusion" /\ Mul(m.intensity, m.dt) >= One
    \/ m.kind = "Garch" /\ m.alpha + m.beta >= One
    \/ m.kind = "Heston" /\ m.rho \notin -One..One
    \/ m.kind = "LogReturns" /\ m.autocorrelation \notin -One..One /\ size > 1
    \/ m.kind = "Historical" /\ Len(m.prices) < size

\* generate_with_vol: the path, and the volatilities if the model has its own.
Generated(m, seed, price, size) ==
    CASE m.kind = "Brownian"          -> Brownian(m, seed, price, size)
      [] m.kind = "GeometricBrownian" -> GeometricBrownian(m, seed, price, size)
      [] m.kind = "LogReturns"        -> LogReturns(m, seed, price, size)
      [] m.kind = "MeanReverting"     -> MeanReverting(m, seed, price, size)
      [] m.kind = "JumpDiffusion"     -> JumpDiffusion(m, seed, price, size)
      [] m.kind = "Garch"             -> Garch(m, seed, price, size)
      [] m.kind = "Heston"            -> Heston(m, seed, price, size)
      [] m.kind = "Custom"            -> Custom(m, seed, price, size)
      [] m.kind = "Telegraph"         -> Telegraph(m, seed, price, size)
      [] m.kind = "Historical"        -> Historical(m, size)

StochasticVolatility == {"Garch", "Heston", "Custom", "Telegraph"}
=============================================================================
