---------------------------- MODULE RingKVProofs ----------------------------
(***************************************************************************)
(* That a session resumed on cached KV is, bit for bit, a cold run, for    *)
(* every geometry of ring, sink and chunk, and every number of sessions.   *)
(***************************************************************************)
EXTENDS RingKV, TLAPS

-----------------------------------------------------------------------------
(* Arithmetic of frames and chunks.                                        *)

LEMMA DivMod ==
  ASSUME NEW c \in Nat \ {0}, NEW g \in Nat
  PROVE  g \div c \in Nat /\ g % c \in 0..(c - 1) /\ g = (g \div c) * c + (g % c)
  OBVIOUS

LEMMA TimesNext ==
  ASSUME NEW m \in Nat, NEW c \in Nat
  PROVE  (m + 1) * c = m * c + c /\ m * c \in Nat
  OBVIOUS

LEMMA TimesMono ==
  ASSUME NEW m \in Nat, NEW n \in Nat, NEW c \in Nat, m <= n
  PROVE  m * c <= n * c
  OBVIOUS

LEMMA DivAtLeast ==
  ASSUME NEW a \in Nat, NEW b \in Nat, NEW c \in Nat \ {0}, a * c <= b
  PROVE  a <= b \div c
  OBVIOUS

LEMMA DivBelow ==
  ASSUME NEW a \in Nat, NEW b \in Nat, NEW c \in Nat \ {0}, b < a * c
  PROVE  b \div c < a
  OBVIOUS

LEMMA ConfigFacts ==
  ASSUME cfg \in Configs
  PROVE  /\ cfg.buf \in Nat /\ cfg.sink \in Nat /\ cfg.draws \in Nat
         /\ cfg.chunk \in Nat \ {0} /\ cfg.chunks \in Nat \ {0}
         /\ cfg.sink + cfg.chunk <= cfg.buf
         /\ cfg.manager = "full" => cfg.chunks <= FullWindow
         /\ FullWindow \in Nat
<1>1. FullWindow \in Nat
  BY SMT DEF FullWindow
<1> QED BY <1>1, RingAssumption DEF ConfigType

-----------------------------------------------------------------------------
(* The window the configuration asks for is what seeding needs.            *)

(* A frame less than r behind the end of m chunks is in one of the last    *)
(* ceil(r / c) of them.                                                    *)
LEMMA RecentChunks ==
  ASSUME NEW m \in Nat, NEW g \in Nat, NEW r \in Nat, NEW c \in Nat \ {0},
         g < m * c, m * c - r <= g
  PROVE  m - (g \div c) <= CeilDiv(r, c)
<1> DEFINE d == g \div c
<1>1. d \in Nat /\ d < m /\ g < d * c + c
  BY DivMod, DivBelow
<1>2. m - d \in Nat /\ (m - d) * c = m * c - d * c
  BY <1>1
<1>3. (m - d) * c <= r + c - 1
  <2>1. m * c \in Int /\ d * c \in Int
    BY <1>1
  <2> QED BY <1>1, <1>2, <2>1
<1> HIDE DEF d
<1>4. m - d <= (r + c - 1) \div c
  BY <1>2, <1>3, DivAtLeast
<1> QED BY <1>4 DEF CeilDiv, d

LEMMA SinkChunks ==
  ASSUME NEW p \in Nat, NEW n \in Nat, NEW c \in Nat \ {0}, p < n
  PROVE  p \div c < CeilDiv(n, c)
<1> DEFINE d == p \div c
<1>1. d \in Nat /\ d * c <= p
  BY DivMod
<1>2. (d + 1) * c <= n + c - 1
  BY <1>1, TimesNext
<1> HIDE DEF d
<1>3. d + 1 <= (n + c - 1) \div c
  BY <1>1, <1>2, DivAtLeast
<1>4. CeilDiv(n, c) \in Int
  BY DivMod DEF CeilDiv
<1> QED BY <1>1, <1>3, <1>4 DEF CeilDiv, d

LEMMA WindowCovers ==
  ASSUME cfg \in Configs, cfg.manager \in {"full", "rolling"},
         NEW m \in 0..cfg.chunks
  PROVE  Covered(m)
<1> USE ConfigFacts
<1> SUFFICES ASSUME NEW p \in SlotsToSeed(m)
             PROVE  FrameToSeed(p, m) \div cfg.chunk \in WindowPath(m)
  BY DEF Covered
<1> DEFINE g == FrameToSeed(p, m)
           c == cfg.chunk
<1>0. m \in Nat /\ m * c \in Nat /\ c \in Nat \ {0}
  BY TimesNext
<1>1. p \in Nat /\ p < cfg.buf /\ p < SeedLength(m)
  BY DEF SlotsToSeed, Slots
<1>2. g \in Nat /\ g < m * c /\ (p < cfg.sink => g = p)
      /\ (p >= cfg.sink => m * c - (cfg.buf - cfg.sink) <= g)
  BY <1>0, <1>1 DEF FrameToSeed, SeedLength
<1> HIDE DEF g
<1>3. g \div c \in Nat /\ g \div c < m
  BY <1>0, <1>2, DivMod, DivBelow
<1>4. CASE cfg.manager = "full"
  <2>1. WorldKVConfig.window = FullWindow
    BY <1>4 DEF WorldKVConfig, FullConfig
  <2> QED BY <1>3, <1>4, <2>1 DEF WindowPath, g
<1>5. CASE cfg.manager = "rolling"
  <2>1. /\ WorldKVConfig.window = CeilDiv(cfg.buf - cfg.sink, c)
        /\ WorldKVConfig.sinkChunks = CeilDiv(cfg.sink, c)
    BY <1>5 DEF WorldKVConfig, RollingConfig
  <2>2. m - (g \div c) <= CeilDiv(cfg.buf - cfg.sink, c) \/ g \div c < CeilDiv(cfg.sink, c)
    <3>1. CASE p < cfg.sink
      BY <1>0, <1>1, <1>2, <3>1, SinkChunks
    <3>2. CASE p >= cfg.sink
      <4>1. cfg.buf - cfg.sink \in Nat
        OBVIOUS
      <4> HIDE DEF c
      <4> QED BY <1>0, <1>2, <3>2, <4>1, RecentChunks
    <3> QED BY <1>1, <3>1, <3>2
  <2> QED BY <1>3, <2>1, <2>2 DEF WindowPath, g
<1> QED BY <1>4, <1>5

-----------------------------------------------------------------------------
(* The inductive invariant.  A session that has not resumed yet has a      *)
(* fresh runtime, the latents of the chunks it is about to skip stay       *)
(* there even when their blobs are evicted, and what it has been handed is *)
(* what it has yet to decode.                                              *)
Fresh(s) ==
  /\ next[s] = 0 /\ ring[s] = FreshRing
  /\ localEnd[s] = 0 /\ globalEnd[s] = 0 /\ rng[s] = 0

SessionInv(s) ==
  /\ ph[s] \in {"run", "rewritten"} => AsCold(s, Computed(s))
  /\ \A d \in Chunks :
       shown[s][d] = IF d < next[s] \/ (d = next[s] /\ ph[s] = "rewritten") THEN d ELSE Empty
  /\ ph[s] \in {"off", "hit"} => Fresh(s)
  /\ ph[s] = "off" => k[s] = 0
  /\ ph[s] = "hit" => \A d \in Chunks : d < k[s] => lat[d] = d
  /\ ph[s] = "rewritten" => k[s] <= next[s] /\ next[s] < cfg.chunks
  /\ ph[s] = "run" => \A d \in Chunks : next[s] <= d /\ d < k[s] => cached[s][d] = d

ColdFrames(d) == [i \in 0..(cfg.chunk - 1) |-> d * cfg.chunk + i]

ChainInv ==
  \A d \in Chunks : /\ kv[d] # Empty => kv[d] = ColdFrames(d)
                    /\ kv[d] # Empty => lat[d] = d
                    /\ lat[d] \in {d, Empty}

IInv == TypeOK /\ ChainInv /\ \A s \in Sessions : SessionInv(s)

LEMMA IInvSuffices == IInv => RingExact /\ ReplayExact /\ WindowSuffices
<1> SUFFICES ASSUME IInv PROVE RingExact /\ ReplayExact /\ WindowSuffices
  OBVIOUS
<1>1. RingExact
  BY DEF IInv, SessionInv, RingExact
<1>2. ReplayExact
  BY DEF IInv, SessionInv, ChainInv, ColdFrames, ReplayExact
<1>3. WindowSuffices
  BY WindowCovers DEF IInv, TypeOK, WindowSuffices
<1> QED BY <1>1, <1>2, <1>3

(* The session of a runtime that a step leaves alone.                      *)
SameRuntime(t) ==
  /\ ph'[t] = ph[t] /\ k'[t] = k[t] /\ next'[t] = next[t]
  /\ ring'[t] = ring[t] /\ localEnd'[t] = localEnd[t] /\ globalEnd'[t] = globalEnd[t]
  /\ rng'[t] = rng[t] /\ cached'[t] = cached[t] /\ shown'[t] = shown[t]

LatentsStay == \A d \in Chunks : lat[d] = d => lat'[d] = d

LEMMA Undisturbed ==
  ASSUME cfg' = cfg, LatentsStay, NEW t \in Sessions, SameRuntime(t), SessionInv(t)
  PROVE  SessionInv(t)'
  BY DEF SessionInv, SameRuntime, LatentsStay, Chunks, Computed, AsCold, ColdRing, Slots, Fresh, FreshRing

-----------------------------------------------------------------------------
(* The ring as a cold run has it.                                          *)

LEMMA FreshIsCold ==
  ASSUME cfg \in Configs, NEW s \in Sessions, Fresh(s)
  PROVE  AsCold(s, 0)
<1> USE ConfigFacts
<1>1. 0 * cfg.chunk = 0 /\ 0 * cfg.draws = 0
  OBVIOUS
<1>2. ColdRing(0) = FreshRing
  BY <1>1 DEF ColdRing, FreshRing, Slots
<1> QED BY <1>1, <1>2 DEF AsCold, Fresh

(* Appending chunk m to the ring of m chunks gives the ring of m + 1: the  *)
(* chunk fits, it makes the ring roll, or the ring has rolled already.     *)
LEMMA AppendExact ==
  ASSUME cfg \in Configs, NEW s \in Sessions, NEW m \in Nat, AsCold(s, m)
  PROVE  /\ RingAppend(s, ColdFrames(m)) = ColdRing(m + 1)
         /\ localEnd[s] + cfg.chunk - Rolled(s) =
              (IF (m + 1) * cfg.chunk <= cfg.buf THEN (m + 1) * cfg.chunk ELSE cfg.buf)
         /\ globalEnd[s] + cfg.chunk = (m + 1) * cfg.chunk
         /\ rng[s] + cfg.draws = (m + 1) * cfg.draws
<1> USE ConfigFacts
<1> DEFINE X == m * cfg.chunk
           Y == (m + 1) * cfg.chunk
<1>1. X \in Nat /\ Y = X + cfg.chunk
  BY TimesNext
<1>2. /\ ring[s] = [p \in Slots |-> IF X > cfg.buf
                                    THEN (IF p < cfg.sink THEN p ELSE X - cfg.buf + p)
                                    ELSE IF p < X THEN p ELSE Empty]
      /\ localEnd[s] = (IF X <= cfg.buf THEN X ELSE cfg.buf)
      /\ globalEnd[s] = X
  BY DEF AsCold, ColdRing
<1>3. ColdRing(m + 1) = [p \in Slots |-> IF Y > cfg.buf
                                         THEN (IF p < cfg.sink THEN p ELSE Y - cfg.buf + p)
                                         ELSE IF p < Y THEN p ELSE Empty]
  BY DEF ColdRing
<1>4. \A i \in 0..(cfg.chunk - 1) : ColdFrames(m)[i] = X + i
  BY DEF ColdFrames
<1>5. rng[s] + cfg.draws = (m + 1) * cfg.draws
  BY TimesNext DEF AsCold
<1> HIDE DEF X, Y
<1>6. localEnd[s] + cfg.chunk - Rolled(s) = (IF Y <= cfg.buf THEN Y ELSE cfg.buf)
  BY <1>1, <1>2 DEF Rolled
<1>7. RingAppend(s, ColdFrames(m)) = ColdRing(m + 1)
  <2>1. ASSUME NEW p \in Slots
        PROVE  RingAppend(s, ColdFrames(m))[p] = ColdRing(m + 1)[p]
    <3> p \in Nat /\ p < cfg.buf
      BY DEF Slots
    <3> DEFINE F == ColdFrames(m)
    <3>0. ASSUME NEW r \in Nat, NEW e \in Nat, Rolled(s) = r, localEnd[s] - r = e
          PROVE  RingAppend(s, F)[p] = (IF p >= e /\ p < e + cfg.chunk THEN F[p - e]
                                        ELSE IF p >= cfg.sink /\ p < e THEN ring[s][p + r]
                                        ELSE ring[s][p])
      BY <3>0 DEF RingAppend
    <3>4. \A i \in 0..(cfg.chunk - 1) : F[i] = X + i
      BY <1>4
    <3>5. \A q \in Slots : ring[s][q] = IF X > cfg.buf
                                        THEN (IF q < cfg.sink THEN q ELSE X - cfg.buf + q)
                                        ELSE IF q < X THEN q ELSE Empty
      BY <1>2
    <3>6. ColdRing(m + 1)[p] = IF Y > cfg.buf
                               THEN (IF p < cfg.sink THEN p ELSE Y - cfg.buf + p)
                               ELSE IF p < Y THEN p ELSE Empty
      BY <1>3
    <3> HIDE DEF F
    <3>1. CASE Y <= cfg.buf
      <4>1. Rolled(s) = 0 /\ localEnd[s] - 0 = X
        BY <1>1, <1>2, <3>1 DEF Rolled
      <4>2. RingAppend(s, F)[p] = (IF p >= X /\ p < Y THEN F[p - X] ELSE ring[s][p])
        BY <1>1, <3>0, <3>1, <4>1
      <4> QED BY <1>1, <3>1, <3>4, <3>5, <3>6, <4>2 DEF F
    <3>2. CASE Y > cfg.buf /\ X <= cfg.buf
      <4>1. /\ Rolled(s) = Y - cfg.buf /\ localEnd[s] - (Y - cfg.buf) = cfg.buf - cfg.chunk
            /\ Y - cfg.buf \in Nat /\ cfg.buf - cfg.chunk \in Nat
        BY <1>1, <1>2, <3>2 DEF Rolled
      <4>2. RingAppend(s, F)[p] = (IF p >= cfg.buf - cfg.chunk THEN F[p - (cfg.buf - cfg.chunk)]
                                   ELSE IF p >= cfg.sink THEN ring[s][p + (Y - cfg.buf)]
                                   ELSE ring[s][p])
        BY <3>0, <4>1
      <4>3. CASE p >= cfg.buf - cfg.chunk
        <5>1. p - (cfg.buf - cfg.chunk) \in 0..(cfg.chunk - 1)
          BY <4>3
        <5> QED BY <1>1, <3>2, <3>4, <3>6, <4>2, <4>3, <5>1 DEF F
      <4>4. CASE p < cfg.buf - cfg.chunk
        <5>1. p + (Y - cfg.buf) \in Slots
          BY <1>1, <3>2, <4>4 DEF Slots
        <5> QED BY <1>1, <3>2, <3>5, <3>6, <4>2, <4>4, <5>1 DEF F
      <4> QED BY <4>3, <4>4
    <3>3. CASE X > cfg.buf
      <4>1. /\ Rolled(s) = cfg.chunk /\ localEnd[s] - cfg.chunk = cfg.buf - cfg.chunk
            /\ cfg.buf - cfg.chunk \in Nat
        BY <1>1, <1>2, <3>3 DEF Rolled
      <4>2. RingAppend(s, F)[p] = (IF p >= cfg.buf - cfg.chunk THEN F[p - (cfg.buf - cfg.chunk)]
                                   ELSE IF p >= cfg.sink THEN ring[s][p + cfg.chunk]
                                   ELSE ring[s][p])
        BY <3>0, <4>1
      <4>3. CASE p >= cfg.buf - cfg.chunk
        <5>1. p - (cfg.buf - cfg.chunk) \in 0..(cfg.chunk - 1)
          BY <4>3
        <5> QED BY <1>1, <3>3, <3>4, <3>6, <4>2, <4>3, <5>1 DEF F
      <4>4. CASE p < cfg.buf - cfg.chunk
        <5>1. p + cfg.chunk \in Slots
          BY <4>4 DEF Slots
        <5> QED BY <1>1, <3>3, <3>5, <3>6, <4>2, <4>4, <5>1 DEF F
      <4> QED BY <4>3, <4>4
    <3> QED BY <1>1, <3>1, <3>2, <3>3
  <2> QED BY <2>1 DEF RingAppend, ColdRing
<1> QED BY <1>1, <1>2, <1>5, <1>6, <1>7 DEF Y

(* The tail of that ring is the chunk that was appended last.              *)
LEMMA TailExact ==
  ASSUME cfg \in Configs, NEW s \in Sessions, next[s] \in Nat, AsCold(s, next[s] + 1)
  PROVE  Tail(s) = ColdFrames(next[s])
<1> USE ConfigFacts
<1> DEFINE X == next[s] * cfg.chunk
           Y == (next[s] + 1) * cfg.chunk
<1>1. X \in Nat /\ Y = X + cfg.chunk
  BY TimesNext
<1>2. /\ ring[s] = [p \in Slots |-> IF Y > cfg.buf
                                    THEN (IF p < cfg.sink THEN p ELSE Y - cfg.buf + p)
                                    ELSE IF p < Y THEN p ELSE Empty]
      /\ localEnd[s] = (IF Y <= cfg.buf THEN Y ELSE cfg.buf)
  BY DEF AsCold, ColdRing
<1>3. ColdFrames(next[s]) = [i \in 0..(cfg.chunk - 1) |-> X + i]
  BY DEF ColdFrames
<1> HIDE DEF X, Y
<1>4. ASSUME NEW i \in 0..(cfg.chunk - 1)
      PROVE  ring[s][localEnd[s] - cfg.chunk + i] = X + i
  <2> DEFINE p == localEnd[s] - cfg.chunk + i
  <2>1. p = (IF Y <= cfg.buf THEN X + i ELSE cfg.buf - cfg.chunk + i)
    BY <1>1, <1>2
  <2> HIDE DEF p
  <2>2. p \in Slots
    BY <1>1, <2>1 DEF Slots
  <2>3. ring[s][p] = (IF Y > cfg.buf
                      THEN (IF p < cfg.sink THEN p ELSE Y - cfg.buf + p)
                      ELSE IF p < Y THEN p ELSE Empty)
    BY <1>2, <2>2
  <2> QED BY <1>1, <2>1, <2>3 DEF p
<1> QED BY <1>3, <1>4 DEF Tail

(* Seeding a fresh ring from the blobs of k chunks gives the ring of k.    *)
LEMMA SeedExact ==
  ASSUME IInv, NEW s \in Sessions, ph[s] = "hit", WindowComplete(s), Covered(k[s])
  PROVE  [p \in Slots |-> IF p \in SlotsToSeed(k[s]) THEN Source(FrameToSeed(p, k[s]))
                          ELSE ring[s][p]] = ColdRing(k[s])
<1> USE ConfigFacts
<1> DEFINE X == k[s] * cfg.chunk
<1>1. cfg \in Configs /\ k[s] \in 0..cfg.chunks /\ X \in Nat
  BY TimesNext DEF IInv, TypeOK
<1>2. ASSUME NEW p \in SlotsToSeed(k[s])
      PROVE  Source(FrameToSeed(p, k[s])) = FrameToSeed(p, k[s])
  <2> DEFINE g == FrameToSeed(p, k[s])
  <2>1. g \in Nat /\ g < X
    <3>1. p \in Nat /\ p < cfg.buf /\ p < SeedLength(k[s])
      BY <1>1 DEF SlotsToSeed, Slots
    <3> QED BY <1>1, <3>1 DEF FrameToSeed, SeedLength
  <2>2. g \div cfg.chunk \in WindowPath(k[s])
    BY DEF Covered
  <2> HIDE DEF g, X
  <2>3. g \div cfg.chunk \in Chunks
    BY <1>1, <2>2 DEF WindowPath, Chunks
  <2>4. kv[g \div cfg.chunk] = ColdFrames(g \div cfg.chunk)
    BY <2>2, <2>3 DEF IInv, ChainInv, WindowComplete
  <2>5. Source(g) = (g \div cfg.chunk) * cfg.chunk + (g % cfg.chunk)
    BY <1>1, <2>1, <2>4, DivMod DEF Source, ColdFrames
  <2> QED BY <1>1, <2>1, <2>5, DivMod DEF g
<1>3. \A p \in Slots : ring[s][p] = Empty
  BY DEF IInv, SessionInv, Fresh, FreshRing, Slots
<1>4. \A p \in Slots : (IF p \in SlotsToSeed(k[s]) THEN FrameToSeed(p, k[s]) ELSE Empty)
                       = ColdRing(k[s])[p]
  <2>1. /\ ColdRing(k[s]) = [p \in Slots |-> IF X > cfg.buf
                               THEN (IF p < cfg.sink THEN p ELSE X - cfg.buf + p)
                               ELSE IF p < X THEN p ELSE Empty]
        /\ \A p : FrameToSeed(p, k[s]) = IF X <= cfg.buf \/ p < cfg.sink THEN p
                                         ELSE X - (cfg.buf - cfg.sink) + (p - cfg.sink)
        /\ SeedLength(k[s]) = IF X <= cfg.buf THEN X ELSE cfg.buf
    BY DEF ColdRing, FrameToSeed, SeedLength
  <2> HIDE DEF X
  <2> QED BY <1>1, <2>1 DEF SlotsToSeed, Slots
<1> QED BY <1>2, <1>3, <1>4 DEF ColdRing

-----------------------------------------------------------------------------
(* One lemma per operation.                                                *)

LEMMA InitInv == Init => IInv
<1> SUFFICES ASSUME Init PROVE IInv
  OBVIOUS
<1> USE ConfigFacts
<1>1. cfg \in Configs
  BY DEF Init
<1>2. TypeOK
  BY <1>1 DEF Init, TypeOK, FreshRing, Slots, Content
<1>3. ChainInv
  BY DEF Init, ChainInv
<1>4. ASSUME NEW s \in Sessions PROVE SessionInv(s)
  BY <1>1 DEF Init, SessionInv, Fresh, Chunks
<1> QED BY <1>2, <1>3, <1>4 DEF IInv

(* The sessions other than s, when a step of s leaves the latents.         *)
LEMMA OthersInv ==
  ASSUME IInv, cfg' = cfg, LatentsStay, NEW s \in Sessions, SessionInv(s)',
         \A t \in Sessions \ {s} : SameRuntime(t)
  PROVE  \A t \in Sessions : SessionInv(t)'
  BY Undisturbed DEF IInv

LEMMA GoneInv ==
  ASSUME IInv, cfg' = cfg, NEW s \in Sessions, Gone(s)
  PROVE  /\ SessionInv(s)'
         /\ \A t \in Sessions \ {s} : SameRuntime(t)
         /\ ph' \in [Sessions -> {"off", "hit", "run", "rewritten"}]
         /\ ingests' \in [Sessions -> BOOLEAN]
         /\ k' \in [Sessions -> 0..cfg.chunks]
         /\ next' \in [Sessions -> 0..cfg.chunks]
         /\ ring' \in [Sessions -> [Slots -> Content]]
         /\ localEnd' \in [Sessions -> 0..cfg.buf]
         /\ globalEnd' \in [Sessions -> Nat]
         /\ rng' \in [Sessions -> Nat]
         /\ cached' \in [Sessions -> [Chunks -> Chunks \cup {Empty, Wrong}]]
         /\ shown' \in [Sessions -> [Chunks -> Chunks \cup {Empty, Wrong}]]
<1>0. cfg \in Configs /\ TypeOK
  BY DEF IInv, TypeOK
<1> USE ConfigFacts, <1>0
<1>1. /\ ph'[s] = "off" /\ k'[s] = 0 /\ next'[s] = 0 /\ ring'[s] = FreshRing
      /\ localEnd'[s] = 0 /\ globalEnd'[s] = 0 /\ rng'[s] = 0
      /\ shown'[s] = [d \in Chunks |-> Empty]
  BY DEF Gone, TypeOK
<1>2. SessionInv(s)'
  BY <1>1 DEF SessionInv, Fresh, FreshRing, Chunks
<1>3. \A t \in Sessions \ {s} : SameRuntime(t)
  BY DEF Gone, TypeOK, SameRuntime
<1>4. FreshRing \in [Slots -> Content] /\ 0 \in 0..cfg.chunks /\ 0 \in 0..cfg.buf
      /\ [d \in Chunks |-> Empty] \in [Chunks -> Chunks \cup {Empty, Wrong}]
  BY DEF FreshRing, Slots, Content
<1>5. /\ ph' \in [Sessions -> {"off", "hit", "run", "rewritten"}]
      /\ ingests' \in [Sessions -> BOOLEAN]
      /\ k' \in [Sessions -> 0..cfg.chunks]
      /\ next' \in [Sessions -> 0..cfg.chunks]
      /\ ring' \in [Sessions -> [Slots -> Content]]
      /\ localEnd' \in [Sessions -> 0..cfg.buf]
      /\ globalEnd' \in [Sessions -> Nat]
      /\ rng' \in [Sessions -> Nat]
      /\ cached' \in [Sessions -> [Chunks -> Chunks \cup {Empty, Wrong}]]
      /\ shown' \in [Sessions -> [Chunks -> Chunks \cup {Empty, Wrong}]]
  BY <1>4 DEF Gone, TypeOK
<1> QED BY <1>2, <1>3, <1>5

LEMMA CreateRuntimeStep ==
  ASSUME IInv, NEW s \in Sessions, NEW m \in 0..cfg.chunks, NEW i \in BOOLEAN,
         CreateRuntime(s, m, i)
  PROVE  IInv'
<1>0. cfg \in Configs /\ TypeOK /\ SessionInv(s) /\ ChainInv /\ cfg' = cfg
  BY DEF IInv, TypeOK, CreateRuntime
<1> USE ConfigFacts, <1>0
<1>1. TypeOK'
  BY DEF TypeOK, CreateRuntime, runtimeVars, Chunks, Slots, Content, Frames
<1>2. ChainInv'
  BY DEF ChainInv, CreateRuntime, Chunks, ColdFrames
<1>3. Fresh(s) /\ Fresh(s)' /\ k[s] = 0
  BY DEF SessionInv, CreateRuntime, runtimeVars, Fresh, FreshRing
<1>4. SessionInv(s)'
  <2>1. CASE m = 0 \/ m < cfg.breakEven
    <3>1. ph'[s] = "run" /\ k'[s] = 0 /\ next'[s] = 0 /\ Computed(s)' = 0
      BY <1>3, <2>1 DEF CreateRuntime, TypeOK, Fresh, Computed
    <3>2. AsCold(s, 0)'
      BY <1>3, FreshIsCold DEF CreateRuntime, runtimeVars, AsCold, ColdRing, Slots
    <3>3. AsCold(s, Computed(s))'
      BY <3>1, <3>2 DEF AsCold, ColdRing, Slots
    <3> QED BY <1>3, <3>1, <3>3 DEF SessionInv, CreateRuntime, runtimeVars, Chunks, Fresh
  <2>2. CASE ~(m = 0 \/ m < cfg.breakEven)
    <3>1. ph'[s] = "hit" /\ k'[s] = m
      BY <2>2 DEF CreateRuntime, TypeOK
    <3>2. \A d \in Chunks : d < m => lat'[d] = d
      BY DEF CreateRuntime, Longest, Matches, ChainInv, Chunks
    <3> QED BY <1>3, <3>1, <3>2 DEF SessionInv, CreateRuntime, runtimeVars, Chunks, Fresh
  <2> QED BY <2>1, <2>2
<1>5. \A t \in Sessions \ {s} : SameRuntime(t)
  BY DEF SameRuntime, CreateRuntime, runtimeVars, TypeOK
<1>6. LatentsStay
  BY DEF LatentsStay, CreateRuntime
<1> QED BY <1>1, <1>2, <1>4, <1>5, <1>6, OthersInv DEF IInv

LEMMA FallBackStep ==
  ASSUME IInv, NEW s \in Sessions, FallBack(s)
  PROVE  IInv'
<1>0. cfg \in Configs /\ TypeOK /\ SessionInv(s) /\ ChainInv /\ cfg' = cfg
  BY DEF IInv, TypeOK, FallBack
<1> USE ConfigFacts, <1>0
<1>1. TypeOK'
  <2>1. 0 \in 0..cfg.chunks
    OBVIOUS
  <2>2. k' \in [Sessions -> 0..cfg.chunks] /\ ph' \in [Sessions -> {"off", "hit", "run", "rewritten"}]
    BY <2>1 DEF TypeOK, FallBack
  <2> QED BY <2>2 DEF TypeOK, FallBack, runtimeVars, Chunks, Slots, Content, Frames
<1>2. ChainInv'
  BY DEF ChainInv, FallBack, Chunks, ColdFrames
<1>3. Fresh(s) /\ ph'[s] = "run" /\ k'[s] = 0 /\ next'[s] = 0 /\ Computed(s)' = 0
  BY DEF SessionInv, FallBack, runtimeVars, Fresh, TypeOK, Computed
<1>4. AsCold(s, Computed(s))'
  BY <1>3, FreshIsCold DEF FallBack, runtimeVars, AsCold, ColdRing, Slots
<1>5. SessionInv(s)'
  BY <1>3, <1>4 DEF SessionInv, FallBack, runtimeVars, Chunks, Fresh
<1>6. \A t \in Sessions \ {s} : SameRuntime(t)
  BY DEF SameRuntime, FallBack, runtimeVars, TypeOK
<1>7. LatentsStay
  BY DEF LatentsStay, FallBack
<1> QED BY <1>1, <1>2, <1>5, <1>6, <1>7, OthersInv DEF IInv

LEMMA GoneStep ==
  ASSUME IInv, NEW s \in Sessions, SeedRaises(s) \/ EndSession(s)
  PROVE  IInv'
<1>0. cfg \in Configs /\ TypeOK /\ ChainInv /\ cfg' = cfg /\ kv' = kv /\ lat' = lat /\ Gone(s)
  BY DEF IInv, TypeOK, SeedRaises, EndSession
<1> USE <1>0
<1>1. TypeOK'
  BY GoneInv DEF TypeOK, Chunks, Slots, Content, Frames
<1>2. ChainInv'
  BY DEF ChainInv, Chunks, ColdFrames
<1>3. LatentsStay
  BY DEF LatentsStay
<1> QED BY <1>1, <1>2, <1>3, GoneInv, OthersInv DEF IInv

LEMMA ResumeStep ==
  ASSUME IInv, NEW s \in Sessions, Resume(s)
  PROVE  IInv'
<1>0. cfg \in Configs /\ TypeOK /\ SessionInv(s) /\ ChainInv /\ cfg' = cfg
  BY DEF IInv, TypeOK, Resume
<1> USE ConfigFacts, <1>0
<1>1. /\ k[s] \in 0..cfg.chunks /\ k[s] * cfg.chunk \in Nat /\ k[s] * cfg.draws \in Nat
      /\ k[s] * cfg.chunk <= cfg.chunks * cfg.chunk
  <2>1. k[s] \in 0..cfg.chunks
    BY DEF TypeOK
  <2> QED BY <2>1, TimesNext, TimesMono
<1>2. Fresh(s) /\ \A d \in Chunks : d < k[s] => lat[d] = d
  BY DEF Resume, SessionInv
<1>3. /\ ph' = [ph EXCEPT ![s] = "run"]
      /\ ring' = [ring EXCEPT ![s] = ColdRing(k[s])]
      /\ localEnd' = [localEnd EXCEPT ![s] = SeedLength(k[s])]
      /\ globalEnd' = [globalEnd EXCEPT ![s] = k[s] * cfg.chunk]
      /\ rng' = [rng EXCEPT ![s] = k[s] * cfg.draws]
      /\ cached' = [cached EXCEPT ![s] = [d \in Chunks |-> IF d < k[s] THEN lat[d] ELSE Empty]]
      /\ UNCHANGED <<kv, lat, ingests, k, next, shown>>
  <2>1. ring' = [ring EXCEPT ![s] = ColdRing(k[s])]
    BY SeedExact DEF Resume, TypeOK
  <2>2. rng' = [rng EXCEPT ![s] = k[s] * cfg.draws]
    <3>1. rng[s] + k[s] * cfg.draws = k[s] * cfg.draws
      BY <1>1, <1>2 DEF Fresh
    <3> QED BY <3>1 DEF Resume
  <2> QED BY <2>1, <2>2 DEF Resume
<1>4. ColdRing(k[s]) \in [Slots -> Content] /\ SeedLength(k[s]) \in 0..cfg.buf
  <2> DEFINE X == k[s] * cfg.chunk
             Z == cfg.chunks * cfg.chunk
  <2>1. ColdRing(k[s]) = [p \in Slots |-> IF X > cfg.buf
                             THEN (IF p < cfg.sink THEN p ELSE X - cfg.buf + p)
                             ELSE IF p < X THEN p ELSE Empty]
    BY DEF ColdRing
  <2>2. SeedLength(k[s]) = (IF X <= cfg.buf THEN X ELSE cfg.buf)
    BY DEF SeedLength
  <2>3. Frames = 0..(Z - 1) /\ Z \in Nat
    BY TimesNext DEF Frames
  <2>4. X \in Nat /\ X <= Z
    BY <1>1
  <2> HIDE DEF X, Z
  <2> QED BY <2>1, <2>2, <2>3, <2>4, SMTT(40) DEF Slots, Content
<1>5. TypeOK'
  BY <1>1, <1>3, <1>4 DEF TypeOK, Chunks, Slots, Content, Frames
<1>6. ChainInv'
  BY <1>3 DEF ChainInv, Chunks, ColdFrames
<1>7. SessionInv(s)'
  <2>1. /\ ph'[s] = "run" /\ k'[s] = k[s] /\ next'[s] = 0 /\ Computed(s)' = k[s]
        /\ ring'[s] = ColdRing(k[s]) /\ localEnd'[s] = SeedLength(k[s])
        /\ globalEnd'[s] = k[s] * cfg.chunk /\ rng'[s] = k[s] * cfg.draws
        /\ shown'[s] = shown[s] /\ next[s] = 0
        /\ cached'[s] = [d \in Chunks |-> IF d < k[s] THEN lat[d] ELSE Empty]
    BY <1>1, <1>2, <1>3 DEF TypeOK, Fresh, Computed
  <2>2. AsCold(s, Computed(s))'
    BY <2>1 DEF AsCold, ColdRing, Slots, SeedLength
  <2>3. ph[s] = "hit"
    BY DEF Resume
  <2> QED BY <1>2, <2>1, <2>2, <2>3 DEF SessionInv, Chunks
<1>8. \A t \in Sessions \ {s} : SameRuntime(t)
  BY <1>3 DEF SameRuntime, TypeOK
<1>9. LatentsStay
  BY <1>3 DEF LatentsStay
<1> QED BY <1>5, <1>6, <1>7, <1>8, <1>9, OthersInv DEF IInv

LEMMA DecodeCachedStep ==
  ASSUME IInv, NEW s \in Sessions, DecodeCached(s)
  PROVE  IInv'
<1>0. cfg \in Configs /\ TypeOK /\ SessionInv(s) /\ ChainInv /\ cfg' = cfg
  BY DEF IInv, TypeOK, DecodeCached
<1> USE ConfigFacts, <1>0
<1>1. /\ ph[s] = "run" /\ next[s] \in Nat /\ next[s] < k[s] /\ k[s] \in 0..cfg.chunks
      /\ next[s] \in Chunks /\ next[s] + 1 \in 0..cfg.chunks
  BY SMTT(40) DEF DecodeCached, TypeOK, Chunks
<1>2. /\ shown' = [shown EXCEPT ![s] = [shown[s] EXCEPT ![next[s]] = next[s]]]
      /\ next' = [next EXCEPT ![s] = next[s] + 1]
      /\ UNCHANGED <<kv, lat, ph, ingests, k, ring, localEnd, globalEnd, rng, cached>>
  <2>1. cached[s][next[s]] = next[s]
    BY <1>1 DEF SessionInv
  <2> QED BY <1>1, <2>1 DEF DecodeCached, TypeOK
<1>3. TypeOK'
  <2>1. shown' \in [Sessions -> [Chunks -> Chunks \cup {Empty, Wrong}]]
    BY <1>1, <1>2 DEF TypeOK
  <2>2. next' \in [Sessions -> 0..cfg.chunks]
    BY <1>1, <1>2 DEF TypeOK
  <2> QED BY <1>2, <2>1, <2>2 DEF TypeOK, Chunks, Slots, Content, Frames
<1>4. ChainInv'
  BY <1>2 DEF ChainInv, Chunks, ColdFrames
<1>5. SessionInv(s)'
  <2>1. /\ ph'[s] = "run" /\ k'[s] = k[s] /\ next'[s] = next[s] + 1 /\ cached'[s] = cached[s]
        /\ shown'[s] = [shown[s] EXCEPT ![next[s]] = next[s]]
    BY <1>1, <1>2 DEF TypeOK
  <2>2. Computed(s)' = Computed(s)
    BY <1>1, <2>1 DEF Computed
  <2>3. AsCold(s, Computed(s))'
    BY <1>1, <1>2, <2>2 DEF SessionInv, AsCold, ColdRing, Slots
  <2>4. \A d \in Chunks : shown'[s][d] = IF d < next'[s] THEN d ELSE Empty
    BY <1>1, <2>1, SMTT(40) DEF SessionInv, TypeOK, Chunks
  <2> QED BY <1>1, <2>1, <2>3, <2>4 DEF SessionInv, Chunks
<1>6. \A t \in Sessions \ {s} : SameRuntime(t)
  BY <1>2 DEF SameRuntime, TypeOK
<1>7. LatentsStay
  BY <1>2 DEF LatentsStay
<1> QED BY <1>3, <1>4, <1>5, <1>6, <1>7, OthersInv DEF IInv

(* Whatever the engine computes keeps the frames of the ring in range.     *)
LEMMA ColdType ==
  ASSUME cfg \in Configs, NEW m \in 0..cfg.chunks
  PROVE  /\ ColdRing(m) \in [Slots -> Content]
         /\ (IF m * cfg.chunk <= cfg.buf THEN m * cfg.chunk ELSE cfg.buf) \in 0..cfg.buf
         /\ m * cfg.chunk \in Nat /\ m * cfg.draws \in Nat
<1> USE ConfigFacts
<1> DEFINE X == m * cfg.chunk
           Z == cfg.chunks * cfg.chunk
<1>1. ColdRing(m) = [p \in Slots |-> IF X > cfg.buf
                           THEN (IF p < cfg.sink THEN p ELSE X - cfg.buf + p)
                           ELSE IF p < X THEN p ELSE Empty]
  BY DEF ColdRing
<1>2. Frames = 0..(Z - 1) /\ Z \in Nat
  BY TimesNext DEF Frames
<1>3. X \in Nat /\ X <= Z /\ m * cfg.draws \in Nat
  BY TimesNext, TimesMono
<1> HIDE DEF X, Z
<1>4. ColdRing(m) \in [Slots -> Content]
  <2>1. ASSUME NEW p \in Slots
        PROVE  (IF X > cfg.buf THEN (IF p < cfg.sink THEN p ELSE X - cfg.buf + p)
                ELSE IF p < X THEN p ELSE Empty) \in Content
    <3>1. p \in Nat /\ p < cfg.buf
      BY DEF Slots
    <3> QED BY <1>2, <1>3, <3>1, SMTT(40) DEF Content
  <2> QED BY <1>1, <2>1
<1>5. (IF X <= cfg.buf THEN X ELSE cfg.buf) \in 0..cfg.buf
  BY <1>3
<1> QED BY <1>3, <1>4, <1>5 DEF X

LEMMA GenerateStep ==
  ASSUME IInv, NEW s \in Sessions, Generate(s)
  PROVE  IInv'
<1>0. cfg \in Configs /\ TypeOK /\ SessionInv(s) /\ ChainInv /\ cfg' = cfg
  BY DEF IInv, TypeOK, Generate
<1> USE ConfigFacts, <1>0
<1> DEFINE m == next[s]
           end == IF (m + 1) * cfg.chunk <= cfg.buf THEN (m + 1) * cfg.chunk ELSE cfg.buf
<1>1. ph[s] = "run" /\ m \in Chunks /\ k[s] <= m /\ m \in Nat /\ m + 1 \in 0..cfg.chunks
      /\ k[s] \in Nat
  <2>1. ph[s] = "run" /\ k[s] <= m /\ m < cfg.chunks
    BY DEF Generate
  <2>2. m \in 0..cfg.chunks /\ k[s] \in 0..cfg.chunks
    BY DEF TypeOK
  <2> QED BY <2>1, <2>2 DEF Chunks
<1>2. AsCold(s, m)
  <2>1. Computed(s) = m
    BY <1>1 DEF Computed
  <2> QED BY <1>1, <2>1 DEF SessionInv
<1>3. /\ RingAppend(s, ColdFrames(m)) = ColdRing(m + 1)
      /\ localEnd[s] + cfg.chunk - Rolled(s) = end
      /\ globalEnd[s] + cfg.chunk = (m + 1) * cfg.chunk
      /\ rng[s] + cfg.draws = (m + 1) * cfg.draws
  BY <1>1, <1>2, AppendExact
<1>4. /\ ph' = [ph EXCEPT ![s] = "rewritten"]
      /\ ring' = [ring EXCEPT ![s] = ColdRing(m + 1)]
      /\ localEnd' = [localEnd EXCEPT ![s] = end]
      /\ globalEnd' = [globalEnd EXCEPT ![s] = (m + 1) * cfg.chunk]
      /\ rng' = [rng EXCEPT ![s] = (m + 1) * cfg.draws]
      /\ shown' = [shown EXCEPT ![s] = [shown[s] EXCEPT ![m] = m]]
      /\ UNCHANGED <<kv, lat, ingests, k, next, cached>>
  <2>1. [i \in 0..(cfg.chunk - 1) |-> IF AsCold(s, next[s]) THEN next[s] * cfg.chunk + i ELSE Wrong]
        = ColdFrames(m)
    BY <1>2 DEF ColdFrames
  <2>2. ring' = [ring EXCEPT ![s] = RingAppend(s, ColdFrames(m))]
    BY <2>1 DEF Generate
  <2>3. /\ localEnd' = [localEnd EXCEPT ![s] = localEnd[s] + cfg.chunk - Rolled(s)]
        /\ globalEnd' = [globalEnd EXCEPT ![s] = globalEnd[s] + cfg.chunk]
        /\ rng' = [rng EXCEPT ![s] = rng[s] + cfg.draws]
    BY DEF Generate
  <2>4. shown' = [shown EXCEPT ![s] = [shown[s] EXCEPT ![m] = m]]
    BY <1>2 DEF Generate, TypeOK
  <2> QED BY <1>3, <2>2, <2>3, <2>4 DEF Generate
<1>5. /\ ColdRing(m + 1) \in [Slots -> Content] /\ end \in 0..cfg.buf
      /\ (m + 1) * cfg.chunk \in Nat /\ (m + 1) * cfg.draws \in Nat
  BY <1>1, ColdType
<1> HIDE DEF end
<1>6. TypeOK'
  <2>1. /\ ring' \in [Sessions -> [Slots -> Content]]
        /\ localEnd' \in [Sessions -> 0..cfg.buf]
        /\ globalEnd' \in [Sessions -> Nat]
        /\ rng' \in [Sessions -> Nat]
    BY <1>4, <1>5 DEF TypeOK
  <2>2. /\ ph' \in [Sessions -> {"off", "hit", "run", "rewritten"}]
        /\ shown' \in [Sessions -> [Chunks -> Chunks \cup {Empty, Wrong}]]
    BY <1>1, <1>4 DEF TypeOK
  <2> QED BY <1>4, <2>1, <2>2 DEF TypeOK, Chunks, Slots, Content, Frames
<1>7. ChainInv'
  BY <1>4 DEF ChainInv, Chunks, ColdFrames
<1>8. SessionInv(s)'
  <2>1. /\ ph'[s] = "rewritten" /\ k'[s] = k[s] /\ next'[s] = m /\ Computed(s)' = m + 1
        /\ ring'[s] = ColdRing(m + 1) /\ localEnd'[s] = end
        /\ globalEnd'[s] = (m + 1) * cfg.chunk /\ rng'[s] = (m + 1) * cfg.draws
        /\ shown'[s] = [shown[s] EXCEPT ![m] = m]
    BY <1>1, <1>4 DEF TypeOK, Computed
  <2>2. AsCold(s, Computed(s))'
    BY <2>1 DEF AsCold, ColdRing, Slots, end
  <2>3. \A d \in Chunks : shown'[s][d] = IF d < m \/ d = m THEN d ELSE Empty
    BY <1>1, <2>1 DEF SessionInv, TypeOK, Chunks
  <2> QED BY <1>1, <2>1, <2>2, <2>3 DEF SessionInv, Chunks
<1>9. \A t \in Sessions \ {s} : SameRuntime(t)
  BY <1>4 DEF SameRuntime, TypeOK
<1>10. LatentsStay
  BY <1>4 DEF LatentsStay
<1> QED BY <1>6, <1>7, <1>8, <1>9, <1>10, OthersInv DEF IInv

(* What a finalized chunk leaves in its session.                           *)
LEMMA ChunkDoneInv ==
  ASSUME IInv, NEW s \in Sessions, ph[s] = "rewritten", ChunkDone(s)
  PROVE  /\ SessionInv(s)'
         /\ \A t \in Sessions \ {s} : SameRuntime(t)
         /\ ph' \in [Sessions -> {"off", "hit", "run", "rewritten"}]
         /\ next' \in [Sessions -> 0..cfg.chunks]
<1>0. cfg \in Configs /\ TypeOK /\ SessionInv(s) /\ cfg' = cfg
  BY DEF IInv, TypeOK, ChunkDone
<1> USE ConfigFacts, <1>0
<1>1. next[s] \in Nat /\ k[s] \in Nat /\ k[s] <= next[s] /\ next[s] < cfg.chunks
  BY DEF SessionInv, TypeOK
<1>2. /\ ph'[s] = "run" /\ next'[s] = next[s] + 1 /\ k'[s] = k[s] /\ shown'[s] = shown[s]
      /\ UNCHANGED <<ring, localEnd, globalEnd, rng>>
  BY DEF ChunkDone, runtimeVars, TypeOK
<1>3. Computed(s) = next[s] + 1 /\ Computed(s)' = next[s] + 1
  BY <1>1, <1>2 DEF Computed
<1>4. AsCold(s, Computed(s))'
  BY <1>2, <1>3 DEF SessionInv, AsCold, ColdRing, Slots
<1>5. SessionInv(s)'
  BY <1>1, <1>2, <1>4 DEF SessionInv, Chunks
<1>6. \A t \in Sessions \ {s} : SameRuntime(t)
  BY DEF SameRuntime, ChunkDone, runtimeVars, TypeOK
<1>7. next[s] + 1 \in 0..cfg.chunks
  BY <1>1
<1>8. /\ ph' \in [Sessions -> {"off", "hit", "run", "rewritten"}]
      /\ next' \in [Sessions -> 0..cfg.chunks]
  BY <1>7 DEF ChunkDone, TypeOK
<1> QED BY <1>5, <1>6, <1>8

(* The blob and the latent a session stores are those of a cold run.       *)
LEMMA StoredExact ==
  ASSUME IInv, NEW s \in Sessions, ph[s] = "rewritten"
  PROVE  /\ next[s] \in Chunks
         /\ Tail(s) = ColdFrames(next[s]) /\ shown[s][next[s]] = next[s]
         /\ ColdFrames(next[s]) \in [0..(cfg.chunk - 1) -> Content]
<1>0. cfg \in Configs /\ TypeOK /\ SessionInv(s)
  BY DEF IInv, TypeOK
<1> USE ConfigFacts, <1>0
<1>1. next[s] \in Nat /\ next[s] < cfg.chunks /\ next[s] \in Chunks
  BY DEF SessionInv, TypeOK, Chunks
<1>2. Tail(s) = ColdFrames(next[s])
  <2>1. AsCold(s, next[s] + 1)
    BY DEF SessionInv, Computed
  <2> QED BY <1>1, <2>1, TailExact
<1>3. ColdFrames(next[s]) \in [0..(cfg.chunk - 1) -> Content]
  <2> DEFINE X == next[s] * cfg.chunk
             Z == cfg.chunks * cfg.chunk
  <2>1. X \in Nat /\ X + cfg.chunk <= Z /\ Z \in Nat
    <3>1. (next[s] + 1) * cfg.chunk <= cfg.chunks * cfg.chunk
      BY <1>1, TimesMono
    <3> QED BY <1>1, <3>1, TimesNext
  <2>2. ColdFrames(next[s]) = [i \in 0..(cfg.chunk - 1) |-> X + i] /\ Frames = 0..(Z - 1)
    BY DEF ColdFrames, Frames
  <2> HIDE DEF X, Z
  <2> QED BY <2>1, <2>2, SMTT(40) DEF Content
<1> QED BY <1>1, <1>2, <1>3 DEF SessionInv

LEMMA FinalizeStep ==
  ASSUME IInv, NEW s \in Sessions, Finalize(s) \/ FinalizeDisabled(s)
  PROVE  IInv'
<1>0. cfg \in Configs /\ TypeOK /\ ChainInv /\ ph[s] = "rewritten" /\ ChunkDone(s) /\ cfg' = cfg
  BY DEF IInv, TypeOK, Finalize, FinalizeDisabled, ChunkDone
<1> USE ConfigFacts, <1>0
<1>1. \/ UNCHANGED <<kv, lat>>
      \/ /\ kv' = [kv EXCEPT ![next[s]] = ColdFrames(next[s])]
         /\ lat' = [lat EXCEPT ![next[s]] = next[s]]
  BY StoredExact DEF Finalize, FinalizeDisabled
<1>2. /\ kv' \in [Chunks -> [0..(cfg.chunk - 1) -> Content] \cup {Empty}]
      /\ lat' \in [Chunks -> Chunks \cup {Empty, Wrong}]
  <2>1. /\ kv \in [Chunks -> [0..(cfg.chunk - 1) -> Content] \cup {Empty}]
        /\ lat \in [Chunks -> Chunks \cup {Empty, Wrong}]
        /\ next[s] \in Chunks /\ ColdFrames(next[s]) \in [0..(cfg.chunk - 1) -> Content]
    BY StoredExact DEF TypeOK
  <2> DEFINE Blobs == [0..(cfg.chunk - 1) -> Content]
             F == ColdFrames(next[s])
  <2>2. F \in Blobs
    BY <2>1
  <2> HIDE DEF Blobs, F
  <2>3. kv' \in [Chunks -> Blobs \cup {Empty}]
    BY <1>1, <2>1, <2>2 DEF Blobs, F
  <2> QED BY <1>1, <2>1, <2>3 DEF Blobs
<1>3. TypeOK'
  BY <1>2, ChunkDoneInv DEF TypeOK, ChunkDone, runtimeVars, Chunks, Slots, Content, Frames
<1>4. ChainInv' /\ LatentsStay
  <2>1. /\ DOMAIN kv = Chunks /\ DOMAIN lat = Chunks /\ next[s] \in Chunks
        /\ Chunks' = Chunks /\ \A d : ColdFrames(d)' = ColdFrames(d)
    BY StoredExact DEF TypeOK, Chunks, ColdFrames
  <2>2. \A d \in Chunks \ {next[s]} : kv'[d] = kv[d] /\ lat'[d] = lat[d]
    BY <1>1, <2>1
  <2>3. kv'[next[s]] # Empty => kv'[next[s]] = ColdFrames(next[s])
    BY <1>1, <2>1 DEF ChainInv
  <2>4. /\ lat[next[s]] = next[s] => lat'[next[s]] = next[s]
        /\ kv'[next[s]] # Empty => lat'[next[s]] = next[s]
        /\ lat'[next[s]] \in {next[s], Empty}
    BY <1>1, <2>1 DEF ChainInv
  <2>5. LatentsStay
    BY <2>2, <2>4 DEF LatentsStay
  <2>6. ASSUME NEW d \in Chunks
        PROVE  /\ kv'[d] # Empty => kv'[d] = ColdFrames(d)
               /\ kv'[d] # Empty => lat'[d] = d
               /\ lat'[d] \in {d, Empty}
    BY <2>2, <2>3, <2>4 DEF ChainInv
  <2> QED BY <2>1, <2>5, <2>6 DEF ChainInv
<1> QED BY <1>3, <1>4, ChunkDoneInv, OthersInv DEF IInv

LEMMA FinalizeRaisesStep ==
  ASSUME IInv, NEW s \in Sessions, FinalizeRaises(s)
  PROVE  IInv'
<1>0. cfg \in Configs /\ TypeOK /\ ChainInv /\ ph[s] = "rewritten" /\ Gone(s) /\ cfg' = cfg
  BY DEF IInv, TypeOK, FinalizeRaises
<1> USE ConfigFacts, <1>0
<1>1. \/ UNCHANGED <<kv, lat>>
      \/ /\ kv' = [kv EXCEPT ![next[s]] = Empty]
         /\ lat' = [lat EXCEPT ![next[s]] = next[s]]
  BY StoredExact DEF FinalizeRaises
<1>2. /\ kv' \in [Chunks -> [0..(cfg.chunk - 1) -> Content] \cup {Empty}]
      /\ lat' \in [Chunks -> Chunks \cup {Empty, Wrong}]
  <2>1. /\ kv \in [Chunks -> [0..(cfg.chunk - 1) -> Content] \cup {Empty}]
        /\ lat \in [Chunks -> Chunks \cup {Empty, Wrong}]
        /\ next[s] \in Chunks /\ ColdFrames(next[s]) \in [0..(cfg.chunk - 1) -> Content]
    BY StoredExact DEF TypeOK
  <2> DEFINE Blobs == [0..(cfg.chunk - 1) -> Content]
             F == ColdFrames(next[s])
  <2>2. F \in Blobs
    BY <2>1
  <2> HIDE DEF Blobs, F
  <2>3. kv' \in [Chunks -> Blobs \cup {Empty}]
    BY <1>1, <2>1, <2>2 DEF Blobs, F
  <2> QED BY <1>1, <2>1, <2>3 DEF Blobs
<1>3. TypeOK'
  BY <1>2, GoneInv DEF TypeOK, Chunks, Slots, Content, Frames
<1>4. ChainInv' /\ LatentsStay
  <2>1. /\ DOMAIN kv = Chunks /\ DOMAIN lat = Chunks /\ next[s] \in Chunks
        /\ Chunks' = Chunks /\ \A d : ColdFrames(d)' = ColdFrames(d)
    BY StoredExact DEF TypeOK, Chunks, ColdFrames
  <2>2. \A d \in Chunks \ {next[s]} : kv'[d] = kv[d] /\ lat'[d] = lat[d]
    BY <1>1, <2>1
  <2>3. kv'[next[s]] # Empty => kv'[next[s]] = ColdFrames(next[s])
    BY <1>1, <2>1 DEF ChainInv
  <2>4. /\ lat[next[s]] = next[s] => lat'[next[s]] = next[s]
        /\ kv'[next[s]] # Empty => lat'[next[s]] = next[s]
        /\ lat'[next[s]] \in {next[s], Empty}
    BY <1>1, <2>1 DEF ChainInv
  <2>5. LatentsStay
    BY <2>2, <2>4 DEF LatentsStay
  <2>6. ASSUME NEW d \in Chunks
        PROVE  /\ kv'[d] # Empty => kv'[d] = ColdFrames(d)
               /\ kv'[d] # Empty => lat'[d] = d
               /\ lat'[d] \in {d, Empty}
    BY <2>2, <2>3, <2>4 DEF ChainInv
  <2> QED BY <2>1, <2>5, <2>6 DEF ChainInv
<1> QED BY <1>3, <1>4, GoneInv, OthersInv DEF IInv

LEMMA EvictStep ==
  ASSUME IInv, NEW d \in Chunks, Evict(d)
  PROVE  IInv'
<1>0. cfg \in Configs /\ TypeOK /\ ChainInv /\ cfg' = cfg
  BY DEF IInv, TypeOK, Evict
<1> USE ConfigFacts, <1>0
<1>1. TypeOK'
  BY DEF Evict, TypeOK, runtimeVars, Chunks, Slots, Content, Frames
<1>2. ChainInv' /\ LatentsStay
  BY DEF Evict, TypeOK, ChainInv, Chunks, ColdFrames, LatentsStay
<1>3. \A t \in Sessions : SameRuntime(t)
  BY DEF Evict, SameRuntime, runtimeVars
<1> QED BY <1>1, <1>2, <1>3, Undisturbed DEF IInv

LEMMA StutterStep ==
  ASSUME IInv, UNCHANGED vars
  PROVE  IInv'
<1>1. TypeOK'
  BY DEF IInv, vars, TypeOK, runtimeVars, Chunks, Slots, Content, Frames
<1>2. ChainInv' /\ LatentsStay
  BY DEF IInv, vars, ChainInv, Chunks, ColdFrames, LatentsStay
<1>3. (\A t \in Sessions : SameRuntime(t)) /\ cfg' = cfg
  BY DEF vars, SameRuntime, runtimeVars
<1> QED BY <1>1, <1>2, <1>3, Undisturbed DEF IInv

LEMMA NextInv == IInv /\ [Next]_vars => IInv'
<1> SUFFICES ASSUME IInv, [Next]_vars PROVE IInv'
  OBVIOUS
<1>1. ASSUME NEW s \in Sessions, SessionStep(s) PROVE IInv'
  BY <1>1, FallBackStep, GoneStep, ResumeStep, DecodeCachedStep, GenerateStep, FinalizeStep,
     FinalizeRaisesStep DEF SessionStep
<1>2. ASSUME NEW s \in Sessions, NEW m \in 0..cfg.chunks, NEW i \in BOOLEAN, CreateRuntime(s, m, i)
      PROVE  IInv'
  BY <1>2, CreateRuntimeStep
<1>3. ASSUME NEW d \in Chunks, Evict(d) PROVE IInv'
  BY <1>3, EvictStep
<1>4. CASE UNCHANGED vars
  BY <1>4, StutterStep
<1> QED BY <1>1, <1>2, <1>3, <1>4 DEF Next

-----------------------------------------------------------------------------

LEMMA Invariance == Spec => []IInv
  BY InitInv, NextInv, PTL DEF Spec

(* The variables keep their types: the ends stay within the ring, and      *)
(* every frame and latent is one of the request or marked as no such.      *)
THEOREM TypeCorrect == Spec => []TypeOK
<1>1. IInv => TypeOK
  BY DEF IInv
<1> QED BY <1>1, Invariance, PTL

(* A resumed session has the ring, the ends and the generator position of  *)
(* a cold run at every chunk: _frames_to_seed, the DiT's appending to the  *)
(* seeded ring, and the burnt draws agree in every geometry.               *)
THEOREM RingIsExact == Spec => []RingExact
  BY Invariance, IInvSuffices, PTL

(* What is decoded and what is stored is a cold run's, whatever sessions   *)
(* resume on one another's chunks, are evicted under or fail.              *)
THEOREM ReplayIsExact == Spec => []ReplayExact
  BY Invariance, IInvSuffices, PTL

(* make_rolling_config and make_full_kv_config ask for every chunk that    *)
(* seeding the ring reads.                                                 *)
THEOREM WindowIsEnough == Spec => []WindowSuffices
  BY Invariance, IInvSuffices, PTL
=============================================================================
