------------------------------- MODULE RingKV -------------------------------
(***************************************************************************)
(* The engine side of exact-prefix reuse (telefuser_lingbot.py): the ring  *)
(* of KV frames a session resumes with, the generator draws it skips, and  *)
(* the slice of the ring that becomes the blob of a finalized chunk.  All  *)
(* sessions replay one chain of actions in one world; WorldKV has the      *)
(* branching trie, the asynchronous puts and the crashes.                  *)
(*                                                                         *)
(* A frame of KV is its number when it is bit for bit the frame of a cold  *)
(* run, and Wrong otherwise; a latent likewise is the number of its chunk. *)
(***************************************************************************)
EXTENDS Integers, FiniteSets

CONSTANTS Sessions,      \* binding instances; a slot is reused once its session is over
          Configs,       \* the runtimes and manager configurations a run ranges over
          Empty, Wrong   \* no content, and content that no cold run computes

(* buf is the length of the ring in frames, sink kv_sink_size, chunk the   *)
(* frames of a chunk, chunks the length of a request, draws the generator  *)
(* draws of a chunk (len(timesteps) - 1), breakEven break_even_k; manager  *)
(* names the WorldKVConfig the deployment built.                           *)
ConfigType == [buf : Nat, sink : Nat, chunk : Nat \ {0}, chunks : Nat \ {0}, draws : Nat,
               breakEven : Nat, manager : {"full", "rolling", "default"}]

(* The window of make_full_kv_config.                                      *)
FullWindow == 1000000

(* A ring takes a chunk beside its sink; "full" is for rings as long as    *)
(* the request (local_attn_size = -1), whose window of a million chunks    *)
(* stands for all of them.                                                 *)
ASSUME RingAssumption ==
  /\ IsFiniteSet(Sessions)
  /\ Configs \subseteq ConfigType
  /\ \A g \in Configs : /\ g.sink + g.chunk <= g.buf
                        /\ g.manager = "full" => g.chunks <= FullWindow
  /\ Empty \notin Int /\ Wrong \notin Int /\ Empty # Wrong

VARIABLES cfg,        \* the deployment
          kv,         \* kv[d]: the published blob of chunk d, Empty or a chunk of frames
          lat,        \* lat[d]: its skeleton latent
          ph,         \* ph[s]: how far session s has come
          ingests,    \* ingests[s]: its ingest_enabled
          k,          \* k[s]: last_fast_forward, the chunks it does not compute
          next,       \* next[s]: the chunk the engine turns to next
          ring,       \* ring[s]: self_kv_cache, frame by frame
          localEnd,   \* localEnd[s]: local_end_index, in frames
          globalEnd,  \* globalEnd[s]: global_end_index, in frames
          rng,        \* rng[s]: generator draws since the noise tensor
          cached,     \* cached[s]: world_kv_cached_latents
          shown       \* shown[s]: the latents decoded so far

runtimeVars == <<ring, localEnd, globalEnd, rng, cached, shown>>
vars == <<cfg, kv, lat, ph, ingests, k, next, runtimeVars>>

Chunks  == 0..(cfg.chunks - 1)
Slots   == 0..(cfg.buf - 1)
Frames  == 0..(cfg.chunks * cfg.chunk - 1)
CeilDiv(a, b) == (a + b - 1) \div b

(* Mutant: floor instead of ceil.                                          *)
RollingFloor(buf, sink, chunk) ==
  [window |-> (buf - sink) \div chunk, sinkChunks |-> CeilDiv(sink, chunk)]

(* make_rolling_config and make_full_kv_config; "default" is the rolling   *)
(* configuration with its default geometry, whatever the runtime has.      *)
RollingConfig(buf, sink, chunk) ==
  [window |-> CeilDiv(buf - sink, chunk), sinkChunks |-> CeilDiv(sink, chunk)]

FullConfig == [window |-> FullWindow, sinkChunks |-> 1]

WorldKVConfig == CASE cfg.manager = "full"    -> FullConfig
                   [] cfg.manager = "rolling" -> RollingConfig(cfg.buf, cfg.sink, cfg.chunk)
                   [] cfg.manager = "default" -> RollingConfig(7, 3, 3)

(* sink + the most recent chunks of a prefix of m chunks.                  *)
WindowPath(m) ==
  {d \in 0..(m - 1) : m - d <= WorldKVConfig.window \/ d < WorldKVConfig.sinkChunks}

(* Mutant: the recent frames are counted off the whole ring.               *)
SeedFromBuffer(p, m) ==
  IF m * cfg.chunk <= cfg.buf \/ p < cfg.sink THEN p
  ELSE m * cfg.chunk - cfg.buf + (p - cfg.sink)

(* _frames_to_seed: the frame that belongs in slot p when m chunks are     *)
(* there, and the slots it fills.                                          *)
FrameToSeed(p, m) ==
  IF m * cfg.chunk <= cfg.buf \/ p < cfg.sink THEN p
  ELSE m * cfg.chunk - (cfg.buf - cfg.sink) + (p - cfg.sink)

SeedLength(m) == IF m * cfg.chunk <= cfg.buf THEN m * cfg.chunk ELSE cfg.buf

SlotsToSeed(m) == {p \in Slots : p < SeedLength(m)}

(* What seed_layer copies into slot p, and whether the window has it.      *)
Source(g)  == kv[g \div cfg.chunk][g % cfg.chunk]
Covered(m) == \A p \in SlotsToSeed(m) : FrameToSeed(p, m) \div cfg.chunk \in WindowPath(m)

FreshRing == [p \in 0..(cfg.buf - 1) |-> Empty]

Init ==
  /\ cfg \in Configs
  /\ kv = [d \in Chunks |-> Empty]
  /\ lat = [d \in Chunks |-> Empty]
  /\ ph = [s \in Sessions |-> "off"]
  /\ ingests = [s \in Sessions |-> FALSE]
  /\ k = [s \in Sessions |-> 0]
  /\ next = [s \in Sessions |-> 0]
  /\ ring = [s \in Sessions |-> FreshRing]
  /\ localEnd = [s \in Sessions |-> 0]
  /\ globalEnd = [s \in Sessions |-> 0]
  /\ rng = [s \in Sessions |-> 0]
  /\ cached = [s \in Sessions |-> [d \in Chunks |-> Empty]]
  /\ shown = [s \in Sessions |-> [d \in Chunks |-> Empty]]

-----------------------------------------------------------------------------
(* The session is over, or lost to an exception, and its runtime with it.  *)
Gone(s) ==
  /\ ph' = [ph EXCEPT ![s] = "off"]
  /\ ingests' = [ingests EXCEPT ![s] = FALSE]
  /\ k' = [k EXCEPT ![s] = 0]
  /\ next' = [next EXCEPT ![s] = 0]
  /\ ring' = [ring EXCEPT ![s] = FreshRing]
  /\ localEnd' = [localEnd EXCEPT ![s] = 0]
  /\ globalEnd' = [globalEnd EXCEPT ![s] = 0]
  /\ rng' = [rng EXCEPT ![s] = 0]
  /\ cached' = [cached EXCEPT ![s] = [d \in Chunks |-> Empty]]
  /\ shown' = [shown EXCEPT ![s] = [d \in Chunks |-> Empty]]

Matches(m) == \A d \in 0..(m - 1) : kv[d] # Empty
Longest(m) == Matches(m) /\ (m \in Chunks => kv[m] = Empty)

(* on_runtime_created up to the lookup: the longest published prefix, if   *)
(* it breaks even; otherwise the session runs cold.                        *)
CreateRuntime(s, m, i) ==
  /\ ph[s] = "off" /\ Longest(m)
  /\ ingests' = [ingests EXCEPT ![s] = i]
  /\ IF m = 0 \/ m < cfg.breakEven
     THEN ph' = [ph EXCEPT ![s] = "run"] /\ k' = k
     ELSE ph' = [ph EXCEPT ![s] = "hit"] /\ k' = [k EXCEPT ![s] = m]
  /\ UNCHANGED <<cfg, kv, lat, next, runtimeVars>>

(* materialize meets a blob that was evicted since the lookup.             *)
FallBack(s) ==
  /\ ph[s] = "hit"
  /\ \E d \in WindowPath(k[s]) : kv[d] = Empty
  /\ ph' = [ph EXCEPT ![s] = "run"]
  /\ k' = [k EXCEPT ![s] = 0]
  /\ UNCHANGED <<cfg, kv, lat, ingests, next, runtimeVars>>

WindowComplete(s) == \A d \in WindowPath(k[s]) : kv[d] # Empty

(* seed_layer raises a KeyError for a frame outside the window.            *)
SeedRaises(s) ==
  /\ ph[s] = "hit" /\ WindowComplete(s)
  /\ ~Covered(k[s])
  /\ Gone(s)
  /\ UNCHANGED <<cfg, kv, lat>>

(* Mutant: the skipped draws are not burnt.                                *)
ResumeUnburnt(s) ==
  /\ ph[s] = "hit" /\ WindowComplete(s)
  /\ Covered(k[s])
  /\ ph' = [ph EXCEPT ![s] = "run"]
  /\ ring' = [ring EXCEPT ![s] =
       [p \in Slots |-> IF p \in SlotsToSeed(k[s]) THEN Source(FrameToSeed(p, k[s])) ELSE @[p]]]
  /\ localEnd' = [localEnd EXCEPT ![s] = SeedLength(k[s])]
  /\ globalEnd' = [globalEnd EXCEPT ![s] = k[s] * cfg.chunk]
  /\ cached' = [cached EXCEPT ![s] = [d \in Chunks |-> IF d < k[s] THEN lat[d] ELSE Empty]]
  /\ UNCHANGED <<cfg, kv, lat, ingests, k, next, rng, shown>>

(* The ring is seeded, the ends are set, the latents of the skipped chunks *)
(* are handed over and their draws burnt.                                  *)
Resume(s) ==
  /\ ph[s] = "hit" /\ WindowComplete(s)
  /\ Covered(k[s])
  /\ ph' = [ph EXCEPT ![s] = "run"]
  /\ ring' = [ring EXCEPT ![s] =
       [p \in Slots |-> IF p \in SlotsToSeed(k[s]) THEN Source(FrameToSeed(p, k[s])) ELSE @[p]]]
  /\ localEnd' = [localEnd EXCEPT ![s] = SeedLength(k[s])]
  /\ globalEnd' = [globalEnd EXCEPT ![s] = k[s] * cfg.chunk]
  /\ cached' = [cached EXCEPT ![s] = [d \in Chunks |-> IF d < k[s] THEN lat[d] ELSE Empty]]
  /\ rng' = [rng EXCEPT ![s] = @ + k[s] * cfg.draws]
  /\ UNCHANGED <<cfg, kv, lat, ingests, k, next, shown>>

-----------------------------------------------------------------------------
(* The decode-only fast path of the engine.                                *)
DecodeCached(s) ==
  /\ ph[s] = "run" /\ next[s] < k[s]
  /\ shown' = [shown EXCEPT ![s][next[s]] = cached[s][next[s]]]
  /\ next' = [next EXCEPT ![s] = @ + 1]
  /\ UNCHANGED <<cfg, kv, lat, ph, ingests, k, ring, localEnd, globalEnd, rng, cached>>

(* What a cold run has in its ring after m chunks (the class comment of    *)
(* _RingKVWindow): contiguous frames, then sink and most recent frames.    *)
ColdRing(m) ==
  [p \in Slots |-> IF m * cfg.chunk > cfg.buf
                   THEN (IF p < cfg.sink THEN p ELSE m * cfg.chunk - cfg.buf + p)
                   ELSE IF p < m * cfg.chunk THEN p ELSE Empty]

AsCold(s, m) ==
  /\ ring[s] = ColdRing(m)
  /\ localEnd[s] = (IF m * cfg.chunk <= cfg.buf THEN m * cfg.chunk ELSE cfg.buf)
  /\ globalEnd[s] = m * cfg.chunk
  /\ rng[s] = m * cfg.draws

(* Mutant: no room is made.                                                *)
RolledNever(s) == 0

(* The DiT appends the frames of chunk m: when they do not fit, the oldest *)
(* frames after the sink make room.                                        *)
Rolled(s) == IF localEnd[s] + cfg.chunk > cfg.buf THEN localEnd[s] + cfg.chunk - cfg.buf ELSE 0

RingAppend(s, frames) ==
  LET r == Rolled(s)
      e == localEnd[s] - r
  IN  [p \in Slots |-> IF p >= e /\ p < e + cfg.chunk THEN frames[p - e]
                       ELSE IF p >= cfg.sink /\ p < e THEN ring[s][p + r]
                       ELSE ring[s][p]]

(* The engine denoises chunk m and rewrites it clean: what it computes is  *)
(* what a cold run computes if it starts from what a cold run has.         *)
Generate(s) ==
  LET m == next[s]
      exact == AsCold(s, m)
      frames == [i \in 0..(cfg.chunk - 1) |-> IF exact THEN m * cfg.chunk + i ELSE Wrong]
  IN
  /\ ph[s] = "run" /\ k[s] <= m /\ m < cfg.chunks
  /\ ring' = [ring EXCEPT ![s] = RingAppend(s, frames)]
  /\ localEnd' = [localEnd EXCEPT ![s] = @ + cfg.chunk - Rolled(s)]
  /\ globalEnd' = [globalEnd EXCEPT ![s] = @ + cfg.chunk]
  /\ rng' = [rng EXCEPT ![s] = @ + cfg.draws]
  /\ shown' = [shown EXCEPT ![s][m] = IF exact THEN m ELSE Wrong]
  /\ ph' = [ph EXCEPT ![s] = "rewritten"]
  /\ UNCHANGED <<cfg, kv, lat, ingests, k, next, cached>>

(* Mutant: the chunk is sought at its logical position.                    *)
TailLogical(s) ==
  [i \in 0..(cfg.chunk - 1) |-> ring[s][(next[s] * cfg.chunk + i) % cfg.buf]]

(* on_chunk_finalized slices the clean KV off the physical tail.           *)
Tail(s) == [i \in 0..(cfg.chunk - 1) |-> ring[s][localEnd[s] - cfg.chunk + i]]

ChunkDone(s) ==
  /\ ph' = [ph EXCEPT ![s] = "run"]
  /\ next' = [next EXCEPT ![s] = @ + 1]
  /\ UNCHANGED <<cfg, ingests, k, runtimeVars>>

Finalize(s) ==
  /\ ph[s] = "rewritten" /\ ingests[s]
  /\ kv' = [kv EXCEPT ![next[s]] = Tail(s)]
  /\ lat' = [lat EXCEPT ![next[s]] = shown[s][next[s]]]
  /\ ChunkDone(s)

FinalizeDisabled(s) ==
  /\ ph[s] = "rewritten" /\ ~ingests[s]
  /\ ChunkDone(s)
  /\ UNCHANGED <<kv, lat>>

(* A put raises: of the blob, which then is never published, or already of *)
(* the latent.  The exception leaves the hook, the session is lost.        *)
FinalizeRaises(s) ==
  /\ ph[s] = "rewritten" /\ ingests[s]
  /\ \/ /\ lat' = [lat EXCEPT ![next[s]] = shown[s][next[s]]]
        /\ kv' = [kv EXCEPT ![next[s]] = Empty]
     \/ UNCHANGED <<kv, lat>>
  /\ Gone(s)
  /\ UNCHANGED cfg

EndSession(s) ==
  /\ ph[s] = "run" /\ next[s] = cfg.chunks
  /\ Gone(s)
  /\ UNCHANGED <<cfg, kv, lat>>

(* evict_blob: the sink chunks are pinned.                                 *)
Evict(d) ==
  /\ d >= WorldKVConfig.sinkChunks /\ kv[d] # Empty
  /\ kv' = [kv EXCEPT ![d] = Empty]
  /\ UNCHANGED <<cfg, lat, ph, ingests, k, next, runtimeVars>>

SessionStep(s) ==
  \/ FallBack(s) \/ SeedRaises(s) \/ Resume(s)
  \/ DecodeCached(s) \/ Generate(s) \/ Finalize(s) \/ FinalizeDisabled(s) \/ FinalizeRaises(s)
  \/ EndSession(s)

Next ==
  \/ \E s \in Sessions : SessionStep(s)
                         \/ \E m \in 0..cfg.chunks, i \in BOOLEAN : CreateRuntime(s, m, i)
  \/ \E d \in Chunks : Evict(d)

Spec == Init /\ [][Next]_vars

-----------------------------------------------------------------------------
Content == Frames \cup {Empty, Wrong}

(* Every variable has its type.                                            *)
TypeOK ==
  /\ cfg \in Configs
  /\ kv \in [Chunks -> [0..(cfg.chunk - 1) -> Content] \cup {Empty}]
  /\ lat \in [Chunks -> Chunks \cup {Empty, Wrong}]
  /\ ph \in [Sessions -> {"off", "hit", "run", "rewritten"}]
  /\ ingests \in [Sessions -> BOOLEAN]
  /\ k \in [Sessions -> 0..cfg.chunks]
  /\ next \in [Sessions -> 0..cfg.chunks]
  /\ ring \in [Sessions -> [Slots -> Content]]
  /\ localEnd \in [Sessions -> 0..cfg.buf]
  /\ globalEnd \in [Sessions -> Nat]
  /\ rng \in [Sessions -> Nat]
  /\ cached \in [Sessions -> [Chunks -> Chunks \cup {Empty, Wrong}]]
  /\ shown \in [Sessions -> [Chunks -> Chunks \cup {Empty, Wrong}]]

(* The chunks whose frames are in the ring of a session.                   *)
Computed(s) == IF ph[s] = "rewritten" THEN next[s] + 1
               ELSE IF next[s] < k[s] THEN k[s] ELSE next[s]

(* A session that resumed on cached KV has, chunk after chunk, the ring,   *)
(* the end indices and the generator position of a cold run: seeding, and  *)
(* appending to a seeded ring, agree before, at and after the roll-over,   *)
(* also when the manager was configured for another geometry.              *)
RingExact == \A s \in Sessions : ph[s] \in {"run", "rewritten"} => AsCold(s, Computed(s))

(* Every latent decoded, and every blob and latent stored, is bit for bit  *)
(* that of a cold run, through chains of sessions that resume on what      *)
(* resumed sessions stored, evictions, and puts that raise.                *)
ReplayExact ==
  /\ \A d \in Chunks : /\ kv[d] # Empty => kv[d] = [i \in 0..(cfg.chunk - 1) |-> d * cfg.chunk + i]
                       /\ kv[d] # Empty => lat[d] = d
                       /\ lat[d] \in {d, Empty}
  /\ \A s \in Sessions : \A d \in Chunks :
       shown[s][d] = IF d < next[s] \/ (d = next[s] /\ ph[s] = "rewritten") THEN d ELSE Empty

(* The window make_rolling_config and make_full_kv_config derive from the  *)
(* runtime's geometry holds every frame the ring needs: seed_layer's       *)
(* KeyError only ever meets a manager configured for another geometry.     *)
WindowSuffices ==
  cfg.manager \in {"full", "rolling"} =>
    \A s \in Sessions : ph[s] = "hit" /\ WindowComplete(s) => Covered(k[s])
=============================================================================
