-------------------------- MODULE DeploymentProofs --------------------------
(***************************************************************************)
(* What holds of every deployment, whatever the processes, the presets,    *)
(* the threads and the number of launches: a process runs its own          *)
(* configuration unless it was overtaken, and a request that missed is     *)
(* saved, whatever the vector store does in a call.  Then, with the calls: *)
(* the types, the dimension a process checks against, and, where processes *)
(* are kept apart, that a save that returned can be found.                 *)
(***************************************************************************)
EXTENDS Deployment, TLAPS

Serves(p) == phase[p] \in {"serving", "closed"}

Steps == (UNION {Config[c].steps : c \in Configs}) \union Builtin

RequestAt == {"none", "lookup", "evict", "generate", "ensure", "upsert", "done"}

Requests == [at : RequestAt, id : Ids \union {NoId}, saved : SUBSET Steps,
             miss : BOOLEAN, failed : BOOLEAN]

LaunchType ==
    /\ file \in Configs \union {None, "empty"}
    /\ phase \in [Procs -> {"down", "emptied", "written", "imported",
                           "own", "serving", "closed"}]
    /\ chosen \in [Procs -> Configs \union {None}]
    /\ cfg \in [Procs -> Configs \union {None}]
    /\ overtaken \in [Procs -> BOOLEAN]

\* The file holds what the launch under way put there, or somebody else wrote
\* it since.
LaunchOK(p) ==
    /\ phase[p] # "down" => chosen[p] \in Configs
    /\ phase[p] = "emptied" => file = "empty" \/ overtaken[p]
    /\ phase[p] \in {"written", "imported"} =>
         file \in Configs \union {"empty"} /\ (file = chosen[p] \/ overtaken[p])
    /\ Serves(p) => cfg[p] \in Configs /\ (cfg[p] = chosen[p] \/ overtaken[p])

LaunchInv == LaunchType /\ \A p \in Procs : LaunchOK(p)

Busy(t) == req[t].at # "none"

\* Requests under way, and those answered last, are of serving processes and
\* have ids of their own.
Distinct ==
    \A t, u \in Threads : Busy(t) /\ Busy(u) /\ t # u => req[t].id # req[u].id

\* Once it missed, a request has something to save until it is saved.
RequestOK(t) ==
    /\ Busy(t) => Serves(Home[t])
    /\ req[t].miss /\ req[t].at = "generate" => req[t].saved # {}
    /\ req[t].miss /\ req[t].at = "done" /\ Of(Home[t]).encoder =>
         \/ req[t].failed
         \/ req[t].id \in DOMAIN acked /\ acked[req[t].id].by = Home[t]

RequestInv ==
    /\ req \in [Threads -> Requests]
    /\ Distinct
    /\ \A t \in Threads : RequestOK(t)

IInv == LaunchInv /\ RequestInv

-----------------------------------------------------------------------------
(* Launching. *)

\* The initial state: nobody runs, nothing is asked.
LEMMA InitInv == Init => IInv
<1> SUFFICES ASSUME Init PROVE IInv
    OBVIOUS
<1>1. LaunchInv
    BY DEF Init, LaunchInv, LaunchType, LaunchOK, Serves
<1>2. req \in [Threads -> Requests] /\ \A t \in Threads : req[t] = NoRequest
    BY DEF Init, Requests, RequestAt, NoRequest
<1>3. Distinct /\ \A t \in Threads : RequestOK(t)
    BY <1>2 DEF Distinct, RequestOK, Busy, NoRequest
<1> QED
    BY <1>1, <1>2, <1>3 DEF IInv, RequestInv

\* A step that leaves the launches alone keeps what is known of them.
LEMMA LaunchKept ==
    ASSUME LaunchInv, UNCHANGED dvars
    PROVE  LaunchInv'
BY DEF LaunchInv, LaunchType, LaunchOK, Serves, dvars

\* Writing the pipeline file, whether to empty or to fill it.
LEMMA WriteKeepsLaunches ==
    ASSUME LaunchInv, NEW p \in Procs, NEW c \in Configs,
           (\E d \in Configs : Launch(p, d) /\ c = d) \/ (FillFile(p) /\ chosen[p] = c)
    PROVE  LaunchInv'
<1>1. chosen' = [chosen EXCEPT ![p] = c]
    BY DEF Launch, FillFile, LaunchInv, LaunchType
<1>2. LaunchType'
    BY <1>1 DEF LaunchInv, LaunchType, Launch, FillFile, Overtake
<1>3. ASSUME NEW q \in Procs PROVE LaunchOK(q)'
  <2>1. CASE q = p
    BY <1>1, <2>1 DEF LaunchInv, LaunchType, LaunchOK, Launch, FillFile, Serves
  <2>2. CASE q # p
    <3>1. phase'[q] = phase[q] /\ chosen'[q] = chosen[q] /\ cfg'[q] = cfg[q]
        BY <1>1, <2>2 DEF Launch, FillFile, LaunchInv, LaunchType
    <3>2. file' \in Configs \union {"empty"}
        BY DEF Launch, FillFile
    <3>3. /\ overtaken[q] => overtaken'[q]
          /\ phase[q] \in {"emptied", "written", "imported"} => overtaken'[q]
        BY <2>2 DEF Launch, FillFile, Overtake
    <3> QED
        BY <3>1, <3>2, <3>3 DEF LaunchInv, LaunchOK, Serves
  <2> QED
    BY <2>1, <2>2
<1> QED
    BY <1>2, <1>3 DEF LaunchInv

\* The configuration a process loads: its own, unless it was overtaken.
LEMMA LoadsOwn ==
    ASSUME LaunchInv, NEW p \in Procs, phase[p] \in {"imported", "own"}
    PROVE  /\ LoadedConfig(p) \in Configs
           /\ LoadedConfig(p) = chosen[p] \/ overtaken[p]
BY DeploymentAssumption DEF LaunchInv, LaunchType, LaunchOK, LoadedConfig

\* Every step of a process's life.
LEMMA StepKeepsLaunches ==
    ASSUME LaunchInv, NEW p \in Procs, LaunchStep(p)
    PROVE  LaunchInv'
<1>1. ASSUME NEW c \in Configs, Launch(p, c) PROVE LaunchInv'
    BY <1>1, WriteKeepsLaunches
<1>2. ASSUME NEW c \in Configs, StartOwn(p, c) PROVE LaunchInv'
    BY <1>2 DEF StartOwn, LaunchInv, LaunchType, LaunchOK, Serves
<1>3. CASE FillFile(p)
    BY <1>3, WriteKeepsLaunches DEF FillFile, LaunchInv, LaunchOK
<1>4. CASE ImportPipeline(p)
    BY <1>4 DEF ImportPipeline, LaunchInv, LaunchType, LaunchOK, Serves
<1>5. CASE CreateService(p)
  <2>1. LoadedConfig(p) \in Configs /\ (LoadedConfig(p) = chosen[p] \/ overtaken[p])
    BY <1>5, LoadsOwn DEF CreateService
  <2> QED
    BY <1>5, <2>1 DEF CreateService, LaunchInv, LaunchType, LaunchOK, Serves
<1>6. CASE CreateFails(p)
    BY <1>6 DEF CreateFails, LaunchInv, LaunchType, LaunchOK, Serves
<1>7. CASE Shutdown(p)
    BY <1>7 DEF Shutdown, LaunchInv, LaunchType, LaunchOK, Serves
<1>8. CASE Exit(p)
    BY <1>8 DEF Exit, LaunchInv, LaunchType, LaunchOK, Serves
<1> QED
    BY <1>1, <1>2, <1>3, <1>4, <1>5, <1>6, <1>7, <1>8 DEF LaunchStep

-----------------------------------------------------------------------------
(* Requests, while a process's life goes on. *)

\* A step that leaves requests and saves alone, and serving processes serving
\* with the configuration they have.
LEMMA RequestsKept ==
    ASSUME IInv, UNCHANGED <<req, acked>>,
           \A p \in Procs : Serves(p) => Serves(p)' /\ cfg'[p] = cfg[p]
    PROVE  RequestInv'
<1>1. \A t \in Threads : Home[t] \in Procs
    BY QdrantAssumption
<1>2. ASSUME NEW t \in Threads PROVE RequestOK(t)'
  <2>1. CASE Busy(t)
    <3>1. Serves(Home[t])' /\ cfg'[Home[t]] = cfg[Home[t]]
        BY <1>1, <2>1 DEF IInv, RequestInv, RequestOK
    <3> QED
        BY <3>1 DEF IInv, RequestInv, RequestOK, Busy, Of
  <2>2. CASE ~Busy(t)
    BY <2>2 DEF Busy, RequestOK
  <2> QED
    BY <2>1, <2>2
<1> QED
    BY <1>2 DEF IInv, RequestInv, Distinct, Busy

\* The end of a process takes its requests with it, and of the saves only its
\* own.
LEMMA ExitKeepsRequests ==
    ASSUME IInv, NEW p \in Procs, Exit(p)
    PROVE  RequestInv'
<1>1. req' = [t \in Threads |-> IF Home[t] = p THEN NoRequest ELSE req[t]]
    BY DEF Exit
<1>2. req' \in [Threads -> Requests]
    BY <1>1 DEF IInv, RequestInv, Requests, RequestAt, NoRequest
<1>3. \A t \in Threads : Busy(t)' => Busy(t) /\ Home[t] # p /\ req'[t] = req[t]
    BY <1>1 DEF Busy, NoRequest
<1>4. Distinct'
    BY <1>3 DEF IInv, RequestInv, Distinct
<1>5. ASSUME NEW t \in Threads PROVE RequestOK(t)'
  <2>1. CASE Busy(t)'
    <3>1. Busy(t) /\ Home[t] # p /\ req'[t] = req[t] /\ Home[t] \in Procs
        BY <1>3, <2>1, QdrantAssumption
    <3>2. Serves(Home[t])' /\ cfg'[Home[t]] = cfg[Home[t]]
        BY <3>1 DEF Exit, IInv, LaunchInv, LaunchType, RequestInv, RequestOK, Serves
    <3>3. ASSUME NEW i \in DOMAIN acked, acked[i].by = Home[t]
          PROVE  i \in DOMAIN acked' /\ acked'[i] = acked[i]
        BY <3>1, <3>3 DEF Exit
    <3> QED
        BY <3>1, <3>2, <3>3 DEF IInv, RequestInv, RequestOK, Of
  <2>2. CASE ~Busy(t)'
    BY <2>2 DEF Busy, RequestOK
  <2> QED
    BY <2>1, <2>2
<1> QED
    BY <1>2, <1>4, <1>5 DEF RequestInv

LEMMA LifeKeepsRequests ==
    ASSUME IInv, NEW p \in Procs, LaunchStep(p)
    PROVE  RequestInv'
<1>1. CASE Exit(p)
    BY <1>1, ExitKeepsRequests
<1>2. CASE CreateService(p)
    BY <1>2, RequestsKept DEF CreateService, Serves, IInv, LaunchInv, LaunchType
<1>3. CASE Shutdown(p)
    BY <1>3, RequestsKept DEF Shutdown, Serves, IInv, LaunchInv, LaunchType
<1>4. CASE FillFile(p) \/ ImportPipeline(p) \/ CreateFails(p)
    BY <1>4, RequestsKept
    DEF FillFile, ImportPipeline, CreateFails, Serves, IInv, LaunchInv, LaunchType
<1>5. ASSUME NEW c \in Configs, Launch(p, c) \/ StartOwn(p, c) PROVE RequestInv'
    BY <1>5, RequestsKept DEF Launch, StartOwn, Serves, IInv, LaunchInv, LaunchType
<1> QED
    BY <1>1, <1>2, <1>3, <1>4, <1>5 DEF LaunchStep

-----------------------------------------------------------------------------
(* The steps of a request. *)

\* One request goes on to r: its id is its own, and what a save acknowledged
\* for another stays so.
LEMMA OneRequest ==
    ASSUME IInv, UNCHANGED dvars, NEW t \in Threads, NEW r \in Requests,
           req' = [req EXCEPT ![t] = r],
           Serves(Home[t]),
           \A u \in Threads \ {t} : Busy(u) => req[u].id # r.id,
           r.miss /\ r.at = "generate" => r.saved # {},
           r.miss /\ r.at = "done" /\ Of(Home[t]).encoder =>
             r.failed \/ (r.id \in DOMAIN acked' /\ acked'[r.id].by = Home[t]),
           \A i \in DOMAIN acked : i # r.id => i \in DOMAIN acked' /\ acked'[i] = acked[i]
    PROVE  RequestInv'
<1>1. req' \in [Threads -> Requests] /\ req'[t] = r
    BY DEF IInv, RequestInv
<1>2. \A u \in Threads \ {t} : req'[u] = req[u]
    BY DEF IInv, RequestInv
<1>3. Distinct'
    BY <1>1, <1>2 DEF IInv, RequestInv, Distinct, Busy
<1>4. ASSUME NEW u \in Threads PROVE RequestOK(u)'
  <2>1. Serves(Home[t])' /\ UNCHANGED <<phase, cfg>>
    BY DEF dvars, Serves
  <2>2. CASE u = t
    BY <1>1, <2>1, <2>2 DEF RequestOK, Of
  <2>3. CASE u # t
    <3>1. RequestOK(u) /\ req'[u] = req[u]
        BY <1>2, <2>3 DEF IInv, RequestInv
    <3>2. Busy(u) => req[u].id # r.id
        BY <2>3
    <3> QED
        BY <2>1, <3>1, <3>2 DEF RequestOK, Busy, Serves, Of
  <2> QED
    BY <2>2, <2>3
<1> QED
    BY <1>1, <1>3, <1>4 DEF RequestInv

\* The steps a serving process's adapter falls back to are never none.
LEMMA StepsFacts ==
    ASSUME LaunchInv, NEW p \in Procs, Serves(p)
    PROVE  AdapterSteps(p) # {} /\ AdapterSteps(p) \subseteq Steps
<1>1. cfg[p] \in Configs
    BY DEF LaunchInv, LaunchOK
<1> QED
    BY <1>1, AdapterAssumption DEF AdapterSteps, DefaultSteps, Of, Steps

\* A miss asks for those steps.
LEMMA MissFacts ==
    ASSUME NEW default
    PROVE  ApplyResume(Miss, default).saved = default /\ ApplyResume(Miss, default).hit = FALSE
BY DEF ApplyResume, Miss, MissData

\* A hit asks for the steps it loaded.
LEMMA HitFacts ==
    ASSUME NEW default, NEW k, NEW latent
    PROVE  LET data == ApplyResume(HitSkipStep(k, [s \in {k} |-> latent]), default)
           IN  data.saved = {k} /\ data.hit = TRUE
<1> DEFINE result == HitSkipStep(k, [s \in {k} |-> latent])
<1>1. result.hit = TRUE /\ result.hint = "SkipStep" /\ DOMAIN result.latents = {k}
    BY DEF HitSkipStep
<1> HIDE DEF result
<1>2. ApplyResume(result, default).hit = TRUE
    BY <1>1 DEF ApplyResume, SkipStepData
<1>3. ApplyResume(result, default).saved = {k}
    BY <1>1 DEF ApplyResume, SkipStepData, ExtractSavedSteps
<1> QED
    BY <1>2, <1>3 DEF result

\* A new request has an id nobody has.
LEMMA RequestKeeps ==
    ASSUME IInv, NEW t \in Threads, NEW id \in Ids, Request(t, id)
    PROVE  RequestInv'
<1>1. Serves(Home[t]) /\ Home[t] \in Procs /\ UNCHANGED dvars /\ acked' = acked
    BY QdrantAssumption DEF Request, Serves, rest
<1>2. \A u \in Threads : req[u].id # id
    BY DEF Request, Used
<1>3. AdapterSteps(Home[t]) # {} /\ AdapterSteps(Home[t]) \subseteq Steps
    BY <1>1, StepsFacts DEF IInv
<1>4. NoRequest \in Requests
    BY DEF NoRequest, Requests, RequestAt
<1>5. PICK r \in Requests : /\ req' = [req EXCEPT ![t] = r]
                            /\ r.id = id
                            /\ r.at = "lookup" \/ (r.at = "generate" /\ r.saved # {})
  <2>1. CASE Of(Home[t]).encoder
    <3> DEFINE r == [NoRequest EXCEPT !.at = "lookup", !.id = id]
    <3>1. r \in Requests /\ r.id = id /\ r.at = "lookup"
        BY DEF NoRequest, Requests, RequestAt
    <3>2. req' = [req EXCEPT ![t] = r]
        BY <2>1 DEF Request
    <3> QED
        BY <3>1, <3>2
  <2>2. CASE ~Of(Home[t]).encoder
    <3> DEFINE r == [NoRequest EXCEPT !.at = "generate", !.id = id,
                                      !.miss = TRUE, !.saved = AdapterSteps(Home[t])]
    <3>1. r \in Requests /\ r.id = id /\ r.at = "generate" /\ r.saved # {}
        BY <1>3 DEF NoRequest, Requests, RequestAt
    <3>2. req' = [req EXCEPT ![t] = r]
        BY <2>2 DEF Request
    <3> QED
        BY <3>1, <3>2
  <2> QED
    BY <2>1, <2>2
<1> QED
    BY <1>1, <1>2, <1>5, OneRequest

\* A step of a request that keeps its id, and what was acknowledged.
LEMMA SameRequest ==
    ASSUME IInv, UNCHANGED <<dvars, acked>>, NEW t \in Threads, Busy(t),
           NEW r \in Requests, req' = [req EXCEPT ![t] = r],
           r.id = req[t].id,
           r.miss /\ r.at = "generate" => r.saved # {},
           r.miss /\ r.at = "done" /\ Of(Home[t]).encoder => r.failed
    PROVE  RequestInv'
<1>1. \A u \in Threads \ {t} : Busy(u) => req[u].id # r.id
    BY DEF IInv, RequestInv, Distinct
<1>2. Serves(Home[t])
    BY DEF IInv, RequestInv, RequestOK
<1> QED
    BY <1>1, <1>2, OneRequest

\* The lookup's result becomes the latent_data.
LEMMA ResumeKeeps ==
    ASSUME IInv, UNCHANGED <<dvars, acked>>, NEW t \in Threads, Busy(t), NEW result,
           Resume(t, result),
           LET data == ApplyResume(result, AdapterSteps(Home[t])) IN
             data.saved \subseteq Steps /\ data.saved # {} /\ data.hit \in BOOLEAN
    PROVE  RequestInv'
<1> DEFINE data == ApplyResume(result, AdapterSteps(Home[t]))
           r == [req[t] EXCEPT !.at = "generate", !.miss = ~data.hit, !.saved = data.saved]
<1>1. req[t] \in Requests /\ req \in [Threads -> Requests]
    BY DEF IInv, RequestInv
<1>2. data.saved \subseteq Steps /\ data.saved # {} /\ data.hit \in BOOLEAN
    OBVIOUS
<1>3. req' = [req EXCEPT ![t].at = "generate", ![t].miss = ~data.hit, ![t].saved = data.saved]
    BY DEF Resume
<1> HIDE DEF data
<1>4. r \in Requests /\ r.id = req[t].id /\ r.at = "generate" /\ r.saved # {}
    BY <1>1, <1>2 DEF Requests, RequestAt
<1>5. req' = [req EXCEPT ![t] = r]
    BY <1>1, <1>3 DEF Requests
<1> QED
    BY <1>4, <1>5, SameRequest

\* A miss, found or fallen back to.
LEMMA MissKeeps ==
    ASSUME IInv, NEW t \in Threads, LookupMiss(t) \/ Evicted(t)
    PROVE  RequestInv'
<1>1. Busy(t) /\ Resume(t, Miss) /\ UNCHANGED <<dvars, acked>>
    BY DEF LookupMiss, Evicted, Busy, rest
<1>2. Serves(Home[t]) /\ Home[t] \in Procs
    BY <1>1, QdrantAssumption DEF IInv, RequestInv, RequestOK
<1>3. AdapterSteps(Home[t]) # {} /\ AdapterSteps(Home[t]) \subseteq Steps
    BY <1>2, StepsFacts DEF IInv
<1> QED
    BY <1>1, <1>3, MissFacts, ResumeKeeps

LEMMA HitKeeps ==
    ASSUME IInv, NEW t \in Threads, LookupHit(t)
    PROVE  RequestInv'
<1>1. Busy(t) /\ UNCHANGED <<dvars, acked>>
    BY DEF LookupHit, Busy, rest
<1>2. Serves(Home[t]) /\ Home[t] \in Procs
    BY <1>1, QdrantAssumption DEF IInv, RequestInv, RequestOK
<1>3. AdapterSteps(Home[t]) \subseteq Steps
    BY <1>2, StepsFacts DEF IInv
<1>4. PICK k \in AdapterSteps(Home[t]) :
           Resume(t, HitSkipStep(k, [s \in {k} |-> call[t].id]))
    BY DEF LookupHit
<1> DEFINE result == HitSkipStep(k, [s \in {k} |-> call[t].id])
<1>5. /\ ApplyResume(result, AdapterSteps(Home[t])).saved = {k}
      /\ ApplyResume(result, AdapterSteps(Home[t])).hit = TRUE
    BY HitFacts, ZenonT(40)
<1> HIDE DEF result
<1>6. Resume(t, result)
    BY <1>4 DEF result
<1> QED
    BY <1>1, <1>3, <1>5, <1>6, ResumeKeeps

\* The steps that only move a request on.
LEMMA MoveKeeps ==
    ASSUME IInv, NEW t \in Threads, LookupStale(t) \/ SaveEnsured(t) \/ SaveFails(t)
    PROVE  RequestInv'
<1>1. req[t] \in Requests /\ req \in [Threads -> Requests]
    BY DEF IInv, RequestInv
<1>2. Busy(t) /\ UNCHANGED <<dvars, acked>>
    BY DEF LookupStale, SaveEnsured, SaveFails, Busy, rest
<1>3. PICK r \in Requests : /\ req' = [req EXCEPT ![t] = r]
                            /\ r.id = req[t].id
                            /\ r.at \in {"evict", "upsert"} \/ r.failed
                            /\ r.at # "generate"
  <2>1. CASE LookupStale(t) \/ SaveEnsured(t)
    <3>1. PICK a \in {"evict", "upsert"} : req' = [req EXCEPT ![t].at = a]
        BY <2>1 DEF LookupStale, SaveEnsured
    <3> DEFINE r == [req[t] EXCEPT !.at = a]
    <3>2. r \in Requests /\ r.id = req[t].id /\ r.at = a
        BY <1>1 DEF Requests, RequestAt
    <3>3. req' = [req EXCEPT ![t] = r]
        BY <1>1, <3>1 DEF Requests
    <3> QED
        BY <3>2, <3>3
  <2>2. CASE SaveFails(t)
    <3> DEFINE r == [req[t] EXCEPT !.at = "done", !.saved = {}, !.failed = TRUE]
    <3>1. r \in Requests /\ r.id = req[t].id /\ r.failed /\ r.at = "done"
        BY <1>1 DEF Requests, RequestAt
    <3>2. req' = [req EXCEPT ![t] = r]
        BY <1>1, <2>2 DEF SaveFails, Requests
    <3> QED
        BY <3>1, <3>2
  <2> QED
    BY <2>1, <2>2
<1> QED
    BY <1>2, <1>3, SameRequest

\* The pipeline's outputs: with an encoder, a request that missed has some.
LEMMA GenerateKeeps ==
    ASSUME IInv, NEW t \in Threads, NEW s \in SUBSET req[t].saved, Generate(t, s)
    PROVE  RequestInv'
<1>1. req[t] \in Requests /\ req \in [Threads -> Requests]
    BY DEF IInv, RequestInv
<1>2. Busy(t) /\ UNCHANGED <<dvars, acked>>
    BY DEF Generate, Busy
<1>3. req[t].at = "generate" /\ RequestOK(t) /\ (req[t].miss => s = req[t].saved)
    BY DEF Generate, IInv, RequestInv
<1>4. OnResponse(s).steps = s
    BY DEF OnResponse
<1>5. CASE s = {} \/ ~Of(Home[t]).encoder
  <2> DEFINE r == [req[t] EXCEPT !.at = "done", !.saved = {}]
  <2>1. r \in Requests /\ r.id = req[t].id /\ r.miss = req[t].miss /\ r.at = "done"
    BY <1>1 DEF Requests, RequestAt
  <2>2. req' = [req EXCEPT ![t] = r]
    BY <1>1, <1>4, <1>5 DEF Generate, Requests
  <2>3. ~(r.miss /\ Of(Home[t]).encoder)
    BY <1>3, <1>5, <2>1 DEF RequestOK
  <2> QED
    BY <1>2, <2>1, <2>2, <2>3, SameRequest
<1>6. CASE ~(s = {} \/ ~Of(Home[t]).encoder)
  <2> DEFINE r == [req[t] EXCEPT !.at = "ensure"]
  <2>1. r \in Requests /\ r.id = req[t].id /\ r.at = "ensure"
    BY <1>1 DEF Requests, RequestAt
  <2>2. req' = [req EXCEPT ![t] = r]
    BY <1>1, <1>4, <1>6 DEF Generate, Requests
  <2> QED
    BY <1>2, <2>1, <2>2, SameRequest
<1> QED
    BY <1>5, <1>6

\* A save returns: its id is acknowledged to it.
LEMMA DoneKeeps ==
    ASSUME IInv, NEW t \in Threads, SaveDone(t)
    PROVE  RequestInv'
<1>1. req[t] \in Requests /\ req \in [Threads -> Requests]
    BY DEF IInv, RequestInv
<1>2. Busy(t) /\ UNCHANGED dvars
    BY DEF SaveDone, Busy
<1> DEFINE r == [req[t] EXCEPT !.at = "done", !.saved = {}]
<1>3. r \in Requests /\ r.id = req[t].id /\ r.at = "done"
    BY <1>1 DEF Requests, RequestAt
<1>4. req' = [req EXCEPT ![t] = r]
    BY <1>1 DEF SaveDone, Requests
<1> HIDE DEF r
<1>5. acked' = [i \in DOMAIN acked \union {r.id} |->
                  IF i = r.id THEN [by |-> Home[t], coll |-> call[t].coll] ELSE acked[i]]
    BY <1>3 DEF SaveDone
<1>6. r.id \in DOMAIN acked' /\ acked'[r.id].by = Home[t]
    BY <1>5
<1>7. \A i \in DOMAIN acked : i # r.id => i \in DOMAIN acked' /\ acked'[i] = acked[i]
    BY <1>5
<1>8. \A u \in Threads \ {t} : Busy(u) => req[u].id # r.id
    BY <1>2, <1>3 DEF IInv, RequestInv, Distinct
<1>9. Serves(Home[t])
    BY <1>2 DEF IInv, RequestInv, RequestOK
<1> QED
    BY <1>2, <1>3, <1>4, <1>6, <1>7, <1>8, <1>9, OneRequest

-----------------------------------------------------------------------------
\* Every step keeps the invariant.
LEMMA StepInv == IInv /\ [Next]_vars => IInv'
<1> SUFFICES ASSUME IInv, [Next]_vars PROVE IInv'
    OBVIOUS
<1>1. ASSUME NEW p \in Procs, LaunchStep(p) PROVE IInv'
    BY <1>1, StepKeepsLaunches, LifeKeepsRequests DEF IInv
<1>2. ASSUME NEW t \in Threads, RequestStep(t) PROVE IInv'
  <2>1. UNCHANGED dvars
    BY <1>2 DEF RequestStep, Request, LookupMiss, LookupHit, LookupStale, Evicted,
                Generate, SaveEnsured, SaveDone, SaveFails, InStore, rest
  <2>2. LaunchInv'
    BY <2>1, LaunchKept DEF IInv
  <2>3. ASSUME InStore(t) PROVE RequestInv'
    BY <2>1, <2>3, RequestsKept DEF InStore, dvars, Serves
  <2>4. RequestInv'
    BY <1>2, <2>3, RequestKeeps, MissKeeps, HitKeeps, MoveKeeps, GenerateKeeps, DoneKeeps,
       <2>2 DEF RequestStep, IInv
  <2> QED
    BY <2>2, <2>4 DEF IInv
<1>3. CASE UNCHANGED vars
    BY <1>3, LaunchKept, RequestsKept DEF vars, dvars, IInv, Serves
<1> QED
    BY <1>1, <1>2, <1>3 DEF Next

\* A process that serves runs the preset it was launched with, or another
\* launcher wrote the shared pipeline file between its write and its load
\* (start_wan22_service.py), for any number of launches.
THEOREM OwnConfigHolds == Spec => []OwnConfig
<1>1. IInv => OwnConfig
    BY DEF IInv, LaunchInv, LaunchOK, OwnConfig, Serves
<1> QED
    BY InitInv, StepInv, <1>1, PTL DEF Spec

\* A request that missed is saved, unless its save raised (adapter.py:
\* _miss_dict), however requests and the lives of processes interleave.
THEOREM MissIsSavedHolds == Spec => []MissIsSaved
<1>1. IInv => MissIsSaved
    BY DEF IInv, RequestInv, RequestOK, MissIsSaved
<1> QED
    BY InitInv, StepInv, <1>1, PTL DEF Spec

-----------------------------------------------------------------------------
(* The vector store: types, and which call a request is in. *)

CallAt == {"none", "check", "build", "ask", "exists", "create", "back"}

Calls == [op : Ops \union {"none"}, at : CallAt, cli : 0..MaxClients,
          coll : Colls \union {"memory", "none"}, d : 0..MaxDim, id : Ids \union {NoId},
          out : {"none", "ok", "raised"}]

StoreType ==
    /\ db \in [Place -> Collection]
    /\ client \in [Procs -> 0..MaxClients]
    /\ opened \in [Procs -> 0..MaxClients]
    /\ closed \in [Procs -> SUBSET (1..MaxClients)]
    /\ dim \in [Procs -> 0..MaxDim]
    /\ call \in [Threads -> Calls]
    /\ faults \in 0..MaxFaults
    /\ seen \in [Procs -> SUBSET Ids]
    /\ disk \in [Dirs -> SUBSET Ids]
    /\ DOMAIN acked \subseteq Ids
    /\ rebuilt \in [Procs -> BOOLEAN]
    /\ launches \in 0..MaxLaunches

ClientOK(p) ==
    /\ client[p] \in 0..opened[p]
    /\ closed[p] \subseteq 1..opened[p] /\ (phase[p] = "serving" => closed[p] = {})
    /\ rebuilt[p] <=> opened[p] > 1
    /\ ~Serves(p) => opened[p] = 0 /\ dim[p] = 0

CallOK(t) ==
    /\ call[t].op = "none" <=> Idle(t)
    /\ ~Idle(t) => /\ Serves(Home[t])
                   /\ call[t].coll = Coll(Home[t]) /\ call[t].d = Of(Home[t]).dim
    /\ call[t].at \in {"ask", "exists", "create", "back"} => call[t].cli \in 1..opened[Home[t]]
    /\ call[t].at \in {"exists", "create"} => call[t].op = "ensure"
    /\ call[t].at = "ask" => call[t].op # "ensure"

\* Which call a request is in.
WaitsFor(t) ==
    /\ req[t].at \in {"none", "generate", "done"} => Idle(t)
    /\ req[t].at = "lookup" => call[t].op = "search"
    /\ req[t].at = "evict" => call[t].op = "delete"
    /\ req[t].at = "ensure" => call[t].op \in {"ensure", "probe"}
    /\ req[t].at = "upsert" => call[t].op = "upsert" /\ call[t].id = req[t].id
    /\ Busy(t) => req[t].id \in Ids

StoreInv == StoreType /\ (\A p \in Procs : ClientOK(p)) /\ (\A t \in Threads : CallOK(t) /\ WaitsFor(t))


LEMMA ServingFacts ==
    ASSUME LaunchInv, NEW p \in Procs, Serves(p)
    PROVE  /\ cfg[p] \in Configs /\ Of(p).dim \in 1..MaxDim /\ Of(p).dir \in Dirs
           /\ Coll(p) \in Colls \union {"memory"}
BY DeploymentAssumption DEF LaunchInv, LaunchOK, Of, Coll, Dirs

\* What a step of a store call may change of the calls.
CallMoves(t) ==
    /\ call' \in [Threads -> Calls]
    /\ \A u \in Threads \ {t} : call'[u] = call[u]
    /\ call[t].at \notin {"none", "back"} /\ call'[t].at # "none"
    /\ call'[t].coll = call[t].coll /\ call'[t].d = call[t].d
    /\ \/ call'[t].op = call[t].op
       \/ call[t].op = "ensure" /\ call'[t].op = "probe" /\ call'[t].at = "check"
    /\ call'[t].id = call[t].id \/ call[t].op = "search"
    /\ call'[t].at \in {"ask", "exists", "create", "back"} => call'[t].cli \in 1..opened'[Home[t]]
    /\ call'[t].at \in {"exists", "create"} => call'[t].op = "ensure"
    /\ call'[t].at = "ask" => call'[t].op # "ensure"

\* And of the clients.
ClientMoves(t) ==
    /\ client' \in [Procs -> 0..MaxClients] /\ opened' \in [Procs -> 0..MaxClients]
    /\ \A p \in Procs : /\ opened'[p] >= opened[p] /\ client'[p] \in 0..opened'[p]
                        /\ p # Home[t] => opened'[p] = opened[p]
    /\ closed' = closed

LEMMA StoreStepMoves ==
    ASSUME StoreInv, NEW t \in Threads, StoreStep(t)
    PROVE  CallMoves(t) /\ ClientMoves(t)
<1>1. call \in [Threads -> Calls] /\ call[t] \in Calls /\ Home[t] \in Procs
    BY QdrantAssumption DEF StoreInv, StoreType
<1>2. /\ CallOK(t) /\ \A p \in Procs : ClientOK(p)
      /\ opened \in [Procs -> 0..MaxClients] /\ client \in [Procs -> 0..MaxClients]
    BY <1>1 DEF StoreInv, StoreType
<1>2b. ClientOK(Home[t]) /\ opened[Home[t]] \in 0..MaxClients
    BY <1>1, <1>2
<1>3. ASSUME UNCHANGED <<client, opened, closed>> PROVE ClientMoves(t)
    BY <1>1, <1>2, <1>3, QdrantAssumption DEF ClientMoves, ClientOK
<1>4. CASE CheckClient(t)
  <2> DEFINE n == client[Home[t]]
  <2>1. n \in 0..opened[Home[t]] /\ n \in 0..MaxClients /\ call[t].at = "check"
    BY <1>1, <1>2, <1>2b, <1>4 DEF CheckClient, ClientOK
  <2>2. UNCHANGED <<client, opened, closed>>
    BY <1>4 DEF CheckClient
  <2>3. ASSUME n = 0 PROVE CallMoves(t)
    <3>1. Move(t, "build")
        BY <1>4, <2>3 DEF CheckClient
    <3> QED
        BY <1>1, <1>2, <2>1, <3>1 DEF CallMoves, Calls, CallAt, Ops, CallOK, Move
  <2>4. ASSUME n # 0 PROVE CallMoves(t)
    <3>1. n \in 1..opened'[Home[t]] /\ Use(t, n) /\ n \in 0..MaxClients /\ call[t].at = "check"
        BY <1>2b, <1>4, <2>1, <2>2, <2>4 DEF CheckClient
    <3> HIDE DEF n
    <3> QED
        BY <1>1, <1>2, <3>1 DEF CallMoves, Calls, CallAt, Ops, CallOK, Use
  <2> QED
    BY <1>3, <2>2, <2>3, <2>4
<1>5. CASE BuildClient(t)
  <2>1. /\ opened'[Home[t]] = opened[Home[t]] + 1 /\ opened[Home[t]] + 1 \in 1..MaxClients
        /\ opened' \in [Procs -> 0..MaxClients] /\ client' = [client EXCEPT ![Home[t]] = opened[Home[t]] + 1]
        /\ \A p \in Procs \ {Home[t]} : opened'[p] = opened[p]
    BY <1>1, <1>2, <1>5, QdrantAssumption DEF BuildClient
  <2>2. ClientMoves(t)
    BY <1>1, <1>2, <1>5, <2>1, QdrantAssumption DEF BuildClient, ClientMoves, ClientOK
  <2>3. CallMoves(t)
    <3> DEFINE n == opened[Home[t]] + 1
    <3>1. n \in 1..opened'[Home[t]] /\ n \in 0..MaxClients
        BY <1>2b, <2>1, QdrantAssumption
    <3>2. call[t].at = "build" /\ Use(t, n)
        BY <1>5 DEF BuildClient
    <3> HIDE DEF n
    <3> QED
        BY <1>1, <1>2, <3>1, <3>2 DEF CallMoves, Calls, CallAt, Ops, CallOK, Use
  <2> QED
    BY <2>2, <2>3
<1>6. CASE AskFails(t)
  <2>1. CallMoves(t)
    BY <1>1, <1>2, <1>6, QdrantAssumption, ZenonT(40)
    DEF AskFails, CallMoves, Calls, CallAt, Ops, CallOK, ClientOK, Idle, Finish
  <2> QED
    BY <1>3, <1>6, <2>1 DEF AskFails
<1>7. CASE SearchAsk(t)
  <2>1. CallMoves(t)
    BY <1>1, <1>2, <1>7, QdrantAssumption, SMTT(40)
    DEF SearchAsk, CallMoves, Calls, CallAt, Ops, CallOK, ClientOK, Idle, Finish
  <2> QED
    BY <1>3, <1>7, <2>1 DEF SearchAsk
<1>8. CASE DeleteAsk(t)
  <2>1. CallMoves(t)
    BY <1>1, <1>2, <1>8, QdrantAssumption
    DEF DeleteAsk, CallMoves, Calls, CallAt, Ops, CallOK, ClientOK, Idle, Finish
  <2> QED
    BY <1>3, <1>8, <2>1 DEF DeleteAsk
<1>9. CASE ExistsAsk(t)
  <2>1. CallMoves(t)
    BY <1>1, <1>2, <1>9, QdrantAssumption, SMTT(40)
    DEF ExistsAsk, CallMoves, Calls, CallAt, Ops, CallOK, ClientOK, Idle, Use, Move
  <2> QED
    BY <1>3, <1>9, <2>1 DEF ExistsAsk
<1>10. CASE Probe(t)
  <2>1. CallMoves(t)
    BY <1>1, <1>2, <1>10, QdrantAssumption
    DEF Probe, CallMoves, Calls, CallAt, Ops, CallOK, ClientOK, Idle, Finish
  <2> QED
    BY <1>3, <1>10, <2>1 DEF Probe
<1>11. CASE Create(t)
  <2>1. CallMoves(t)
    BY <1>1, <1>2, <1>11, QdrantAssumption, SMTT(40)
    DEF Create, CallMoves, Calls, CallAt, Ops, CallOK, ClientOK, Idle, Finish
  <2> QED
    BY <1>3, <1>11, <2>1 DEF Create
<1>12. CASE UpsertAsk(t)
  <2>1. CallMoves(t)
    BY <1>1, <1>2, <1>12, QdrantAssumption, SMTT(40)
    DEF UpsertAsk, CallMoves, Calls, CallAt, Ops, CallOK, ClientOK, Idle, Finish
  <2> QED
    BY <1>3, <1>12, <2>1 DEF UpsertAsk
<1>13. CASE UpsertAnswerLost(t)
  <2>1. CallMoves(t)
    BY <1>1, <1>2, <1>13, QdrantAssumption
    DEF UpsertAnswerLost, CallMoves, Calls, CallAt, Ops, CallOK, ClientOK, Idle, Finish
  <2> QED
    BY <1>3, <1>13, <2>1 DEF UpsertAnswerLost
<1> QED
    BY <1>4, <1>5, <1>6, <1>7, <1>8, <1>9, <1>10, <1>11, <1>12, <1>13 DEF StoreStep

\* Where a call looks is a place.
LEMMA PlaceFacts ==
    ASSUME StoreInv, LaunchInv, NEW t \in Threads, call[t].at \in {"ask", "exists", "create", "back"}
    PROVE  At(t) \in Place
<1>1. Home[t] \in Procs /\ CallOK(t) /\ opened[Home[t]] \in 0..MaxClients
    BY QdrantAssumption DEF StoreInv, StoreType
<1>2. call[t].coll \in Colls \union {"memory"} /\ call[t].cli \in 1..opened[Home[t]]
    BY <1>1, ServingFacts DEF CallOK, Idle
<1>3. call[t].cli \in 1..MaxClients
    BY <1>1, <1>2, QdrantAssumption
<1> QED
    BY <1>1, <1>2, <1>3 DEF At, PlaceOf, Place

\* A step of a store call keeps the types.
LEMMA StoreStepTypes ==
    ASSUME StoreInv, IInv, NEW t \in Threads, StoreStep(t)
    PROVE  /\ db' \in [Place -> Collection]
           /\ dim' \in [Procs -> 0..MaxDim]
           /\ faults' \in 0..MaxFaults
<1>1. call[t] \in Calls /\ Home[t] \in Procs /\ db \in [Place -> Collection] /\ dim \in [Procs -> 0..MaxDim]
    BY QdrantAssumption DEF StoreInv, StoreType
<1>2. db' \in [Place -> Collection] \/ UNCHANGED db
  <2>1. CASE UNCHANGED db
    BY <2>1
  <2>2. CASE ~UNCHANGED db
    <3>1. At(t) \in Place
        BY <2>2, PlaceFacts DEF IInv, StoreStep, CheckClient, BuildClient, AskFails, SearchAsk,
           ExistsAsk, Probe,
                 DeleteAsk, Create, UpsertAsk, UpsertAnswerLost
    <3>2. db[At(t)] \in Collection
        BY <1>1, <3>1
    <3>3. CASE DeleteAsk(t)
        BY <1>1, <3>1, <3>2, <3>3 DEF DeleteAsk, Collection
    <3>4. CASE Create(t)
        BY <1>1, <2>2, <3>1, <3>2, <3>4 DEF Create, Collection, Calls
    <3>5. CASE UpsertAsk(t) \/ UpsertAnswerLost(t)
      <4>1. call[t].id \in Ids
        BY <3>5 DEF StoreInv, WaitsFor, Busy, Idle, Requests, RequestAt, IInv, RequestInv,
           UpsertAsk, UpsertAnswerLost
      <4> QED
        BY <1>1, <2>2, <3>1, <3>2, <3>5, <4>1 DEF UpsertAsk, UpsertAnswerLost, Collection
    <3> QED
        BY <2>2, <3>3, <3>4, <3>5 DEF StoreStep, CheckClient, BuildClient, AskFails, SearchAsk,
           ExistsAsk, Probe
  <2> QED
    BY <2>1, <2>2
<1>3. dim' \in [Procs -> 0..MaxDim]
  <2>1. CASE Probe(t)
    <3>1. At(t) \in Place
        BY <2>1, PlaceFacts DEF IInv, Probe
    <3>2. db[At(t)].size \in 0..MaxDim /\ call[t].d \in 0..MaxDim
        BY <1>1, <3>1 DEF Collection, Calls
    <3> QED
        BY <1>1, <2>1, <3>2 DEF Probe
  <2>2. CASE Create(t)
    BY <1>1, <2>2 DEF Create, Calls
  <2> QED
    BY <1>1, <2>1, <2>2 DEF StoreStep, CheckClient, BuildClient, AskFails, SearchAsk, DeleteAsk,
       ExistsAsk,
       UpsertAsk, UpsertAnswerLost
<1>4. faults' \in 0..MaxFaults
    BY QdrantAssumption DEF StoreInv, StoreType, StoreStep, CheckClient, BuildClient, AskFails,
       SearchAsk, DeleteAsk, ExistsAsk,
       Probe, Create, UpsertAsk, UpsertAnswerLost, Fault, MayFail
<1> QED
    BY <1>1, <1>2, <1>3, <1>4

LEMMA InStoreKeeps ==
    ASSUME StoreInv, IInv, NEW t \in Threads, InStore(t)
    PROVE  StoreInv'
<1>1. /\ StoreStep(t) /\ UNCHANGED <<dvars, disk, seen, acked, req>>
      /\ rebuilt' = [p \in Procs |-> rebuilt[p] \/ opened'[p] > 1]
    BY DEF InStore
<1>2. CallMoves(t) /\ ClientMoves(t)
    BY <1>1, StoreStepMoves
<1>3. StoreType'
    BY <1>1, <1>2, StoreStepTypes DEF StoreInv, StoreType, CallMoves, ClientMoves, dvars
<1>4. Serves(Home[t]) /\ Home[t] \in Procs
    BY <1>2, QdrantAssumption DEF CallMoves, StoreInv, CallOK, Idle
<1>5. ASSUME NEW p \in Procs PROVE ClientOK(p)'
  <2>1. /\ client'[p] \in 0..opened'[p] /\ closed'[p] = closed[p] /\ opened'[p] >= opened[p]
        /\ UNCHANGED <<phase, Serves(p)>>
    BY <1>1, <1>2 DEF ClientMoves, dvars, Serves
  <2>2. ClientOK(p) /\ opened[p] \in Nat /\ opened'[p] \in Nat
    BY <1>2, QdrantAssumption DEF StoreInv, StoreType, ClientMoves
  <2>3. ~Serves(p) => p # Home[t]
    BY <1>4
  <2>4. ~Serves(p) => opened'[p] = 0 /\ dim'[p] = 0
    <3>1. dim'[p] = dim[p] \/ p = Home[t]
        BY <1>1 DEF StoreInv, StoreType, StoreStep, CheckClient, BuildClient, AskFails,
           SearchAsk, DeleteAsk, ExistsAsk,
            Probe, Create, UpsertAsk, UpsertAnswerLost
    <3> QED
        BY <1>2, <2>2, <2>3, <3>1 DEF ClientOK, ClientMoves
  <2>5. closed'[p] \subseteq 1..opened'[p] /\ (phase'[p] = "serving" => closed'[p] = {})
    <3>1. 1..opened[p] \subseteq 1..opened'[p]
        BY <2>1, <2>2
    <3>2. closed[p] \subseteq 1..opened[p] /\ (phase[p] = "serving" => closed[p] = {})
        BY <2>2 DEF ClientOK
    <3> QED
        BY <2>1, <3>1, <3>2
  <2>6. rebuilt'[p] <=> opened'[p] > 1
    <3>1. opened[p] > 1 => opened'[p] > 1
        BY <2>1, <2>2
    <3>2. rebuilt'[p] = (rebuilt[p] \/ opened'[p] > 1)
        BY <1>1
    <3>3. rebuilt[p] <=> opened[p] > 1
        BY <2>2 DEF ClientOK
    <3> QED
        BY <3>1, <3>2, <3>3, Zenon
  <2>7. ~Serves(p)' => opened'[p] = 0 /\ dim'[p] = 0
    BY <2>1, <2>4
  <2> QED
    BY <2>1, <2>5, <2>6, <2>7 DEF ClientOK
<1>6. ASSUME NEW u \in Threads PROVE CallOK(u)' /\ WaitsFor(u)'
  <2>1. CallOK(u) /\ WaitsFor(u) /\ UNCHANGED <<Serves(Home[u]), Coll(Home[u]), Of(Home[u])>>
        /\ req'[u] = req[u] /\ Home[u] \in Procs
    BY <1>1, QdrantAssumption DEF StoreInv, Serves, Coll, Of, dvars
  <2>2. CASE u = t
    BY <1>2, <2>1, <2>2 DEF CallMoves, CallOK, WaitsFor, Idle, Busy
  <2>3. CASE u # t
    <3>1. call'[u] = call[u] /\ opened[Home[u]] \in Nat /\ opened'[Home[u]] \in Nat /\ opened'[Home[u]] >= opened[Home[u]]
        BY <1>2, <2>1, <2>3, QdrantAssumption DEF CallMoves, ClientMoves, StoreInv, StoreType
    <3>2. call'[u].cli \in 1..opened[Home[u]] => call'[u].cli \in 1..opened'[Home[u]]
        BY <3>1
    <3> QED
        BY <2>1, <3>1, <3>2 DEF CallOK, WaitsFor, Idle, Busy
  <2> QED
    BY <2>2, <2>3
<1> QED
    BY <1>3, <1>5, <1>6 DEF StoreInv

\* A request goes on: what its thread is in changes, and no client.
LEMMA RequestCall ==
    ASSUME StoreInv, IInv, NEW t \in Threads, NEW c \in Calls,
           call' = [call EXCEPT ![t] = c],
           UNCHANGED <<db, client, opened, closed, dim, faults, dvars, rebuilt>>,
           seen' \in [Procs -> SUBSET Ids], disk' \in [Dirs -> SUBSET Ids], DOMAIN acked' \subseteq Ids,
           \A u \in Threads \ {t} : req'[u] = req[u],
           c.op = "none" <=> c.at = "none",
           c.at # "none" => Serves(Home[t]) /\ c.coll = Coll(Home[t]) /\ c.d = Of(Home[t]).dim,
           c.at \in {"none", "check"} \/ c = call[t],
           WaitsFor(t)'
    PROVE  StoreInv'
<1>1. call' \in [Threads -> Calls] /\ call'[t] = c /\ \A u \in Threads \ {t} : call'[u] = call[u]
    BY DEF StoreInv, StoreType
<1>2. StoreType'
    BY <1>1 DEF StoreInv, StoreType, dvars
<1>3. \A p \in Procs : ClientOK(p)'
    BY DEF StoreInv, ClientOK, Serves, dvars
<1>4. \A u \in Threads : UNCHANGED <<Serves(Home[u]), Coll(Home[u]), Of(Home[u])>>
    BY DEF Serves, Coll, Of, dvars
<1>5. ASSUME NEW u \in Threads PROVE CallOK(u)' /\ WaitsFor(u)'
  <2>1. CASE u = t
    BY <1>1, <1>4, <2>1 DEF StoreInv, CallOK, Idle
  <2>2. CASE u # t
    BY <1>1, <1>4, <2>2 DEF StoreInv, CallOK, WaitsFor, Idle, Busy
  <2> QED
    BY <2>1, <2>2
<1> QED
    BY <1>2, <1>3, <1>5 DEF StoreInv

\* A request step calls the store, takes the outcome of a call, or neither.
LEMMA BeginCall ==
    ASSUME StoreInv, IInv, NEW t \in Threads, NEW op \in Ops \ {"probe"}, NEW id \in Ids \union {NoId},
           Serves(Home[t]), Begin(t, op, Coll(Home[t]), Of(Home[t]).dim, id),
           UNCHANGED <<dvars, rebuilt>>,
           seen' \in [Procs -> SUBSET Ids], disk' \in [Dirs -> SUBSET Ids], DOMAIN acked' \subseteq Ids,
           \A u \in Threads \ {t} : req'[u] = req[u],
           req'[t].id \in Ids,
           \/ req'[t].at = "lookup" /\ op = "search"
           \/ req'[t].at = "evict" /\ op = "delete"
           \/ req'[t].at = "ensure" /\ op = "ensure"
           \/ req'[t].at = "upsert" /\ op = "upsert" /\ id = req'[t].id
    PROVE  StoreInv'
<1>1. Home[t] \in Procs
    BY QdrantAssumption
<1>2. Coll(Home[t]) \in Colls \union {"memory"} /\ Of(Home[t]).dim \in 1..MaxDim
    BY <1>1, ServingFacts DEF IInv
<1> DEFINE c == [op |-> op, at |-> "check", cli |-> 0, coll |-> Coll(Home[t]),
                 d |-> Of(Home[t]).dim, id |-> id, out |-> "none"]
<1>3. c \in Calls /\ c.op = op /\ c.op # "none" /\ c.at = "check" /\ c.id = id
      /\ c.coll = Coll(Home[t]) /\ c.d = Of(Home[t]).dim
    BY <1>2, QdrantAssumption DEF Calls, CallAt, Ops
<1>4. call' = [call EXCEPT ![t] = c] /\ UNCHANGED <<db, client, opened, closed, dim, faults>>
    BY DEF Begin
<1> HIDE DEF c
<1>5. call'[t] = c
    BY <1>4 DEF StoreInv, StoreType
<1>6. WaitsFor(t)'
    BY <1>3, <1>5 DEF WaitsFor, Busy, Idle
<1> QED
    BY <1>3, <1>4, <1>6, RequestCall

LEMMA NoMoreCall ==
    ASSUME StoreInv, IInv, NEW t \in Threads, Taken(t) \/ (UNCHANGED qvars /\ Idle(t)),
           UNCHANGED <<dvars, rebuilt>>,
           seen' \in [Procs -> SUBSET Ids], disk' \in [Dirs -> SUBSET Ids], DOMAIN acked' \subseteq Ids,
           \A u \in Threads \ {t} : req'[u] = req[u],
           req'[t].id \in Ids, req'[t].at \in {"generate", "done"}
    PROVE  StoreInv'
<1>1. NoCall \in Calls /\ NoCall.op = "none" /\ NoCall.at = "none"
    BY QdrantAssumption DEF NoCall, Calls, CallAt
<1>2. PICK c \in Calls : call' = [call EXCEPT ![t] = c] /\ c.at = "none" /\ c.op = "none"
  <2>1. CASE Taken(t)
    BY <1>1, <2>1 DEF Taken
  <2>2. CASE UNCHANGED qvars /\ Idle(t)
    <3>1. call' = [call EXCEPT ![t] = call[t]] /\ call[t] \in Calls
        BY <2>2 DEF qvars, StoreInv, StoreType
    <3> QED
        BY <2>2, <3>1 DEF StoreInv, CallOK, Idle
  <2> QED
    BY <2>1, <2>2
<1>3. call'[t] = c
    BY <1>2 DEF StoreInv, StoreType
<1>4. UNCHANGED <<db, client, opened, closed, dim, faults>>
    BY DEF Taken, qvars
<1>5. WaitsFor(t)'
    BY <1>2, <1>3 DEF WaitsFor, Busy, Idle
<1> QED
    BY <1>2, <1>4, <1>5, RequestCall

\* The other steps of a request.
LEMMA RequestStepKeeps ==
    ASSUME StoreInv, IInv, NEW t \in Threads, RequestStep(t)
    PROVE  StoreInv'
<1>1. Home[t] \in Procs /\ req \in [Threads -> Requests] /\ req[t] \in Requests
    BY QdrantAssumption DEF IInv, RequestInv
<1>2. /\ seen \in [Procs -> SUBSET Ids] /\ disk \in [Dirs -> SUBSET Ids] /\ DOMAIN acked \subseteq Ids
      /\ CallOK(t) /\ WaitsFor(t) /\ call[t] \in Calls
    BY DEF StoreInv, StoreType
<1>3. Busy(t) => /\ Serves(Home[t]) /\ req[t].id \in Ids
                 /\ Of(Home[t]).dir \in Dirs
    BY <1>1, <1>2, ServingFacts DEF WaitsFor, IInv, RequestInv, RequestOK
<1>4. ~Idle(t) => call[t].coll = Coll(Home[t]) /\ call[t].d = Of(Home[t]).dim
    BY <1>2 DEF CallOK
<1>5. ASSUME NEW id \in Ids, Request(t, id) PROVE StoreInv'
  <2>1. Serves(Home[t]) /\ UNCHANGED <<dvars, disk, seen, acked, rebuilt>> /\ Idle(t)
    BY <1>2, <1>5 DEF Request, Serves, rest, WaitsFor
  <2>2. CASE Of(Home[t]).encoder
    <3>1. req' = [req EXCEPT ![t] = [NoRequest EXCEPT !.at = "lookup", !.id = id]]
          /\ Begin(t, "search", Coll(Home[t]), Of(Home[t]).dim, NoId)
        BY <1>5, <2>2 DEF Request
    <3>2. req'[t].at = "lookup" /\ req'[t].id = id /\ \A u \in Threads \ {t} : req'[u] = req[u]
        BY <1>1, <3>1 DEF NoRequest
    <3> QED
        BY <1>2, <2>1, <3>1, <3>2, BeginCall DEF Ops
  <2>3. CASE ~Of(Home[t]).encoder
    <3>1. req'[t].at = "generate" /\ req'[t].id = id /\ \A u \in Threads \ {t} : req'[u] = req[u]
        BY <1>1, <1>5, <2>3 DEF Request, NoRequest
    <3>2. UNCHANGED qvars
        BY <1>5, <2>3 DEF Request
    <3> QED
        BY <1>2, <2>1, <3>1, <3>2, NoMoreCall
  <2> QED
    BY <2>2, <2>3
<1>6. CASE LookupMiss(t) \/ LookupHit(t) \/ Evicted(t)
  <2>1. /\ Taken(t) /\ UNCHANGED <<dvars, disk, seen, acked, rebuilt>> /\ Busy(t)
        /\ \E result : Resume(t, result)
    BY <1>6 DEF LookupMiss, LookupHit, Evicted, rest, Busy
  <2>2. req'[t].at = "generate" /\ req'[t].id = req[t].id /\ \A u \in Threads \ {t} : req'[u] = req[u]
    BY <1>1, <2>1 DEF Resume, Requests
  <2> QED
    BY <1>2, <1>3, <2>1, <2>2, NoMoreCall
<1>7. CASE LookupStale(t)
  <2>1. /\ Begin(t, "delete", Coll(Home[t]), Of(Home[t]).dim, call[t].id) /\ call[t].id \in Ids
        /\ UNCHANGED <<dvars, disk, seen, acked, rebuilt>> /\ Busy(t)
    BY <1>4, <1>7 DEF LookupStale, rest, Busy, Returned, Idle
  <2>2. req'[t].at = "evict" /\ req'[t].id = req[t].id /\ \A u \in Threads \ {t} : req'[u] = req[u]
    BY <1>1, <1>7 DEF LookupStale, Requests
  <2> QED
    BY <1>2, <1>3, <2>1, <2>2, BeginCall DEF Ops
<1>8. CASE SaveEnsured(t)
  <2>1. /\ Begin(t, "upsert", Coll(Home[t]), Of(Home[t]).dim, req[t].id)
        /\ UNCHANGED <<dvars, disk, seen, acked, rebuilt>> /\ Busy(t)
    BY <1>4, <1>8 DEF SaveEnsured, rest, Busy, Returned, Idle
  <2>2. req'[t].at = "upsert" /\ req'[t].id = req[t].id /\ \A u \in Threads \ {t} : req'[u] = req[u]
    BY <1>1, <1>8 DEF SaveEnsured, Requests
  <2> QED
    BY <1>2, <1>3, <2>1, <2>2, BeginCall DEF Ops
<1>9. CASE SaveDone(t)
  <2>1. Taken(t) /\ UNCHANGED <<dvars, disk, seen, rebuilt>> /\ Busy(t)
        /\ DOMAIN acked' = DOMAIN acked \union {req[t].id}
    BY <1>9 DEF SaveDone, Busy
  <2>2. req'[t].at = "done" /\ req'[t].id = req[t].id /\ \A u \in Threads \ {t} : req'[u] = req[u]
    BY <1>1, <1>9 DEF SaveDone, Requests
  <2> QED
    BY <1>2, <1>3, <2>1, <2>2, NoMoreCall
<1>10. CASE SaveFails(t)
  <2>1. /\ Taken(t) /\ UNCHANGED <<dvars, acked, rebuilt>> /\ Busy(t)
        /\ seen' = [seen EXCEPT ![Home[t]] = @ \ {req[t].id}]
        /\ disk' = [disk EXCEPT ![Of(Home[t]).dir] = seen'[Home[t]]]
    BY <1>10 DEF SaveFails, Busy
  <2>2. req'[t].at = "done" /\ req'[t].id = req[t].id /\ \A u \in Threads \ {t} : req'[u] = req[u]
    BY <1>1, <1>10 DEF SaveFails, Requests
  <2>3. seen' \in [Procs -> SUBSET Ids] /\ disk' \in [Dirs -> SUBSET Ids]
    BY <1>1, <1>2, <1>3, <2>1
  <2> QED
    BY <1>2, <1>3, <2>1, <2>2, <2>3, NoMoreCall
<1>11. ASSUME NEW s \in SUBSET req[t].saved, Generate(t, s) PROVE StoreInv'
  <2>1. Busy(t) /\ Idle(t) /\ UNCHANGED <<dvars, acked, rebuilt>>
    BY <1>2, <1>11 DEF Generate, Busy, WaitsFor
  <2>2. CASE OnResponse(s).steps = {} \/ ~Of(Home[t]).encoder
    <3>1. req'[t].at = "done" /\ req'[t].id = req[t].id /\ \A u \in Threads \ {t} : req'[u] = req[u]
        BY <1>1, <1>11, <2>2 DEF Generate, Requests
    <3>2. UNCHANGED <<qvars, seen, disk>>
        BY <1>11, <2>2 DEF Generate
    <3> QED
        BY <1>2, <1>3, <2>1, <3>1, <3>2, NoMoreCall
  <2>3. CASE ~(OnResponse(s).steps = {} \/ ~Of(Home[t]).encoder)
    <3>1. req'[t].at = "ensure" /\ req'[t].id = req[t].id /\ \A u \in Threads \ {t} : req'[u] = req[u]
        BY <1>1, <1>11, <2>3 DEF Generate, Requests
    <3>2. /\ Begin(t, "ensure", Coll(Home[t]), Of(Home[t]).dim, NoId)
          /\ seen' = [seen EXCEPT ![Home[t]] = @ \union {req[t].id}]
          /\ disk' = [disk EXCEPT ![Of(Home[t]).dir] = seen'[Home[t]]]
        BY <1>11, <2>3 DEF Generate
    <3>3. seen' \in [Procs -> SUBSET Ids] /\ disk' \in [Dirs -> SUBSET Ids]
        BY <1>1, <1>2, <1>3, <2>1, <3>2
    <3> QED
        BY <1>2, <1>3, <2>1, <3>1, <3>2, <3>3, BeginCall DEF Ops
  <2> QED
    BY <2>2, <2>3
<1> QED
    BY <1>5, <1>6, <1>7, <1>8, <1>9, <1>10, <1>11, InStoreKeeps DEF RequestStep

\* A process's life up to serving leaves the stores alone.
LEMMA QuietLifeKeeps ==
    ASSUME StoreInv, IInv, NEW p \in Procs, LaunchStep(p), ~Shutdown(p), ~Exit(p)
    PROVE  StoreInv'
<1>1. /\ UNCHANGED <<qvars, disk, req, acked, rebuilt>>
      /\ seen' \in [Procs -> SUBSET Ids] /\ launches' \in 0..MaxLaunches
      /\ \A q \in Procs : Serves(q) => Serves(q)' /\ cfg'[q] = cfg[q]
      /\ \A q \in Procs : phase'[q] = "serving" => phase[q] = "serving" \/ ~Serves(q)
  <2> USE DEF Serves, IInv, LaunchInv, LaunchType, StoreInv, StoreType
  <2>1. ASSUME NEW c \in Configs, Launch(p, c) PROVE <1>1!:
    BY <2>1, DeploymentAssumption DEF Launch
  <2>2. ASSUME NEW c \in Configs, StartOwn(p, c) PROVE <1>1!:
    BY <2>2, DeploymentAssumption DEF StartOwn
  <2>3. CASE FillFile(p) \/ ImportPipeline(p) \/ CreateFails(p)
    BY <2>3 DEF FillFile, ImportPipeline, CreateFails
  <2>4. CASE CreateService(p)
    <3>1. Config[LoadedConfig(p)].dir \in Dirs
        BY <2>4, LoadsOwn DEF CreateService, Dirs
    <3>2. seen' \in [Procs -> SUBSET Ids]
        BY <2>4, <3>1 DEF CreateService
    <3> QED
        BY <2>4, <3>2 DEF CreateService
  <2> QED
    BY <2>1, <2>2, <2>3, <2>4 DEF LaunchStep
<1>2. StoreType'
    BY <1>1 DEF StoreInv, StoreType, qvars
<1>3. ASSUME NEW q \in Procs PROVE ClientOK(q)'
  <2>1. ClientOK(q) /\ UNCHANGED <<client, opened, closed, rebuilt, dim>>
    BY <1>1 DEF StoreInv, qvars
  <2>2. ~Serves(q) => closed[q] = {}
    BY <2>1 DEF ClientOK
  <2> QED
    BY <1>1, <2>1, <2>2 DEF ClientOK
<1>4. ASSUME NEW u \in Threads PROVE CallOK(u)' /\ WaitsFor(u)'
  <2>1. CallOK(u) /\ WaitsFor(u) /\ UNCHANGED <<call, req, opened>> /\ Home[u] \in Procs
    BY <1>1, QdrantAssumption DEF StoreInv, qvars
  <2>2. ~Idle(u) => Serves(Home[u])' /\ UNCHANGED <<Coll(Home[u]), Of(Home[u])>>
    BY <1>1, <2>1 DEF CallOK, Coll, Of
  <2> QED
    BY <2>1, <2>2 DEF CallOK, WaitsFor, Idle, Busy
<1> QED
    BY <1>2, <1>3, <1>4 DEF StoreInv

LEMMA ShutdownKeeps ==
    ASSUME StoreInv, IInv, NEW p \in Procs, Shutdown(p)
    PROVE  StoreInv'
<1>1. /\ client' = [client EXCEPT ![p] = 0]
      /\ closed' = [closed EXCEPT ![p] = IF client[p] = 0 THEN @ ELSE @ \union {client[p]}]
      /\ phase' = [phase EXCEPT ![p] = "closed"]
      /\ UNCHANGED <<db, opened, dim, call, faults, cfg, launches, seen, disk, req, acked, rebuilt>>
      /\ Serves(p)
    BY DEF Shutdown, Close, Serves
<1>2. StoreType'
    BY <1>1, QdrantAssumption DEF StoreInv, StoreType
<1>3. ASSUME NEW q \in Procs PROVE ClientOK(q)'
    BY <1>1, QdrantAssumption DEF StoreInv, StoreType, ClientOK, Serves, IInv, LaunchInv, LaunchType
<1>4. \A q \in Procs : Serves(q)' <=> Serves(q)
    BY <1>1 DEF Serves, IInv, LaunchInv, LaunchType
<1>5. ASSUME NEW u \in Threads PROVE CallOK(u)' /\ WaitsFor(u)'
  <2>1. UNCHANGED <<Coll(Home[u]), Of(Home[u])>> /\ Home[u] \in Procs
    BY <1>1, QdrantAssumption DEF Coll, Of
  <2> QED
    BY <1>1, <1>4, <2>1 DEF StoreInv, CallOK, WaitsFor, Idle, Busy
<1> QED
    BY <1>2, <1>3, <1>5 DEF StoreInv

\* The end of a process takes its calls and clients along.
ExitFacts(p) ==
    /\ \A t \in Threads : IF Home[t] = p THEN call'[t] = NoCall /\ req'[t] = NoRequest
                          ELSE call'[t] = call[t] /\ req'[t] = req[t]
    /\ \A q \in Procs \ {p} : UNCHANGED <<phase[q], chosen[q], cfg[q], client[q], opened[q], closed[q],
                                          dim[q], seen[q], rebuilt[q], Coll(q), Of(q)>>
    /\ phase'[p] = "down" /\ client'[p] = 0 /\ opened'[p] = 0 /\ closed'[p] = {} /\ dim'[p] = 0
    /\ rebuilt'[p] = FALSE
    /\ UNCHANGED <<faults, disk, launches, overtaken>>
    /\ \A pl \in Place : pl[1] # p => db'[pl] = db[pl]

LEMMA ExitMoves ==
    ASSUME StoreInv, IInv, NEW p \in Procs, Exit(p)
    PROVE  ExitFacts(p)
<1>1. ASSUME NEW q \in Procs \ {p} PROVE UNCHANGED <<cfg[q], Coll(q), Of(q)>>
    BY DEF Exit, IInv, LaunchInv, LaunchType, Coll, Of
<1> QED
    BY <1>1 DEF Exit, ExitFacts, StoreGone, StoreInv, StoreType, IInv, LaunchInv, LaunchType

LEMMA ExitKeeps ==
    ASSUME StoreInv, IInv, NEW p \in Procs, Exit(p)
    PROVE  StoreInv'
<1>1. ExitFacts(p)
    BY ExitMoves
<1>2. NoCall \in Calls /\ NoCall.op = "none" /\ NoCall.at = "none"
    BY QdrantAssumption DEF NoCall, Calls, CallAt
<1>3. StoreType'
  <2>1. db' \in [Place -> Collection]
    <3>1. NoCollection \in Collection
        BY QdrantAssumption DEF NoCollection, Collection
    <3> QED
        BY <3>1 DEF Exit, StoreGone, StoreInv, StoreType
  <2>2. call' \in [Threads -> Calls]
    BY <1>2 DEF Exit, StoreGone, StoreInv, StoreType
  <2>3. /\ client' \in [Procs -> 0..MaxClients] /\ opened' \in [Procs -> 0..MaxClients]
        /\ closed' \in [Procs -> SUBSET (1..MaxClients)] /\ dim' \in [Procs -> 0..MaxDim]
    BY QdrantAssumption DEF Exit, StoreGone, StoreInv, StoreType
  <2>4. /\ faults' \in 0..MaxFaults /\ disk' \in [Dirs -> SUBSET Ids] /\ launches' \in 0..MaxLaunches
        /\ seen' \in [Procs -> SUBSET Ids] /\ rebuilt' \in [Procs -> BOOLEAN] /\ DOMAIN acked' \subseteq Ids
    BY DEF Exit, StoreGone, StoreInv, StoreType
  <2> QED
    BY <2>1, <2>2, <2>3, <2>4 DEF StoreType
<1>4. ASSUME NEW q \in Procs PROVE ClientOK(q)'
    BY <1>1 DEF ExitFacts, StoreInv, ClientOK, Serves
<1>5. ASSUME NEW u \in Threads PROVE CallOK(u)' /\ WaitsFor(u)'
  <2>1. Home[u] \in Procs
    BY QdrantAssumption
  <2>2. CASE Home[u] = p
    BY <1>1, <1>2, <2>1, <2>2 DEF ExitFacts, CallOK, WaitsFor, Idle, Busy, NoRequest
  <2>3. CASE Home[u] # p
    BY <1>1, <2>1, <2>3 DEF ExitFacts, StoreInv, CallOK, WaitsFor, Idle, Busy, Serves
  <2> QED
    BY <2>2, <2>3
<1> QED
    BY <1>3, <1>4, <1>5 DEF StoreInv

LEMMA StoreInvInit == Init => StoreInv
<1> SUFFICES ASSUME Init PROVE StoreInv
    OBVIOUS
<1>1. NoCall \in Calls /\ NoCall.op = "none" /\ NoCall.at = "none" /\ NoRequest.at = "none"
    BY QdrantAssumption DEF NoCall, Calls, CallAt, NoRequest
<1>2. NoCollection \in Collection
    BY QdrantAssumption DEF NoCollection, Collection
<1>3. StoreType
    BY <1>1, <1>2, QdrantAssumption, DeploymentAssumption DEF Init, StoreInit, StoreType
<1>4. \A p \in Procs : ClientOK(p)
    BY DEF Init, StoreInit, ClientOK, Serves
<1>5. \A t \in Threads : CallOK(t) /\ WaitsFor(t)
    BY <1>1 DEF Init, StoreInit, CallOK, WaitsFor, Idle, Busy
<1> QED
    BY <1>3, <1>4, <1>5 DEF StoreInv

LEMMA StoreInvStep == StoreInv /\ IInv /\ [Next]_vars => StoreInv'
<1> SUFFICES ASSUME StoreInv, IInv, [Next]_vars PROVE StoreInv'
    OBVIOUS
<1>1. ASSUME NEW p \in Procs, LaunchStep(p) PROVE StoreInv'
    BY <1>1, QuietLifeKeeps, ShutdownKeeps, ExitKeeps
<1>2. ASSUME NEW t \in Threads, RequestStep(t) PROVE StoreInv'
    BY <1>2, RequestStepKeeps
<1>3. CASE UNCHANGED vars
    BY <1>3 DEF vars, qvars, dvars, StoreInv, StoreType, ClientOK, CallOK, WaitsFor, Serves,
       Busy, Idle, Coll, Of
<1> QED
    BY <1>1, <1>2, <1>3 DEF Next

\* Every variable of a deployment, of its stores and of the calls on them has
\* its type.
THEOREM TypeCorrect == Spec => []TypeOK
<1>1. StoreInv /\ IInv => TypeOK
    BY DEF StoreInv, StoreType, IInv, LaunchInv, LaunchType, TypeOK, StoreTypeOK, Calls, CallAt
<1> QED
    BY InitInv, StepInv, StoreInvInit, StoreInvStep, <1>1, PTL DEF Spec

-----------------------------------------------------------------------------
(* Dimensions. *)

\* Only a collection that was seen to exist is asked for its dimension.
ProbeOK(t) ==
    call[t].op = "probe" /\ OnServer(t) => db[<<"server", call[t].coll>>].size # 0

DimOK(p) ==
    dim[p] # 0 /\ faults = 0 /\ phase[p] = "serving" /\ Coll(p) # "memory"
      => dim[p] = db[<<"server", Coll(p)>>].size

DimInv == (\A t \in Threads : ProbeOK(t)) /\ (\A p \in Procs : DimOK(p))

\* How a step of a store call may change what is stored: the size of a
\* collection is set once, points come by an upsert and go by a delete.
DbMoves(t) ==
    /\ db' \in [Place -> Collection]
    /\ \A pl \in Place : \/ db'[pl].size = db[pl].size
                         \/ db[pl].size = 0 /\ pl = At(t) /\ Create(t)
    /\ \A pl \in Place, i \in Ids :
         /\ i \in db[pl].points /\ i \notin db'[pl].points =>
              call[t].op = "delete" /\ call[t].id = i /\ pl = At(t)
         /\ i \in db'[pl].points /\ i \notin db[pl].points =>
              call[t].op = "upsert" /\ call[t].id = i /\ pl = At(t) /\ db[pl].size = call[t].d
    /\ faults' = faults \/ faults' = faults + 1

LEMMA DbStepMoves ==
    ASSUME StoreInv, IInv, NEW t \in Threads, StoreStep(t)
    PROVE  DbMoves(t)
<1>1. db \in [Place -> Collection] /\ db' \in [Place -> Collection] /\ call[t] \in Calls
    BY StoreStepTypes DEF StoreInv, StoreType
<1>2. faults' = faults \/ faults' = faults + 1
    BY DEF StoreStep, CheckClient, BuildClient, AskFails, SearchAsk, DeleteAsk, ExistsAsk,
           Probe, Create, UpsertAsk, UpsertAnswerLost, Fault
<1>3. CASE UNCHANGED db
    BY <1>1, <1>2, <1>3 DEF DbMoves
<1>4. CASE ~UNCHANGED db
  <2>1. DeleteAsk(t) \/ Create(t) \/ UpsertAsk(t) \/ UpsertAnswerLost(t)
    BY <1>4 DEF StoreStep, CheckClient, BuildClient, AskFails, SearchAsk, ExistsAsk, Probe
  <2>2. At(t) \in Place
    BY <2>1, PlaceFacts DEF IInv, DeleteAsk, Create, UpsertAsk, UpsertAnswerLost
  <2>3. \A pl \in Place : pl # At(t) => db'[pl] = db[pl]
    BY <1>1, <1>4, <2>1, <2>2 DEF DeleteAsk, Create, UpsertAsk, UpsertAnswerLost
  <2>4. db[At(t)] \in Collection
    BY <1>1, <2>2
  <2>5. CASE DeleteAsk(t)
    <3>1. /\ db'[At(t)].size = db[At(t)].size /\ call[t].op = "delete"
          /\ db'[At(t)].points = db[At(t)].points \ {call[t].id}
        BY <1>1, <2>2, <2>4, <2>5 DEF DeleteAsk, Collection
    <3> QED
        BY <1>1, <1>2, <2>2, <2>3, <3>1 DEF DbMoves
  <2>6. CASE Create(t)
    <3>1. db[At(t)].size = 0 /\ db'[At(t)].points = db[At(t)].points
        BY <1>1, <1>4, <2>2, <2>4, <2>6 DEF Create, Collection
    <3> QED
        BY <1>1, <1>2, <2>2, <2>3, <2>6, <3>1 DEF DbMoves
  <2>7. CASE UpsertAsk(t) \/ UpsertAnswerLost(t)
    <3>1. /\ db'[At(t)].size = db[At(t)].size /\ call[t].op = "upsert" /\ db[At(t)].size = call[t].d
          /\ db'[At(t)].points = db[At(t)].points \union {call[t].id}
        BY <1>1, <1>4, <2>2, <2>4, <2>7 DEF UpsertAsk, UpsertAnswerLost, Collection
    <3> QED
        BY <1>1, <1>2, <2>2, <2>3, <3>1 DEF DbMoves
  <2> QED
    BY <2>1, <2>5, <2>6, <2>7
<1> QED
    BY <1>3, <1>4

\* A collection of the server.
LEMMA ServerPlace ==
    ASSUME NEW c \in Colls
    PROVE  <<"server", c>> \in Place
BY DEF Place

LEMMA InStoreKeepsDims ==
    ASSUME StoreInv, IInv, DimInv, NEW t \in Threads, InStore(t)
    PROVE  DimInv'
<1>1. StoreStep(t) /\ UNCHANGED dvars
    BY DEF InStore
<1>2. CallMoves(t) /\ ClientMoves(t) /\ DbMoves(t)
    BY <1>1, StoreStepMoves, DbStepMoves
<1>3. /\ Home[t] \in Procs /\ CallOK(t) /\ Serves(Home[t]) /\ ~Idle(t)
      /\ call[t].coll = Coll(Home[t]) /\ call[t].d = Of(Home[t]).dim
      /\ Coll(Home[t]) \in Colls \union {"memory"} /\ Of(Home[t]).dim \in 1..MaxDim
    BY <1>2, ServingFacts, QdrantAssumption DEF CallMoves, StoreInv, CallOK, Idle, IInv
<1>4. db \in [Place -> Collection] /\ dim \in [Procs -> 0..MaxDim] /\ faults \in Nat
    BY QdrantAssumption DEF StoreInv, StoreType
<1>5. OnServer(t) => At(t) = <<"server", call[t].coll>> /\ At(t) \in Place
    BY <1>3, ServerPlace DEF OnServer, At, PlaceOf
<1>6. ASSUME NEW u \in Threads PROVE ProbeOK(u)'
  <2> SUFFICES ASSUME call'[u].op = "probe", call'[u].coll # "memory"
               PROVE  db'[<<"server", call'[u].coll>>].size # 0
    BY DEF ProbeOK, OnServer
  <2>1. call'[u].coll \in Colls /\ call'[u].coll = call[u].coll
    <3>1. CallOK(u) /\ call'[u].coll = call[u].coll /\ call[u].op # "none" /\ Home[u] \in Procs
        BY <1>2, <1>3, QdrantAssumption DEF StoreInv, CallMoves, CallOK
    <3> QED
        BY <3>1, ServingFacts DEF CallOK, Idle, IInv
  <2>2. <<"server", call[u].coll>> \in Place
    BY <2>1, ServerPlace
  <2>3. CASE call[u].op = "probe"
    <3>1. db[<<"server", call[u].coll>>].size # 0
        BY <2>1, <2>3 DEF DimInv, ProbeOK, OnServer
    <3> QED
        BY <1>2, <2>1, <2>2, <3>1 DEF DbMoves
  <2>4. CASE call[u].op # "probe"
    <3>1. u = t /\ ExistsAsk(t)
        BY <1>2, <1>1, <1>4, <2>4 DEF CallMoves, StoreStep, CheckClient, BuildClient, AskFails,
           SearchAsk, DeleteAsk,
           Probe, Create, UpsertAsk, UpsertAnswerLost, Move, Use, Finish, Calls, StoreInv, StoreType
    <3>2. db[At(t)].size # 0 /\ UNCHANGED db
        BY <1>4, <2>4, <3>1 DEF ExistsAsk, Move, Calls, StoreInv, StoreType
    <3> QED
        BY <1>5, <2>1, <3>1, <3>2 DEF OnServer
  <2> QED
    BY <2>3, <2>4
<1>7. ASSUME NEW p \in Procs PROVE DimOK(p)'
  <2> SUFFICES ASSUME dim'[p] # 0, faults' = 0, phase[p] = "serving", Coll(p) # "memory"
               PROVE  dim'[p] = db'[<<"server", Coll(p)>>].size
    BY <1>1 DEF DimOK, dvars, Coll, Of
  <2>1. faults = 0 /\ Coll(p) \in Colls /\ <<"server", Coll(p)>> \in Place
    BY <1>2, <1>4, ServingFacts, ServerPlace DEF DbMoves, IInv, Serves
  <2>2. CASE dim'[p] = dim[p]
    <3>1. dim[p] = db[<<"server", Coll(p)>>].size
        BY <2>1, <2>2 DEF DimInv, DimOK
    <3> QED
        BY <1>2, <2>1, <2>2, <3>1 DEF DbMoves
  <2>3. CASE dim'[p] # dim[p]
    <3>1. p = Home[t] /\ (Probe(t) \/ Create(t))
        BY <1>1, <1>4, <2>3 DEF StoreStep, CheckClient, BuildClient, AskFails, SearchAsk,
           DeleteAsk, ExistsAsk,
           UpsertAsk, UpsertAnswerLost, Probe, Create
    <3>2. OnServer(t) /\ At(t) = <<"server", Coll(p)>>
        BY <1>3, <1>5, <3>1 DEF OnServer
    <3>3. CASE Create(t)
        BY <1>4, <2>1, <2>3, <3>1, <3>2, <3>3 DEF Create, Collection
    <3>4. CASE Probe(t)
      <4>1. ~Unusable(t)
        BY <3>1 DEF StoreInv, ClientOK, Unusable
      <4>2. db[At(t)].size # 0
        BY <1>3, <3>1, <3>2, <3>4 DEF DimInv, ProbeOK, Probe
      <4>3. ~MayFail(t) \/ dim' = [dim EXCEPT ![Home[t]] = db[At(t)].size]
        BY <2>1, <3>4, <4>1, <4>2 DEF Probe, Fault
      <4>4. dim' = [dim EXCEPT ![Home[t]] = db[At(t)].size] /\ UNCHANGED db
        BY <3>4, <4>2, <4>3 DEF Probe
      <4> QED
        BY <1>4, <3>1, <3>2, <4>4
    <3> QED
        BY <3>1, <3>3, <3>4
  <2> QED
    BY <2>2, <2>3
<1> QED
    BY <1>6, <1>7 DEF DimInv

\* What a step of a request, not one of a store call, may change of the calls:
\* it begins one, other than the probe within ensure_collection, or takes the
\* outcome of one.
OneCall(t) ==
    /\ \A u \in Threads \ {t} : call'[u] = call[u]
    /\ \/ call'[t] = call[t]
       \/ call'[t] = NoCall
       \/ \E op \in Ops \ {"probe"}, id \in Ids \union {NoId} :
            call'[t] = [op |-> op, at |-> "check", cli |-> 0, coll |-> Coll(Home[t]),
                        d |-> Of(Home[t]).dim, id |-> id, out |-> "none"]

LEMMA CallsOf ==
    ASSUME StoreInv, IInv, NEW t \in Threads, RequestStep(t), ~InStore(t)
    PROVE  UNCHANGED <<db, client, opened, dim, faults, dvars>> /\ OneCall(t)
<1>1. call \in [Threads -> Calls] /\ CallOK(t) /\ WaitsFor(t)
    BY DEF StoreInv, StoreType
<1>2. ASSUME NEW op \in Ops \ {"probe"}, NEW id \in Ids \union {NoId},
             Begin(t, op, Coll(Home[t]), Of(Home[t]).dim, id), UNCHANGED dvars
      PROVE  UNCHANGED <<db, client, opened, dim, faults, dvars>> /\ OneCall(t)
    BY <1>1, <1>2 DEF Begin, OneCall
<1>3. ASSUME Taken(t) \/ UNCHANGED qvars, UNCHANGED dvars
      PROVE  UNCHANGED <<db, client, opened, dim, faults, dvars>> /\ OneCall(t)
    BY <1>1, <1>3 DEF Taken, qvars, OneCall
<1>4. ASSUME NEW id \in Ids, Request(t, id)
      PROVE  UNCHANGED <<db, client, opened, dim, faults, dvars>> /\ OneCall(t)
  <2>1. UNCHANGED dvars
    BY <1>4 DEF Request, rest
  <2>2. UNCHANGED qvars \/ Begin(t, "search", Coll(Home[t]), Of(Home[t]).dim, NoId)
    BY <1>4 DEF Request
  <2> QED
    BY <1>2, <1>3, <2>1, <2>2 DEF Ops
<1>5. CASE LookupMiss(t) \/ LookupHit(t) \/ Evicted(t) \/ SaveDone(t) \/ SaveFails(t)
    BY <1>3, <1>5 DEF LookupMiss, LookupHit, Evicted, SaveDone, SaveFails, rest
<1>6. CASE LookupStale(t)
  <2>1. UNCHANGED dvars /\ Begin(t, "delete", Coll(Home[t]), Of(Home[t]).dim, call[t].id) /\ call[t].id \in Ids
    BY <1>1, <1>6 DEF LookupStale, rest, Returned, Idle, CallOK
  <2> QED
    BY <1>2, <2>1 DEF Ops
<1>7. CASE SaveEnsured(t)
  <2>1. UNCHANGED dvars /\ Begin(t, "upsert", Coll(Home[t]), Of(Home[t]).dim, req[t].id) /\ req[t].id \in Ids
    BY <1>1, <1>7 DEF SaveEnsured, rest, Returned, Idle, CallOK, WaitsFor, Busy
  <2> QED
    BY <1>2, <2>1 DEF Ops
<1>8. ASSUME NEW s \in SUBSET req[t].saved, Generate(t, s)
      PROVE  UNCHANGED <<db, client, opened, dim, faults, dvars>> /\ OneCall(t)
  <2>1. UNCHANGED dvars
    BY <1>8 DEF Generate
  <2>2. UNCHANGED qvars \/ Begin(t, "ensure", Coll(Home[t]), Of(Home[t]).dim, NoId)
    BY <1>8 DEF Generate
  <2> QED
    BY <1>2, <1>3, <2>1, <2>2 DEF Ops
<1> QED
    BY <1>4, <1>5, <1>6, <1>7, <1>8 DEF RequestStep

LEMMA DimInvStep == StoreInv /\ IInv /\ DimInv /\ [Next]_vars => DimInv'
<1> SUFFICES ASSUME StoreInv, IInv, DimInv, [Next]_vars PROVE DimInv'
    OBVIOUS
<1>1. ASSUME NEW t \in Threads, RequestStep(t), ~InStore(t) PROVE DimInv'
  <2>1. UNCHANGED <<db, client, opened, dim, faults, dvars>> /\ OneCall(t)
    BY <1>1, CallsOf
  <2>2. call'[t] = call[t] \/ call'[t].op # "probe"
    <3>1. CASE call'[t] \in {call[t], NoCall}
        BY <3>1 DEF NoCall
    <3>2. CASE call'[t] \notin {call[t], NoCall}
      <4>1. PICK op \in Ops \ {"probe"}, id \in Ids \union {NoId} :
               call'[t] = [op |-> op, at |-> "check", cli |-> 0, coll |-> Coll(Home[t]),
                           d |-> Of(Home[t]).dim, id |-> id, out |-> "none"]
        BY <2>1, <3>2 DEF OneCall
      <4> QED
        BY <4>1
    <3> QED
        BY <3>1, <3>2
  <2>3. \A u \in Threads : call'[u] = call[u] \/ call'[u].op # "probe"
    BY <2>1, <2>2 DEF OneCall
  <2> QED
    BY <2>1, <2>3 DEF DimInv, ProbeOK, DimOK, OnServer, Coll, Of, dvars
<1>2. ASSUME NEW p \in Procs, LaunchStep(p), ~Exit(p) PROVE DimInv'
  <2>1. /\ UNCHANGED <<db, dim, faults, call>>
        /\ \A q \in Procs : phase'[q] = "serving" /\ phase[q] # "serving" => ~Serves(q)
        /\ \A q \in Procs : Serves(q) => cfg'[q] = cfg[q]
    BY <1>2 DEF LaunchStep, Launch, StartOwn, FillFile, ImportPipeline, CreateService, CreateFails,
                Shutdown, Close, qvars, Serves, IInv, LaunchInv, LaunchType
  <2>2. ASSUME NEW q \in Procs PROVE DimOK(q)'
    <3>1. CASE phase[q] = "serving"
        BY <2>1, <3>1 DEF DimInv, DimOK, Coll, Of, Serves
    <3>2. CASE phase[q] # "serving"
        BY <2>1, <3>2 DEF DimOK, StoreInv, ClientOK
    <3> QED
        BY <3>1, <3>2
  <2> QED
    BY <2>1, <2>2 DEF DimInv, ProbeOK, OnServer
<1>3. ASSUME NEW p \in Procs, Exit(p) PROVE DimInv'
  <2>1. ExitFacts(p)
    BY <1>3, ExitMoves
  <2>2. \A c \in Colls : UNCHANGED db[<<"server", c>>]
    BY <2>1, ServerPlace, QdrantAssumption DEF ExitFacts
  <2>3. ASSUME NEW q \in Procs PROVE DimOK(q)'
    <3>1. Serves(q) => Coll(q) \in Colls \union {"memory"}
        BY ServingFacts DEF IInv
    <3> QED
        BY <2>1, <2>2, <3>1 DEF ExitFacts, DimInv, DimOK, Serves
  <2>4. ASSUME NEW u \in Threads PROVE ProbeOK(u)'
    <3>1. CallOK(u) /\ Home[u] \in Procs
        BY QdrantAssumption DEF StoreInv
    <3>2. call[u].op = "probe" => call[u].coll \in Colls \union {"memory"}
        BY <3>1, ServingFacts DEF CallOK, IInv
    <3> QED
        BY <2>1, <2>2, <3>2 DEF ExitFacts, NoCall, DimInv, ProbeOK, OnServer
  <2> QED
    BY <2>3, <2>4 DEF DimInv
<1>4. CASE UNCHANGED vars
    BY <1>4 DEF vars, qvars, dvars, DimInv, ProbeOK, DimOK, OnServer, Coll, Of
<1> QED
    BY <1>1, <1>2, <1>3, <1>4, InStoreKeepsDims DEF Next

\* The dimension a serving process checks its vectors against is the server's
\* while no request failed, whoever created the collection and whoever else
\* asked for its dimension meanwhile (qdrant.py: ensure_collection).
THEOREM DimsTrueHolds == Spec => []DimsTrue
<1>1. Init => DimInv
    BY DEF Init, StoreInit, NoCall, DimInv, ProbeOK, DimOK
<1>2. DimInv => DimsTrue
    BY DEF DimInv, DimOK, DimsTrue
<1> QED
    BY InitInv, StepInv, StoreInvInit, StoreInvStep, DimInvStep, <1>1, <1>2, PTL DEF Spec

-----------------------------------------------------------------------------
(* Points and who may find them. *)

Crossed == \E q \in Procs : overtaken[q]

\* A request that has not been answered, and whose id is not acknowledged.
Active(u) == req[u].at \in {"lookup", "evict", "generate", "ensure", "upsert"}

\* Where the points of process p in collection c are.
Owns(p, c, pl) == IF c = "memory" THEN pl[1] = p ELSE pl = <<"server", c>>

\* The latents are there before the vector.
ActiveOK(u) ==
    Active(u) => /\ req[u].id \notin DOMAIN acked
                 /\ req[u].at \in {"ensure", "upsert"} => req[u].id \in seen[Home[u]]

\* A point is where the request or the save that it is of has its points.
PointOK(pl, i) ==
    i \in db[pl].points =>
      /\ db[pl].size # 0
      /\ \A u \in Threads : Active(u) /\ req[u].id = i =>
           /\ req[u].at = "upsert"
           /\ Owns(Home[u], Coll(Home[u]), pl)
           /\ db[pl].size = Of(Home[u]).dim
      /\ i \in DOMAIN acked => Owns(acked[i].by, acked[i].coll, pl)

\* An upsert that returned has stored its point.
UpsertOK(u) ==
    req[u].at = "upsert" /\ Returned(u) /\ ~Raised(u) =>
      (OnServer(u) /\ Crossed) \/ req[u].id \in db[At(u)].points

\* Point i is one thread t may find: of its own process, and comparable.
OwnPoint(t, i) ==
    /\ \A u \in Threads : Active(u) /\ req[u].id = i =>
         /\ req[u].at = "upsert"
         /\ (OnServer(t) /\ Crossed) \/ Home[u] = Home[t]
    /\ OnServer(t) => db[<<"server", call[t].coll>>].size = call[t].d
    /\ i \in DOMAIN acked =>
         \/ OnServer(t) /\ Crossed
         \/ acked[i] = [by |-> Home[t], coll |-> call[t].coll]

FoundOK(t) ==
    call[t].op = "search" /\ call[t].id # NoId => OwnPoint(t, call[t].id)

\* What is evicted was never acknowledged and will not be.
DeleteOK(t) ==
    call[t].op = "delete" =>
      \/ OnServer(t) /\ Crossed
      \/ /\ call[t].id \notin DOMAIN acked
         /\ \A u \in Threads : Active(u) => req[u].id # call[t].id

\* The configurations that put points where the save of i did.
Meets(i, d) ==
    LET c == acked[i].coll IN
    Config[d].url /\ Config[d].collection = c /\ Config[d].dim = db[<<"server", c>>].size

\* An acknowledged save has its point, and its latents where any process that
\* finds the point looks for them.
AckOK(i) ==
    LET p == acked[i].by  c == acked[i].coll IN
    /\ acked[i] \in [by : Procs, coll : Colls \union {"memory"}]
    /\ c = "memory" => /\ Serves(p) /\ opened[p] # 0 /\ i \in seen[p]
                       /\ rebuilt[p] \/ client[p] = 0 \/ i \in db[<<p, client[p]>>].points
    /\ c # "memory" /\ ~Crossed =>
         /\ i \in db[<<"server", c>>].points
         /\ \E d \in ConfigsOf(p) : Meets(i, d)
         /\ \A d \in ConfigsOf(p) : Meets(i, d) => i \in disk[Config[d].dir]

\* Unless two launches crossed, a process runs one of its configurations, and
\* alone writes its index.
RunsOwn(p) ==
    /\ phase[p] # "down" => chosen[p] \in ConfigsOf(p)
    /\ Serves(p) /\ ~Crossed => cfg[p] \in ConfigsOf(p) /\ seen[p] = disk[Of(p).dir]

FindInv ==
    /\ \A u \in Threads : ActiveOK(u) /\ UpsertOK(u) /\ FoundOK(u) /\ DeleteOK(u)
    /\ \A pl \in Place, i \in Ids : PointOK(pl, i)
    /\ \A i \in DOMAIN acked : AckOK(i)
    /\ \A p \in Procs : RunsOwn(p)

\* All that is known of a state.
Known == StoreInv /\ IInv /\ FindInv

\* A place tells whose it is.
LEMMA SameOwner ==
    ASSUME NEW p \in Procs, NEW q \in Procs, NEW c, NEW d, NEW pl,
           Owns(p, c, pl), Owns(q, d, pl)
    PROVE  c = d /\ (c = "memory" => p = q)
BY QdrantAssumption DEF Owns

LEMMA OwnsAt ==
    ASSUME NEW t \in Threads, call[t].coll = Coll(Home[t])
    PROVE  /\ Owns(Home[t], Coll(Home[t]), At(t))
           /\ OnServer(t) => At(t) = <<"server", Coll(Home[t])>>
           /\ ~OnServer(t) => At(t) = <<Home[t], call[t].cli>>
BY DEF Owns, At, PlaceOf, OnServer

\* In a deployment that keeps its processes apart, no other process has
\* points where a serving one has its own.
LEMMA ApartFacts ==
    ASSUME Apart, ~Crossed, NEW p \in Procs, Serves(p), RunsOwn(p), Coll(p) # "memory",
           NEW q \in Procs, NEW d \in ConfigsOf(q),
           Config[d].url, Config[d].collection = Coll(p), Config[d].dim = Of(p).dim
    PROVE  p = q /\ Config[d].dir = Of(p).dir
<1>1. cfg[p] \in ConfigsOf(p) /\ Config[cfg[p]].url /\ Config[cfg[p]].collection = Coll(p)
    BY DEF RunsOwn, Coll, Of
<1> QED
    BY <1>1 DEF Apart, Of

LEMMA ApartServing ==
    ASSUME Apart, ~Crossed, NEW p \in Procs, NEW q \in Procs, Serves(p), Serves(q),
           RunsOwn(p), RunsOwn(q), Coll(p) # "memory", Coll(p) = Coll(q), Of(p).dim = Of(q).dim
    PROVE  p = q
<1>1. cfg[q] \in ConfigsOf(q) /\ Config[cfg[q]].url /\ Config[cfg[q]].collection = Coll(p)
    BY DEF RunsOwn, Coll, Of
<1> QED
    BY <1>1, ApartFacts DEF Of

\* What is known of a thread's call and request.
LEMMA ThreadFacts ==
    ASSUME Known, NEW t \in Threads
    PROVE  /\ Home[t] \in Procs /\ call[t] \in Calls /\ req[t] \in Requests
           /\ CallOK(t) /\ WaitsFor(t) /\ RequestOK(t) /\ RunsOwn(Home[t]) /\ ClientOK(Home[t])
           /\ opened[Home[t]] \in 0..MaxClients /\ client[Home[t]] \in 0..MaxClients
           /\ ~Idle(t) => /\ call[t].coll = Coll(Home[t]) /\ call[t].d = Of(Home[t]).dim
                          /\ Serves(Home[t])
                          /\ Of(Home[t]).dim \in 1..MaxDim
                          /\ Coll(Home[t]) \in Colls \union {"memory"}
<1>1. /\ Home[t] \in Procs /\ call[t] \in Calls /\ req[t] \in Requests
      /\ CallOK(t) /\ WaitsFor(t) /\ RequestOK(t) /\ RunsOwn(Home[t]) /\ ClientOK(Home[t])
      /\ opened[Home[t]] \in 0..MaxClients /\ client[Home[t]] \in 0..MaxClients
    BY QdrantAssumption DEF Known, StoreInv, StoreType, IInv, RequestInv, FindInv
<1>2. Serves(Home[t]) => Of(Home[t]).dim \in 1..MaxDim /\ Coll(Home[t]) \in Colls \union {"memory"}
    BY <1>1, ServingFacts DEF Known, IInv
<1> QED
    BY <1>1, <1>2 DEF CallOK

\* Active requests have ids of their own.
LEMMA OwnIds ==
    ASSUME IInv, NEW t \in Threads, NEW u \in Threads, Active(t), Active(u), t # u
    PROVE  req[t].id # req[u].id
BY DEF IInv, RequestInv, Distinct, Busy, Active

\* A call to upsert is that of a request that saves.
LEMMA UpsertCall ==
    ASSUME Known, NEW t \in Threads, call[t].op = "upsert"
    PROVE  req[t].at = "upsert" /\ call[t].id = req[t].id /\ Active(t) /\ req[t].id \in Ids
BY ThreadFacts DEF WaitsFor, CallOK, Requests, RequestAt, Active, Busy

\* The steps inside a store call.  What they leave alone:
Aside == <<dvars, disk, seen, acked, req>>

\* A point that is there after such a step and was not before.
LEMMA NewPoint ==
    ASSUME Known, NEW t \in Threads, DbMoves(t), NEW pl \in Place, NEW i \in Ids,
           i \in db'[pl].points, i \notin db[pl].points
    PROVE  /\ i = req[t].id /\ req[t].at = "upsert" /\ Active(t)
           /\ Owns(Home[t], Coll(Home[t]), pl)
           /\ db[pl].size = Of(Home[t]).dim /\ db[pl].size # 0
<1>1. call[t].op = "upsert" /\ call[t].id = i /\ pl = At(t) /\ db[pl].size = call[t].d
    BY DEF DbMoves
<1>2. ~Idle(t)
    BY <1>1, ThreadFacts DEF CallOK
<1> QED
    BY <1>1, <1>2, UpsertCall, ThreadFacts, OwnsAt

LEMMA PointStep ==
    ASSUME Known, NEW t \in Threads, DbMoves(t), UNCHANGED Aside,
           NEW pl \in Place, NEW i \in Ids
    PROVE  PointOK(pl, i)'
<1>1. /\ UNCHANGED <<req, acked>>
      /\ \A u \in Threads : UNCHANGED <<Active(u), Coll(Home[u]), Of(Home[u])>>
    BY DEF Aside, dvars, Active, Coll, Of
<1>2. CASE i \in db[pl].points
  <2>1. PointOK(pl, i) /\ db[pl].size # 0
    BY <1>2 DEF Known, FindInv, PointOK
  <2>2. db'[pl].size = db[pl].size
    BY <2>1 DEF DbMoves
  <2> QED
    BY <1>1, <1>2, <2>1, <2>2 DEF PointOK, Owns
<1>3. CASE i \notin db[pl].points
  <2> SUFFICES ASSUME i \in db'[pl].points PROVE PointOK(pl, i)'
    BY DEF PointOK
  <2>1. /\ i = req[t].id /\ req[t].at = "upsert" /\ Active(t)
        /\ Owns(Home[t], Coll(Home[t]), pl)
        /\ db[pl].size = Of(Home[t]).dim /\ db[pl].size # 0
    BY <1>3, NewPoint
  <2>2. db'[pl].size = db[pl].size
    BY <2>1 DEF DbMoves
  <2>3. i \notin DOMAIN acked
    BY <2>1 DEF Known, FindInv, ActiveOK
  <2>4. ASSUME NEW u \in Threads, Active(u), req[u].id = i PROVE u = t
    BY <2>1, <2>4, OwnIds DEF Known
  <2> QED
    BY <1>1, <2>1, <2>2, <2>3, <2>4 DEF PointOK, Owns
<1> QED
    BY <1>2, <1>3

\* A delete takes no point that an active request or an acknowledged save has
\* where nobody else could have put it.
LEMMA NotDeleted ==
    ASSUME Known, NEW t \in Threads, DbMoves(t), NEW pl \in Place, NEW i \in Ids,
           i \in db[pl].points,
           i \in DOMAIN acked \/ \E u \in Threads : Active(u) /\ req[u].id = i,
           pl[1] # "server" \/ ~Crossed
    PROVE  i \in db'[pl].points
<1> SUFFICES ASSUME i \notin db'[pl].points PROVE FALSE
    OBVIOUS
<1>1. call[t].op = "delete" /\ call[t].id = i /\ pl = At(t)
    BY DEF DbMoves
<1>2. ~Idle(t)
    BY <1>1, ThreadFacts DEF CallOK
<1>3. OnServer(t) /\ Crossed
    BY <1>1 DEF Known, FindInv, DeleteOK
<1> QED
    BY <1>1, <1>2, <1>3, ThreadFacts, OwnsAt

LEMMA UpsertStep ==
    ASSUME Known, NEW t \in Threads, StoreStep(t), CallMoves(t), DbMoves(t), UNCHANGED Aside,
           NEW u \in Threads
    PROVE  UpsertOK(u)'
<1>1. UNCHANGED <<req, Crossed>>
    BY DEF Aside, dvars, Crossed
<1>2. call[u].op # "upsert" \/ req[u].id \in Ids
    BY UpsertCall
<1>3. CASE u = t
  <2> SUFFICES ASSUME req[t].at = "upsert", Returned(t)', ~Raised(t)'
               PROVE  req[t].id \in db'[At(t)'].points
    BY <1>1, <1>3 DEF UpsertOK
  <2>1. call[t].at # "back" /\ call[t].op = "upsert" /\ call[t].id = req[t].id
    BY ThreadFacts DEF CallMoves, WaitsFor
  <2>2. call[t] \in Calls /\ call \in [Threads -> Calls] /\ CallOK(t)
    BY DEF Known, StoreInv, StoreType
  <2>3. UpsertAsk(t)
    BY <2>1, <2>2 DEF Returned, Raised, StoreStep, CheckClient, BuildClient, AskFails, SearchAsk,
       DeleteAsk,
       ExistsAsk, Probe, Create, UpsertAnswerLost, Move, Use, Finish, Calls, CallOK
  <2>4. At(t)' = At(t) /\ At(t) \in Place
    <3>1. At(t) \in Place
        BY <2>3, PlaceFacts DEF UpsertAsk, Known, IInv
    <3>2. call'[t].cli = call[t].cli /\ call'[t].coll = call[t].coll
        BY <2>2, <2>3 DEF UpsertAsk, Finish, Calls
    <3> QED
        BY <3>1, <3>2 DEF At, PlaceOf
  <2>5. db' = [db EXCEPT ![At(t)].points = @ \union {call[t].id}]
    BY <2>2, <2>3 DEF UpsertAsk, Finish, Returned, Raised, Calls
  <2> QED
    BY <2>1, <2>4, <2>5 DEF Known, StoreInv, StoreType, Collection
<1>4. CASE u # t
  <2>1. call'[u] = call[u] /\ UpsertOK(u)
    BY <1>4 DEF CallMoves, Known, FindInv
  <2>2. UNCHANGED <<Returned(u), Raised(u), OnServer(u), At(u)>>
    BY <2>1 DEF Returned, Raised, OnServer, At, PlaceOf
  <2> SUFFICES ASSUME req[u].at = "upsert", Returned(u), ~Raised(u), ~(OnServer(u) /\ Crossed)
               PROVE  req[u].id \in db'[At(u)].points
    BY <1>1, <2>2 DEF UpsertOK
  <2>3. req[u].id \in db[At(u)].points /\ At(u) \in Place /\ ~Idle(u) /\ call[u].op = "upsert"
    BY <2>1, PlaceFacts, ThreadFacts DEF UpsertOK, Returned, Idle, Known, IInv, WaitsFor
  <2>4. At(u)[1] # "server" \/ ~Crossed
    <3>1. ~OnServer(u) => At(u) = <<Home[u], call[u].cli>> /\ Home[u] \in Procs
        BY <2>3, ThreadFacts, OwnsAt
    <3> QED
        BY <3>1, QdrantAssumption
  <2> QED
    BY <1>2, <2>3, <2>4, NotDeleted DEF Active
<1> QED
    BY <1>3, <1>4

\* What a search may find is the process's own.
LEMMA FoundPoint ==
    ASSUME Known, Apart, NEW t \in Threads, ~Idle(t), At(t) \in Place, NEW i \in Ids,
           i \in db[At(t)].points, OnServer(t) => db[At(t)].size \in {0, call[t].d}
    PROVE  OwnPoint(t, i)
<1> DEFINE p == Home[t]
           pl == At(t)
<1>1. /\ p \in Procs /\ Serves(p) /\ RunsOwn(p) /\ call[t].coll = Coll(p) /\ call[t].d = Of(p).dim
      /\ Owns(p, Coll(p), pl)
    BY ThreadFacts, OwnsAt
<1>2. PointOK(pl, i) /\ db[pl].size # 0
    BY DEF Known, FindInv, PointOK
<1>3. OnServer(t) => pl = <<"server", Coll(p)>> /\ db[pl].size = Of(p).dim
    BY <1>1, <1>2, OwnsAt
<1>4. OnServer(t) <=> Coll(p) # "memory"
    BY <1>1 DEF OnServer
<1>5. ASSUME NEW u \in Threads, Active(u), req[u].id = i
      PROVE  req[u].at = "upsert" /\ ((OnServer(t) /\ Crossed) \/ Home[u] = p)
  <2>1. req[u].at = "upsert" /\ Owns(Home[u], Coll(Home[u]), pl) /\ db[pl].size = Of(Home[u]).dim
    BY <1>2, <1>5 DEF PointOK
  <2>2. Home[u] \in Procs /\ RunsOwn(Home[u]) /\ Serves(Home[u])
    BY <1>5, ThreadFacts DEF RequestOK, Busy, Active
  <2>3. Coll(Home[u]) = Coll(p) /\ (Coll(p) = "memory" => Home[u] = p)
    BY <1>1, <2>1, <2>2, SameOwner
  <2>4. CASE Coll(p) # "memory" /\ ~Crossed
    BY <1>1, <1>3, <1>4, <2>1, <2>2, <2>3, <2>4, ApartServing
  <2> QED
    BY <1>4, <2>1, <2>3, <2>4
<1>6. ASSUME i \in DOMAIN acked, ~(OnServer(t) /\ Crossed)
      PROVE  acked[i] = [by |-> p, coll |-> call[t].coll]
  <2> DEFINE q == acked[i].by
  <2>1. AckOK(i) /\ Owns(q, acked[i].coll, pl)
    BY <1>2, <1>6 DEF Known, FindInv, PointOK
  <2>2. acked[i] \in [by : Procs, coll : Colls \union {"memory"}] /\ q \in Procs
    BY <2>1 DEF AckOK
  <2>3. acked[i].coll = Coll(p) /\ (Coll(p) = "memory" => q = p)
    BY <1>1, <2>1, <2>2, SameOwner
  <2>4. CASE Coll(p) # "memory"
    <3>1. ~Crossed /\ pl = <<"server", Coll(p)>> /\ db[pl].size = Of(p).dim
        BY <1>3, <1>4, <1>6, <2>4
    <3>2. PICK d \in ConfigsOf(q) : Meets(i, d)
        BY <2>1, <2>3, <2>4, <3>1 DEF AckOK
    <3>3. Config[d].url /\ Config[d].collection = Coll(p) /\ Config[d].dim = Of(p).dim
        BY <2>3, <3>1, <3>2 DEF Meets
    <3>4. p = q
        BY <1>1, <2>2, <2>4, <3>1, <3>3, ApartFacts
    <3> QED
        BY <1>1, <2>2, <2>3, <3>4
  <2> QED
    BY <1>1, <2>2, <2>3, <2>4
<1> QED
    BY <1>1, <1>3, <1>5, <1>6 DEF OwnPoint

\* Sizes on the server are set once.
LEMMA SameSize ==
    ASSUME Known, NEW t \in Threads, DbMoves(t), NEW u \in Threads, ~Idle(u), OnServer(u),
           db[<<"server", call[u].coll>>].size = call[u].d
    PROVE  db'[<<"server", call[u].coll>>].size = call[u].d
<1>1. <<"server", call[u].coll>> \in Place /\ call[u].d \in 1..MaxDim
    BY ThreadFacts, ServerPlace DEF OnServer
<1> QED
    BY <1>1 DEF DbMoves

LEMMA FoundStep ==
    ASSUME Known, Apart, NEW t \in Threads, StoreStep(t), CallMoves(t), DbMoves(t), UNCHANGED Aside,
           NEW u \in Threads
    PROVE  FoundOK(u)'
<1>1. UNCHANGED <<req, acked, Crossed>> /\ \A w \in Threads : UNCHANGED Active(w)
    BY DEF Aside, dvars, Crossed, Active
<1> SUFFICES ASSUME call'[u].op = "search", call'[u].id # NoId PROVE FoundOK(u)'
    BY DEF FoundOK
<1>2. /\ call[u].op = "search" /\ call'[u].coll = call[u].coll /\ call'[u].d = call[u].d
      /\ ~Idle(u) /\ FoundOK(u) /\ call \in [Threads -> Calls] /\ call[u] \in Calls
    BY ThreadFacts DEF CallMoves, Known, FindInv, CallOK, StoreInv, StoreType
<1>3. OnServer(u)' = OnServer(u)
    BY <1>2 DEF OnServer
<1>4. CASE call'[u].id = call[u].id
  <2>1. OnServer(u) => db'[<<"server", call[u].coll>>].size = call[u].d
    BY <1>2, <1>4, SameSize DEF FoundOK, OwnPoint
  <2> QED
    BY <1>1, <1>2, <1>3, <1>4, <2>1 DEF FoundOK, OwnPoint
<1>5. CASE call'[u].id # call[u].id
  <2>1. u = t /\ SearchAsk(t)
    <3>1. u = t
        BY <1>5 DEF CallMoves
    <3>2. ASSUME NEW n, Use(t, n) PROVE FALSE
        BY <1>2, <1>5, <3>1, <3>2 DEF Use, Calls
    <3>3. ASSUME NEW place, Move(t, place) PROVE FALSE
        BY <1>2, <1>5, <3>1, <3>3 DEF Move, Calls
    <3>4. ASSUME NEW out, Finish(t, out) PROVE FALSE
        BY <1>2, <1>5, <3>1, <3>4 DEF Finish, Calls
    <3>5. ASSUME NEW op, NEW place, call' = [call EXCEPT ![t].op = op, ![t].at = place] PROVE FALSE
        BY <1>2, <1>5, <3>1, <3>5 DEF Calls
    <3>6. ~SearchAsk(t) => \/ \E n : Use(t, n)
                           \/ \E place : Move(t, place)
                           \/ \E out : Finish(t, out)
                           \/ \E op, place : call' = [call EXCEPT ![t].op = op, ![t].at = place]
      <4>1. CASE CheckClient(t) \/ BuildClient(t)
        BY <4>1 DEF CheckClient, BuildClient
      <4>2. CASE AskFails(t) \/ DeleteAsk(t) \/ Probe(t) \/ Create(t) \/ UpsertAsk(t) \/ UpsertAnswerLost(t)
        BY <4>2 DEF AskFails, DeleteAsk, Probe, Create, UpsertAsk, UpsertAnswerLost
      <4>3. CASE ExistsAsk(t)
        BY <4>3 DEF ExistsAsk
      <4> QED
        BY <4>1, <4>2, <4>3 DEF StoreStep
    <3> QED
        BY <3>1, <3>2, <3>3, <3>4, <3>5, <3>6
  <2>2. ~(Mismatch(t) \/ db[At(t)].size \notin {0, call[t].d})
    BY <1>2, <1>5, <2>1 DEF SearchAsk, Finish, Calls
  <2>3. PICK found \in db[At(t)].points \union {NoId} :
           call' = [call EXCEPT ![t].at = "back", ![t].out = "ok", ![t].id = found]
    BY <2>1, <2>2 DEF SearchAsk
  <2>4. call'[t].id = found /\ found \in db[At(t)].points /\ UNCHANGED db
    BY <1>2, <2>1, <2>3 DEF Calls, SearchAsk
  <2>5. At(t) \in Place /\ found \in Ids
    BY <2>1, <2>4, PlaceFacts DEF SearchAsk, Known, IInv, StoreInv, StoreType, Collection
  <2>6. OwnPoint(t, found)
    BY <1>2, <2>1, <2>2, <2>4, <2>5, FoundPoint
  <2>7. /\ OnServer(t)' = OnServer(t) /\ Crossed' = Crossed /\ db' = db /\ call'[t].coll = call[t].coll
        /\ call'[t].d = call[t].d /\ call'[t].id = found /\ req' = req /\ acked' = acked
    BY <1>1, <1>2, <1>3, <2>1, <2>4
  <2>8. FoundOK(t)'
    BY <1>1, <2>6, <2>7 DEF FoundOK, OwnPoint
  <2> QED
    BY <2>1, <2>8
<1> QED
    BY <1>4, <1>5

LEMMA DeleteStep ==
    ASSUME Known, NEW t \in Threads, CallMoves(t), UNCHANGED Aside, NEW u \in Threads
    PROVE  DeleteOK(u)'
<1>1. UNCHANGED <<req, acked, Crossed>> /\ \A w \in Threads : UNCHANGED Active(w)
    BY DEF Aside, dvars, Crossed, Active
<1> SUFFICES ASSUME call'[u].op = "delete" PROVE DeleteOK(u)'
    BY DEF DeleteOK
<1>2. call[u].op = "delete" /\ call'[u].id = call[u].id /\ OnServer(u)' = OnServer(u) /\ DeleteOK(u)
    BY DEF CallMoves, OnServer, Known, FindInv
<1> QED
    BY <1>1, <1>2 DEF DeleteOK

LEMMA AckStep ==
    ASSUME Known, NEW t \in Threads, InStore(t), ClientMoves(t), DbMoves(t),
           NEW i \in DOMAIN acked
    PROVE  AckOK(i)'
<1> DEFINE p == acked[i].by
           c == acked[i].coll
<1>1. /\ UNCHANGED <<acked, seen, disk, Crossed, Serves(p)>> /\ AckOK(i) /\ i \in Ids
      /\ rebuilt' = [q \in Procs |-> rebuilt[q] \/ opened'[q] > 1]
    BY DEF InStore, dvars, Crossed, Serves, Known, FindInv, StoreInv, StoreType
<1>2. acked[i] \in [by : Procs, coll : Colls \union {"memory"}] /\ p \in Procs
    BY <1>1 DEF AckOK
<1>3. ASSUME c = "memory"
      PROVE  /\ Serves(p) /\ opened'[p] # 0 /\ i \in seen[p]
             /\ rebuilt'[p] \/ client'[p] = 0 \/ i \in db'[<<p, client'[p]>>].points
  <2>1. /\ Serves(p) /\ opened[p] # 0 /\ i \in seen[p]
        /\ rebuilt[p] \/ client[p] = 0 \/ i \in db[<<p, client[p]>>].points
    BY <1>1, <1>3 DEF AckOK
  <2>2. /\ opened[p] \in Nat /\ opened'[p] \in Nat /\ opened'[p] >= opened[p]
        /\ client[p] \in 0..MaxClients /\ MaxClients \in Nat
    BY <1>2, QdrantAssumption DEF ClientMoves, Known, StoreInv, StoreType
  <2>5. opened'[p] # 0 /\ (rebuilt[p] \/ opened'[p] > 1 => rebuilt'[p])
    <3>1. opened'[p] # 0
        BY <2>1, <2>2
    <3>2. rebuilt[p] \/ opened'[p] > 1 => rebuilt'[p]
        BY <1>1, <1>2, Zenon
    <3> QED
        BY <3>1, <3>2
  <2>3. CASE client'[p] = client[p]
    <3>1. CASE ~(rebuilt[p] \/ client[p] = 0)
      <4>1. <<p, client[p]>> \in Place
        BY <1>2, <2>2, <3>1 DEF Place
      <4>2. i \in db'[<<p, client[p]>>].points
        BY <1>1, <1>2, <2>1, <3>1, <4>1, NotDeleted, QdrantAssumption
      <4> QED
        BY <2>1, <2>5, <2>3, <4>2
    <3>2. CASE rebuilt[p] \/ client[p] = 0
        BY <2>1, <2>5, <2>3, <3>2
    <3> QED
        BY <3>1, <3>2
  <2>4. CASE client'[p] # client[p]
    <3>1. opened'[p] = opened[p] + 1
        BY <1>2, <2>4 DEF InStore, StoreStep, CheckClient, BuildClient, AskFails, SearchAsk,
           DeleteAsk,
           ExistsAsk, Probe, Create, UpsertAsk, UpsertAnswerLost, Known, StoreInv, StoreType
    <3>2. opened'[p] > 1
        BY <2>1, <2>2, <3>1
    <3> QED
        BY <2>1, <2>5, <3>2
  <2> QED
    BY <2>3, <2>4
<1>4. ASSUME c # "memory", ~Crossed
      PROVE  /\ i \in db'[<<"server", c>>].points
             /\ db'[<<"server", c>>].size = db[<<"server", c>>].size
             /\ \E d \in ConfigsOf(p) : Meets(i, d)
             /\ \A d \in ConfigsOf(p) : Meets(i, d) => i \in disk[Config[d].dir]
  <2>1. /\ i \in db[<<"server", c>>].points /\ <<"server", c>> \in Place
        /\ \E d \in ConfigsOf(p) : Meets(i, d)
        /\ \A d \in ConfigsOf(p) : Meets(i, d) => i \in disk[Config[d].dir]
    BY <1>1, <1>2, <1>4, ServerPlace DEF AckOK
  <2>2. db[<<"server", c>>].size # 0
    BY <1>1, <2>1 DEF Known, FindInv, PointOK
  <2>3. i \in db'[<<"server", c>>].points
    BY <1>1, <1>4, <2>1, NotDeleted
  <2> QED
    BY <2>1, <2>2, <2>3 DEF DbMoves
<1>5. ~Crossed /\ c # "memory" => \A d : Meets(i, d)' <=> Meets(i, d)
    BY <1>1, <1>4 DEF Meets
<1>6. ConfigsOf(p)' = ConfigsOf(p)
    BY <1>1 DEF ConfigsOf
<1> QED
    BY <1>1, <1>2, <1>3, <1>4, <1>5, <1>6 DEF AckOK

LEMMA InStoreFinds ==
    ASSUME Known, Apart, NEW t \in Threads, InStore(t)
    PROVE  FindInv'
<1>1. StoreStep(t) /\ UNCHANGED Aside /\ acked' = acked
    BY DEF InStore, Aside
<1>2. CallMoves(t) /\ ClientMoves(t) /\ DbMoves(t)
    BY <1>1, StoreStepMoves, DbStepMoves DEF Known
<1>3. ASSUME NEW u \in Threads PROVE ActiveOK(u)'
    BY <1>1 DEF Aside, dvars, ActiveOK, Active, Known, FindInv
<1>4. ASSUME NEW p \in Procs PROVE RunsOwn(p)'
    BY <1>1 DEF Aside, dvars, RunsOwn, Serves, Crossed, Of, ConfigsOf, Known, FindInv
<1>5. ASSUME NEW u \in Threads PROVE UpsertOK(u)' /\ FoundOK(u)' /\ DeleteOK(u)'
    BY <1>1, <1>2, UpsertStep, FoundStep, DeleteStep
<1>6. \A pl \in Place, i \in Ids : PointOK(pl, i)'
    BY <1>1, <1>2, PointStep
<1>7. \A i \in DOMAIN acked' : AckOK(i)'
    BY <1>1, <1>2, AckStep
<1> QED
    BY <1>3, <1>4, <1>5, <1>6, <1>7 DEF FindInv

\* An id that a point or a call has is not new.
LEMMA UsedFacts ==
    /\ \A pl \in Place : db[pl].points \subseteq Used
    /\ \A t \in Threads : call[t].id \in Used
    /\ DOMAIN acked \subseteq Used
<1>1. UNION {db[pl].points : pl \in Place} \subseteq Used
    BY DEF Used
<1>2. \A pl \in Place : db[pl].points \subseteq UNION {db[l].points : l \in Place}
    OBVIOUS
<1>3. {call[t].id : t \in Threads} \subseteq Used /\ DOMAIN acked \subseteq Used
    BY DEF Used
<1>4. \A t \in Threads : call[t].id \in {call[u].id : u \in Threads}
    OBVIOUS
<1> HIDE DEF Used
<1> QED
    BY <1>1, <1>2, <1>3, <1>4

\* One request goes on and nothing is acknowledged: what is known of the
\* others, of the points and of the saves stays.
LEMMA OthersFind ==
    ASSUME Known, NEW t \in Threads, UNCHANGED <<db, client, opened, dvars, rebuilt, acked>>,
           \A u \in Threads \ {t} : req'[u] = req[u] /\ call'[u] = call[u],
           Active(t)' => \/ /\ Active(t) /\ req'[t].id = req[t].id
                            /\ req[t].at = "upsert" => req'[t].at = "upsert"
                         \/ req'[t].id \notin Used,
           \A p \in Procs, i \in Ids : i \in seen[p] => i \in seen'[p] \/ (Active(t) /\ i = req[t].id),
           \A d \in Dirs, i \in Ids : i \in disk[d] =>
                i \in disk'[d] \/ (Active(t) /\ i = req[t].id) \/ Crossed,
           \A p \in Procs : RunsOwn(p)',
           ActiveOK(t)', UpsertOK(t)', FoundOK(t)', DeleteOK(t)'
    PROVE  FindInv'
<1>1. /\ UNCHANGED Crossed /\ \A p \in Procs : UNCHANGED <<Coll(p), Of(p), Serves(p)>>
      /\ \A u \in Threads : Home[u] \in Procs
    BY QdrantAssumption DEF dvars, Crossed, Coll, Of, Serves
<1>2. ASSUME NEW i, NEW w \in Threads, Active(w)', req'[w].id = i
      PROVE  i \notin Used \/ (Active(w) /\ req[w].id = i /\ (req[w].at = "upsert" => req'[w].at = "upsert"))
    BY <1>2 DEF Active
<1>3. ASSUME NEW u \in Threads \ {t} PROVE ActiveOK(u)'
  <2> SUFFICES ASSUME Active(u) PROVE ActiveOK(u)'
    BY DEF ActiveOK, Active
  <2>1. req'[u] = req[u] /\ ActiveOK(u) /\ acked' = acked /\ req[u].id \in Ids /\ Home[u] \in Procs
    BY <1>1, ThreadFacts DEF Known, FindInv, WaitsFor, Busy, Active
  <2>2. Active(t) => req[u].id # req[t].id
    BY OwnIds DEF Known
  <2> QED
    BY <2>1, <2>2 DEF ActiveOK, Active
<1>4. ASSUME NEW pl \in Place, NEW i \in Ids PROVE PointOK(pl, i)'
  <2> SUFFICES ASSUME i \in db[pl].points PROVE PointOK(pl, i)'
    BY DEF PointOK
  <2>1. PointOK(pl, i)
    BY DEF Known, FindInv
  <2>2. i \in Used
    BY UsedFacts
  <2> QED
    BY <1>1, <1>2, <2>1, <2>2 DEF PointOK, Owns
<1>5. ASSUME NEW u \in Threads \ {t} PROVE UpsertOK(u)'
  <2>1. req'[u] = req[u] /\ call'[u] = call[u] /\ UpsertOK(u)
    BY DEF Known, FindInv
  <2> QED
    BY <1>1, <2>1 DEF UpsertOK, Returned, Raised, OnServer, At, PlaceOf
<1>6. ASSUME NEW u \in Threads \ {t} PROVE FoundOK(u)'
  <2>1. call'[u] = call[u] /\ FoundOK(u) /\ call[u].id \in Used
    BY DEF Known, FindInv, Used
  <2> SUFFICES ASSUME call[u].op = "search", call[u].id # NoId PROVE OwnPoint(u, call[u].id)'
    BY <2>1 DEF FoundOK
  <2>2. OwnPoint(u, call[u].id)
    BY <2>1 DEF FoundOK
  <2> QED
    BY <1>1, <1>2, <2>1, <2>2 DEF OwnPoint, OnServer
<1>7. ASSUME NEW u \in Threads \ {t} PROVE DeleteOK(u)'
  <2>1. call'[u] = call[u] /\ DeleteOK(u) /\ call[u].id \in Used
    BY DEF Known, FindInv, Used
  <2> QED
    BY <1>1, <1>2, <2>1 DEF DeleteOK, OnServer
<1>8. ASSUME NEW i \in DOMAIN acked PROVE AckOK(i)'
  <2>1. AckOK(i) /\ i \in Ids
    BY DEF Known, FindInv, StoreInv, StoreType
  <2>2. Active(t) => i # req[t].id
    BY DEF Known, FindInv, ActiveOK
  <2>3. /\ acked[i] \in [by : Procs, coll : Colls \union {"memory"}] /\ acked[i].by \in Procs
        /\ i \in seen[acked[i].by] => i \in seen'[acked[i].by]
    BY <2>1, <2>2 DEF AckOK
  <2>4. /\ ConfigsOf(acked[i].by) \subseteq Configs
        /\ ~Crossed => \A d \in ConfigsOf(acked[i].by) : i \in disk[Config[d].dir] => i \in disk'[Config[d].dir]
    BY <2>1, <2>2, <2>3, DeploymentAssumption DEF ConfigsOf, Dirs
  <2> QED
    BY <1>1, <2>1, <2>3, <2>4 DEF AckOK, Meets
<1>9. DOMAIN acked' = DOMAIN acked
    OBVIOUS
<1>10. \A u \in Threads : ActiveOK(u)' /\ UpsertOK(u)' /\ FoundOK(u)' /\ DeleteOK(u)'
    BY <1>3, <1>5, <1>6, <1>7
<1> QED
    BY <1>4, <1>8, <1>9, <1>10 DEF FindInv

\* A call that has just begun, or is over, has found and stored nothing.
LEMMA FreshCall ==
    ASSUME NEW t \in Threads, call'[t].at # "back", call'[t].op # "delete",
           call'[t].op = "search" => call'[t].id = NoId
    PROVE  UpsertOK(t)' /\ FoundOK(t)' /\ DeleteOK(t)'
BY DEF UpsertOK, FoundOK, DeleteOK, Returned

\* What Begin and Taken make of the thread's call.
LEMMA CallNow ==
    ASSUME Known, NEW t \in Threads
    PROVE  /\ \A op, c, d, id : Begin(t, op, c, d, id) =>
                /\ call'[t].at = "check" /\ call'[t].op = op /\ call'[t].id = id /\ call'[t].coll = c
                /\ \A u \in Threads \ {t} : call'[u] = call[u]
                /\ UNCHANGED <<db, client, opened>>
           /\ Taken(t) => /\ call'[t].at = "none" /\ call'[t].op = "none" /\ call'[t].coll = "none"
                          /\ \A u \in Threads \ {t} : call'[u] = call[u]
                          /\ UNCHANGED <<db, client, opened>>
BY DEF Known, StoreInv, StoreType, Begin, Taken, NoCall

LEMMA RunsOwnKept ==
    ASSUME Known, UNCHANGED <<dvars, seen, disk>>
    PROVE  \A p \in Procs : RunsOwn(p)'
BY DEF dvars, RunsOwn, Serves, Crossed, Of, ConfigsOf, Known, FindInv

LEMMA RequestFinds ==
    ASSUME Known, NEW t \in Threads, NEW id \in Ids, Request(t, id)
    PROVE  FindInv'
<1>1. /\ UNCHANGED <<dvars, disk, seen, acked, rebuilt>> /\ id \notin Used /\ Idle(t)
      /\ call[t].op = "none" /\ req \in [Threads -> Requests]
    BY ThreadFacts DEF Request, rest, WaitsFor, CallOK, Known, IInv, RequestInv
<1>2. req'[t].id = id /\ req'[t].at \in {"lookup", "generate"} /\ \A u \in Threads \ {t} : req'[u] = req[u]
    BY <1>1 DEF Request, NoRequest
<1>3. /\ call'[t].at # "back" /\ call'[t].op # "delete"
      /\ call'[t].op = "search" => call'[t].id = NoId
      /\ \A u \in Threads \ {t} : call'[u] = call[u]
      /\ UNCHANGED <<db, client, opened>>
  <2>1. CASE UNCHANGED qvars
    BY <1>1, <2>1 DEF qvars, Idle
  <2>2. CASE Begin(t, "search", Coll(Home[t]), Of(Home[t]).dim, NoId)
    BY <2>2, CallNow
  <2> QED
    BY <2>1, <2>2 DEF Request
<1>4. ActiveOK(t)'
    BY <1>1, <1>2, UsedFacts DEF ActiveOK
<1>5. UpsertOK(t)' /\ FoundOK(t)' /\ DeleteOK(t)'
    BY <1>3, FreshCall
<1> QED
    BY <1>1, <1>2, <1>3, <1>4, <1>5, RunsOwnKept, OthersFind

\* The outcome of a call is taken, or the next one begun, by the same request.
LEMMA SameFinds ==
    ASSUME Known, NEW t \in Threads, UNCHANGED <<db, client, opened, dvars, disk, seen, acked, rebuilt>>,
           Active(t), req[t].at # "upsert", req'[t].id = req[t].id,
           req'[t].at = "upsert" => req[t].at = "ensure",
           req'[t].at # "ensure",
           \A u \in Threads \ {t} : req'[u] = req[u] /\ call'[u] = call[u],
           UpsertOK(t)', FoundOK(t)', DeleteOK(t)'
    PROVE  FindInv'
<1>1. ActiveOK(t)'
    BY DEF ActiveOK, Active, Known, FindInv
<1> QED
    BY <1>1, RunsOwnKept, OthersFind

LEMMA LookupFinds ==
    ASSUME Known, NEW t \in Threads, LookupMiss(t) \/ LookupHit(t) \/ Evicted(t)
    PROVE  FindInv'
<1>1. /\ Taken(t) /\ UNCHANGED <<dvars, disk, seen, acked, rebuilt>>
      /\ req[t].at \in {"lookup", "evict"} /\ \E result : Resume(t, result)
    BY DEF LookupMiss, LookupHit, Evicted, rest
<1>2. req'[t].at = "generate" /\ req'[t].id = req[t].id /\ \A u \in Threads \ {t} : req'[u] = req[u]
    BY <1>1 DEF Resume, Requests, Known, IInv, RequestInv
<1>3. /\ call'[t].at = "none" /\ call'[t].op = "none"
      /\ \A u \in Threads \ {t} : call'[u] = call[u]
      /\ UNCHANGED <<db, client, opened>>
    BY <1>1, CallNow
<1>4. UpsertOK(t)' /\ FoundOK(t)' /\ DeleteOK(t)'
    BY <1>3, FreshCall
<1> QED
    BY <1>1, <1>2, <1>3, <1>4, SameFinds DEF Active

\* An entry is evicted when its latents are gone, and those of a save that
\* this process can find are not.
LEMMA StaleFinds ==
    ASSUME Known, NEW t \in Threads, LookupStale(t)
    PROVE  FindInv'
<1> DEFINE i == call[t].id
           p == Home[t]
<1>1. /\ UNCHANGED <<dvars, disk, seen, acked, rebuilt>> /\ req[t].at = "lookup"
      /\ Begin(t, "delete", call[t].coll, call[t].d, i) /\ i \in Ids \ seen[p]
      /\ call[t].op = "search" /\ ~Idle(t)
    BY ThreadFacts DEF LookupStale, rest, WaitsFor, Returned, Idle
<1>2. req'[t].at = "evict" /\ req'[t].id = req[t].id /\ \A u \in Threads \ {t} : req'[u] = req[u]
    BY DEF LookupStale, Requests, Known, IInv, RequestInv
<1>3. /\ call'[t].at = "check" /\ call'[t].op = "delete" /\ call'[t].id = i /\ call'[t].coll = call[t].coll
      /\ \A u \in Threads \ {t} : call'[u] = call[u]
      /\ UNCHANGED <<db, client, opened>>
    BY <1>1, CallNow
<1>4. UpsertOK(t)' /\ FoundOK(t)'
    BY <1>3 DEF UpsertOK, FoundOK, Returned
<1>5. /\ p \in Procs /\ RunsOwn(p) /\ Serves(p) /\ call[t].coll = Coll(p) /\ call[t].d = Of(p).dim
      /\ OwnPoint(t, i)
  <2>1. i # NoId /\ FoundOK(t)
    BY <1>1, QdrantAssumption DEF Known, FindInv
  <2> QED
    BY <1>1, <2>1, ThreadFacts DEF FoundOK
<1>6. ASSUME ~(OnServer(t) /\ Crossed) PROVE i \notin DOMAIN acked
  <2> SUFFICES ASSUME i \in DOMAIN acked PROVE FALSE
    OBVIOUS
  <2>1. acked[i] = [by |-> p, coll |-> Coll(p)] /\ AckOK(i)
    BY <1>5, <1>6 DEF OwnPoint, Known, FindInv
  <2>2. acked[i].by = p /\ acked[i].coll = Coll(p)
    BY <2>1
  <2>3. CASE Coll(p) = "memory"
    BY <1>1, <2>1, <2>2, <2>3 DEF AckOK
  <2>4. CASE Coll(p) # "memory"
    <3>1. OnServer(t) /\ ~Crossed
        BY <1>5, <1>6, <2>4 DEF OnServer
    <3>2. cfg[p] \in ConfigsOf(p) /\ seen[p] = disk[Of(p).dir]
        BY <1>5, <3>1 DEF RunsOwn
    <3>3. db[<<"server", Coll(p)>>].size = Of(p).dim
        BY <1>5, <3>1 DEF OwnPoint
    <3>4. Meets(i, cfg[p])
        BY <2>2, <2>4, <3>3 DEF Meets, Coll, Of
    <3>5. i \in disk[Config[cfg[p]].dir]
        BY <2>1, <2>2, <2>4, <3>1, <3>2, <3>4 DEF AckOK
    <3> QED
        BY <1>1, <3>2, <3>5 DEF Of
  <2> QED
    BY <2>3, <2>4
<1>7. ASSUME ~(OnServer(t) /\ Crossed), NEW u \in Threads, Active(u) PROVE req[u].id # i
  <2> SUFFICES ASSUME req[u].id = i PROVE FALSE
    OBVIOUS
  <2>1. req[u].at = "upsert" /\ Home[u] = p
    BY <1>5, <1>7 DEF OwnPoint
  <2>2. i \in seen[p]
    BY <1>7, <2>1 DEF Known, FindInv, ActiveOK
  <2> QED
    BY <1>1, <2>2
<1>8. DeleteOK(t)'
  <2>1. UNCHANGED <<OnServer(t), Crossed>>
    BY <1>1, <1>3 DEF OnServer, Crossed, dvars
  <2>2. ASSUME NEW u \in Threads, Active(u)' PROVE Active(u) /\ req'[u].id = req[u].id
    BY <1>1, <1>2, <2>2 DEF Active
  <2> QED
    BY <1>1, <1>3, <1>6, <1>7, <2>1, <2>2 DEF DeleteOK
<1> QED
    BY <1>1, <1>2, <1>3, <1>4, <1>8, SameFinds DEF Active

LEMMA EnsuredFinds ==
    ASSUME Known, NEW t \in Threads, SaveEnsured(t)
    PROVE  FindInv'
<1>1. /\ UNCHANGED <<dvars, disk, seen, acked, rebuilt>> /\ req[t].at = "ensure"
      /\ Begin(t, "upsert", call[t].coll, call[t].d, req[t].id)
    BY DEF SaveEnsured, rest
<1>2. req'[t].at = "upsert" /\ req'[t].id = req[t].id /\ \A u \in Threads \ {t} : req'[u] = req[u]
    BY DEF SaveEnsured, Requests, Known, IInv, RequestInv
<1>3. /\ call'[t].at = "check" /\ call'[t].op = "upsert"
      /\ \A u \in Threads \ {t} : call'[u] = call[u]
      /\ UNCHANGED <<db, client, opened>>
    BY <1>1, CallNow
<1>4. UpsertOK(t)' /\ FoundOK(t)' /\ DeleteOK(t)'
    BY <1>3, FreshCall
<1> QED
    BY <1>1, <1>2, <1>3, <1>4, SameFinds DEF Active

\* A process saves its index, into a directory no other process uses.
LEMMA IndexSaved ==
    ASSUME Known, Apart, NEW p \in Procs, Serves(p), UNCHANGED dvars, NEW S,
           seen' = [seen EXCEPT ![p] = S], disk' = [disk EXCEPT ![Of(p).dir] = seen'[p]]
    PROVE  /\ \A q \in Procs : RunsOwn(q)'
           /\ seen'[p] = S /\ disk'[Of(p).dir] = S
           /\ \A q \in Procs \ {p} : seen'[q] = seen[q]
           /\ \A d \in Dirs : d # Of(p).dir => disk'[d] = disk[d]
           /\ ~Crossed => seen[p] = disk[Of(p).dir]
<1>1. /\ seen'[p] = S /\ \A q \in Procs \ {p} : seen'[q] = seen[q]
      /\ Of(p).dir \in Dirs /\ disk'[Of(p).dir] = S
      /\ \A d \in Dirs : d # Of(p).dir => disk'[d] = disk[d]
    BY ServingFacts DEF Known, IInv, StoreInv, StoreType
<1>2. \A q \in Procs : RunsOwn(q)
    BY DEF Known, FindInv
<1>3. UNCHANGED Crossed /\ \A q \in Procs : UNCHANGED <<Serves(q), Of(q), phase[q], chosen[q], cfg[q], ConfigsOf(q)>>
    BY DEF dvars, Crossed, Serves, Of, ConfigsOf
<1>4. ASSUME NEW q \in Procs PROVE RunsOwn(q)'
  <2>1. CASE q = p
    BY <1>1, <1>2, <1>3, <2>1 DEF RunsOwn
  <2>2. CASE q # p
    <3>1. Serves(q) /\ ~Crossed => Of(q).dir # Of(p).dir /\ Of(q).dir \in Dirs
        BY <1>2, <2>2, ServingFacts DEF RunsOwn, Apart, Of, Known, IInv
    <3> QED
        BY <1>1, <1>2, <1>3, <2>2, <3>1 DEF RunsOwn
  <2> QED
    BY <2>1, <2>2
<1> QED
    BY <1>1, <1>2, <1>4 DEF RunsOwn

LEMMA GenerateFinds ==
    ASSUME Known, Apart, NEW t \in Threads, NEW s \in SUBSET req[t].saved, Generate(t, s)
    PROVE  FindInv'
<1> DEFINE p == Home[t]
<1>1. /\ UNCHANGED <<dvars, acked, rebuilt>> /\ req[t].at = "generate" /\ Active(t) /\ Idle(t)
      /\ call[t].op = "none" /\ p \in Procs /\ Serves(p) /\ req[t].id \in Ids
    BY ThreadFacts DEF Generate, Active, WaitsFor, CallOK, RequestOK, Busy
<1>2. CASE OnResponse(s).steps = {} \/ ~Of(p).encoder
  <2>1. /\ req'[t].at = "done" /\ req'[t].id = req[t].id /\ \A u \in Threads \ {t} : req'[u] = req[u]
        /\ UNCHANGED <<qvars, seen, disk>>
    BY <1>2 DEF Generate, Requests, Known, IInv, RequestInv
  <2>2. UpsertOK(t)' /\ FoundOK(t)' /\ DeleteOK(t)'
    BY <1>1, <2>1, FreshCall DEF qvars, Idle
  <2> QED
    BY <1>1, <2>1, <2>2, SameFinds DEF qvars
<1>3. CASE ~(OnResponse(s).steps = {} \/ ~Of(p).encoder)
  <2>1. /\ req'[t].at = "ensure" /\ req'[t].id = req[t].id /\ \A u \in Threads \ {t} : req'[u] = req[u]
        /\ seen' = [seen EXCEPT ![p] = seen[p] \union {req[t].id}]
        /\ disk' = [disk EXCEPT ![Of(p).dir] = seen'[p]]
        /\ Begin(t, "ensure", Coll(p), Of(p).dim, NoId)
    BY <1>3 DEF Generate, Requests, Known, IInv, RequestInv
  <2>2. /\ \A q \in Procs : RunsOwn(q)'
        /\ seen'[p] = seen[p] \union {req[t].id} /\ disk'[Of(p).dir] = seen[p] \union {req[t].id}
        /\ \A q \in Procs \ {p} : seen'[q] = seen[q]
        /\ \A d \in Dirs : d # Of(p).dir => disk'[d] = disk[d]
        /\ ~Crossed => seen[p] = disk[Of(p).dir]
    BY <1>1, <2>1, IndexSaved
  <2>3. /\ call'[t].at = "check" /\ call'[t].op = "ensure"
        /\ \A u \in Threads \ {t} : call'[u] = call[u]
        /\ UNCHANGED <<db, client, opened>>
    BY <2>1, CallNow
  <2>4. UpsertOK(t)' /\ FoundOK(t)' /\ DeleteOK(t)'
    BY <2>3, FreshCall
  <2>5. ActiveOK(t)'
    BY <1>1, <2>1, <2>2 DEF ActiveOK, Known, FindInv
  <2>6. \A q \in Procs, i \in Ids : i \in seen[q] => i \in seen'[q]
    BY <2>2
  <2>7. \A d \in Dirs, i \in Ids : i \in disk[d] => i \in disk'[d] \/ Crossed
    BY <2>2
  <2> QED
    BY <1>1, <2>1, <2>2, <2>3, <2>4, <2>5, <2>6, <2>7, OthersFind
<1> QED
    BY <1>2, <1>3

LEMMA FailedFinds ==
    ASSUME Known, Apart, NEW t \in Threads, SaveFails(t)
    PROVE  FindInv'
<1> DEFINE p == Home[t]
<1>1. /\ UNCHANGED <<dvars, acked, rebuilt>> /\ Active(t) /\ p \in Procs /\ Serves(p) /\ Taken(t)
    BY ThreadFacts DEF SaveFails, Active, RequestOK, Busy
<1>2. /\ req'[t].at = "done" /\ \A u \in Threads \ {t} : req'[u] = req[u]
      /\ seen' = [seen EXCEPT ![p] = seen[p] \ {req[t].id}]
      /\ disk' = [disk EXCEPT ![Of(p).dir] = seen'[p]]
    BY DEF SaveFails, Requests, Known, IInv, RequestInv
<1>3. /\ \A q \in Procs : RunsOwn(q)'
      /\ seen'[p] = seen[p] \ {req[t].id} /\ disk'[Of(p).dir] = seen[p] \ {req[t].id}
      /\ \A q \in Procs \ {p} : seen'[q] = seen[q]
      /\ \A d \in Dirs : d # Of(p).dir => disk'[d] = disk[d]
      /\ ~Crossed => seen[p] = disk[Of(p).dir]
    BY <1>1, <1>2, IndexSaved
<1>4. /\ call'[t].at = "none" /\ call'[t].op = "none"
      /\ \A u \in Threads \ {t} : call'[u] = call[u]
      /\ UNCHANGED <<db, client, opened>>
    BY <1>1, CallNow
<1>5. UpsertOK(t)' /\ FoundOK(t)' /\ DeleteOK(t)'
    BY <1>4, FreshCall
<1>6. ActiveOK(t)' /\ ~Active(t)'
    BY <1>2 DEF ActiveOK, Active
<1>7. \A q \in Procs, i \in Ids : i \in seen[q] => i \in seen'[q] \/ (Active(t) /\ i = req[t].id)
    BY <1>1, <1>3
<1>8. \A d \in Dirs, i \in Ids : i \in disk[d] => i \in disk'[d] \/ (Active(t) /\ i = req[t].id) \/ Crossed
    BY <1>1, <1>3
<1> QED
    BY <1>1, <1>2, <1>3, <1>4, <1>5, <1>6, <1>7, <1>8, OthersFind

\* A save that returns is acknowledged: its point is there, and its latents.
LEMMA DoneFinds ==
    ASSUME Known, Apart, NEW t \in Threads, SaveDone(t)
    PROVE  FindInv'
<1> DEFINE p == Home[t]
<1>0. PICK i, c : i = req[t].id /\ c = Coll(p)
    OBVIOUS
<1>1. /\ UNCHANGED <<dvars, disk, seen, rebuilt>> /\ req[t].at = "upsert" /\ Returned(t) /\ ~Raised(t)
      /\ Taken(t) /\ Active(t) /\ ~Idle(t) /\ call[t].op = "upsert" /\ call[t].id = i
    BY <1>0, ThreadFacts DEF SaveDone, Active, WaitsFor, Returned, Idle
<1>2. /\ p \in Procs /\ Serves(p) /\ RunsOwn(p) /\ ClientOK(p) /\ i \in Ids
      /\ call[t].coll = c /\ c \in Colls \union {"memory"} /\ call[t].cli \in 1..opened[p]
      /\ opened[p] \in 0..MaxClients /\ client[p] \in 0..MaxClients /\ Of(p).dim \in 1..MaxDim
      /\ (OnServer(t) <=> c # "memory")
    BY <1>0, <1>1, ThreadFacts, UpsertCall DEF CallOK, Returned, OnServer
<1>3. /\ req'[t].at = "done" /\ \A u \in Threads \ {t} : req'[u] = req[u]
      /\ acked' = [j \in DOMAIN acked \union {i} |->
                     IF j = i THEN [by |-> p, coll |-> c] ELSE acked[j]]
    BY <1>0, <1>2 DEF SaveDone, Requests, Known, IInv, RequestInv
<1>4. /\ call'[t].at = "none" /\ call'[t].op = "none"
      /\ \A u \in Threads \ {t} : call'[u] = call[u]
      /\ UNCHANGED <<db, client, opened>>
    BY <1>1, CallNow
<1>5. /\ UNCHANGED Crossed /\ \A q \in Procs : UNCHANGED <<Coll(q), Of(q), Serves(q)>>
    BY <1>1 DEF dvars, Crossed, Coll, Of, Serves
<1>6. ASSUME NEW u \in Threads, Active(u)' PROVE u # t /\ Active(u) /\ req'[u] = req[u] /\ req[u].id # i
  <2>1. u # t /\ Active(u) /\ req'[u] = req[u]
    BY <1>3, <1>6 DEF Active
  <2> QED
    BY <1>0, <1>1, <2>1, OwnIds DEF Known
<1>7. At(t) \in Place /\ ((OnServer(t) /\ Crossed) \/ i \in db[At(t)].points)
    BY <1>0, <1>1, PlaceFacts DEF Known, IInv, FindInv, UpsertOK, Returned
<1>8. i \notin DOMAIN acked /\ i \in seen[p]
    BY <1>0, <1>1 DEF Known, FindInv, ActiveOK
<1>9. ASSUME NEW u \in Threads PROVE ActiveOK(u)'
    BY <1>1, <1>3, <1>6 DEF ActiveOK, Known, FindInv
<1>10. ASSUME NEW pl \in Place, NEW j \in Ids PROVE PointOK(pl, j)'
  <2>1. PointOK(pl, j)
    BY DEF Known, FindInv
  <2>2. CASE j = i
    BY <1>0, <1>1, <1>2, <1>3, <1>4, <1>6, <2>1, <2>2 DEF PointOK, Owns
  <2>3. CASE j # i
    <3>1. j \in DOMAIN acked' => j \in DOMAIN acked /\ acked'[j] = acked[j]
        BY <1>3, <2>3
    <3> QED
        BY <1>4, <1>5, <1>6, <2>1, <3>1, QdrantAssumption DEF PointOK, Owns
  <2> QED
    BY <2>2, <2>3
<1>11. ASSUME NEW u \in Threads PROVE UpsertOK(u)' /\ FoundOK(u)' /\ DeleteOK(u)'
  <2>1. CASE u = t
    BY <1>4, <2>1, FreshCall
  <2>2. CASE u # t
    <3>1. req'[u] = req[u] /\ call'[u] = call[u] /\ UpsertOK(u) /\ FoundOK(u) /\ DeleteOK(u)
        BY <1>3, <1>4, <2>2 DEF Known, FindInv
    <3>2. UpsertOK(u)'
        BY <1>4, <1>5, <3>1 DEF UpsertOK, Returned, Raised, OnServer, At, PlaceOf
    <3>3. DeleteOK(u)'
        BY <1>0, <1>1, <1>3, <1>5, <1>6, <3>1 DEF DeleteOK, OnServer
    <3>4. FoundOK(u)'
      <4> SUFFICES ASSUME call[u].op = "search", call[u].id # NoId PROVE OwnPoint(u, call[u].id)'
        BY <3>1 DEF FoundOK
      <4>1. OwnPoint(u, call[u].id) /\ ~Idle(u) /\ call[u].coll = Coll(Home[u])
        BY <3>1, ThreadFacts DEF FoundOK, CallOK
      <4>2. call[u].id = i => (OnServer(u) /\ Crossed) \/ (Home[u] = p /\ call[u].coll = c)
        BY <1>0, <1>1, <4>1, ThreadFacts DEF OwnPoint
      <4>3. call[u].id \in DOMAIN acked' =>
                (OnServer(u) /\ Crossed) \/ acked'[call[u].id] = [by |-> Home[u], coll |-> call[u].coll]
        BY <1>3, <4>1, <4>2 DEF OwnPoint
      <4> QED
        BY <1>4, <1>5, <1>6, <3>1, <4>1, <4>3 DEF OwnPoint, OnServer
    <3> QED
        BY <3>2, <3>3, <3>4
  <2> QED
    BY <2>1, <2>2
<1>12. ASSUME NEW j \in DOMAIN acked, j # i PROVE AckOK(j)'
  <2>1. AckOK(j) /\ j \in DOMAIN acked' /\ acked'[j] = acked[j]
    BY <1>3, <1>12 DEF Known, FindInv
  <2>2. acked[j].by \in Procs
    BY <2>1 DEF AckOK
  <2> QED
    BY <1>1, <1>4, <1>5, <2>1, <2>2 DEF AckOK, Meets, ConfigsOf
<1>13. AckOK(i)'
  <2>1. acked'[i] = [by |-> p, coll |-> c] /\ acked'[i].by = p /\ acked'[i].coll = c
    BY <1>3
  <2>2. acked'[i] \in [by : Procs, coll : Colls \union {"memory"}]
    BY <1>2, <2>1
  <2>3. ASSUME c = "memory" PROVE opened[p] # 0 /\ (rebuilt[p] \/ client[p] = 0 \/ i \in db[<<p, client[p]>>].points)
    <3>1. At(t) = <<p, call[t].cli>> /\ i \in db[At(t)].points
        BY <1>0, <1>2, <1>7, <2>3, OwnsAt
    <3>2. opened[p] # 0
        BY <1>2, QdrantAssumption
    <3>3. ~rebuilt[p] /\ client[p] # 0 => client[p] = call[t].cli
        BY <1>2, QdrantAssumption DEF ClientOK
    <3> QED
        BY <3>1, <3>2, <3>3
  <2>4. ASSUME c # "memory", ~Crossed
        PROVE  /\ i \in db[<<"server", c>>].points /\ Config[cfg[p]].url /\ Config[cfg[p]].collection = c
               /\ Config[cfg[p]].dim = db[<<"server", c>>].size /\ cfg[p] \in ConfigsOf(p)
               /\ \A d \in ConfigsOf(p) : Config[d].url /\ Config[d].collection = c
                     /\ Config[d].dim = db[<<"server", c>>].size => i \in disk[Config[d].dir]
    <3>1. At(t) = <<"server", c>> /\ i \in db[At(t)].points
        BY <1>0, <1>2, <1>7, <2>4, OwnsAt
    <3>2. db[<<"server", c>>].size = Of(p).dim
        BY <1>0, <1>1, <1>2, <1>7, <3>1 DEF Known, FindInv, PointOK
    <3>3. Config[cfg[p]].url /\ Config[cfg[p]].collection = c /\ cfg[p] \in ConfigsOf(p) /\ seen[p] = disk[Of(p).dir]
        BY <1>0, <1>2, <2>4 DEF Coll, Of, RunsOwn
    <3>4. ASSUME NEW d \in ConfigsOf(p), Config[d].url, Config[d].collection = c, Config[d].dim = Of(p).dim
          PROVE  i \in disk[Config[d].dir]
        BY <1>0, <1>2, <1>8, <2>4, <3>3, <3>4, ApartFacts
    <3> QED
        BY <3>1, <3>2, <3>3, <3>4 DEF Of
  <2>5. c = "memory" => /\ Serves(p)' /\ opened'[p] # 0 /\ i \in seen'[p]
                        /\ rebuilt'[p] \/ client'[p] = 0 \/ i \in db'[<<p, client'[p]>>].points
    BY <1>1, <1>2, <1>4, <1>5, <1>8, <2>3
  <2>6. c # "memory" /\ ~Crossed' =>
          /\ i \in db'[<<"server", c>>].points
          /\ \E d \in ConfigsOf(p) : Meets(i, d)'
          /\ \A d \in ConfigsOf(p) : Meets(i, d)' => i \in disk'[Config[d].dir]
    <3>1. \A d : Meets(i, d)' <=> Config[d].url /\ Config[d].collection = c
                                  /\ Config[d].dim = db[<<"server", c>>].size
        BY <1>4, <2>1 DEF Meets
    <3> QED
        BY <1>1, <1>4, <1>5, <2>4, <3>1
  <2>7. ConfigsOf(p)' = ConfigsOf(p)
    BY DEF ConfigsOf
  <2> HIDE DEF p
  <2> QED
    BY <2>1, <2>2, <2>5, <2>6, <2>7 DEF AckOK
<1>14. \A j \in DOMAIN acked' : AckOK(j)'
  <2>1. DOMAIN acked' = DOMAIN acked \union {i}
    BY <1>3
  <2> QED
    BY <1>12, <1>13, <2>1
<1>15. \A q \in Procs : RunsOwn(q)'
    BY <1>1, RunsOwnKept
<1> QED
    BY <1>9, <1>10, <1>11, <1>14, <1>15 DEF FindInv

\* A process's life up to its end: what serves goes on serving as it did.
LEMMA LifeFinds ==
    ASSUME Known, NEW p \in Procs, LaunchStep(p), ~Exit(p)
    PROVE  FindInv'
<1>1. /\ UNCHANGED <<db, call, opened, req, acked, rebuilt, disk>>
      /\ \A q \in Procs : client'[q] = client[q] \/ client'[q] = 0
      /\ \A q \in Procs : Serves(q) => Serves(q)' /\ cfg'[q] = cfg[q] /\ seen'[q] = seen[q]
      /\ \A q \in Procs : overtaken[q] => overtaken'[q]
  <2> USE DEF Serves, Known, IInv, LaunchInv, LaunchType, StoreInv, StoreType, qvars
  <2>1. ASSUME NEW c \in Configs, Launch(p, c) PROVE <1>1!:
    BY <2>1 DEF Launch, Overtake
  <2>2. ASSUME NEW c \in Configs, StartOwn(p, c) PROVE <1>1!:
    BY <2>2 DEF StartOwn
  <2>3. CASE FillFile(p)
    BY <2>3 DEF FillFile, Overtake
  <2>4. CASE ImportPipeline(p) \/ CreateFails(p)
    BY <2>4 DEF ImportPipeline, CreateFails
  <2>5. CASE CreateService(p)
    BY <2>5 DEF CreateService
  <2>6. CASE Shutdown(p)
    BY <2>6 DEF Shutdown, Close
  <2> QED
    BY <2>1, <2>2, <2>3, <2>4, <2>5, <2>6 DEF LaunchStep
<1>2. Crossed => Crossed'
    BY <1>1 DEF Crossed
<1>3. \A q \in Procs : Serves(q) => UNCHANGED <<Coll(q), Of(q)>>
    BY <1>1 DEF Coll, Of
<1>4. ASSUME NEW q \in Procs PROVE RunsOwn(q)'
  <2>1. RunsOwn(q) /\ LaunchOK(q)
    BY DEF Known, FindInv, IInv, LaunchInv
  <2>2. ConfigsOf(q)' = ConfigsOf(q)
    BY DEF ConfigsOf
  <2>3. phase'[q] # "down" => chosen'[q] \in ConfigsOf(q)
    BY <2>1, <2>2 DEF RunsOwn, LaunchStep, Launch, StartOwn, FillFile, ImportPipeline,
       CreateService,
       CreateFails, Shutdown, ConfigsOf, Known, IInv, LaunchInv, LaunchType
  <2>4. ASSUME Serves(q)', ~Crossed'
        PROVE  cfg'[q] \in ConfigsOf(q) /\ seen'[q] = disk'[Of(q)'.dir]
    <3>1. CASE Serves(q)
        BY <1>1, <1>2, <1>3, <2>1, <2>4, <3>1 DEF RunsOwn
    <3>2. CASE ~Serves(q)
      <4>1. q = p /\ CreateService(p)
        BY <2>4, <3>2 DEF Serves, LaunchStep, Launch, StartOwn, FillFile, ImportPipeline,
           CreateService,
           CreateFails, Shutdown, Known, IInv, LaunchInv, LaunchType
      <4>2. LoadedConfig(p) = chosen[p] /\ chosen[p] \in ConfigsOf(p)
        BY <1>2, <2>1, <2>4, <4>1, LoadsOwn DEF CreateService, Known, IInv, RunsOwn, Crossed
      <4>3. cfg'[p] = LoadedConfig(p) /\ seen'[p] = disk[Config[LoadedConfig(p)].dir]
        BY <4>1 DEF CreateService, Known, IInv, LaunchInv, LaunchType, StoreInv, StoreType
      <4> QED
        BY <1>1, <4>1, <4>2, <4>3 DEF Of
    <3> QED
        BY <3>1, <3>2
  <2> QED
    BY <2>2, <2>3, <2>4 DEF RunsOwn
<1>5. ASSUME NEW u \in Threads PROVE ActiveOK(u)' /\ UpsertOK(u)' /\ FoundOK(u)' /\ DeleteOK(u)'
  <2>1. ActiveOK(u) /\ UpsertOK(u) /\ FoundOK(u) /\ DeleteOK(u)
    BY DEF Known, FindInv
  <2>2. Active(u) => Serves(Home[u]) /\ Home[u] \in Procs
    BY ThreadFacts DEF RequestOK, Busy, Active
  <2>3. ActiveOK(u)' /\ UpsertOK(u)'
    BY <1>1, <1>2, <2>1, <2>2 DEF ActiveOK, UpsertOK, Active, Returned, Raised, OnServer, At,
       PlaceOf
  <2>4. DeleteOK(u)'
    BY <1>1, <1>2, <2>1 DEF DeleteOK, Active, OnServer
  <2>5. FoundOK(u)'
    <3>1. OwnPoint(u, call[u].id) => OwnPoint(u, call[u].id)'
        BY <1>1, <1>2 DEF OwnPoint, Active, OnServer
    <3> QED
        BY <1>1, <2>1, <3>1 DEF FoundOK
  <2> QED
    BY <2>3, <2>4, <2>5
<1>6. ASSUME NEW pl \in Place, NEW i \in Ids PROVE PointOK(pl, i)'
  <2>1. PointOK(pl, i)
    BY DEF Known, FindInv
  <2>2. \A u \in Threads : Active(u) => Serves(Home[u]) /\ Home[u] \in Procs
    BY ThreadFacts DEF RequestOK, Busy, Active
  <2> QED
    BY <1>1, <1>3, <2>1, <2>2 DEF PointOK, Owns, Active
<1>7. ASSUME NEW i \in DOMAIN acked PROVE AckOK(i)'
  <2>1. AckOK(i) /\ acked[i].by \in Procs
    BY DEF Known, FindInv, AckOK
  <2> QED
    BY <1>1, <1>2, <2>1 DEF AckOK, Meets, ConfigsOf
<1> QED
    BY <1>1, <1>4, <1>5, <1>6, <1>7 DEF FindInv

\* The end of a process takes along what only it could find.
LEMMA ExitFinds ==
    ASSUME Known, NEW p \in Procs, Exit(p)
    PROVE  FindInv'
<1>1. ExitFacts(p) /\ UNCHANGED chosen
    BY ExitMoves DEF Known, Exit
<1>2. /\ acked' = [i \in {j \in DOMAIN acked : acked[j] # [by |-> p, coll |-> "memory"]} |-> acked[i]]
      /\ UNCHANGED Crossed
    BY <1>1 DEF Exit, ExitFacts, Crossed
<1>3. \A i \in DOMAIN acked' : i \in DOMAIN acked /\ acked'[i] = acked[i] /\ acked[i] # [by |-> p, coll |-> "memory"]
    BY <1>2
<1>4. ASSUME NEW u \in Threads, Active(u)' \/ call'[u].op # "none"
      PROVE  /\ Home[u] # p /\ req'[u] = req[u] /\ call'[u] = call[u] /\ Home[u] \in Procs
             /\ UNCHANGED <<Active(u), Coll(Home[u]), Of(Home[u]), seen[Home[u]]>>
  <2>1. Home[u] # p /\ req'[u] = req[u] /\ call'[u] = call[u]
    BY <1>1, <1>4 DEF ExitFacts, Active, NoRequest, NoCall
  <2> QED
    BY <1>1, <2>1, QdrantAssumption DEF ExitFacts, Active
<1>5. ASSUME NEW pl \in Place PROVE db'[pl] = db[pl] \/ db'[pl].points = {}
    BY <1>5 DEF Exit, StoreGone, NoCollection
<1>6. \A c \in Colls : db'[<<"server", c>>] = db[<<"server", c>>]
    BY <1>1, ServerPlace, QdrantAssumption DEF ExitFacts
<1>7. ASSUME NEW q \in Procs PROVE RunsOwn(q)'
  <2>1. RunsOwn(q)
    BY DEF Known, FindInv
  <2> QED
    BY <1>1, <1>2, <2>1 DEF ExitFacts, RunsOwn, Serves, ConfigsOf
<1>8. ASSUME NEW u \in Threads PROVE ActiveOK(u)'
    BY <1>3, <1>4 DEF ActiveOK, Known, FindInv
<1>9. ASSUME NEW u \in Threads PROVE UpsertOK(u)'
  <2> SUFFICES ASSUME req'[u].at = "upsert", Returned(u)' PROVE UpsertOK(u)'
    BY DEF UpsertOK
  <2>1. Home[u] # p /\ req'[u] = req[u] /\ call'[u] = call[u] /\ Home[u] \in Procs
    BY <1>4 DEF Active
  <2>2. ~Idle(u) /\ At(u) \in Place /\ UpsertOK(u)
    BY <2>1, PlaceFacts DEF Returned, Idle, Known, IInv, FindInv
  <2>3. At(u)[1] # p
    <3>1. OnServer(u) => At(u) = <<"server", Coll(Home[u])>>
        BY <2>2, ThreadFacts, OwnsAt
    <3>2. ~OnServer(u) => At(u) = <<Home[u], call[u].cli>>
        BY <2>2, ThreadFacts, OwnsAt
    <3> QED
        BY <2>1, <3>1, <3>2, QdrantAssumption
  <2>4. db'[At(u)] = db[At(u)]
    BY <1>1, <2>2, <2>3 DEF ExitFacts
  <2> QED
    BY <1>2, <2>1, <2>2, <2>4 DEF UpsertOK, Returned, Raised, OnServer, At, PlaceOf
<1>10. ASSUME NEW u \in Threads PROVE FoundOK(u)'
  <2> SUFFICES ASSUME call'[u].op = "search", call'[u].id # NoId PROVE FoundOK(u)'
    BY DEF FoundOK
  <2>1. call'[u] = call[u] /\ OwnPoint(u, call[u].id) /\ ~Idle(u)
    BY <1>4, ThreadFacts DEF FoundOK, Known, FindInv, CallOK
  <2>2. OnServer(u) => call[u].coll \in Colls
    BY <2>1, ThreadFacts DEF OnServer
  <2> QED
    BY <1>2, <1>3, <1>4, <1>6, <2>1, <2>2 DEF FoundOK, OwnPoint, OnServer
<1>11. ASSUME NEW u \in Threads PROVE DeleteOK(u)'
  <2> SUFFICES ASSUME call'[u].op = "delete" PROVE DeleteOK(u)'
    BY DEF DeleteOK
  <2>1. call'[u] = call[u] /\ DeleteOK(u)
    BY <1>4 DEF Known, FindInv
  <2> QED
    BY <1>2, <1>3, <1>4, <2>1 DEF DeleteOK, OnServer
<1>12. ASSUME NEW pl \in Place, NEW i \in Ids PROVE PointOK(pl, i)'
  <2> SUFFICES ASSUME i \in db'[pl].points PROVE PointOK(pl, i)'
    BY DEF PointOK
  <2>1. PointOK(pl, i) /\ db'[pl] = db[pl]
    BY <1>5 DEF Known, FindInv
  <2> QED
    BY <1>3, <1>4, <2>1 DEF PointOK, Owns
<1>13. ASSUME NEW i \in DOMAIN acked' PROVE AckOK(i)'
  <2>1. AckOK(i) /\ acked'[i] = acked[i] /\ acked[i] # [by |-> p, coll |-> "memory"]
    BY <1>3 DEF Known, FindInv
  <2>2. acked[i] \in [by : Procs, coll : Colls \union {"memory"}] /\ acked[i].by \in Procs
    BY <2>1 DEF AckOK
  <2>3. CASE acked[i].coll = "memory"
    <3>0. PICK q \in Procs : q = acked[i].by
        BY <2>2
    <3>1. q # p
        BY <2>1, <2>2, <2>3, <3>0
    <3>2. /\ Serves(q)' = Serves(q) /\ opened'[q] = opened[q] /\ seen'[q] = seen[q]
          /\ rebuilt'[q] = rebuilt[q] /\ client'[q] = client[q]
        BY <1>1, <2>2, <3>1 DEF ExitFacts, Serves
    <3>3. client[q] # 0 => db'[<<q, client[q]>>] = db[<<q, client[q]>>]
      <4>1. client[q] \in 0..MaxClients /\ MaxClients \in Nat
        BY <2>2, QdrantAssumption DEF Known, StoreInv, StoreType
      <4> SUFFICES ASSUME client[q] # 0 PROVE db'[<<q, client[q]>>] = db[<<q, client[q]>>]
        OBVIOUS
      <4>2. <<q, client[q]>> \in Place
        BY <2>2, <4>1 DEF Place
      <4> QED
        BY <1>1, <3>1, <4>2 DEF ExitFacts
    <3> QED
        BY <2>1, <2>2, <2>3, <3>0, <3>2, <3>3 DEF AckOK
  <2>4. CASE acked[i].coll # "memory"
    <3>1. db'[<<"server", acked[i].coll>>] = db[<<"server", acked[i].coll>>] /\ UNCHANGED disk
        BY <1>1, <1>6, <2>2, <2>4 DEF ExitFacts
    <3> QED
        BY <1>2, <2>1, <2>4, <3>1 DEF AckOK, Meets, ConfigsOf
  <2> QED
    BY <2>3, <2>4
<1> QED
    BY <1>7, <1>8, <1>9, <1>10, <1>11, <1>12, <1>13 DEF FindInv

LEMMA FindInvStep ==
    ASSUME Apart
    PROVE  Known /\ [Next]_vars => FindInv'
<1> SUFFICES ASSUME Known, [Next]_vars PROVE FindInv'
    OBVIOUS
<1>1. ASSUME NEW p \in Procs, LaunchStep(p) PROVE FindInv'
    BY <1>1, LifeFinds, ExitFinds
<1>2. ASSUME NEW t \in Threads, RequestStep(t) PROVE FindInv'
    BY <1>2, InStoreFinds, RequestFinds, LookupFinds, StaleFinds, EnsuredFinds, GenerateFinds,
       FailedFinds, DoneFinds DEF RequestStep
<1>3. CASE UNCHANGED vars
  <2>1. \A u \in Threads : ActiveOK(u)' /\ UpsertOK(u)' /\ FoundOK(u)' /\ DeleteOK(u)'
    BY <1>3 DEF vars, qvars, dvars, Known, FindInv, ActiveOK, UpsertOK, FoundOK, DeleteOK, OwnPoint,
       Active, Returned, Raised, OnServer, At, PlaceOf, Crossed
  <2>2. \A pl \in Place, i \in Ids : PointOK(pl, i)'
    BY <1>3 DEF vars, qvars, dvars, Known, FindInv, PointOK, Owns, Active, Coll, Of
  <2>3. \A i \in DOMAIN acked' : AckOK(i)'
    BY <1>3 DEF vars, qvars, dvars, Known, FindInv, AckOK, Meets, Serves, Crossed, ConfigsOf
  <2>4. \A p \in Procs : RunsOwn(p)'
    BY <1>3 DEF vars, qvars, dvars, Known, FindInv, RunsOwn, Serves, Crossed, Of, ConfigsOf
  <2> QED
    BY <2>1, <2>2, <2>3, <2>4 DEF FindInv
<1> QED
    BY <1>1, <1>2, <1>3 DEF Next

LEMMA FindInvInit == Init => FindInv
<1> SUFFICES ASSUME Init PROVE FindInv
    OBVIOUS
<1>1. DOMAIN acked = {}
    BY DEF Init
<1>2. \A u \in Threads : ActiveOK(u) /\ UpsertOK(u) /\ FoundOK(u) /\ DeleteOK(u)
    BY DEF Init, StoreInit, NoRequest, NoCall, ActiveOK, UpsertOK, FoundOK, DeleteOK, Active
<1>3. \A pl \in Place, i \in Ids : PointOK(pl, i)
    BY DEF Init, StoreInit, NoCollection, PointOK
<1>4. \A p \in Procs : RunsOwn(p)
    BY DEF Init, RunsOwn, Serves
<1> QED
    BY <1>1, <1>2, <1>3, <1>4 DEF FindInv

\* An entry whose save returned stays where the process that saved it looks:
\* no lookup of any process evicts it as stale, no save replaces it, and no
\* launch, exit or lost answer takes it away, as long as two launches did not
\* cross, and in a deployment that keeps its processes apart (strategy.py:
\* _lazy_evict_stale_entry and save; qdrant.py: upsert and delete).
THEOREM FindableHolds ==
    ASSUME Apart
    PROVE  Spec => []Findable
<1>1. FindInv => Findable
    BY DEF FindInv, AckOK, Findable, Crossed
<1>2. Init => Known
    BY InitInv, StoreInvInit, FindInvInit DEF Known
<1>3. Known /\ [Next]_vars => Known'
    BY StepInv, StoreInvStep, FindInvStep DEF Known
<1>4. Known => Findable
    BY <1>1 DEF Known
<1> QED
    BY <1>2, <1>3, <1>4, PTL DEF Spec
=============================================================================
