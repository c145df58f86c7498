-------------------------- MODULE TeleFuserAdapter --------------------------
(***************************************************************************)
(* The adapter between the service and TeleFuser's pipeline,               *)
(* cacheseek/adapters/telefuser/adapter.py.  It keeps nothing but the      *)
(* steps it was built with, so it is a set of functions: a lookup result   *)
(* becomes the latent_data the pipeline is given, and the pipeline's       *)
(* outputs become what is saved.  Lists of steps are sets here.            *)
(***************************************************************************)
EXTENDS Naturals

CONSTANTS NoLatent,     \* None where a latent could be
          Builtin       \* _BUILTIN_FALLBACK_SAVED_STEPS

\* It is a constant of the source and not empty.
ASSUME AdapterAssumption == Builtin # {}

\* A lookup result: a hit carries a resume hint and, per step, the latents
\* that were loaded.
Miss == [hit |-> FALSE, hint |-> "none", k |-> 0, latents |-> <<>>]
HitSkipStep(k, latents) ==
    [hit |-> TRUE, hint |-> "SkipStep", k |-> k, latents |-> latents]

\* The constructor: without steps it takes the built-in ones; () are steps.
DefaultSteps(given, steps) == IF given THEN steps ELSE Builtin

MissData(default) ==
    [hit |-> FALSE, skip |-> 0, latent |-> NoLatent, saved |-> default]

ExtractLatent(result, k) ==
    IF k \in DOMAIN result.latents THEN result.latents[k] ELSE NoLatent

ExtractSavedSteps(result, default) ==
    IF DOMAIN result.latents = {} THEN default ELSE DOMAIN result.latents

SkipStepData(result, default) ==
    [hit |-> TRUE, skip |-> result.k, latent |-> ExtractLatent(result, result.k),
     saved |-> ExtractSavedSteps(result, default)]

\* apply_resume: the pipeline's latent_data.  A hint that is neither SkipStep
\* nor NoOp raises; no strategy of the program makes one.
ApplyResume(result, default) ==
    IF result.hit /\ result.hint = "SkipStep"
      THEN SkipStepData(result, default)
      ELSE MissData(default)

\* on_response: what is handed to save, from what the pipeline snapshotted.
OnResponse(snapshots) == [steps |-> snapshots]
=============================================================================
