------------------------- MODULE RemoteSetupProofs -------------------------
(***************************************************************************)
(* What setup.sh promises, for any modes, any number of bundles, any lines  *)
(* of the operator and any number of failures. The inductive invariant says *)
(* what each stage of the script has established by the time it starts.     *)
(***************************************************************************)
EXTENDS RemoteSetup, SequenceTheorems, TLAPS

Pcs ==
  {"idle", "failed", "incomplete", "place", "env", "append", "teardown", "load",
   "shared", "proxy", "snippet", "reload", "up", "health", "done"}
PastPlace ==
  {"env", "append", "teardown", "load", "shared", "proxy", "snippet", "reload",
   "up", "health", "done"}
PastEnv == PastPlace \ {"env", "append"}
PastLoad == PastEnv \ {"teardown", "load"}
PastSubnet == {"snippet", "reload", "up", "health", "done"}

\* The shape of the state the script reads.
Shape ==
  /\ bundle \in [mode: Modes \cup {None}, goat: BOOLEAN, version: Nat]
  /\ bundle.version # 0 => bundle.mode \in Modes
  /\ gen \in [Files -> Nat] /\ placed \in [Files -> Nat]
  /\ env \in [own: Nat, managed: Nat, open: BOOLEAN]
  /\ genenv \in [managed: Nat, open: BOOLEAN]
  /\ sites \in [file: Nat, loaded: Nat]
  /\ image \in Nat
  /\ run \in [pc: Pcs, i: Nat \ {0}]
  /\ run.pc \notin {"idle", "failed", "incomplete"} => bundle.version # 0

\* What waits to be placed is the newest bundle's, or it has been placed.
Waiting ==
  /\ bundle.version # 0 =>
       \A f \in Placeable(bundle.mode) : gen[f] \in {0, bundle.version}
  /\ genenv.managed \in {0, bundle.version}
  /\ genenv.open => bundle.mode = "external"

Placed ==
  /\ At("place") =>
       /\ run.i \in DOMAIN FilesOf(bundle.mode)
       /\ \A j \in DOMAIN FilesOf(bundle.mode) :
            j < run.i => placed[FilesOf(bundle.mode)[j]] = bundle.version
  /\ run.pc \in PastPlace =>
       \A f \in Placeable(bundle.mode) : placed[f] = bundle.version

Merged ==
  /\ run.pc \in {"place", "env"} => env.own # 0 \/ genenv.managed # 0
  /\ run.pc \in PastEnv => env.managed = bundle.version
  /\ run.pc \in PastEnv /\ env.open => bundle.mode = "external"
  /\ run.pc \in PastSubnet => ~env.open

Loaded ==
  /\ run.pc \in PastLoad => image = bundle.version
  /\ At("reload") => sites.file = bundle.version
  /\ run.pc \in {"up", "health", "done"} /\ bundle.mode = "external" =>
       sites.loaded = bundle.version

Running ==
  run.pc \in {"health", "done"} =>
    stack = [s \in Services |->
               IF s \in ServicesOf(bundle.mode, bundle.goat)
               THEN <<image, placed[Compose(bundle.mode)]>> ELSE Absent]

IInv == Shape /\ Waiting /\ Placed /\ Merged /\ Loaded /\ Running /\ OperatorKeysKept

----------------------------------------------------------------------------
\* The files setup.sh places, for each mode.
LEMMA FilesOfMode ==
  ASSUME NEW mode \in Modes
  PROVE  /\ FilesOf(mode) = IF mode = "bundled" THEN <<Compose(mode), "Caddyfile">>
                            ELSE <<Compose(mode)>>
         /\ Len(FilesOf(mode)) = IF mode = "bundled" THEN 2 ELSE 1
         /\ DOMAIN FilesOf(mode) = 1..Len(FilesOf(mode))
         /\ Placeable(mode) = IF mode = "bundled" THEN {Compose(mode), "Caddyfile"}
                              ELSE {Compose(mode)}
         /\ Placeable(mode) \subseteq Files
         /\ \A i, j \in DOMAIN FilesOf(mode) :
              FilesOf(mode)[i] = FilesOf(mode)[j] => i = j
<1>1. CASE mode = "bundled"
  <2>1. FilesOf(mode) = <<"image.yml", "Caddyfile">>
    BY <1>1 DEF FilesOf, Compose
  <2>2. DOMAIN FilesOf(mode) = 1..2 /\ Len(FilesOf(mode)) = 2
    BY <2>1
  <2>3. Placeable(mode) = {"image.yml", "Caddyfile"}
    BY <2>1, <2>2 DEF Placeable
  <2> QED
    BY <1>1, <2>1, <2>2, <2>3 DEF Compose, Files
<1>2. CASE mode # "bundled"
  <2>1. FilesOf(mode) = <<Compose(mode)>>
    BY <1>2 DEF FilesOf
  <2>2. DOMAIN FilesOf(mode) = 1..1 /\ Len(FilesOf(mode)) = 1
    BY <2>1
  <2>3. Placeable(mode) = {Compose(mode)}
    BY <2>1, <2>2 DEF Placeable
  <2> QED
    BY <1>2, <2>1, <2>2, <2>3 DEF Files
<1> QED
  BY <1>1, <1>2

LEMMA InitIInv == Init => IInv
<1> SUFFICES ASSUME Init PROVE IInv
  OBVIOUS
<1>1. bundle = [mode |-> None, goat |-> FALSE, version |-> 0]
      /\ genenv = [managed |-> 0, open |-> FALSE] /\ run = [pc |-> "idle", i |-> 1]
  BY DEF Init
<1>2. bundle \in [mode: Modes \cup {None}, goat: BOOLEAN, version: Nat]
  BY <1>1
<1>3. gen \in [Files -> Nat] /\ placed \in [Files -> Nat]
  BY DEF Init
<1>4. env \in [own: Nat, managed: Nat, open: BOOLEAN]
      /\ genenv \in [managed: Nat, open: BOOLEAN]
      /\ sites \in [file: Nat, loaded: Nat] /\ image \in Nat
      /\ run \in [pc: Pcs, i: Nat \ {0}]
  BY DEF Init, Pcs
<1>5. Shape
  BY <1>1, <1>2, <1>3, <1>4 DEF Shape
<1>6. Waiting /\ Placed /\ Merged /\ Loaded /\ Running
  BY <1>1 DEF Waiting, Placed, Merged, Loaded, Running, At, PastPlace, PastEnv, PastLoad,
              PastSubnet
<1>7. OperatorKeysKept
  BY DEF Init, OperatorKeysKept
<1> QED
  BY <1>5, <1>6, <1>7 DEF IInv

\* Copying a new bundle resets the script and offers its own files.
LEMMA UploadKeeps ==
  ASSUME IInv, NEW mode \in Modes, NEW goat \in BOOLEAN, Upload(mode, goat)
  PROVE  IInv'
<1> DEFINE v == bundle.version + 1
<1>1. /\ bundle' = [mode |-> mode, goat |-> goat, version |-> v]
      /\ gen' = [f \in Files |-> IF f \in Placeable(mode) THEN v ELSE gen[f]]
      /\ genenv' = [managed |-> v, open |-> mode = "external"]
      /\ run' = [pc |-> "idle", i |-> 1]
      /\ UNCHANGED <<placed, bak, env, mine, image, sites>>
  BY DEF Upload, Goto, caddy
<1>2. v \in Nat /\ v # 0
  BY DEF IInv, Shape
<1>3. Shape'
  <2>1. bundle' \in [mode: Modes \cup {None}, goat: BOOLEAN, version: Nat]
        /\ bundle'.mode \in Modes
    BY <1>1, <1>2
  <2>2. gen' \in [Files -> Nat] /\ placed' \in [Files -> Nat]
    BY <1>1, <1>2 DEF IInv, Shape
  <2>3. genenv' \in [managed: Nat, open: BOOLEAN]
    BY <1>1, <1>2
  <2>4. /\ env' \in [own: Nat, managed: Nat, open: BOOLEAN]
        /\ sites' \in [file: Nat, loaded: Nat] /\ image' \in Nat
    BY <1>1 DEF IInv, Shape
  <2>5. run' \in [pc: Pcs, i: Nat \ {0}] /\ run'.pc = "idle"
    BY <1>1 DEF Pcs
  <2> QED
    BY <2>1, <2>2, <2>3, <2>4, <2>5 DEF Shape
<1>4. Waiting'
  BY <1>1, <1>2, FilesOfMode DEF Waiting
<1>5. Placed' /\ Merged' /\ Loaded' /\ Running'
  BY <1>1 DEF Placed, Merged, Loaded, Running, At, PastPlace, PastEnv, PastLoad, PastSubnet
<1>6. OperatorKeysKept'
  BY <1>1 DEF IInv, OperatorKeysKept
<1> QED
  BY <1>3, <1>4, <1>5, <1>6 DEF IInv

\* The operator's edits and markers touch nothing the invariant speaks of.
LEMMA OperatorKeeps ==
  ASSUME IInv,
         \/ EditEnv
         \/ \E l \in Lines, i \in 1..Len(shared) + 1 : WriteLine(l, i)
         \/ \E marker \in {"begin", "end"} : DropMarker(marker)
  PROVE  IInv'
<1>1. CASE EditEnv
  <2>1. Edited \in Nat /\ Edited # 0
    BY RemoteSetupAssumption DEF Edited
  <2>2. /\ env' = [env EXCEPT !.own = Edited] /\ mine' = Edited
        /\ UNCHANGED <<bundle, gen, placed, genenv, image, stack, sites, run>>
    BY <1>1 DEF EditEnv, files, caddy
  <2>3. Shape' /\ Merged' /\ OperatorKeysKept'
    BY <2>1, <2>2 DEF IInv, Shape, Merged, OperatorKeysKept
  <2>4. Waiting' /\ Placed' /\ Loaded' /\ Running'
    BY <2>2 DEF IInv, Waiting, Placed, Loaded, Running, At
  <2> QED
    BY <2>3, <2>4 DEF IInv
<1>2. CASE ~EditEnv
  <2>1. UNCHANGED <<bundle, gen, placed, env, genenv, mine, image, stack, sites, run>>
    BY <1>2 DEF WriteLine, DropMarker, files, envs
  <2> QED
    BY <2>1 DEF IInv, Shape, Waiting, Placed, Merged, Loaded, Running, OperatorKeysKept, At
<1> QED
  BY <1>1, <1>2

\* The steps that place files.
LEMMA PlaceKeeps ==
  ASSUME IInv, Place \/ KilledAfterCopy \/ PlaceMissing
  PROVE  IInv'
<1> DEFINE m == bundle.mode
           f == FilesOf(m)[run.i]
<1>1. m \in Modes /\ run.i \in Nat \ {0} /\ bundle.version \in Nat
  BY DEF IInv, Shape, Place, KilledAfterCopy, PlaceMissing, At
<1>2. f \in Files /\ f \in Placeable(m) /\ run.i \in DOMAIN FilesOf(m)
      /\ bundle.version # 0 /\ gen[f] \in {0, bundle.version}
  BY <1>1, FilesOfMode DEF IInv, Shape, Waiting, Placed, Placeable, At, Place,
     KilledAfterCopy, PlaceMissing
<1>3. CASE Place
  <2>1. /\ gen[f] = bundle.version
        /\ placed' = [placed EXCEPT ![f] = gen[f]] /\ gen' = [gen EXCEPT ![f] = 0]
        /\ UNCHANGED <<bundle, env, genenv, mine, image, stack, sites>>
    BY <1>2, <1>3 DEF Place, envs, caddy
  <2>2. run' = IF run.i = Len(FilesOf(m)) THEN [pc |-> "env", i |-> 1]
               ELSE [run EXCEPT !.i = run.i + 1]
    BY <1>3 DEF Place
  <2>3. run.pc = "place" /\ run' \in [pc: Pcs, i: Nat \ {0}] /\ run'.pc \in {"place", "env"}
    <3>1. run \in [pc: Pcs, i: Nat \ {0}] /\ run.pc = "place"
      BY <1>3 DEF Place, At, IInv, Shape
    <3>2. CASE run.i = Len(FilesOf(m))
      BY <2>2, <3>1, <3>2 DEF Pcs
    <3>3. CASE run.i # Len(FilesOf(m))
      <4>1. run' = [run EXCEPT !.i = run.i + 1] /\ run.i + 1 \in Nat \ {0}
        BY <1>1, <2>2, <3>3
      <4> QED
        BY <3>1, <4>1
    <3> QED
      BY <3>1, <3>2, <3>3
  <2>4. Shape'
    BY <1>2, <2>1, <2>3 DEF IInv, Shape
  <2>5. Waiting'
    BY <1>1, <1>2, <2>1, FilesOfMode DEF IInv, Waiting, Shape
  <2>6. placed'[f] = bundle.version
        /\ \A g \in Files : g # f => placed'[g] = placed[g]
    BY <1>2, <2>1 DEF IInv, Shape
  <2>7. Placed'
    <3>1. ASSUME At("place")' 
          PROVE  /\ run'.i \in DOMAIN FilesOf(m)
                 /\ \A j \in DOMAIN FilesOf(m) :
                      j < run'.i => placed'[FilesOf(m)[j]] = bundle.version
      <4>1. run'.i = run.i + 1 /\ run.i # Len(FilesOf(m))
        BY <1>1, <2>2, <2>3, <3>1 DEF At, IInv, Shape
      <4>2. run'.i \in DOMAIN FilesOf(m)
        BY <1>1, <1>2, <4>1, FilesOfMode
      <4>3. ASSUME NEW j \in DOMAIN FilesOf(m), j < run'.i
            PROVE  placed'[FilesOf(m)[j]] = bundle.version
        <5>1. CASE j = run.i
          BY <5>1, <2>6
        <5>2. CASE j # run.i
          <6>1. j < run.i /\ FilesOf(m)[j] \in Files
            BY <1>1, <4>1, <4>3, <5>2, FilesOfMode DEF Placeable
          <6>2. placed[FilesOf(m)[j]] = bundle.version
            BY <2>3, <6>1 DEF IInv, Placed, At
          <6> QED
            BY <6>1, <6>2, <2>6
        <5> QED
          BY <5>1, <5>2
      <4> QED
        BY <4>2, <4>3
    <3>2. ASSUME run'.pc \in PastPlace, NEW g \in Placeable(m)
          PROVE  placed'[g] = bundle.version
      <4>1. run.i = Len(FilesOf(m))
        BY <1>1, <2>2, <2>3, <3>2 DEF PastPlace, IInv, Shape
      <4>2. PICK j \in DOMAIN FilesOf(m) : g = FilesOf(m)[j]
        BY DEF Placeable
      <4>3. j = run.i \/ j < run.i
        BY <1>1, <4>1, FilesOfMode
      <4>4. g \in Files
        BY <1>1, FilesOfMode
      <4>5. j < run.i => placed[g] = bundle.version
        BY <2>3, <4>2 DEF IInv, Placed, At
      <4> QED
        BY <2>6, <4>2, <4>3, <4>4, <4>5
    <3> QED
      BY <2>1, <3>1, <3>2 DEF Placed, At
  <2>8. Merged' /\ Loaded' /\ Running' /\ OperatorKeysKept'
    BY <2>1, <2>3 DEF IInv, Merged, Loaded, Running, OperatorKeysKept, At, PastEnv, PastPlace,
                      PastLoad, PastSubnet
  <2> QED
    BY <2>4, <2>5, <2>7, <2>8 DEF IInv
<1>4. CASE KilledAfterCopy \/ PlaceMissing
  <2>1. UNCHANGED <<bundle, gen, placed, env, genenv, mine, image, stack, sites>>
    BY <1>4 DEF KilledAfterCopy, PlaceMissing, files, envs, caddy
  <2>2. run' \in [pc: Pcs, i: Nat \ {0}] /\ run'.pc \in {"failed", "incomplete"}
    BY <1>4 DEF KilledAfterCopy, PlaceMissing, Goto, Pcs
  <2> QED
    BY <2>1, <2>2 DEF IInv, Shape, Waiting, Placed, Merged, Loaded, Running,
       OperatorKeysKept, At, PastPlace, PastEnv, PastLoad, PastSubnet
<1> QED
  BY <1>3, <1>4

\* The commands between the placed files and the containers.
LEMMA CommandKeeps ==
  ASSUME IInv,
         \/ Start \/ SeedOrStrip \/ AppendKeys \/ LoadImage \/ WriteShared
         \/ DetectSubnet \/ WriteSnippet \/ Reload \/ Healthy \/ Fails
  PROVE  IInv'
<1> USE DEF IInv, Shape, Pcs, At, Goto, PastPlace, PastEnv, PastLoad, PastSubnet
<1>1. CASE Start
  <2>1. UNCHANGED <<bundle, gen, placed, env, genenv, mine, image, stack, sites>>
        /\ bundle.mode \in Modes /\ bundle.version # 0
    BY <1>1 DEF Start, files, envs, caddy
  <2>2. \/ run' = [pc |-> "failed", i |-> 1]
        \/ run' = [pc |-> "place", i |-> 1] /\ (env.own # 0 \/ genenv.managed # 0)
    BY <1>1 DEF Start
  <2>3. 1 \in DOMAIN FilesOf(bundle.mode)
    BY <2>1, FilesOfMode
  <2>4. \A j \in DOMAIN FilesOf(bundle.mode) : ~(j < 1)
    BY <2>1, FilesOfMode
  <2>5. Placed'
    BY <2>1, <2>2, <2>3, <2>4 DEF Placed
  <2> QED
    BY <2>1, <2>2, <2>5 DEF Waiting, Merged, Loaded, Running, OperatorKeysKept
<1>2. CASE SeedOrStrip
  <2>1. run.pc = "env" /\ UNCHANGED <<bundle, gen, placed, image, stack, sites>>
    BY <1>2 DEF SeedOrStrip, files, caddy
  <2>2. CASE env.own = 0
    <3>1. /\ env' = [own |-> bundle.version, managed |-> genenv.managed, open |-> genenv.open]
          /\ genenv' = [managed |-> 0, open |-> FALSE]
          /\ mine' = bundle.version /\ run' = [pc |-> "teardown", i |-> 1]
      BY <1>2, <2>2 DEF SeedOrStrip
    <3>2. genenv.managed = bundle.version
      BY <2>1, <2>2 DEF Merged, Waiting
    <3> QED
      <4>1. env' \in [own: Nat, managed: Nat, open: BOOLEAN]
            /\ env'.managed = bundle.version /\ env'.open = genenv.open /\ env'.own = mine'
        BY <3>1, <3>2
      <4>2. genenv' \in [managed: Nat, open: BOOLEAN]
            /\ genenv'.managed = 0 /\ ~genenv'.open
        BY <3>1
      <4>3. Shape'
        BY <2>1, <3>1, <4>1, <4>2
      <4>4. Waiting' /\ Placed' /\ Merged'
        BY <2>1, <3>1, <4>1, <4>2 DEF Waiting, Placed, Merged
      <4>5. Loaded' /\ Running' /\ OperatorKeysKept'
        BY <2>1, <3>1, <4>1 DEF Loaded, Running, OperatorKeysKept
      <4> QED
        BY <4>3, <4>4, <4>5
  <2>3. CASE env.own # 0
    <3>1. /\ env' \in [own: Nat, managed: Nat, open: BOOLEAN] /\ env'.own = env.own
          /\ UNCHANGED <<genenv, mine>> /\ run' = [pc |-> "append", i |-> 1]
      <4>1. env' = IF genenv.managed = 0 THEN env
                   ELSE [env EXCEPT !.managed = 0, !.open = FALSE]
        BY <1>2, <2>3 DEF SeedOrStrip
      <4>2. [env EXCEPT !.managed = 0, !.open = FALSE]
              \in [own: Nat, managed: Nat, open: BOOLEAN]
        OBVIOUS
      <4> QED
        BY <1>2, <2>3, <4>1, <4>2 DEF SeedOrStrip
    <3> QED
      BY <2>1, <3>1 DEF Waiting, Placed, Merged, Loaded, Running, OperatorKeysKept
  <2> QED
    BY <2>2, <2>3
<1>3. CASE AppendKeys
  <2>1. run.pc = "append" /\ UNCHANGED <<bundle, gen, placed, genenv, mine, image, stack, sites>>
    BY <1>3 DEF AppendKeys, files, caddy
  <2>2. /\ env' \in [own: Nat, managed: Nat, open: BOOLEAN] /\ env'.own = env.own
        /\ \/ run' = [pc |-> "failed", i |-> 1]
           \/ /\ run' = [pc |-> "teardown", i |-> 1]
              /\ env'.managed = genenv.managed /\ genenv.managed # 0
              /\ env'.open = genenv.open
    BY <1>3 DEF AppendKeys
  <2> QED
    BY <2>1, <2>2 DEF Waiting, Placed, Merged, Loaded, Running, OperatorKeysKept
<1>4. CASE LoadImage
  BY <1>4
     DEF LoadImage, AfterTeardown, files, envs, caddy, Waiting, Placed, Merged, Loaded, Running,
         OperatorKeysKept
<1>5. CASE WriteShared
  BY <1>5
     DEF WriteShared, files, envs, Waiting, Placed, Merged, Loaded, Running, OperatorKeysKept
<1>6. CASE DetectSubnet
  <2>1. run.pc = "proxy" /\ UNCHANGED <<bundle, gen, placed, mine, image, stack, sites>>
    BY <1>6 DEF DetectSubnet, files, caddy
  <2>2. /\ env' \in [own: Nat, managed: Nat, open: BOOLEAN]
        /\ env'.own = env.own /\ env'.managed = env.managed /\ ~env'.open
        /\ genenv' \in [managed: Nat, open: BOOLEAN]
        /\ genenv'.managed = genenv.managed /\ ~genenv'.open
        /\ run' = [pc |-> "snippet", i |-> 1]
    BY <1>6 DEF DetectSubnet
  <2> QED
    BY <2>1, <2>2 DEF Waiting, Placed, Merged, Loaded, Running, OperatorKeysKept
<1>7. CASE WriteSnippet
  BY <1>7
     DEF WriteSnippet, files, envs, Waiting, Placed, Merged, Loaded, Running, OperatorKeysKept
<1>8. CASE Reload
  BY <1>8
     DEF Reload, files, envs, Waiting, Placed, Merged, Loaded, Running, OperatorKeysKept
<1>9. CASE Healthy
  BY <1>9
     DEF Healthy, files, envs, caddy, Waiting, Placed, Merged, Loaded, Running, OperatorKeysKept
<1>10. CASE Fails
  BY <1>10
     DEF Fails, files, envs, caddy, Waiting, Placed, Merged, Loaded, Running, OperatorKeysKept
<1> QED
  BY <1>1, <1>2, <1>3, <1>4, <1>5, <1>6, <1>7, <1>8, <1>9, <1>10

\* The commands that stop and start containers.
LEMMA ContainersKeep ==
  ASSUME IInv, Teardown \/ Up \/ UpFails
  PROVE  IInv'
<1> USE DEF IInv, Shape, Pcs, At, Goto, PastPlace, PastEnv, PastLoad, PastSubnet
<1>1. CASE Teardown
  BY <1>1
     DEF Teardown, files, envs, caddy, Waiting, Placed, Merged, Loaded, Running, OperatorKeysKept
<1>2. CASE Up
  BY <1>2
     DEF Up, files, envs, caddy, Waiting, Placed, Merged, Loaded, Running, OperatorKeysKept
<1>3. CASE UpFails
  BY <1>3
     DEF UpFails, files, envs, caddy, Waiting, Placed, Merged, Loaded, Running, OperatorKeysKept
<1> QED
  BY <1>1, <1>2, <1>3

LEMMA StepKeepsIInv == IInv /\ [Next]_vars => IInv'
<1> SUFFICES ASSUME IInv, [Next]_vars PROVE IInv'
  OBVIOUS
<1>1. CASE UNCHANGED vars
  BY <1>1 DEF vars, files, envs, caddy, IInv, Shape, Waiting, Placed, Merged, Loaded, Running,
     OperatorKeysKept, At
<1>2. ASSUME NEW mode \in Modes, NEW goat \in BOOLEAN, Upload(mode, goat) PROVE IInv'
  BY <1>2, UploadKeeps
<1>3. CASE \/ EditEnv
           \/ \E l \in Lines, i \in 1..Len(shared) + 1 : WriteLine(l, i)
           \/ \E marker \in {"begin", "end"} : DropMarker(marker)
  BY <1>3, OperatorKeeps
<1>4. CASE Script
  BY <1>4, PlaceKeeps, CommandKeeps, ContainersKeep DEF Script
<1> QED
  BY <1>1, <1>2, <1>3, <1>4 DEF Next

\* A setup that ends well runs exactly the newest bundle, for any number of
\* bundles and modes and wherever the runs before it failed or were killed.
THEOREM SuccessfulSetupIsComplete == Spec => []SuccessIsComplete
<1>1. IInv => SuccessIsComplete
  <2> SUFFICES ASSUME IInv, At("done") PROVE SuccessIsComplete
    BY DEF SuccessIsComplete
  <2>1. bundle.mode \in Modes
    BY DEF IInv, Shape, At
  <2>2. placed[Compose(bundle.mode)] = bundle.version /\ image = bundle.version
    BY <2>1, FilesOfMode DEF IInv, Placed, Loaded, At, PastPlace, PastEnv, PastLoad
  <2> QED
    BY <2>2 DEF IInv, Placed, Merged, Loaded, Running, SuccessIsComplete, At, PastPlace, PastEnv,
                PastLoad, PastSubnet
<1> QED
  BY <1>1, InitIInv, StepKeepsIInv, PTL DEF Spec

\* No setup, whole or killed, replaces what the operator wrote into the environment.
THEOREM SetupKeepsOperatorKeys == Spec => []OperatorKeysKept
<1>1. IInv => OperatorKeysKept
  BY DEF IInv
<1> QED
  BY <1>1, InitIInv, StepKeepsIInv, PTL DEF Spec

\* Containers are stopped or started only with the whole new configuration in place.
THEOREM ContainersWaitForFiles == Spec => StackWaitsForFiles
<1> DEFINE Ready == /\ \A f \in Placeable(bundle.mode) : placed[f] = bundle.version
                    /\ env.managed = bundle.version
<1>1. ASSUME IInv, [Next]_vars, stack' # stack PROVE Ready
  <2>1. Teardown \/ Up \/ UpFails
    BY <1>1 DEF Next, Script, Upload, EditEnv, WriteLine, DropMarker, Start, Place,
       KilledAfterCopy, PlaceMissing, SeedOrStrip, AppendKeys, LoadImage, WriteShared,
       DetectSubnet, WriteSnippet, Reload, Healthy, Fails, vars
  <2>2. run.pc \in {"teardown", "up"}
    BY <2>1 DEF Teardown, Up, UpFails, At
  <2> QED
    BY <1>1, <2>2 DEF IInv, Placed, Merged, PastPlace, PastEnv
<1>2. IInv /\ [Next]_vars => [stack' # stack => Ready]_vars
  BY <1>1
<1> QED
  BY <1>2, InitIInv, StepKeepsIInv, PTL DEF Spec, StackWaitsForFiles

----------------------------------------------------------------------------
(* The shared Caddyfile. A splice keeps what is outside the markers, so no   *)
(* line of the operator's may be between them; as both markers are written   *)
(* at once and only deleted afterwards, there is never more than one pair.   *)

\* What the file may hold
Held == Lines \cup {"begin", "block", "end", "hint"}

\* Each marker is there at most once, and only the block is between the two
Marked(s) ==
  /\ s \in Seq(Held)
  /\ \A i, j \in DOMAIN s : s[i] = s[j] /\ s[i] \in {"begin", "end"} => i = j
  /\ \A i, j \in DOMAIN s : s[i] = "begin" /\ s[j] = "end" =>
       i < j /\ \A k \in i + 1 .. j - 1 : s[k] = "block"

SharedInv ==
  /\ Marked(shared) /\ written \in SUBSET Lines /\ SharedLinesKept

\* A marker is found where it is
LEMMA FirstIs ==
  ASSUME Marked(shared), NEW line \in {"begin", "end"}, NEW i \in DOMAIN shared,
         shared[i] = line, NEW from \in 1 .. i
  PROVE  First(line, from) = i
<1> DEFINE at == {k \in from .. Len(shared) : shared[k] = line}
<1>1. DOMAIN shared = 1 .. Len(shared) /\ Len(shared) \in Nat
  BY DEF Marked
<1>2. at = {i}
  <2>1. ASSUME NEW k \in at PROVE k = i
    BY <1>1, <2>1 DEF Marked
  <2>2. i \in at
    BY <1>1
  <2> QED BY <2>1, <2>2
<1>3. First(line, from) = IF at = {} THEN Len(shared) + 1
                          ELSE CHOOSE k \in at : \A j \in at : k <= j
  BY DEF First
<1>4. \E k \in at : \A j \in at : k <= j
  BY <1>1, <1>2
<1> HIDE DEF at
<1> QED BY <1>2, <1>3, <1>4

\* r is s with t for the lines from m to before n
SplicedAt(s, m, n, t, r) == r = SubSeq(s, 1, m - 1) \o t \o SubSeq(s, n, Len(s))
InPieces(s, m, n, t, r) ==
  /\ r \in Seq(Held) /\ DOMAIN r = 1 .. Len(s) + Len(t) + m - n
  /\ \A i \in 1 .. m - 1 : r[i] = s[i]
  /\ \A i \in 1 .. Len(t) : r[m - 1 + i] = t[i]
  /\ \A i \in n .. Len(s) : r[i + Len(t) + m - n] = s[i]

LEMMA Pieces ==
  ASSUME NEW s \in Seq(Held), NEW m \in 1 .. Len(s) + 1, NEW n \in m .. Len(s) + 1,
         NEW t \in Seq(Held), NEW r, SplicedAt(s, m, n, t, r)
  PROVE  InPieces(s, m, n, t, r)
<1> DEFINE a == SubSeq(s, 1, m - 1)
           b == SubSeq(s, n, Len(s))
<1>0. m \in Nat /\ n \in Nat /\ Len(s) \in Nat /\ Len(t) \in Nat /\ 1 <= m /\ m <= n /\ n <= Len(s) + 1
  OBVIOUS
<1>1. a \in Seq(Held) /\ Len(a) = m - 1 /\ \A i \in 1 .. m - 1 : a[i] = s[i]
  <2>1. \A i \in 1 .. m - 1 : s[i] \in Held
    BY <1>0
  <2>2. /\ a \in Seq(Held) /\ Len(a) = IF 1 <= m - 1 THEN m - 1 - 1 + 1 ELSE 0
        /\ \A i \in 1 .. m - 1 - 1 + 1 : a[i] = s[1 + i - 1]
    BY ONLY <1>0, <2>1, SubSeqProperties, 1 \in Int, m - 1 \in Int
  <2> HIDE DEF a
  <2> QED BY <1>0, <2>2
<1>2. /\ b \in Seq(Held) /\ Len(b) = Len(s) - n + 1
      /\ \A i \in 1 .. Len(s) - n + 1 : b[i] = s[n + i - 1]
  <2>1. \A i \in n .. Len(s) : s[i] \in Held
    BY <1>0
  <2>2. /\ b \in Seq(Held) /\ Len(b) = IF n <= Len(s) THEN Len(s) - n + 1 ELSE 0
        /\ \A i \in 1 .. Len(s) - n + 1 : b[i] = s[n + i - 1]
    BY ONLY <1>0, <2>1, SubSeqProperties, n \in Int, Len(s) \in Int
  <2> HIDE DEF b
  <2> QED BY <1>0, <2>2
<1> HIDE DEF a, b
<1> DEFINE c == a \o t
<1>3. /\ c \in Seq(Held) /\ Len(c) = m - 1 + Len(t)
      /\ \A i \in 1 .. m - 1 + Len(t) : c[i] = IF i <= m - 1 THEN a[i] ELSE t[i - (m - 1)]
  <2>1. /\ c \in Seq(Held) /\ Len(c) = Len(a) + Len(t)
        /\ \A i \in 1 .. Len(a) + Len(t) : c[i] = IF i <= Len(a) THEN a[i] ELSE t[i - Len(a)]
    BY ONLY <1>1, t \in Seq(Held), ConcatProperties, Zenon
  <2> HIDE DEF c
  <2> QED BY <1>1, <2>1
<1> HIDE DEF c
<1>4. r = c \o b
  BY DEF a, b, c, SplicedAt
<1>5. /\ r \in Seq(Held) /\ Len(r) = Len(c) + Len(b)
      /\ \A i \in 1 .. Len(c) + Len(b) : r[i] = IF i <= Len(c) THEN c[i] ELSE b[i - Len(c)]
  BY ONLY <1>2, <1>3, <1>4, ConcatProperties, Zenon
<1>6. Len(r) = Len(s) + Len(t) + m - n /\ DOMAIN r = 1 .. Len(r)
  BY <1>0, <1>2, <1>3, <1>5
<1>7. ASSUME NEW i \in 1 .. m - 1 PROVE r[i] = s[i]
  <2>1. i \in 1 .. Len(c) + Len(b) /\ i <= Len(c) /\ i \in 1 .. m - 1 + Len(t) /\ i <= m - 1
    BY ONLY <1>0, <1>2, <1>3, <1>7
  <2>2. r[i] = c[i] /\ c[i] = a[i]
    BY ONLY <1>3, <1>5, <2>1
  <2> QED BY <1>1, <2>2
<1>8. ASSUME NEW i \in 1 .. Len(t) PROVE r[m - 1 + i] = t[i]
  <2> DEFINE k == m - 1 + i
  <2>1. k \in 1 .. Len(c) + Len(b) /\ k <= Len(c) /\ k \in 1 .. m - 1 + Len(t) /\ ~ (k <= m - 1)
        /\ k - (m - 1) = i
    BY ONLY <1>0, <1>2, <1>3, <1>8
  <2> HIDE DEF k
  <2>2. r[k] = c[k] /\ c[k] = t[k - (m - 1)]
    BY ONLY <1>3, <1>5, <2>1
  <2> QED BY <2>1, <2>2 DEF k
<1>9. ASSUME NEW i \in n .. Len(s) PROVE r[i + Len(t) + m - n] = s[i]
  <2> DEFINE k == i + Len(t) + m - n
  <2>1. k \in 1 .. Len(c) + Len(b) /\ ~ (k <= Len(c)) /\ k - Len(c) = i - n + 1
    BY <1>0, <1>2, <1>3
  <2>2. r[k] = b[i - n + 1]
    BY <1>5, <2>1
  <2>3. i - n + 1 \in 1 .. Len(s) - n + 1 /\ n + (i - n + 1) - 1 = i
    BY <1>0
  <2>4. b[i - n + 1] = s[n + (i - n + 1) - 1]
    BY <1>2, <2>3
  <2> QED BY <2>2, <2>3, <2>4
<1> QED BY <1>5, <1>6, <1>7, <1>8, <1>9 DEF InPieces

LEMMA HasIs ==
  ASSUME NEW s \in Seq(Held), s = shared, NEW line
  PROVE  Has(line) <=> \E k \in 1 .. Len(s) : s[k] = line
BY DEF Has

\* A line outside the markers
LEMMA WriteLineKeeps ==
  ASSUME SharedInv, NEW l \in Lines, NEW m \in 1 .. Len(shared) + 1, WriteLine(l, m)
  PROVE  SharedInv'
<1> DEFINE s == shared
           t == <<l>>
           r == shared'
           old(k) == IF k < m THEN k ELSE k - 1
<1>1. s \in Seq(Held) /\ t \in Seq(Held) /\ Len(t) = 1 /\ t[1] = l /\ Len(s) \in Nat /\ m \in Nat
      /\ 1 <= m /\ m <= Len(s) + 1 /\ l \notin {"begin", "end"} /\ DOMAIN s = 1 .. Len(s)
  BY RemoteSetupAssumption DEF SharedInv, Marked, Held
<1>2. /\ r = SubSeq(s, 1, m - 1) \o t \o SubSeq(s, m, Len(s))
      /\ (Has("begin") /\ Has("end") => m <= RegionStart \/ m > RegionEnd)
      /\ written' = written \cup {l} /\ UNCHANGED saved
  BY DEF WriteLine
<1> HIDE DEF s, r, t
<1>3. /\ r \in Seq(Held)
      /\ DOMAIN r = 1 .. Len(s) + Len(t) + m - m
      /\ \A i \in 1 .. m - 1 : r[i] = s[i]
      /\ \A i \in 1 .. Len(t) : r[m - 1 + i] = t[i]
      /\ \A i \in m .. Len(s) : r[i + Len(t) + m - m] = s[i]
  <2>1. m \in 1 .. Len(s) + 1 /\ m \in m .. Len(s) + 1
    BY <1>1
  <2>2. SplicedAt(s, m, m, t, r)
    BY <1>2 DEF SplicedAt
  <2>3. InPieces(s, m, m, t, r)
    BY ONLY <1>1, <2>1, <2>2, Pieces
  <2> QED BY ONLY <2>3 DEF InPieces
<1>4. /\ DOMAIN r = 1 .. Len(s) + 1 /\ r[m] = l
      /\ \A i \in 1 .. Len(s) : \E k \in DOMAIN r : r[k] = s[i]
  <2>1. DOMAIN r = 1 .. Len(s) + 1
    BY ONLY <1>1, <1>3
  <2>2. r[m - 1 + 1] = t[1]
    BY ONLY <1>1, <1>3
  <2>3. ASSUME NEW i \in 1 .. Len(s) PROVE \E k \in DOMAIN r : r[k] = s[i]
    <3>1. CASE i < m
      <4>1. i \in 1 .. m - 1 /\ i \in DOMAIN r
        BY ONLY <1>1, <2>1, <2>3, <3>1
      <4> QED BY ONLY <1>3, <4>1
    <3>2. CASE ~ (i < m)
      <4>1. i \in m .. Len(s) /\ i + Len(t) + m - m \in DOMAIN r
        BY ONLY <1>1, <2>1, <2>3, <3>2
      <4> QED BY ONLY <1>3, <4>1
    <3> QED BY <3>1, <3>2
  <2> QED BY ONLY <1>1, <2>1, <2>2, <2>3
<1>5. ASSUME NEW k \in DOMAIN r, k # m PROVE old(k) \in DOMAIN s /\ r[k] = s[old(k)]
  <2>1. CASE k < m
    BY ONLY <1>1, <1>3, <1>4, <1>5, <2>1
  <2>2. CASE ~ (k < m)
    <3>1. k - 1 \in m .. Len(s) /\ (k - 1) + Len(t) + m - m = k
      BY ONLY <1>1, <1>4, <1>5, <2>2
    <3>2. r[k] = s[k - 1]
      BY ONLY <1>3, <3>1
    <3> QED BY ONLY <1>1, <2>2, <3>1, <3>2
  <2> QED BY <2>1, <2>2
<1>6. \A i, j \in DOMAIN s : s[i] = s[j] /\ s[i] \in {"begin", "end"} => i = j
  BY DEF SharedInv, Marked, s
<1>7. \A i, j \in DOMAIN s : s[i] = "begin" /\ s[j] = "end" =>
        i < j /\ \A k \in i + 1 .. j - 1 : s[k] = "block"
  BY DEF SharedInv, Marked, s
<1>8. ASSUME NEW i \in DOMAIN r, NEW j \in DOMAIN r, r[i] = r[j], r[i] \in {"begin", "end"}
      PROVE  i = j
  <2>1. i # m /\ j # m
    BY <1>1, <1>4, <1>8
  <2>2. old(i) = old(j)
    BY ONLY <1>5, <1>6, <1>8, <2>1
  <2> QED BY <1>1, <1>4, <2>1, <2>2
<1>9. ASSUME NEW i \in DOMAIN r, NEW j \in DOMAIN r, r[i] = "begin", r[j] = "end"
      PROVE  i < j /\ \A k \in i + 1 .. j - 1 : r[k] = "block"
  <2>1. i # m /\ j # m
    BY <1>1, <1>4, <1>9
  <2> DEFINE a == old(i)
             b == old(j)
  <2>2. a \in DOMAIN s /\ b \in DOMAIN s /\ s[a] = "begin" /\ s[b] = "end"
    BY <1>5, <1>9, <2>1
  <2>3. a < b /\ \A k \in a + 1 .. b - 1 : s[k] = "block"
    BY <1>7, <2>2
  <2>4. RegionStart = a /\ RegionEnd = b
    <3>1. Marked(shared) /\ a \in DOMAIN shared /\ b \in DOMAIN shared
          /\ shared[a] = "begin" /\ shared[b] = "end"
      BY <2>2 DEF SharedInv, s
    <3>2. 1 \in 1 .. a /\ a \in 1 .. b
      BY <1>1, <2>2, <2>3
    <3> HIDE DEF a, b
    <3>3. First("begin", 1) = a /\ First("end", a) = b
      BY <3>1, <3>2, FirstIs
    <3> QED BY <3>3 DEF RegionStart, RegionEnd
  <2>5. m <= a \/ m > b
    <3>1. Has("begin") /\ Has("end")
      BY <1>1, <2>2, HasIs DEF s
    <3> QED BY <1>2, <2>4, <3>1
  <2>6. i < j
    BY ONLY <1>1, <1>4, <2>1, <2>3, <1>9
  <2>7. ASSUME NEW k \in i + 1 .. j - 1 PROVE r[k] = "block"
    <3>1. k \in DOMAIN r
      BY ONLY <1>1, <1>4, <1>9, <2>7
    <3>2. k # m
      BY ONLY <1>1, <1>4, <1>9, <2>1, <2>5, <2>7
    <3>3. old(k) \in a + 1 .. b - 1
      BY ONLY <1>1, <1>4, <1>9, <2>1, <2>7, <3>1, <3>2
    <3>4. s[old(k)] = "block" /\ r[k] = s[old(k)]
      BY <1>5, <2>3, <3>1, <3>2, <3>3
    <3> QED BY <3>4
  <2> QED BY <2>6, <2>7
<1>10. Marked(r)
  BY ONLY <1>3, <1>8, <1>9 DEF Marked
<1>11. written' \in SUBSET Lines
  BY <1>2 DEF SharedInv
<1>12. SharedLinesKept'
  <2> SUFFICES ASSUME NEW x \in written' PROVE Has(x)' \/ x \in saved'
    BY DEF SharedLinesKept
  <2>1. CASE x = l
    <3>1. \E k \in DOMAIN r : r[k] = x
      BY <1>1, <1>4, <2>1
    <3> QED BY <3>1 DEF Has, r
  <2>2. CASE x # l
    <3>1. Has(x) \/ x \in saved
      BY <1>2, <2>2 DEF SharedInv, SharedLinesKept
    <3>2. CASE Has(x)
      <4>1. \E k \in DOMAIN r : r[k] = x
        BY <1>1, <1>4, <3>2, HasIs DEF s
      <4> QED BY <4>1 DEF Has, r
    <3> QED BY <1>2, <3>1, <3>2
  <2> QED BY <2>1, <2>2
<1> QED BY <1>10, <1>11, <1>12 DEF SharedInv, r

\* A marker less
LEMMA DropMarkerKeeps ==
  ASSUME SharedInv, NEW marker \in {"begin", "end"}, DropMarker(marker)
  PROVE  SharedInv'
<1> DEFINE s == shared
           m == First(marker, 1)
           r == shared'
           old(k) == IF k < m THEN k ELSE k + 1
<1>1. s \in Seq(Held) /\ Len(s) \in Nat /\ DOMAIN s = 1 .. Len(s) /\ << >> \in Seq(Held)
      /\ Len(<< >>) = 0
  BY DEF SharedInv, Marked
<1>2. m \in 1 .. Len(s) /\ s[m] = marker
  <2>1. PICK k \in 1 .. Len(s) : s[k] = marker
    BY <1>1, HasIs DEF DropMarker
  <2>2. First(marker, 1) = k
    BY <1>1, <2>1, FirstIs DEF SharedInv
  <2> QED BY <2>1, <2>2
<1>3. r = SubSeq(s, 1, m - 1) \o SubSeq(s, m + 1, Len(s)) /\ UNCHANGED <<saved, written>>
  BY DEF DropMarker
<1> HIDE DEF s, r, m
<1>4. /\ r \in Seq(Held) /\ DOMAIN r = 1 .. Len(s) - 1
      /\ \A i \in 1 .. m - 1 : r[i] = s[i]
      /\ \A i \in m + 1 .. Len(s) : r[i - 1] = s[i]
  <2>1. m \in 1 .. Len(s) + 1 /\ m + 1 \in m .. Len(s) + 1 /\ m \in Int /\ m - 1 \in Int /\ 1 \in Int
    BY <1>1, <1>2
  <2>2. r = SubSeq(s, 1, m - 1) \o << >> \o SubSeq(s, m + 1, Len(s))
    <3>1. \A i \in 1 .. m - 1 : s[i] \in Held
      BY <1>1, <1>2
    <3>2. SubSeq(s, 1, m - 1) \in Seq(Held)
      BY ONLY <2>1, <3>1, SubSeqProperties
    <3>3. SubSeq(s, 1, m - 1) \o << >> = SubSeq(s, 1, m - 1)
      BY ONLY <3>2, ConcatEmptySeq
    <3> QED BY ONLY <1>3, <3>3
  <2>3. /\ r \in Seq(Held) /\ DOMAIN r = 1 .. Len(s) + Len(<< >>) + m - (m + 1)
        /\ \A i \in 1 .. m - 1 : r[i] = s[i]
        /\ \A i \in m + 1 .. Len(s) : r[i + Len(<< >>) + m - (m + 1)] = s[i]
    <3>1. SplicedAt(s, m, m + 1, << >>, r)
      BY <2>2 DEF SplicedAt
    <3>2. InPieces(s, m, m + 1, << >>, r)
      BY ONLY <1>1, <2>1, <3>1, Pieces
    <3> QED BY ONLY <3>2 DEF InPieces
  <2>4. ASSUME NEW i \in m + 1 .. Len(s) PROVE r[i - 1] = s[i]
    <3>1. i + Len(<< >>) + m - (m + 1) = i - 1
      BY ONLY <1>1, <2>1, <2>4
    <3> QED BY ONLY <2>3, <3>1, <2>4
  <2>5. DOMAIN r = 1 .. Len(s) - 1
    BY ONLY <1>1, <2>1, <2>3
  <2> QED BY <2>3, <2>4, <2>5
<1>5. ASSUME NEW k \in DOMAIN r PROVE old(k) \in DOMAIN s /\ r[k] = s[old(k)]
  <2>1. CASE k < m
    <3>1. k \in 1 .. m - 1 /\ k \in DOMAIN s /\ old(k) = k
      BY ONLY <1>1, <1>2, <1>4, <1>5, <2>1
    <3> QED BY ONLY <1>4, <3>1
  <2>2. CASE ~ (k < m)
    <3>1. k + 1 \in m + 1 .. Len(s) /\ k + 1 - 1 = k /\ k + 1 \in DOMAIN s /\ old(k) = k + 1
      BY ONLY <1>1, <1>2, <1>4, <1>5, <2>2
    <3>2. r[k + 1 - 1] = s[k + 1]
      BY ONLY <1>4, <3>1
    <3> QED BY ONLY <3>1, <3>2
  <2> QED BY <2>1, <2>2
<1>6. \A i, j \in DOMAIN s : s[i] = s[j] /\ s[i] \in {"begin", "end"} => i = j
  BY DEF SharedInv, Marked, s
<1>7. \A i, j \in DOMAIN s : s[i] = "begin" /\ s[j] = "end" =>
        i < j /\ \A k \in i + 1 .. j - 1 : s[k] = "block"
  BY DEF SharedInv, Marked, s
<1>8. ASSUME NEW i \in DOMAIN r, NEW j \in DOMAIN r, r[i] = r[j], r[i] \in {"begin", "end"}
      PROVE  i = j
  <2>1. old(i) = old(j)
    BY ONLY <1>5, <1>6, <1>8
  <2> QED BY ONLY <1>1, <1>2, <1>4, <1>8, <2>1
<1>9. ASSUME NEW i \in DOMAIN r, NEW j \in DOMAIN r, r[i] = "begin", r[j] = "end"
      PROVE  i < j /\ \A k \in i + 1 .. j - 1 : r[k] = "block"
  <2> DEFINE a == old(i)
             b == old(j)
  <2>1. a \in DOMAIN s /\ b \in DOMAIN s /\ s[a] = "begin" /\ s[b] = "end"
    BY <1>5, <1>9
  <2>2. a < b /\ \A k \in a + 1 .. b - 1 : s[k] = "block"
    BY <1>7, <2>1
  <2>3. i < j
    BY ONLY <1>1, <1>2, <1>4, <1>9, <2>2
  <2>4. ASSUME NEW k \in i + 1 .. j - 1 PROVE r[k] = "block"
    <3>1. k \in DOMAIN r
      BY ONLY <1>1, <1>4, <1>9, <2>4
    <3>2. old(k) \in a + 1 .. b - 1
      <4>1. old(k) # a /\ old(k) # b /\ a <= old(k) /\ old(k) <= b
        BY ONLY <1>1, <1>2, <1>4, <1>9, <2>4
      <4>2. old(k) \in Int /\ a \in Int /\ b \in Int
        BY <1>1, <1>5, <2>1, <3>1
      <4> QED BY <4>1, <4>2
    <3>3. s[old(k)] = "block" /\ r[k] = s[old(k)]
      BY <1>5, <2>2, <3>1, <3>2
    <3> QED BY <3>3
  <2> QED BY <2>3, <2>4
<1>10. Marked(r)
  BY ONLY <1>4, <1>8, <1>9 DEF Marked
<1>11. SharedLinesKept'
  <2> SUFFICES ASSUME NEW x \in written, Has(x) PROVE Has(x)'
    BY <1>3 DEF SharedInv, SharedLinesKept
  <2>1. PICK i \in 1 .. Len(s) : s[i] = x
    BY <1>1, HasIs DEF s
  <2>2. i # m
    BY <1>2, <2>1, RemoteSetupAssumption DEF SharedInv
  <2>3. \E k \in DOMAIN r : r[k] = x
    <3>1. CASE i < m
      <4>1. i \in 1 .. m - 1 /\ i \in DOMAIN r
        BY <1>1, <1>2, <1>4, <3>1
      <4> QED BY <1>4, <2>1, <4>1
    <3>2. CASE i > m
      <4>1. i \in m + 1 .. Len(s) /\ i - 1 \in DOMAIN r
        BY <1>1, <1>2, <1>4, <3>2
      <4> QED BY <1>4, <2>1, <4>1
    <3> QED BY <1>2, <2>2, <3>1, <3>2
  <2> QED BY <2>3 DEF Has, r
<1> QED BY <1>3, <1>10, <1>11 DEF SharedInv, r

\* A new block between the markers, or a new file with the old one saved
LEMMA WriteSharedKeeps ==
  ASSUME SharedInv, WriteShared
  PROVE  SharedInv'
<1>1. CASE shared # << >> /\ Has("begin") /\ Has("end")
  <2> DEFINE s == shared
             a == RegionStart
             b == RegionEnd
             t == Managed
             r == shared'
  <2>1. /\ s \in Seq(Held) /\ Len(s) \in Nat /\ DOMAIN s = 1 .. Len(s)
        /\ t \in Seq(Held) /\ Len(t) = 3 /\ t[1] = "begin" /\ t[2] = "block" /\ t[3] = "end"
    BY DEF SharedInv, Marked, Held, Managed
  <2>2. /\ a \in 1 .. Len(s) /\ s[a] = "begin" /\ b \in 1 .. Len(s) /\ s[b] = "end" /\ a < b
        /\ \A k \in a + 1 .. b - 1 : s[k] = "block"
    <3>1. PICK i \in 1 .. Len(s) : s[i] = "begin"
      BY <1>1, <2>1, HasIs
    <3>2. PICK j \in 1 .. Len(s) : s[j] = "end"
      BY <1>1, <2>1, HasIs
    <3>3. i < j /\ \A k \in i + 1 .. j - 1 : s[k] = "block"
      BY <2>1, <3>1, <3>2 DEF SharedInv, Marked
    <3>4. 1 \in 1 .. i /\ i \in 1 .. j
      BY <3>3
    <3>5. First("begin", 1) = i /\ First("end", i) = j
      BY <2>1, <3>1, <3>2, <3>4, FirstIs DEF SharedInv
    <3>6. a = i /\ b = j
      BY <3>5 DEF RegionStart, RegionEnd
    <3> HIDE DEF s, a, b
    <3> QED BY <3>1, <3>2, <3>3, <3>6
  <2>3. r = SubSeq(s, 1, a - 1) \o t \o SubSeq(s, b + 1, Len(s)) /\ UNCHANGED <<saved, written>>
    BY <1>1 DEF WriteShared, Spliced
  <2>4. \A i, j \in DOMAIN s : s[i] = s[j] /\ s[i] \in {"begin", "end"} => i = j
    BY DEF SharedInv, Marked
  <2> HIDE DEF s, a, b, t, r
  <2>5. /\ r \in Seq(Held)
        /\ DOMAIN r = 1 .. Len(s) + Len(t) + a - (b + 1)
        /\ \A i \in 1 .. a - 1 : r[i] = s[i]
        /\ \A i \in 1 .. Len(t) : r[a - 1 + i] = t[i]
        /\ \A i \in b + 1 .. Len(s) : r[i + Len(t) + a - (b + 1)] = s[i]
    <3>1. a \in 1 .. Len(s) + 1 /\ b + 1 \in a .. Len(s) + 1
      BY <2>1, <2>2
    <3>2. SplicedAt(s, a, b + 1, t, r)
      BY <2>3 DEF SplicedAt
    <3>3. InPieces(s, a, b + 1, t, r)
      BY ONLY <2>1, <3>1, <3>2, Pieces
    <3> QED BY ONLY <3>3 DEF InPieces
  <2>6. /\ DOMAIN r = 1 .. Len(s) + a + 2 - b
        /\ r[a] = "begin" /\ r[a + 1] = "block" /\ r[a + 2] = "end"
    <3>1. a - 1 + 1 = a /\ a - 1 + 2 = a + 1 /\ a - 1 + 3 = a + 2
      BY <2>2
    <3>2. r[a - 1 + 1] = t[1] /\ r[a - 1 + 2] = t[2] /\ r[a - 1 + 3] = t[3]
      BY ONLY <2>1, <2>5
    <3>3. Len(s) + Len(t) + a - (b + 1) = Len(s) + a + 2 - b
      BY <2>1, <2>2
    <3> QED BY <2>1, <2>5, <3>1, <3>2, <3>3
  <2>7. ASSUME NEW i \in b + 1 .. Len(s) PROVE i + a + 2 - b \in DOMAIN r /\ r[i + a + 2 - b] = s[i]
    <3>1. i + Len(t) + a - (b + 1) = i + a + 2 - b /\ i + a + 2 - b \in DOMAIN r
      BY ONLY <2>1, <2>2, <2>6, <2>7
    <3>2. r[i + Len(t) + a - (b + 1)] = s[i]
      BY ONLY <2>5, <2>7
    <3> QED BY <3>1, <3>2
  <2>m. \A i \in DOMAIN s : s[i] \in {"begin", "end"} => i = a \/ i = b
    <3>1. a \in DOMAIN s /\ b \in DOMAIN s /\ s[a] = "begin" /\ s[b] = "end"
      BY <2>1, <2>2
    <3> QED BY ONLY <2>4, <3>1
  <2>8. ASSUME NEW k \in DOMAIN r, k \notin a .. a + 2 PROVE r[k] \notin {"begin", "end"}
    <3>1. CASE k < a
      <4>1. k \in 1 .. a - 1 /\ k \in DOMAIN s /\ k # a /\ k # b
        BY ONLY <2>1, <2>2, <2>6, <2>8, <3>1
      <4>2. r[k] = s[k]
        BY ONLY <2>5, <4>1
      <4>3. a \in DOMAIN s /\ b \in DOMAIN s
        BY <2>1, <2>2
      <4>4. s[k] \notin {"begin", "end"}
        BY ONLY <2>m, <4>1
      <4> QED BY ONLY <4>2, <4>4
    <3>2. CASE k > a + 2
      <4> DEFINE i == k - a - 2 + b
      <4>0. k \in 1 .. Len(s) + a + 2 - b /\ k > a + 2 /\ a \in Int /\ b \in Int /\ a < b /\ 1 <= a
            /\ Len(s) \in Nat /\ DOMAIN s = 1 .. Len(s)
        BY ONLY <2>1, <2>2, <2>6, <2>8, <3>2
      <4>1. i \in b + 1 .. Len(s) /\ i + a + 2 - b = k /\ i \in DOMAIN s /\ i # a /\ i # b
        BY ONLY <4>0
      <4> HIDE DEF i
      <4>2. r[k] = s[i]
        BY <2>7, <4>1
      <4>3. a \in DOMAIN s /\ b \in DOMAIN s
        BY <2>1, <2>2
      <4> QED BY ONLY <2>m, <4>1, <4>2, <4>3
    <3> QED BY ONLY <2>1, <2>2, <2>6, <2>8, <3>1, <3>2
  <2>9. \A k \in DOMAIN r : (r[k] = "begin" => k = a) /\ (r[k] = "end" => k = a + 2)
    <3>1. ASSUME NEW k \in DOMAIN r, r[k] \in {"begin", "end"} PROVE k \in {a, a + 1, a + 2}
      BY <2>2, <2>8, <3>1
    <3> QED BY <2>6, <3>1
  <2>10. Marked(r)
    <3>1. ASSUME NEW i \in DOMAIN r, NEW j \in DOMAIN r, r[i] = "begin", r[j] = "end"
          PROVE  i < j /\ \A k \in i + 1 .. j - 1 : r[k] = "block"
      <4>1. a < a + 2
        BY <2>2
      <4>2. i = a /\ j = a + 2
        BY ONLY <2>9, <3>1
      <4>3. i < j
        BY <4>1, <4>2
      <4>4. ASSUME NEW k \in i + 1 .. j - 1 PROVE r[k] = "block"
        <5>1. k = a + 1
          BY <2>2, <4>2, <4>4
        <5> QED BY <2>6, <5>1
      <4> QED BY <4>3, <4>4
    <3>2. \A i, j \in DOMAIN r : r[i] = r[j] /\ r[i] \in {"begin", "end"} => i = j
      BY ONLY <2>9
    <3> QED BY ONLY <2>5, <3>1, <3>2 DEF Marked
  <2>11. SharedLinesKept'
    <3> SUFFICES ASSUME NEW x \in written, Has(x) PROVE Has(x)'
      BY <2>3 DEF SharedInv, SharedLinesKept
    <3>1. PICK i \in 1 .. Len(s) : s[i] = x
      BY <2>1, HasIs DEF s
    <3>2. ~ (i \in a .. b)
      <4>1. x \notin {"begin", "block", "end"}
        BY RemoteSetupAssumption DEF SharedInv
      <4>2. i # a /\ i # b /\ i \notin a + 1 .. b - 1
        BY <2>2, <3>1, <4>1
      <4> QED BY <2>2, <4>2
    <3>3. \E k \in DOMAIN r : r[k] = x
      <4>1. CASE i < a
        <5>1. i \in 1 .. a - 1 /\ i \in DOMAIN r
          BY <2>1, <2>2, <2>6, <4>1
        <5> QED BY <2>5, <3>1, <5>1
      <4>2. CASE i > b
        <5>1. i \in b + 1 .. Len(s)
          BY <2>1, <2>2, <4>2
        <5> QED BY <2>7, <3>1, <5>1
      <4> QED BY <2>2, <3>2, <4>1, <4>2
    <3> QED BY <3>3 DEF Has, r
  <2> QED BY <2>3, <2>10, <2>11 DEF SharedInv, r
<1>2. CASE ~ (shared # << >> /\ Has("begin") /\ Has("end"))
  <2>1. /\ shared' = Managed \o <<"hint">> /\ UNCHANGED written
        /\ saved' = saved \cup {shared[i] : i \in DOMAIN shared}
    BY <1>2 DEF WriteShared
  <2> DEFINE t == Managed
             u == <<"hint">>
             r == shared'
  <2>2. /\ t \in Seq(Held) /\ Len(t) = 3 /\ t[1] = "begin" /\ t[2] = "block" /\ t[3] = "end"
        /\ u \in Seq(Held) /\ Len(u) = 1 /\ u[1] = "hint" /\ r = t \o u
    BY <2>1 DEF Managed, Held
  <2> HIDE DEF t, u, r
  <2>5. /\ r \in Seq(Held) /\ Len(r) = Len(t) + Len(u)
        /\ \A i \in 1 .. Len(t) + Len(u) : r[i] = IF i <= Len(t) THEN t[i] ELSE u[i - Len(t)]
    BY ONLY <2>2, ConcatProperties, Zenon
  <2>6. DOMAIN r = 1 .. 4 /\ r[1] = "begin" /\ r[2] = "block" /\ r[3] = "end" /\ r[4] = "hint"
    BY <2>2, <2>5
  <2>3. Marked(r)
    BY ONLY <2>5, <2>6 DEF Marked
  <2>4. SharedLinesKept'
    BY <2>1 DEF SharedInv, SharedLinesKept, Has
  <2> QED BY <2>1, <2>3, <2>4 DEF SharedInv, r
<1> QED BY <1>1, <1>2

LEMMA SharedInit == Init => SharedInv
<1> SUFFICES ASSUME Init PROVE SharedInv
  OBVIOUS
<1>1. CASE written = {}
  <2>1. shared = << >>
    BY <1>1 DEF Init
  <2> QED BY <1>1, <2>1 DEF SharedInv, Marked, SharedLinesKept
<1>2. CASE written # {}
  <2>1. PICK l \in Lines : written = {l}
    BY <1>2 DEF Init
  <2>2. shared = <<l>>
    BY <2>1 DEF Init
  <2>3. l \notin {"begin", "end"}
    BY RemoteSetupAssumption
  <2>4. Marked(shared)
    BY <2>2, <2>3 DEF Marked, Held
  <2>5. SharedLinesKept
    <3>1. Has(l)
      BY <2>2 DEF Has
    <3> QED BY <2>1, <3>1 DEF SharedLinesKept
  <2> QED BY <2>1, <2>4, <2>5 DEF SharedInv
<1> QED BY <1>1, <1>2

LEMMA SharedNext == SharedInv /\ [Next]_vars => SharedInv'
<1> SUFFICES ASSUME SharedInv, [Next]_vars PROVE SharedInv'
  OBVIOUS
<1>1. CASE \E l \in Lines, i \in 1 .. Len(shared) + 1 : WriteLine(l, i)
  BY <1>1, WriteLineKeeps
<1>2. CASE \E marker \in {"begin", "end"} : DropMarker(marker)
  BY <1>2, DropMarkerKeeps
<1>3. CASE WriteShared
  BY <1>3, WriteSharedKeeps
<1>4. CASE UNCHANGED <<shared, saved, written>>
  BY <1>4 DEF SharedInv, SharedLinesKept, Has
<1>5. ~ (\E l \in Lines, i \in 1 .. Len(shared) + 1 : WriteLine(l, i))
      /\ ~ (\E marker \in {"begin", "end"} : DropMarker(marker)) /\ ~ WriteShared
        => UNCHANGED <<shared, saved, written>>
  BY DEF Next, Script, Upload, EditEnv, Start, Place, KilledAfterCopy, PlaceMissing, SeedOrStrip,
         AppendKeys, Teardown, LoadImage, DetectSubnet, WriteSnippet, Reload, Up, UpFails, Healthy,
         Fails, vars, caddy
<1> QED BY <1>1, <1>2, <1>3, <1>4, <1>5

\* Whatever markers are deleted and wherever the operator writes outside them, a
\* line of the operator's is in the shared Caddyfile or in a backup of it
THEOREM OperatorLinesKept == Spec => []SharedLinesKept
<1>1. SharedInv => SharedLinesKept
  BY DEF SharedInv
<1> QED BY <1>1, SharedInit, SharedNext, PTL DEF Spec
=============================================================================
