---------------------------- MODULE RemoteSetup ----------------------------
(***************************************************************************)
(* setup.sh of a remote deployment bundle. The operator copies bundles to   *)
(* the server and runs the script, which puts the generated files in place, *)
(* merges the environment, takes down the stack of another mode, loads the  *)
(* image, brings up the shared Caddy and the stack, and waits until it is   *)
(* healthy. It may fail or be killed at every command (set -e).             *)
(***************************************************************************)
EXTENDS Integers, Sequences, FiniteSets

CONSTANTS
  Modes,       \* of "bundled", "external", "direct"
  Lines,       \* what the operator writes into the shared Caddyfile
  MaxBundles,  \* a bound: bundles copied to the server
  MaxFaults    \* a bound: commands that fail, runs that are killed

ASSUME RemoteSetupAssumption ==
  /\ Modes \subseteq {"bundled", "external", "direct"}
  /\ {MaxBundles, MaxFaults} \subseteq Nat
  /\ Lines \cap {"begin", "block", "end", "hint"} = {}

VARIABLES
  bundle,   \* the bundle on the server: [mode, goat, version]
  gen,      \* .generated files, by the version they are of; 0: none
  placed,   \* files in their final place
  bak,      \* their .bak copies
  env,      \* .env.production: [own, managed, open]; own 0: no file
  genenv,   \* .env.production.generated: [managed, open]
  mine,     \* the operator's values in env
  last,     \* .last-teardown: the mode it names
  image,    \* the image loaded
  stack,    \* running containers, by the versions <<image, file>> they run
  shared,   \* the shared Caddyfile; << >>: none
  saved,    \* lines in its backups
  written,  \* lines the operator wrote outside the managed region
  sites,    \* the site snippet: [file, loaded] versions
  run,      \* the script: [pc, i]
  faults

files == <<gen, placed, bak>>
envs == <<env, genenv, mine>>
caddy == <<shared, saved, written, sites>>
vars == <<bundle, files, envs, last, image, stack, caddy, run, faults>>

None == "none"
Absent == <<0, 0>>
Compose(mode) == CASE mode = "bundled"  -> "image.yml"
                   [] mode = "external" -> "image.external-caddy.yml"
                   [] OTHER             -> "image.nocaddy.yml"
FilesOf(mode) == IF mode = "bundled" THEN <<Compose(mode), "Caddyfile">>
                 ELSE <<Compose(mode)>>
Placeable(mode) == {FilesOf(mode)[i] : i \in DOMAIN FilesOf(mode)}
Files == UNION {Placeable(m) : m \in Modes}
Services == {"agblogger", "goatcounter", "caddy"}
ServicesOf(mode, goat) ==
  {"agblogger"} \cup (IF goat THEN {"goatcounter"} ELSE {})
    \cup (IF mode = "bundled" THEN {"caddy"} ELSE {})

Init ==
  /\ bundle = [mode |-> None, goat |-> FALSE, version |-> 0]
  /\ gen = [f \in Files |-> 0] /\ placed = gen /\ bak = gen
  /\ env = [own |-> 0, managed |-> 0, open |-> FALSE]
  /\ genenv = [managed |-> 0, open |-> FALSE] /\ mine = 0
  /\ last = None /\ image = 0
  /\ stack = [s \in Services |-> Absent]
  \* no shared Caddy yet, or one set up before there were markers
  /\ written \in {{}} \cup {{l} : l \in Lines}
  /\ shared = IF written = {} THEN << >> ELSE <<CHOOSE l \in written : TRUE>>
  /\ saved = {}
  /\ sites = [file |-> 0, loaded |-> 0]
  /\ run = [pc |-> "idle", i |-> 1] /\ faults = 0

Fault == faults < MaxFaults /\ faults' = faults + 1
At(pc) == run.pc = pc
Goto(pc) == run' = [pc |-> pc, i |-> 1]
Stopped == run.pc \in {"idle", "done", "failed", "incomplete"}

----------------------------------------------------------------------------
(* The operator.                                                            *)

\* regenerate the bundle and copy all files over (write_bundle_files)
Upload(mode, goat) ==
  LET v == bundle.version + 1 IN
  /\ Stopped /\ v <= MaxBundles
  /\ bundle' = [mode |-> mode, goat |-> goat, version |-> v]
  /\ gen' = [f \in Files |-> IF f \in Placeable(mode) THEN v ELSE gen[f]]
  /\ genenv' = [managed |-> v, open |-> mode = "external"]
  /\ Goto("idle")
  /\ UNCHANGED <<placed, bak, env, mine, last, image, stack, caddy, faults>>

\* the operator's own values, told apart from every generated one
Edited == MaxBundles + 1

EditEnv ==
  /\ Stopped /\ env.own \notin {0, Edited}
  /\ mine' = Edited /\ env' = [env EXCEPT !.own = Edited]
  /\ UNCHANGED <<bundle, files, genenv, last, image, stack, caddy, run, faults>>

Has(line) == line \in {shared[i] : i \in DOMAIN shared}
First(line, from) ==
  LET at == {i \in from..Len(shared) : shared[i] = line} IN
  IF at = {} THEN Len(shared) + 1 ELSE CHOOSE i \in at : \A j \in at : i <= j
RegionStart == First("begin", 1)
RegionEnd == First("end", RegionStart)

\* a line of the operator's before line i, outside the markers
WriteLine(l, i) ==
  /\ Stopped /\ shared # << >> /\ l \notin written
  /\ i \in 1..Len(shared) + 1
  /\ Has("begin") /\ Has("end") => i <= RegionStart \/ i > RegionEnd
  /\ shared' = SubSeq(shared, 1, i - 1) \o <<l>> \o SubSeq(shared, i, Len(shared))
  /\ written' = written \cup {l}
  /\ UNCHANGED <<bundle, files, envs, last, image, stack, saved, sites, run, faults>>

\* a marker is deleted by mistake
DropMarker(marker) ==
  LET i == First(marker, 1) IN
  /\ Stopped /\ Has(marker) /\ Fault
  /\ shared' = SubSeq(shared, 1, i - 1) \o SubSeq(shared, i + 1, Len(shared))
  /\ UNCHANGED <<bundle, files, envs, last, image, stack, saved, written, sites, run>>

----------------------------------------------------------------------------
(* The script. Each step is a command or a few of one effect.               *)

Start ==
  /\ Stopped /\ bundle.version # 0
  /\ IF env.own = 0 /\ genenv.managed = 0 THEN Goto("failed") ELSE Goto("place")
  /\ UNCHANGED <<bundle, files, envs, last, image, stack, caddy, faults>>

\* cp to .bak, mv of .generated; a kill may come in between
Place ==
  LET f == FilesOf(bundle.mode)[run.i] IN
  /\ At("place") /\ gen[f] # 0
  /\ bak' = IF placed[f] = 0 THEN bak ELSE [bak EXCEPT ![f] = placed[f]]
  /\ placed' = [placed EXCEPT ![f] = gen[f]]
  /\ gen' = [gen EXCEPT ![f] = 0]
  /\ run' = IF run.i = Len(FilesOf(bundle.mode)) THEN [pc |-> "env", i |-> 1]
            ELSE [run EXCEPT !.i = @ + 1]
  /\ UNCHANGED <<bundle, envs, last, image, stack, caddy, faults>>

KilledAfterCopy ==
  LET f == FilesOf(bundle.mode)[run.i] IN
  /\ At("place") /\ gen[f] # 0 /\ placed[f] # 0 /\ Fault
  /\ bak' = [bak EXCEPT ![f] = placed[f]]
  /\ Goto("failed")
  /\ UNCHANGED <<bundle, gen, placed, envs, last, image, stack, caddy>>

\* "The deployment bundle may be incomplete."
PlaceMissing ==
  /\ At("place") /\ gen[FilesOf(bundle.mode)[run.i]] = 0
  /\ Goto("incomplete")
  /\ UNCHANGED <<bundle, files, envs, last, image, stack, caddy, faults>>

\* the environment is seeded once; later only the merge keys are replaced:
\* first the old lines go, then the new ones are appended
\* Mutant: the generated environment takes the place of the old one.
SeededAnew ==
  /\ At("env")
  /\ env' = [own |-> bundle.version, managed |-> genenv.managed, open |-> genenv.open]
  /\ mine' = IF env.own = 0 THEN bundle.version ELSE mine
  /\ Goto("teardown")
  /\ UNCHANGED <<bundle, files, genenv, last, image, stack, caddy, faults>>
SeedOrStrip ==
  /\ At("env")
  /\ IF env.own = 0
     THEN /\ env' = [own |-> bundle.version, managed |-> genenv.managed, open |-> genenv.open]
          /\ genenv' = [managed |-> 0, open |-> FALSE]
          /\ mine' = bundle.version /\ Goto("teardown")
     ELSE /\ env' = IF genenv.managed = 0 THEN env
                    ELSE [env EXCEPT !.managed = 0, !.open = FALSE]
          /\ Goto("append") /\ UNCHANGED <<genenv, mine>>
  /\ UNCHANGED <<bundle, files, last, image, stack, caddy, faults>>

\* Mutant: the new keys are forgotten.
AppendNothing ==
  /\ At("append")
  /\ Goto("teardown")
  /\ UNCHANGED <<bundle, files, envs, last, image, stack, caddy, faults>>
AppendKeys ==
  /\ At("append")
  /\ env' = IF genenv.managed = 0 THEN env
            ELSE [env EXCEPT !.managed = genenv.managed, !.open = genenv.open]
  /\ Goto(IF genenv.managed = 0 THEN "failed" ELSE "teardown") \* chmod needs the file
  /\ UNCHANGED <<bundle, files, genenv, mine, last, image, stack, caddy, faults>>

\* the stack of another mode is taken down with the .bak of its file, if there
\* is one; a teardown that fails ends the script, before its warning
AfterTeardown == IF bundle.mode = "external" THEN "shared" ELSE "up"
Teardown ==
  /\ At("teardown")
  /\ IF last # None /\ last # bundle.mode /\ bak[Compose(last)] # 0
     THEN \E goat \in BOOLEAN :
            stack' = [s \in Services |->
                        IF s \in ServicesOf(last, goat) THEN Absent ELSE stack[s]]
     ELSE UNCHANGED stack
  /\ Goto("load")
  /\ UNCHANGED <<bundle, files, envs, last, image, caddy, faults>>

LoadImage ==
  /\ At("load")
  /\ image' = bundle.version
  /\ Goto(AfterTeardown)
  /\ UNCHANGED <<bundle, files, envs, last, stack, caddy, faults>>

\* write_managed_block
Managed == <<"begin", "block", "end">>
\* Mutant: awk stops printing at the first marker.
SplicedShort == SubSeq(shared, 1, RegionStart - 1) \o Managed
Spliced ==
  SubSeq(shared, 1, RegionStart - 1) \o Managed
    \o SubSeq(shared, RegionEnd + 1, Len(shared))

WriteShared ==
  /\ At("shared")
  /\ IF shared # << >> /\ Has("begin") /\ Has("end")
     THEN shared' = Spliced /\ UNCHANGED saved
     ELSE /\ shared' = Managed \o <<"hint">>
          /\ saved' = saved \cup {shared[i] : i \in DOMAIN shared}
  /\ Goto("proxy")
  /\ UNCHANGED <<bundle, files, envs, last, image, stack, written, sites, faults>>

\* the subnet of the Caddy network takes the place of the placeholder
DetectSubnet ==
  /\ At("proxy")
  /\ env' = [env EXCEPT !.open = FALSE] /\ genenv' = [genenv EXCEPT !.open = FALSE]
  /\ Goto("snippet")
  /\ UNCHANGED <<bundle, files, mine, last, image, stack, caddy, faults>>

WriteSnippet ==
  /\ At("snippet")
  /\ sites' = [sites EXCEPT !.file = bundle.version]
  /\ Goto("reload")
  /\ UNCHANGED <<bundle, files, envs, last, image, stack, shared, saved, written, faults>>

Reload ==
  /\ At("reload")
  /\ sites' = [sites EXCEPT !.loaded = sites.file]
  /\ Goto("up")
  /\ UNCHANGED <<bundle, files, envs, last, image, stack, shared, saved, written, faults>>

\* up -d --force-recreate --remove-orphans
\* Mutant: without --remove-orphans.
UpWithOrphans ==
  /\ At("up")
  /\ stack' = [s \in Services |->
                 IF s \in ServicesOf(bundle.mode, bundle.goat)
                 THEN <<image, placed[Compose(bundle.mode)]>> ELSE stack[s]]
  /\ Goto("health")
  /\ UNCHANGED <<bundle, files, envs, last, image, caddy, faults>>
Up ==
  /\ At("up")
  /\ stack' = [s \in Services |->
                 IF s \in ServicesOf(bundle.mode, bundle.goat)
                 THEN <<image, placed[Compose(bundle.mode)]>> ELSE Absent]
  /\ Goto("health")
  /\ UNCHANGED <<bundle, files, envs, last, image, caddy, faults>>

\* some containers were recreated, some orphans removed
UpFails ==
  /\ At("up") /\ Fault
  /\ \E some \in SUBSET Services :
       stack' = [s \in Services |->
                   IF s \notin some THEN stack[s]
                   ELSE IF s \in ServicesOf(bundle.mode, bundle.goat)
                   THEN <<image, placed[Compose(bundle.mode)]>> ELSE Absent]
  /\ Goto("failed")
  /\ UNCHANGED <<bundle, files, envs, last, image, caddy>>

\* only a healthy stack is remembered
Healthy ==
  /\ At("health")
  /\ last' = bundle.mode
  /\ Goto("done")
  /\ UNCHANGED <<bundle, files, envs, image, stack, caddy, faults>>

\* a command fails, the health check times out, or the script is killed
Fails ==
  /\ ~Stopped /\ Fault
  /\ Goto("failed")
  /\ UNCHANGED <<bundle, files, envs, last, image, stack, caddy>>

Script ==
  \/ Start \/ Place \/ KilledAfterCopy \/ PlaceMissing \/ SeedOrStrip \/ AppendKeys
  \/ Teardown \/ LoadImage \/ WriteShared \/ DetectSubnet \/ WriteSnippet
  \/ Reload \/ Up \/ UpFails \/ Healthy \/ Fails

Next ==
  \/ \E mode \in Modes, goat \in BOOLEAN : Upload(mode, goat)
  \/ EditEnv
  \/ \E l \in Lines, i \in 1..Len(shared) + 1 : WriteLine(l, i)
  \/ \E marker \in {"begin", "end"} : DropMarker(marker)
  \/ Script

Spec == Init /\ [][Next]_vars

----------------------------------------------------------------------------
TypeOK ==
  /\ bundle \in [mode: Modes \cup {None}, goat: BOOLEAN, version: 0..MaxBundles]
  /\ {gen, placed, bak} \subseteq [Files -> 0..MaxBundles]
  /\ env \in [own: 0..Edited, managed: 0..MaxBundles, open: BOOLEAN]
  /\ genenv \in [managed: 0..MaxBundles, open: BOOLEAN]
  /\ mine \in 0..Edited /\ last \in Modes \cup {None} /\ image \in 0..MaxBundles
  /\ stack \in [Services -> (0..MaxBundles) \X (0..MaxBundles)]
  /\ shared \in Seq(Lines \cup {"begin", "block", "end", "hint"})
  /\ written \subseteq Lines
  /\ saved \subseteq Lines \cup {"begin", "block", "end", "hint"}
  /\ sites \in [file: 0..MaxBundles, loaded: 0..MaxBundles]
  /\ run.i \in 1..2 /\ faults \in 0..MaxFaults

\* A setup that ends well runs exactly the services of the newest bundle, from
\* its image and its files, with its environment keys and, behind the shared
\* Caddy, its site and a real subnet, whatever the runs before it left behind.
SuccessIsComplete ==
  At("done") =>
    LET v == bundle.version IN
    /\ \A s \in Services :
         stack[s] = IF s \in ServicesOf(bundle.mode, bundle.goat) THEN <<v, v>> ELSE Absent
    /\ \A f \in Placeable(bundle.mode) : placed[f] = v
    /\ env.managed = v /\ ~env.open
    /\ bundle.mode = "external" => sites.loaded = v

\* What the operator wrote into .env.production, first of all the keys that
\* decrypt the database, survives every setup, also one killed while it merges.
OperatorKeysKept == env.own = mine

\* Every line the operator wrote outside the markers of the shared Caddyfile is
\* still there or in a backup (write_managed_block).
SharedLinesKept == \A l \in written : Has(l) \/ l \in saved

\* What runs is left alone until the new configuration is whole: containers change
\* only once every file and key of the bundle is in place.
StackWaitsForFiles ==
  [][stack' # stack =>
       /\ \A f \in Placeable(bundle.mode) : placed[f] = bundle.version
       /\ env.managed = bundle.version]_vars

\* "safe to re-run (idempotent)": a bundle copied as a whole is never found to
\* be incomplete.
RerunIsSafe == ~At("incomplete")
=============================================================================
