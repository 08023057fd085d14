------------------------------ MODULE Pipeline ------------------------------
(***************************************************************************)
(* From a request to the profile that is served: resolve_profile of        *)
(* polyserve/pipeline.py, over the profile cache of polyserve/cache.py,    *)
(* with what disagg.py and layout.py make of a unified profile.            *)
(*                                                                         *)
(* Runs of the program share the profile directory.  Each reads the        *)
(* machine once, looks for a profile, calibrates when there is none, and   *)
(* writes what it found to a temporary file that it renames.  A phased or  *)
(* a multi-GPU run resolves the unified profile first, inside its own      *)
(* lookup and save.  A run may be killed at any step, and between runs a   *)
(* backend may be upgraded or removed.                                     *)
(*                                                                         *)
(* What a calibration measures is Search's business: here it returns any   *)
(* backend and precision the request allows, or fails.                     *)
(***************************************************************************)
EXTENDS Integers, FiniteSets

CONSTANTS
  Runs,          \* the runs of the program
  Requests,      \* what a run may be asked for
  Engines,       \* the backends
  Quants,        \* Quants[b]: the precisions of a backend
  Gpus,          \* how many NVIDIA GPUs the machine may have
  MaxChanges,    \* bound: the upgrades and removals
  MaxKills       \* bound: the runs that are killed

PhasesAsked == {"unified", "disaggregated", "auto"}
LayoutsAsked == {"single", "replicas", "tp", "auto"}
PowersAsked == {q.power : q \in Requests} \cup {"off"}

\* A request is the options of a command that the cache and the calibration depend on.
ASSUME RequestsAssumption ==
  Requests \subseteq [objective : {q.objective : q \in Requests}, percentile : {q.percentile : q \in Requests},
                      force : Engines \cup {"none"}, quants : {q.quants : q \in Requests}, power : PowersAsked,
                      phases : PhasesAsked, layout : LayoutsAsked, recalibrate : BOOLEAN, skip : BOOLEAN]
ASSUME EnginesAssumption == "none" \notin Engines /\ "vllm" \in Engines
ASSUME ChangesAssumption == MaxChanges \in Nat /\ MaxKills \in Nat

VARIABLES
  version,       \* version[b]: what is installed, 0 for nothing
  gpus,          \* the GPUs of the machine
  dir,           \* dir[p]: the file at a profile's path, or NoFile
  tmp,           \* tmp[p]: the file at its temporary name, or NoFile
  file,          \* file[f]: [state, profile], state "empty", "half", "torn" or "whole"
  rpc,           \* rpc[r]: where the run is
  rq,            \* rq[r]: its request
  seen,          \* seen[r]: the machine as it probed it
  prof,          \* prof[r]: the profile in hand
  fd,            \* fd[r]: the file it is writing
  raced,         \* paths that two runs were saving at once
  changes, kills \* bounds

dvars == <<dir, tmp, file, raced>>
mvars == <<version, gpus, changes>>
plvars == <<version, gpus, dir, tmp, file, rpc, rq, seen, prof, fd, raced, changes, kills>>

\* Every run writes at most two files: of the unified profile, and of what is built around it.
NoFile == <<"none", "none">>
Files == Runs \X {"unified", "outer"}

NoProfile == [backend |-> "none"]
NoRequest == [phases |-> "unified", layout |-> "single"]
AutoQuant == "auto"
PreQuantized == {"awq"}

-----------------------------------------------------------------------------
(* Names and keys.                                                         *)

\* The options that change the pick; the percentile is one of them for the objective with a ceiling.
OptionsKey(q, objective) ==
  [quants |-> q.quants, layout |-> "single",
   ttft |-> IF objective = "balanced" /\ q.percentile # 50 THEN q.percentile ELSE 50]

ProfilePath(objective, power, phases, options) ==
  [objective |-> objective, power |-> power, phases |-> phases, options |-> options]

\* A unified lookup under a key that does not know the objective.
UnifiedPath_NoObjective(q) == ProfilePath(q.objective, q.power, "unified", OptionsKey(q, "none"))

UnifiedPath(q) == ProfilePath(q.objective, q.power, "unified", OptionsKey(q, q.objective))

\* The lookup of a phased run leaves the objective out of the key.
PhasedPath(q) == ProfilePath(q.objective, q.power, q.phases, OptionsKey(q, "none"))

LayoutPath(q) ==
  ProfilePath(q.objective, q.power, "unified", [OptionsKey(q, q.objective) EXCEPT !.layout = q.layout])

\* Where a profile is saved: what it says of itself.
SavePath(p) == ProfilePath(p.objective, p.power, p.phases, p.options)

IsPhased(q) == q.phases # "unified" /\ ~q.skip
IsLayout(q) == q.layout # "single" /\ ~q.skip

OuterPath(q) == IF IsPhased(q) THEN PhasedPath(q) ELSE LayoutPath(q)

\* The request of the unified profile inside a phased or a multi-GPU one.
Inner(q) ==
  IF IsPhased(q)
  THEN [q EXCEPT !.force = IF @ = "none" /\ q.phases = "disaggregated" THEN "vllm" ELSE @,
                 !.power = IF q.phases = "auto" THEN @ ELSE "off"]
  ELSE q

\* Every path some request may read or write.
PathsOf(q) ==
  { ProfilePath(q.objective, power, kind[1], [OptionsKey(q, o) EXCEPT !.layout = kind[2]]) :
      power \in {Inner(q).power, q.power}, o \in {"none", q.objective},
      kind \in {<<"unified", "single">>, <<q.phases, q.layout>>} }
Paths == UNION {PathsOf(q) : q \in Requests}

Allowed(q, b) == {x \in Quants[b] : x \in q.quants \/ (AutoQuant \in q.quants /\ x \notin PreQuantized)}

-----------------------------------------------------------------------------
(* Reading the cache.                                                      *)

\* A backend that was upgraded or removed since makes its profile invalid.
Valid_AnyVersion(p, machine) == machine[p.backend] # 0

Valid(p, machine) == machine[p.backend] # 0 /\ p.version = machine[p.backend]

OnFile(path) == dir[path] # NoFile /\ file[dir[path]].state = "whole"

Cached(path, machine) == OnFile(path) /\ Valid(file[dir[path]].profile, machine)

\* A cached profile that is served whatever backend is forced.
Usable_AnyBackend(p, q) == \E b \in Engines : p.quant \in Allowed(q, b)

Usable(p, q) == (q.force = "none" \/ p.backend = q.force) /\ \E b \in Engines : p.quant \in Allowed(q, b)

Hit(path, machine, q) == Cached(path, machine) /\ Usable(file[dir[path]].profile, q)

-----------------------------------------------------------------------------
Init ==
  /\ version = [b \in Engines |-> 1]
  /\ gpus \in Gpus
  /\ dir = [p \in Paths |-> NoFile]
  /\ tmp = [p \in Paths |-> NoFile]
  /\ file = [f \in Files |-> [state |-> "empty", profile |-> NoProfile]]
  /\ rpc = [r \in Runs |-> "off"]
  /\ rq = [r \in Runs |-> NoRequest]
  /\ seen = [r \in Runs |-> version]
  /\ prof = [r \in Runs |-> NoProfile]
  /\ fd = [r \in Runs |-> NoFile]
  /\ raced = {}
  /\ changes = 0
  /\ kills = 0

Goto(r, pc) == rpc' = [rpc EXCEPT ![r] = pc]

\* The machine is read, and the request says which way the run goes.
Begin(r, q) ==
  /\ rpc[r] = "off"
  /\ rq' = [rq EXCEPT ![r] = q]
  /\ seen' = [seen EXCEPT ![r] = version]
  /\ Goto(r, IF q.phases # "unified" /\ q.layout # "single" THEN "raised"
             ELSE IF IsPhased(q) \/ IsLayout(q) THEN "outer"
             ELSE IF q.skip \/ q.recalibrate THEN "select" ELSE "lookup")
  /\ UNCHANGED <<mvars, dvars, prof, fd, kills>>

\* The lookup of a phased or a multi-GPU run.
OuterHit(r) ==
  /\ rpc[r] = "outer" /\ ~rq[r].recalibrate
  /\ Hit(OuterPath(rq[r]), seen[r], rq[r])
  /\ prof' = [prof EXCEPT ![r] = file[dir[OuterPath(rq[r])]].profile]
  /\ Goto(r, "served")
  /\ UNCHANGED <<mvars, dvars, rq, seen, fd, kills>>

\* What is asked for in so many words is refused before anything is measured.
Refused(q, machine) ==
  \/ q.phases = "disaggregated" /\ (gpus < 2 \/ machine["vllm"] = 0)
  \/ IsLayout(q) /\ q.layout # "auto" /\ gpus < 2

OuterMiss(r) ==
  /\ rpc[r] = "outer"
  /\ rq[r].recalibrate \/ ~Hit(OuterPath(rq[r]), seen[r], rq[r])
  /\ Goto(r, IF Refused(rq[r], seen[r]) THEN "raised" ELSE IF rq[r].recalibrate THEN "select" ELSE "lookup")
  /\ UNCHANGED <<mvars, dvars, rq, seen, prof, fd, kills>>

IsOuter(r) == IsPhased(rq[r]) \/ IsLayout(rq[r])

\* What resolve_profile goes on with once the unified profile is there.
AfterUnified(r) == IF IsOuter(r) THEN "around" ELSE "served"

LookupHit(r) ==
  /\ rpc[r] = "lookup"
  /\ Hit(UnifiedPath(Inner(rq[r])), seen[r], Inner(rq[r]))
  /\ prof' = [prof EXCEPT ![r] = file[dir[UnifiedPath(Inner(rq[r]))]].profile]
  /\ Goto(r, AfterUnified(r))
  /\ UNCHANGED <<mvars, dvars, rq, seen, fd, kills>>

LookupMiss(r) ==
  /\ rpc[r] = "lookup"
  /\ ~Hit(UnifiedPath(Inner(rq[r])), seen[r], Inner(rq[r]))
  /\ Goto(r, "select")
  /\ UNCHANGED <<mvars, dvars, rq, seen, prof, fd, kills>>

\* The engines a calibration may end on: what is forced, or what is installed.
Candidates(q, machine) == IF q.force # "none" THEN {q.force} ELSE {b \in Engines : machine[b] # 0}

NewProfile(q, b, quant, machine) ==
  [backend |-> b, version |-> machine[b], quant |-> quant, objective |-> q.objective, power |-> q.power,
   phases |-> "unified", layout |-> "single", shape |-> "single", options |-> OptionsKey(q, q.objective),
   percentile |-> q.percentile, madeFor |-> q]

Calibrate(r) ==
  /\ rpc[r] = "select" /\ ~rq[r].skip
  /\ \E b \in Candidates(Inner(rq[r]), seen[r]) : \E quant \in Allowed(rq[r], b) :
       /\ seen[r][b] # 0
       /\ prof' = [prof EXCEPT ![r] = [NewProfile(Inner(rq[r]), b, quant, seen[r]) EXCEPT !.madeFor = rq[r]]]
  /\ Goto(r, "save")
  /\ UNCHANGED <<mvars, dvars, rq, seen, fd, kills>>

\* The defaults are served without being measured, and not saved.
Defaults(r) ==
  /\ rpc[r] = "select" /\ rq[r].skip
  /\ \E b \in Candidates(rq[r], seen[r]) : \E quant \in Allowed(rq[r], b) :
       prof' = [prof EXCEPT ![r] = NewProfile(rq[r], b, quant, seen[r])]
  /\ Goto(r, "served")
  /\ UNCHANGED <<mvars, dvars, rq, seen, fd, kills>>

\* No candidate, nothing that fits, or no trial that succeeds.
CalibrateFails(r) ==
  /\ rpc[r] = "select"
  /\ Goto(r, "raised")
  /\ UNCHANGED <<mvars, dvars, rq, seen, prof, fd, kills>>

-----------------------------------------------------------------------------
(* Around the unified profile.                                             *)

\* A fallback of --phases auto or --layout auto keeps the unified profile under the new name.
FellBack(p, q) ==
  IF IsPhased(q) THEN [p EXCEPT !.phases = q.phases, !.madeFor = q]
  ELSE [p EXCEPT !.layout = q.layout, !.options.layout = q.layout, !.madeFor = q]

\* The shapes that may have been measured best; an explicit request leaves only its own.
Shapes(p, q) ==
  CASE q.phases = "disaggregated" -> {"pair"}
    [] q.phases = "auto"          -> {"pair", "single"}
    [] q.layout = "replicas"      -> {"replicas"}
    [] q.layout = "tp"            -> {"tp"}
    [] q.layout = "auto"          -> {"replicas", "single"} \cup (IF p.backend = "vllm" THEN {"tp"} ELSE {})

Impossible(p, q) ==
  \/ gpus < 2
  \/ IsPhased(q) /\ p.backend # "vllm"
  \/ q.layout = "tp" /\ p.backend # "vllm"

Around(r) ==
  /\ rpc[r] = "around" /\ ~Impossible(prof[r], rq[r])
  /\ \E s \in Shapes(prof[r], rq[r]) :
       prof' = [prof EXCEPT ![r] = [FellBack(@, rq[r]) EXCEPT !.shape = s, !.power = rq[r].power]]
  /\ Goto(r, "save")
  /\ UNCHANGED <<mvars, dvars, rq, seen, fd, kills>>

\* It cannot run here, or every trial of it failed.
AroundFails(r) ==
  /\ rpc[r] = "around"
  /\ IF rq[r].phases = "auto" \/ rq[r].layout = "auto"
     THEN /\ prof' = [prof EXCEPT ![r] = FellBack(@, rq[r])]
          /\ Goto(r, "save")
     ELSE /\ Goto(r, "raised")
          /\ UNCHANGED prof
  /\ UNCHANGED <<mvars, dvars, rq, seen, fd, kills>>

-----------------------------------------------------------------------------
(* Writing the cache: save.                                                *)

Target(r) == SavePath(prof[r])

Saving(r) == rpc[r] \in {"open", "half", "rename"}

Part(r) == IF prof[r].phases = "unified" /\ prof[r].layout = "single" THEN "unified" ELSE "outer"

\* Another run has the same file open, or is about to rename it.
Shares(r) == \E s \in Runs \ {r} : Saving(s) /\ Target(s) = Target(r)

\* The temporary name is opened for writing: what is there is truncated.
Opened(r) == IF tmp[Target(r)] = NoFile THEN <<r, Part(r)>> ELSE tmp[Target(r)]

\* A save that writes at the profile's path.
NameOpened_InPlace(r, f) == dir' = [dir EXCEPT ![Target(r)] = f] /\ tmp' = [tmp EXCEPT ![Target(r)] = f]

NameOpened(r, f) == tmp' = [tmp EXCEPT ![Target(r)] = f] /\ UNCHANGED dir

SaveOpen(r) ==
  /\ rpc[r] = "save"
  /\ fd' = [fd EXCEPT ![r] = Opened(r)]
  /\ NameOpened(r, Opened(r))
  /\ file' = [file EXCEPT ![Opened(r)] = [state |-> "empty", profile |-> NoProfile]]
  /\ raced' = IF Shares(r) THEN raced \cup {Target(r)} ELSE raced
  /\ Goto(r, "open")
  /\ UNCHANGED <<mvars, rq, seen, prof, kills>>

SaveHalf(r) ==
  /\ rpc[r] = "open"
  /\ file' = [file EXCEPT ![fd[r]] = [state |-> "half", profile |-> NoProfile]]
  /\ Goto(r, "half")
  /\ UNCHANGED <<mvars, dir, tmp, raced, rq, seen, prof, fd, kills>>

\* The rest of the profile; over what another run wrote into the file, the longer text shows through.
SaveRest(r) ==
  /\ rpc[r] = "half"
  /\ \E state \in (IF Target(r) \in raced THEN {"whole", "torn"} ELSE {"whole"}) :
       file' = [file EXCEPT ![fd[r]] = [state |-> state, profile |-> IF state = "whole" THEN prof[r] ELSE NoProfile]]
  /\ Goto(r, "rename")
  /\ UNCHANGED <<mvars, dir, tmp, raced, rq, seen, prof, fd, kills>>

\* os.replace renames whatever has the temporary name, and raises when another run renamed it first.
SaveReplace(r) ==
  /\ rpc[r] = "rename"
  /\ IF tmp[Target(r)] = NoFile
     THEN Goto(r, "raised") /\ UNCHANGED <<dir, tmp>>
     ELSE /\ dir' = [dir EXCEPT ![Target(r)] = tmp[Target(r)]]
          /\ tmp' = [tmp EXCEPT ![Target(r)] = NoFile]
          /\ Goto(r, IF Part(r) = "unified" THEN AfterUnified(r) ELSE "served")
  /\ fd' = [fd EXCEPT ![r] = NoFile]
  /\ UNCHANGED <<mvars, file, raced, rq, seen, prof, kills>>

-----------------------------------------------------------------------------
(* Around the program.                                                     *)

Kill(r) ==
  /\ kills < MaxKills
  /\ Saving(r)
  /\ kills' = kills + 1
  /\ Goto(r, "killed")
  /\ fd' = [fd EXCEPT ![r] = NoFile]
  /\ UNCHANGED <<mvars, dvars, rq, seen, prof>>

Install(b, v) ==
  /\ changes < MaxChanges
  /\ v \in {0, version[b] + 1} /\ v # version[b]
  /\ version' = [version EXCEPT ![b] = v]
  /\ changes' = changes + 1
  /\ UNCHANGED <<gpus, dvars, rpc, rq, seen, prof, fd, kills>>

Resolve(r) ==
  \/ \E q \in Requests : Begin(r, q)
  \/ OuterHit(r) \/ OuterMiss(r) \/ LookupHit(r) \/ LookupMiss(r)
  \/ Calibrate(r) \/ Defaults(r) \/ CalibrateFails(r) \/ Around(r) \/ AroundFails(r)

Save(r) == SaveOpen(r) \/ SaveHalf(r) \/ SaveRest(r) \/ SaveReplace(r)

Next ==
  \/ \E r \in Runs : Resolve(r) \/ Save(r) \/ Kill(r)
  \/ \E b \in Engines, v \in 0..(MaxChanges + 1) : Install(b, v)

Spec == Init /\ [][Next]_plvars

-----------------------------------------------------------------------------
(* What must hold.                                                         *)

\* The shapes that answer a request: an explicit one is answered by nothing else.
Answers(q) ==
  CASE q.phases = "disaggregated" -> {"pair"}
    [] q.phases = "auto"          -> {"pair", "single"}
    [] q.layout = "auto"          -> {"replicas", "tp", "single"}
    [] OTHER                      -> {q.layout}

\* What a run serves, cached, calibrated or fallen back, is what its own command asked for: a run
\* with --backend, --quant, --power, --phases or --layout is not served what another command left
\* in the cache under the same name, and an explicit --phases or --layout is never dropped quietly.
ServedForRequest ==
  \A r \in Runs : (rpc[r] = "served" /\ ~rq[r].skip) =>
    /\ prof[r].objective = rq[r].objective
    /\ prof[r].quant \in Allowed(rq[r], prof[r].backend)
    /\ rq[r].force \in {"none", prof[r].backend}
    /\ prof[r].power = rq[r].power
    /\ prof[r].shape \in Answers(rq[r])

\* Nothing is served for a backend version the run did not find on the machine, whether the backend
\* was upgraded or removed before the run or between two runs that share the cache.
ServedIsCurrent ==
  \A r \in Runs : (rpc[r] = "served" /\ ~rq[r].skip) =>
    /\ seen[r][prof[r].backend] # 0
    /\ prof[r].version = seen[r][prof[r].backend]

\* A reader may find half a profile, or a mixture of two, only where two runs saved the same profile
\* at once; a run that is killed while it saves leaves what was there.
OnlyARaceTears == \A p \in Paths : (dir[p] # NoFile /\ file[dir[p]].state # "whole") => p \in raced

Command(q) == [q EXCEPT !.recalibrate = FALSE]

\* A profile of the same command, of the kind the lookup wants, is whole and valid on the disk.
OnDiskFor(q, phases, layout, machine) ==
  \E p \in Paths :
    /\ Cached(p, machine)
    /\ Command(file[dir[p]].profile.madeFor) = Command(q)
    /\ file[dir[p]].profile.phases = phases /\ file[dir[p]].profile.layout = layout

\* A lookup of r finds nothing.
Misses(r) ==
  \/ rpc[r] = "lookup" /\ rpc'[r] = "select" /\ OnDiskFor(rq[r], "unified", "single", seen[r])
  \/ rpc[r] = "outer" /\ ~rq[r].recalibrate /\ rpc'[r] \notin {"outer", "served"}
       /\ OnDiskFor(rq[r], rq[r].phases, rq[r].layout, seen[r])

\* A command that is run again, on the same machine, finds what it saved: calibration is not paid
\* for twice. Of the lookups of a unified or a multi-GPU run.
UnphasedFoundAgain == [][\A r \in Runs : ~IsPhased(rq[r]) => ~Misses(r)]_plvars

\* The same of every run, as resolve_profile promises: "Cached profile if valid, else run the full
\* pipeline and cache the result".
FoundAgain == [][\A r \in Runs : ~Misses(r)]_plvars

-----------------------------------------------------------------------------
(* The inductive invariant.                                                *)

Profiles ==
  [backend : Engines, version : Nat, quant : UNION {Quants[b] : b \in Engines},
   objective : {q.objective : q \in Requests}, power : PowersAsked, phases : PhasesAsked, layout : LayoutsAsked,
   shape : {"single", "pair", "replicas", "tp"},
   options : [quants : {q.quants : q \in Requests}, layout : LayoutsAsked, ttft : {q.percentile : q \in Requests} \cup {50}],
   percentile : {q.percentile : q \in Requests}, madeFor : Requests]

TypeOKPipeline ==
  /\ version \in [Engines -> Nat]
  /\ dir \in [Paths -> Files \cup {NoFile}]
  /\ tmp \in [Paths -> Files \cup {NoFile}]
  /\ file \in [Files -> [state : {"empty", "half", "torn", "whole"}, profile : Profiles \cup {NoProfile}]]
  /\ rpc \in [Runs -> {"off", "outer", "lookup", "select", "around", "save", "open", "half", "rename",
                       "served", "raised", "killed"}]
  /\ rq \in [Runs -> Requests \cup {NoRequest}]
  /\ seen \in [Runs -> [Engines -> Nat]]
  /\ prof \in [Runs -> Profiles \cup {NoProfile}]
  /\ fd \in [Runs -> Files \cup {NoFile}]
  /\ \A r \in Runs : Saving(r) <=> fd[r] # NoFile

\* A profile is stored under the name its command looks it up by, and that command may use it.
IsUnified(p) == p.phases = "unified" /\ p.layout = "single"

Filed(p) ==
  /\ p \in Profiles
  /\ p.quant \in Quants[p.backend]
  /\ p.shape \in Answers(p)
  /\ p.layout = p.options.layout
  /\ Usable(p, Inner(p.madeFor))
  /\ p.phases = "unified" =>
       SavePath(p) = IF IsUnified(p) THEN UnifiedPath(Inner(p.madeFor)) ELSE LayoutPath(p.madeFor)

\* What a run has in hand: of the machine it probed, usable for its request, and either the unified
\* profile it asked for or what it built around that.
Fresh(p, machine) == machine[p.backend] # 0 /\ p.version = machine[p.backend]

IsFor(p, q) ==
  /\ p.objective = q.objective /\ p.power = q.power
  /\ p.phases = q.phases /\ p.layout = q.layout

HandOf(r) ==
  /\ rpc[r] # "off" => rq[r] \in Requests
  /\ rpc[r] \notin {"off", "raised"} => rq[r].phases = "unified" \/ rq[r].layout = "single"
  /\ rpc[r] = "outer" => IsOuter(r)
  /\ rpc[r] = "lookup" => ~rq[r].skip
  /\ rpc[r] = "around" => IsOuter(r) /\ IsUnified(prof[r])
  /\ rpc[r] = "save" \/ Saving(r) => ~rq[r].skip /\ Target(r) \in Paths
  /\ rpc[r] = "around" \/ rpc[r] = "save" \/ Saving(r) \/ (rpc[r] = "served" /\ ~rq[r].skip) =>
       /\ Filed(prof[r])
       /\ Fresh(prof[r], seen[r])
       /\ \/ /\ IsUnified(prof[r]) /\ SavePath(prof[r]) = UnifiedPath(Inner(rq[r]))
             /\ Usable(prof[r], Inner(rq[r]))
             /\ rpc[r] = "served" => ~IsOuter(r)
          \/ /\ ~IsUnified(prof[r]) /\ IsFor(prof[r], rq[r])
             /\ Usable(prof[r], rq[r])
             /\ IsOuter(r)

InHand == \A r \in Runs : HandOf(r)

\* A file has one name, and who has it open is saving under that name.
Names(f, p) == dir[p] = f \/ tmp[p] = f

OneName ==
  /\ \A p, q \in Paths : \A f \in Files : Names(f, p) /\ Names(f, q) => p = q
  /\ \A p \in Paths : dir[p] # NoFile => dir[p] # tmp[p]
  /\ \A r \in Runs : Saving(r) => \A p \in Paths : Names(fd[r], p) => p = Target(r)

\* What a run has not written yet is in no use.
Unused(f) == (\A p \in Paths : ~Names(f, p)) /\ (\A r \in Runs : fd[r] # f)

NotYetWritten ==
  \A r \in Runs :
    /\ (rpc[r] \in {"off", "outer", "lookup", "select"} \/ (rpc[r] = "save" /\ Part(r) = "unified")) =>
         Unused(<<r, "unified">>)
    /\ (rpc[r] \in {"off", "outer", "lookup", "select", "around", "save"} \/ (Saving(r) /\ Part(r) = "unified")) =>
         Unused(<<r, "outer">>)

\* Where no two runs saved at once, the one that saves has the temporary name to itself.
Alone ==
  \A r \in Runs : Saving(r) /\ Target(r) \notin raced =>
    /\ tmp[Target(r)] = fd[r]
    /\ rpc[r] = "rename" => file[fd[r]].state = "whole"
    /\ ~Shares(r)

\* What can be read whole is filed where it is.
WellFiled ==
  \A p \in Paths : \A f \in Files :
    Names(f, p) /\ file[f].state = "whole" => Filed(file[f].profile) /\ SavePath(file[f].profile) = p

PipelineInv ==
  TypeOKPipeline /\ InHand /\ OneName /\ NotYetWritten /\ Alone /\ WellFiled /\ OnlyARaceTears
=============================================================================
