----------------------------- MODULE MCPipeline -----------------------------
(***************************************************************************)
(* Two runs over one profile directory, asked for the same or for          *)
(* different things.                                                       *)
(***************************************************************************)
EXTENDS Pipeline, TLC

MCSymmetry == Permutations(Runs)

MCEngines == {"vllm", "llamacpp"}
MCQuants == [b \in MCEngines |-> IF b = "vllm" THEN {"bf16", "awq"} ELSE {"q4"}]

Plain == [objective |-> "balanced", percentile |-> 95, force |-> "none", quants |-> {"auto"}, power |-> "off",
          phases |-> "unified", layout |-> "single", recalibrate |-> FALSE, skip |-> FALSE]

\* The commands: as it stands, at the median, forced, recalibrated, unmeasured, phased both ways,
\* laid out both ways, and phased and laid out at once.
MCRequests ==
  { Plain,
    [Plain EXCEPT !.force = "llamacpp"],
    [Plain EXCEPT !.recalibrate = TRUE],
    [Plain EXCEPT !.skip = TRUE],
    [Plain EXCEPT !.phases = "disaggregated"],
    [Plain EXCEPT !.phases = "auto", !.power = "cap"],
    [Plain EXCEPT !.layout = "tp"],
    [Plain EXCEPT !.layout = "auto"],
    [Plain EXCEPT !.phases = "auto", !.layout = "auto"],
    [Plain EXCEPT !.percentile = 50, !.quants = {"auto", "awq"}] }

\* The same phased command, at two percentiles.
MCPhasedRequests ==
  { [Plain EXCEPT !.phases = "auto"],
    [Plain EXCEPT !.phases = "auto", !.percentile = 50] }

=============================================================================
