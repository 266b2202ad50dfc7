-------------------------- MODULE MCPipelineEngine --------------------------
(* PipelineEngine for the command line: one collector pair, two sequential *)
(* nodes per wave, one reconsiderer, filter and exporter.                  *)
EXTENDS PipelineEngine

CONSTANTS k1, k2, k3, h1

MCSubmission == {[k \in Key |-> IF k \in ks THEN [n |-> 1, ev |-> {}] ELSE NoEntry] :
                    ks \in {{}, {k1}, {k1, k2}}}
MCNodes == [p \in NodePhase |-> IF p \in WavePhase THEN 2 ELSE 1]

=============================================================================
