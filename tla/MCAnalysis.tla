------------------------------ MODULE MCAnalysis ------------------------------
(***************************************************************************)
(* Instances of Analysis for TLC.                                          *)
(***************************************************************************)
EXTENDS Analysis

\* The default providers but optical_sar's, whose capability has none here.
MCOffered ==
  << [name |-> "Qwen2.5-VL-3B", model |-> "qwen2.5vl-3b",
      capabilities |-> {"single_image_vqa"}],
     [name |-> "change", model |-> "change-deterministic", capabilities |-> {"change_vqa"}],
     [name |-> "grounding", model |-> "grounding-dino-swint", capabilities |-> {"grounding"}],
     [name |-> "change", model |-> "change-deterministic", capabilities |-> {"change_vqa"}] >>

\* A live single-scene question of an optical scene.
Plain(c) == [capability |-> c, combined |-> FALSE, sar |-> FALSE, pair |-> FALSE,
             live |-> TRUE, golden |-> FALSE]

MCInputs ==
  { Plain("single_image_vqa"),
    [Plain("single_image_vqa") EXCEPT !.sar = TRUE],
    [Plain("single_image_vqa") EXCEPT !.golden = TRUE],
    [Plain("single_image_vqa") EXCEPT !.golden = TRUE, !.live = FALSE],
    [Plain("change_vqa") EXCEPT !.pair = TRUE],
    [Plain("change_vqa") EXCEPT !.pair = TRUE, !.combined = TRUE],
    [Plain("change_vqa") EXCEPT !.pair = TRUE, !.combined = TRUE, !.live = FALSE, !.golden = TRUE],
    [Plain("optical_sar") EXCEPT !.pair = TRUE, !.live = FALSE],
    Plain("optical_sar") }
=============================================================================
