------------------------ MODULE MCAutomationPipeline ------------------------
(* Instances of AutomationPipeline for TLC. *)
EXTENDS AutomationPipeline, TLC

Symmetry == Permutations(Category) \cup Permutations(Product)
=============================================================================
