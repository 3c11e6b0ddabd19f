--------------------------- MODULE MCWriterPipeline ---------------------------
(***************************************************************************)
(* WriterPipeline for TLC: every sequence of at most MaxResults batches of *)
(* three types and errors, and every callback may fail.                    *)
(***************************************************************************)
EXTENDS WriterPipeline, SequencesExt

CONSTANT MaxResults

Order == <<"string", "list", "zset">>

AllInputs == BoundedSeq({"string", "list", "zset", Failure}, MaxResults)
==============================================================================
