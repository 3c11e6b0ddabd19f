-------------------------- MODULE MCExportValidate --------------------------
(***************************************************************************)
(* Instances of ExportValidate: three types, the smallest chunk size that  *)
(* splits, at most two exports and one validation.                         *)
(***************************************************************************)
EXTENDS ExportValidate

Types == <<"string", "zset", "geo">>

Key(db, tag, geo, size, plain) ==
  [db |-> db, tag |-> tag, geo |-> geo, size |-> size, plain |-> plain,
   known |-> TRUE]

Unsupported(db) == [Key(db, "string", FALSE, 1, FALSE) EXCEPT !.known = FALSE]

Dump(keys, damage) == [keys |-> keys, damage |-> damage]

CommandLine(shard, db, cap) ==
  [program |-> "export", usable |-> TRUE, shard |-> shard,
   format |-> "parquet", db |-> db, types |-> None, cap |-> cap,
   heuristics |-> {"geo"}]

Older(tag, shard) ==
  (FileName(tag, shard, "parquet") :>
     [footer |-> TRUE, rows |-> 1, holds |-> {<<0, 0>>}, heuristics |-> {"geo"}])

-----------------------------------------------------------------------------
\* Two databases, exported in parallel: sorted sets, one of them geo.
TwoDbs == << Key(0, "zset", FALSE, 1, TRUE), Key(1, "zset", TRUE, 2, TRUE) >>

ParallelScenarios ==
  {[dump |-> Dump(TwoDbs, "none"), files |-> <<>>,
    faults |-> {"kill", "close"}, reruns |-> 1,
    args |-> ("e1" :> CommandLine("a", 0, DefaultCap)
              @@ "e2" :> CommandLine("b", 1, DefaultCap))]}

-----------------------------------------------------------------------------
\* One export with every combination of the options that choose what is
\* written, into a directory that may have older files: strings, an
\* unsupported key, empty, small, compact and split sorted sets.
AllKinds == << Key(0, "string", FALSE, 1, FALSE), Unsupported(1),
               Key(0, "zset", TRUE, 0, TRUE), Key(1, "zset", TRUE, 2, TRUE),
               Key(1, "zset", FALSE, 1, TRUE), Key(1, "zset", TRUE, 3, TRUE) >>

IoFaults == {"open", "read", "directory", "create", "write"}

WithOptions(opts, damage, old) ==
  [dump |-> Dump(AllKinds, damage), files |-> old, faults |-> IoFaults,
   reruns |-> 0, args |-> ("e1" :> opts)]

Plain == CommandLine(None, None, DefaultCap)

ToParquet == [Plain EXCEPT !.program = "to_parquet"]

Damages == {"none", "header", "end", "trailer"}

OptionScenarios ==
  {WithOptions([Plain EXCEPT !.db = db, !.types = types, !.cap = cap],
               "none", <<>>) :
     db \in {None, 1}, types \in {None, {"geo"}, {"string", "geo"}},
     cap \in {None, 1, 2}}
  \cup {WithOptions([Plain EXCEPT !.types = types, !.heuristics = {}],
                    "none", <<>>) : types \in {None, {"zset", "geo"}}}
  \cup {WithOptions([Plain EXCEPT !.heuristics = heur], "none", Older(tag, None)) :
          heur \in {{}, {"geo"}}, tag \in Tags}
  \cup {WithOptions([Plain EXCEPT !.shard = "a", !.format = format], damage, <<>>) :
          format \in {"parquet", "csv"}, damage \in Damages}
  \cup {WithOptions([ToParquet EXCEPT !.cap = cap], damage, <<>>) :
          cap \in {None, DefaultCap}, damage \in Damages}
  \cup {WithOptions([opts EXCEPT !.usable = FALSE], "none", <<>>) :
          opts \in {Plain, ToParquet}}

\* A failing close after a failing write or read, by either program.
CloseScenarios ==
  {[dump |-> Dump(TwoDbs, "end"), files |-> <<>>,
    faults |-> {"read", "write", "close"}, reruns |-> 0,
    args |-> ("e1" :> opts)] : opts \in {Plain, ToParquet}}

AllScenarios == ParallelScenarios \cup OptionScenarios \cup CloseScenarios

-----------------------------------------------------------------------------
ChunkScenarios ==
  {[dump |-> Dump(<< Key(0, "zset", TRUE, 3, TRUE) >>, "none"), files |-> <<>>,
    faults |-> {}, reruns |-> 0,
    args |-> ("e1" :> CommandLine(None, None, cap))] :
     cap \in {None, 1, 2, 3}}
=============================================================================
